--------------------------- MODULE WindowsProofs ----------------------------
(***************************************************************************)
(* Theorems about the table of objects and the list of them: they name the *)
(* same objects, in an order in which the workbench is below all windows   *)
(* and the taskbar and the cursor are above, and the active object is one  *)
(* of them.                                                                *)
(*                                                                         *)
(* What an operation does is said in two ways: it keeps the shape of the   *)
(* manager's data and a released entry that was written to (`ghost'),      *)
(* whatever the data are; and it keeps the table and the list sound, up to *)
(* then.  The last part is about the taskbar, and what of it an operation  *)
(* keeps the same.                                                         *)
(***************************************************************************)
EXTENDS InputProofs

(* The list of objects.                                                    *)
List(list) ==
  /\ list \in Seq(Index) /\ Len(list) >= 3
  /\ list[1] = Workbench /\ list[Len(list) - 1] = Taskbar /\ list[Len(list)] = Cursor
  /\ \A p, q \in 1 .. Len(list) : list[p] = list[q] => p = q

Names(list) == {o \in Index : Contains(list, o)}

(* What of that the list keeps while the thread of the taskbar moves an    *)
(* object up, and another one is twice on it.                              *)
Seats(list) ==
  /\ list \in Seq(Index) /\ Len(list) >= 3 /\ list[1] = Workbench
  /\ \A p \in 1 .. Len(list) :
       /\ list[p] = Taskbar <=> p = Len(list) - 1
       /\ list[p] = Cursor <=> p = Len(list)

LEMMA BaseIsIndex ==
  /\ ObjectLimit \in Nat /\ {Workbench, Taskbar, Cursor, Menu} \subseteq Index
  /\ Workbench # Taskbar /\ Workbench # Cursor /\ Workbench # Menu
  /\ Taskbar # Cursor /\ Taskbar # Menu /\ Cursor # Menu
  /\ 0 \notin Index /\ Index \subseteq Nat
BY WindowsAssumption DEF Index, Workbench, Taskbar, Cursor, Menu

LEMMA Joined ==
  ASSUME NEW S, NEW u \in Seq(S), NEW v \in Seq(S)
  PROVE  /\ u \o v \in Seq(S) /\ Len(u \o v) = Len(u) + Len(v)
         /\ \A p \in 1 .. Len(u) : (u \o v)[p] = u[p]
         /\ \A p \in 1 .. Len(v) : (u \o v)[Len(u) + p] = v[p]
OBVIOUS

(* The part of a sequence before a position, and the one after it.         *)
LEMMA Parted ==
  ASSUME NEW S, NEW s \in Seq(S), NEW a \in 1 .. Len(s) + 1
  PROVE  LET u == SubSeq(s, 1, a - 1)
             v == SubSeq(s, a, Len(s)) IN
         /\ u \in Seq(S) /\ Len(u) = a - 1 /\ \A p \in 1 .. a - 1 : u[p] = s[p]
         /\ v \in Seq(S) /\ Len(v) = Len(s) + 1 - a
         /\ \A p \in 1 .. Len(v) : v[p] = s[a - 1 + p]
<1> DEFINE n == Len(s)
           u == SubSeq(s, 1, a - 1)
           v == SubSeq(s, a, n)
<1>1. n \in Nat /\ a \in Nat /\ 1 <= a /\ a <= n + 1
  OBVIOUS
<1>2. u \in Seq(S) /\ Len(u) = a - 1 /\ \A p \in 1 .. a - 1 : u[p] = s[p]
  <2>1. u = [i \in 1 .. a - 1 |-> s[i]]
    BY <1>1
  <2>2. \A i \in 1 .. a - 1 : i \in 1 .. n
    BY <1>1
  <2>3. u \in Seq(S)
    BY <1>1, <2>2
  <2>4. Len(u) = a - 1
    BY <1>1, <2>1
  <2>5. QED
    BY <2>1, <2>3, <2>4
<1>3. v \in Seq(S) /\ Len(v) = n + 1 - a /\ \A p \in 1 .. Len(v) : v[p] = s[a - 1 + p]
  <2>1. v \in Seq(S)
    BY <1>1
  <2>2. Len(v) = n + 1 - a
    BY <1>1
  <2>3. \A p \in 1 .. n + 1 - a : v[p] = s[a + p - 1] /\ a + p - 1 = a - 1 + p
    BY <1>1
  <2>4. QED
    BY <2>1, <2>2, <2>3
<1>4. QED
  BY <1>2, <1>3

InsertedFits(s, a, o, l) ==
  /\ l \in Seq(Index) /\ Len(l) = Len(s) + 1 /\ l[a] = o
  /\ \A p \in 1 .. a - 1 : l[p] = s[p]
  /\ \A p \in a + 1 .. Len(s) + 1 : l[p] = s[p - 1]

LEMMA InsertedAt ==
  ASSUME NEW s, s \in Seq(Index), NEW o \in Index, NEW a \in 1 .. Len(s) + 1,
         NEW l, l = InsertAt(s, a, o)
  PROVE  InsertedFits(s, a, o, l)
<1> DEFINE n == Len(s)
           u == SubSeq(s, 1, a - 1)
           v == SubSeq(s, a, n)
           k == u \o <<o>>
<1>1. n \in Nat /\ a \in Nat /\ 1 <= a /\ a <= n + 1
  OBVIOUS
<1>2. /\ u \in Seq(Index) /\ Len(u) = a - 1 /\ \A p \in 1 .. a - 1 : u[p] = s[p]
      /\ v \in Seq(Index) /\ Len(v) = n + 1 - a /\ \A p \in 1 .. Len(v) : v[p] = s[a - 1 + p]
  BY Parted
<1>3. l = k \o v
  BY DEF InsertAt
<1> HIDE DEF n, u, v
<1>4. <<o>> \in Seq(Index) /\ Len(<<o>>) = 1 /\ <<o>>[1] = o
  OBVIOUS
<1>5. /\ k \in Seq(Index) /\ Len(k) = Len(u) + Len(<<o>>)
      /\ \A p \in 1 .. Len(u) : k[p] = u[p]
      /\ \A p \in 1 .. Len(<<o>>) : k[Len(u) + p] = <<o>>[p]
  <2>1. u \in Seq(Index) /\ <<o>> \in Seq(Index)
    BY <1>2, <1>4
  <2>2. QED
    BY <2>1, Joined
<1>6. Len(k) = a /\ k[a] = o /\ \A p \in 1 .. a - 1 : k[p] = s[p]
  <2>1. k[Len(u) + 1] = <<o>>[1]
    BY <1>4, <1>5
  <2>2. Len(u) + 1 = a
    BY <1>1, <1>2
  <2>3. QED
    BY <1>2, <1>4, <1>5, <2>1, <2>2
<1> HIDE DEF k
<1>7. /\ l \in Seq(Index) /\ Len(l) = Len(k) + Len(v)
      /\ \A p \in 1 .. Len(k) : l[p] = k[p]
      /\ \A p \in 1 .. Len(v) : l[Len(k) + p] = v[p]
  <2>1. k \in Seq(Index) /\ v \in Seq(Index)
    BY <1>2, <1>5
  <2>2. QED
    BY <2>1, <1>3, Joined
<1>8. Len(l) = n + 1
  BY <1>1, <1>2, <1>6, <1>7
<1>9. \A p \in 1 .. a : l[p] = k[p]
  BY <1>6, <1>7
<1>10. l[a] = o /\ \A p \in 1 .. a - 1 : l[p] = s[p]
  BY <1>1, <1>6, <1>9
<1>11. ASSUME NEW p \in a + 1 .. n + 1 PROVE l[p] = s[p - 1]
  <2>1. p - a \in 1 .. Len(v) /\ a + (p - a) = p /\ a - 1 + (p - a) = p - 1
    BY <1>1, <1>2
  <2>2. l[a + (p - a)] = v[p - a] /\ v[p - a] = s[a - 1 + (p - a)]
    BY <2>1, <1>2, <1>6, <1>7
  <2>3. QED
    BY <2>1, <2>2
<1>12. QED
  BY <1>3, <1>7, <1>8, <1>10, <1>11 DEF n, InsertedFits

LEMMA RemovedAt ==
  ASSUME NEW S, NEW s \in Seq(S), NEW a \in 1 .. Len(s),
         NEW l, l = RemoveAt(s, a)
  PROVE  /\ l \in Seq(S) /\ Len(l) = Len(s) - 1
         /\ \A p \in 1 .. a - 1 : l[p] = s[p]
         /\ \A p \in a .. Len(s) - 1 : l[p] = s[p + 1]
<1> DEFINE n == Len(s)
           u == SubSeq(s, 1, a - 1)
           v == SubSeq(s, a + 1, n)
<1>1. n \in Nat /\ a \in Nat /\ 1 <= a /\ a <= n /\ a + 1 \in 1 .. n + 1 /\ a \in 1 .. n + 1
  OBVIOUS
<1>2. u \in Seq(S) /\ Len(u) = a - 1 /\ \A p \in 1 .. a - 1 : u[p] = s[p]
  BY <1>1, Parted
<1>3. /\ v \in Seq(S) /\ Len(v) = n + 1 - (a + 1)
      /\ \A p \in 1 .. Len(v) : v[p] = s[a + 1 - 1 + p]
  BY <1>1, Parted
<1>4. l = u \o v
  BY DEF RemoveAt
<1> HIDE DEF n, u, v
<1>5. /\ l \in Seq(S) /\ Len(l) = Len(u) + Len(v)
      /\ \A p \in 1 .. Len(u) : l[p] = u[p]
      /\ \A p \in 1 .. Len(v) : l[Len(u) + p] = v[p]
  <2>1. u \in Seq(S) /\ v \in Seq(S)
    BY <1>2, <1>3
  <2>2. QED
    BY <2>1, <1>4, Joined
<1>6. Len(l) = n - 1
  BY <1>1, <1>2, <1>3, <1>5
<1>7. \A p \in 1 .. a - 1 : l[p] = s[p]
  BY <1>2, <1>5
<1>8. ASSUME NEW p \in a .. n - 1 PROVE l[p] = s[p + 1]
  <2>1. /\ p - (a - 1) \in 1 .. Len(v) /\ (a - 1) + (p - (a - 1)) = p
        /\ a + 1 - 1 + (p - (a - 1)) = p + 1
    BY <1>1, <1>3
  <2>2. /\ l[(a - 1) + (p - (a - 1))] = v[p - (a - 1)]
        /\ v[p - (a - 1)] = s[a + 1 - 1 + (p - (a - 1))]
    BY <2>1, <1>2, <1>3, <1>5
  <2>3. QED
    BY <2>1, <2>2
<1>9. QED
  BY <1>4, <1>5, <1>6, <1>7, <1>8 DEF n

LEMMA InsertFits ==
  ASSUME NEW list, List(list), NEW o \in Index, ~ Contains(list, o),
         NEW l, l = InsertAt(list, Len(list) - 1, o)
  PROVE  /\ List(l)
         /\ Names(l) = Names(list) \union {o}
<1>1. PICK n \in Nat : n = Len(list) /\ n >= 3
  BY DEF List
<1>2. /\ list \in Seq(Index) /\ list[1] = Workbench /\ list[n - 1] = Taskbar
      /\ list[n] = Cursor /\ \A p, q \in 1 .. n : list[p] = list[q] => p = q
  BY <1>1 DEF List
<1>3. \A p \in 1 .. n : list[p] # o
  BY <1>1 DEF Contains
<1>4. n - 1 \in 1 .. n + 1 /\ n - 1 + 1 = n /\ n - 1 - 1 = n - 2
  BY <1>1
<1>5. /\ l \in Seq(Index) /\ Len(l) = n + 1 /\ l[n - 1] = o
      /\ \A p \in 1 .. n - 2 : l[p] = list[p]
      /\ \A p \in n .. n + 1 : l[p] = list[p - 1]
  <2>1. list \in Seq(Index)
    BY <1>2
  <2>2. Len(list) - 1 \in 1 .. Len(list) + 1
    BY <1>1, <1>4
  <2>3. InsertedFits(list, Len(list) - 1, o, l)
    BY <2>1, <2>2, InsertedAt
  <2>4. /\ l \in Seq(Index) /\ Len(l) = Len(list) + 1 /\ l[Len(list) - 1] = o
        /\ \A p \in 1 .. Len(list) - 1 - 1 : l[p] = list[p]
        /\ \A p \in Len(list) - 1 + 1 .. Len(list) + 1 : l[p] = list[p - 1]
    BY <2>3, Zenon DEF InsertedFits
  <2>5. QED
    BY <2>4, <1>1, <1>4
<1> DEFINE At(p) == IF p < n - 1 THEN p ELSE p - 1
<1>6. \A p \in 1 .. n + 1 : p # n - 1 => l[p] = list[At(p)] /\ At(p) \in 1 .. n
  <2> TAKE p \in 1 .. n + 1
  <2>1. CASE p < n - 1
    BY <2>1, <1>1, <1>5
  <2>2. CASE p > n - 1
    BY <2>2, <1>1, <1>5
  <2>3. QED
    BY <2>1, <2>2, <1>1
<1>7. \A p, q \in 1 .. n + 1 : l[p] = l[q] => p = q
  <2> SUFFICES ASSUME NEW p \in 1 .. n + 1, NEW q \in 1 .. n + 1, l[p] = l[q]
               PROVE  p = q
    OBVIOUS
  <2>1. CASE p # n - 1 /\ q # n - 1
    <3>1. At(p) = At(q)
      BY <2>1, <1>2, <1>6
    <3>2. QED
      BY <3>1, <2>1, <1>1
  <2>2. CASE p = n - 1
    BY <2>2, <1>3, <1>5, <1>6
  <2>3. CASE q = n - 1
    BY <2>3, <1>3, <1>5, <1>6
  <2>4. QED
    BY <2>1, <2>2, <2>3
<1>8. l[1] = Workbench /\ l[n] = Taskbar /\ l[n + 1] = Cursor
  <2>1. 1 \in 1 .. n - 2 /\ n \in n .. n + 1 /\ n + 1 \in n .. n + 1 /\ n + 1 - 1 = n
    BY <1>1
  <2>2. l[1] = list[1] /\ l[n] = list[n - 1] /\ l[n + 1] = list[n + 1 - 1]
    BY <2>1, <1>5
  <2>3. QED
    BY <2>1, <2>2, <1>2
<1>9. List(l)
  <2>1. n + 1 - 1 = n /\ n + 1 >= 3
    BY <1>1
  <2>2. QED
    BY <2>1, <1>5, <1>7, <1>8 DEF List
<1>10. ASSUME NEW i PROVE Contains(l, i) <=> Contains(list, i) \/ i = o
  <2>1. ASSUME NEW q \in 1 .. n, list[q] = i PROVE \E p \in 1 .. n + 1 : l[p] = i
    <3>1. CASE q <= n - 2
      BY <3>1, <2>1, <1>1, <1>5
    <3>2. CASE q > n - 2
      <4>1. q + 1 \in n .. n + 1 /\ q + 1 \in 1 .. n + 1 /\ q + 1 - 1 = q
        BY <3>2, <1>1
      <4>2. QED
        BY <4>1, <2>1, <1>5
    <3>3. QED
      BY <3>1, <3>2, <1>1
  <2>2. n - 1 \in 1 .. n + 1 /\ l[n - 1] = o
    BY <1>4, <1>5
  <2>3. ASSUME NEW p \in 1 .. n + 1, l[p] = i, i # o PROVE \E q \in 1 .. n : list[q] = i
    BY <2>3, <1>5, <1>6
  <2>4. QED
    BY <2>1, <2>2, <2>3, <1>1, <1>5 DEF Contains
<1>11. QED
  BY <1>9, <1>10 DEF Names

LEMMA WithoutFits ==
  ASSUME NEW list, List(list), NEW o \in Index, Contains(list, o),
         o \notin {Workbench, Taskbar, Cursor}
  PROVE  /\ List(Without(list, o))
         /\ Names(Without(list, o)) = Names(list) \ {o}
<1> DEFINE a == CHOOSE p \in DOMAIN list : list[p] = o
           l == Without(list, o)
<1>1. PICK n \in Nat : n = Len(list) /\ n >= 3
  BY DEF List
<1>2. /\ list \in Seq(Index) /\ list[1] = Workbench /\ list[n - 1] = Taskbar
      /\ list[n] = Cursor /\ \A p, q \in 1 .. n : list[p] = list[q] => p = q
  BY <1>1 DEF List
<1>3. DOMAIN list = 1 .. n
  BY <1>1, <1>2
<1>4. a \in 1 .. n /\ list[a] = o
  BY <1>1, <1>3 DEF Contains
<1>5. l = RemoveAt(list, a)
  BY DEF Without
<1> HIDE DEF a, l
<1>6. a \in Nat /\ 1 < a /\ a < n - 1
  <2>1. a # 1 /\ a # n - 1 /\ a # n
    BY <1>2, <1>4
  <2>2. QED
    BY <2>1, <1>1, <1>4
<1>7. /\ l \in Seq(Index) /\ Len(l) = n - 1
      /\ \A p \in 1 .. a - 1 : l[p] = list[p]
      /\ \A p \in a .. n - 1 : l[p] = list[p + 1]
  <2>1. list \in Seq(Index) /\ a \in 1 .. Len(list)
    BY <1>1, <1>2, <1>4
  <2>2. /\ l \in Seq(Index) /\ Len(l) = Len(list) - 1
        /\ \A p \in 1 .. a - 1 : l[p] = list[p]
        /\ \A p \in a .. Len(list) - 1 : l[p] = list[p + 1]
    BY <1>5, <2>1, RemovedAt
  <2>3. QED
    BY <1>1, <2>2
<1> DEFINE At(p) == IF p < a THEN p ELSE p + 1
<1>8. \A p \in 1 .. n - 1 : l[p] = list[At(p)] /\ At(p) \in 1 .. n /\ At(p) # a
  <2> TAKE p \in 1 .. n - 1
  <2>1. CASE p < a
    BY <2>1, <1>1, <1>6, <1>7
  <2>2. CASE p >= a
    BY <2>2, <1>1, <1>6, <1>7
  <2>3. QED
    BY <2>1, <2>2, <1>6
<1>9. \A p, q \in 1 .. n - 1 : l[p] = l[q] => p = q
  <2> SUFFICES ASSUME NEW p \in 1 .. n - 1, NEW q \in 1 .. n - 1, l[p] = l[q]
               PROVE  p = q
    OBVIOUS
  <2>1. At(p) = At(q)
    BY <1>2, <1>8
  <2>2. QED
    BY <2>1, <1>1, <1>6
<1>10. l[1] = Workbench /\ l[n - 2] = Taskbar /\ l[n - 1] = Cursor
  <2>1. /\ 1 \in 1 .. a - 1 /\ n - 2 \in a .. n - 1 /\ n - 1 \in a .. n - 1
        /\ n - 2 + 1 = n - 1 /\ n - 1 + 1 = n
    BY <1>1, <1>6
  <2>2. QED
    BY <2>1, <1>2, <1>7
<1>11. List(l)
  <2>1. n - 1 - 1 = n - 2 /\ n - 1 >= 3
    BY <1>1, <1>6
  <2>2. QED
    BY <2>1, <1>7, <1>9, <1>10 DEF List
<1>12. ASSUME NEW i PROVE Contains(l, i) <=> Contains(list, i) /\ i # o
  <2>1. ASSUME NEW q \in 1 .. n, list[q] = i, i # o PROVE \E p \in 1 .. n - 1 : l[p] = i
    <3>1. CASE q < a
      BY <3>1, <2>1, <1>1, <1>6, <1>7
    <3>2. CASE q > a
      <4>1. q - 1 \in a .. n - 1 /\ q - 1 \in 1 .. n - 1 /\ q - 1 + 1 = q
        BY <3>2, <1>1, <1>6
      <4>2. QED
        BY <4>1, <2>1, <1>7
    <3>3. q # a
      BY <2>1, <1>4
    <3>4. QED
      BY <3>1, <3>2, <3>3, <1>6
  <2>2. ASSUME NEW p \in 1 .. n - 1, l[p] = i PROVE i # o /\ \E q \in 1 .. n : list[q] = i
    <3>1. list[At(p)] = i /\ At(p) \in 1 .. n /\ At(p) # a
      BY <2>2, <1>8
    <3>2. QED
      BY <3>1, <1>2, <1>4
  <2>3. QED
    BY <2>1, <2>2, <1>1, <1>7 DEF Contains
<1>13. QED
  BY <1>11, <1>12 DEF l, Names

LEMMA GreatestNumber ==
  ASSUME NEW n \in Nat, NEW S, S \subseteq 1 .. n, S # {}
  PROVE  \E x \in S : \A y \in S : y <= x
<1> DEFINE T == {n - x : x \in S}
<1>1. T \in SUBSET Nat /\ T # {}
  <2>1. \A x \in S : x \in 1 .. n /\ n - x \in Nat
    OBVIOUS
  <2>2. QED
    BY <2>1
<1>2. PICK t \in T : \A u \in T : t <= u
  BY <1>1, LeastNumber
<1>3. PICK x \in S : t = n - x
  OBVIOUS
<1>4. ASSUME NEW y \in S PROVE y <= x
  <2>1. n - y \in T
    OBVIOUS
  <2>2. t <= n - y
    BY <1>2, <2>1
  <2>3. QED
    BY <1>3, <2>2
<1>5. QED
  BY <1>4

-----------------------------------------------------------------------------
(* The table.  The flags that the manager changes on the way are loose;    *)
(* what an object is, the others say, for as long as it is there.          *)
ObjFields == {"flags", "x", "y", "w", "h", "id", "pid", "request", "pointer", "look"}
Loose     == {"visible", "flush", "hide", "destroy"}

Shaped(b) == b = [f \in ObjFields |-> b[f]]

(* The workbench is everywhere, and stays.                                 *)
Bench(b) ==
  /\ {"visible", "fixed_z", "fixed_xy"} \subseteq b.flags
  /\ "fragile" \notin b.flags /\ "minimize" \notin b.request
  /\ b.x = 0 /\ b.y = 0 /\ b.w = Width /\ b.h = Height

Kind(o, b, gone) ==
  /\ Shaped(b)
  /\ "arbiter" \in b.flags <=> o = Taskbar
  /\ "cursor" \in b.flags <=> o = Cursor
  /\ "menu" \in b.flags <=> o = Menu
  /\ b.flags # {} => "exist" \in b.flags \/ o = Menu
  /\ o \in {Workbench, Taskbar, Cursor} => {"exist", "fixed_z"} \subseteq b.flags
  /\ "destroy" \in b.flags => b.pid \in gone
  /\ o \in {Workbench, Cursor} => b.pid = "wm"
  /\ o = Taskbar => b.pid = "bar"
  /\ o = Menu => b.pid = "menu"
  /\ o = Workbench => Bench(b)

Table(obj) == obj = [o \in Index |-> obj[o]]

Kinds(obj, gone) ==
  /\ Table(obj)
  /\ \A o \in Index : Kind(o, obj[o], gone)

Used(obj) == {o \in Index : obj[o].flags # {}}

(* What happens to an object that is there.                                *)
Changed(o, a, b, gone) ==
  /\ Shaped(b) /\ b.pid = a.pid /\ a.flags # {}
  /\ b.flags \ Loose = a.flags \ Loose
  /\ "destroy" \in b.flags => "destroy" \in a.flags \/ b.pid \in gone
  /\ o = Workbench => /\ "visible" \in b.flags /\ "minimize" \notin b.request
                      /\ b.x = a.x /\ b.y = a.y /\ b.w = a.w /\ b.h = a.h

LEMMA KindStays ==
  ASSUME NEW gone, NEW o \in Index, NEW a, NEW b, Kind(o, a, gone), Changed(o, a, b, gone)
  PROVE  Kind(o, b, gone) /\ b.flags # {}
<1>1. \A f : f \notin Loose => (f \in b.flags <=> f \in a.flags)
  BY DEF Changed
<1>2. /\ "arbiter" \in b.flags <=> "arbiter" \in a.flags
      /\ "cursor" \in b.flags <=> "cursor" \in a.flags
      /\ "menu" \in b.flags <=> "menu" \in a.flags
      /\ "exist" \in b.flags <=> "exist" \in a.flags
      /\ "fixed_z" \in b.flags <=> "fixed_z" \in a.flags
      /\ "fixed_xy" \in b.flags <=> "fixed_xy" \in a.flags
      /\ "fragile" \in b.flags <=> "fragile" \in a.flags
  BY <1>1 DEF Loose
<1>3. "exist" \in b.flags \/ o = Menu
  BY <1>2 DEF Kind, Changed
<1>4. b.flags # {}
  BY <1>2, <1>3 DEF Kind
<1>5. o = Workbench => Bench(b)
  BY <1>2 DEF Kind, Changed, Bench
<1>6. QED
  BY <1>2, <1>3, <1>4, <1>5 DEF Kind, Changed

(* Several objects change, or one does.                                    *)
AllChanged(obj, new, gone) ==
  /\ Table(new)
  /\ \A o \in Index : new[o] = obj[o] \/ Changed(o, obj[o], new[o], gone)

LEMMA KindsStay ==
  ASSUME NEW gone, NEW obj, NEW new, Kinds(obj, gone), AllChanged(obj, new, gone)
  PROVE  Kinds(new, gone) /\ Used(new) = Used(obj)
<1>1. ASSUME NEW o \in Index
      PROVE  Kind(o, new[o], gone) /\ (new[o].flags # {} <=> obj[o].flags # {})
  <2>1. Kind(o, obj[o], gone)
    BY DEF Kinds
  <2>2. CASE new[o] = obj[o]
    BY <2>1, <2>2
  <2>3. CASE Changed(o, obj[o], new[o], gone)
    <3>1. Kind(o, new[o], gone) /\ new[o].flags # {}
      BY <2>1, <2>3, KindStays
    <3>2. obj[o].flags # {}
      BY <2>3 DEF Changed
    <3>3. QED
      BY <3>1, <3>2
  <2>4. QED
    BY <2>2, <2>3 DEF AllChanged
<1>2. QED
  BY <1>1 DEF Kinds, AllChanged, Used

LEMMA OneChanges ==
  ASSUME NEW gone, NEW obj, NEW new, NEW i \in Index, NEW b, Kinds(obj, gone),
         new = [obj EXCEPT ![i] = b], Changed(i, obj[i], b, gone)
  PROVE  Kinds(new, gone) /\ Used(new) = Used(obj)
<1>1. Table(obj)
  BY DEF Kinds
<1>2. Table(new) /\ new[i] = b /\ \A o \in Index : o # i => new[o] = obj[o]
  BY <1>1 DEF Table
<1>3. AllChanged(obj, new, gone)
  BY <1>2 DEF AllChanged
<1>4. QED
  BY <1>3, KindsStay

-----------------------------------------------------------------------------
(* The manager.                                                            *)
Fields == {"obj", "list", "ids", "active", "selected", "held", "header", "alt", "zones",
           "picture", "bar", "elements", "entry", "x", "pc", "ghost", "missed", "asked",
           "turn"}

Record(w) == w = [f \in Fields |-> w[f]]

Window == Index \ {Workbench, Taskbar, Cursor}

(* What the thread of the taskbar is at: what it moves up or hides is a    *)
(* window, and it makes room for one only in wm_object_move_up.            *)
Turning == {"at", "obj", "hole", "then"}

Turned(turn) ==
  /\ turn = [f \in Turning |-> turn[f]]
  /\ turn.hole # 0 <=> turn.at = "shift"
  /\ turn.at \in {"search", "shift", "raise", "hide", "hidden"} => turn.obj \in Window
  /\ turn.at \in {"search", "shift", "raise", "look", "focus"}
       => turn.then \in {"open", "show", "entry", "done"}

(* What the thread reads, to know which window it was that was clicked.    *)
Tray(w) == /\ w.elements \in Seq(Window) /\ w.entry \in Nat \ {0} /\ w.x \in Nat
           /\ Turned(w.turn)

SameTray(w, v) ==
  v.elements = w.elements /\ v.entry = w.entry /\ v.x = w.x /\ v.turn = w.turn

(* The list, and with the object that is moved where there is room for it. *)
Laid(list, turn, used) ==
  /\ Seats(list) /\ Names(list) \subseteq used
  /\ LET whole == IF turn.hole = 0 THEN list ELSE [list EXCEPT ![turn.hole] = turn.obj]
     IN List(whole) /\ Names(whole) = used
  /\ turn.hole # 0 => turn.hole \in 1 .. Len(list)

Sound(w, gone) ==
  /\ Record(w)
  /\ Kinds(w.obj, gone)
  /\ Laid(w.list, w.turn, Used(w.obj))
  /\ w.selected \in Index \union {0}
  /\ Tray(w)

Good(w, gone) == Sound(w, gone) /\ w.active \in Used(w.obj)

(* Up to the first collision that loses an object.                         *)
Fine(w, gone) == Record(w) /\ (w.ghost \/ Good(w, gone))

(* What an operation keeps, of data of any kind,                           *)
Keeps(w, v) == Record(v) /\ v.pc = w.pc /\ v.turn = w.turn /\ (w.ghost => v.ghost)

(* and one on objects that are there, of sound data.                       *)
Stays(w, v, gone) == Sound(v, gone) /\ Used(v.obj) = Used(w.obj) /\ v.active = w.active

Aside(w, v) ==
  /\ Record(v) /\ v.list = w.list /\ v.active = w.active
  /\ v.selected = w.selected /\ SameTray(w, v)

LEMMA StaysGood ==
  ASSUME NEW gone, NEW w, NEW v, Good(w, gone), Stays(w, v, gone)
  PROVE  Good(v, gone)
BY DEF Good, Stays

LEMMA AsideStays ==
  ASSUME NEW gone, NEW w, NEW v, Sound(w, gone), Aside(w, v), v.obj = w.obj
  PROVE  Stays(w, v, gone)
BY DEF Sound, Aside, Stays, Tray, SameTray

LEMMA ObjectStays ==
  ASSUME NEW gone, NEW w, NEW v, Sound(w, gone), Aside(w, v), NEW i \in Index, NEW b,
         v.obj = [w.obj EXCEPT ![i] = b], Changed(i, w.obj[i], b, gone)
  PROVE  Stays(w, v, gone)
<1>1. Kinds(w.obj, gone)
  BY DEF Sound
<1>2. Kinds(v.obj, gone) /\ Used(v.obj) = Used(w.obj)
  BY <1>1, OneChanges
<1>3. QED
  BY <1>2 DEF Sound, Aside, Stays, Tray, SameTray

LEMMA AllStay ==
  ASSUME NEW gone, NEW w, NEW v, Sound(w, gone), Aside(w, v), AllChanged(w.obj, v.obj, gone)
  PROVE  Stays(w, v, gone)
<1>1. Kinds(w.obj, gone)
  BY DEF Sound
<1>2. Kinds(v.obj, gone) /\ Used(v.obj) = Used(w.obj)
  BY <1>1, KindsStay
<1>3. QED
  BY <1>2 DEF Sound, Aside, Stays, Tray, SameTray

(* An object of the table.                                                 *)
LEMMA KindOf ==
  ASSUME NEW gone, NEW w, Sound(w, gone), NEW o \in Index
  PROVE  Kind(o, w.obj[o], gone) /\ Shaped(w.obj[o])
BY DEF Sound, Kinds, Kind

LEMMA TableOf ==
  ASSUME NEW gone, NEW w, Sound(w, gone)
  PROVE  Table(w.obj) /\ Record(w)
BY DEF Sound, Kinds

LEMMA BaseIsUsed ==
  ASSUME NEW gone, NEW w, Sound(w, gone)
  PROVE  {Workbench, Taskbar, Cursor, Menu} \subseteq Used(w.obj)
<1>1. \A o \in {Workbench, Taskbar, Cursor, Menu} : o \in Index
  BY BaseIsIndex
<1>2. ASSUME NEW o \in {Workbench, Taskbar, Cursor, Menu} PROVE w.obj[o].flags # {}
  <2>1. Kind(o, w.obj[o], gone)
    BY <1>1, KindOf
  <2>2. "exist" \in w.obj[o].flags \/ "menu" \in w.obj[o].flags
    BY <2>1 DEF Kind
  <2>3. QED
    BY <2>2
<1>3. QED
  BY <1>1, <1>2 DEF Used

LEMMA SetKeeps ==
  ASSUME NEW w, NEW o, NEW F, Record(w)
  PROVE  Keeps(w, Set(w, o, F)) /\ Keeps(w, Clear(w, o, F)) /\ Keeps(w, Expose(w, o))
BY DEF Set, Clear, Expose, Record, Keeps, Fields

LEMMA ExposeStays ==
  ASSUME NEW gone, NEW w, NEW o, Sound(w, gone)
  PROVE  Stays(w, Expose(w, o), gone)
<1> DEFINE v == Expose(w, o)
<1>1. Record(w)
  BY TableOf
<1>2. Aside(w, v) /\ v.obj = w.obj
  BY <1>1 DEF Expose, Record, Aside, Fields, SameTray
<1> HIDE DEF v
<1>3. QED
  BY <1>2, AsideStays DEF v

LEMMA SetStays ==
  ASSUME NEW gone, NEW w, NEW F, Sound(w, gone), NEW o \in Used(w.obj),
         F \subseteq {"visible", "flush"}
  PROVE  Stays(w, Set(w, o, F), gone)
<1> DEFINE v == Set(w, o, F)
           b == [w.obj[o] EXCEPT !.flags = @ \union F]
<1>1. o \in Index /\ w.obj[o].flags # {}
  BY DEF Used
<1>2. Kind(o, w.obj[o], gone) /\ Shaped(w.obj[o]) /\ Record(w)
  BY <1>1, KindOf, TableOf
<1>3. Aside(w, v)
  BY <1>2 DEF Set, Record, Aside, Fields, SameTray
<1>4. v.obj = [w.obj EXCEPT ![o] = b]
  BY <1>2 DEF Set, Record, Fields
<1>5. Changed(o, w.obj[o], b, gone)
  <2>1. Shaped(b) /\ b.pid = w.obj[o].pid /\ b.flags = w.obj[o].flags \union F
    BY <1>2 DEF Shaped, ObjFields
  <2>2. /\ b.request = w.obj[o].request /\ b.x = w.obj[o].x /\ b.y = w.obj[o].y
        /\ b.w = w.obj[o].w /\ b.h = w.obj[o].h
    BY <1>2 DEF Shaped, ObjFields
  <2> HIDE DEF b
  <2>3. b.flags \ Loose = w.obj[o].flags \ Loose /\ "destroy" \notin F
    BY <2>1 DEF Loose
  <2>4. QED
    BY <1>1, <1>2, <2>1, <2>2, <2>3 DEF Changed, Kind, Bench
<1> HIDE DEF v, b
<1>6. QED
  BY <1>1, <1>3, <1>4, <1>5, ObjectStays DEF v

LEMMA ClearStays ==
  ASSUME NEW gone, NEW w, Sound(w, gone), NEW o \in Used(w.obj), o # Workbench
  PROVE  Stays(w, Clear(w, o, {"visible"}), gone)
<1> DEFINE v == Clear(w, o, {"visible"})
           b == [w.obj[o] EXCEPT !.flags = @ \ {"visible"}]
<1>1. o \in Index /\ w.obj[o].flags # {}
  BY DEF Used
<1>2. Kind(o, w.obj[o], gone) /\ Shaped(w.obj[o]) /\ Record(w)
  BY <1>1, KindOf, TableOf
<1>3. Aside(w, v)
  BY <1>2 DEF Clear, Record, Aside, Fields, SameTray
<1>4. v.obj = [w.obj EXCEPT ![o] = b]
  BY <1>2 DEF Clear, Record, Fields
<1>5. Changed(o, w.obj[o], b, gone)
  <2>1. Shaped(b) /\ b.pid = w.obj[o].pid /\ b.flags = w.obj[o].flags \ {"visible"}
    BY <1>2 DEF Shaped, ObjFields
  <2> HIDE DEF b
  <2>2. b.flags \ Loose = w.obj[o].flags \ Loose
    BY <2>1 DEF Loose
  <2>3. QED
    BY <1>1, <2>1, <2>2 DEF Changed
<1> HIDE DEF v, b
<1>6. QED
  BY <1>1, <1>3, <1>4, <1>5, ObjectStays DEF v

-----------------------------------------------------------------------------
(* What is on the list, and where.                                         *)
LEMMA ListIsSeats ==
  ASSUME NEW list, List(list)
  PROVE  Seats(list)
<1>1. list \in Seq(Index) /\ Len(list) >= 3
  BY DEF List
<1>2. Len(list) \in Nat /\ Len(list) - 1 \in 1 .. Len(list) /\ Len(list) \in 1 .. Len(list)
  BY <1>1
<1>3. QED
  BY <1>1, <1>2, BaseIsIndex DEF List, Seats

LEMMA ListOf ==
  ASSUME NEW list, Seats(list)
  PROVE  /\ Len(list) \in Nat /\ Len(list) >= 3 /\ DOMAIN list = 1 .. Len(list)
         /\ \A p \in 1 .. Len(list) : list[p] \in Names(list)
<1>1. list \in Seq(Index) /\ Len(list) >= 3
  BY DEF Seats
<1>2. DOMAIN list = 1 .. Len(list) /\ Len(list) \in Nat /\ \A p \in 1 .. Len(list) : list[p] \in Index
  BY <1>1
<1>3. QED
  BY <1>1, <1>2 DEF Names, Contains

LEMMA NamesOf ==
  ASSUME NEW list, Seats(list), NEW o \in Names(list)
  PROVE  Contains(list, o) /\ o \in Index /\ \E p \in 1 .. Len(list) : list[p] = o
BY DEF Names, Contains

LEMMA BaseIsNamed ==
  ASSUME NEW list, Seats(list)
  PROVE  {Workbench, Taskbar, Cursor} \subseteq Names(list)
<1>1. 1 \in 1 .. Len(list) /\ Len(list) - 1 \in 1 .. Len(list) /\ Len(list) \in 1 .. Len(list)
  BY ListOf
<1>2. list[1] \in Names(list) /\ list[Len(list) - 1] \in Names(list) /\ list[Len(list)] \in Names(list)
  BY <1>1, ListOf
<1>3. list[1] = Workbench
  BY DEF Seats
<1>4. \A p \in 1 .. Len(list) :
        /\ p = Len(list) - 1 => list[p] = Taskbar
        /\ p = Len(list) => list[p] = Cursor
  BY Zenon DEF Seats
<1>5. list[Len(list) - 1] = Taskbar /\ list[Len(list)] = Cursor
  BY <1>1, <1>4
<1>6. QED
  BY <1>2, <1>3, <1>5

(* The taskbar is the one that arbitrates.                                 *)
LEMMA BarIs ==
  ASSUME NEW gone, NEW w, Kinds(w.obj, gone), Seats(w.list), NEW p \in 1 .. Len(w.list)
  PROVE  /\ Has(w, w.list[p], "arbiter") <=> p = Len(w.list) - 1
         /\ Has(w, w.list[p], "cursor") <=> p = Len(w.list)
<1>1. Len(w.list) \in Nat /\ Len(w.list) >= 3 /\ w.list[p] \in Index
  BY ListOf DEF Names
<1>2. Kind(w.list[p], w.obj[w.list[p]], gone)
  BY <1>1 DEF Kinds
<1>3. /\ Has(w, w.list[p], "arbiter") <=> w.list[p] = Taskbar
      /\ Has(w, w.list[p], "cursor") <=> w.list[p] = Cursor
  BY <1>2 DEF Kind, Has
<1>4. /\ w.list[p] = Taskbar <=> p = Len(w.list) - 1
      /\ w.list[p] = Cursor <=> p = Len(w.list)
  BY Zenon DEF Seats
<1>5. QED
  BY <1>3, <1>4

LEMMA ActivateKeeps ==
  ASSUME NEW w, Record(w)
  PROVE  Keeps(w, Activate(w)) /\ Activate(w).obj = w.obj /\ Activate(w).list = w.list
<1> DEFINE bar == {p \in DOMAIN w.list : Has(w, w.list[p], "arbiter")}
           up  == {p \in DOMAIN w.list : /\ Has(w, w.list[p], "visible")
                                          /\ \A q \in bar : p < q}
           i   == w.list[CHOOSE p \in up : \A q \in up : q <= p]
           v   == [w EXCEPT !.active = i]
<1> HIDE DEF i
<1>1. Keeps(w, v) /\ v.obj = w.obj /\ v.list = w.list
  BY DEF Record, Keeps, Fields
<1>2. Keeps(w, w)
  BY DEF Keeps
<1>3. Activate(w) = IF up = {} THEN w ELSE v
  BY DEF Activate, i
<1> HIDE DEF v, up
<1>4. CASE up = {}
  BY <1>2, <1>3, <1>4
<1>5. CASE up # {}
  BY <1>1, <1>3, <1>5
<1>6. QED
  BY <1>4, <1>5

(* wm_object_activate finds an object, the workbench if no other.          *)
LEMMA ActivateFinds ==
  ASSUME NEW gone, NEW w, Sound(w, gone)
  PROVE  Good(Activate(w), gone) /\ Used(Activate(w).obj) = Used(w.obj)
<1> DEFINE n   == Len(w.list)
           bar == {p \in DOMAIN w.list : Has(w, w.list[p], "arbiter")}
           up  == {p \in DOMAIN w.list : /\ Has(w, w.list[p], "visible")
                                          /\ \A q \in bar : p < q}
           at  == CHOOSE p \in up : \A q \in up : q <= p
           v   == [w EXCEPT !.active = w.list[at]]
<1>1. /\ Record(w) /\ Kinds(w.obj, gone) /\ Laid(w.list, w.turn, Used(w.obj))
      /\ w.selected \in Index \union {0} /\ Tray(w)
  BY DEF Sound
<1>2. /\ n \in Nat /\ n >= 3 /\ DOMAIN w.list = 1 .. n
      /\ Seats(w.list) /\ Names(w.list) \subseteq Used(w.obj)
  BY <1>1, ListOf DEF Laid
<1>3. \A p \in 1 .. n : Has(w, w.list[p], "arbiter") <=> p = n - 1
  BY <1>1, <1>2, BarIs
<1>4. 1 \in up
  <2>1. w.list[1] = Workbench /\ Workbench \in Index
    BY <1>2, BaseIsIndex DEF Seats
  <2>2. Kind(Workbench, w.obj[Workbench], gone)
    BY <1>1, <2>1 DEF Kinds
  <2>3. Has(w, w.list[1], "visible")
    BY <2>1, <2>2 DEF Kind, Bench, Has
  <2>4. QED
    BY <2>3, <1>2, <1>3
<1>5. up \subseteq 1 .. n /\ up # {}
  BY <1>2, <1>4
<1>6. v = Activate(w)
  BY <1>5 DEF Activate
<1> HIDE DEF up
<1>7. at \in 1 .. n
  <2>1. \E p \in up : \A q \in up : q <= p
    BY <1>2, <1>5, GreatestNumber
  <2>2. QED
    BY <2>1, <1>5
<1> HIDE DEF at
<1>8. w.list[at] \in Used(w.obj)
  BY <1>2, <1>7, ListOf
<1>9. /\ Record(v) /\ v.obj = w.obj /\ v.list = w.list /\ v.selected = w.selected
      /\ SameTray(w, v) /\ v.active = w.list[at]
  BY <1>1 DEF Record, Fields, SameTray
<1> HIDE DEF v
<1>10. Good(v, gone)
  BY <1>1, <1>8, <1>9 DEF Good, Sound, Tray, SameTray
<1>11. QED
  BY <1>6, <1>9, <1>10

(* While no object is moved the list is whole.                             *)
LEMMA OrderIs ==
  ASSUME NEW list, NEW turn, NEW used, turn.hole = 0
  PROVE  Laid(list, turn, used) <=> List(list) /\ Names(list) = used
BY ListIsSeats DEF Laid

LEMMA TearKeeps ==
  ASSUME NEW w, Record(w)
  PROVE  /\ Keeps(w, Tear(w)) /\ Aside(w, Tear(w)) /\ Tear(w).obj = w.obj
         /\ IF w.turn.hole = 0 THEN Tear(w) = w ELSE Tear(w).ghost
BY DEF Tear, Record, Keeps, Aside, Fields, SameTray

(* wm_object_insert has its place, below the taskbar and the cursor.       *)
LEMMA InsertKeeps ==
  ASSUME NEW w, NEW o, Record(w)
  PROVE  /\ Keeps(w, Insert(w, o)) /\ Insert(w, o).obj = w.obj
         /\ Insert(w, o).active = w.active /\ Insert(w, o).selected = w.selected
         /\ SameTray(w, Insert(w, o)) /\ (w.turn.hole # 0 => Insert(w, o).ghost)
<1> DEFINE u     == Tear(w)
           above == {p \in DOMAIN w.list : Above(w, w.list[p]) /\ ~ Has(w, o, "cursor")}
           at    == IF above = {} THEN Len(w.list) + 1
                    ELSE CHOOSE p \in above : \A q \in above : p <= q
           l     == InsertAt(w.list, at, o)
<1>1. Insert(w, o) = [u EXCEPT !.list = l]
  <2>1. u.list = w.list
    BY TearKeeps DEF Aside
  <2>2. QED
    BY <2>1 DEF Insert
<1>2. /\ Keeps(w, u) /\ Aside(w, u) /\ u.obj = w.obj
      /\ w.turn.hole # 0 => u.ghost
  BY TearKeeps
<1> HIDE DEF l, u
<1>3. QED
  BY <1>1, <1>2 DEF Record, Keeps, Fields, SameTray, Aside

LEMMA InsertIs ==
  ASSUME NEW gone, NEW w, Record(w), Kinds(w.obj, gone), List(w.list), w.turn.hole = 0,
         NEW o \in Index, o # Cursor, ~ Contains(w.list, o)
  PROVE  /\ List(Insert(w, o).list)
         /\ Names(Insert(w, o).list) = Names(w.list) \union {o}
<1> DEFINE n     == Len(w.list)
           above == {p \in DOMAIN w.list : Above(w, w.list[p]) /\ ~ Has(w, o, "cursor")}
           at    == IF above = {} THEN n + 1
                    ELSE CHOOSE p \in above : \A q \in above : p <= q
           l     == InsertAt(w.list, at, o)
<1>1. n \in Nat /\ n >= 3 /\ DOMAIN w.list = 1 .. n /\ Seats(w.list)
  BY ListIsSeats, ListOf
<1>2. ~ Has(w, o, "cursor")
  <2>1. Kind(o, w.obj[o], gone)
    BY DEF Kinds
  <2>2. QED
    BY <2>1 DEF Kind, Has
<1>3. \A p \in 1 .. n : Above(w, w.list[p]) <=> p = n - 1 \/ p = n
  BY <1>1, BarIs DEF Above
<1>4. above = {n - 1, n}
  BY <1>1, <1>2, <1>3
<1>5. at = n - 1
  <2>1. n - 1 \in above /\ \A q \in above : n - 1 <= q
    BY <1>1, <1>4
  <2>2. \A p \in above : (\A q \in above : p <= q) => p = n - 1
    BY <1>1, <1>4
  <2>3. above # {}
    BY <2>1
  <2>4. at \in above /\ \A q \in above : at <= q
    BY <2>1, <2>3
  <2>5. QED
    BY <2>2, <2>4
<1>6. Insert(w, o) = [w EXCEPT !.list = l]
  BY DEF Insert, Tear
<1>7. l = InsertAt(w.list, Len(w.list) - 1, o)
  BY <1>5
<1> HIDE DEF l, n, at, above
<1>8. List(l) /\ Names(l) = Names(w.list) \union {o}
  BY <1>7, InsertFits
<1>9. Insert(w, o).list = l
  BY <1>6 DEF Record, Fields
<1>10. QED
  BY <1>8, <1>9

LEMMA MoveUpKeeps ==
  ASSUME NEW w, NEW o, Record(w)
  PROVE  Keeps(w, MoveUp(w, o))
<1> DEFINE v == [w EXCEPT !.list = Without(@, o)]
<1>1. Keeps(w, v)
  BY DEF Record, Keeps, Fields
<1>2. MoveUp(w, o) = IF Contains(w.list, o) THEN Insert(v, o) ELSE w
  BY DEF MoveUp
<1> HIDE DEF v
<1>3. Keeps(v, Insert(v, o)) /\ Keeps(w, w)
  BY <1>1, InsertKeeps DEF Keeps
<1>4. QED
  BY <1>1, <1>2, <1>3 DEF Keeps

(* wm_object_move_up: what was listed still is, unless the thread of the   *)
(* taskbar moves an object at the time.                                    *)
LEMMA MoveUpStays ==
  ASSUME NEW gone, NEW w, Sound(w, gone), NEW o \in Window
  PROVE  /\ MoveUp(w, o).ghost \/ Stays(w, MoveUp(w, o), gone)
         /\ MoveUp(w, o).obj = w.obj
<1> DEFINE v == [w EXCEPT !.list = Without(w.list, o)]
           u == Insert(v, o)
<1>1. /\ Record(w) /\ Kinds(w.obj, gone) /\ Laid(w.list, w.turn, Used(w.obj))
      /\ w.selected \in Index \union {0} /\ Tray(w)
  BY DEF Sound
<1>2. o \in Index /\ o \notin {Workbench, Taskbar, Cursor}
  BY DEF Window
<1>3. CASE Contains(w.list, o)
  <2>1. /\ Record(v) /\ v.obj = w.obj /\ v.list = Without(w.list, o)
        /\ v.selected = w.selected /\ SameTray(w, v) /\ v.active = w.active
    BY <1>1 DEF Record, Fields, SameTray
  <2>2. MoveUp(w, o) = u
    BY <1>3 DEF MoveUp
  <2> HIDE DEF v
  <2>3. /\ Record(u) /\ u.obj = v.obj /\ u.active = v.active /\ u.selected = v.selected
        /\ SameTray(v, u) /\ (v.turn.hole # 0 => u.ghost)
    BY <2>1, InsertKeeps DEF Keeps
  <2>4. CASE w.turn.hole = 0
    <3>1. List(w.list) /\ Names(w.list) = Used(w.obj) /\ v.turn = w.turn
      BY <1>1, <2>1, <2>4, OrderIs DEF SameTray
    <3>2. List(v.list) /\ Names(v.list) = Names(w.list) \ {o} /\ o \in Names(w.list)
      BY <1>2, <1>3, <2>1, <3>1, WithoutFits DEF Names
    <3>3. ~ Contains(v.list, o)
      BY <1>2, <3>2 DEF Names
    <3>4. List(u.list) /\ Names(u.list) = Names(v.list) \union {o}
      <4>1. Kinds(v.obj, gone) /\ o # Cursor /\ v.turn.hole = 0
        BY <1>1, <1>2, <2>1, <2>4, <3>1
      <4>2. QED
        BY <4>1, <1>2, <2>1, <3>2, <3>3, InsertIs
    <3> HIDE DEF u
    <3>5. Laid(u.list, u.turn, Used(u.obj))
      <4>1. u.turn = w.turn /\ u.obj = w.obj /\ Names(u.list) = Used(w.obj)
        BY <2>1, <2>3, <3>1, <3>2, <3>4 DEF SameTray
      <4>2. QED
        BY <2>4, <3>4, <4>1, OrderIs
    <3>6. Sound(u, gone)
      BY <1>1, <2>1, <2>3, <3>5 DEF Sound, Tray, SameTray
    <3>7. QED
      BY <2>1, <2>2, <2>3, <3>6 DEF Stays
  <2>5. CASE w.turn.hole # 0
    <3> HIDE DEF u
    <3>1. QED
      BY <2>1, <2>2, <2>3, <2>5 DEF SameTray
  <2>6. QED
    BY <2>4, <2>5
<1>4. CASE ~ Contains(w.list, o)
  <2>1. MoveUp(w, o) = w
    BY <1>4 DEF MoveUp
  <2>2. QED
    BY <2>1 DEF Stays
<1>5. QED
  BY <1>3, <1>4

LEMMA RemoveKeeps ==
  ASSUME NEW w, NEW o, Record(w)
  PROVE  /\ Keeps(w, RemoveObject(w, o)) /\ RemoveObject(w, o).active = w.active
         /\ RemoveObject(w, o).obj = [w.obj EXCEPT ![o].flags = {}]
         /\ w.turn.hole # 0 => RemoveObject(w, o).ghost
<1> DEFINE u == Tear(w)
           l == IF Contains(u.list, o) THEN Without(u.list, o) ELSE Front(u.list)
<1>1. /\ Keeps(w, u) /\ Aside(w, u) /\ u.obj = w.obj
      /\ w.turn.hole # 0 => u.ghost
  BY TearKeeps
<1>2. RemoveObject(w, o) = [u EXCEPT !.obj[o].flags = {}, !.list = l]
  BY <1>1 DEF RemoveObject, Record, Fields, Keeps
<1> DEFINE v == [u EXCEPT !.obj[o].flags = {}, !.list = l]
<1> HIDE DEF l, u
<1>3. /\ Record(v) /\ v.pc = u.pc /\ v.turn = u.turn /\ v.ghost = u.ghost
      /\ v.active = u.active /\ v.obj = [u.obj EXCEPT ![o].flags = {}]
  BY <1>1 DEF Record, Keeps, Fields
<1> HIDE DEF v
<1>4. QED
  BY <1>1, <1>2, <1>3 DEF Keeps, Aside, v

(* wm_object_remove, of the window of a client, likewise.                  *)
LEMMA RemoveFits ==
  ASSUME NEW gone, NEW w, Sound(w, gone), NEW o \in Used(w.obj), w.obj[o].pid \in Client
  PROVE  /\ o \in Window
         /\ RemoveObject(w, o).obj[o].flags = {}
         /\ RemoveObject(w, o).obj[o].pid = w.obj[o].pid
         /\ \/ RemoveObject(w, o).ghost
            \/ /\ Sound(RemoveObject(w, o), gone)
               /\ Used(RemoveObject(w, o).obj) = Used(w.obj) \ {o}
               /\ ~ Contains(Whole(RemoveObject(w, o)), o)
<1> DEFINE v == RemoveObject(w, o)
           b == [w.obj[o] EXCEPT !.flags = {}]
<1>1. /\ Record(w) /\ Kinds(w.obj, gone) /\ Laid(w.list, w.turn, Used(w.obj))
      /\ w.selected \in Index \union {0} /\ Tray(w)
  BY DEF Sound
<1>2. o \in Index /\ Kind(o, w.obj[o], gone) /\ Shaped(w.obj[o]) /\ Table(w.obj)
  BY KindOf, TableOf DEF Used
<1>3. o \notin {Workbench, Taskbar, Cursor, Menu} /\ o \in Window
  <2>1. w.obj[o].pid \notin {"wm", "bar", "menu"}
    BY WindowsAssumption
  <2>2. QED
    BY <1>2, <2>1 DEF Kind, Window
<1>4. /\ Keeps(w, v) /\ v.obj = [w.obj EXCEPT ![o] = b]
      /\ w.turn.hole # 0 => v.ghost
  BY <1>1, RemoveKeeps
<1>5. Shaped(b) /\ b.flags = {} /\ b.pid = w.obj[o].pid
  BY <1>2 DEF Shaped, ObjFields
<1> HIDE DEF b
<1>6. /\ Table(v.obj) /\ v.obj[o] = b
      /\ \A i \in Index : i # o => v.obj[i] = w.obj[i]
  <2> HIDE DEF v
  <2>1. QED
    BY <1>2, <1>4 DEF Table
<1>7. CASE w.turn.hole = 0
  <2>1. List(w.list) /\ Names(w.list) = Used(w.obj)
    BY <1>1, <1>7, OrderIs
  <2>2. Contains(w.list, o)
    BY <2>1 DEF Names
  <2>3. /\ v.list = Without(w.list, o) /\ v.selected = w.selected /\ SameTray(w, v)
        /\ v.turn = w.turn
    <3>1. v = [w EXCEPT !.obj[o].flags = {}, !.list = Without(w.list, o)]
      BY <1>1, <1>7, <2>2 DEF RemoveObject, Tear, Record, Fields
    <3>2. QED
      BY <1>1, <3>1 DEF Record, Fields, SameTray
  <2> HIDE DEF v
  <2>4. List(v.list) /\ Names(v.list) = Names(w.list) \ {o}
    BY <1>2, <1>3, <2>1, <2>2, <2>3, WithoutFits
  <2>5. Kind(o, b, gone)
    BY <1>3, <1>5 DEF Kind
  <2>6. Kinds(v.obj, gone)
    BY <1>1, <1>6, <2>5 DEF Kinds
  <2>7. Used(v.obj) = Used(w.obj) \ {o}
    BY <1>5, <1>6 DEF Used
  <2>8. Laid(v.list, v.turn, Used(v.obj))
    BY <1>7, <2>1, <2>3, <2>4, <2>7, OrderIs
  <2>9. Sound(v, gone)
    BY <1>1, <1>4, <2>3, <2>6, <2>8 DEF Sound, Tray, SameTray, Keeps
  <2>10. ~ Contains(v.list, o) /\ Whole(v) = v.list
    BY <1>2, <1>7, <2>3, <2>4 DEF Names, Whole
  <2>11. QED
    BY <1>3, <1>5, <1>6, <2>7, <2>9, <2>10 DEF v
<1>8. CASE w.turn.hole # 0
  BY <1>3, <1>4, <1>5, <1>6, <1>8
<1>9. QED
  BY <1>7, <1>8

-----------------------------------------------------------------------------
(* What is looked for on the list is on it.                                *)
LEMMA PlaceChosen ==
  ASSUME NEW n \in Nat, NEW at, at \subseteq 1 .. n, at # {}
  PROVE  /\ (CHOOSE p \in at : \A q \in at : p <= q) \in 1 .. n
         /\ (CHOOSE p \in at : \A q \in at : q <= p) \in 1 .. n
         /\ (CHOOSE p \in at : \A q \in at : p <= q) \in at
         /\ (CHOOSE p \in at : \A q \in at : q <= p) \in at
<1>1. \E p \in at : \A q \in at : q <= p
  BY GreatestNumber
<1>2. \E p \in at : \A q \in at : p <= q
  <2>1. at \in SUBSET Nat
    OBVIOUS
  <2>2. QED
    BY <2>1, LeastNumber
<1>3. (CHOOSE p \in at : \A q \in at : p <= q) \in at
  BY <1>2
<1>4. (CHOOSE p \in at : \A q \in at : q <= p) \in at
  BY <1>1
<1>5. QED
  BY <1>3, <1>4

LEMMA ByIdFinds ==
  ASSUME NEW gone, NEW w, Sound(w, gone), NEW id
  PROVE  ById(w, id) = 0 \/ ById(w, id) \in Used(w.obj)
<1> DEFINE at == {p \in DOMAIN w.list : w.obj[w.list[p]].id = id}
           p  == CHOOSE i \in at : \A q \in at : i <= q
<1>1. Seats(w.list) /\ Names(w.list) \subseteq Used(w.obj)
  BY DEF Sound, Laid
<1>2. Len(w.list) \in Nat /\ DOMAIN w.list = 1 .. Len(w.list)
  BY <1>1, ListOf
<1>3. ById(w, id) = IF at = {} THEN 0 ELSE w.list[p]
  BY DEF ById
<1>4. at \subseteq 1 .. Len(w.list)
  BY <1>2
<1> HIDE DEF at
<1>5. at # {} => p \in 1 .. Len(w.list)
  BY <1>2, <1>4, PlaceChosen
<1> HIDE DEF p
<1>6. QED
  BY <1>1, <1>3, <1>5, ListOf

(* The lowest window that is not one of the manager's own is below the     *)
(* taskbar.                                                                *)
LEMMA LowestFinds ==
  ASSUME NEW gone, NEW w, Sound(w, gone)
  PROVE  Lowest(w) = 0 \/ Lowest(w) \in Used(w.obj) \intersect Window
<1> DEFINE at == {p \in DOMAIN w.list : ~ Own(w, w.list[p])}
           p  == CHOOSE i \in at : \A q \in at : i <= q
<1>1. Seats(w.list) /\ Names(w.list) \subseteq Used(w.obj)
  BY DEF Sound, Laid
<1>2. Len(w.list) \in Nat /\ DOMAIN w.list = 1 .. Len(w.list)
  BY <1>1, ListOf
<1>3. Lowest(w) = IF at = {} THEN 0 ELSE w.list[p]
  BY DEF Lowest
<1>4. at \subseteq 1 .. Len(w.list) /\ \A q \in at : ~ Own(w, w.list[q])
  BY <1>2
<1> HIDE DEF at
<1>5. at # {} => p \in 1 .. Len(w.list) /\ p \in at
  BY <1>2, <1>4, PlaceChosen
<1> HIDE DEF p
<1>6. ASSUME NEW o \in Used(w.obj), ~ Own(w, o) PROVE o \in Window
  <2>1. o \in Index /\ Kind(o, w.obj[o], gone)
    BY KindOf DEF Used
  <2>2. QED
    BY <1>6, <2>1 DEF Own, Has, Kind, Window
<1>7. CASE at # {}
  <2>1. w.list[p] \in Used(w.obj) /\ ~ Own(w, w.list[p])
    BY <1>1, <1>4, <1>5, <1>7, ListOf
  <2>2. QED
    BY <1>3, <1>6, <1>7, <2>1
<1>8. QED
  BY <1>3, <1>7

(* On the screen, there is an object under the pointer.                    *)
OnScreen(x, y) == x \in 0 .. Width - 1 /\ y \in 0 .. Height - 1

LEMMA FindFinds ==
  ASSUME NEW gone, NEW w, Sound(w, gone), NEW x, NEW y, OnScreen(x, y)
  PROVE  Find(w, x, y) \in Used(w.obj)
<1> DEFINE at == {p \in DOMAIN w.list : /\ Has(w, w.list[p], "visible")
                                         /\ ~ Has(w, w.list[p], "cursor")
                                         /\ Covers(w.obj[w.list[p]], <<x, y>>)}
           p  == CHOOSE i \in at : \A q \in at : q <= i
<1>1. Seats(w.list) /\ Names(w.list) \subseteq Used(w.obj)
  BY DEF Sound, Laid
<1>2. Len(w.list) \in Nat /\ Len(w.list) >= 3 /\ DOMAIN w.list = 1 .. Len(w.list)
  BY <1>1, ListOf
<1>3. Find(w, x, y) = w.list[p]
  BY DEF Find
<1>4. at \subseteq 1 .. Len(w.list)
  BY <1>2
<1>5. 1 \in at
  <2>1. w.list[1] = Workbench /\ Workbench \in Index /\ Workbench # Cursor
    BY <1>1, BaseIsIndex DEF Seats
  <2>2. Kind(Workbench, w.obj[Workbench], gone)
    BY <2>1, KindOf
  <2>3. Bench(w.obj[Workbench]) /\ "cursor" \notin w.obj[Workbench].flags
    BY <2>1, <2>2 DEF Kind
  <2>4. Covers(w.obj[Workbench], <<x, y>>)
    BY <2>3, InputAssumption DEF Bench, Covers, OnScreen
  <2>5. QED
    BY <2>1, <2>3, <2>4, <1>2 DEF Bench, Has
<1> HIDE DEF at
<1>6. p \in 1 .. Len(w.list)
  BY <1>2, <1>4, <1>5, PlaceChosen
<1> HIDE DEF p
<1>7. QED
  BY <1>1, <1>3, <1>6, ListOf

(* A window is made, in an entry that is free.                             *)
LEMMA CreateFits ==
  ASSUME NEW gone, NEW w, Good(w, gone), NEW x, NEW y, NEW width, NEW height, NEW F,
         F \subseteq {"visible", "flush"}, NEW pid
  PROVE  /\ Fine(Create(w, x, y, width, height, F, pid), gone)
         /\ Create(w, x, y, width, height, F, pid).turn = w.turn
         /\ w.ghost => Create(w, x, y, width, height, F, pid).ghost
<1> DEFINE o    == CHOOSE i \in Free(w) : \A j \in Free(w) : i <= j
           id   == (w.ids + 1) % IdMod
           b    == [NoObject EXCEPT !.flags = F \union {"exist"}, !.x = x, !.y = y,
                                    !.w = width, !.h = height, !.id = id, !.pid = pid]
           made == [w EXCEPT !.obj[o] = b, !.ids = id, !.active = o]
           off  == [w EXCEPT !.pc = "crash"]
           v    == Insert(made, o)
<1>1. Create(w, x, y, width, height, F, pid) = IF Free(w) = {} THEN off ELSE v
  BY DEF Create
<1> HIDE DEF id
<1>2. /\ Record(w) /\ Kinds(w.obj, gone) /\ Laid(w.list, w.turn, Used(w.obj))
      /\ w.selected \in Index \union {0} /\ Tray(w)
  BY DEF Sound, Good
<1>3. Fine(off, gone) /\ off.turn = w.turn /\ off.ghost = w.ghost
  <2>1. Aside(w, off) /\ off.obj = w.obj /\ off.ghost = w.ghost
    BY <1>2 DEF Record, Aside, Fields, SameTray
  <2> HIDE DEF off
  <2>2. Stays(w, off, gone)
    BY <2>1, AsideStays DEF Good
  <2>3. QED
    BY <2>1, <2>2, StaysGood DEF Fine, Aside, SameTray
<1>4. ASSUME Free(w) # {} PROVE Fine(v, gone) /\ v.turn = w.turn /\ (w.ghost => v.ghost)
  <2>1. Free(w) \subseteq 1 .. ObjectLimit
    BY DEF Free, Index
  <2>2. o \in Free(w)
    BY <1>4, <2>1, BaseIsIndex, PlaceChosen
  <2>3. o \in Index /\ o \notin Used(w.obj)
    BY <2>2 DEF Free, Used
  <2>4. o \notin {Workbench, Taskbar, Cursor, Menu}
    BY <2>3, BaseIsUsed DEF Good
  <2>5. Shaped(b) /\ b.flags = F \union {"exist"}
    BY DEF NoObject, Shaped, ObjFields
  <2> HIDE DEF b, o
  <2>6. /\ Record(made) /\ made.obj = [w.obj EXCEPT ![o] = b] /\ made.list = w.list
        /\ made.selected = w.selected /\ SameTray(w, made) /\ made.active = o
        /\ made.turn = w.turn /\ made.ghost = w.ghost
    BY <1>2 DEF Record, Fields, SameTray
  <2> HIDE DEF made
  <2>7. /\ Keeps(made, v) /\ v.obj = made.obj /\ v.active = made.active
        /\ v.selected = made.selected /\ SameTray(made, v)
        /\ made.turn.hole # 0 => v.ghost
    BY <2>6, InsertKeeps
  <2>8. Record(v) /\ v.turn = w.turn /\ (w.ghost => v.ghost)
    BY <2>6, <2>7 DEF Keeps
  <2>9. CASE w.turn.hole # 0
    BY <2>6, <2>7, <2>8, <2>9 DEF Fine
  <2>10. CASE w.turn.hole = 0
    <3>1. List(w.list) /\ Names(w.list) = Used(w.obj)
      BY <1>2, <2>10, OrderIs
    <3>2. Kind(o, b, gone)
      BY <2>4, <2>5 DEF Kind
    <3>3. /\ Table(made.obj) /\ made.obj[o] = b
          /\ \A i \in Index : i # o => made.obj[i] = w.obj[i]
      <4>1. Table(w.obj)
        BY <1>2 DEF Kinds
      <4>2. QED
        BY <2>3, <2>6, <4>1 DEF Table
    <3>4. Kinds(made.obj, gone)
      BY <1>2, <3>2, <3>3 DEF Kinds
    <3>5. Used(made.obj) = Used(w.obj) \union {o}
      BY <2>3, <2>5, <3>3 DEF Used
    <3>6. ~ Contains(made.list, o)
      BY <2>3, <2>6, <3>1 DEF Names
    <3>7. List(v.list) /\ Names(v.list) = Names(w.list) \union {o}
      <4>1. List(made.list) /\ o # Cursor /\ made.turn.hole = 0
        BY <2>4, <2>6, <2>10, <3>1
      <4>2. QED
        BY <4>1, <2>3, <2>6, <3>4, <3>6, InsertIs
    <3> HIDE DEF v
    <3>8. Laid(v.list, v.turn, Used(v.obj))
      <4>1. Names(v.list) = Used(v.obj) /\ v.turn.hole = 0
        BY <2>6, <2>7, <2>8, <2>10, <3>1, <3>5, <3>7
      <4>2. QED
        BY <3>7, <4>1, OrderIs
    <3>9. Sound(v, gone)
      BY <1>2, <2>6, <2>7, <2>8, <3>4, <3>8 DEF Sound, Tray, SameTray
    <3>10. v.active \in Used(v.obj)
      BY <2>6, <2>7, <3>5
    <3>11. QED
      BY <2>8, <3>9, <3>10 DEF Fine, Good
  <2>11. QED
    BY <2>8, <2>9, <2>10
<1>5. QED
  BY <1>1, <1>3, <1>4

-----------------------------------------------------------------------------
(* The operations that change several objects, or move one.                *)
LEMMA FragileStays ==
  ASSUME NEW gone, NEW w, Sound(w, gone)
  PROVE  Stays(w, Fragile(w), gone)
<1> DEFINE new == [o \in Index |-> IF Contains(w.list, o) /\ Has(w, o, "fragile")
                                   THEN [w.obj[o] EXCEPT !.flags = @ \ {"visible"}]
                                   ELSE w.obj[o]]
           all == FoldLeft(LAMBDA zs, o : IF Has(w, o, "fragile")
                                        THEN ZoneInsert(zs, Place(w.obj[o]), 0) ELSE zs,
                          w.zones, w.list)
           v == [w EXCEPT !.obj = new, !.zones = all]
<1>1. Fragile(w) = v
  BY DEF Fragile
<1> HIDE DEF all
<1>2. Record(w)
  BY TableOf
<1>3. ASSUME NEW o \in Index PROVE new[o] = w.obj[o] \/ Changed(o, w.obj[o], new[o], gone)
  <2>1. CASE ~ (Contains(w.list, o) /\ Has(w, o, "fragile"))
    BY <2>1
  <2>2. CASE Contains(w.list, o) /\ Has(w, o, "fragile")
    <3> DEFINE b == [w.obj[o] EXCEPT !.flags = @ \ {"visible"}]
    <3>1. new[o] = b
      BY <2>2
    <3>2. Kind(o, w.obj[o], gone) /\ Shaped(w.obj[o])
      BY KindOf
    <3>3. Shaped(b) /\ b.pid = w.obj[o].pid /\ b.flags = w.obj[o].flags \ {"visible"}
      BY <3>2 DEF Shaped, ObjFields
    <3> HIDE DEF b, new
    <3>4. b.flags \ Loose = w.obj[o].flags \ Loose
      BY <3>3 DEF Loose
    <3>5. w.obj[o].flags # {} /\ o # Workbench
      BY <2>2, <3>2 DEF Has, Kind, Bench
    <3>6. Changed(o, w.obj[o], b, gone)
      BY <3>3, <3>4, <3>5 DEF Changed
    <3>7. QED
      BY <3>1, <3>6
  <2>3. QED
    BY <2>1, <2>2
<1>4. Table(new)
  BY DEF Table
<1> HIDE DEF new
<1>5. Aside(w, v) /\ v.obj = new
  BY <1>2 DEF Record, Aside, Fields, SameTray
<1> HIDE DEF v
<1>6. AllChanged(w.obj, v.obj, gone)
  BY <1>3, <1>4, <1>5 DEF AllChanged
<1>7. QED
  BY <1>1, <1>5, <1>6, AllStay

LEMMA PointedStays ==
  ASSUME NEW gone, NEW w, Sound(w, gone), NEW x, NEW y
  PROVE  Stays(w, Pointed(w, x, y), gone)
<1> DEFINE cursor == w.obj[Cursor]
           dy     == y - cursor.y
           At(o)  == <<IF cursor.x + dy >= w.obj[o].x /\ x < w.obj[o].x + w.obj[o].w
                       THEN x - w.obj[o].x ELSE -1,
                       IF y >= w.obj[o].y /\ y < w.obj[o].y + w.obj[o].h
                       THEN y - w.obj[o].y ELSE -1>>
           new == [o \in Index |-> IF Contains(w.list, o) /\ Has(w, o, "visible")
                                   THEN [w.obj[o] EXCEPT !.pointer = At(o)]
                                   ELSE w.obj[o]]
           v == [w EXCEPT !.obj = new]
<1>1. Pointed(w, x, y) = v
  BY TableOf DEF Pointed, Record, Fields
<1>2. Record(w)
  BY TableOf
<1> HIDE DEF At
<1>3. ASSUME NEW o \in Index PROVE new[o] = w.obj[o] \/ Changed(o, w.obj[o], new[o], gone)
  <2>1. CASE ~ (Contains(w.list, o) /\ Has(w, o, "visible"))
    BY <2>1
  <2>2. CASE Contains(w.list, o) /\ Has(w, o, "visible")
    <3> DEFINE b == [w.obj[o] EXCEPT !.pointer = At(o)]
    <3>1. new[o] = b
      BY <2>2
    <3>2. Kind(o, w.obj[o], gone) /\ Shaped(w.obj[o])
      BY KindOf
    <3>3. /\ Shaped(b) /\ b.pid = w.obj[o].pid /\ b.flags = w.obj[o].flags
          /\ b.request = w.obj[o].request /\ b.x = w.obj[o].x /\ b.y = w.obj[o].y
          /\ b.w = w.obj[o].w /\ b.h = w.obj[o].h
      BY <3>2 DEF Shaped, ObjFields
    <3> HIDE DEF b, new
    <3>4. "visible" \in w.obj[o].flags
      BY <2>2 DEF Has
    <3>5. Changed(o, w.obj[o], b, gone)
      BY <3>2, <3>3, <3>4 DEF Changed, Kind, Bench
    <3>6. QED
      BY <3>1, <3>5
  <2>3. QED
    BY <2>1, <2>2
<1>4. Table(new)
  BY DEF Table
<1> HIDE DEF new
<1>5. Aside(w, v) /\ v.obj = new
  BY <1>2 DEF Record, Aside, Fields, SameTray
<1> HIDE DEF v
<1>6. AllChanged(w.obj, v.obj, gone)
  BY <1>3, <1>4, <1>5 DEF AllChanged
<1>7. QED
  BY <1>1, <1>5, <1>6, AllStay

LEMMA MoveKeeps ==
  ASSUME NEW w, NEW o, NEW dx, NEW dy, Record(w)
  PROVE  Keeps(w, Move(w, o, dx, dy)) /\ Move(w, o, dx, dy).list = w.list
<1> DEFINE old == w.obj[o]
           x   == Strip(old.x, old.w, dx)
           y   == Strip(old.y, old.h, dy)
           zs  == IF dx = 0 THEN w.zones
                  ELSE ZoneInsert(w.zones, Rect(x[1], old.y, x[2], old.h), 0)
           all == IF dy = 0 THEN zs
                  ELSE ZoneInsert(zs, Rect(old.x + dx, y[1], old.w, y[2]), 0)
           v   == [w EXCEPT !.zones = all, !.obj[o] = [old EXCEPT !.x = @ + dx, !.y = @ + dy]]
<1>1. Move(w, o, dx, dy) = IF Has(w, o, "fixed_xy") THEN w ELSE Set(v, o, {"flush"})
  BY DEF Move
<1> HIDE DEF all
<1>2. Record(v) /\ v.pc = w.pc /\ v.ghost = w.ghost /\ v.list = w.list /\ v.turn = w.turn
  BY DEF Record, Fields
<1> HIDE DEF v
<1>3. Keeps(v, Set(v, o, {"flush"})) /\ Set(v, o, {"flush"}).list = v.list
  BY <1>2 DEF Set, Record, Keeps, Fields
<1>4. QED
  BY <1>1, <1>2, <1>3 DEF Keeps

LEMMA MoveStays ==
  ASSUME NEW gone, NEW w, Sound(w, gone), NEW o \in Used(w.obj), NEW dx, NEW dy
  PROVE  Stays(w, Move(w, o, dx, dy), gone)
<1> DEFINE old == w.obj[o]
           x   == Strip(old.x, old.w, dx)
           y   == Strip(old.y, old.h, dy)
           zs  == IF dx = 0 THEN w.zones
                  ELSE ZoneInsert(w.zones, Rect(x[1], old.y, x[2], old.h), 0)
           all == IF dy = 0 THEN zs
                  ELSE ZoneInsert(zs, Rect(old.x + dx, y[1], old.w, y[2]), 0)
           b   == [old EXCEPT !.x = @ + dx, !.y = @ + dy]
           v   == [w EXCEPT !.zones = all, !.obj[o] = b]
<1>1. Move(w, o, dx, dy) = IF Has(w, o, "fixed_xy") THEN w ELSE Set(v, o, {"flush"})
  BY DEF Move
<1> HIDE DEF all
<1>2. /\ o \in Index /\ w.obj[o].flags # {} /\ Kind(o, w.obj[o], gone)
      /\ Shaped(w.obj[o]) /\ Record(w) /\ Table(w.obj)
  BY KindOf, TableOf DEF Used
<1>3. CASE Has(w, o, "fixed_xy")
  BY <1>1, <1>3 DEF Stays
<1>4. CASE ~ Has(w, o, "fixed_xy")
  <2>1. o # Workbench
    BY <1>2, <1>4 DEF Kind, Bench, Has
  <2>2. Shaped(b) /\ b.pid = w.obj[o].pid /\ b.flags = w.obj[o].flags
    BY <1>2 DEF Shaped, ObjFields
  <2> HIDE DEF b
  <2>3. Aside(w, v)
    BY <1>2 DEF Record, Aside, Fields, SameTray
  <2>4. v.obj = [w.obj EXCEPT ![o] = b]
    BY <1>2 DEF Record, Fields
  <2> HIDE DEF v
  <2>5. Changed(o, w.obj[o], b, gone)
    BY <1>2, <2>1, <2>2 DEF Changed
  <2>6. Stays(w, v, gone)
    BY <1>2, <2>3, <2>4, <2>5, ObjectStays
  <2>7. Sound(v, gone) /\ o \in Used(v.obj)
    BY <2>6 DEF Stays
  <2>8. Stays(v, Set(v, o, {"flush"}), gone)
    BY <2>7, SetStays
  <2>9. QED
    BY <1>1, <1>4, <2>6, <2>8 DEF Stays
<1>5. QED
  BY <1>3, <1>4

(* What is on the whole list is there.                                     *)
LEMMA WholeIs ==
  ASSUME NEW gone, NEW w, Sound(w, gone), NEW o
  PROVE  Contains(Whole(w), o) <=> o \in Used(w.obj)
<1>1. List(Whole(w)) /\ Names(Whole(w)) = Used(w.obj)
  BY DEF Sound, Laid, Whole
<1>2. Contains(Whole(w), o) => o \in Index
  BY <1>1, ListIsSeats, ListOf DEF Contains, Names
<1>3. QED
  BY <1>1, <1>2 DEF Names

LEMMA FineOn ==
  ASSUME NEW gone, NEW w, NEW v, Fine(w, gone), Keeps(w, v), Good(w, gone) => Fine(v, gone)
  PROVE  Fine(v, gone)
BY DEF Fine, Keeps

LEMMA GhostIs ==
  ASSUME NEW gone, NEW w, NEW o, Record(w), Contains(Whole(w), o) => Good(w, gone)
  PROVE  Fine(Ghost(w, o), gone) /\ Keeps(w, Ghost(w, o))
<1> DEFINE v == Ghost(w, o)
<1>1. /\ Record(v) /\ v.pc = w.pc /\ (v.ghost <=> w.ghost \/ ~ Contains(Whole(w), o))
      /\ Aside(w, v) /\ v.obj = w.obj
  BY DEF Ghost, Record, Fields, Aside, SameTray
<1> HIDE DEF v
<1>2. CASE Contains(Whole(w), o)
  <2>1. Stays(w, v, gone) /\ Good(w, gone)
    BY <1>1, <1>2, AsideStays DEF Good
  <2>2. QED
    BY <1>1, <2>1, StaysGood DEF Fine, Keeps, Aside, SameTray, v
<1>3. CASE ~ Contains(Whole(w), o)
  BY <1>1, <1>3 DEF Fine, Keeps, Aside, SameTray, v
<1>4. QED
  BY <1>2, <1>3

-----------------------------------------------------------------------------
(* wm_event, first the message.                                            *)
LEMMA NotifyKeeps ==
  ASSUME NEW w, Record(w)
  PROVE  Keeps(w, Notify(w)) /\ Aside(w, Notify(w)) /\ Notify(w).obj = w.obj
BY DEF Notify, Record, Fields, Keeps, Aside, SameTray

LEMMA NotifyStays ==
  ASSUME NEW gone, NEW w, Sound(w, gone)
  PROVE  Stays(w, Notify(w), gone)
BY TableOf, NotifyKeeps, AsideStays

LEMMA NotifyFine ==
  ASSUME NEW gone, NEW w, Fine(w, gone)
  PROVE  Fine(Notify(w), gone)
<1>1. Keeps(w, Notify(w))
  BY NotifyKeeps DEF Fine
<1>2. Good(w, gone) => Good(Notify(w), gone)
  BY NotifyStays, StaysGood DEF Good
<1>3. QED
  BY <1>1, <1>2 DEF Fine, Keeps

LEMMA PcGood ==
  ASSUME NEW gone, NEW w, Good(w, gone), NEW b
  PROVE  Good([w EXCEPT !.pc = b], gone)
<1> DEFINE v == [w EXCEPT !.pc = b]
<1>1. Aside(w, v) /\ v.obj = w.obj
  BY TableOf DEF Record, Fields, Aside, Good, SameTray
<1> HIDE DEF v
<1>2. QED
  BY <1>1, AsideStays, StaysGood DEF v, Good

(* An object that is removed, and another one becomes active.              *)
LEMMA RemovedFine ==
  ASSUME NEW gone, NEW w, Sound(w, gone), NEW o \in Used(w.obj), w.obj[o].pid \in Client
  PROVE  Fine(Activate(RemoveObject(w, o)), gone) /\ Fine(Notify(Activate(RemoveObject(w, o))), gone)
<1> DEFINE v == RemoveObject(w, o)
           a == Activate(v)
<1>1. Record(w)
  BY TableOf
<1>2. Keeps(w, v)
  BY <1>1, RemoveKeeps
<1>3. v.ghost \/ Sound(v, gone)
  BY RemoveFits
<1> HIDE DEF v
<1>4. Keeps(v, a)
  BY <1>2, ActivateKeeps DEF Keeps
<1>5. Sound(v, gone) => Good(a, gone)
  BY ActivateFinds
<1> HIDE DEF a
<1>6. Fine(a, gone)
  BY <1>3, <1>4, <1>5 DEF Fine, Keeps
<1>7. Fine(Notify(a), gone)
  BY <1>6, NotifyFine
<1>8. QED
  BY <1>6, <1>7 DEF a, v

LEMMA MessageFine ==
  ASSUME NEW gone, NEW w, Good(w, gone), requests # <<>> => Head(requests).from \in Client
  PROVE  Fine(Message(w), gone)
<1> DEFINE m == Head(requests)
           o == ById(w, m.id)
           at == IF o # 0 THEN <<w.obj[o].x, w.obj[o].y>>
                 ELSE <<Middle(Size[1], Width), Middle(Size[2], Height)>>
           new == Create(w, at[1], at[2], Size[1], Size[2], {"visible", "flush"}, m.from)
           shown == Expose(w, o)
           taken == Notify(Activate(RemoveObject(shown, o)))
           off == [w EXCEPT !.pc = "crash"]
           closed == IF o = 0 THEN off
                     ELSE IF w.obj[o].pid # m.from THEN w ELSE taken
<1>1. Message(w) = IF requests = <<>> THEN w
                   ELSE IF m.fn = "create" THEN Notify(new)
                   ELSE IF m.fn = "close" THEN closed
                   ELSE IF o = 0 THEN w ELSE Notify(w)
  BY DEF Message
<1>2. Fine(Notify(new), gone)
  <2>1. Fine(new, gone)
    BY CreateFits
  <2> HIDE DEF new
  <2>2. QED
    BY <2>1, NotifyFine
<1>3. Fine(w, gone) /\ Fine(Notify(w), gone) /\ Fine(off, gone)
  <2>1. Fine(w, gone)
    BY TableOf DEF Fine, Good
  <2>2. Good(off, gone)
    BY PcGood
  <2> HIDE DEF off
  <2>3. Fine(off, gone)
    BY <2>2, TableOf DEF Fine, Good
  <2>4. QED
    BY <2>1, <2>3, NotifyFine
<1>4. o = 0 \/ o \in Used(w.obj)
  BY ByIdFinds DEF Good
<1> HIDE DEF m, new, off, o
<1>5. ASSUME o # 0, w.obj[o].pid = m.from, requests # <<>> PROVE Fine(taken, gone)
  <2>1. Record(w) /\ o \in Used(w.obj) /\ w.obj[o].pid \in Client
    BY <1>4, <1>5, TableOf DEF Good, m
  <2>2. shown.obj = w.obj
    BY <2>1 DEF Expose, Record, Fields
  <2>3. Stays(w, shown, gone)
    BY ExposeStays DEF Good
  <2>4. Sound(shown, gone) /\ o \in Used(shown.obj) /\ shown.obj[o].pid \in Client
    BY <2>1, <2>2, <2>3 DEF Stays
  <2> HIDE DEF shown
  <2>5. QED
    BY <2>4, RemovedFine
<1> HIDE DEF taken
<1>6. requests # <<>> => Fine(closed, gone)
  BY <1>3, <1>5
<1> HIDE DEF closed
<1>7. QED
  BY <1>1, <1>2, <1>3, <1>6

(* Then the key.                                                           *)
LEMMA RaiseFine ==
  ASSUME NEW gone, NEW w, Fine(w, gone)
  PROVE  Keeps(w, Raise(w)) /\ Fine(Raise(w), gone)
<1> DEFINE o == Lowest(w)
           u == MoveUp(w, o)
           s == Set(u, o, {"visible", "flush"})
           a == Activate(s)
<1>1. Raise(w) = IF o = 0 THEN w ELSE Notify(a)
  BY DEF Raise
<1>2. Record(w) /\ Keeps(w, w)
  BY DEF Fine, Keeps
<1>3. Good(w, gone) => o = 0 \/ (o \in Used(w.obj) /\ o \in Window)
  BY LowestFinds DEF Good
<1> HIDE DEF o
<1>4. Keeps(w, u)
  BY <1>2, MoveUpKeeps
<1>5. Good(w, gone) /\ o # 0 => u.ghost \/ (Sound(u, gone) /\ o \in Used(u.obj))
  BY <1>3, MoveUpStays DEF Good, Stays
<1> HIDE DEF u
<1>6. Keeps(u, s)
  BY <1>4, SetKeeps DEF Keeps
<1>7. Sound(u, gone) /\ o \in Used(u.obj) => Sound(s, gone)
  BY SetStays DEF Stays
<1> HIDE DEF s
<1>8. Keeps(s, a)
  BY <1>6, ActivateKeeps DEF Keeps
<1>9. Sound(s, gone) => Good(a, gone)
  BY ActivateFinds
<1> HIDE DEF a
<1>10. o # 0 => Fine(a, gone)
  BY <1>4, <1>5, <1>6, <1>7, <1>8, <1>9 DEF Fine, Keeps
<1>11. Keeps(a, Notify(a)) /\ (o # 0 => Fine(Notify(a), gone))
  BY <1>8, <1>10, NotifyKeeps, NotifyFine DEF Keeps
<1>12. QED
  BY <1>1, <1>2, <1>4, <1>6, <1>8, <1>11 DEF Keeps

LEMMA KeyboardFine ==
  ASSUME NEW gone, NEW w, Fine(w, gone), NEW key
  PROVE  Keeps(w, Keyboard(w, key)) /\ Fine(Keyboard(w, key), gone)
<1> DEFINE v == [w EXCEPT !.alt = key[2]]
<1>1. Record(w) /\ Keeps(w, w)
  BY DEF Fine, Keeps
<1>2. Aside(w, v) /\ v.obj = w.obj /\ Keeps(w, v)
  BY <1>1 DEF Record, Fields, Aside, Keeps, SameTray
<1>3. Keyboard(w, key) \in {v, Raise(w), w}
  BY DEF Keyboard
<1> HIDE DEF v
<1>4. Good(w, gone) => Good(v, gone)
  BY <1>2, AsideStays, StaysGood DEF Good
<1>5. Fine(v, gone)
  BY <1>2, <1>4 DEF Fine, Keeps
<1>6. QED
  BY <1>1, <1>2, <1>3, <1>5, RaiseFine

(* Then the mouse: the button,                                             *)
LEMMA PickedIs ==
  ASSUME NEW w, Record(w), NEW o
  PROVE  /\ Keeps(w, Picked(w, o)) /\ Picked(w, o).obj = w.obj
         /\ Picked(w, o).list = w.list /\ Picked(w, o).active = w.active
         /\ Picked(w, o).selected = o /\ SameTray(w, Picked(w, o))
<1> DEFINE v == [w EXCEPT !.held = TRUE, !.selected = o]
<1>1. /\ Record(v) /\ Keeps(w, v) /\ v.obj = w.obj /\ v.list = w.list
      /\ v.active = w.active /\ v.selected = o /\ SameTray(w, v)
  BY DEF Record, Fields, SameTray, Keeps
<1>2. Picked(w, o) = Notify(v)
  BY DEF Picked
<1> HIDE DEF v
<1>3. Keeps(v, Notify(v)) /\ Aside(v, Notify(v)) /\ Notify(v).obj = v.obj
  BY <1>1, NotifyKeeps
<1>4. QED
  BY <1>1, <1>2, <1>3 DEF Keeps, Aside, SameTray

LEMMA PickedGood ==
  ASSUME NEW gone, NEW w, Good(w, gone), NEW o \in Used(w.obj)
  PROVE  Good(Picked(w, o), gone) /\ Picked(w, o).obj = w.obj
<1> DEFINE v == Picked(w, o)
<1>1. /\ Record(v) /\ v.obj = w.obj /\ v.list = w.list /\ v.active = w.active
      /\ v.selected = o /\ SameTray(w, v)
  BY PickedIs, TableOf DEF Good, Keeps
<1> HIDE DEF v
<1>2. o \in Index \union {0}
  BY DEF Used
<1>3. Good(v, gone)
  BY <1>1, <1>2 DEF Good, Sound, Tray, SameTray
<1>4. QED
  BY <1>1, <1>3 DEF v

LEMMA ToFrontKeeps ==
  ASSUME NEW w, Record(w), NEW o
  PROVE  Keeps(w, ToFront(w, o))
<1> DEFINE u == MoveUp(w, o)
           s == Set(u, o, {"flush"})
           t == Set(s, Cursor, {"flush"})
<1>1. ToFront(w, o) \in {w, t}
  BY DEF ToFront
<1>2. Keeps(w, u) /\ Keeps(w, w)
  BY MoveUpKeeps DEF Keeps
<1> HIDE DEF u
<1>3. Keeps(u, s)
  BY <1>2, SetKeeps DEF Keeps
<1> HIDE DEF s
<1>4. Keeps(s, t)
  BY <1>3, SetKeeps DEF Keeps
<1> HIDE DEF t
<1>5. QED
  BY <1>1, <1>2, <1>3, <1>4 DEF Keeps

LEMMA ToFrontStays ==
  ASSUME NEW gone, NEW w, Sound(w, gone), NEW o \in Used(w.obj)
  PROVE  ToFront(w, o).ghost \/ Stays(w, ToFront(w, o), gone)
<1> DEFINE u == MoveUp(w, o)
           s == Set(u, o, {"flush"})
           t == Set(s, Cursor, {"flush"})
<1>1. CASE Has(w, o, "fixed_z") \/ w.alt
  BY <1>1 DEF ToFront, Stays
<1>2. CASE ~ (Has(w, o, "fixed_z") \/ w.alt)
  <2>1. ToFront(w, o) = t
    BY <1>2 DEF ToFront
  <2>2. o \in Window
    <3>1. o \in Index /\ Kind(o, w.obj[o], gone)
      BY KindOf DEF Used
    <3>2. QED
      BY <1>2, <3>1 DEF Kind, Has, Window
  <2>3. Keeps(w, u) /\ (u.ghost \/ Stays(w, u, gone))
    BY <2>2, MoveUpStays, MoveUpKeeps, TableOf
  <2> HIDE DEF u
  <2>4. Keeps(u, s)
    BY <2>3, SetKeeps DEF Keeps
  <2>5. Stays(w, u, gone) => Stays(u, s, gone)
    BY SetStays DEF Stays
  <2> HIDE DEF s
  <2>6. Keeps(s, t)
    BY <2>4, SetKeeps DEF Keeps
  <2>7. Sound(s, gone) => Stays(s, t, gone)
    BY BaseIsUsed, SetStays
  <2> HIDE DEF t
  <2>8. QED
    BY <2>1, <2>3, <2>4, <2>5, <2>6, <2>7 DEF Stays, Keeps
<1>3. QED
  BY <1>1, <1>2

LEMMA ActiveIs ==
  ASSUME NEW w, Record(w), NEW o
  PROVE  LET v == [w EXCEPT !.active = o] IN
         /\ Keeps(w, v) /\ v.obj = w.obj /\ v.list = w.list /\ v.active = o
         /\ v.selected = w.selected /\ SameTray(w, v)
BY DEF Record, Fields, SameTray, Keeps

LEMMA FocusGood ==
  ASSUME NEW gone, NEW w, Good(w, gone), NEW o \in Used(w.obj)
  PROVE  Good(Focus(w, o), gone)
<1> DEFINE v == [w EXCEPT !.active = o]
<1>1. /\ Record(v) /\ v.obj = w.obj /\ v.list = w.list /\ v.active = o
      /\ v.selected = w.selected /\ SameTray(w, v)
  BY ActiveIs, TableOf DEF Good, Keeps
<1>2. Focus(w, o) \in {w, v}
  BY DEF Focus
<1> HIDE DEF v
<1>3. Good(v, gone)
  BY <1>1 DEF Good, Sound, Tray, SameTray
<1>4. QED
  BY <1>2, <1>3

LEMMA FragileKeeps ==
  ASSUME NEW w, Record(w)
  PROVE  Keeps(w, Fragile(w))
BY DEF Fragile, Record, Fields, Keeps

LEMMA PressFine ==
  ASSUME NEW gone, NEW w, Fine(w, gone), NEW x, NEW y, OnScreen(x, y)
  PROVE  Keeps(w, Press(w, x, y)) /\ Fine(Press(w, x, y), gone)
<1> DEFINE o == Find(w, x, y)
           p == Picked(w, o)
           f == ToFront(p, o)
           v == Focus(f, o)
           h == [v EXCEPT !.header = TRUE]
           u == IF InHeader(w, o, x - w.obj[Cursor].x, y - w.obj[Cursor].y) THEN h ELSE v
<1>1. Press(w, x, y) = IF o = Taskbar THEN u ELSE Fragile(u)
  BY DEF Press
<1>2. Good(w, gone) => o \in Used(w.obj)
  BY FindFinds DEF Good
<1> HIDE DEF o
<1>3. Keeps(w, p)
  BY PickedIs DEF Fine
<1>4. Good(w, gone) => Good(p, gone) /\ o \in Used(p.obj)
  BY <1>2, PickedGood
<1> HIDE DEF p
<1>5. Keeps(p, f)
  BY <1>3, ToFrontKeeps DEF Keeps
<1>6. Good(w, gone) => f.ghost \/ (Good(f, gone) /\ o \in Used(f.obj))
  BY <1>4, ToFrontStays, StaysGood DEF Good, Stays
<1> HIDE DEF f
<1>7. Keeps(f, v)
  <2>1. Record(f) /\ Keeps(f, f)
    BY <1>5 DEF Keeps
  <2>2. v \in {f, [f EXCEPT !.active = o]}
    BY DEF Focus
  <2>3. QED
    BY <2>1, <2>2, ActiveIs
<1>8. Good(f, gone) /\ o \in Used(f.obj) => Good(v, gone)
  BY FocusGood
<1> HIDE DEF v
<1>9. Keeps(v, h) /\ Aside(v, h) /\ h.obj = v.obj
  BY <1>7 DEF Record, Fields, Aside, SameTray, Keeps
<1> HIDE DEF h
<1>10. Good(v, gone) => Good(h, gone)
  BY <1>9, AsideStays, StaysGood DEF Good
<1>11. Keeps(v, u) /\ (Good(v, gone) => Good(u, gone))
  BY <1>7, <1>9, <1>10 DEF Keeps
<1> HIDE DEF u
<1>12. Keeps(u, Fragile(u))
  BY <1>11, FragileKeeps DEF Keeps
<1>13. Good(u, gone) => Good(Fragile(u), gone)
  BY FragileStays, StaysGood DEF Good
<1> DEFINE z == Fragile(u)
<1> HIDE DEF z
<1>14. Keeps(w, u) /\ Keeps(w, z)
  BY <1>3, <1>5, <1>7, <1>11, <1>12 DEF Keeps, z
<1>15. Good(w, gone) => Fine(u, gone) /\ Fine(z, gone)
  BY <1>6, <1>7, <1>8, <1>11, <1>12, <1>13 DEF Fine, Keeps, z
<1>16. QED
  BY <1>1, <1>14, <1>15, FineOn DEF z

LEMMA ButtonFine ==
  ASSUME NEW gone, NEW w, Fine(w, gone), NEW x, NEW y, OnScreen(x, y), NEW left
  PROVE  Keeps(w, Button(w, x, y, left)) /\ Fine(Button(w, x, y, left), gone)
<1> DEFINE v == [w EXCEPT !.held = FALSE, !.header = FALSE]
<1>1. Aside(w, v) /\ v.obj = w.obj /\ Keeps(w, v) /\ Keeps(w, w)
  <2>1. Record(w)
    BY DEF Fine
  <2>2. /\ Record(v) /\ v.obj = w.obj /\ v.list = w.list /\ v.active = w.active
        /\ v.selected = w.selected /\ v.elements = w.elements /\ v.entry = w.entry
        /\ v.x = w.x /\ v.turn = w.turn /\ v.pc = w.pc /\ v.ghost = w.ghost
    BY <2>1 DEF Record, Fields
  <2> HIDE DEF v
  <2>3. QED
    BY <2>1, <2>2 DEF Aside, SameTray, Keeps
<1>2. Button(w, x, y, left) \in {v, w, Press(w, x, y)}
  BY DEF Button
<1> HIDE DEF v
<1>3. Good(w, gone) => Good(v, gone)
  BY <1>1, AsideStays, StaysGood DEF Good
<1>4. Fine(v, gone)
  BY <1>1, <1>3 DEF Fine, Keeps
<1>5. QED
  BY <1>1, <1>2, <1>4, PressFine

(* and the movement: what is dragged may be an entry that was released.    *)
LEMMA DragKeeps ==
  ASSUME NEW w, Record(w), NEW x, NEW y
  PROVE  Keeps(w, Drag(w, x, y))
<1> DEFINE dx == x - w.obj[Cursor].x
           dy == y - w.obj[Cursor].y
           o  == w.selected
           e  == Expose(w, Cursor)
           b  == [e.obj[Cursor] EXCEPT !.x = x, !.y = y]
           c  == [e EXCEPT !.obj[Cursor] = b]
           v  == Set(c, Cursor, {"flush"})
           m  == Move(v, o, dx, dy)
           g  == Ghost(m, o)
<1>1. Drag(w, x, y) \in {w, v, g}
  BY DEF Drag
<1> HIDE DEF dx, dy, o
<1>2. Keeps(w, w) /\ Keeps(w, e)
  BY SetKeeps DEF Keeps
<1> HIDE DEF b, e
<1>3. Keeps(e, c)
  BY <1>2 DEF Record, Keeps, Fields
<1> HIDE DEF c
<1>4. Keeps(c, v)
  BY <1>3, SetKeeps DEF Keeps
<1> HIDE DEF v
<1>5. Keeps(v, m)
  BY <1>4, MoveKeeps DEF Keeps
<1> HIDE DEF m
<1>6. Keeps(m, g)
  BY <1>5 DEF Ghost, Record, Keeps, Fields
<1> HIDE DEF g
<1>7. QED
  BY <1>1, <1>2, <1>3, <1>4, <1>5, <1>6 DEF Keeps

LEMMA DragGood ==
  ASSUME NEW gone, NEW w, Good(w, gone), NEW x, NEW y
  PROVE  Fine(Drag(w, x, y), gone)
<1> DEFINE dx == x - w.obj[Cursor].x
           dy == y - w.obj[Cursor].y
           o  == w.selected
           e  == Expose(w, Cursor)
           b  == [e.obj[Cursor] EXCEPT !.x = x, !.y = y]
           c  == [e EXCEPT !.obj[Cursor] = b]
           v  == Set(c, Cursor, {"flush"})
           m  == Move(v, o, dx, dy)
           drags == /\ o # 0 /\ w.held /\ (w.header \/ w.alt)
                    /\ w.obj[o].y + dy < w.obj[Taskbar].y - BarHeight
<1>1. Drag(w, x, y) = IF dx = 0 /\ dy = 0 THEN w
                      ELSE IF drags THEN Ghost(m, o) ELSE v
  BY DEF Drag
<1> HIDE DEF dx, dy
<1>2. Sound(w, gone)
  BY DEF Good
<1>3. Stays(w, e, gone)
  BY <1>2, ExposeStays
<1>4. Sound(e, gone) /\ Cursor \in Used(e.obj) /\ Cursor \in Index
  BY <1>3, BaseIsUsed, BaseIsIndex DEF Stays
<1> HIDE DEF e
<1>5. Kind(Cursor, e.obj[Cursor], gone) /\ Shaped(e.obj[Cursor]) /\ Record(e)
  BY <1>4, KindOf, TableOf
<1>6. Shaped(b) /\ b.pid = e.obj[Cursor].pid /\ b.flags = e.obj[Cursor].flags
  BY <1>5 DEF Shaped, ObjFields
<1> HIDE DEF b
<1>7. Changed(Cursor, e.obj[Cursor], b, gone)
  <2>1. Cursor # Workbench /\ e.obj[Cursor].flags # {}
    BY <1>4, BaseIsIndex DEF Used
  <2>2. QED
    BY <1>6, <2>1 DEF Changed
<1>8. Aside(e, c) /\ c.obj = [e.obj EXCEPT ![Cursor] = b]
  BY <1>5 DEF Aside, Record, Fields, SameTray
<1> HIDE DEF c
<1>9. Stays(e, c, gone)
  BY <1>4, <1>7, <1>8, ObjectStays
<1>10. Sound(c, gone) /\ Cursor \in Used(c.obj)
  BY <1>4, <1>9 DEF Stays
<1>11. Stays(c, v, gone)
  BY <1>10, SetStays
<1> HIDE DEF v
<1>12. Stays(w, v, gone)
  BY <1>3, <1>9, <1>11 DEF Stays
<1>13. Good(v, gone) /\ Sound(v, gone) /\ Record(v)
  BY <1>12, StaysGood, TableOf DEF Stays
<1>14. Record(m) /\ m.list = v.list /\ m.turn = v.turn
  BY <1>13, MoveKeeps DEF Keeps
<1>15. Contains(Whole(m), o) => Good(m, gone)
  <2>1. SUFFICES ASSUME Contains(Whole(v), o) PROVE Good(m, gone)
    BY <1>14 DEF Whole
  <2>2. o \in Used(v.obj)
    BY <1>13, <2>1, WholeIs
  <2>3. Stays(v, m, gone)
    BY <1>13, <2>2, MoveStays
  <2>4. QED
    BY <1>13, <2>3, StaysGood
<1> HIDE DEF m
<1>16. Fine(Ghost(m, o), gone)
  BY <1>14, <1>15, GhostIs
<1>17. Fine(w, gone) /\ Fine(v, gone)
  BY <1>2, <1>13, TableOf DEF Fine
<1> HIDE DEF drags, o
<1>18. QED
  BY <1>1, <1>16, <1>17

LEMMA DragFine ==
  ASSUME NEW gone, NEW w, Fine(w, gone), NEW x, NEW y
  PROVE  Fine(Drag(w, x, y), gone)
BY DragKeeps, DragGood, FineOn DEF Fine

LEMMA FineX ==
  ASSUME NEW gone, NEW w, Fine(w, gone), NEW x \in Nat
  PROVE  Fine([w EXCEPT !.x = x], gone)
<1> DEFINE v == [w EXCEPT !.x = x]
<1>1. /\ Record(v) /\ v.obj = w.obj /\ v.list = w.list /\ v.active = w.active
      /\ v.selected = w.selected /\ v.elements = w.elements /\ v.entry = w.entry
      /\ v.x = x /\ v.ghost = w.ghost /\ v.turn = w.turn
  BY DEF Fine, Record, Fields
<1> HIDE DEF v
<1>2. ASSUME w.ghost PROVE Fine(v, gone)
  BY <1>1, <1>2 DEF Fine
<1>3. ASSUME Good(w, gone) PROVE Fine(v, gone)
  <2>1. Good(v, gone)
    BY <1>1, <1>3 DEF Good, Sound, Tray
  <2>2. QED
    BY <1>1, <2>1 DEF Fine
<1>4. QED
  BY <1>2, <1>3 DEF Fine, v

LEMMA FinePc ==
  ASSUME NEW gone, NEW w, Fine(w, gone), NEW pc
  PROVE  Fine([w EXCEPT !.pc = pc], gone)
<1> DEFINE v == [w EXCEPT !.pc = pc]
<1>1. Record(v) /\ v.ghost = w.ghost
  BY DEF Fine, Record, Fields
<1>2. CASE w.ghost
  BY <1>1, <1>2 DEF Fine
<1>3. CASE Good(w, gone)
  BY <1>1, <1>3, PcGood DEF Fine
<1>4. QED
  BY <1>2, <1>3 DEF Fine

LEMMA PointerFine ==
  ASSUME NEW gone, NEW w, Fine(w, gone), OnScreen(mouse.x, mouse.y)
  PROVE  Fine(Pointer(w), gone) /\ (w.ghost => Pointer(w).ghost)
<1> DEFINE left == "left" \in mouse.status
           x == mouse.x
           y == mouse.y
           p == Pointed(w, x, y)
           v == Button(p, x, y, left)
           d == Drag(v, x, y)
           e == [d EXCEPT !.x = x]
<1>1. Pointer(w) = e
  BY DEF Pointer
<1>2. OnScreen(x, y) /\ x \in Nat
  BY InputAssumption DEF OnScreen
<1> HIDE DEF left, x, y
<1>3. Keeps(w, p)
  BY DEF Fine, Pointed, Record, Keeps, Fields
<1>4. Good(w, gone) => Good(p, gone)
  BY PointedStays, StaysGood DEF Good
<1> HIDE DEF p
<1>5. Fine(p, gone)
  BY <1>3, <1>4 DEF Fine, Keeps
<1>6. Keeps(p, v) /\ Fine(v, gone)
  BY <1>2, <1>5, ButtonFine
<1> HIDE DEF v
<1>7. Keeps(v, d) /\ Fine(d, gone)
  BY <1>6, DragKeeps, DragFine DEF Fine
<1> HIDE DEF d
<1>8. e.ghost = d.ghost
  BY <1>7 DEF Fine, Record, Fields
<1>9. Fine(e, gone)
  BY <1>2, <1>7, FineX
<1> HIDE DEF e
<1>10. QED
  BY <1>1, <1>3, <1>6, <1>7, <1>8, <1>9 DEF Keeps

-----------------------------------------------------------------------------
(* wm_object, for one object.                                              *)
LEMMA MinimizedGood ==
  ASSUME NEW gone, NEW w, Good(w, gone), NEW o \in Used(w.obj),
         "minimize" \in w.obj[o].request
  PROVE  Good(Minimized(w, o), gone)
<1> DEFINE e == Expose(w, o)
           b == [w.obj[o] EXCEPT !.flags = Toggle(@ \ {"visible"}, "hide"),
                                 !.request = @ \ {"minimize"}]
           c == [e EXCEPT !.obj[o] = b]
           a == Activate(c)
<1>1. Minimized(w, o) = Notify(a)
  BY DEF Minimized
<1>2. Stays(w, e, gone) /\ e.obj = w.obj
  BY ExposeStays, TableOf DEF Good, Expose, Record, Fields
<1>3. Sound(e, gone) /\ o \in Used(e.obj) /\ o \in Index /\ "minimize" \in e.obj[o].request
  BY <1>2 DEF Stays, Used
<1> HIDE DEF e
<1>4. Kind(o, e.obj[o], gone) /\ Shaped(e.obj[o]) /\ Record(e) /\ e.obj[o] = w.obj[o]
  BY <1>2, <1>3, KindOf, TableOf
<1>5. /\ Shaped(b) /\ b.pid = e.obj[o].pid
      /\ b.flags = Toggle(e.obj[o].flags \ {"visible"}, "hide")
  BY <1>4 DEF Shaped, ObjFields
<1> HIDE DEF b
<1>6. Changed(o, e.obj[o], b, gone)
  <2>1. /\ b.flags \ Loose = e.obj[o].flags \ Loose
        /\ "destroy" \in b.flags => "destroy" \in e.obj[o].flags
    BY <1>5 DEF Loose, Toggle
  <2>2. o # Workbench
    BY <1>3, <1>4 DEF Kind, Bench
  <2>3. e.obj[o].flags # {}
    BY <1>3 DEF Used
  <2>4. QED
    BY <1>5, <2>1, <2>2, <2>3 DEF Changed
<1>7. Aside(e, c) /\ c.obj = [e.obj EXCEPT ![o] = b]
  BY <1>4 DEF Aside, Record, Fields, SameTray
<1> HIDE DEF c
<1>8. Stays(e, c, gone)
  BY <1>3, <1>6, <1>7, ObjectStays
<1>9. Good(a, gone)
  BY <1>8, ActivateFinds DEF Stays
<1> HIDE DEF a
<1>10. QED
  BY <1>1, <1>9, NotifyStays, StaysGood DEF Good

LEMMA FlushedStays ==
  ASSUME NEW gone, NEW w, Sound(w, gone), NEW o \in Used(w.obj)
  PROVE  Stays(w, Flushed(w, o), gone)
<1> DEFINE e == Expose(w, o)
           b == [w.obj[o] EXCEPT !.flags = Toggle(@, "hide") \ {"flush"},
                                 !.request = @ \ {"flush"}]
           c == [e EXCEPT !.obj[o] = b]
<1>1. Flushed(w, o) = c
  BY DEF Flushed
<1>2. Stays(w, e, gone) /\ e.obj = w.obj
  BY ExposeStays, TableOf DEF Expose, Record, Fields
<1>3. Sound(e, gone) /\ o \in Used(e.obj) /\ o \in Index
  BY <1>2 DEF Stays, Used
<1> HIDE DEF e
<1>4. Kind(o, e.obj[o], gone) /\ Shaped(e.obj[o]) /\ Record(e) /\ e.obj[o] = w.obj[o]
  BY <1>2, <1>3, KindOf, TableOf
<1>5. /\ Shaped(b) /\ b.pid = e.obj[o].pid
      /\ b.flags = Toggle(e.obj[o].flags, "hide") \ {"flush"}
      /\ b.request = e.obj[o].request \ {"flush"} /\ b.x = e.obj[o].x /\ b.y = e.obj[o].y
      /\ b.w = e.obj[o].w /\ b.h = e.obj[o].h
  BY <1>4 DEF Shaped, ObjFields
<1> HIDE DEF b
<1>6. Changed(o, e.obj[o], b, gone)
  <2>1. /\ b.flags \ Loose = e.obj[o].flags \ Loose
        /\ "destroy" \in b.flags => "destroy" \in e.obj[o].flags
        /\ "visible" \in e.obj[o].flags => "visible" \in b.flags
    BY <1>5 DEF Loose, Toggle
  <2>2. e.obj[o].flags # {}
    BY <1>3 DEF Used
  <2>3. QED
    BY <1>4, <1>5, <2>1, <2>2 DEF Changed, Kind, Bench
<1>7. Aside(e, c) /\ c.obj = [e.obj EXCEPT ![o] = b]
  BY <1>4 DEF Aside, Record, Fields, SameTray
<1> HIDE DEF c
<1>8. Stays(e, c, gone)
  BY <1>3, <1>6, <1>7, ObjectStays
<1>9. QED
  BY <1>1, <1>2, <1>8 DEF Stays

(* The programs that have ended.                                           *)
Gone == {c \in Client : client[c] = "ended"}

LEMMA RunningIs == \A pid : Running(pid) <=> pid \notin Gone
BY DEF Running, Gone

(* What is destroyed is removed, or hidden first.                          *)
LEMMA DestroyedIs ==
  ASSUME NEW w, Good(w, Gone), NEW o \in Used(w.obj), "destroy" \in w.obj[o].flags
  PROVE  \/ Good(Destroyed(w, o), Gone)
         \/ Destroyed(w, o) = RemoveObject(w, o)
<1> DEFINE c == Clear(w, o, {"visible"})
           e == Expose(c, o)
<1>1. CASE ~ Has(w, o, "visible")
  BY <1>1 DEF Destroyed
<1>2. CASE Has(w, o, "visible")
  <2>1. Destroyed(w, o) = Activate(e)
    BY <1>2 DEF Destroyed
  <2>2. o \in Index /\ Kind(o, w.obj[o], Gone)
    BY KindOf DEF Good, Used
  <2>3. w.obj[o].pid \in Client
    BY <2>2 DEF Kind, Gone
  <2>4. o # Workbench
    BY <2>2, <2>3, WindowsAssumption DEF Kind
  <2>5. Stays(w, c, Gone)
    BY <2>4, ClearStays DEF Good
  <2> HIDE DEF c
  <2>6. Stays(c, e, Gone)
    BY <2>5, ExposeStays DEF Stays
  <2> HIDE DEF e
  <2>7. Good(Activate(e), Gone)
    BY <2>6, ActivateFinds DEF Stays
  <2>8. QED
    BY <2>1, <2>7
<1>3. QED
  BY <1>1, <1>2

LEMMA UpdatedIs ==
  ASSUME NEW w, Good(w, Gone), NEW o \in Used(w.obj)
  PROVE  \/ Good(Updated(w, o), Gone)
         \/ Updated(w, o) = RemoveObject(w, o) /\ w.obj[o].pid \in Gone
<1> DEFINE x == w.obj[o]
           flush == \/ "hide" \in x.flags
                    \/ "visible" \in x.flags /\ "flush" \in x.flags \union x.request
<1>1. Updated(w, o) = IF "minimize" \in w.obj[o].request THEN Minimized(w, o)
                      ELSE IF flush THEN Flushed(w, o)
                      ELSE IF "destroy" \in w.obj[o].flags THEN Destroyed(w, o) ELSE w
  BY DEF Updated
<1> HIDE DEF flush
<1>2. CASE "minimize" \in w.obj[o].request
  BY <1>1, <1>2, MinimizedGood
<1>3. CASE "minimize" \notin w.obj[o].request /\ flush
  <2>1. Stays(w, Flushed(w, o), Gone)
    BY FlushedStays DEF Good
  <2>2. QED
    BY <1>1, <1>3, <2>1, StaysGood
<1>4. CASE /\ "minimize" \notin w.obj[o].request /\ ~ flush
           /\ "destroy" \in w.obj[o].flags
  <2>1. o \in Index /\ Kind(o, w.obj[o], Gone)
    BY KindOf DEF Good, Used
  <2>2. w.obj[o].pid \in Gone
    BY <1>4, <2>1 DEF Kind
  <2>3. QED
    BY <1>1, <1>4, <2>2, DestroyedIs
<1>5. CASE /\ "minimize" \notin w.obj[o].request /\ ~ flush
           /\ "destroy" \notin w.obj[o].flags
  BY <1>1, <1>5
<1>6. QED
  BY <1>2, <1>3, <1>4, <1>5

(* Whatever the data, what was lost is lost.                               *)
LEMMA KeepsOn ==
  ASSUME NEW w, NEW v, NEW u, Keeps(w, v), Keeps(v, u)
  PROVE  Keeps(w, u)
BY DEF Keeps

LEMMA UpdatedKeeps ==
  ASSUME NEW w, NEW o, Record(w)
  PROVE  Keeps(w, Updated(w, o))
<1> DEFINE e == Expose(w, o)
           x == w.obj[o]
           flush == \/ "hide" \in x.flags
                    \/ "visible" \in x.flags /\ "flush" \in x.flags \union x.request
<1>1. Keeps(w, e)
  BY SetKeeps
<1>2. Keeps(w, Minimized(w, o))
  <2> DEFINE b == [w.obj[o] EXCEPT !.flags = Toggle(@ \ {"visible"}, "hide"),
                                   !.request = @ \ {"minimize"}]
             c == [e EXCEPT !.obj[o] = b]
             a == Activate(c)
  <2>1. Minimized(w, o) = Notify(a)
    BY DEF Minimized
  <2> HIDE DEF b, e
  <2>2. Keeps(e, c)
    BY <1>1 DEF Record, Keeps, Fields
  <2> HIDE DEF c
  <2>3. Keeps(c, a)
    BY <2>2, ActivateKeeps DEF Keeps
  <2> HIDE DEF a
  <2>4. Keeps(a, Notify(a))
    BY <2>3, NotifyKeeps DEF Keeps
  <2>5. QED
    BY <1>1, <2>1, <2>2, <2>3, <2>4 DEF Keeps
<1>3. Keeps(w, Flushed(w, o))
  <2> DEFINE b == [w.obj[o] EXCEPT !.flags = Toggle(@, "hide") \ {"flush"},
                                   !.request = @ \ {"flush"}]
             c == [e EXCEPT !.obj[o] = b]
  <2>1. Flushed(w, o) = c
    BY DEF Flushed
  <2> HIDE DEF b, e
  <2>2. Keeps(e, c)
    BY <1>1 DEF Record, Keeps, Fields
  <2> HIDE DEF c
  <2>3. QED
    BY <1>1, <2>1, <2>2, KeepsOn
<1>4. Keeps(w, Destroyed(w, o))
  <2> DEFINE c == Clear(w, o, {"visible"})
             s == Expose(c, o)
             a == Activate(s)
  <2>1. Destroyed(w, o) = IF Has(w, o, "visible") THEN a ELSE RemoveObject(w, o)
    BY DEF Destroyed
  <2>2. Keeps(w, c)
    BY SetKeeps
  <2> HIDE DEF c
  <2>3. Keeps(c, s)
    BY <2>2, SetKeeps DEF Keeps
  <2> HIDE DEF s
  <2>4. Keeps(s, a)
    BY <2>3, ActivateKeeps DEF Keeps
  <2> HIDE DEF a
  <2>5. Keeps(w, a)
    BY <2>2, <2>3, <2>4, KeepsOn
  <2>6. Keeps(w, RemoveObject(w, o))
    BY RemoveKeeps
  <2>7. QED
    BY <2>1, <2>5, <2>6
<1>5. Updated(w, o) = IF "minimize" \in w.obj[o].request THEN Minimized(w, o)
                      ELSE IF flush THEN Flushed(w, o)
                      ELSE IF "destroy" \in w.obj[o].flags THEN Destroyed(w, o) ELSE w
  BY DEF Updated
<1> HIDE DEF flush
<1>6. Keeps(w, w)
  BY DEF Keeps
<1>7. QED
  BY <1>2, <1>3, <1>4, <1>5, <1>6

LEMMA OrphanedKeeps ==
  ASSUME NEW w, NEW o, Record(w)
  PROVE  Keeps(w, Orphaned(w, o))
<1> DEFINE r == RemoveObject(w, o)
           a == Activate(r)
           t == Notify(a)
           c == [w EXCEPT !.obj[o].flags = (@ \ {"visible"}) \union {"hide", "destroy"}]
           g == Ghost(c, o)
<1>1. Orphaned(w, o) = IF Running(w.obj[o].pid) THEN w
                       ELSE IF Has(w, o, "destroy") THEN t ELSE g
  BY DEF Orphaned
<1>2. Keeps(w, r)
  BY RemoveKeeps
<1> HIDE DEF r
<1>3. Keeps(r, a)
  BY <1>2, ActivateKeeps DEF Keeps
<1> HIDE DEF a
<1>4. Keeps(a, t)
  BY <1>3, NotifyKeeps DEF Keeps
<1> HIDE DEF t
<1>5. Keeps(w, t)
  BY <1>2, <1>3, <1>4, KeepsOn
<1>6. Keeps(w, c)
  BY DEF Record, Keeps, Fields
<1> HIDE DEF c
<1>7. Keeps(c, g)
  BY <1>6 DEF Ghost, Record, Keeps, Fields
<1> HIDE DEF g
<1>8. Keeps(w, g) /\ Keeps(w, w)
  BY <1>6, <1>7, KeepsOn DEF Keeps
<1>9. QED
  BY <1>1, <1>5, <1>8

(* What is left of a program that ended is hidden first and removed then;  *)
(* if it was removed already, the released entry is written to.            *)
LEMMA OrphanedFine ==
  ASSUME NEW w, Sound(w, Gone), NEW o \in Index,
         Good(w, Gone) \/ (w.obj[o].pid \in Gone /\ o \notin Used(w.obj))
  PROVE  Fine(Orphaned(w, o), Gone)
<1> DEFINE r == RemoveObject(w, o)
           a == Activate(r)
           t == Notify(a)
           b == [w.obj[o] EXCEPT !.flags = (@ \ {"visible"}) \union {"hide", "destroy"}]
           c == [w EXCEPT !.obj[o].flags = (@ \ {"visible"}) \union {"hide", "destroy"}]
           g == Ghost(c, o)
<1>1. Orphaned(w, o) = IF Running(w.obj[o].pid) THEN w
                       ELSE IF Has(w, o, "destroy") THEN t ELSE g
  BY DEF Orphaned
<1>2. Kind(o, w.obj[o], Gone) /\ Shaped(w.obj[o]) /\ Record(w) /\ Table(w.obj)
  BY KindOf, TableOf
<1>3. Contains(Whole(w), o) <=> o \in Used(w.obj)
  BY WholeIs
<1>4. CASE Running(w.obj[o].pid)
  BY <1>1, <1>2, <1>4, RunningIs DEF Fine
<1>5. CASE ~ Running(w.obj[o].pid) /\ o \notin Used(w.obj)
  <2>1. ~ Has(w, o, "destroy")
    BY <1>5 DEF Has, Used
  <2>2. Record(c) /\ c.list = w.list /\ c.turn = w.turn
    BY <1>2 DEF Record, Fields
  <2> HIDE DEF c
  <2>3. ~ Contains(Whole(c), o)
    BY <1>3, <1>5, <2>2 DEF Whole
  <2>4. Fine(g, Gone)
    BY <2>2, <2>3, GhostIs
  <2>5. QED
    BY <1>1, <1>5, <2>1, <2>4
<1>6. CASE ~ Running(w.obj[o].pid) /\ o \in Used(w.obj)
  <2>1. Good(w, Gone) /\ w.obj[o].pid \in Gone /\ w.obj[o].pid \in Client
    BY <1>6, RunningIs DEF Gone
  <2>2. Fine(t, Gone)
    BY <1>6, <2>1, RemovedFine
  <2>3. Good(c, Gone)
    <3>1. o # Workbench
      BY <1>2, <2>1, WindowsAssumption DEF Kind
    <3>2. Aside(w, c) /\ c.obj = [w.obj EXCEPT ![o] = b]
      BY <1>2 DEF Aside, Record, Fields, SameTray
    <3>3. /\ Shaped(b) /\ b.pid = w.obj[o].pid
          /\ b.flags = (w.obj[o].flags \ {"visible"}) \union {"hide", "destroy"}
      BY <1>2 DEF Shaped, ObjFields
    <3> HIDE DEF b, c
    <3>4. b.flags \ Loose = w.obj[o].flags \ Loose
      BY <3>3 DEF Loose
    <3>5. w.obj[o].flags # {}
      BY <1>6 DEF Used
    <3>6. Changed(o, w.obj[o], b, Gone)
      BY <2>1, <3>1, <3>3, <3>4, <3>5 DEF Changed
    <3>7. Stays(w, c, Gone)
      BY <3>2, <3>6, ObjectStays
    <3>8. QED
      BY <2>1, <3>7, StaysGood
  <2>4. Record(c)
    BY <2>3, TableOf DEF Good
  <2> HIDE DEF c, t
  <2>5. Fine(g, Gone)
    BY <2>3, <2>4, GhostIs
  <2>6. QED
    BY <1>1, <1>6, <2>2, <2>5
<1>7. QED
  BY <1>4, <1>5, <1>6

LEMMA RemovedIs ==
  ASSUME NEW w, Good(w, Gone), NEW o \in Used(w.obj), w.obj[o].pid \in Gone
  PROVE  \/ RemoveObject(w, o).ghost
         \/ /\ Sound(RemoveObject(w, o), Gone) /\ RemoveObject(w, o).obj[o].pid \in Gone
            /\ o \notin Used(RemoveObject(w, o).obj)
<1>1. Sound(w, Gone) /\ w.obj[o].pid \in Client
  BY DEF Good, Gone
<1>2. \A v : v = RemoveObject(w, o) =>
         \/ v.ghost
         \/ Sound(v, Gone) /\ Used(v.obj) = Used(w.obj) \ {o} /\ v.obj[o].pid = w.obj[o].pid
  BY <1>1, RemoveFits
<1>3. QED
  BY <1>2

LEMMA VisitedFine ==
  ASSUME NEW w, Fine(w, Gone), NEW i \in Nat \ {0}
  PROVE  Fine(Visited(w, i), Gone)
<1> DEFINE o == w.list[i]
           u == Updated(w, o)
           v == Orphaned(u, o)
<1>1. Visited(w, i) = IF i > Len(w.list) THEN w ELSE v
  BY DEF Visited
<1>2. CASE w.ghost \/ u.ghost
  <2>1. Record(w)
    BY DEF Fine
  <2>2. Keeps(w, u)
    BY <2>1, UpdatedKeeps
  <2> HIDE DEF u
  <2>3. Keeps(u, v)
    BY <2>2, OrphanedKeeps DEF Keeps
  <2> HIDE DEF v
  <2>4. Fine(v, Gone)
    BY <1>2, <2>2, <2>3 DEF Keeps, Fine
  <2>5. QED
    BY <1>1, <2>4
<1>3. CASE Good(w, Gone) /\ i <= Len(w.list) /\ ~ u.ghost
  <2>1. o \in Used(w.obj)
    <3>1. Seats(w.list) /\ Names(w.list) \subseteq Used(w.obj)
      BY <1>3 DEF Good, Sound, Laid
    <3>2. QED
      BY <1>3, <3>1, ListOf
  <2>2. o \in Index
    BY <2>1 DEF Used
  <2> HIDE DEF o
  <2>3. CASE Good(u, Gone)
    <3>1. Fine(v, Gone)
      BY <2>2, <2>3, OrphanedFine DEF Good
    <3>2. QED
      BY <1>1, <1>3, <3>1, ListOf DEF Good, Sound, Laid
  <2>4. CASE u = RemoveObject(w, o) /\ w.obj[o].pid \in Gone
    <3> DEFINE r == RemoveObject(w, o)
    <3>1. r.ghost \/ (Sound(r, Gone) /\ r.obj[o].pid \in Gone /\ o \notin Used(r.obj))
      BY <1>3, <2>1, <2>4, RemovedIs
    <3>2. u = r /\ ~ u.ghost
      BY <1>3, <2>4
    <3> HIDE DEF u, r
    <3>3. Sound(u, Gone) /\ u.obj[o].pid \in Gone /\ o \notin Used(u.obj)
      BY <3>1, <3>2
    <3>4. Fine(v, Gone)
      BY <2>2, <3>3, OrphanedFine
    <3>5. QED
      BY <1>1, <1>3, <3>4, ListOf DEF Good, Sound, Laid
  <2>5. QED
    BY <1>3, <2>1, <2>3, <2>4, UpdatedIs
<1>4. CASE Good(w, Gone) /\ ~ i <= Len(w.list)
  <2>1. i > Len(w.list)
    BY <1>4, ListOf DEF Good, Sound, Laid
  <2>2. QED
    BY <1>1, <2>1
<1>5. QED
  BY <1>2, <1>3, <1>4 DEF Fine

(* All of them, one after the other.                                       *)
Passing(w, n, f) ==
  f = [i \in 0 .. n |-> IF i = 0 THEN w ELSE Visited(f[i - 1], i)]

LEMMA PassingExists ==
  ASSUME NEW w, NEW n \in Nat
  PROVE  \E f : Passing(w, n, f)
<1> DEFINE Bad == {m \in Nat : ~ \E f : Passing(w, m, f)}
<1>1. SUFFICES ASSUME Bad # {} PROVE FALSE
  OBVIOUS
<1>2. PICK m \in Bad : \A k \in Bad : m <= k
  <2>1. Bad \in SUBSET Nat
    OBVIOUS
  <2>2. QED
    BY <1>1, <2>1, LeastNumber
<1>3. CASE m = 0
  <2> DEFINE f == [i \in 0 .. 0 |-> w]
  <2>1. Passing(w, 0, f)
    BY DEF Passing
  <2>2. QED
    BY <2>1, <1>2, <1>3
<1>4. CASE m # 0
  <2>1. m - 1 \in Nat /\ m - 1 \notin Bad
    BY <1>2, <1>4
  <2>2. PICK g : Passing(w, m - 1, g)
    BY <2>1
  <2>3. \A i \in 0 .. m - 1 : g[i] = IF i = 0 THEN w ELSE Visited(g[i - 1], i)
    BY <2>2 DEF Passing
  <2> DEFINE f == [i \in 0 .. m |-> IF i = m THEN Visited(g[m - 1], m) ELSE g[i]]
             h == [i \in 0 .. m |-> IF i = 0 THEN w ELSE Visited(f[i - 1], i)]
  <2>4. ASSUME NEW i \in 0 .. m PROVE f[i] = h[i]
    <3>1. CASE i = m
      <4>1. f[i] = Visited(g[m - 1], m) /\ f[i - 1] = g[m - 1]
        BY <3>1, <2>1
      <4>2. QED
        BY <4>1, <3>1, <1>4
    <3>2. CASE i # m /\ i = 0
      BY <3>2, <2>1, <2>3
    <3>3. CASE i # m /\ i # 0
      <4>1. i \in 0 .. m - 1 /\ i - 1 \in 0 .. m - 1 /\ i - 1 # m
        BY <3>3, <2>1
      <4>2. f[i] = g[i] /\ f[i - 1] = g[i - 1]
        BY <4>1, <3>3
      <4>3. QED
        BY <4>1, <4>2, <2>3, <3>3
    <3>4. QED
      BY <3>1, <3>2, <3>3
  <2>5. f = h
    BY <2>4
  <2>6. Passing(w, m, f)
    BY <2>5 DEF Passing
  <2>7. QED
    BY <2>6, <1>2
<1>5. QED
  BY <1>3, <1>4

LEMMA PassFine ==
  ASSUME NEW w, Fine(w, Gone)
  PROVE  Fine(Pass(w), Gone)
<1> DEFINE n == ObjectLimit
           g == CHOOSE f : Passing(w, n, f)
           Bad == {i \in 0 .. n : ~ Fine(g[i], Gone)}
<1>1. n \in Nat
  BY BaseIsIndex
<1>2. Pass(w) = g[n]
  BY DEF Pass, Passing
<1>3. Passing(w, n, g)
  BY <1>1, PassingExists
<1> HIDE DEF g, n
<1>4. \A i \in 0 .. n : g[i] = IF i = 0 THEN w ELSE Visited(g[i - 1], i)
  BY <1>3 DEF Passing
<1>5. Bad = {}
  <2> SUFFICES ASSUME Bad # {} PROVE FALSE
    OBVIOUS
  <2>1. Bad \in SUBSET Nat
    BY <1>1
  <2>2. PICK i \in Bad : \A j \in Bad : i <= j
    BY <2>1, LeastNumber
  <2>3. i # 0
    BY <1>1, <1>4
  <2>4. i \in Nat \ {0} /\ i - 1 \in 0 .. n /\ i - 1 \notin Bad
    BY <1>1, <2>2, <2>3
  <2>5. Fine(g[i - 1], Gone)
    BY <2>4
  <2>6. g[i] = Visited(g[i - 1], i)
    BY <1>4, <2>3
  <2>7. QED
    BY <2>4, <2>5, <2>6, VisitedFine
<1>6. QED
  BY <1>1, <1>2, <1>5

LEMMA ZonesFine ==
  ASSUME NEW gone, NEW w, Fine(w, gone), NEW zones
  PROVE  Fine([w EXCEPT !.zones = zones], gone)
<1> DEFINE v == [w EXCEPT !.zones = zones]
<1>1. Aside(w, v) /\ v.obj = w.obj /\ v.ghost = w.ghost
  BY DEF Aside, Record, Fields, SameTray, Fine
<1> HIDE DEF v
<1>2. Good(w, gone) => Good(v, gone)
  BY <1>1, AsideStays, StaysGood DEF Good
<1>3. QED
  BY <1>1, <1>2 DEF Fine, Aside, v

LEMMA FilledFine ==
  ASSUME NEW gone, NEW w, Fine(w, gone)
  PROVE  Fine(Filled(w), gone)
<1> DEFINE p == FoldLeft(LAMBDA picture, zone : Fill(w, picture, zone), w.picture, w.zones)
           v == [w EXCEPT !.picture = p, !.zones = <<>>]
<1>1. Filled(w) = v
  BY DEF Filled
<1> HIDE DEF p
<1>2. Record(w)
  BY DEF Fine
<1>3. Aside(w, v) /\ v.obj = w.obj /\ v.ghost = w.ghost
  BY <1>2 DEF Aside, Record, Fields, SameTray
<1> HIDE DEF v
<1>4. Good(w, gone) => Good(v, gone)
  BY <1>3, AsideStays, StaysGood DEF Good
<1>5. QED
  BY <1>1, <1>3, <1>4 DEF Fine, Aside

LEMMA DrawnFine ==
  ASSUME NEW gone, NEW w, Fine(w, gone)
  PROVE  Fine(Drawn(w), gone)
<1> DEFINE z == [w EXCEPT !.zones = Zones(w)]
<1>1. Fine(z, gone)
  BY ZonesFine
<1> HIDE DEF z
<1>2. Fine(Filled(z), gone)
  BY <1>1, FilledFine
<1>3. QED
  BY <1>2 DEF Drawn, z

-----------------------------------------------------------------------------
(* wm_thread_taskbar.  A step of it leaves it at another one.              *)
LEMMA GotoTurned ==
  ASSUME NEW turn, Turned(turn), turn.hole = 0, NEW at, at # "shift",
         at \in {"search", "raise", "hide", "hidden"} => turn.obj \in Window,
         at \in {"search", "raise", "look", "focus"} => turn.then \in {"open", "show", "entry", "done"}
  PROVE  LET u == [turn EXCEPT !.at = at] IN Turned(u) /\ u.hole = 0
<1> DEFINE u == [turn EXCEPT !.at = at]
<1>1. /\ u = [f \in Turning |-> u[f]] /\ u.at = at /\ u.obj = turn.obj
      /\ u.hole = 0 /\ u.then = turn.then
  BY DEF Turned, Turning
<1> HIDE DEF u
<1>2. QED
  BY <1>1 DEF Turned, u

LEMMA SubTurned ==
  ASSUME NEW at, at # "shift", NEW obj, NEW end,
         at \in {"search", "raise", "hide", "hidden"} => obj \in Window,
         at \in {"search", "raise", "look", "focus"} => end \in {"open", "show", "entry", "done"}
  PROVE  LET u == [at |-> at, obj |-> obj, hole |-> 0, then |-> end]
         IN  Turned(u) /\ u.hole = 0
BY DEF Turned, Turning

LEMMA TurnFine ==
  ASSUME NEW gone, NEW w, Fine(w, gone), w.turn.hole = 0,
         NEW turn, Turned(turn), turn.hole = 0
  PROVE  Fine([w EXCEPT !.turn = turn], gone) /\ [w EXCEPT !.turn = turn].pc = w.pc
<1> DEFINE v == [w EXCEPT !.turn = turn]
<1>1. /\ Record(v) /\ v.obj = w.obj /\ v.list = w.list /\ v.active = w.active
      /\ v.selected = w.selected /\ v.elements = w.elements /\ v.entry = w.entry
      /\ v.x = w.x /\ v.ghost = w.ghost /\ v.turn = turn /\ v.pc = w.pc
  BY DEF Fine, Record, Fields
<1> HIDE DEF v
<1>2. ASSUME Good(w, gone) PROVE Good(v, gone)
  <2>1. Sound(w, gone) /\ Laid(w.list, w.turn, Used(w.obj))
    BY <1>2 DEF Good, Sound
  <2>2. Laid(v.list, v.turn, Used(v.obj))
    BY <1>1, <2>1, OrderIs
  <2>3. QED
    BY <1>1, <1>2, <2>2 DEF Good, Sound, Tray
<1>3. QED
  BY <1>1, <1>2 DEF Fine, v

LEMMA GotoFine ==
  ASSUME NEW gone, NEW w, Fine(w, gone), Turned(w.turn), w.turn.hole = 0,
         NEW at, at # "shift",
         at \in {"search", "raise", "hide", "hidden"} => w.turn.obj \in Window,
         at \in {"search", "raise", "look", "focus"} => w.turn.then \in {"open", "show", "entry", "done"}
  PROVE  Fine(Goto(w, at), gone) /\ Goto(w, at).pc = w.pc
<1> DEFINE u == [w.turn EXCEPT !.at = at]
<1>1. Turned(u) /\ u.hole = 0
  BY GotoTurned
<1>2. Goto(w, at) = [w EXCEPT !.turn = u]
  BY DEF Goto
<1> HIDE DEF u
<1>3. QED
  BY <1>1, <1>2, TurnFine

LEMMA SubFine ==
  ASSUME NEW gone, NEW w, Fine(w, gone), w.turn.hole = 0,
         NEW at, at # "shift", NEW obj, NEW end,
         at \in {"search", "raise", "hide", "hidden"} => obj \in Window,
         at \in {"search", "raise", "look", "focus"} => end \in {"open", "show", "entry", "done"}
  PROVE  Fine(Sub(w, at, obj, end), gone) /\ Sub(w, at, obj, end).pc = w.pc
<1> DEFINE u == [at |-> at, obj |-> obj, hole |-> 0, then |-> end]
<1>1. Turned(u) /\ u.hole = 0
  BY SubTurned
<1>2. Sub(w, at, obj, end) = [w EXCEPT !.turn = u]
  BY DEF Sub
<1> HIDE DEF u
<1>3. QED
  BY <1>1, <1>2, TurnFine

(* Where the thread moves no object there is no room for one.              *)
LEMMA TurnIs ==
  ASSUME NEW gone, NEW w, Good(w, gone)
  PROVE  /\ Record(w) /\ Fine(w, gone) /\ Sound(w, gone) /\ Turned(w.turn)
         /\ w.turn.at # "shift" => w.turn.hole = 0
BY TableOf DEF Good, Sound, Tray, Turned, Fine

(* A click on the taskbar: the menu is moved, or hidden.                   *)
LEMMA ClickedFine ==
  ASSUME NEW gone, NEW w, Good(w, gone), w.turn.at = "idle"
  PROVE  Fine(Clicked(w), gone) /\ Clicked(w).pc = w.pc
<1> DEFINE y  == w.obj[Taskbar].y - w.obj[Menu].h
           b  == [w.obj[Menu] EXCEPT !.x = 0, !.y = y]
           at == [w EXCEPT !.obj[Menu] = b]
           c  == Clear(w, Menu, {"visible"})
<1>1. Clicked(w) = IF Opens(w) THEN Sub(at, "search", Menu, "open") ELSE Goto(c, "expose")
  BY DEF Clicked
<1>2. /\ Sound(w, gone) /\ Menu \in Used(w.obj) /\ Menu \in Index /\ Menu # Workbench
      /\ Menu \in Window
  BY BaseIsUsed, BaseIsIndex DEF Good, Window
<1>3. /\ Kind(Menu, w.obj[Menu], gone) /\ Shaped(w.obj[Menu]) /\ Record(w)
      /\ Turned(w.turn) /\ w.turn.hole = 0
  BY <1>2, KindOf, TurnIs
<1>4. Fine(at, gone) /\ at.turn = w.turn /\ at.pc = w.pc
  <2>1. Shaped(b) /\ b.pid = w.obj[Menu].pid /\ b.flags = w.obj[Menu].flags
    BY <1>3 DEF Shaped, ObjFields
  <2> HIDE DEF b
  <2>2. w.obj[Menu].flags # {}
    BY <1>2 DEF Used
  <2>3. Changed(Menu, w.obj[Menu], b, gone)
    BY <1>2, <2>1, <2>2 DEF Changed
  <2>4. Aside(w, at) /\ at.obj = [w.obj EXCEPT ![Menu] = b] /\ at.turn = w.turn /\ at.pc = w.pc
    BY <1>3 DEF Aside, Record, Fields, SameTray
  <2> HIDE DEF at
  <2>5. Stays(w, at, gone)
    BY <1>2, <2>3, <2>4, ObjectStays
  <2>6. QED
    BY <2>4, <2>5, StaysGood DEF Fine, Aside
<1>5. Fine(c, gone) /\ c.turn = w.turn /\ c.pc = w.pc
  <2>1. Stays(w, c, gone)
    BY <1>2, ClearStays
  <2>2. Keeps(w, c)
    BY <1>3, SetKeeps
  <2> HIDE DEF c
  <2>3. QED
    BY <2>1, <2>2, StaysGood DEF Fine, Keeps
<1> HIDE DEF at, c
<1>6. Fine(Sub(at, "search", Menu, "open"), gone) /\ Sub(at, "search", Menu, "open").pc = w.pc
  BY <1>2, <1>3, <1>4, SubFine
<1>7. Fine(Goto(c, "expose"), gone) /\ Goto(c, "expose").pc = w.pc
  BY <1>3, <1>5, GotoFine
<1>8. QED
  BY <1>1, <1>6, <1>7

LEMMA ActiveGood ==
  ASSUME NEW gone, NEW w, Sound(w, gone), NEW o \in Used(w.obj)
  PROVE  Good([w EXCEPT !.active = o], gone)
<1> DEFINE v == [w EXCEPT !.active = o]
<1>1. /\ Record(v) /\ v.obj = w.obj /\ v.list = w.list /\ v.active = o
      /\ v.selected = w.selected /\ SameTray(w, v)
  BY TableOf DEF Record, Fields, SameTray
<1> HIDE DEF v
<1>2. QED
  BY <1>1 DEF v, Good, Sound, Tray, SameTray

LEMMA OpenedFine ==
  ASSUME NEW gone, NEW w, Good(w, gone), w.turn.at = "open"
  PROVE  Fine(Opened(w), gone) /\ Opened(w).pc = w.pc
<1> DEFINE v == [w EXCEPT !.active = Menu]
<1>1. /\ Record(w) /\ Sound(w, gone) /\ Turned(w.turn) /\ w.turn.hole = 0
      /\ Menu \in Used(w.obj)
  BY TurnIs, BaseIsUsed
<1>2. Good(v, gone)
  BY <1>1, ActiveGood
<1>3. Keeps(w, v)
  BY <1>1, ActiveIs
<1>4. Opened(w) = Goto(v, "show")
  BY DEF Opened
<1> HIDE DEF v
<1>5. Fine(v, gone) /\ Turned(v.turn) /\ v.turn.hole = 0 /\ v.pc = w.pc
  BY <1>1, <1>2, <1>3 DEF Fine, Keeps
<1>6. QED
  BY <1>4, <1>5, GotoFine

LEMMA MissedFine ==
  ASSUME NEW gone, NEW w, Fine(w, gone), NEW missed
  PROVE  Fine([w EXCEPT !.missed = missed], gone) /\ Keeps(w, [w EXCEPT !.missed = missed])
<1> DEFINE v == [w EXCEPT !.missed = missed]
<1>1. Aside(w, v) /\ v.obj = w.obj /\ Keeps(w, v) /\ v.ghost = w.ghost
  BY DEF Aside, Record, Fields, SameTray, Fine, Keeps
<1> HIDE DEF v
<1>2. Good(w, gone) => Good(v, gone)
  BY <1>1, AsideStays, StaysGood DEF Good
<1>3. QED
  BY <1>1, <1>2 DEF Fine, Aside, v

LEMMA ExposedFine ==
  ASSUME NEW gone, NEW w, Good(w, gone), w.turn.at = "expose"
  PROVE  Fine(Exposed(w), gone) /\ Exposed(w).pc = w.pc
<1> DEFINE e == Expose(w, Menu)
           v == [e EXCEPT !.missed = e.missed \/ w.pc = "fill"]
<1>1. Record(w) /\ Sound(w, gone) /\ Turned(w.turn) /\ w.turn.hole = 0
  BY TurnIs
<1>2. Keeps(w, e) /\ Stays(w, e, gone)
  BY <1>1, SetKeeps, ExposeStays
<1>3. Exposed(w) = Sub(v, "look", 0, "entry")
  BY DEF Exposed
<1> HIDE DEF e
<1>4. Fine(e, gone)
  BY <1>2, StaysGood DEF Fine, Keeps
<1>5. Fine(v, gone) /\ Keeps(e, v)
  BY <1>4, MissedFine
<1> HIDE DEF v
<1>6. v.turn.hole = 0 /\ v.pc = w.pc
  BY <1>1, <1>2, <1>5 DEF Keeps
<1>7. QED
  BY <1>3, <1>5, <1>6, SubFine

(* wm_object_activate: what was found may be gone when it becomes active.  *)
LEMMA LookedFine ==
  ASSUME NEW gone, NEW w, Good(w, gone), w.turn.at = "look"
  PROVE  Fine(Looked(w), gone) /\ Looked(w).pc = w.pc
<1> DEFINE o == Activate(w).active
           u == [w.turn EXCEPT !.obj = o, !.at = "focus"]
<1>1. Record(w) /\ Fine(w, gone) /\ Turned(w.turn) /\ w.turn.hole = 0
  BY TurnIs
<1>2. Looked(w) = [w EXCEPT !.turn = u]
  BY DEF Looked
<1> HIDE DEF o
<1>3. u = [f \in Turning |-> u[f]] /\ u.at = "focus" /\ u.hole = 0 /\ u.then = w.turn.then
  BY <1>1 DEF Turned, Turning
<1> HIDE DEF u
<1>4. Turned(u)
  BY <1>1, <1>3 DEF Turned
<1>5. QED
  BY <1>1, <1>2, <1>3, <1>4, TurnFine

LEMMA GhostKeeps ==
  ASSUME NEW w, NEW o, Record(w)
  PROVE  Keeps(w, Ghost(w, o))
BY DEF Ghost, Record, Keeps, Fields

(* An object becomes active, or a released entry does.                     *)
LEMMA ActiveFine ==
  ASSUME NEW gone, NEW w, Good(w, gone), NEW o
  PROVE  LET g == Ghost([w EXCEPT !.active = o], o) IN Fine(g, gone) /\ Keeps(w, g)
<1> DEFINE v == [w EXCEPT !.active = o]
<1>1. Record(w) /\ Sound(w, gone)
  BY TurnIs
<1>2. Keeps(w, v) /\ v.list = w.list
  BY <1>1, ActiveIs
<1>3. ASSUME Contains(Whole(v), o) PROVE Good(v, gone)
  <2>1. Whole(v) = Whole(w)
    BY <1>2 DEF Whole, Keeps
  <2>2. o \in Used(w.obj)
    BY <1>1, <1>3, <2>1, WholeIs
  <2>3. QED
    BY <1>1, <2>2, ActiveGood
<1> HIDE DEF v
<1>4. Fine(Ghost(v, o), gone) /\ Keeps(v, Ghost(v, o))
  BY <1>2, <1>3, GhostIs DEF Keeps
<1>5. QED
  BY <1>2, <1>4, KeepsOn DEF v

LEMMA ReturnFine ==
  ASSUME NEW gone, NEW w, Fine(w, gone), Turned(w.turn), w.turn.hole = 0,
         w.turn.at \in {"search", "look", "focus"}
  PROVE  Fine(Return(w), gone) /\ Return(w).pc = w.pc
<1>1. w.turn.then \in {"open", "show", "entry", "done"}
  BY DEF Turned
<1>2. QED
  BY <1>1, GotoFine DEF Return

LEMMA FocusedFine ==
  ASSUME NEW gone, NEW w, Good(w, gone), w.turn.at = "focus"
  PROVE  Fine(Focused(w), gone) /\ Focused(w).pc = w.pc
<1> DEFINE o == w.turn.obj
           g == Ghost([w EXCEPT !.active = o], o)
<1>1. Turned(w.turn) /\ w.turn.hole = 0
  BY TurnIs
<1>2. Fine(g, gone) /\ Keeps(w, g)
  BY ActiveFine
<1>3. Focused(w) = Return(g)
  BY DEF Focused
<1> HIDE DEF g
<1>4. Fine(Return(g), gone) /\ Return(g).pc = g.pc
  BY <1>1, <1>2, ReturnFine DEF Keeps
<1>5. QED
  BY <1>2, <1>3, <1>4 DEF Keeps

LEMMA RaisedFine ==
  ASSUME NEW gone, NEW w, Good(w, gone), w.turn.at = "raise"
  PROVE  Fine(Raised(w), gone) /\ Raised(w).pc = w.pc
<1> DEFINE o == w.turn.obj
           g == Ghost([w EXCEPT !.active = o], o)
<1>1. Turned(w.turn) /\ w.turn.hole = 0
  BY TurnIs
<1>2. Fine(g, gone) /\ Keeps(w, g)
  BY ActiveFine
<1>3. Raised(w) = Goto(g, "search")
  BY DEF Raised
<1> HIDE DEF g
<1>4. /\ g.turn = w.turn /\ w.turn.obj \in Window
      /\ w.turn.then \in {"open", "show", "entry", "done"}
  BY <1>1, <1>2 DEF Keeps, Turned
<1>5. QED
  BY <1>1, <1>2, <1>3, <1>4, GotoFine DEF Keeps

(* wm_object_move_up, with the object where it is found.                   *)
LEMMA SearchedFine ==
  ASSUME NEW gone, NEW w, Good(w, gone), w.turn.at = "search"
  PROVE  Fine(Searched(w), gone) /\ Searched(w).pc = w.pc
<1> DEFINE at == {p \in DOMAIN w.list : w.list[p] = w.turn.obj}
           i  == CHOOSE p \in at : \A q \in at : p <= q
           u  == [w.turn EXCEPT !.at = "shift", !.hole = i]
           v  == [w EXCEPT !.turn = u]
<1>1. /\ Record(w) /\ Fine(w, gone) /\ Sound(w, gone) /\ Turned(w.turn)
      /\ w.turn.hole = 0
  BY TurnIs
<1>2. CASE at = {}
  <2>1. Searched(w) = Return(w)
    BY <1>2 DEF Searched
  <2>2. QED
    BY <1>1, <2>1, ReturnFine
<1>3. CASE at # {}
  <2>1. Searched(w) = v
    BY <1>3 DEF Searched
  <2>2. List(w.list) /\ Names(w.list) = Used(w.obj) /\ Seats(w.list)
    BY <1>1, OrderIs, ListIsSeats DEF Sound
  <2>3. DOMAIN w.list = 1 .. Len(w.list) /\ Len(w.list) \in Nat
    BY <2>2, ListOf
  <2>4. i \in at
    <3>1. at \in SUBSET Nat
      BY <2>3
    <3>2. \E p \in at : \A q \in at : p <= q
      BY <3>1, <1>3, LeastNumber
    <3> HIDE DEF at
    <3>3. QED
      BY <3>2
  <2>5. i \in 1 .. Len(w.list) /\ w.list[i] = w.turn.obj
    BY <2>3, <2>4
  <2> HIDE DEF i
  <2>6. /\ u = [f \in Turning |-> u[f]] /\ u.at = "shift" /\ u.obj = w.turn.obj
        /\ u.hole = i /\ u.then = w.turn.then
    BY <1>1 DEF Turned, Turning
  <2>7. [w.list EXCEPT ![i] = w.turn.obj] = w.list
    BY <2>2, <2>5 DEF List
  <2> HIDE DEF u
  <2>8. Turned(u)
    BY <1>1, <2>3, <2>5, <2>6 DEF Turned
  <2>9. Laid(w.list, u, Used(w.obj))
    BY <2>2, <2>5, <2>6, <2>7 DEF Laid
  <2>10. /\ Record(v) /\ v.obj = w.obj /\ v.list = w.list /\ v.active = w.active
         /\ v.selected = w.selected /\ v.elements = w.elements /\ v.entry = w.entry
         /\ v.x = w.x /\ v.turn = u /\ v.pc = w.pc
    BY <1>1 DEF Record, Fields
  <2> HIDE DEF v
  <2>11. Good(v, gone)
    BY <1>1, <2>8, <2>9, <2>10 DEF Good, Sound, Tray
  <2>12. QED
    BY <2>1, <2>10, <2>11 DEF Fine
<1>4. QED
  BY <1>2, <1>3

(* The next object goes back: the whole list has the two the other way.    *)
LEMMA SwapFits ==
  ASSUME NEW list, List(list), NEW i \in 2 .. Len(list) - 3,
         NEW l, l = [list EXCEPT ![i] = list[i + 1], ![i + 1] = list[i]]
  PROVE  List(l) /\ Names(l) = Names(list)
<1>1. PICK n \in Nat : n = Len(list) /\ n >= 3
  BY DEF List
<1>2. /\ list \in Seq(Index) /\ list[1] = Workbench /\ list[n - 1] = Taskbar
      /\ list[n] = Cursor /\ \A p, q \in 1 .. n : list[p] = list[q] => p = q
  BY <1>1 DEF List
<1>3. i \in Nat /\ 2 <= i /\ i <= n - 3 /\ i \in 1 .. n /\ i + 1 \in 1 .. n
  BY <1>1
<1> DEFINE At(p) == IF p = i THEN i + 1 ELSE IF p = i + 1 THEN i ELSE p
<1>4. \A p \in 1 .. n : At(p) \in 1 .. n /\ At(At(p)) = p
  BY <1>3
<1>5. /\ l \in Seq(Index) /\ Len(l) = n
      /\ \A p \in 1 .. n : l[p] = list[At(p)]
  BY <1>1, <1>2, <1>3
<1>6. /\ At(1) = 1 /\ At(n - 1) = n - 1 /\ At(n) = n
      /\ 1 \in 1 .. n /\ n - 1 \in 1 .. n /\ n \in 1 .. n
  BY <1>1, <1>3
<1>7. \A p, q \in 1 .. n : l[p] = l[q] => p = q
  BY <1>2, <1>4, <1>5
<1>8. l[1] = Workbench /\ l[n - 1] = Taskbar /\ l[n] = Cursor
  BY <1>2, <1>5, <1>6
<1>9. List(l)
  BY <1>1, <1>5, <1>7, <1>8 DEF List
<1>10. ASSUME NEW o PROVE Contains(l, o) <=> Contains(list, o)
  BY <1>1, <1>4, <1>5 DEF Contains
<1>11. QED
  BY <1>9, <1>10 DEF Names

(* A list that one store takes on: the seats stay, and no name comes.      *)
LEMMA ShiftFits ==
  ASSUME NEW list, NEW turn, NEW used, Laid(list, turn, used), turn.obj \in Window,
         NEW i, turn.hole = i, i # 0, i <= Len(list) - 3,
         NEW l, l = [list EXCEPT ![i] = list[i + 1]],
         NEW u, u.obj = turn.obj, u.hole = i + 1
  PROVE  Laid(l, u, used)
<1> DEFINE o     == turn.obj
           whole == [list EXCEPT ![i] = o]
           next  == [l EXCEPT ![i + 1] = o]
<1>1. /\ Seats(list) /\ Names(list) \subseteq used /\ List(whole) /\ Names(whole) = used
      /\ i \in 1 .. Len(list)
  BY DEF Laid
<1>2. PICK n \in Nat : n = Len(list) /\ n >= 3 /\ DOMAIN list = 1 .. n
  BY <1>1, ListOf
<1>3. list \in Seq(Index) /\ o \in Index /\ o # Workbench
  BY <1>1 DEF Seats, Window
<1>4. whole \in Seq(Index) /\ Len(whole) = n
  <2>1. i \in 1 .. Len(list)
    BY <1>1
  <2>2. whole \in Seq(Index) /\ Len(whole) = Len(list)
    BY <1>3, <2>1
  <2>3. QED
    BY <1>2, <2>2
<1>5. i \in 2 .. n - 3
  <2>1. i # 1
    BY <1>1, <1>2, <1>3 DEF List
  <2>2. QED
    BY <1>1, <1>2, <2>1
<1>6. i \in 1 .. n /\ i + 1 \in 1 .. n /\ i + 1 # i /\ i + 1 # 0 /\ i + 1 # n - 1 /\ i + 1 # n
      /\ i # n - 1 /\ i # n /\ i # 1
  BY <1>5, <1>2
<1>7. l \in Seq(Index) /\ Len(l) = n /\ \A p \in 1 .. n : l[p] = IF p = i THEN list[i + 1] ELSE list[p]
  BY <1>2, <1>3, <1>6
<1>8. next = [whole EXCEPT ![i] = whole[i + 1], ![i + 1] = whole[i]]
  BY <1>2, <1>3, <1>6
<1> HIDE DEF next, whole
<1>9. List(next) /\ Names(next) = used
  <2>1. i \in 2 .. Len(whole) - 3
    BY <1>4, <1>5
  <2>2. List(next) /\ Names(next) = Names(whole)
    BY <1>1, <1>8, <2>1, SwapFits
  <2>3. QED
    BY <1>1, <2>2
<1>10. \A p \in 1 .. n : /\ list[p] = Taskbar <=> p = n - 1
                         /\ list[p] = Cursor <=> p = n
  <2>1. \A p \in 1 .. Len(list) : /\ list[p] = Taskbar <=> p = Len(list) - 1
                                  /\ list[p] = Cursor <=> p = Len(list)
    BY <1>1, Zenon DEF Seats
  <2>2. QED
    BY <2>1, <1>2
<1>11. Seats(l)
  <2>1. ASSUME NEW p \in 1 .. n
        PROVE  /\ l[p] = Taskbar <=> p = n - 1
               /\ l[p] = Cursor <=> p = n
    BY <1>6, <1>7, <1>10
  <2>2. l[1] = Workbench /\ 1 \in 1 .. n
    BY <1>1, <1>2, <1>6, <1>7 DEF Seats
  <2>3. QED
    BY <2>1, <2>2, <1>2, <1>7 DEF Seats
<1>12. Names(l) \subseteq used
  <2>1. \A p \in 1 .. n : list[p] \in Names(list)
    BY <1>1, <1>2, ListOf
  <2>2. ASSUME NEW x \in Names(l) PROVE x \in Names(list)
    <3>1. PICK p \in 1 .. n : l[p] = x
      BY <1>7, <2>2 DEF Names, Contains
    <3>2. QED
      BY <1>6, <1>7, <2>1, <3>1
  <2>3. QED
    BY <1>1, <2>2
<1>13. QED
  BY <1>2, <1>6, <1>7, <1>9, <1>11, <1>12 DEF Laid, next

(* One store of wm_object_move_up; the last one puts the object in place.  *)
LEMMA ShiftedFine ==
  ASSUME NEW gone, NEW w, Good(w, gone), w.turn.at = "shift"
  PROVE  Fine(Shifted(w), gone) /\ Shifted(w).pc = w.pc
<1> DEFINE i == w.turn.hole
           l == [w.list EXCEPT ![i] = w.list[i + 1]]
           a == [w.turn EXCEPT !.hole = i + 1]
           b == [w.turn EXCEPT !.hole = 0, !.at = w.turn.then]
           v == [w EXCEPT !.list = l, !.turn = a]
           u == [w EXCEPT !.list = Whole(w), !.turn = b]
<1>1. /\ Record(w) /\ Sound(w, gone) /\ Turned(w.turn) /\ i # 0 /\ w.turn.obj \in Window
      /\ w.turn.then \in {"open", "show", "entry", "done"}
      /\ Laid(w.list, w.turn, Used(w.obj)) /\ Kinds(w.obj, gone)
  BY TurnIs DEF Turned, Sound
<1>2. /\ Seats(w.list) /\ i \in 1 .. Len(w.list) /\ Len(w.list) \in Nat
      /\ List(Whole(w)) /\ Names(Whole(w)) = Used(w.obj)
  BY <1>1, ListOf DEF Laid, Whole
<1>3. CASE Shifts(w)
  <2>1. Shifted(w) = v
    BY <1>3 DEF Shifted
  <2>2. i + 1 \in 1 .. Len(w.list) /\ ~ Above(w, w.list[i + 1])
    BY <1>2, <1>3 DEF Shifts
  <2>3. i + 1 # Len(w.list) - 1 /\ i + 1 # Len(w.list)
    BY <1>1, <1>2, <2>2, BarIs DEF Above
  <2>4. i <= Len(w.list) - 3
    BY <1>2, <2>2, <2>3
  <2>5. /\ a = [f \in Turning |-> a[f]] /\ a.at = "shift" /\ a.obj = w.turn.obj
        /\ a.hole = i + 1 /\ a.then = w.turn.then
    BY <1>1 DEF Turned, Turning
  <2> HIDE DEF a, l
  <2>6. Laid(l, a, Used(w.obj))
    BY <1>1, <2>4, <2>5, ShiftFits DEF l
  <2> HIDE DEF i
  <2>7. Turned(a)
    BY <1>1, <1>2, <2>5 DEF Turned
  <2>8. /\ Record(v) /\ v.obj = w.obj /\ v.list = l /\ v.active = w.active
        /\ v.selected = w.selected /\ v.elements = w.elements /\ v.entry = w.entry
        /\ v.x = w.x /\ v.turn = a /\ v.pc = w.pc
    BY <1>1 DEF Record, Fields
  <2> HIDE DEF v
  <2>9. Good(v, gone)
    BY <2>6, <2>7, <2>8 DEF Good, Sound, Tray
  <2>10. QED
    BY <2>1, <2>8, <2>9 DEF Fine
<1>4. CASE ~ Shifts(w)
  <2>1. Shifted(w) = u
    BY <1>4 DEF Shifted
  <2>2. /\ b = [f \in Turning |-> b[f]] /\ b.at = w.turn.then /\ b.hole = 0
    BY <1>1 DEF Turned, Turning
  <2> HIDE DEF b
  <2>3. Turned(b)
    BY <1>1, <2>2 DEF Turned
  <2>4. Laid(Whole(w), b, Used(w.obj))
    BY <1>2, <2>2, OrderIs
  <2>5. /\ Record(u) /\ u.obj = w.obj /\ u.list = Whole(w) /\ u.active = w.active
        /\ u.selected = w.selected /\ u.elements = w.elements /\ u.entry = w.entry
        /\ u.x = w.x /\ u.turn = b /\ u.pc = w.pc
    BY <1>1 DEF Record, Fields
  <2> HIDE DEF u
  <2>6. Good(u, gone)
    BY <2>3, <2>4, <2>5 DEF Good, Sound, Tray
  <2>7. QED
    BY <2>1, <2>5, <2>6 DEF Fine
<1>5. QED
  BY <1>3, <1>4

(* What is written to an object that may have been released.               *)
LEMMA WrittenFine ==
  ASSUME NEW gone, NEW w, Good(w, gone), NEW o, NEW v, NEW b,
         Aside(w, v), v.obj = [w.obj EXCEPT ![o] = b],
         o \in Used(w.obj) => o \in Index /\ Changed(o, w.obj[o], b, gone)
  PROVE  Fine(Ghost(v, o), gone) /\ Keeps(v, Ghost(v, o))
<1>1. Sound(w, gone) /\ Record(v) /\ Whole(v) = Whole(w)
  BY TurnIs DEF Aside, SameTray, Whole
<1>2. ASSUME Contains(Whole(v), o) PROVE Good(v, gone)
  <2>1. o \in Used(w.obj)
    BY <1>1, <1>2, WholeIs
  <2>2. Stays(w, v, gone)
    BY <1>1, <2>1, ObjectStays
  <2>3. QED
    BY <2>2, StaysGood
<1>3. QED
  BY <1>1, <1>2, GhostIs

LEMMA SetFine ==
  ASSUME NEW gone, NEW w, Fine(w, gone), NEW o \in {Taskbar, Cursor}
  PROVE  Fine(Set(w, o, {"flush"}), gone) /\ Keeps(w, Set(w, o, {"flush"}))
<1> DEFINE v == Set(w, o, {"flush"})
<1>1. Keeps(w, v)
  BY SetKeeps DEF Fine
<1>2. ASSUME Good(w, gone) PROVE Good(v, gone)
  <2>1. Sound(w, gone) /\ o \in Used(w.obj)
    BY <1>2, BaseIsUsed DEF Good
  <2>2. Stays(w, v, gone)
    BY <2>1, SetStays
  <2>3. QED
    BY <1>2, <2>2, StaysGood
<1> HIDE DEF v
<1>3. QED
  BY <1>1, <1>2 DEF Fine, Keeps, v

LEMMA ShowedFine ==
  ASSUME NEW gone, NEW w, Good(w, gone), w.turn.at = "show"
  PROVE  Fine(Showed(w), gone) /\ Showed(w).pc = w.pc
<1> DEFINE o == w.turn.obj
           v == Set(w, o, {"visible", "flush"})
           g == Ghost(v, o)
           c == Set(g, Cursor, {"flush"})
<1>1. Record(w) /\ Sound(w, gone) /\ Turned(w.turn) /\ w.turn.hole = 0
  BY TurnIs
<1>2. Showed(w) = IF o = Menu THEN Goto(g, "entry") ELSE Goto(c, "done")
  BY DEF Showed
<1> HIDE DEF o
<1>3. Keeps(w, v) /\ v.list = w.list
  BY <1>1, SetKeeps DEF Set, Record, Fields
<1>4. ASSUME Contains(Whole(v), o) PROVE Good(v, gone)
  <2>1. Contains(Whole(w), o)
    BY <1>3, <1>4 DEF Whole, Keeps
  <2>2. o \in Used(w.obj)
    BY <1>1, <2>1, WholeIs
  <2>3. Stays(w, v, gone)
    BY <1>1, <2>2, SetStays
  <2>4. QED
    BY <2>3, StaysGood
<1> HIDE DEF v
<1>5. Fine(g, gone) /\ Keeps(v, g)
  BY <1>3, <1>4, GhostIs DEF Keeps
<1> HIDE DEF g
<1>6. Fine(c, gone) /\ Keeps(g, c)
  BY <1>5, SetFine
<1> HIDE DEF c
<1>7. /\ g.turn = w.turn /\ c.turn = w.turn /\ g.pc = w.pc /\ c.pc = w.pc
  BY <1>3, <1>5, <1>6 DEF Keeps
<1>8. Fine(Goto(g, "entry"), gone) /\ Goto(g, "entry").pc = w.pc
  BY <1>1, <1>5, <1>7, GotoFine
<1>9. Fine(Goto(c, "done"), gone) /\ Goto(c, "done").pc = w.pc
  BY <1>1, <1>6, <1>7, GotoFine
<1>10. QED
  BY <1>2, <1>8, <1>9

(* Then a window of the list: it may have been released since.             *)
LEMMA Quotient ==
  ASSUME NEW a \in Nat, NEW b \in Nat \ {0}
  PROVE  a \div b \in Nat
OBVIOUS

LEMMA EntryIs ==
  ASSUME NEW w, Tray(w), ~ w.x < BarHeight, ~ Entry(w) > Len(w.elements)
  PROVE  w.elements[Entry(w)] \in Window
<1> DEFINE a == w.x - BarHeight
           q == a \div w.entry
<1>1. Entry(w) = q + 1
  BY DEF Entry
<1>2. a \in Nat /\ w.entry \in Nat \ {0}
  BY WindowsAssumption DEF Tray
<1> HIDE DEF a
<1>3. q \in Nat
  BY <1>2, Quotient
<1> HIDE DEF q
<1>4. w.elements \in Seq(Window) /\ Len(w.elements) \in Nat
  BY DEF Tray
<1>5. Entry(w) \in 1 .. Len(w.elements)
  BY <1>1, <1>3, <1>4
<1>6. QED
  BY <1>4, <1>5

LEMMA ChosenFine ==
  ASSUME NEW gone, NEW w, Good(w, gone), w.turn.at = "entry"
  PROVE  Fine(Chosen(w), gone) /\ Chosen(w).pc = w.pc
<1> DEFINE o  == w.elements[Entry(w)]
           at == IF o = w.active THEN "hide" ELSE "raise"
<1>1. /\ Fine(w, gone) /\ Turned(w.turn) /\ w.turn.hole = 0 /\ Tray(w)
  BY TurnIs DEF Good, Sound
<1>2. Fine(Goto(w, "done"), gone) /\ Goto(w, "done").pc = w.pc
  BY <1>1, GotoFine
<1>3. ASSUME ~ w.x < BarHeight, ~ Entry(w) > Len(w.elements)
      PROVE  Fine(Sub(w, at, o, "show"), gone) /\ Sub(w, at, o, "show").pc = w.pc
  <2>1. o \in Window
    BY <1>1, <1>3, EntryIs
  <2>2. at \in {"hide", "raise"}
    OBVIOUS
  <2> HIDE DEF o, at
  <2>3. QED
    BY <1>1, <2>1, <2>2, SubFine
<1>4. Chosen(w) = Goto(w, "done") \/
      (~ w.x < BarHeight /\ ~ Entry(w) > Len(w.elements) /\ Chosen(w) = Sub(w, at, o, "show"))
  BY Zenon DEF Chosen
<1> HIDE DEF o, at
<1>5. QED
  BY <1>2, <1>3, <1>4

(* The window that was active: it is hidden, whoever has its entry now.    *)
LEMMA ToggledChanges ==
  ASSUME NEW gone, NEW w, Good(w, gone), NEW o \in Window, NEW flag \in {"visible", "hide"}
  PROVE  LET b == [w.obj[o] EXCEPT !.flags = Toggle(@, flag)] IN
         o \in Used(w.obj) => o \in Index /\ Changed(o, w.obj[o], b, gone)
<1> DEFINE b == [w.obj[o] EXCEPT !.flags = Toggle(@, flag)]
<1>1. Sound(w, gone) /\ o \in Index /\ o # Workbench
  BY DEF Good, Window
<1>2. Kind(o, w.obj[o], gone) /\ Shaped(w.obj[o])
  BY <1>1, KindOf
<1>3. Shaped(b) /\ b.pid = w.obj[o].pid /\ b.flags = Toggle(w.obj[o].flags, flag)
  BY <1>2 DEF Shaped, ObjFields
<1> HIDE DEF b
<1>4. /\ b.flags \ Loose = w.obj[o].flags \ Loose
      /\ "destroy" \in b.flags => "destroy" \in w.obj[o].flags
  BY <1>3 DEF Loose, Toggle
<1>5. QED
  BY <1>1, <1>3, <1>4 DEF Changed, Used, b

LEMMA HiddenFine ==
  ASSUME NEW gone, NEW w, Good(w, gone), w.turn.at = "hide"
  PROVE  Fine(Hidden(w), gone) /\ Hidden(w).pc = w.pc
<1> DEFINE o == w.turn.obj
           b == [w.obj[o] EXCEPT !.flags = Toggle(@, "visible")]
           v == [w EXCEPT !.obj[o].flags = Toggle(@, "visible")]
           g == Ghost(v, o)
<1>1. /\ Record(w) /\ Turned(w.turn) /\ w.turn.hole = 0 /\ o \in Window
  BY TurnIs DEF Turned
<1>2. Hidden(w) = Goto(g, "hidden")
  BY DEF Hidden
<1>3. w.turn.obj \in Window
  BY <1>1
<1> HIDE DEF o
<1>4. Aside(w, v) /\ v.obj = [w.obj EXCEPT ![o] = b] /\ v.turn = w.turn /\ v.pc = w.pc
  BY <1>1 DEF Aside, Record, Fields, SameTray
<1>5. o \in Used(w.obj) => o \in Index /\ Changed(o, w.obj[o], b, gone)
  BY <1>1, ToggledChanges
<1> HIDE DEF v, b
<1>6. Fine(g, gone) /\ Keeps(v, g)
  BY <1>4, <1>5, WrittenFine
<1> HIDE DEF g
<1>7. g.turn = w.turn /\ g.pc = w.pc
  BY <1>4, <1>6 DEF Keeps
<1>8. QED
  BY <1>1, <1>2, <1>3, <1>6, <1>7, GotoFine

LEMMA SubmittedFine ==
  ASSUME NEW gone, NEW w, Good(w, gone), w.turn.at = "hidden"
  PROVE  Fine(Submitted(w), gone) /\ Submitted(w).pc = w.pc
<1> DEFINE o == w.turn.obj
           b == [w.obj[o] EXCEPT !.flags = Toggle(@, "hide")]
           m == w.missed \/ Has(w, o, "hide")
           v == [w EXCEPT !.obj[o].flags = Toggle(@, "hide"), !.missed = m]
           g == Ghost(v, o)
<1>1. /\ Record(w) /\ Turned(w.turn) /\ w.turn.hole = 0 /\ o \in Window
  BY TurnIs DEF Turned
<1>2. Submitted(w) = Sub(g, "look", 0, "done")
  BY DEF Submitted
<1> HIDE DEF o, m
<1>3. Aside(w, v) /\ v.obj = [w.obj EXCEPT ![o] = b] /\ v.turn = w.turn /\ v.pc = w.pc
  BY <1>1 DEF Aside, Record, Fields, SameTray
<1>4. o \in Used(w.obj) => o \in Index /\ Changed(o, w.obj[o], b, gone)
  BY <1>1, ToggledChanges
<1> HIDE DEF v, b
<1>5. Fine(g, gone) /\ Keeps(v, g)
  BY <1>3, <1>4, WrittenFine
<1> HIDE DEF g
<1>6. g.turn = w.turn /\ g.pc = w.pc
  BY <1>3, <1>5 DEF Keeps
<1>7. QED
  BY <1>1, <1>2, <1>5, <1>6, SubFine

(* The windows that the taskbar shows: there is a pixel for each of them.  *)
Picking(os, n, f) ==
  f = [k \in 0 .. n |->
         IF k = 0 THEN <<>> ELSE IF k \in os THEN Append(f[k - 1], k) ELSE f[k - 1]]

LEMMA PickingExists ==
  ASSUME NEW os, NEW n \in Nat
  PROVE  \E f : Picking(os, n, f)
<1> DEFINE Bad == {m \in Nat : ~ \E f : Picking(os, m, f)}
<1>1. SUFFICES ASSUME Bad # {} PROVE FALSE
  OBVIOUS
<1>2. PICK m \in Bad : \A k \in Bad : m <= k
  <2>1. Bad \in SUBSET Nat
    OBVIOUS
  <2>2. QED
    BY <1>1, <2>1, LeastNumber
<1>3. CASE m = 0
  <2> DEFINE f == [i \in 0 .. 0 |-> <<>>]
  <2>1. Picking(os, 0, f)
    BY DEF Picking
  <2>2. QED
    BY <2>1, <1>2, <1>3
<1>4. CASE m # 0
  <2>1. m - 1 \in Nat /\ m - 1 \notin Bad
    BY <1>2, <1>4
  <2>2. PICK g : Picking(os, m - 1, g)
    BY <2>1
  <2> DEFINE Next(h, k) == IF k \in os THEN Append(h, k) ELSE h
  <2>3. \A i \in 0 .. m - 1 : g[i] = IF i = 0 THEN <<>> ELSE Next(g[i - 1], i)
    BY <2>2 DEF Picking
  <2> DEFINE f == [i \in 0 .. m |-> IF i = m THEN Next(g[m - 1], m) ELSE g[i]]
             h == [i \in 0 .. m |-> IF i = 0 THEN <<>> ELSE Next(f[i - 1], i)]
  <2>4. ASSUME NEW i \in 0 .. m PROVE f[i] = h[i]
    <3>1. CASE i = m
      <4>1. f[i] = Next(g[m - 1], m) /\ f[i - 1] = g[m - 1]
        BY <3>1, <2>1
      <4>2. QED
        BY <4>1, <3>1, <1>4
    <3>2. CASE i # m /\ i = 0
      BY <3>2, <2>1, <2>3
    <3>3. CASE i # m /\ i # 0
      <4>1. i \in 0 .. m - 1 /\ i - 1 \in 0 .. m - 1 /\ i - 1 # m
        BY <3>3, <2>1
      <4>2. f[i] = g[i] /\ f[i - 1] = g[i - 1]
        BY <4>1, <3>3
      <4>3. QED
        BY <4>1, <4>2, <2>3, <3>3
    <3>4. QED
      BY <3>1, <3>2, <3>3
  <2>5. f = h
    BY <2>4
  <2>6. Picking(os, m, f)
    BY <2>5 DEF Picking
  <2>7. QED
    BY <2>6, <1>2
<1>5. QED
  BY <1>3, <1>4

Short(s, i) == s \in Seq(Window) /\ Len(s) <= IF i <= 4 THEN 0 ELSE i - 4

LEMMA ShortStep ==
  ASSUME NEW i \in Nat \ {0}, NEW s, Short(s, i - 1)
  PROVE  /\ Short(s, i)
         /\ i \in Window \ {Menu} => Short(Append(s, i), i)
<1>1. s \in Seq(Window) /\ Len(s) \in Nat
  BY DEF Short
<1>2. i \in Window \ {Menu} => /\ i > 4 /\ Append(s, i) \in Seq(Window)
                               /\ Len(Append(s, i)) = Len(s) + 1
  BY <1>1 DEF Window, Index, Workbench, Taskbar, Cursor, Menu
<1>3. Len(s) <= IF i - 1 <= 4 THEN 0 ELSE i - 1 - 4
  BY DEF Short
<1>4. QED
  BY <1>1, <1>2, <1>3 DEF Short

LEMMA AscendingIs ==
  ASSUME NEW os, os \subseteq Window \ {Menu}
  PROVE  /\ Ascending(os) \in Seq(Window)
         /\ Len(Ascending(os)) <= ObjectLimit - 4
<1> DEFINE n == ObjectLimit
           g == CHOOSE f : Picking(os, n, f)
           Bad == {i \in 0 .. n : ~ Short(g[i], i)}
<1>1. n \in Nat /\ n >= 4
  BY WindowsAssumption
<1>2. Ascending(os) = g[n]
  BY DEF Ascending, Picking
<1>3. Picking(os, n, g)
  BY <1>1, PickingExists
<1> HIDE DEF g, n
<1>4. \A i \in 0 .. n : g[i] = IF i = 0 THEN <<>>
                               ELSE IF i \in os THEN Append(g[i - 1], i) ELSE g[i - 1]
  BY <1>3 DEF Picking
<1>5. Bad = {}
  <2> SUFFICES ASSUME Bad # {} PROVE FALSE
    OBVIOUS
  <2>1. Bad \in SUBSET Nat
    BY <1>1
  <2>2. PICK i \in Bad : \A j \in Bad : i <= j
    BY <2>1, LeastNumber
  <2>3. i # 0
    <3>1. Short(<<>>, 0)
      BY DEF Short
    <3>2. g[0] = <<>>
      BY <1>1, <1>4
    <3>3. QED
      BY <2>2, <3>1, <3>2
  <2>4. i \in Nat \ {0} /\ i - 1 \in 0 .. n /\ i - 1 \notin Bad
    BY <1>1, <2>2, <2>3
  <2>5. Short(g[i - 1], i - 1)
    BY <2>4
  <2>6. g[i] = IF i \in os THEN Append(g[i - 1], i) ELSE g[i - 1]
    BY <1>4, <2>3
  <2>7. Short(g[i], i)
    BY <2>4, <2>5, <2>6, ShortStep
  <2>8. QED
    BY <2>7
<1>6. Short(g[n], n)
  BY <1>1, <1>5
<1>7. QED
  BY <1>1, <1>2, <1>6 DEF Short, n

LEMMA Share ==
  ASSUME NEW a \in Nat, NEW b \in Nat \ {0}, a >= b
  PROVE  a \div b \in Nat \ {0}
OBVIOUS

LEMMA Remainder ==
  ASSUME NEW a \in Nat, NEW b \in Nat \ {0}
  PROVE  a % b \in Nat
OBVIOUS

Shown(w)  == {o \in Index : w.obj[o].flags # {} /\ ~ Own(w, o)}
Room      == Width - ClockWidth - BarHeight
Wide(n)   == Min2(Room \div n, EntryWidth) + (Room % (Room \div n))

LEMMA WideIs ==
  ASSUME NEW n \in Nat \ {0}, n <= ObjectLimit - 4
  PROVE  Wide(n) \in Nat \ {0}
<1>1. Room \in Nat /\ Room >= n /\ EntryWidth \in Nat \ {0}
  BY WindowsAssumption, InputAssumption DEF Room
<1> HIDE DEF Room
<1>2. Room \div n \in Nat \ {0}
  BY <1>1, Share
<1>3. Room % (Room \div n) \in Nat
  BY <1>1, <1>2, Remainder
<1>4. Min2(Room \div n, EntryWidth) \in Nat \ {0}
  BY <1>1, <1>2 DEF Min2
<1>5. QED
  BY <1>3, <1>4 DEF Wide

LEMMA ListedIs ==
  ASSUME NEW w
  PROVE  Listed(w) =
           [w EXCEPT !.elements = Ascending(Shown(w)),
                     !.entry = IF Ascending(Shown(w)) = <<>> THEN @
                               ELSE Wide(Len(Ascending(Shown(w)))),
                     !.obj[Taskbar].look =
                       [o \in Shown(w) |-> <<Has(w, o, "visible"), o = w.active>>],
                     !.asked = FALSE,
                     !.turn = [NoTurn EXCEPT !.at = "clear"]]
BY DEF Listed, Shown, Wide, Room

(* The list of windows is made, and then the request is taken back.        *)
LEMMA ListedFine ==
  ASSUME NEW gone, NEW w, Good(w, gone), w.turn.hole = 0
  PROVE  Fine(Listed(w), gone) /\ Listed(w).pc = w.pc /\ Listed(w).turn.hole = 0
<1> DEFINE es   == Ascending(Shown(w))
           wide == IF es = <<>> THEN w.entry ELSE Wide(Len(es))
           look == [o \in Shown(w) |-> <<Has(w, o, "visible"), o = w.active>>]
           b    == [w.obj[Taskbar] EXCEPT !.look = look]
           t    == [w EXCEPT !.elements = es, !.entry = wide]
           v    == [w EXCEPT !.elements = es, !.entry = wide, !.obj[Taskbar].look = look,
                             !.asked = FALSE]
           n    == [NoTurn EXCEPT !.at = "clear"]
           u    == [w EXCEPT !.elements = es, !.entry = wide, !.obj[Taskbar].look = look,
                             !.asked = FALSE, !.turn = n]
<1>1. Listed(w) = u
  BY ListedIs
<1>2. Record(w) /\ Table(w.obj) /\ Tray(w) /\ Sound(w, gone)
  BY TableOf DEF Good, Sound
<1>3. Shown(w) \subseteq Window \ {Menu}
  <2>1. ASSUME NEW o \in Index, ~ Own(w, o) PROVE o \in Window \ {Menu}
    <3>1. Kind(o, w.obj[o], gone)
      BY <1>2, KindOf
    <3>2. QED
      BY <2>1, <3>1 DEF Kind, Own, Has, Window
  <2>2. QED
    BY <2>1 DEF Shown
<1>4. es \in Seq(Window) /\ Len(es) <= ObjectLimit - 4
  BY <1>3, AscendingIs
<1> HIDE DEF es
<1>5. wide \in Nat \ {0}
  <2>1. CASE es = <<>>
    BY <1>2, <2>1 DEF Tray
  <2>2. CASE es # <<>>
    <3>1. Len(es) \in Nat \ {0}
      BY <1>4, <2>2
    <3>2. QED
      BY <1>4, <2>2, <3>1, WideIs
  <2>3. QED
    BY <2>1, <2>2
<1> HIDE DEF wide, look
<1>6. /\ Record(t) /\ t.obj = w.obj /\ t.list = w.list /\ t.active = w.active
      /\ t.selected = w.selected /\ t.elements = es /\ t.entry = wide /\ t.x = w.x
      /\ t.turn = w.turn
  BY <1>2 DEF Record, Fields
<1>7. /\ Aside(t, v) /\ v.obj = [t.obj EXCEPT ![Taskbar] = b] /\ v.turn = w.turn
      /\ v.pc = w.pc /\ v.ghost = w.ghost
  BY <1>2 DEF Record, Fields, Aside, SameTray
<1>8. n = [f \in Turning |-> n[f]] /\ n.at = "clear" /\ n.hole = 0
  BY DEF NoTurn, Turning
<1>9. u = [v EXCEPT !.turn = n]
  BY <1>2 DEF Record, Fields
<1> HIDE DEF t, v, u, n
<1>10. Stays(w, t, gone) /\ Sound(t, gone)
  BY <1>2, <1>4, <1>5, <1>6 DEF Stays, Sound, Tray
<1>11. /\ Kind(Taskbar, w.obj[Taskbar], gone) /\ Shaped(w.obj[Taskbar])
       /\ Taskbar \in Used(w.obj) /\ Taskbar \in Index /\ Taskbar # Workbench
  BY <1>2, KindOf, BaseIsUsed, BaseIsIndex
<1>12. Shaped(b) /\ b.pid = w.obj[Taskbar].pid /\ b.flags = w.obj[Taskbar].flags
  BY <1>11 DEF Shaped, ObjFields
<1> HIDE DEF b
<1>13. Changed(Taskbar, w.obj[Taskbar], b, gone)
  <2>1. w.obj[Taskbar].flags # {}
    BY <1>11 DEF Used
  <2>2. QED
    BY <1>11, <1>12, <2>1 DEF Changed
<1>14. Stays(t, v, gone)
  BY <1>6, <1>7, <1>10, <1>11, <1>13, ObjectStays
<1>15. Fine(v, gone)
  BY <1>7, <1>10, <1>14, StaysGood DEF Stays, Fine, Aside
<1>16. Turned(n)
  BY <1>8 DEF Turned
<1>17. Fine([v EXCEPT !.turn = n], gone) /\ [v EXCEPT !.turn = n].pc = v.pc
  BY <1>7, <1>8, <1>15, <1>16, TurnFine
<1>18. u.turn = n
  BY <1>7, <1>9 DEF Aside, Record, Fields
<1>19. QED
  BY <1>1, <1>7, <1>8, <1>9, <1>17, <1>18

LEMMA FineBar ==
  ASSUME NEW gone, NEW w, Good(w, gone), NEW bar
  PROVE  LET v == [w EXCEPT !.bar = bar] IN Good(v, gone) /\ v.pc = w.pc /\ v.turn = w.turn
<1> DEFINE v == [w EXCEPT !.bar = bar]
<1>1. Record(w) /\ Sound(w, gone)
  BY TurnIs
<1>2. Aside(w, v) /\ v.obj = w.obj /\ v.pc = w.pc /\ v.turn = w.turn
  BY <1>1 DEF Aside, Record, Fields, SameTray
<1> HIDE DEF v
<1>3. QED
  BY <1>1, <1>2, AsideStays, StaysGood DEF v

LEMMA ReloadedFine ==
  ASSUME NEW gone, NEW w, Fine(w, gone), w.turn.hole = 0
  PROVE  Fine(Reloaded(w), gone) /\ Reloaded(w).pc = w.pc /\ Reloaded(w).turn = NoTurn
<1> DEFINE s == Set(w, Taskbar, {"flush"})
<1>1. Fine(s, gone) /\ Keeps(w, s)
  BY SetFine
<1>2. Reloaded(w) = [s EXCEPT !.turn = NoTurn]
  BY DEF Reloaded
<1> HIDE DEF s
<1>3. Turned(NoTurn) /\ NoTurn.hole = 0
  BY DEF NoTurn, Turned, Turning
<1>4. Fine([s EXCEPT !.turn = NoTurn], gone) /\ [s EXCEPT !.turn = NoTurn].pc = s.pc
  BY <1>1, <1>3, TurnFine DEF Keeps
<1>5. [s EXCEPT !.turn = NoTurn].turn = NoTurn
  BY <1>1 DEF Keeps, Record, Fields
<1>6. QED
  BY <1>1, <1>2, <1>4, <1>5 DEF Keeps

LEMMA ClearedFine ==
  ASSUME NEW gone, NEW w, Fine(w, gone), w.turn.hole = 0
  PROVE  Fine(Cleared(w), gone) /\ Cleared(w).pc = w.pc /\ Cleared(w).turn = NoTurn
<1> DEFINE r == Reloaded(w)
           v == [r EXCEPT !.bar = FALSE]
<1>1. Fine(r, gone) /\ r.pc = w.pc /\ r.turn = NoTurn
  BY ReloadedFine
<1>2. Cleared(w) = v
  BY DEF Cleared
<1> HIDE DEF r
<1>3. Record(v) /\ v.pc = r.pc /\ v.turn = r.turn /\ v.ghost = r.ghost
  BY <1>1 DEF Fine, Record, Fields
<1>4. Good(r, gone) => Good(v, gone)
  BY FineBar
<1> HIDE DEF v
<1>5. QED
  BY <1>1, <1>2, <1>3, <1>4 DEF Fine

-----------------------------------------------------------------------------
(* wm_init: the workbench, the taskbar, the cursor and the menu are made,  *)
(* in this order.                                                          *)
Begun(w, n) ==
  /\ Record(w) /\ Table(w.obj) /\ w.list \in Seq(Index) /\ Len(w.list) = n
  /\ \A p \in 1 .. n : w.list[p] \in 1 .. n
  /\ \A o \in Index : o > n => w.obj[o] = NoObject
  /\ \A o \in 1 .. n : Shaped(w.obj[o]) /\ w.obj[o].flags # {}
  /\ w.selected = 0 /\ w.elements = <<>> /\ w.entry = 1 /\ w.x = 0
  /\ w.ghost = FALSE /\ w.pc = "init" /\ w.turn = NoTurn

Is(b, F, pid, x, y, width, height) ==
  /\ Shaped(b) /\ b.flags = F /\ b.pid = pid /\ b.request = {}
  /\ b.x = x /\ b.y = y /\ b.w = width /\ b.h = height

LEMMA NoObjectIs == Shaped(NoObject) /\ NoObject.flags = {} /\ NoObject.request = {}
                    /\ NoObject.pid = "none"
BY DEF NoObject, Shaped, ObjFields

Joins(w, v, n, at) ==
  /\ Begun(v, n + 1) /\ v.active = n + 1
  /\ \A o \in 1 .. n : v.obj[o] = w.obj[o]
  /\ v.list[at] = n + 1
  /\ \A p \in 1 .. at - 1 : v.list[p] = w.list[p]
  /\ \A p \in at + 1 .. n + 1 : v.list[p] = w.list[p - 1]

LEMMA CreatesNext ==
  ASSUME NEW n \in Nat, NEW w, Begun(w, n), n + 1 \in Index,
         NEW x, NEW y, NEW width, NEW height, NEW F, NEW pid, NEW at \in 1 .. n + 1,
         \A p \in 1 .. n : (Above(w, w.list[p]) /\ "cursor" \notin F) <=> p >= at,
         NEW v, v = Create(w, x, y, width, height, F, pid)
  PROVE  /\ Joins(w, v, n, at)
         /\ Is(v.obj[n + 1], F \union {"exist"}, pid, x, y, width, height)
<1> DEFINE o    == CHOOSE i \in Free(w) : \A j \in Free(w) : i <= j
           id   == (w.ids + 1) % IdMod
           b    == [NoObject EXCEPT !.flags = F \union {"exist"}, !.x = x, !.y = y,
                                    !.w = width, !.h = height, !.id = id, !.pid = pid]
           made == [w EXCEPT !.obj[o] = b, !.ids = id, !.active = o]
<1>1. /\ Record(w) /\ Table(w.obj) /\ w.list \in Seq(Index) /\ Len(w.list) = n
      /\ \A p \in 1 .. n : w.list[p] \in 1 .. n
  BY DEF Begun
<1>2. Free(w) = {i \in Index : i > n}
  <2>1. ASSUME NEW i \in Index PROVE w.obj[i].flags = {} <=> i > n
    <3>1. i \in Nat /\ (i > n \/ i \in 1 .. n)
      BY BaseIsIndex DEF Index
    <3>2. ~ (i > n /\ i \in 1 .. n)
      OBVIOUS
    <3>3. QED
      BY <3>1, <3>2, NoObjectIs DEF Begun
  <2>2. QED
    BY <2>1 DEF Free
<1>3. n + 1 \in Free(w) /\ \A j \in Free(w) : j \in Nat /\ n + 1 <= j
  <2>1. n + 1 > n /\ \A j \in Index : j \in Nat /\ (j > n => n + 1 <= j)
    BY BaseIsIndex
  <2>2. QED
    BY <1>2, <2>1
<1>4. Free(w) # {} /\ o = n + 1
  BY <1>3
<1>5. v = Insert(made, o)
  BY <1>4 DEF Create
<1>6. Is(b, F \union {"exist"}, pid, x, y, width, height)
  BY DEF NoObject, Is, Shaped, ObjFields
<1> HIDE DEF b, id, o
<1>7. /\ Record(made) /\ made.obj = [w.obj EXCEPT ![o] = b] /\ made.list = w.list
      /\ made.active = o /\ made.selected = w.selected /\ made.elements = w.elements
      /\ made.entry = w.entry /\ made.x = w.x /\ made.ghost = w.ghost /\ made.pc = w.pc
      /\ made.turn = NoTurn
  BY <1>1 DEF Record, Fields, Begun
<1> HIDE DEF made
<1>8. /\ Table(made.obj) /\ made.obj[n + 1] = b
      /\ \A i \in Index : i # n + 1 => made.obj[i] = w.obj[i]
  BY <1>1, <1>4, <1>7 DEF Table
<1> DEFINE above == {p \in DOMAIN made.list : /\ Above(made, made.list[p])
                                             /\ ~ Has(made, o, "cursor")}
           k     == IF above = {} THEN Len(made.list) + 1
                    ELSE CHOOSE p \in above : \A q \in above : p <= q
           l     == InsertAt(made.list, k, o)
<1>9. v = [made EXCEPT !.list = l]
  <2>1. Tear(made) = made
    BY <1>7 DEF Tear, NoTurn
  <2>2. QED
    BY <1>5, <2>1 DEF Insert
<1>10. Has(made, o, "cursor") <=> "cursor" \in F
  BY <1>4, <1>6, <1>8 DEF Has, Is
<1>11. ASSUME NEW p \in 1 .. n PROVE Above(made, made.list[p]) <=> Above(w, w.list[p])
  <2>1. made.list[p] = w.list[p] /\ w.list[p] \in 1 .. n
    BY <1>1, <1>7
  <2>2. w.list[p] \in Index /\ w.list[p] # n + 1
    BY <2>1, <1>1
  <2>3. made.obj[w.list[p]] = w.obj[w.list[p]]
    BY <1>8, <2>2
  <2>4. QED
    BY <2>1, <2>3 DEF Above, Has
<1>12. DOMAIN made.list = 1 .. n /\ Len(made.list) = n
  BY <1>1, <1>7
<1>13. above = {p \in 1 .. n : p >= at}
  BY <1>10, <1>11, <1>12
<1>14. k = at
  <2>1. CASE at = n + 1
    <3>1. above = {}
      BY <1>13, <2>1
    <3>2. QED
      BY <3>1, <1>12, <2>1
  <2>2. CASE at # n + 1
    <3>1. at \in above /\ \A q \in above : at <= q /\ q \in Nat
      BY <1>13, <2>2
    <3> HIDE DEF above
    <3>2. above # {} /\ \A p \in above : (\A q \in above : p <= q) <=> p = at
      BY <3>1
    <3>3. QED
      BY <3>1, <3>2
  <2>3. QED
    BY <2>1, <2>2
<1> HIDE DEF above
<1> HIDE DEF k
<1>15. PICK s : s = made.list
  OBVIOUS
<1>16. s \in Seq(Index) /\ o \in Index /\ at \in 1 .. Len(s) + 1 /\ Len(s) = n
  BY <1>1, <1>4, <1>7, <1>12, <1>15
<1>17. /\ l \in Seq(Index) /\ Len(l) = n + 1 /\ l[at] = o
       /\ \A p \in 1 .. at - 1 : l[p] = s[p]
       /\ \A p \in at + 1 .. n + 1 : l[p] = s[p - 1]
  <2>1. l = InsertAt(s, at, o)
    BY <1>14, <1>15
  <2> HIDE DEF l
  <2>2. InsertedFits(s, at, o, l)
    BY <1>16, <2>1, InsertedAt
  <2>3. QED
    BY <1>16, <2>2 DEF InsertedFits
<1> HIDE DEF l
<1>18. /\ Record(v) /\ v.obj = made.obj /\ v.list = l /\ v.active = made.active
       /\ v.selected = made.selected /\ v.elements = made.elements
       /\ v.entry = made.entry /\ v.x = made.x /\ v.ghost = made.ghost /\ v.pc = made.pc
       /\ v.turn = made.turn
  BY <1>7, <1>9 DEF Record, Fields
<1>19. /\ v.list[at] = n + 1
       /\ \A p \in 1 .. at - 1 : v.list[p] = w.list[p]
       /\ \A p \in at + 1 .. n + 1 : v.list[p] = w.list[p - 1]
  BY <1>4, <1>7, <1>12, <1>15, <1>17, <1>18
<1>20. ASSUME NEW i \in 1 .. n PROVE v.obj[i] = w.obj[i]
  <2>1. i \in Index /\ i # n + 1
    BY BaseIsIndex DEF Index
  <2>2. QED
    BY <1>8, <1>18, <2>1
<1>21. ASSUME NEW p \in 1 .. n + 1 PROVE v.list[p] \in 1 .. n + 1
  <2>1. p \in 1 .. at - 1 \/ p = at \/ p \in at + 1 .. n + 1
    OBVIOUS
  <2>2. CASE p \in 1 .. at - 1
    <3>1. p \in 1 .. n
      BY <2>2
    <3>2. v.list[p] \in 1 .. n
      BY <1>1, <1>19, <2>2, <3>1
    <3>3. QED
      BY <3>2
  <2>3. CASE p \in at + 1 .. n + 1
    <3>1. p - 1 \in 1 .. n
      BY <2>3
    <3>2. v.list[p] \in 1 .. n
      BY <1>1, <1>19, <2>3, <3>1
    <3>3. QED
      BY <3>2
  <2>4. QED
    BY <2>1, <2>2, <2>3, <1>19
<1>22. ASSUME NEW i \in 1 .. n + 1 PROVE Shaped(v.obj[i]) /\ v.obj[i].flags # {}
  <2>1. CASE i = n + 1
    BY <2>1, <1>6, <1>8, <1>18 DEF Is
  <2>2. CASE i # n + 1
    <3>1. i \in 1 .. n
      BY <2>2
    <3>2. QED
      BY <3>1, <1>20 DEF Begun
  <2>3. QED
    BY <2>1, <2>2
<1>23. ASSUME NEW i \in Index, i > n + 1 PROVE v.obj[i] = NoObject
  <2>1. i # n + 1 /\ i > n
    BY <1>23, BaseIsIndex
  <2>2. QED
    BY <2>1, <1>8, <1>18 DEF Begun
<1>24. v.list \in Seq(Index) /\ Len(v.list) = n + 1
  BY <1>12, <1>17, <1>18
<1>25. Begun(v, n + 1)
  BY <1>7, <1>8, <1>18, <1>21, <1>22, <1>23, <1>24 DEF Begun
<1>26. v.active = n + 1 /\ v.obj[n + 1] = b
  BY <1>4, <1>7, <1>8, <1>18
<1>27. QED
  BY <1>6, <1>19, <1>20, <1>25, <1>26 DEF Joins

Reset(w, o, G) == [w EXCEPT !.obj[o].flags = G]

Alters(w, v, n, o) ==
  /\ Begun(v, n) /\ v.active = w.active /\ v.list = w.list
  /\ \A i \in 1 .. n : i # o => v.obj[i] = w.obj[i]

LEMMA SetBegun ==
  ASSUME NEW n \in Nat, NEW w, Begun(w, n), NEW o \in 1 .. n, n \in Index, NEW G,
         G # {}, NEW v, v = Reset(w, o, G)
  PROVE  Alters(w, v, n, o) /\ v.obj[o] = [w.obj[o] EXCEPT !.flags = G]
<1> DEFINE b == [w.obj[o] EXCEPT !.flags = G]
<1>1. Record(w) /\ Table(w.obj)
  BY DEF Begun
<1>2. 1 .. n \subseteq Index /\ o \in Index
  BY BaseIsIndex DEF Index
<1>3. Shaped(b) /\ b.flags = G /\ b = [w.obj[o] EXCEPT !.flags = G]
  <2>1. Shaped(w.obj[o])
    BY DEF Begun
  <2>2. QED
    BY <2>1 DEF Shaped, ObjFields
<1>4. /\ Record(v) /\ v.obj = [w.obj EXCEPT ![o] = b] /\ v.list = w.list
      /\ v.active = w.active /\ v.selected = w.selected /\ v.elements = w.elements
      /\ v.entry = w.entry /\ v.x = w.x /\ v.ghost = w.ghost /\ v.pc = w.pc
      /\ v.turn = w.turn
  BY <1>1 DEF Record, Fields, Reset
<1> HIDE DEF b
<1>5. Table(v.obj) /\ v.obj[o] = b /\ \A i \in Index : i # o => v.obj[i] = w.obj[i]
  BY <1>1, <1>2, <1>4 DEF Table
<1>6. ASSUME NEW i \in 1 .. n PROVE Shaped(v.obj[i]) /\ v.obj[i].flags # {}
  <2>1. CASE i = o
    BY <2>1, <1>3, <1>5
  <2>2. CASE i # o
    BY <2>2, <1>2, <1>5 DEF Begun
  <2>3. QED
    BY <2>1, <2>2
<1>7. ASSUME NEW i \in Index, i > n PROVE v.obj[i] = NoObject
  BY <1>5, <1>7 DEF Begun
<1>8. Begun(v, n)
  BY <1>4, <1>5, <1>6, <1>7 DEF Begun
<1>9. QED
  BY <1>2, <1>3, <1>4, <1>5, <1>8 DEF Alters

LEMMA BlankIs == Begun(Blank, 0) /\ Record(Blank)
<1>1. Record(Blank)
  BY DEF Blank, Record, Fields
<1>2. /\ Blank.obj = [o \in Index |-> NoObject] /\ Blank.list = <<>> /\ Blank.selected = 0
      /\ Blank.elements = <<>> /\ Blank.entry = 1 /\ Blank.x = 0 /\ Blank.ghost = FALSE
      /\ Blank.pc = "init" /\ Blank.turn = NoTurn
  BY DEF Blank
<1>3. <<>> \in Seq(Index) /\ Len(<<>>) = 0
  OBVIOUS
<1>4. QED
  BY <1>1, <1>2, <1>3 DEF Begun, Table

Benches  == {"visible", "fixed_z", "fixed_xy"}
Bars     == {"arbiter", "fixed_z", "fixed_xy"}
Cursors  == {"visible", "fixed_z", "cursor"}
Menus    == {"hide", "menu", "fragile", "flush"}

LEMMA IsReset ==
  ASSUME NEW b, NEW F, NEW G, NEW pid, NEW x, NEW y, NEW width, NEW height,
         Is(b, F, pid, x, y, width, height)
  PROVE  Is([b EXCEPT !.flags = G], G, pid, x, y, width, height)
BY DEF Is, Shaped, ObjFields

LEMMA IndexHas == 1 \in Index /\ 2 \in Index /\ 3 \in Index /\ 4 \in Index
BY WindowsAssumption DEF Index

LEMMA MadeIs ==
  /\ Begun(Made, 4) /\ Made.active = 4
  /\ Made.list[1] = 1 /\ Made.list[2] = 4 /\ Made.list[3] = 2 /\ Made.list[4] = 3
  /\ Is(Made.obj[1], Benches \union {"exist", "flush"}, "wm", 0, 0, Width, Height)
  /\ Is(Made.obj[2], Bars \union {"exist", "visible"}, "bar", 0, Height - BarHeight,
        Width, BarHeight)
  /\ Is(Made.obj[3], Cursors \union {"exist", "flush"}, "wm", Width \div 2,
        Height \div 2, 1, 1)
  /\ Is(Made.obj[4], Menus, "menu", Middle(1, Width), Middle(1, Height), 1, 1)
<1> DEFINE b == Create(Blank, 0, 0, Width, Height, {"visible", "fixed_z", "fixed_xy"}, "wm")
           c == Set(b, Workbench, {"flush"})
           d == Create(c, 0, Height - BarHeight, Width, BarHeight,
                       {"arbiter", "fixed_z", "fixed_xy"}, "bar")
           e == Set(d, Taskbar, {"visible"})
           f == Create(e, Width \div 2, Height \div 2, 1, 1,
                       {"visible", "fixed_z", "cursor"}, "wm")
           g == Set(f, Cursor, {"flush"})
           h == Create(g, Middle(1, Width), Middle(1, Height), 1, 1, {"visible", "flush"},
                       "menu")
           m == [h EXCEPT !.obj[Menu].flags = {"hide", "menu", "fragile", "flush"}]
<1>1. Made = m
  BY DEF Made
<1>2. /\ Joins(Blank, b, 0, 1)
      /\ Is(b.obj[0 + 1], Benches \union {"exist"}, "wm", 0, 0, Width, Height)
  <2>1. b = Create(Blank, 0, 0, Width, Height, Benches, "wm")
    BY DEF Benches
  <2> HIDE DEF b
  <2>2. /\ 0 + 1 \in Index /\ 1 \in 1 .. 0 + 1 /\ 0 \in Nat
        /\ \A p \in 1 .. 0 : Above(Blank, Blank.list[p]) /\ "cursor" \notin Benches
                             <=> p >= 1
    BY IndexHas
  <2>3. QED
    BY <2>1, <2>2, BlankIs, CreatesNext
<1> HIDE DEF b
<1>3. /\ Begun(b, 1) /\ b.list[1] = 1
      /\ Is(b.obj[1], Benches \union {"exist"}, "wm", 0, 0, Width, Height)
  BY <1>2 DEF Joins
<1>4. /\ Begun(c, 1) /\ c.list = b.list
      /\ Is(c.obj[1], Benches \union {"exist", "flush"}, "wm", 0, 0, Width, Height)
  <2>1. b.obj[1].flags = Benches \union {"exist"} /\ Record(b) /\ Table(b.obj)
    BY <1>3 DEF Is, Begun
  <2> DEFINE G == Benches \union {"exist", "flush"}
  <2>2. c = Reset(b, 1, G) /\ G # {}
    BY <2>1 DEF Set, Reset, Workbench
  <2> HIDE DEF c, G
  <2>3. 1 \in 1 .. 1 /\ 1 \in Nat
    OBVIOUS
  <2>4. Alters(b, c, 1, 1) /\ Is(c.obj[1], G, "wm", 0, 0, Width, Height)
    <3>1. Alters(b, c, 1, 1) /\ c.obj[1] = [b.obj[1] EXCEPT !.flags = G]
      BY <1>3, <2>2, <2>3, IndexHas, SetBegun
    <3>2. QED
      BY <1>3, <3>1, IsReset
  <2>5. QED
    BY <2>3, <2>4 DEF Alters, G
<1> HIDE DEF c
<1>5. /\ Joins(c, d, 1, 2)
      /\ Is(d.obj[1 + 1], Bars \union {"exist"}, "bar", 0, Height - BarHeight, Width,
            BarHeight)
  <2>1. d = Create(c, 0, Height - BarHeight, Width, BarHeight, Bars, "bar")
    BY DEF Bars
  <2> HIDE DEF d
  <2>2. 1 + 1 \in Index /\ 2 \in 1 .. 1 + 1 /\ 1 \in Nat
    BY IndexHas
  <2>3. ~ Above(c, c.list[1])
    BY <1>3, <1>4 DEF Above, Has, Is, Benches
  <2>4. \A p \in 1 .. 1 : (Above(c, c.list[p]) /\ "cursor" \notin Bars) <=> p >= 2
    BY <2>3
  <2>5. QED
    BY <1>4, <2>1, <2>2, <2>4, CreatesNext
<1> HIDE DEF d
<1>6. /\ Begun(d, 2) /\ d.list[1] = 1 /\ d.list[2] = 2 /\ d.obj[1] = c.obj[1]
      /\ Is(d.obj[2], Bars \union {"exist"}, "bar", 0, Height - BarHeight, Width, BarHeight)
  BY <1>3, <1>4, <1>5 DEF Joins
<1>7. /\ Begun(e, 2) /\ e.list = d.list /\ e.obj[1] = c.obj[1]
      /\ Is(e.obj[2], Bars \union {"exist", "visible"}, "bar", 0, Height - BarHeight, Width,
            BarHeight)
  <2>1. d.obj[2].flags = Bars \union {"exist"} /\ Record(d) /\ Table(d.obj)
    BY <1>6 DEF Is, Begun
  <2> DEFINE G == Bars \union {"exist", "visible"}
  <2>2. e = Reset(d, 2, G) /\ G # {}
    BY <2>1 DEF Set, Reset, Taskbar
  <2> HIDE DEF e, G
  <2>3. 2 \in 1 .. 2 /\ 2 \in Nat /\ 1 \in 1 .. 2 /\ 1 # 2
    OBVIOUS
  <2> DEFINE F == Bars \union {"exist"}
             y == Height - BarHeight
  <2>4. Begun(d, 2) /\ Is(d.obj[2], F, "bar", 0, y, Width, BarHeight)
    BY <1>6
  <2> HIDE DEF F, y
  <2>5. Alters(d, e, 2, 2) /\ Is(e.obj[2], G, "bar", 0, y, Width, BarHeight)
    <3>1. Alters(d, e, 2, 2) /\ e.obj[2] = [d.obj[2] EXCEPT !.flags = G]
      BY <2>2, <2>3, <2>4, IndexHas, SetBegun
    <3>2. QED
      BY <2>4, <3>1, IsReset
  <2>6. QED
    BY <1>6, <2>3, <2>5 DEF Alters, G, y
<1> HIDE DEF e
<1>8. /\ Joins(e, f, 2, 3)
      /\ Is(f.obj[2 + 1], Cursors \union {"exist"}, "wm", Width \div 2, Height \div 2, 1, 1)
  <2>1. f = Create(e, Width \div 2, Height \div 2, 1, 1, Cursors, "wm")
    BY DEF Cursors
  <2> HIDE DEF f
  <2>2. 2 + 1 \in Index /\ 3 \in 1 .. 2 + 1 /\ 2 \in Nat /\ "cursor" \in Cursors
    BY IndexHas DEF Cursors
  <2>3. \A p \in 1 .. 2 : (Above(e, e.list[p]) /\ "cursor" \notin Cursors) <=> p >= 3
    BY <2>2
  <2>4. QED
    BY <1>7, <2>1, <2>2, <2>3, CreatesNext
<1> HIDE DEF f
<1>9. /\ Begun(f, 3) /\ f.list[1] = 1 /\ f.list[2] = 2 /\ f.list[3] = 3
      /\ f.obj[1] = c.obj[1] /\ f.obj[2] = e.obj[2]
      /\ Is(f.obj[3], Cursors \union {"exist"}, "wm", Width \div 2, Height \div 2, 1, 1)
  BY <1>6, <1>7, <1>8 DEF Joins
<1>10. /\ Begun(g, 3) /\ g.list = f.list /\ g.obj[1] = c.obj[1] /\ g.obj[2] = e.obj[2]
       /\ Is(g.obj[3], Cursors \union {"exist", "flush"}, "wm", Width \div 2,
             Height \div 2, 1, 1)
  <2>1. f.obj[3].flags = Cursors \union {"exist"} /\ Record(f) /\ Table(f.obj)
    BY <1>9 DEF Is, Begun
  <2> DEFINE G == Cursors \union {"exist", "flush"}
  <2>2. g = Reset(f, 3, G) /\ G # {}
    BY <2>1 DEF Set, Reset, Cursor
  <2> HIDE DEF g, G
  <2>3. 3 \in 1 .. 3 /\ 3 \in Nat /\ 1 \in 1 .. 3 /\ 1 # 3 /\ 2 \in 1 .. 3 /\ 2 # 3
    OBVIOUS
  <2> DEFINE F == Cursors \union {"exist"}
             x == Width \div 2
             y == Height \div 2
  <2>4. Begun(f, 3) /\ Is(f.obj[3], F, "wm", x, y, 1, 1)
    BY <1>9
  <2> HIDE DEF F, x, y
  <2>5. Alters(f, g, 3, 3) /\ Is(g.obj[3], G, "wm", x, y, 1, 1)
    <3>1. Alters(f, g, 3, 3) /\ g.obj[3] = [f.obj[3] EXCEPT !.flags = G]
      BY <2>2, <2>3, <2>4, IndexHas, SetBegun
    <3>2. QED
      BY <2>4, <3>1, IsReset
  <2>6. QED
    BY <1>9, <2>3, <2>5 DEF Alters, G, x, y
<1> HIDE DEF g
<1>11. /\ Joins(g, h, 3, 2)
       /\ Is(h.obj[3 + 1], {"visible", "flush", "exist"}, "menu", Middle(1, Width),
             Middle(1, Height), 1, 1)
  <2> DEFINE F == {"visible", "flush"}
  <2>1. h = Create(g, Middle(1, Width), Middle(1, Height), 1, 1, F, "menu")
    OBVIOUS
  <2> HIDE DEF h
  <2>2. 3 + 1 \in Index /\ 2 \in 1 .. 3 + 1 /\ 3 \in Nat /\ "cursor" \notin F
        /\ F \union {"exist"} = {"visible", "flush", "exist"}
    BY IndexHas
  <2> HIDE DEF F
  <2>3. ~ Above(g, g.list[1])
    BY <1>4, <1>9, <1>10 DEF Above, Has, Is, Benches
  <2>4. Above(g, g.list[2])
    BY <1>7, <1>9, <1>10 DEF Above, Has, Is, Bars
  <2>5. Above(g, g.list[3])
    BY <1>9, <1>10 DEF Above, Has, Is, Cursors
  <2>6. \A p \in 1 .. 3 : (Above(g, g.list[p]) /\ "cursor" \notin F) <=> p >= 2
    <3>1. \A p \in 1 .. 3 : p = 1 \/ p = 2 \/ p = 3
      OBVIOUS
    <3>2. QED
      BY <2>2, <2>3, <2>4, <2>5, <3>1
  <2>7. /\ Joins(g, h, 3, 2)
        /\ Is(h.obj[3 + 1], F \union {"exist"}, "menu", Middle(1, Width),
              Middle(1, Height), 1, 1)
    BY <1>10, <2>1, <2>2, <2>6, CreatesNext
  <2>8. QED
    BY <2>2, <2>7
<1> HIDE DEF h
<1>12. /\ Begun(h, 4) /\ h.list[1] = 1 /\ h.list[2] = 4 /\ h.list[3] = 2 /\ h.list[4] = 3
       /\ h.obj[1] = c.obj[1] /\ h.obj[2] = e.obj[2] /\ h.obj[3] = g.obj[3] /\ h.active = 4
       /\ Is(h.obj[4], {"visible", "flush", "exist"}, "menu", Middle(1, Width),
             Middle(1, Height), 1, 1)
  <2>1. /\ h.list[2] = 4 /\ h.list[1] = g.list[1] /\ h.list[3] = g.list[2]
        /\ h.list[4] = g.list[3] /\ Begun(h, 4) /\ h.active = 4
        /\ h.obj[1] = g.obj[1] /\ h.obj[2] = g.obj[2] /\ h.obj[3] = g.obj[3]
    BY <1>11 DEF Joins
  <2>2. QED
    BY <1>9, <1>10, <1>11, <2>1
<1>13. /\ Begun(m, 4) /\ m.list = h.list /\ m.active = 4 /\ m.obj[1] = c.obj[1]
       /\ m.obj[2] = e.obj[2] /\ m.obj[3] = g.obj[3]
       /\ Is(m.obj[4], Menus, "menu", Middle(1, Width), Middle(1, Height), 1, 1)
  <2>1. m = Reset(h, 4, Menus) /\ Menus # {}
    BY DEF Menu, Menus, Reset
  <2> HIDE DEF m
  <2>2. 4 \in 1 .. 4 /\ 4 \in Nat /\ 1 \in 1 .. 4 /\ 2 \in 1 .. 4 /\ 3 \in 1 .. 4
        /\ 1 # 4 /\ 2 # 4 /\ 3 # 4
    OBVIOUS
  <2> DEFINE F == {"visible", "flush", "exist"}
             x == Middle(1, Width)
             y == Middle(1, Height)
  <2>3. Begun(h, 4) /\ Is(h.obj[4], F, "menu", x, y, 1, 1)
    BY <1>12
  <2> HIDE DEF F, x, y
  <2>4. Alters(h, m, 4, 4) /\ Is(m.obj[4], Menus, "menu", x, y, 1, 1)
    <3>1. Alters(h, m, 4, 4) /\ m.obj[4] = [h.obj[4] EXCEPT !.flags = Menus]
      BY <2>1, <2>2, <2>3, IndexHas, SetBegun
    <3>2. QED
      BY <2>3, <3>1, IsReset
  <2>5. QED
    BY <1>12, <2>2, <2>4 DEF Alters, x, y
<1> HIDE DEF m
<1>14. QED
  BY <1>1, <1>4, <1>7, <1>10, <1>12, <1>13

LEMMA MadeGood ==
  ASSUME NEW gone
  PROVE  Good(Made, gone) /\ Made.pc = "init" /\ Record(Made) /\ Made.turn = NoTurn
<1> DEFINE w == Made
<1>1. /\ Begun(w, 4) /\ w.active = 4
      /\ w.list[1] = 1 /\ w.list[2] = 4 /\ w.list[3] = 2 /\ w.list[4] = 3
  BY MadeIs
<1>2. /\ Is(w.obj[1], Benches \union {"exist", "flush"}, "wm", 0, 0, Width, Height)
      /\ Is(w.obj[2], Bars \union {"exist", "visible"}, "bar", 0, Height - BarHeight,
            Width, BarHeight)
      /\ Is(w.obj[3], Cursors \union {"exist", "flush"}, "wm", Width \div 2,
            Height \div 2, 1, 1)
      /\ Is(w.obj[4], Menus, "menu", Middle(1, Width), Middle(1, Height), 1, 1)
  BY MadeIs
<1> HIDE DEF w
<1>3. Kind(1, w.obj[1], gone) /\ w.obj[1].flags # {}
  BY <1>2 DEF Is, Kind, Benches, Bench, Workbench, Taskbar, Cursor, Menu
<1>4. Kind(2, w.obj[2], gone) /\ w.obj[2].flags # {}
  BY <1>2 DEF Is, Kind, Bars, Workbench, Taskbar, Cursor, Menu
<1>5. Kind(3, w.obj[3], gone) /\ w.obj[3].flags # {}
  BY <1>2 DEF Is, Kind, Cursors, Workbench, Taskbar, Cursor, Menu
<1>6. Kind(4, w.obj[4], gone) /\ w.obj[4].flags # {}
  BY <1>2 DEF Is, Kind, Menus, Workbench, Taskbar, Cursor, Menu
<1>7. ASSUME NEW o \in Index, o > 4 PROVE Kind(o, w.obj[o], gone) /\ w.obj[o].flags = {}
  <2>1. w.obj[o] = NoObject
    BY <1>1, <1>7 DEF Begun
  <2>2. o \notin {Workbench, Taskbar, Cursor, Menu}
    BY <1>7 DEF Workbench, Taskbar, Cursor, Menu
  <2>3. QED
    BY <2>1, <2>2, NoObjectIs DEF Kind
<1>8. \A o \in Index : o \in {1, 2, 3, 4} \/ o > 4
  BY DEF Index
<1>9. Kinds(w.obj, gone)
  BY <1>1, <1>3, <1>4, <1>5, <1>6, <1>7, <1>8 DEF Kinds, Begun
<1>10. Used(w.obj) = {1, 2, 3, 4}
  BY <1>3, <1>4, <1>5, <1>6, <1>7, <1>8, IndexHas DEF Used
<1>11. w.list \in Seq(Index) /\ Len(w.list) = 4
  BY <1>1 DEF Begun
<1>12. List(w.list)
  <2>1. \A p \in 1 .. 4 : p = 1 \/ p = 2 \/ p = 3 \/ p = 4
    OBVIOUS
  <2>2. \A p, q \in 1 .. 4 : w.list[p] = w.list[q] => p = q
    BY <1>1, <2>1
  <2>3. QED
    BY <1>1, <1>11, <2>2 DEF List, Workbench, Taskbar, Cursor
<1>13. Names(w.list) = {1, 2, 3, 4}
  <2>1. \A o : Contains(w.list, o) <=> \E p \in 1 .. 4 : w.list[p] = o
    BY <1>11 DEF Contains
  <2>2. \A p \in 1 .. 4 : p = 1 \/ p = 2 \/ p = 3 \/ p = 4
    OBVIOUS
  <2>3. 1 \in 1 .. 4 /\ 2 \in 1 .. 4 /\ 3 \in 1 .. 4 /\ 4 \in 1 .. 4
    OBVIOUS
  <2>4. \A o : Contains(w.list, o) <=> o \in {1, 2, 3, 4}
    BY <1>1, <2>1, <2>2, <2>3
  <2>5. QED
    BY <2>4, IndexHas DEF Names
<1>14. Tray(w) /\ Record(w) /\ w.selected = 0 /\ w.pc = "init" /\ w.turn = NoTurn
  <2>1. <<>> \in Seq(Window) /\ 1 \in Nat \ {0} /\ 0 \in Nat /\ Turned(NoTurn)
    BY DEF NoTurn, Turned, Turning
  <2>2. QED
    BY <1>1, <2>1 DEF Begun, Tray
<1>15. Good(w, gone)
  <2>1. NoTurn.hole = 0
    BY DEF NoTurn
  <2>2. Laid(w.list, w.turn, Used(w.obj))
    BY <1>10, <1>12, <1>13, <1>14, <2>1, OrderIs
  <2>3. QED
    BY <1>1, <1>9, <1>10, <1>14, <2>2 DEF Good, Sound
<1>16. QED
  BY <1>14, <1>15 DEF w

(* The first picture.                                                      *)
LEMMA BegunFine ==
  LET w == [Drawn(Pass(Drawn(Pass(Cleared(Listed(Made)))))) EXCEPT !.pc = "event"]
  IN  Fine(w, Gone) /\ w.pc = "event"
<1> DEFINE a == Listed(Made)
           b == Cleared(a)
           c == Pass(b)
           d == Drawn(c)
           e == Pass(d)
           f == Drawn(e)
           w == [f EXCEPT !.pc = "event"]
<1>1. Good(Made, Gone) /\ Made.turn.hole = 0
  BY MadeGood DEF NoTurn
<1>2. Fine(a, Gone) /\ a.turn.hole = 0
  BY <1>1, ListedFine
<1> HIDE DEF a
<1>3. Fine(b, Gone)
  BY <1>2, ClearedFine
<1> HIDE DEF b
<1>4. Fine(c, Gone)
  BY <1>3, PassFine
<1> HIDE DEF c
<1>5. Fine(d, Gone)
  BY <1>4, DrawnFine
<1> HIDE DEF d
<1>6. Fine(e, Gone)
  BY <1>5, PassFine
<1> HIDE DEF e
<1>7. Fine(f, Gone)
  BY <1>6, DrawnFine
<1>8. Fine(w, Gone)
  BY <1>7, FinePc
<1>9. w.pc = "event"
  BY <1>7 DEF Fine, Record, Fields
<1>10. QED
  BY <1>8, <1>9 DEF a, b, c, d, e, f

-----------------------------------------------------------------------------
(* Programs that have ended do not come back.                              *)
LEMMA KindGrows ==
  ASSUME NEW gone, NEW more, gone \subseteq more, NEW o, NEW b, Kind(o, b, gone)
  PROVE  Kind(o, b, more)
BY DEF Kind

LEMMA FineGrows ==
  ASSUME NEW gone, NEW more, gone \subseteq more, NEW w, Fine(w, gone)
  PROVE  Fine(w, more)
<1>1. Kinds(w.obj, gone) => Kinds(w.obj, more)
  BY KindGrows DEF Kinds
<1>2. QED
  BY <1>1 DEF Fine, Good, Sound

Clientele == client = [c \in Client |-> client[c]]

LEMMA ExecutedGoes ==
  ASSUME NEW cs, cs = [c \in Client |-> cs[c]]
  PROVE  /\ Executed(cs) = [c \in Client |-> Executed(cs)[c]]
         /\ \A c \in Client : cs[c] = "ended" => Executed(cs)[c] = "ended"
<1> DEFINE free == {c \in Client : cs[c] = "none"}
           x    == CHOOSE c \in free : TRUE
           v    == [cs EXCEPT ![x] = "starting"]
<1>1. Executed(cs) = IF free = {} THEN cs ELSE v
  BY DEF Executed
<1>2. free # {} => cs[x] = "none"
  OBVIOUS
<1> HIDE DEF free, x
<1>3. QED
  BY <1>1, <1>2

LEMMA AnsweredGoes ==
  ASSUME NEW cs, cs = [c \in Client |-> cs[c]]
  PROVE  /\ Answered(cs) = [c \in Client |-> Answered(cs)[c]]
         /\ \A c \in Client : cs[c] = "ended" => Answered(cs)[c] = "ended"
BY DEF Answered

LEMMA BecomesGoes ==
  ASSUME NEW c \in Client, NEW to, client' = [client EXCEPT ![c] = to], Clientele,
         client[c] # "ended" \/ to = "ended"
  PROVE  Clientele' /\ Gone \subseteq Gone'
<1>1. \A d \in Client : client'[d] = IF d = c THEN to ELSE client[d]
  BY DEF Clientele
<1>2. Clientele'
  BY DEF Clientele
<1>3. QED
  BY <1>1, <1>2 DEF Gone

LEMMA GoesGone ==
  ASSUME Clientele', \A c \in Client : client[c] = "ended" => client'[c] = "ended"
  PROVE  Gone \subseteq Gone'
BY DEF Gone

(* Messages are from clients.                                              *)
Senders == \E S : requests \in Seq(S) /\ \A r \in S : r.from \in Client

LEMMA RequestSends ==
  ASSUME Senders, NEW c \in Client, NEW fn, NEW id, Request(c, fn, id)
  PROVE  Senders'
<1> DEFINE r == [from |-> c, fn |-> fn, id |-> id]
<1>1. PICK S : requests \in Seq(S) /\ \A s \in S : s.from \in Client
  BY DEF Senders
<1>2. requests' = Append(requests, r) /\ r.from \in Client
  BY DEF Request
<1> HIDE DEF r
<1>3. requests' \in Seq(S \union {r}) /\ \A s \in S \union {r} : s.from \in Client
  BY <1>1, <1>2
<1>4. QED
  BY <1>3 DEF Senders

LEMMA TailSends ==
  ASSUME Senders, requests' = IF requests = <<>> THEN <<>> ELSE Tail(requests)
  PROVE  Senders' /\ (requests # <<>> => Head(requests).from \in Client)
<1>1. PICK S : requests \in Seq(S) /\ \A s \in S : s.from \in Client
  BY DEF Senders
<1>2. requests' \in Seq(S) /\ (requests # <<>> => Head(requests) \in S)
  BY <1>1
<1>3. QED
  BY <1>1, <1>2 DEF Senders

-----------------------------------------------------------------------------
(* The inductive invariant.                                                *)
Begins == wm.pc = "init" => wm = Blank
Kept   == wm.pc # "init" => Fine(wm, Gone)

DeskInv == Gentle /\ Clientele /\ Senders /\ Begins /\ Kept

WindowsInv == InputInv /\ DeskInv

LEMMA MotionStays ==
  ASSUME InputTypes, InputStep
  PROVE  user'.motion = user.motion
<1>1. user \in UserType
  BY DEF InputTypes
<1>2. CASE MouseByte
  BY <1>1, <1>2 DEF MouseByte, MouseStatus, MouseX, MouseY, UserType
<1>3. CASE KeyByte
  BY <1>1, <1>3 DEF KeyByte, UserType
<1>4. CASE KeyFetch \/ KeyLoad \/ KeyStore \/ KeyRead \/ UNCHANGED input
  BY <1>4 DEF KeyFetch, KeyLoad, KeyStore, KeyRead, input
<1>5. CASE Drawing
  BY <1>1, <1>5 DEF Drawing, UserType
<1>6. QED
  BY <1>2, <1>3, <1>4, <1>5 DEF InputStep, InputNext, Interrupt

LEMMA DeskInit == WindowsInit => DeskInv
<1> SUFFICES ASSUME WindowsInit PROVE DeskInv
  OBVIOUS
<1>1. Gentle
  BY WindowsAssumption DEF WindowsInit, InputInit, Gentle
<1>2. Clientele
  BY DEF WindowsInit, Clientele
<1>3. Senders
  <2>1. requests \in Seq({}) /\ \A r \in {} : r.from \in Client
    BY DEF WindowsInit
  <2>2. QED
    BY <2>1 DEF Senders
<1>4. wm = Blank /\ Blank.pc = "init"
  BY DEF WindowsInit, Blank
<1>5. QED
  BY <1>1, <1>2, <1>3, <1>4 DEF DeskInv, Begins, Kept

(* A step of the manager or of a thread, on data that are sound.           *)
LEMMA DeskMoves ==
  ASSUME DeskInv, Gentle', Clientele', Senders', Gone \subseteq Gone',
         Fine(wm', Gone), wm'.pc # "init"
  PROVE  DeskInv'
<1>1. Fine(wm', Gone')
  <2> DEFINE v == wm'
             g == Gone
             h == Gone'
  <2>1. Fine(v, g) /\ g \subseteq h
    OBVIOUS
  <2> HIDE DEF v, g, h
  <2>2. Fine(v, h)
    BY <2>1, FineGrows
  <2>3. QED
    BY <2>2 DEF v, h
<1>2. QED
  BY <1>1 DEF DeskInv, Begins, Kept

LEMMA DeskStays ==
  ASSUME DeskInv, Gentle', Clientele', Senders', Gone \subseteq Gone', wm' = wm
  PROVE  DeskInv'
<1>1. CASE wm.pc = "init"
  BY <1>1 DEF DeskInv, Begins, Kept
<1>2. CASE wm.pc # "init"
  <2>1. Fine(wm', Gone) /\ wm'.pc # "init"
    BY <1>2 DEF DeskInv, Kept
  <2>2. QED
    BY <2>1, DeskMoves
<1>3. QED
  BY <1>1, <1>2

LEMMA EventKeeps ==
  ASSUME InputInv, DeskInv, Gentle', Event, Sane
  PROVE  DeskInv'
<1> DEFINE m == Message(wm)
           keyed == Keyboard(m, KeyCall)
           done == Pointer(keyed)
           moved == [done EXCEPT !.pc = "object"]
<1>1. /\ wm.pc = "event"
      /\ wm' = IF keyed.pc = "crash" THEN keyed ELSE moved
      /\ requests' = IF requests = <<>> THEN <<>> ELSE Tail(requests)
      /\ client' = IF KeyCall = <<"\\", TRUE>> THEN Executed(Answered(client))
                   ELSE Answered(client)
  BY DEF Event
<1>2. Good(wm, Gone)
  BY <1>1 DEF DeskInv, Kept, Fine, Sane
<1>3. OnScreen(mouse.x, mouse.y)
  BY InvPointer DEF DeskInv, PointerOnScreen, PointerIsKept, OnScreen
<1>4. Senders' /\ (requests # <<>> => Head(requests).from \in Client)
  BY <1>1, TailSends DEF DeskInv
<1>5. Fine(m, Gone)
  BY <1>2, <1>4, MessageFine
<1> HIDE DEF m
<1>6. Fine(keyed, Gone)
  BY <1>5, KeyboardFine
<1> HIDE DEF keyed
<1>7. Fine(done, Gone)
  BY <1>3, <1>6, PointerFine
<1> HIDE DEF done
<1>8. Fine(moved, Gone) /\ moved.pc = "object"
  BY <1>7, FinePc DEF Fine, Record, Fields
<1> HIDE DEF moved
<1>9. Fine(wm', Gone) /\ wm'.pc # "init"
  BY <1>1, <1>6, <1>8
<1>10. Clientele' /\ Gone \subseteq Gone'
  <2>1. /\ Answered(client) = [c \in Client |-> Answered(client)[c]]
        /\ \A c \in Client : client[c] = "ended" => Answered(client)[c] = "ended"
    BY AnsweredGoes DEF DeskInv, Clientele
  <2> DEFINE a == Answered(client)
  <2> HIDE DEF a
  <2>2. /\ Executed(a) = [c \in Client |-> Executed(a)[c]]
        /\ \A c \in Client : a[c] = "ended" => Executed(a)[c] = "ended"
    BY <2>1, ExecutedGoes DEF a
  <2>3. client' = a \/ client' = Executed(a)
    BY <1>1 DEF a
  <2>4. Clientele'
    BY <2>1, <2>2, <2>3 DEF Clientele, a
  <2>5. \A c \in Client : client[c] = "ended" => client'[c] = "ended"
    BY <2>1, <2>2, <2>3 DEF a
  <2>6. QED
    BY <2>4, <2>5, GoesGone
<1>11. QED
  BY <1>4, <1>9, <1>10, DeskMoves

(* What a client asks for its window.                                      *)
LEMMA AskedFine ==
  ASSUME NEW w, Good(w, Gone), NEW o \in Used(w.obj), o # Workbench, NEW b, Shaped(b),
         b.pid = w.obj[o].pid, b.flags = w.obj[o].flags, NEW v, v = [w EXCEPT !.obj[o] = b]
  PROVE  Fine(v, Gone) /\ v.pc = w.pc
<1>1. Sound(w, Gone) /\ o \in Index /\ w.obj[o].flags # {}
  BY DEF Good, Used
<1>2. Record(w) /\ Table(w.obj)
  BY <1>1, TableOf
<1>3. Aside(w, v) /\ v.obj = [w.obj EXCEPT ![o] = b] /\ v.pc = w.pc
  BY <1>2 DEF Aside, Record, Fields, SameTray
<1>4. Changed(o, w.obj[o], b, Gone)
  BY <1>1 DEF Changed
<1>5. Stays(w, v, Gone)
  BY <1>1, <1>3, <1>4, ObjectStays
<1>6. QED
  BY <1>3, <1>5, StaysGood DEF Fine, Aside

LEMMA WindowIs ==
  ASSUME DeskInv, wm.pc # "init", Sane, NEW c \in Client, NEW o \in WindowOf(c)
  PROVE  Good(wm, Gone) /\ o \in Used(wm.obj) /\ o # Workbench /\ Shaped(wm.obj[o])
<1>1. Good(wm, Gone)
  BY DEF DeskInv, Kept, Fine, Sane
<1>2. o \in Used(wm.obj) /\ o \in Index /\ wm.obj[o].pid = c
  BY DEF WindowOf, Used
<1>3. Kind(o, wm.obj[o], Gone) /\ Shaped(wm.obj[o])
  BY <1>1, <1>2, KindOf DEF Good
<1>4. o # Workbench
  BY <1>2, <1>3, WindowsAssumption DEF Kind
<1>5. QED
  BY <1>1, <1>2, <1>3, <1>4

LEMMA ClientsKeep ==
  ASSUME DeskInv, Gentle', Clients, wm.pc # "init", Sane
  PROVE  DeskInv'
<1>1. PICK c \in Client : \/ Ask(c) \/ Name(c) \/ Close(c) \/ ClientClick(c) \/ End(c)
                          \/ Redraw(c)
  BY DEF Clients
<1>2. ASSUME NEW to, client' = [client EXCEPT ![c] = to], client[c] # "ended" \/ to = "ended"
      PROVE  Clientele' /\ Gone \subseteq Gone'
  BY <1>2, BecomesGoes DEF DeskInv
<1>3. ASSUME client' = client PROVE Clientele' /\ Gone \subseteq Gone'
  BY <1>3 DEF DeskInv, Clientele, Gone
<1>4. ASSUME requests' = requests PROVE Senders'
  BY <1>4 DEF DeskInv, Senders
<1>5. CASE Ask(c)
  <2>1. Clientele' /\ Gone \subseteq Gone'
    BY <1>2, <1>5 DEF Ask, Becomes
  <2>2. Senders' /\ wm' = wm
    BY <1>5, RequestSends DEF Ask, DeskInv
  <2>3. QED
    BY <2>1, <2>2, DeskStays
<1>6. CASE Name(c)
  <2>1. Clientele' /\ Gone \subseteq Gone'
    BY <1>2, <1>6 DEF Name, Becomes
  <2>2. Senders' /\ wm' = wm
    BY <1>6, RequestSends DEF Name, DeskInv
  <2>3. QED
    BY <2>1, <2>2, DeskStays
<1>7. CASE Close(c)
  <2>1. Clientele' /\ Gone \subseteq Gone'
    BY <1>2, <1>7 DEF Close, Becomes
  <2>2. Senders' /\ wm' = wm
    BY <1>7, RequestSends DEF Close, DeskInv
  <2>3. QED
    BY <2>1, <2>2, DeskStays
<1>8. CASE End(c)
  <2>1. Clientele' /\ Gone \subseteq Gone'
    BY <1>2, <1>8 DEF End
  <2>2. Senders' /\ wm' = wm
    BY <1>4, <1>8 DEF End
  <2>3. QED
    BY <2>1, <2>2, DeskStays
<1>9. CASE ClientClick(c)
  <2>1. PICK o \in WindowOf(c) :
          /\ client' = client \/ client' = [client EXCEPT ![c] = "ended"]
          /\ wm' = wm
             \/ wm' = [wm EXCEPT !.obj[o].request = @ \union {"minimize"}]
    BY <1>9 DEF ClientClick
  <2>2. Clientele' /\ Gone \subseteq Gone'
    BY <1>2, <1>3, <2>1
  <2>3. Senders'
    BY <1>4, <1>9 DEF ClientClick
  <2>4. CASE wm' = wm
    BY <2>2, <2>3, <2>4, DeskStays
  <2>5. CASE wm' = [wm EXCEPT !.obj[o].request = @ \union {"minimize"}]
    <3> DEFINE b == [wm.obj[o] EXCEPT !.request = @ \union {"minimize"}]
    <3>1. Good(wm, Gone) /\ o \in Used(wm.obj) /\ o # Workbench /\ Shaped(wm.obj[o])
      BY WindowIs
    <3>2. Shaped(b) /\ b.pid = wm.obj[o].pid /\ b.flags = wm.obj[o].flags
      BY <3>1 DEF Shaped, ObjFields
    <3>3. wm' = [wm EXCEPT !.obj[o] = b]
      BY <2>5
    <3> HIDE DEF b
    <3>4. Fine(wm', Gone) /\ wm'.pc = wm.pc
      BY <3>1, <3>2, <3>3, AskedFine
    <3>5. QED
      BY <2>2, <2>3, <3>4, DeskMoves
  <2>6. QED
    BY <2>1, <2>4, <2>5
<1>10. CASE Redraw(c)
  <2>1. PICK o \in WindowOf(c) :
          wm' = [wm EXCEPT !.obj[o] = [wm.obj[o] EXCEPT !.look = 1 - @,
                                                       !.request = @ \union {"flush"}]]
    BY <1>10 DEF Redraw
  <2>2. Clientele' /\ Gone \subseteq Gone' /\ Senders'
    BY <1>3, <1>4, <1>10 DEF Redraw
  <2> DEFINE b == [wm.obj[o] EXCEPT !.look = 1 - @, !.request = @ \union {"flush"}]
  <2>3. Good(wm, Gone) /\ o \in Used(wm.obj) /\ o # Workbench /\ Shaped(wm.obj[o])
    BY WindowIs
  <2>4. Shaped(b) /\ b.pid = wm.obj[o].pid /\ b.flags = wm.obj[o].flags
    BY <2>3 DEF Shaped, ObjFields
  <2>5. wm' = [wm EXCEPT !.obj[o] = b]
    BY <2>1
  <2> HIDE DEF b
  <2>6. Fine(wm', Gone) /\ wm'.pc = wm.pc
    BY <2>3, <2>4, <2>5, AskedFine
  <2>7. QED
    BY <2>2, <2>6, DeskMoves
<1>11. QED
  BY <1>1, <1>5, <1>6, <1>7, <1>8, <1>9, <1>10

(* A step of the thread of the taskbar.                                    *)
StepGoes(w, v) == Fine(v, Gone) /\ v.pc = w.pc

LEMMA MenuGoes ==
  ASSUME Good(wm, Gone), TaskbarMenu
  PROVE  StepGoes(wm, wm')
<1>1. CASE Step("open", Opened(wm))
  BY <1>1, OpenedFine DEF Step, StepGoes
<1>2. CASE Step("expose", Exposed(wm))
  BY <1>2, ExposedFine DEF Step, StepGoes
<1>3. QED
  BY <1>1, <1>2 DEF TaskbarMenu

LEMMA EntryGoes ==
  ASSUME Good(wm, Gone), TaskbarEntry
  PROVE  StepGoes(wm, wm')
<1>1. CASE Step("entry", Chosen(wm))
  BY <1>1, ChosenFine DEF Step, StepGoes
<1>2. CASE Step("hide", Hidden(wm))
  BY <1>2, HiddenFine DEF Step, StepGoes
<1>3. CASE Step("hidden", Submitted(wm))
  BY <1>3, SubmittedFine DEF Step, StepGoes
<1>4. CASE Step("raise", Raised(wm))
  BY <1>4, RaisedFine DEF Step, StepGoes
<1>5. CASE Step("done", Listed([wm EXCEPT !.bar = TRUE]))
  <2> DEFINE v == [wm EXCEPT !.bar = TRUE]
  <2>1. wm' = Listed(v) /\ wm.turn.hole = 0
    BY <1>5, TurnIs DEF Step
  <2>2. Good(v, Gone) /\ v.pc = wm.pc /\ v.turn = wm.turn
    BY FineBar
  <2> HIDE DEF v
  <2>3. QED
    BY <2>1, <2>2, ListedFine DEF StepGoes
<1>6. QED
  BY <1>1, <1>2, <1>3, <1>4, <1>5 DEF TaskbarEntry

LEMMA ObjectGoes ==
  ASSUME Good(wm, Gone), TaskbarObject
  PROVE  StepGoes(wm, wm')
<1>1. CASE Step("look", Looked(wm))
  BY <1>1, LookedFine DEF Step, StepGoes
<1>2. CASE Step("focus", Focused(wm))
  BY <1>2, FocusedFine DEF Step, StepGoes
<1>3. CASE Step("search", Searched(wm))
  BY <1>3, SearchedFine DEF Step, StepGoes
<1>4. CASE Step("shift", Shifted(wm))
  BY <1>4, ShiftedFine DEF Step, StepGoes
<1>5. CASE Step("show", Showed(wm))
  BY <1>5, ShowedFine DEF Step, StepGoes
<1>6. QED
  BY <1>1, <1>2, <1>3, <1>4, <1>5 DEF TaskbarObject

LEMMA ListGoes ==
  ASSUME Good(wm, Gone), TaskbarList
  PROVE  StepGoes(wm, wm')
<1>1. Fine(wm, Gone) /\ (wm.turn.at # "shift" => wm.turn.hole = 0)
  BY TurnIs
<1>2. CASE Step("idle", Listed(wm))
  BY <1>1, <1>2, ListedFine DEF Step, StepGoes
<1>3. CASE Step("clear", Cleared(wm))
  BY <1>1, <1>3, ClearedFine DEF Step, StepGoes
<1>4. QED
  BY <1>2, <1>3 DEF TaskbarList

LEMMA ThreadsKeep ==
  ASSUME DeskInv, Gentle', Threads, wm.pc # "init", Sane
  PROVE  DeskInv'
<1>1. Good(wm, Gone)
  BY DEF DeskInv, Kept, Fine, Sane
<1>2. ASSUME client' = client PROVE Clientele' /\ Gone \subseteq Gone'
  BY <1>2 DEF DeskInv, Clientele, Gone
<1>3. ASSUME requests' = requests PROVE Senders'
  BY <1>3 DEF DeskInv, Senders
<1>4. ASSUME client' = client, requests' = requests, StepGoes(wm, wm') PROVE DeskInv'
  BY <1>2, <1>3, <1>4, DeskMoves DEF StepGoes
<1>5. CASE TaskbarClick
  BY <1>1, <1>4, <1>5, ClickedFine DEF TaskbarClick, StepGoes
<1>6. CASE TaskbarMenu
  <2>1. client' = client /\ requests' = requests
    BY <1>6 DEF TaskbarMenu, Step
  <2>2. QED
    BY <1>1, <1>4, <1>6, <2>1, MenuGoes
<1>7. CASE TaskbarEntry
  <2>1. client' = client /\ requests' = requests
    BY <1>7 DEF TaskbarEntry, Step
  <2>2. QED
    BY <1>1, <1>4, <1>7, <2>1, EntryGoes
<1>8. CASE TaskbarObject
  <2>1. client' = client /\ requests' = requests
    BY <1>8 DEF TaskbarObject, Step
  <2>2. QED
    BY <1>1, <1>4, <1>8, <2>1, ObjectGoes
<1>9. CASE TaskbarList
  <2>1. client' = client /\ requests' = requests
    BY <1>9 DEF TaskbarList, Step
  <2>2. QED
    BY <1>1, <1>4, <1>9, <2>1, ListGoes
<1>10. CASE TaskbarClock
  <2>1. /\ client' = client /\ requests' = requests /\ wm' = Reloaded(wm)
        /\ wm.turn.at = "idle"
    BY <1>10 DEF TaskbarClock
  <2>2. StepGoes(wm, wm')
    BY <1>1, <2>1, TurnIs, ReloadedFine DEF StepGoes
  <2>3. QED
    BY <1>4, <2>1, <2>2
<1>11. CASE MenuClick
  <2>1. /\ wm' = wm /\ (client' = client \/ client' = Executed(client))
        /\ requests' = requests
    BY <1>11 DEF MenuClick
  <2>2. /\ Executed(client) = [c \in Client |-> Executed(client)[c]]
        /\ \A c \in Client : client[c] = "ended" => Executed(client)[c] = "ended"
    BY ExecutedGoes DEF DeskInv, Clientele
  <2>3. Clientele'
    BY <2>1, <2>2 DEF DeskInv, Clientele
  <2>4. \A c \in Client : client[c] = "ended" => client'[c] = "ended"
    BY <2>1, <2>2
  <2>5. Gone \subseteq Gone'
    BY <2>3, <2>4, GoesGone
  <2>6. QED
    BY <1>3, <2>1, <2>3, <2>5, DeskStays
<1>12. QED
  BY <1>5, <1>6, <1>7, <1>8, <1>9, <1>10, <1>11 DEF Threads

LEMMA PhasesKeep ==
  ASSUME DeskInv, Gentle', Begin \/ Objects \/ Zone \/ Draw
  PROVE  DeskInv'
<1>1. client' = client /\ requests' = requests
  BY DEF Begin, Objects, Zone, Draw
<1>2. Clientele' /\ Senders' /\ Gone \subseteq Gone'
  BY <1>1 DEF DeskInv, Clientele, Senders, Gone
<1>3. CASE Begin
  <2> DEFINE v == [Drawn(Pass(Drawn(Pass(Cleared(Listed(Made)))))) EXCEPT !.pc = "event"]
  <2>1. wm' = v
    BY <1>3 DEF Begin
  <2>2. Fine(v, Gone) /\ v.pc = "event"
    BY BegunFine
  <2> HIDE DEF v
  <2>3. QED
    BY <1>2, <2>1, <2>2, DeskMoves
<1>4. ASSUME NEW p, Fine(p, Gone), NEW pc, pc # "init", wm' = [p EXCEPT !.pc = pc]
      PROVE  DeskInv'
  <2> DEFINE v == [p EXCEPT !.pc = pc]
  <2>1. Fine(v, Gone) /\ v.pc = pc
    BY <1>4, FinePc DEF Fine, Record, Fields
  <2>2. wm' = v
    BY <1>4
  <2> HIDE DEF v
  <2>3. QED
    BY <1>2, <1>4, <2>1, <2>2, DeskMoves
<1>5. CASE Objects
  <2>1. wm' = [Pass(wm) EXCEPT !.pc = "zone"] /\ Fine(wm, Gone)
    BY <1>5 DEF Objects, DeskInv, Kept
  <2>2. Fine(Pass(wm), Gone)
    BY <2>1, PassFine
  <2>3. QED
    BY <1>4, <2>1, <2>2
<1>6. CASE Zone
  <2> DEFINE z == [wm EXCEPT !.zones = Zones(wm)]
  <2>1. wm' = [z EXCEPT !.pc = "fill"] /\ Fine(wm, Gone)
    BY <1>6 DEF Zone, DeskInv, Kept
  <2>2. Fine(z, Gone)
    BY <2>1, ZonesFine
  <2> HIDE DEF z
  <2>3. QED
    BY <1>4, <2>1, <2>2
<1>7. CASE Draw
  <2>1. wm' = [Filled(wm) EXCEPT !.pc = "event"] /\ Fine(wm, Gone)
    BY <1>7 DEF Draw, DeskInv, Kept
  <2>2. Fine(Filled(wm), Gone)
    BY <2>1, FilledFine
  <2>3. QED
    BY <1>4, <2>1, <2>2
<1>8. QED
  BY <1>3, <1>5, <1>6, <1>7

LEMMA WindowsInvStep ==
  ASSUME WindowsInv, [WindowsNext]_WindowsVars
  PROVE  WindowsInv'
<1>1. InputInv /\ InputStep /\ InputInv'
  BY WindowsStep, InputInvStep DEF WindowsInv
<1>2. DeskInv
  BY DEF WindowsInv
<1>3. Gentle'
  BY <1>1, <1>2, MotionStays DEF InputInv, DeskInv, Gentle
<1>4. ASSUME UNCHANGED desktop PROVE DeskInv'
  <2>1. Clientele' /\ Senders' /\ Gone \subseteq Gone' /\ wm' = wm
    BY <1>2, <1>4 DEF desktop, DeskInv, Clientele, Senders, Gone
  <2>2. QED
    BY <1>2, <1>3, <2>1, DeskStays
<1>5. ASSUME UNCHANGED WindowsVars PROVE DeskInv'
  BY <1>4, <1>5 DEF WindowsVars, desktop
<1>6. ASSUME WindowsNext PROVE DeskInv'
  <2>1. Sane
    BY <1>6 DEF WindowsNext
  <2>2. CASE UNCHANGED desktop
    BY <1>4, <2>2
  <2>3. CASE Event
    BY <1>1, <1>2, <1>3, <2>1, <2>3, EventKeeps
  <2>4. CASE Begin \/ Objects \/ Zone \/ Draw
    BY <1>2, <1>3, <2>4, PhasesKeep
  <2>5. CASE wm.pc # "init" /\ Threads
    BY <1>2, <1>3, <2>1, <2>5, ThreadsKeep
  <2>6. CASE wm.pc # "init" /\ Clients
    BY <1>2, <1>3, <2>1, <2>6, ClientsKeep
  <2>7. QED
    BY <1>6, <2>2, <2>3, <2>4, <2>5, <2>6 DEF WindowsNext, Manager
<1>7. DeskInv'
  BY <1>5, <1>6
<1>8. QED
  BY <1>1, <1>7 DEF WindowsInv

(* The data of the manager keep the inductive invariant, whatever users and *)
(* clients do and however the phases of the main loop, the threads and the *)
(* clients come one after the other (object.c, event.c:5-268,              *)
(* taskbar.c:49-263).                                                      *)
THEOREM WindowsInvariant == WindowsSpec => []WindowsInv
<1>1. WindowsInit => WindowsInv
  BY InputInvInit, DeskInit DEF WindowsInit, WindowsInv
<1>2. WindowsInv /\ [WindowsNext]_WindowsVars => WindowsInv'
  BY WindowsInvStep
<1>3. QED
  BY <1>1, <1>2, PTL DEF WindowsSpec

LEMMA UpIsGood ==
  ASSUME WindowsInv, Up, ~ wm.ghost
  PROVE  Good(wm, Gone) /\ List(Whole(wm)) /\ Names(Whole(wm)) = Used(wm.obj)
BY DEF WindowsInv, DeskInv, Kept, Fine, Up, Good, Sound, Laid, Whole

LEMMA InvList == WindowsInv => ListMatchesTable
<1> DEFINE list == Whole(wm)
<1> SUFFICES ASSUME WindowsInv, Up, ~ wm.ghost
             PROVE  /\ ToSet(list) = {o \in Index : wm.obj[o].flags # {}}
                    /\ IsInjective(list)
                    /\ Head(list) = Workbench
                    /\ SubSeq(list, Len(list) - 1, Len(list)) = <<Taskbar, Cursor>>
  BY Zenon DEF ListMatchesTable
<1>1. PICK l : l = list
  OBVIOUS
<1>2. List(l) /\ Names(l) = Used(wm.obj)
  BY <1>1, UpIsGood
<1>3. PICK n \in Nat : n = Len(l) /\ n >= 3
  BY <1>2 DEF List
<1>4. /\ l \in Seq(Index) /\ DOMAIN l = 1 .. n
      /\ l[1] = Workbench /\ l[n - 1] = Taskbar /\ l[n] = Cursor
      /\ \A p, q \in 1 .. n : l[p] = l[q] => p = q
  BY <1>2, <1>3 DEF List
<1>5. ToSet(l) = Names(l)
  <2>1. \A p \in 1 .. n : l[p] \in Index
    BY <1>4
  <2>2. ToSet(l) = {l[p] : p \in 1 .. n}
    BY <1>4 DEF ToSet
  <2>3. \A o : Contains(l, o) <=> \E p \in 1 .. n : l[p] = o
    BY <1>3, <1>4 DEF Contains
  <2>4. QED
    BY <2>1, <2>2, <2>3 DEF Names
<1>6. IsInjective(l)
  BY <1>4 DEF IsInjective
<1>7. Head(l) = Workbench
  BY <1>3, <1>4
<1>8. SubSeq(l, n - 1, n) = <<Taskbar, Cursor>>
  <2>1. SubSeq(l, n - 1, n) = [i \in 1 .. 2 |-> l[n - 2 + i]]
    BY <1>3, <1>4
  <2>2. \A i \in 1 .. 2 : l[n - 2 + i] = <<Taskbar, Cursor>>[i]
    BY <1>3, <1>4
  <2>3. <<Taskbar, Cursor>> = [i \in 1 .. 2 |-> <<Taskbar, Cursor>>[i]]
    OBVIOUS
  <2>4. QED
    BY <2>1, <2>2, <2>3
<1>9. Used(wm.obj) = {o \in Index : wm.obj[o].flags # {}}
  BY DEF Used
<1>10. QED
  BY <1>1, <1>2, <1>3, <1>5, <1>6, <1>7, <1>8, <1>9

LEMMA InvActive == WindowsInv => ActiveIsListed
<1> SUFFICES ASSUME WindowsInv, Up, ~ wm.ghost PROVE Contains(Whole(wm), wm.active)
  BY DEF ActiveIsListed
<1>1. wm.active \in Names(Whole(wm))
  BY UpIsGood DEF Good
<1>2. QED
  BY <1>1 DEF Names

(* Up to the first write to an entry that was released, the list has the   *)
(* objects of the table, each once, the workbench at the bottom and the    *)
(* taskbar and the cursor at the top, with any number of programs whose    *)
(* windows are made, raised, dragged, hidden, closed or left behind, and   *)
(* whatever of the two threads comes between (object.c:159-294).           *)
THEOREM ListAgreesWithTable == WindowsSpec => []ListMatchesTable
BY InvList, WindowsInvariant, PTL

(* And keys always have a window to go to that is there                    *)
(* (ipc.c:5-19, object.c:82-94).                                           *)
THEOREM ActiveStaysListed == WindowsSpec => []ActiveIsListed
BY InvActive, WindowsInvariant, PTL
-----------------------------------------------------------------------------
(* What the taskbar shows.  When its thread is at no click, that is as it  *)
(* should be, or the main loop asked for the taskbar since it was listed,  *)
(* or an object is about to go, which the taskbar will hear of.            *)
Looks(w)   == [o \in Shown(w) |-> <<Has(w, o, "visible"), o = w.active>>]
Current(w) == w.elements = Ascending(Shown(w)) /\ w.obj[Taskbar].look = Looks(w)
Doomed(w)  == \E o \in Index : "destroy" \in w.obj[o].flags
Busy(w)    == w.turn.at \notin {"idle", "clear"}
Agrees(w)  == Busy(w) \/ w.asked \/ Doomed(w) \/ Current(w)
Told(w)    == w.ghost \/ Agrees(w)

(* The flags that the taskbar depends on.                                  *)
Telling == {"visible", "destroy", "arbiter", "menu"}

Alike(a, b) ==
  /\ b.pid = a.pid
  /\ b.flags = {} <=> a.flags = {}
  /\ \A f \in Telling : f \in b.flags <=> f \in a.flags

Framed(w, v) ==
  /\ v.asked = w.asked /\ v.turn = w.turn
  /\ v.elements = w.elements /\ v.active = w.active

(* Nothing changes that the taskbar shows.                                 *)
Same(w, v) ==
  /\ Framed(w, v)
  /\ v.obj[Taskbar].look = w.obj[Taskbar].look
  /\ \A o \in Index : Alike(w.obj[o], v.obj[o])

LEMMA SameAgrees ==
  ASSUME NEW w, NEW v, Agrees(w), Same(w, v)
  PROVE  Agrees(v)
<1>1. \A o \in Index : Alike(w.obj[o], v.obj[o])
  BY DEF Same
<1>2. \A o \in Index : Has(v, o, "visible") <=> Has(w, o, "visible")
  BY <1>1 DEF Alike, Telling, Has
<1>3. Doomed(w) => Doomed(v)
  BY <1>1 DEF Alike, Telling, Doomed
<1>4. Shown(v) = Shown(w)
  BY <1>1 DEF Alike, Telling, Shown, Own, Has
<1>5. Looks(v) = Looks(w)
  <2>1. v.active = w.active
    BY DEF Same, Framed
  <2>2. \A o \in Shown(w) : <<Has(v, o, "visible"), o = v.active>>
                            = <<Has(w, o, "visible"), o = w.active>>
    <3> TAKE o \in Shown(w)
    <3>1. o \in Index
      BY DEF Shown
    <3>2. Has(v, o, "visible") = Has(w, o, "visible")
      BY <1>2, <3>1 DEF Has
    <3>3. QED
      BY <2>1, <3>2
  <2>3. QED
    BY <1>4, <2>2 DEF Looks
<1>6. Current(w) => Current(v)
  BY <1>4, <1>5 DEF Current, Same, Framed
<1>7. (w.asked => v.asked) /\ (Busy(w) => Busy(v))
  BY DEF Same, Framed, Busy
<1>8. QED
  BY <1>3, <1>6, <1>7 DEF Agrees

LEMMA SameOn ==
  ASSUME NEW w, NEW v, NEW u, Same(w, v), Same(v, u)
  PROVE  Same(w, u)
BY DEF Same, Framed, Alike

LEMMA PlainSame ==
  ASSUME NEW w, NEW v, Framed(w, v), v.obj = w.obj
  PROVE  Same(w, v)
BY DEF Same, Alike

LEMMA ObjectSame ==
  ASSUME NEW w, NEW v, NEW i \in Index, NEW b, Table(w.obj), Framed(w, v),
         v.obj = [w.obj EXCEPT ![i] = b], Alike(w.obj[i], b),
         i = Taskbar => b.look = w.obj[i].look
  PROVE  Same(w, v)
<1>1. \A o \in Index : v.obj[o] = IF o = i THEN b ELSE w.obj[o]
  BY DEF Table
<1>2. \A o \in Index : Alike(w.obj[o], v.obj[o])
  BY <1>1 DEF Alike
<1>3. Taskbar \in Index
  BY BaseIsIndex
<1>4. QED
  BY <1>1, <1>2, <1>3 DEF Same

LEMMA FieldSame ==
  ASSUME NEW w, Record(w), NEW x
  PROVE  /\ Same(w, [w EXCEPT !.pc = x]) /\ Same(w, [w EXCEPT !.x = x])
         /\ Same(w, [w EXCEPT !.alt = x]) /\ Same(w, [w EXCEPT !.header = x])
         /\ Same(w, [w EXCEPT !.held = FALSE, !.header = FALSE])
<1>1. /\ Framed(w, [w EXCEPT !.pc = x]) /\ Framed(w, [w EXCEPT !.x = x])
      /\ Framed(w, [w EXCEPT !.alt = x]) /\ Framed(w, [w EXCEPT !.header = x])
      /\ Framed(w, [w EXCEPT !.held = FALSE, !.header = FALSE])
  BY DEF Framed, Record, Fields
<1>2. /\ [w EXCEPT !.pc = x].obj = w.obj /\ [w EXCEPT !.x = x].obj = w.obj
      /\ [w EXCEPT !.alt = x].obj = w.obj /\ [w EXCEPT !.header = x].obj = w.obj
      /\ [w EXCEPT !.held = FALSE, !.header = FALSE].obj = w.obj
  BY DEF Record, Fields
<1>3. QED
  BY <1>1, <1>2, PlainSame

(* What the taskbar is asked to show, it will.                             *)
LEMMA NotifyTells ==
  ASSUME NEW w, Record(w)
  PROVE  Record(Notify(w)) /\ Notify(w).asked = TRUE /\ Agrees(Notify(w))
<1>1. Record(Notify(w)) /\ Notify(w).asked = TRUE
  BY DEF Notify, Record, Fields
<1>2. QED
  BY <1>1 DEF Agrees

LEMMA ExposeSame ==
  ASSUME NEW w, NEW o, Record(w)
  PROVE  Same(w, Expose(w, o))
<1>1. Framed(w, Expose(w, o)) /\ Expose(w, o).obj = w.obj
  BY DEF Expose, Framed, Record, Fields
<1>2. QED
  BY <1>1, PlainSame

LEMMA GhostSame ==
  ASSUME NEW w, NEW o, Record(w)
  PROVE  Same(w, Ghost(w, o)) /\ Ghost(w, o).obj = w.obj
<1>1. Framed(w, Ghost(w, o)) /\ Ghost(w, o).obj = w.obj
  BY DEF Ghost, Framed, Record, Fields
<1>2. QED
  BY <1>1, PlainSame

LEMMA FlushSame ==
  ASSUME NEW gone, NEW w, Sound(w, gone), NEW o \in Used(w.obj)
  PROVE  Same(w, Set(w, o, {"flush"}))
<1> DEFINE v == Set(w, o, {"flush"})
           b == [w.obj[o] EXCEPT !.flags = @ \union {"flush"}]
<1>1. /\ o \in Index /\ w.obj[o].flags # {} /\ Shaped(w.obj[o])
      /\ Table(w.obj) /\ Record(w)
  BY KindOf, TableOf DEF Used
<1>2. Framed(w, v) /\ v.obj = [w.obj EXCEPT ![o] = b]
  BY <1>1 DEF Set, Framed, Record, Fields
<1>3. b.pid = w.obj[o].pid /\ b.flags = w.obj[o].flags \union {"flush"}
      /\ b.look = w.obj[o].look
  BY <1>1 DEF Shaped, ObjFields
<1> HIDE DEF b, v
<1>4. Alike(w.obj[o], b)
  BY <1>1, <1>3 DEF Alike, Telling
<1>5. Same(w, v)
  BY <1>1, <1>2, <1>3, <1>4, ObjectSame
<1>6. QED
  BY <1>5 DEF v

-----------------------------------------------------------------------------
(* What the operations of wm_event ask of the taskbar.                     *)
LEMMA MoveUpAsks ==
  ASSUME NEW w, NEW o, Record(w)
  PROVE  MoveUp(w, o).asked = w.asked
<1> DEFINE v == [w EXCEPT !.list = Without(@, o)]
<1>1. Record(v) /\ v.asked = w.asked
  BY DEF Record, Fields
<1>2. MoveUp(w, o) = w \/ MoveUp(w, o) = Insert(v, o)
  BY DEF MoveUp
<1> HIDE DEF v
<1>3. Insert(v, o).asked = v.asked
  <2> DEFINE u == Tear(v)
             above == {p \in DOMAIN v.list : Above(v, v.list[p]) /\ ~ Has(v, o, "cursor")}
             at    == IF above = {} THEN Len(v.list) + 1
                      ELSE CHOOSE p \in above : \A q \in above : p <= q
             l     == InsertAt(u.list, at, o)
  <2>1. Insert(v, o) = [u EXCEPT !.list = l]
    BY DEF Insert
  <2>2. Record(u) /\ u.asked = v.asked
    BY <1>1 DEF Tear, Record, Fields
  <2> HIDE DEF l, u
  <2>3. QED
    BY <2>1, <2>2 DEF Record, Fields
<1>4. QED
  BY <1>1, <1>2, <1>3

LEMMA SetAsks ==
  ASSUME NEW w, NEW o, NEW F, Record(w)
  PROVE  Set(w, o, F).asked = w.asked
BY DEF Set, Record, Fields

LEMMA FragileAsks ==
  ASSUME NEW w, Record(w)
  PROVE  Fragile(w).asked = w.asked
<1> DEFINE new == [o \in Index |-> IF Contains(w.list, o) /\ Has(w, o, "fragile")
                                   THEN [w.obj[o] EXCEPT !.flags = @ \ {"visible"}]
                                   ELSE w.obj[o]]
           all == FoldLeft(LAMBDA zs, o : IF Has(w, o, "fragile")
                                        THEN ZoneInsert(zs, Place(w.obj[o]), 0) ELSE zs,
                          w.zones, w.list)
           v == [w EXCEPT !.obj = new, !.zones = all]
<1>1. Fragile(w) = v
  BY DEF Fragile
<1> HIDE DEF all, new
<1>2. v.asked = w.asked
  BY DEF Record, Fields
<1>3. QED
  BY <1>1, <1>2

LEMMA ToFrontAsks ==
  ASSUME NEW w, NEW o, Record(w)
  PROVE  ToFront(w, o).asked = w.asked /\ Record(ToFront(w, o))
<1> DEFINE u == MoveUp(w, o)
           s == Set(u, o, {"flush"})
           t == Set(s, Cursor, {"flush"})
<1>1. ToFront(w, o) = w \/ ToFront(w, o) = t
  BY DEF ToFront
<1>2. Record(u) /\ u.asked = w.asked
  BY MoveUpKeeps, MoveUpAsks DEF Keeps
<1> HIDE DEF u
<1>3. Record(s) /\ s.asked = u.asked
  BY <1>2, SetKeeps, SetAsks DEF Keeps
<1> HIDE DEF s
<1>4. Record(t) /\ t.asked = s.asked
  BY <1>3, SetKeeps, SetAsks DEF Keeps
<1> HIDE DEF t
<1>5. QED
  BY <1>1, <1>2, <1>3, <1>4

(* A button that goes down is reported.                                    *)
LEMMA PressAsks ==
  ASSUME NEW w, Record(w), NEW x, NEW y
  PROVE  Press(w, x, y).asked
<1> DEFINE o == Find(w, x, y)
           p == Picked(w, o)
           f == ToFront(p, o)
           v == Focus(f, o)
           h == [v EXCEPT !.header = TRUE]
           u == IF InHeader(w, o, x - w.obj[Cursor].x, y - w.obj[Cursor].y) THEN h ELSE v
<1>1. Press(w, x, y) = IF o = Taskbar THEN u ELSE Fragile(u)
  BY DEF Press
<1> HIDE DEF o
<1>2. Record(p) /\ p.asked = TRUE
  <2> DEFINE n == [w EXCEPT !.held = TRUE, !.selected = o]
  <2>1. Record(n)
    BY DEF Record, Fields
  <2>2. p = Notify(n)
    BY DEF Picked
  <2> HIDE DEF n, p
  <2>3. QED
    BY <2>1, <2>2, NotifyTells
<1> HIDE DEF p
<1>3. Record(f) /\ f.asked = TRUE
  BY <1>2, ToFrontAsks
<1> HIDE DEF f
<1>4. Record(v) /\ v.asked = TRUE
  BY <1>3 DEF Focus, Record, Fields
<1> HIDE DEF v
<1>5. Record(h) /\ h.asked = TRUE
  BY <1>4 DEF Record, Fields
<1> HIDE DEF h
<1>6. Record(u) /\ u.asked = TRUE
  BY <1>4, <1>5
<1> HIDE DEF u
<1>7. Fragile(u).asked = TRUE
  BY <1>6, FragileAsks
<1>8. QED
  BY <1>1, <1>6, <1>7

LEMMA PointedSame ==
  ASSUME NEW gone, NEW w, Sound(w, gone), NEW x, NEW y
  PROVE  Same(w, Pointed(w, x, y))
<1> DEFINE cursor == w.obj[Cursor]
           dy     == y - cursor.y
           At(o)  == <<IF cursor.x + dy >= w.obj[o].x /\ x < w.obj[o].x + w.obj[o].w
                       THEN x - w.obj[o].x ELSE -1,
                       IF y >= w.obj[o].y /\ y < w.obj[o].y + w.obj[o].h
                       THEN y - w.obj[o].y ELSE -1>>
           new == [o \in Index |-> IF Contains(w.list, o) /\ Has(w, o, "visible")
                                   THEN [w.obj[o] EXCEPT !.pointer = At(o)]
                                   ELSE w.obj[o]]
           v == [w EXCEPT !.obj = new]
<1>1. Pointed(w, x, y) = v
  BY TableOf DEF Pointed, Record, Fields
<1>2. Record(w)
  BY TableOf
<1> HIDE DEF At
<1>3. ASSUME NEW o \in Index
      PROVE  Alike(w.obj[o], new[o]) /\ new[o].look = w.obj[o].look
  <2> DEFINE b == [w.obj[o] EXCEPT !.pointer = At(o)]
  <2>1. new[o] = b \/ new[o] = w.obj[o]
    OBVIOUS
  <2>2. Shaped(w.obj[o])
    BY KindOf
  <2>3. b.pid = w.obj[o].pid /\ b.flags = w.obj[o].flags /\ b.look = w.obj[o].look
    BY <2>2 DEF Shaped, ObjFields
  <2> HIDE DEF b, new
  <2>4. QED
    BY <2>1, <2>3 DEF Alike
<1> HIDE DEF new
<1>4. v.obj = new /\ Framed(w, v)
  BY <1>2 DEF Framed, Record, Fields
<1> HIDE DEF v
<1>5. QED
  BY <1>1, <1>3, <1>4, BaseIsIndex DEF Same

LEMMA MoveSame ==
  ASSUME NEW gone, NEW w, Sound(w, gone), NEW o \in Used(w.obj), NEW dx, NEW dy
  PROVE  Same(w, Move(w, o, dx, dy))
<1> DEFINE old == w.obj[o]
           x   == Strip(old.x, old.w, dx)
           y   == Strip(old.y, old.h, dy)
           zs  == IF dx = 0 THEN w.zones
                  ELSE ZoneInsert(w.zones, Rect(x[1], old.y, x[2], old.h), 0)
           all == IF dy = 0 THEN zs
                  ELSE ZoneInsert(zs, Rect(old.x + dx, y[1], old.w, y[2]), 0)
           b   == [old EXCEPT !.x = @ + dx, !.y = @ + dy, !.flags = @ \union {"flush"}]
           v   == [w EXCEPT !.zones = all, !.obj[o] = b]
<1>1. /\ o \in Index /\ w.obj[o].flags # {} /\ Shaped(w.obj[o])
      /\ Table(w.obj) /\ Record(w)
  BY KindOf, TableOf DEF Used
<1>2. Move(w, o, dx, dy) = w \/ Move(w, o, dx, dy) = v
  <2> DEFINE a == [old EXCEPT !.x = @ + dx, !.y = @ + dy]
             m == [w EXCEPT !.zones = all, !.obj[o] = a]
  <2>1. Move(w, o, dx, dy) = w \/ Move(w, o, dx, dy) = Set(m, o, {"flush"})
    BY DEF Move
  <2> HIDE DEF all
  <2>2. Shaped(a) /\ b = [a EXCEPT !.flags = @ \union {"flush"}]
    BY <1>1 DEF Shaped, ObjFields
  <2> HIDE DEF a, b
  <2>3. m.obj = [w.obj EXCEPT ![o] = a] /\ m.obj[o] = a /\ Record(m)
    BY <1>1 DEF Record, Fields, Table
  <2>4. Set(m, o, {"flush"}) = [m EXCEPT !.obj[o] = b]
    BY <2>2, <2>3 DEF Set
  <2>5. [m EXCEPT !.obj[o] = b] = v
    <3> DEFINE s == [w.obj EXCEPT ![o] = a]
               t == [w.obj EXCEPT ![o] = b]
    <3>1. [m.obj EXCEPT ![o] = b] = t
      BY <1>1, <2>3 DEF Table
    <3>2. /\ m = [w EXCEPT !.zones = all, !.obj = s] /\ v = [w EXCEPT !.zones = all, !.obj = t]
          /\ [m EXCEPT !.obj[o] = b] = [m EXCEPT !.obj = t]
      BY <3>1
    <3> HIDE DEF s, t, m, v
    <3>3. [m EXCEPT !.obj = t] = v
      BY <1>1, <3>2 DEF Record, Fields
    <3>4. QED
      BY <3>2, <3>3
  <2>6. QED
    BY <2>1, <2>4, <2>5
<1> HIDE DEF all
<1>3. Framed(w, v) /\ v.obj = [w.obj EXCEPT ![o] = b]
  BY <1>1 DEF Framed, Record, Fields
<1>4. b.pid = w.obj[o].pid /\ b.flags = w.obj[o].flags \union {"flush"}
      /\ b.look = w.obj[o].look
  BY <1>1 DEF Shaped, ObjFields
<1> HIDE DEF b, v
<1>5. Alike(w.obj[o], b)
  BY <1>1, <1>4 DEF Alike, Telling
<1>6. Same(w, v)
  BY <1>1, <1>3, <1>4, <1>5, ObjectSame
<1>7. Same(w, w)
  BY PlainSame DEF Framed
<1>8. QED
  BY <1>2, <1>6, <1>7

LEMMA CursorSame ==
  ASSUME NEW gone, NEW w, Sound(w, gone), NEW x, NEW y
  PROVE  LET v == [w EXCEPT !.obj[Cursor] = [@ EXCEPT !.x = x, !.y = y]]
         IN  Same(w, v) /\ Stays(w, v, gone)
<1> DEFINE b == [w.obj[Cursor] EXCEPT !.x = x, !.y = y]
           v == [w EXCEPT !.obj[Cursor] = b]
<1>1. /\ Cursor \in Index /\ Cursor \in Used(w.obj) /\ Shaped(w.obj[Cursor])
      /\ Table(w.obj) /\ Record(w) /\ Cursor # Workbench
  BY KindOf, TableOf, BaseIsIndex, BaseIsUsed
<1>2. Aside(w, v) /\ Framed(w, v) /\ v.obj = [w.obj EXCEPT ![Cursor] = b]
  BY <1>1 DEF Aside, Framed, Record, Fields, SameTray
<1>3. /\ Shaped(b) /\ b.pid = w.obj[Cursor].pid /\ b.flags = w.obj[Cursor].flags
      /\ b.look = w.obj[Cursor].look
  BY <1>1 DEF Shaped, ObjFields
<1>4. v = [w EXCEPT !.obj[Cursor] = [@ EXCEPT !.x = x, !.y = y]]
  OBVIOUS
<1> HIDE DEF b, v
<1>5. Alike(w.obj[Cursor], b) /\ Changed(Cursor, w.obj[Cursor], b, gone)
  BY <1>1, <1>3 DEF Alike, Changed, Used
<1>6. Same(w, v)
  BY <1>1, <1>2, <1>3, <1>5, ObjectSame
<1>7. Stays(w, v, gone)
  BY <1>1, <1>2, <1>5, ObjectStays
<1>8. QED
  BY <1>4, <1>6, <1>7

LEMMA DragSame ==
  ASSUME NEW gone, NEW w, Good(w, gone), NEW x, NEW y
  PROVE  Same(w, Drag(w, x, y)) \/ Drag(w, x, y).ghost
<1> DEFINE dx == x - w.obj[Cursor].x
           dy == y - w.obj[Cursor].y
           o  == w.selected
           e  == Expose(w, Cursor)
           c  == [e EXCEPT !.obj[Cursor] = [@ EXCEPT !.x = x, !.y = y]]
           v  == Set(c, Cursor, {"flush"})
           m  == Move(v, o, dx, dy)
           drags == /\ o # 0 /\ w.held /\ (w.header \/ w.alt)
                    /\ w.obj[o].y + dy < w.obj[Taskbar].y - BarHeight
<1>1. Drag(w, x, y) = IF dx = 0 /\ dy = 0 THEN w
                      ELSE IF drags THEN Ghost(m, o) ELSE v
  BY DEF Drag
<1> HIDE DEF dx, dy, drags
<1>2. Sound(w, gone) /\ Record(w)
  BY TableOf DEF Good
<1>3. Stays(w, e, gone) /\ Same(w, e)
  BY <1>2, ExposeStays, ExposeSame
<1>4. Sound(e, gone)
  BY <1>3 DEF Stays
<1> HIDE DEF e
<1>5. Same(e, c) /\ Stays(e, c, gone)
  BY <1>4, CursorSame
<1> HIDE DEF c
<1>6. Sound(c, gone) /\ Cursor \in Used(c.obj)
  BY <1>5, BaseIsUsed DEF Stays
<1>7. Same(c, v) /\ Stays(c, v, gone)
  BY <1>6, FlushSame, SetStays
<1> HIDE DEF v
<1>8. Same(w, v) /\ Sound(v, gone) /\ Record(v)
  BY <1>3, <1>5, <1>7, SameOn, TableOf DEF Stays
<1>9. Record(m) /\ Whole(m) = Whole(v)
  BY <1>8, MoveKeeps DEF Keeps, Whole
<1>10. CASE Contains(Whole(v), o)
  <2>1. o \in Used(v.obj)
    BY <1>8, <1>10, WholeIs
  <2>2. Same(v, m)
    BY <1>8, <2>1, MoveSame
  <2> HIDE DEF m, o
  <2>3. Same(w, Ghost(m, o))
    BY <1>8, <1>9, <2>2, GhostSame, SameOn
  <2>4. Same(w, w)
    BY PlainSame DEF Framed
  <2>5. QED
    BY <1>1, <1>8, <2>3, <2>4
<1>11. CASE ~ Contains(Whole(v), o)
  <2> HIDE DEF m, o
  <2>1. Ghost(m, o).ghost
    BY <1>9, <1>11 DEF Ghost, Record, Fields
  <2>2. Same(w, w)
    BY PlainSame DEF Framed
  <2>3. QED
    BY <1>1, <1>8, <2>1, <2>2
<1>12. QED
  BY <1>10, <1>11

-----------------------------------------------------------------------------
(* wm_event.                                                               *)
LEMMA MessageAgrees ==
  ASSUME NEW gone, NEW w, Good(w, gone), Agrees(w),
         requests # <<>> => Head(requests).from \in Client
  PROVE  Agrees(Message(w))
<1> DEFINE m == Head(requests)
           o == ById(w, m.id)
           at == IF o # 0 THEN <<w.obj[o].x, w.obj[o].y>>
                 ELSE <<Middle(Size[1], Width), Middle(Size[2], Height)>>
           new == Create(w, at[1], at[2], Size[1], Size[2], {"visible", "flush"}, m.from)
           e == Expose(w, o)
           r == RemoveObject(e, o)
           a == Activate(r)
           gone2 == [w EXCEPT !.pc = "crash"]
           shut == Notify(a)
           made == Notify(new)
           named == Notify(w)
<1>1. Message(w) \in {w, made, gone2, shut, named}
  BY DEF Message
<1>2. Record(w)
  BY TableOf DEF Good
<1>3. Agrees(gone2)
  BY <1>2, FieldSame, SameAgrees
<1>4. Agrees(named)
  BY <1>2, NotifyTells
<1>5. Agrees(made)
  <2>1. Record(new)
    BY CreateFits DEF Fine
  <2> HIDE DEF new
  <2>2. QED
    BY <2>1, NotifyTells
<1>6. Agrees(shut)
  <2> HIDE DEF o
  <2>1. Record(e)
    BY <1>2, SetKeeps DEF Keeps
  <2> HIDE DEF e
  <2>2. Record(r)
    BY <2>1, RemoveKeeps DEF Keeps
  <2> HIDE DEF r
  <2>3. Record(a)
    BY <2>2, ActivateKeeps DEF Keeps
  <2> HIDE DEF a
  <2>4. QED
    BY <2>3, NotifyTells
<1> HIDE DEF made, gone2, shut, named
<1>7. QED
  BY <1>1, <1>3, <1>4, <1>5, <1>6

LEMMA KeyboardAgrees ==
  ASSUME NEW w, Record(w), Agrees(w), NEW key
  PROVE  Agrees(Keyboard(w, key))
<1> DEFINE o == Lowest(w)
           u == MoveUp(w, o)
           s == Set(u, o, {"visible", "flush"})
           a == Activate(s)
           r == Notify(a)
           alt == [w EXCEPT !.alt = key[2]]
<1>1. Keyboard(w, key) \in {w, alt, r}
  BY DEF Keyboard, Raise
<1>2. Record(w)
  OBVIOUS
<1>3. Agrees(alt)
  <2> DEFINE k == key[2]
  <2> HIDE DEF k
  <2>1. Same(w, [w EXCEPT !.alt = k])
    BY <1>2, FieldSame
  <2>2. Same(w, alt)
    BY <2>1 DEF k
  <2> HIDE DEF alt
  <2>3. QED
    BY <2>2, SameAgrees
<1>4. Agrees(r)
  <2> HIDE DEF o
  <2>1. Record(u)
    BY <1>2, MoveUpKeeps DEF Keeps
  <2> HIDE DEF u
  <2>2. Record(s)
    BY <2>1, SetKeeps DEF Keeps
  <2> HIDE DEF s
  <2>3. Record(a)
    BY <2>2, ActivateKeeps DEF Keeps
  <2> HIDE DEF a
  <2>4. QED
    BY <2>3, NotifyTells
<1> HIDE DEF r, alt
<1>5. QED
  BY <1>1, <1>3, <1>4

LEMMA ButtonAgrees ==
  ASSUME NEW w, Record(w), Agrees(w), NEW x, NEW y, NEW left
  PROVE  Agrees(Button(w, x, y, left))
<1> DEFINE v == [w EXCEPT !.held = FALSE, !.header = FALSE]
<1>1. Button(w, x, y, left) \in {v, w, Press(w, x, y)}
  BY DEF Button
<1>2. Agrees(v)
  BY FieldSame, SameAgrees
<1> HIDE DEF v
<1>3. Agrees(Press(w, x, y))
  BY PressAsks DEF Agrees
<1>4. QED
  BY <1>1, <1>2, <1>3

LEMMA PointerTold ==
  ASSUME NEW gone, NEW w, Fine(w, gone), Agrees(w), OnScreen(mouse.x, mouse.y)
  PROVE  Told(Pointer(w))
<1> DEFINE left == "left" \in mouse.status
           x == mouse.x
           y == mouse.y
           p == Pointed(w, x, y)
           v == Button(p, x, y, left)
           d == Drag(v, x, y)
           e == [d EXCEPT !.x = x]
<1>1. Pointer(w) = e
  BY DEF Pointer
<1>2. CASE w.ghost
  BY <1>2, PointerFine DEF Told
<1>3. CASE Good(w, gone)
  <2>1. OnScreen(x, y)
    OBVIOUS
  <2> HIDE DEF left, x, y
  <2>2. Stays(w, p, gone) /\ Same(w, p)
    BY <1>3, PointedStays, PointedSame DEF Good
  <2>3. Good(p, gone) /\ Agrees(p) /\ Record(p) /\ Fine(p, gone)
    BY <1>3, <2>2, StaysGood, SameAgrees, TableOf DEF Good, Fine
  <2> HIDE DEF p
  <2>4. Fine(v, gone) /\ Agrees(v)
    BY <2>1, <2>3, ButtonFine, ButtonAgrees
  <2> HIDE DEF v
  <2>5. Record(d) /\ (v.ghost => d.ghost)
    BY <2>4, DragKeeps DEF Fine, Keeps
  <2>6. Good(v, gone) => Agrees(d) \/ d.ghost
    BY <2>4, DragSame, SameAgrees
  <2> HIDE DEF d
  <2>7. Same(d, e) /\ e.ghost = d.ghost
    BY <2>5, FieldSame DEF Record, Fields
  <2> HIDE DEF e
  <2>8. QED
    BY <1>1, <2>4, <2>5, <2>6, <2>7, SameAgrees DEF Told, Fine
<1>4. QED
  BY <1>2, <1>3 DEF Fine

-----------------------------------------------------------------------------
(* wm_object.                                                              *)
LEMMA FlushedSame ==
  ASSUME NEW gone, NEW w, Sound(w, gone), NEW o \in Used(w.obj)
  PROVE  Same(w, Flushed(w, o))
<1> DEFINE e == Expose(w, o)
           b == [w.obj[o] EXCEPT !.flags = Toggle(@, "hide") \ {"flush"},
                                 !.request = @ \ {"flush"}]
           c == [e EXCEPT !.obj[o] = b]
<1>1. /\ o \in Index /\ w.obj[o].flags # {} /\ Shaped(w.obj[o])
      /\ Table(w.obj) /\ Record(w) /\ Kind(o, w.obj[o], gone)
  BY KindOf, TableOf DEF Used
<1>2. Flushed(w, o) = c
  BY DEF Flushed
<1>3. Record(e) /\ e.obj = w.obj /\ Same(w, e)
  BY <1>1, ExposeSame DEF Expose, Record, Fields
<1> HIDE DEF e
<1>4. b.pid = w.obj[o].pid /\ b.flags = Toggle(w.obj[o].flags, "hide") \ {"flush"}
      /\ b.look = w.obj[o].look
  BY <1>1 DEF Shaped, ObjFields
<1> HIDE DEF b
<1>5. Framed(e, c) /\ c.obj = [e.obj EXCEPT ![o] = b]
  BY <1>3 DEF Framed, Record, Fields
<1> HIDE DEF c
<1>6. Alike(w.obj[o], b)
  <2>1. "exist" \in w.obj[o].flags \/ "menu" \in w.obj[o].flags
    BY <1>1 DEF Kind
  <2>2. QED
    BY <1>1, <1>4, <2>1 DEF Alike, Telling, Toggle
<1>7. Same(e, c)
  BY <1>1, <1>3, <1>4, <1>5, <1>6, ObjectSame
<1>8. QED
  BY <1>2, <1>3, <1>7, SameOn

LEMMA UpdatedAgrees ==
  ASSUME NEW w, Good(w, Gone), Agrees(w), NEW o \in Used(w.obj)
  PROVE  \/ Agrees(Updated(w, o))
         \/ Updated(w, o) = RemoveObject(w, o) /\ w.obj[o].pid \in Gone
<1> DEFINE x == w.obj[o]
           flush == \/ "hide" \in x.flags
                    \/ "visible" \in x.flags /\ "flush" \in x.flags \union x.request
<1>1. Updated(w, o) = IF "minimize" \in x.request THEN Minimized(w, o)
                      ELSE IF flush THEN Flushed(w, o)
                      ELSE IF "destroy" \in x.flags THEN Destroyed(w, o) ELSE w
  BY DEF Updated
<1>2. /\ o \in Index /\ x.flags # {} /\ Shaped(x) /\ Sound(w, Gone)
      /\ Table(w.obj) /\ Record(w) /\ Kind(o, x, Gone)
  BY KindOf, TableOf DEF Used, Good
<1> HIDE DEF flush
<1>3. Agrees(Minimized(w, o))
  <2> DEFINE e == Expose(w, o)
             b == [w.obj[o] EXCEPT !.flags = Toggle(@ \ {"visible"}, "hide"),
                                   !.request = @ \ {"minimize"}]
             c == [e EXCEPT !.obj[o] = b]
             a == Activate(c)
             v == Notify(a)
  <2>1. Minimized(w, o) = v
    BY DEF Minimized
  <2>2. Record(e)
    BY <1>2, SetKeeps DEF Keeps
  <2> HIDE DEF e, b
  <2>3. Record(c)
    BY <2>2 DEF Record, Fields
  <2> HIDE DEF c
  <2>4. Record(a)
    BY <2>3, ActivateKeeps DEF Keeps
  <2> HIDE DEF a
  <2>5. QED
    BY <2>1, <2>4, NotifyTells
<1>4. Agrees(Flushed(w, o))
  BY <1>2, FlushedSame, SameAgrees
<1>5. ASSUME "destroy" \in x.flags
      PROVE  \/ Agrees(Destroyed(w, o))
             \/ Destroyed(w, o) = RemoveObject(w, o) /\ x.pid \in Gone
  <2>1. x.pid \in Gone
    BY <1>2, <1>5 DEF Kind
  <2>2. CASE Has(w, o, "visible")
    <3> DEFINE c == Clear(w, o, {"visible"})
               e == Expose(c, o)
               a == Activate(e)
    <3>1. Destroyed(w, o) = a
      BY <2>2 DEF Destroyed
    <3>2. Record(c) /\ "destroy" \in c.obj[o].flags
      BY <1>2, <1>5 DEF Clear, Record, Fields, Table, Shaped, ObjFields
    <3> HIDE DEF c
    <3>3. Record(e) /\ e.obj = c.obj
      BY <3>2 DEF Expose, Record, Fields
    <3> HIDE DEF e
    <3>4. a.obj = e.obj
      BY <3>3, ActivateKeeps
    <3>5. Doomed(a)
      BY <1>2, <3>2, <3>3, <3>4 DEF Doomed
    <3>6. QED
      BY <3>1, <3>5 DEF Agrees
  <2>3. CASE ~ Has(w, o, "visible")
    BY <2>1, <2>3 DEF Destroyed
  <2>4. QED
    BY <2>2, <2>3
<1>6. QED
  BY <1>1, <1>3, <1>4, <1>5

LEMMA OrphanedAgrees ==
  ASSUME NEW w, Record(w), Table(w.obj), NEW o \in Index, Shaped(w.obj[o]), Agrees(w)
  PROVE  Agrees(Orphaned(w, o))
<1> DEFINE r == RemoveObject(w, o)
           a == Activate(r)
           t == Notify(a)
           c == [w EXCEPT !.obj[o].flags = (@ \ {"visible"}) \union {"hide", "destroy"}]
           g == Ghost(c, o)
<1>1. Orphaned(w, o) \in {w, t, g}
  BY DEF Orphaned
<1>2. Agrees(t)
  <2>1. Record(r)
    BY RemoveKeeps DEF Keeps
  <2> HIDE DEF r
  <2>2. Record(a)
    BY <2>1, ActivateKeeps DEF Keeps
  <2> HIDE DEF a
  <2>3. QED
    BY <2>2, NotifyTells
<1>3. Agrees(g)
  <2>1. Record(c) /\ "destroy" \in c.obj[o].flags
    BY DEF Record, Fields, Table, Shaped, ObjFields
  <2> HIDE DEF c
  <2>2. g.obj = c.obj
    BY <2>1, GhostSame
  <2>3. Doomed(g)
    BY <2>1, <2>2 DEF Doomed
  <2>4. QED
    BY <2>3 DEF Agrees
<1> HIDE DEF t, g
<1>4. QED
  BY <1>1, <1>2, <1>3

(* An entry that was released a moment ago is written to.                  *)
LEMMA OrphanedGhost ==
  ASSUME NEW w, Sound(w, Gone), NEW o \in Index, w.obj[o].pid \in Gone,
         o \notin Used(w.obj)
  PROVE  Orphaned(w, o).ghost
<1> DEFINE c == [w EXCEPT !.obj[o].flags = (@ \ {"visible"}) \union {"hide", "destroy"}]
           g == Ghost(c, o)
<1>1. Record(w) /\ w.obj[o].flags = {} /\ ~ Contains(Whole(w), o)
  BY TableOf, WholeIs DEF Used
<1>2. Orphaned(w, o) = g
  BY <1>1, RunningIs DEF Orphaned, Has
<1>3. Record(c) /\ Whole(c) = Whole(w)
  BY <1>1 DEF Record, Fields, Whole
<1> HIDE DEF c
<1>4. ~ Contains(Whole(c), o)
  BY <1>1, <1>3
<1>5. g.ghost
  BY <1>3, <1>4 DEF Ghost, Record, Fields
<1>6. QED
  BY <1>2, <1>5

LEMMA VisitedTold ==
  ASSUME NEW w, Fine(w, Gone), Told(w), NEW i \in Nat \ {0}
  PROVE  Told(Visited(w, i))
<1> DEFINE o == w.list[i]
           u == Updated(w, o)
           v == Orphaned(u, o)
<1>1. Visited(w, i) = IF i > Len(w.list) THEN w ELSE v
  BY DEF Visited
<1>2. CASE w.ghost
  <2>1. Record(w)
    BY DEF Fine
  <2>2. Keeps(w, u)
    BY <2>1, UpdatedKeeps
  <2> HIDE DEF u
  <2>3. Keeps(u, v)
    BY <2>2, OrphanedKeeps DEF Keeps
  <2> HIDE DEF v
  <2>4. QED
    BY <1>1, <1>2, <2>2, <2>3 DEF Keeps, Told
<1>3. CASE Good(w, Gone) /\ Agrees(w) /\ i <= Len(w.list)
  <2>1. o \in Used(w.obj)
    <3>1. Seats(w.list) /\ Names(w.list) \subseteq Used(w.obj)
      BY <1>3 DEF Good, Sound, Laid
    <3>2. i \in 1 .. Len(w.list)
      BY <1>3, <3>1, ListOf
    <3>3. QED
      BY <3>1, <3>2, ListOf
  <2>2. o \in Index
    BY <2>1 DEF Used
  <2> HIDE DEF o
  <2>3. CASE u = RemoveObject(w, o) /\ w.obj[o].pid \in Gone
    <3> DEFINE r == RemoveObject(w, o)
    <3>1. \/ r.ghost
          \/ Sound(r, Gone) /\ r.obj[o].pid \in Gone /\ o \notin Used(r.obj)
      BY <1>3, <2>1, <2>3, RemovedIs
    <3>2. u = r
      BY <2>3
    <3>3. Record(u)
      BY <1>3, UpdatedKeeps, TableOf DEF Good, Keeps
    <3> HIDE DEF u, r
    <3>4. \/ u.ghost
          \/ Sound(u, Gone) /\ u.obj[o].pid \in Gone /\ o \notin Used(u.obj)
      BY <3>1, <3>2
    <3>5. v.ghost
      BY <2>2, <3>3, <3>4, OrphanedKeeps, OrphanedGhost DEF Keeps
    <3> HIDE DEF v
    <3>6. QED
      BY <1>1, <1>3, <3>5 DEF Told
  <2>4. CASE ~ (u = RemoveObject(w, o) /\ w.obj[o].pid \in Gone)
    <3>1. Good(u, Gone)
      BY <1>3, <2>1, <2>4, UpdatedIs
    <3>2. Agrees(u)
      BY <1>3, <2>1, <2>4, UpdatedAgrees
    <3> HIDE DEF u
    <3>3. Record(u) /\ Table(u.obj) /\ Shaped(u.obj[o])
      BY <2>2, <3>1, TableOf, KindOf DEF Good
    <3>4. Agrees(v)
      BY <2>2, <3>2, <3>3, OrphanedAgrees
    <3> HIDE DEF v
    <3>5. QED
      BY <1>1, <1>3, <3>4 DEF Told
  <2>5. QED
    BY <2>3, <2>4
<1>4. CASE Good(w, Gone) /\ ~ i <= Len(w.list)
  <2>1. Len(w.list) \in Nat
    BY <1>4, ListOf DEF Good, Sound, Laid
  <2>2. i > Len(w.list)
    BY <1>4, <2>1
  <2>3. QED
    BY <1>1, <2>2
<1>5. QED
  BY <1>2, <1>3, <1>4 DEF Fine, Told

LEMMA PassTold ==
  ASSUME NEW w, Fine(w, Gone), Told(w)
  PROVE  Told(Pass(w))
<1> DEFINE n == ObjectLimit
           g == CHOOSE f : Passing(w, n, f)
           Bad == {i \in 0 .. n : ~ (Fine(g[i], Gone) /\ Told(g[i]))}
<1>1. n \in Nat
  BY BaseIsIndex
<1>2. Pass(w) = g[n]
  BY DEF Pass, Passing
<1>3. Passing(w, n, g)
  BY <1>1, PassingExists
<1> HIDE DEF g, n
<1>4. \A i \in 0 .. n : g[i] = IF i = 0 THEN w ELSE Visited(g[i - 1], i)
  BY <1>3 DEF Passing
<1>5. Bad = {}
  <2> SUFFICES ASSUME Bad # {} PROVE FALSE
    OBVIOUS
  <2>1. Bad \in SUBSET Nat
    BY <1>1
  <2>2. PICK i \in Bad : \A j \in Bad : i <= j
    BY <2>1, LeastNumber
  <2>3. i # 0
    BY <1>1, <1>4
  <2>4. i \in Nat \ {0} /\ i - 1 \in 0 .. n /\ i - 1 \notin Bad
    BY <1>1, <2>2, <2>3
  <2>5. Fine(g[i - 1], Gone) /\ Told(g[i - 1])
    BY <2>4
  <2>6. g[i] = Visited(g[i - 1], i)
    BY <1>4, <2>3
  <2>7. QED
    BY <2>4, <2>5, <2>6, VisitedFine, VisitedTold
<1>6. QED
  BY <1>1, <1>2, <1>5

LEMMA PictureTold ==
  ASSUME NEW w, Record(w), Told(w), NEW v, Framed(w, v), v.obj = w.obj, v.ghost = w.ghost
  PROVE  Told(v)
BY PlainSame, SameAgrees DEF Told

LEMMA ZonesTold ==
  ASSUME NEW w, Record(w), Told(w), NEW zones
  PROVE  Told([w EXCEPT !.zones = zones])
<1> DEFINE v == [w EXCEPT !.zones = zones]
<1>1. Framed(w, v) /\ v.obj = w.obj /\ v.ghost = w.ghost
  BY DEF Framed, Record, Fields
<1> HIDE DEF v
<1>2. Told(v)
  BY <1>1, PictureTold
<1>3. QED
  BY <1>2 DEF v

LEMMA FilledTold ==
  ASSUME NEW w, Record(w), Told(w)
  PROVE  Told(Filled(w))
<1> DEFINE p == FoldLeft(LAMBDA picture, zone : Fill(w, picture, zone), w.picture, w.zones)
           v == [w EXCEPT !.picture = p, !.zones = <<>>]
<1>1. Filled(w) = v
  BY DEF Filled
<1> HIDE DEF p
<1>2. Framed(w, v) /\ v.obj = w.obj /\ v.ghost = w.ghost
  BY DEF Framed, Record, Fields
<1> HIDE DEF v
<1>3. QED
  BY <1>1, <1>2, PictureTold

LEMMA DrawnTold ==
  ASSUME NEW gone, NEW w, Fine(w, gone), Told(w)
  PROVE  Told(Drawn(w))
<1> DEFINE z == [w EXCEPT !.zones = Zones(w)]
<1>1. Record(w)
  BY DEF Fine
<1> DEFINE n == Zones(w)
<1> HIDE DEF n
<1>2. z = [w EXCEPT !.zones = n]
  BY DEF n
<1>3. Record(z) /\ Told(z)
  BY <1>1, <1>2, ZonesFine, ZonesTold DEF Fine
<1> HIDE DEF z
<1>4. Told(Filled(z))
  BY <1>3, FilledTold
<1>5. QED
  BY <1>4 DEF Drawn, z

-----------------------------------------------------------------------------
(* The thread of the taskbar.                                              *)
LEMMA ListedShows ==
  ASSUME NEW gone, NEW w, Sound(w, gone)
  PROVE  /\ Current(Listed(w)) /\ Agrees(Listed(w))
         /\ Shown(Listed(w)) = Shown(w) /\ Looks(Listed(w)) = Looks(w)
<1> DEFINE es   == Ascending(Shown(w))
           wide == IF es = <<>> THEN w.entry ELSE Wide(Len(es))
           b    == [w.obj[Taskbar] EXCEPT !.look = Looks(w)]
           n    == [NoTurn EXCEPT !.at = "clear"]
           v    == [w EXCEPT !.elements = es, !.entry = wide, !.obj[Taskbar].look = Looks(w),
                             !.asked = FALSE, !.turn = n]
<1>1. Listed(w) = v
  BY ListedIs DEF Looks
<1>2. /\ Record(w) /\ Table(w.obj) /\ Taskbar \in Index /\ Shaped(w.obj[Taskbar])
  BY TableOf, KindOf, BaseIsIndex
<1> DEFINE l == Looks(w)
<1>3. l = Looks(w)
  OBVIOUS
<1> HIDE DEF es, wide, l, n
<1>4. /\ v.elements = es /\ v.active = w.active
      /\ v.obj = [w.obj EXCEPT ![Taskbar] = b]
  <2> HIDE DEF b
  <2>1. v = [w EXCEPT !.elements = es, !.entry = wide,
                      !.obj[Taskbar] = b, !.asked = FALSE, !.turn = n]
    BY DEF b
  <2>2. QED
    BY <1>2, <2>1 DEF Record, Fields
<1>5. b.look = Looks(w) /\ b.flags = w.obj[Taskbar].flags /\ b.pid = w.obj[Taskbar].pid
  BY <1>2, <1>3 DEF Shaped, ObjFields
<1> HIDE DEF b, v
<1>6. \A o \in Index : v.obj[o].flags = w.obj[o].flags /\ v.obj[o].pid = w.obj[o].pid
  BY <1>2, <1>4, <1>5 DEF Table
<1>7. Shown(v) = Shown(w)
  BY <1>6 DEF Shown, Own, Has
<1>8. Looks(v) = Looks(w)
  <2>1. \A o \in Shown(w) : <<Has(v, o, "visible"), o = v.active>>
                            = <<Has(w, o, "visible"), o = w.active>>
    BY <1>4, <1>6 DEF Has, Shown
  <2>2. QED
    BY <1>7, <2>1 DEF Looks
<1>9. v.obj[Taskbar].look = Looks(w)
  BY <1>2, <1>4, <1>5 DEF Table
<1>10. Current(v)
  BY <1>4, <1>7, <1>8, <1>9 DEF Current, es
<1>11. QED
  BY <1>1, <1>7, <1>8, <1>10 DEF Agrees

LEMMA ListedTurn ==
  ASSUME NEW gone, NEW w, Sound(w, gone)
  PROVE  Listed(w).turn = [NoTurn EXCEPT !.at = "clear"]
BY TableOf DEF Listed, Record, Fields

(* The request is taken back: what came since the list is remembered.      *)
LEMMA CalmAgrees ==
  ASSUME NEW w, NEW v, Agrees(w), ~ Busy(w), v.asked = w.asked, v.obj = w.obj,
         v.elements = w.elements, v.active = w.active
  PROVE  Agrees(v)
<1>1. Doomed(w) => Doomed(v)
  BY DEF Doomed
<1>2. Shown(v) = Shown(w)
  BY DEF Shown, Own, Has
<1>3. Looks(v) = Looks(w)
  BY <1>2 DEF Looks, Has
<1>4. Current(w) => Current(v)
  BY <1>2, <1>3 DEF Current
<1>5. QED
  BY <1>1, <1>4 DEF Agrees

LEMMA ClearedTold ==
  ASSUME NEW gone, NEW w, Fine(w, gone), Told(w), ~ Busy(w)
  PROVE  Told(Reloaded(w)) /\ Told(Cleared(w))
<1> DEFINE s == Set(w, Taskbar, {"flush"})
           r == [s EXCEPT !.turn = NoTurn]
           c == [r EXCEPT !.bar = FALSE]
<1>1. Reloaded(w) = r /\ Cleared(w) = c
  BY DEF Reloaded, Cleared
<1>2. Keeps(w, s)
  BY SetKeeps DEF Fine
<1>3. Good(w, gone) => Same(w, s)
  BY BaseIsUsed, FlushSame DEF Good
<1>4. Good(w, gone) /\ Agrees(w) => Agrees(s)
  BY <1>3, SameAgrees
<1>5. ~ Busy(s)
  BY <1>2 DEF Busy, Keeps
<1> HIDE DEF s
<1>6. /\ Record(r) /\ r.ghost = s.ghost /\ r.asked = s.asked /\ r.obj = s.obj
      /\ r.elements = s.elements /\ r.active = s.active /\ r.turn = NoTurn
  BY <1>2 DEF Keeps, Record, Fields
<1>7. Agrees(s) => Agrees(r)
  BY <1>5, <1>6, CalmAgrees
<1>8. ~ Busy(r)
  BY <1>6 DEF Busy, NoTurn
<1> HIDE DEF r
<1>9. /\ c.ghost = r.ghost /\ c.asked = r.asked /\ c.obj = r.obj
      /\ c.elements = r.elements /\ c.active = r.active
  BY <1>6 DEF Record, Fields
<1> HIDE DEF c
<1>10. Agrees(r) => Agrees(c)
  BY <1>8, <1>9, CalmAgrees
<1>11. Told(r) /\ Told(c)
  BY <1>2, <1>4, <1>6, <1>7, <1>9, <1>10 DEF Told, Keeps, Fine
<1>12. QED
  BY <1>1, <1>11

LEMMA BegunTold ==
  LET w == [Drawn(Pass(Drawn(Pass(Cleared(Listed(Made)))))) EXCEPT !.pc = "event"]
  IN  Told(w)
<1> DEFINE a == Listed(Made)
           b == Cleared(a)
           c == Pass(b)
           d == Drawn(c)
           e == Pass(d)
           f == Drawn(e)
           w == [f EXCEPT !.pc = "event"]
<1>1. Good(Made, Gone) /\ Made.turn.hole = 0
  BY MadeGood DEF NoTurn
<1>2. Fine(a, Gone) /\ a.turn.hole = 0
  BY <1>1, ListedFine
<1>3. Told(a) /\ ~ Busy(a)
  <2>1. a.turn = [NoTurn EXCEPT !.at = "clear"]
    BY <1>1, ListedTurn DEF Good
  <2>2. Agrees(a)
    BY <1>1, ListedShows DEF Good
  <2> HIDE DEF a
  <2>3. QED
    BY <2>1, <2>2 DEF Told, Busy, NoTurn
<1> HIDE DEF a
<1>4. Fine(b, Gone) /\ Told(b)
  BY <1>2, <1>3, ClearedFine, ClearedTold
<1> HIDE DEF b
<1>5. Fine(c, Gone) /\ Told(c)
  BY <1>4, PassFine, PassTold
<1> HIDE DEF c
<1>6. Fine(d, Gone) /\ Told(d)
  BY <1>5, DrawnFine, DrawnTold
<1> HIDE DEF d
<1>7. Fine(e, Gone) /\ Told(e)
  BY <1>6, PassFine, PassTold
<1> HIDE DEF e
<1>8. Record(f) /\ Told(f)
  BY <1>7, DrawnFine, DrawnTold DEF Fine
<1> HIDE DEF f
<1>9. Same(f, w) /\ w.ghost = f.ghost
  BY <1>8, FieldSame DEF Record, Fields
<1> HIDE DEF w
<1>10. Told(w)
  BY <1>8, <1>9, SameAgrees DEF Told
<1>11. QED
  BY <1>10 DEF a, b, c, d, e, f, w

(* What a client asks for its window, or draws in it.                      *)
LEMMA AskedAgrees ==
  ASSUME NEW w, Good(w, Gone), Agrees(w), NEW o \in Used(w.obj), NEW b,
         b.pid = w.obj[o].pid, b.flags = w.obj[o].flags,
         o = Taskbar => b.look = w.obj[o].look,
         NEW v, v = [w EXCEPT !.obj[o] = b]
  PROVE  Agrees(v)
<1>1. Record(w) /\ Table(w.obj) /\ o \in Index
  BY TableOf DEF Good, Used
<1>2. Framed(w, v) /\ v.obj = [w.obj EXCEPT ![o] = b]
  BY <1>1 DEF Framed, Record, Fields
<1>3. Alike(w.obj[o], b)
  BY DEF Alike
<1>4. Same(w, v)
  BY <1>1, <1>2, <1>3, ObjectSame
<1>5. QED
  BY <1>4, SameAgrees

-----------------------------------------------------------------------------
(* The inductive invariant of the taskbar.                                 *)
BarInv == wm.pc # "init" => Told(wm)

LEMMA EventTells ==
  ASSUME WindowsInv, BarInv, Event, Sane
  PROVE  BarInv'
<1> DEFINE m == Message(wm)
           keyed == Keyboard(m, KeyCall)
           done == Pointer(keyed)
           moved == [done EXCEPT !.pc = "object"]
<1>1. /\ wm.pc = "event"
      /\ wm' = IF keyed.pc = "crash" THEN keyed ELSE moved
  BY DEF Event
<1>2. Good(wm, Gone) /\ Agrees(wm)
  BY <1>1 DEF WindowsInv, DeskInv, Kept, Fine, Sane, BarInv, Told
<1>3. OnScreen(mouse.x, mouse.y)
  BY InvPointer DEF WindowsInv, DeskInv, PointerOnScreen, PointerIsKept, OnScreen
<1>4. requests # <<>> => Head(requests).from \in Client
  BY TailSends DEF Event, WindowsInv, DeskInv
<1>5. Fine(m, Gone) /\ Agrees(m)
  BY <1>2, <1>4, MessageFine, MessageAgrees
<1> HIDE DEF m
<1>6. Fine(keyed, Gone) /\ Agrees(keyed)
  BY <1>5, KeyboardFine, KeyboardAgrees DEF Fine
<1> HIDE DEF keyed
<1>7. Fine(done, Gone) /\ Told(done)
  BY <1>3, <1>6, PointerFine, PointerTold
<1> HIDE DEF done
<1>8. Same(done, moved) /\ moved.ghost = done.ghost
  BY <1>7, FieldSame DEF Fine, Record, Fields
<1> HIDE DEF moved
<1>9. Told(moved) /\ Told(keyed)
  BY <1>6, <1>7, <1>8, SameAgrees DEF Told
<1>10. Told(wm')
  BY <1>1, <1>9
<1>11. QED
  BY <1>10 DEF BarInv, Told, Agrees, Busy, Current, Doomed, Looks, Shown, Own, Has

LEMMA ToldNext ==
  ASSUME NEW v, wm' = v, Told(v)
  PROVE  BarInv'
BY DEF BarInv, Told, Agrees, Busy, Current, Doomed, Looks, Shown, Own, Has

LEMMA PhasesTell ==
  ASSUME WindowsInv, BarInv, Begin \/ Objects \/ Zone \/ Draw
  PROVE  BarInv'
<1>1. CASE Begin
  <2> DEFINE v == [Drawn(Pass(Drawn(Pass(Cleared(Listed(Made)))))) EXCEPT !.pc = "event"]
  <2>1. wm' = v
    BY <1>1 DEF Begin
  <2>2. Told(v)
    BY BegunTold
  <2> HIDE DEF v
  <2>3. QED
    BY <2>1, <2>2, ToldNext
<1>2. ASSUME NEW w, NEW v, NEW x, Fine(w, Gone), Told(w), v = [w EXCEPT !.pc = x]
      PROVE  Told(v)
  <2>1. Same(w, v) /\ v.ghost = w.ghost
    BY <1>2, FieldSame DEF Fine, Record, Fields
  <2>2. QED
    BY <1>2, <2>1, SameAgrees DEF Told
<1>3. CASE Objects
  <2> DEFINE p == Pass(wm)
             v == [p EXCEPT !.pc = "zone"]
  <2>1. wm' = v /\ Fine(wm, Gone) /\ Told(wm)
    BY <1>3 DEF Objects, WindowsInv, DeskInv, Kept, BarInv
  <2>2. Fine(p, Gone) /\ Told(p)
    BY <2>1, PassFine, PassTold
  <2> HIDE DEF p
  <2>3. Told(v)
    BY <1>2, <2>2
  <2> HIDE DEF v
  <2>4. QED
    BY <2>1, <2>3, ToldNext
<1>4. CASE Zone
  <2> DEFINE n == Zones(wm)
             p == [wm EXCEPT !.zones = n]
             v == [p EXCEPT !.pc = "fill"]
  <2>1. wm' = v /\ Fine(wm, Gone) /\ Told(wm)
    BY <1>4 DEF Zone, WindowsInv, DeskInv, Kept, BarInv
  <2> HIDE DEF n
  <2>2. Fine(p, Gone) /\ Told(p)
    BY <2>1, ZonesFine, ZonesTold DEF Fine
  <2> HIDE DEF p
  <2>3. Told(v)
    BY <1>2, <2>2
  <2> HIDE DEF v
  <2>4. QED
    BY <2>1, <2>3, ToldNext
<1>5. CASE Draw
  <2> DEFINE p == Filled(wm)
             v == [p EXCEPT !.pc = "event"]
  <2>1. wm' = v /\ Fine(wm, Gone) /\ Told(wm)
    BY <1>5 DEF Draw, WindowsInv, DeskInv, Kept, BarInv
  <2>2. Fine(p, Gone) /\ Told(p)
    BY <2>1, FilledFine, FilledTold DEF Fine
  <2> HIDE DEF p
  <2>3. Told(v)
    BY <1>2, <2>2
  <2> HIDE DEF v
  <2>4. QED
    BY <2>1, <2>3, ToldNext
<1>6. QED
  BY <1>1, <1>3, <1>4, <1>5

(* Once the thread has a click, it lists the windows before it waits again.*)
LEMMA GotoBusy ==
  ASSUME NEW w, Record(w), Turned(w.turn), NEW at, at \notin {"idle", "clear"}
  PROVE  Busy(Goto(w, at))
<1> DEFINE u == [w.turn EXCEPT !.at = at]
<1>1. u.at = at
  BY DEF Turned, Turning
<1>2. Goto(w, at) = [w EXCEPT !.turn = u]
  BY DEF Goto
<1> HIDE DEF u
<1>3. Goto(w, at).turn = u
  BY <1>2 DEF Record, Fields
<1>4. QED
  BY <1>1, <1>3 DEF Busy

LEMMA SubBusy ==
  ASSUME NEW w, Record(w), NEW at, at \notin {"idle", "clear"}, NEW obj, NEW end
  PROVE  Busy(Sub(w, at, obj, end))
<1> DEFINE u == [at |-> at, obj |-> obj, hole |-> 0, then |-> end]
<1>1. u.at = at
  OBVIOUS
<1>2. Sub(w, at, obj, end) = [w EXCEPT !.turn = u]
  BY DEF Sub
<1> HIDE DEF u
<1>3. Sub(w, at, obj, end).turn = u
  BY <1>2 DEF Record, Fields
<1>4. QED
  BY <1>1, <1>3 DEF Busy

LEMMA ReturnBusy ==
  ASSUME NEW w, Record(w), Turned(w.turn), w.turn.at \in {"search", "look", "focus"}
  PROVE  Busy(Return(w))
<1>1. w.turn.then \in {"open", "show", "entry", "done"}
  BY DEF Turned
<1>2. QED
  BY <1>1, GotoBusy DEF Return

LEMMA StoreKeeps ==
  ASSUME NEW w, Record(w), NEW x
  PROVE  /\ Keeps(w, [w EXCEPT !.obj = x]) /\ Keeps(w, [w EXCEPT !.missed = x])
         /\ Keeps(w, [w EXCEPT !.active = x])
BY DEF Keeps, Record, Fields

(* Its steps, one after the other.                                         *)
LEMMA ClickedBusy ==
  ASSUME NEW w, Record(w), Turned(w.turn)
  PROVE  Busy(Clicked(w))
<1> DEFINE y == w.obj[Taskbar].y - w.obj[Menu].h
           b == [w.obj EXCEPT ![Menu] = [w.obj[Menu] EXCEPT !.x = 0, !.y = y]]
           v == [w EXCEPT !.obj = b]
           c == Clear(w, Menu, {"visible"})
<1>1. Clicked(w) = IF Opens(w) THEN Sub(v, "search", Menu, "open") ELSE Goto(c, "expose")
  BY DEF Clicked
<1> HIDE DEF b
<1>2. Keeps(w, v) /\ Keeps(w, c)
  BY StoreKeeps, SetKeeps
<1> HIDE DEF v, c
<1>3. Busy(Sub(v, "search", Menu, "open"))
  BY <1>2, SubBusy DEF Keeps
<1>4. Busy(Goto(c, "expose"))
  BY <1>2, GotoBusy DEF Keeps
<1>5. QED
  BY <1>1, <1>3, <1>4

LEMMA MenuBusy ==
  ASSUME NEW w, Record(w), Turned(w.turn)
  PROVE  Busy(Opened(w)) /\ Busy(Exposed(w))
<1> DEFINE v == [w EXCEPT !.active = Menu]
           e == Expose(w, Menu)
           x == w.missed \/ w.pc = "fill"
           f == [e EXCEPT !.missed = x]
<1>1. Keeps(w, v) /\ Keeps(w, e) /\ e.missed = w.missed
  BY StoreKeeps, SetKeeps DEF Expose, Record, Fields
<1>2. Opened(w) = Goto(v, "show")
  BY DEF Opened
<1>3. Exposed(w) = Sub(f, "look", 0, "entry")
  BY <1>1 DEF Exposed
<1> HIDE DEF v, e, x
<1>4. Keeps(e, f)
  BY <1>1, StoreKeeps DEF Keeps
<1> HIDE DEF f
<1>5. Busy(Goto(v, "show"))
  BY <1>1, GotoBusy DEF Keeps
<1>6. Busy(Sub(f, "look", 0, "entry"))
  BY <1>4, SubBusy DEF Keeps
<1>7. QED
  BY <1>2, <1>3, <1>5, <1>6

LEMMA ChosenBusy ==
  ASSUME NEW w, Record(w), Turned(w.turn)
  PROVE  Busy(Chosen(w))
<1>1. \/ Chosen(w) = Goto(w, "done")
      \/ \E o : \/ Chosen(w) = Sub(w, "hide", o, "show")
                \/ Chosen(w) = Sub(w, "raise", o, "show")
  BY DEF Chosen
<1>2. Busy(Goto(w, "done"))
  BY GotoBusy
<1>3. \A o : Busy(Sub(w, "hide", o, "show")) /\ Busy(Sub(w, "raise", o, "show"))
  BY SubBusy
<1>4. QED
  BY <1>1, <1>2, <1>3

LEMMA HiddenBusy ==
  ASSUME NEW w, Record(w), Turned(w.turn)
  PROVE  Busy(Hidden(w))
<1> DEFINE o == w.turn.obj
           b == [w.obj EXCEPT ![o].flags = Toggle(@, "visible")]
           v == [w EXCEPT !.obj = b]
           g == Ghost(v, o)
<1>1. Hidden(w) = Goto(g, "hidden")
  BY DEF Hidden
<1> HIDE DEF b
<1>2. Keeps(w, v)
  BY StoreKeeps
<1> HIDE DEF v
<1>3. Keeps(v, g)
  BY <1>2, GhostKeeps DEF Keeps
<1> HIDE DEF g
<1>4. QED
  BY <1>1, <1>2, <1>3, GotoBusy DEF Keeps

LEMMA SubmittedBusy ==
  ASSUME NEW w, Record(w), Turned(w.turn)
  PROVE  Busy(Submitted(w))
<1> DEFINE o == w.turn.obj
           b == [w.obj EXCEPT ![o].flags = Toggle(@, "hide")]
           x == w.missed \/ Has(w, o, "hide")
           v == [w EXCEPT !.obj = b]
           m == [v EXCEPT !.missed = x]
           g == Ghost(m, o)
<1>1. Submitted(w) = Sub(g, "look", 0, "done")
  <2>1. [w EXCEPT !.obj[o].flags = Toggle(@, "hide"),
                  !.missed = @ \/ Has(w, o, "hide")] = m
    <3>1. [w EXCEPT !.obj[o].flags = Toggle(@, "hide"),
                    !.missed = @ \/ Has(w, o, "hide")] = [w EXCEPT !.obj = b, !.missed = x]
      OBVIOUS
    <3> HIDE DEF b, x
    <3>2. [w EXCEPT !.obj = b, !.missed = x] = m
      BY DEF Record, Fields
    <3>3. QED
      BY <3>1, <3>2
  <2>2. QED
    BY <2>1 DEF Submitted
<1> HIDE DEF b, x
<1>2. Keeps(w, v)
  BY StoreKeeps
<1> HIDE DEF v
<1>3. Keeps(v, m)
  BY <1>2, StoreKeeps DEF Keeps
<1> HIDE DEF m
<1>4. Keeps(m, g)
  BY <1>3, GhostKeeps DEF Keeps
<1> HIDE DEF g
<1>5. QED
  BY <1>1, <1>4, SubBusy DEF Keeps

LEMMA RaisedBusy ==
  ASSUME NEW w, Record(w), Turned(w.turn)
  PROVE  Busy(Raised(w))
<1> DEFINE o == w.turn.obj
           v == [w EXCEPT !.active = o]
           g == Ghost(v, o)
<1>1. Raised(w) = Goto(g, "search")
  BY DEF Raised
<1> HIDE DEF o
<1>2. Keeps(w, v)
  BY StoreKeeps
<1> HIDE DEF v
<1>3. Keeps(v, g)
  BY <1>2, GhostKeeps DEF Keeps
<1> HIDE DEF g
<1>4. QED
  BY <1>1, <1>2, <1>3, GotoBusy DEF Keeps

LEMMA LookedBusy ==
  ASSUME NEW w, Record(w), Turned(w.turn)
  PROVE  Busy(Looked(w))
<1> DEFINE x == Activate(w).active
           u == [w.turn EXCEPT !.obj = x, !.at = "focus"]
<1>1. Looked(w) = [w EXCEPT !.turn = u]
  BY DEF Looked
<1> HIDE DEF x
<1>2. u.at = "focus"
  BY DEF Turned, Turning
<1> HIDE DEF u
<1>3. Looked(w).turn = u
  BY <1>1 DEF Record, Fields
<1>4. QED
  BY <1>2, <1>3 DEF Busy

LEMMA FocusedBusy ==
  ASSUME NEW w, Record(w), Turned(w.turn), w.turn.at = "focus"
  PROVE  Busy(Focused(w))
<1> DEFINE o == w.turn.obj
           v == [w EXCEPT !.active = o]
           g == Ghost(v, o)
<1>1. Focused(w) = Return(g)
  BY DEF Focused
<1> HIDE DEF o
<1>2. Keeps(w, v)
  BY StoreKeeps
<1> HIDE DEF v
<1>3. Keeps(v, g)
  BY <1>2, GhostKeeps DEF Keeps
<1> HIDE DEF g
<1>4. QED
  BY <1>1, <1>2, <1>3, ReturnBusy DEF Keeps

LEMMA SearchedBusy ==
  ASSUME NEW w, Record(w), Turned(w.turn), w.turn.at = "search"
  PROVE  Busy(Searched(w))
<1>1. \/ Searched(w) = Return(w)
      \/ \E p : Searched(w) = [w EXCEPT !.turn = [w.turn EXCEPT !.at = "shift", !.hole = p]]
  BY DEF Searched
<1>2. Busy(Return(w))
  BY ReturnBusy
<1>3. ASSUME NEW p PROVE Busy([w EXCEPT !.turn = [w.turn EXCEPT !.at = "shift", !.hole = p]])
  <2> DEFINE u == [w.turn EXCEPT !.at = "shift", !.hole = p]
  <2>1. u.at = "shift"
    BY DEF Turned, Turning
  <2> HIDE DEF u
  <2>2. [w EXCEPT !.turn = u].turn = u
    BY DEF Record, Fields
  <2>3. Busy([w EXCEPT !.turn = u])
    BY <2>1, <2>2 DEF Busy
  <2>4. QED
    BY <2>3 DEF u
<1>4. QED
  BY <1>1, <1>2, <1>3

LEMMA ShiftedBusy ==
  ASSUME NEW w, Record(w), Turned(w.turn), w.turn.at = "shift"
  PROVE  Busy(Shifted(w))
<1> DEFINE i == w.turn.hole
           l == [w.list EXCEPT ![i] = w.list[i + 1]]
           u == [w.turn EXCEPT !.hole = i + 1]
           t == [w.turn EXCEPT !.hole = 0, !.at = w.turn.then]
           n == Whole(w)
<1>1. \/ Shifted(w) = [w EXCEPT !.list = l, !.turn = u]
      \/ Shifted(w) = [w EXCEPT !.list = n, !.turn = t]
  BY DEF Shifted
<1> HIDE DEF l, n, i
<1>2. u.at = "shift" /\ t.at \in {"open", "show", "entry", "done"}
  BY DEF Turned, Turning
<1> HIDE DEF u, t
<1>3. Shifted(w).turn \in {u, t}
  BY <1>1 DEF Record, Fields
<1>4. QED
  BY <1>2, <1>3 DEF Busy

LEMMA ShowedBusy ==
  ASSUME NEW w, Record(w), Turned(w.turn)
  PROVE  Busy(Showed(w))
<1> DEFINE o == w.turn.obj
           s == Set(w, o, {"visible", "flush"})
           g == Ghost(s, o)
           c == Set(g, Cursor, {"flush"})
<1>1. Showed(w) \in {Goto(g, "entry"), Goto(c, "done")}
  BY DEF Showed
<1> HIDE DEF o
<1>2. Keeps(w, s)
  BY SetKeeps
<1> HIDE DEF s
<1>3. Keeps(s, g)
  BY <1>2, GhostKeeps DEF Keeps
<1> HIDE DEF g
<1>4. Keeps(g, c)
  BY <1>3, SetKeeps DEF Keeps
<1> HIDE DEF c
<1>5. Busy(Goto(g, "entry"))
  BY <1>2, <1>3, GotoBusy DEF Keeps
<1>6. Busy(Goto(c, "done"))
  BY <1>2, <1>3, <1>4, GotoBusy DEF Keeps
<1>7. QED
  BY <1>1, <1>5, <1>6

LEMMA ThreadsTell ==
  ASSUME WindowsInv, BarInv, Threads, wm.pc # "init", Sane
  PROVE  BarInv'
<1>1. Good(wm, Gone) /\ Told(wm)
  BY DEF WindowsInv, DeskInv, Kept, Fine, Sane, BarInv
<1>2. /\ Record(wm) /\ Turned(wm.turn) /\ Fine(wm, Gone) /\ Sound(wm, Gone)
      /\ wm.turn.at # "shift" => wm.turn.hole = 0
  BY <1>1, TurnIs
<1>3. ASSUME NEW v, wm' = v, Busy(v) PROVE BarInv'
  BY <1>3, ToldNext DEF Told, Agrees
<1>4. ASSUME NEW v, Sound(v, Gone), wm' = Listed(v) PROVE BarInv'
  <2>1. Told(Listed(v))
    BY <1>4, ListedShows DEF Told
  <2>2. QED
    BY <1>4, <2>1, ToldNext
<1>5. ASSUME wm.turn.at \in {"idle", "clear"}, wm' = Reloaded(wm) \/ wm' = Cleared(wm)
      PROVE  BarInv'
  <2>1. Told(Reloaded(wm)) /\ Told(Cleared(wm))
    BY <1>1, <1>2, <1>5, ClearedTold DEF Busy
  <2>2. QED
    BY <1>5, <2>1, ToldNext
<1>6. CASE TaskbarClick
  BY <1>2, <1>3, <1>6, ClickedBusy DEF TaskbarClick
<1>7. CASE TaskbarMenu
  BY <1>2, <1>3, <1>7, MenuBusy DEF TaskbarMenu, Step
<1>8. CASE TaskbarEntry
  <2>1. CASE Step("entry", Chosen(wm))
    BY <1>2, <1>3, <2>1, ChosenBusy DEF Step
  <2>2. CASE Step("hide", Hidden(wm))
    BY <1>2, <1>3, <2>2, HiddenBusy DEF Step
  <2>3. CASE Step("hidden", Submitted(wm))
    BY <1>2, <1>3, <2>3, SubmittedBusy DEF Step
  <2>4. CASE Step("raise", Raised(wm))
    BY <1>2, <1>3, <2>4, RaisedBusy DEF Step
  <2>5. CASE Step("done", Listed([wm EXCEPT !.bar = TRUE]))
    <3> DEFINE v == [wm EXCEPT !.bar = TRUE]
    <3>1. Sound(v, Gone)
      BY <1>1, FineBar DEF Good
    <3>2. wm' = Listed(v)
      BY <2>5 DEF Step
    <3> HIDE DEF v
    <3>3. QED
      BY <1>4, <3>1, <3>2
  <2>6. QED
    BY <1>8, <2>1, <2>2, <2>3, <2>4, <2>5 DEF TaskbarEntry
<1>9. CASE TaskbarObject
  <2>1. CASE Step("look", Looked(wm))
    BY <1>2, <1>3, <2>1, LookedBusy DEF Step
  <2>2. CASE Step("focus", Focused(wm))
    BY <1>2, <1>3, <2>2, FocusedBusy DEF Step
  <2>3. CASE Step("search", Searched(wm))
    BY <1>2, <1>3, <2>3, SearchedBusy DEF Step
  <2>4. CASE Step("shift", Shifted(wm))
    BY <1>2, <1>3, <2>4, ShiftedBusy DEF Step
  <2>5. CASE Step("show", Showed(wm))
    BY <1>2, <1>3, <2>5, ShowedBusy DEF Step
  <2>6. QED
    BY <1>9, <2>1, <2>2, <2>3, <2>4, <2>5 DEF TaskbarObject
<1>10. CASE TaskbarList
  <2>1. CASE Step("idle", Listed(wm))
    BY <1>2, <1>4, <2>1 DEF Step
  <2>2. CASE Step("clear", Cleared(wm))
    BY <1>5, <2>2 DEF Step
  <2>3. QED
    BY <1>10, <2>1, <2>2 DEF TaskbarList
<1>11. CASE TaskbarClock
  BY <1>5, <1>11 DEF TaskbarClock
<1>12. CASE MenuClick
  BY <1>1, <1>12, ToldNext DEF MenuClick
<1>13. QED
  BY <1>6, <1>7, <1>8, <1>9, <1>10, <1>11, <1>12 DEF Threads

LEMMA ClientsTell ==
  ASSUME WindowsInv, BarInv, Clients, wm.pc # "init", Sane
  PROVE  BarInv'
<1>1. PICK c \in Client : \/ Ask(c) \/ Name(c) \/ Close(c) \/ ClientClick(c) \/ End(c)
                          \/ Redraw(c)
  BY DEF Clients
<1>2. Told(wm) /\ Agrees(wm)
  BY DEF BarInv, Told, Sane
<1>3. ASSUME wm' = wm PROVE BarInv'
  BY <1>2, <1>3, ToldNext
<1>4. ASSUME NEW o \in WindowOf(c), NEW b, b.pid = wm.obj[o].pid,
             b.flags = wm.obj[o].flags, wm' = [wm EXCEPT !.obj[o] = b]
      PROVE  BarInv'
  <2>1. Good(wm, Gone) /\ o \in Used(wm.obj)
    BY WindowIs DEF WindowsInv
  <2>2. o # Taskbar
    <3>1. Kind(o, wm.obj[o], Gone)
      BY <2>1, KindOf DEF Good, Used
    <3>2. QED
      BY <3>1, WindowsAssumption DEF Kind, WindowOf
  <2> DEFINE v == [wm EXCEPT !.obj[o] = b]
  <2>3. v = [wm EXCEPT !.obj[o] = b] /\ wm' = v
    BY <1>4
  <2> HIDE DEF v
  <2>4. Agrees(v)
    BY <1>2, <1>4, <2>1, <2>2, <2>3, AskedAgrees
  <2>5. QED
    BY <2>3, <2>4, ToldNext DEF Told
<1>5. CASE Ask(c) \/ Name(c) \/ Close(c) \/ End(c)
  BY <1>3, <1>5 DEF Ask, Name, Close, End
<1>6. CASE ClientClick(c)
  <2>1. PICK o \in WindowOf(c) :
          \/ wm' = wm
          \/ wm' = [wm EXCEPT !.obj[o].request = @ \union {"minimize"}]
    BY <1>6 DEF ClientClick
  <2>2. CASE wm' = wm
    BY <1>3, <2>2
  <2>3. CASE wm' = [wm EXCEPT !.obj[o].request = @ \union {"minimize"}]
    <3> DEFINE b == [wm.obj[o] EXCEPT !.request = @ \union {"minimize"}]
    <3>1. Shaped(wm.obj[o])
      BY WindowIs DEF WindowsInv
    <3>2. b.pid = wm.obj[o].pid /\ b.flags = wm.obj[o].flags
      BY <3>1 DEF Shaped, ObjFields
    <3>3. wm' = [wm EXCEPT !.obj[o] = b]
      BY <2>3
    <3> HIDE DEF b
    <3>4. QED
      BY <1>4, <3>2, <3>3
  <2>4. QED
    BY <2>1, <2>2, <2>3
<1>7. CASE Redraw(c)
  <2>1. PICK o \in WindowOf(c) :
          wm' = [wm EXCEPT !.obj[o] = [wm.obj[o] EXCEPT !.look = 1 - @,
                                                       !.request = @ \union {"flush"}]]
    BY <1>7 DEF Redraw
  <2> DEFINE b == [wm.obj[o] EXCEPT !.look = 1 - @, !.request = @ \union {"flush"}]
  <2>2. Shaped(wm.obj[o])
    BY WindowIs DEF WindowsInv
  <2>3. b.pid = wm.obj[o].pid /\ b.flags = wm.obj[o].flags
    BY <2>2 DEF Shaped, ObjFields
  <2>4. wm' = [wm EXCEPT !.obj[o] = b]
    BY <2>1
  <2> HIDE DEF b
  <2>5. QED
    BY <1>4, <2>3, <2>4
<1>8. QED
  BY <1>1, <1>5, <1>6, <1>7

LEMMA BarInvStep ==
  ASSUME WindowsInv, BarInv, [WindowsNext]_WindowsVars
  PROVE  BarInv'
<1>1. ASSUME UNCHANGED desktop PROVE BarInv'
  <2>1. wm' = wm
    BY <1>1 DEF desktop
  <2>2. CASE wm.pc = "init"
    BY <2>1, <2>2 DEF BarInv
  <2>3. CASE wm.pc # "init"
    BY <2>1, <2>3, ToldNext DEF BarInv
  <2>4. QED
    BY <2>2, <2>3
<1>2. ASSUME WindowsNext PROVE BarInv'
  <2>1. Sane
    BY <1>2 DEF WindowsNext
  <2>2. CASE UNCHANGED desktop
    BY <1>1, <2>2
  <2>3. CASE Event
    BY <2>1, <2>3, EventTells
  <2>4. CASE Begin \/ Objects \/ Zone \/ Draw
    BY <2>4, PhasesTell
  <2>5. CASE wm.pc # "init" /\ Threads
    BY <2>1, <2>5, ThreadsTell
  <2>6. CASE wm.pc # "init" /\ Clients
    BY <2>1, <2>6, ClientsTell
  <2>7. QED
    BY <1>2, <2>2, <2>3, <2>4, <2>5, <2>6 DEF WindowsNext, Manager
<1>3. QED
  BY <1>1, <1>2 DEF WindowsVars, desktop

LEMMA InvTaskbar == WindowsInv /\ BarInv => TaskbarShowsWindows
<1> SUFFICES ASSUME WindowsInv, BarInv, Quiet, ~ wm.ghost, ~ wm.bar, ~ Overtaken
             PROVE  /\ wm.elements = Listed(wm).elements
                    /\ wm.obj[Taskbar].look = Listed(wm).obj[Taskbar].look
  BY DEF TaskbarShowsWindows
<1>1. wm.pc = "event" /\ wm.turn = NoTurn /\ ~ wm.asked
  BY DEF Quiet, Overtaken
<1>2. Good(wm, Gone) /\ List(wm.list) /\ Names(wm.list) = Used(wm.obj)
  <2>1. Good(wm, Gone)
    BY <1>1, UpIsGood DEF Up
  <2>2. Laid(wm.list, wm.turn, Used(wm.obj)) /\ wm.turn.hole = 0
    BY <1>1, <2>1 DEF Good, Sound, NoTurn
  <2>3. QED
    BY <2>1, <2>2, OrderIs
<1>3. ~ Doomed(wm)
  <2> SUFFICES ASSUME NEW o \in Index, "destroy" \in wm.obj[o].flags PROVE FALSE
    BY DEF Doomed
  <2>1. o \in Used(wm.obj)
    BY DEF Used
  <2>2. PICK p \in DOMAIN wm.list : wm.list[p] = o
    BY <1>2, <2>1 DEF Names, Contains, List
  <2>3. wm.obj[o].flags \intersect {"hide", "destroy"} = {}
    BY <2>2 DEF Quiet
  <2>4. QED
    BY <2>3
<1>4. Current(wm)
  BY <1>1, <1>3 DEF BarInv, Told, Agrees, Busy, NoTurn
<1>5. Current(Listed(wm)) /\ Sound(wm, Gone)
  BY <1>2, ListedShows DEF Good
<1>6. /\ Shown(Listed(wm)) = Shown(wm) /\ Looks(Listed(wm)) = Looks(wm)
  BY <1>5, ListedShows
<1>7. QED
  BY <1>4, <1>5, <1>6 DEF Current

(* Whatever is raised, hidden, closed or left behind, by the user, by the  *)
(* programs or by the thread, when nothing is left to be done the taskbar  *)
(* has an entry for every window there is, shown as it is, or is about to  *)
(* be drawn again, or the last request came between the list of windows    *)
(* and the store that takes requests back: every change is asked for, and  *)
(* no request but one that is overtaken in that way is lost                *)
(* (taskbar.c:71-114, object.c:5-80, event.c:5-237).                       *)
THEOREM TaskbarStaysCurrent == WindowsSpec => []TaskbarShowsWindows
<1>1. WindowsInit => BarInv
  BY DEF WindowsInit, Blank, BarInv
<1>2. WindowsInv /\ BarInv /\ [WindowsNext]_WindowsVars => BarInv'
  BY BarInvStep
<1>3. WindowsSpec => []BarInv
  BY <1>1, <1>2, WindowsInvariant, PTL DEF WindowsSpec
<1>4. QED
  BY <1>3, InvTaskbar, WindowsInvariant, PTL
=============================================================================
