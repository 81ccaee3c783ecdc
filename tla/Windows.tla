------------------------------- MODULE Windows -------------------------------
(***************************************************************************)
(* The window manager, software/wm: the table of objects and the list of   *)
(* them from the bottom to the top, the zones of the screen to be drawn    *)
(* again, the main loop and the threads of the taskbar and of the menu;    *)
(* and its clients, who have their windows from lib_interface_window and   *)
(* share a descriptor with it (library/shared/interface.c).                *)
(*                                                                         *)
(* A phase of the main loop is one step: wm_event, wm_object, wm_zone, and *)
(* wm_fill with wm_sync.  Messages from clients, changes of descriptors    *)
(* and the steps of the threads come between two phases.  The thread of    *)
(* the taskbar shares the list, the table, the zones and the semaphore     *)
(* with the main loop and takes no lock: a step of it is one store.        *)
(* Objects are opaque.                                                     *)
(***************************************************************************)
EXTENDS Input

CONSTANTS
  ObjectLimit,  \* WM_OBJECT_limit
  ZoneLimit,    \* WM_ZONE_limit
  IdMod,        \* the values of an identifier, 2^8
  BarHeight,    \* WM_OBJECT_TASKBAR_HEIGHT_pixel, _ELEMENT_X
  EntryWidth,   \* WM_TASKBAR_ELEMENT_WIDTH_pixel
  ClockWidth,
  Header,       \* LIB_SYS_INTERFACE_HEADER_height_in_pixel
  Controls,     \* the width of the controls, at the end of the header
  Size,         \* <<width, height>> of a window
  Client        \* the programs with a window

(* The mouse is moved gently: for a pointer off the screen, where Input    *)
(* has it go otherwise, wm_object_find looks for an object past the first  *)
(* one of the list (object.c:135), in memory that the manager never wrote. *)
(* The table holds what wm_init makes, and the screen is wide enough for   *)
(* an entry of a pixel for each other object: the list divides by the      *)
(* width of an entry (taskbar.c:94-95).  With 255 objects, and 80 pixels   *)
(* for the button of the menu and the clock, 331 pixels are enough.        *)
ASSUME WindowsAssumption ==
  /\ \A u \in Users : u.motion \subseteq Small
  /\ ObjectLimit \in Nat /\ ObjectLimit >= 4
  /\ BarHeight \in Nat /\ ClockWidth \in Nat /\ EntryWidth \in Nat \ {0}
  /\ Width - ClockWidth - BarHeight >= ObjectLimit - 4
  /\ Client \intersect {"wm", "bar", "menu"} = {}

VARIABLES
  wm,           \* the manager's data, descriptors and picture included
  client,       \* what a client is doing
  requests,     \* messages to the manager
  clicks        \* messages of the mouse, per process

desktop == <<wm, client, requests, clicks>>

Index     == 1 .. ObjectLimit
Workbench == 1
Taskbar   == 2
Cursor    == 3
Menu      == 4
Pixel     == (0 .. Width - 1) \X (0 .. Height - 1)
Off       == <<-1, -1>>

Rect(x, y, w, h) == [x |-> x, y |-> y, w |-> w, h |-> h]
Place(o)     == Rect(o.x, o.y, o.w, o.h)
Covers(r, p) == /\ r.x <= p[1] /\ p[1] < r.x + r.w
                /\ r.y <= p[2] /\ p[2] < r.y + r.h
Overlap(a, b) == /\ a.x < b.x + b.w /\ b.x < a.x + a.w
                 /\ a.y < b.y + b.h /\ b.y < a.y + a.h

NoObject == [flags |-> {}, x |-> 0, y |-> 0, w |-> 0, h |-> 0, id |-> 0,
             pid |-> "none", request |-> {}, pointer |-> Off, look |-> 0]

Set(w, o, flags)   == [w EXCEPT !.obj[o].flags = @ \union flags]
Clear(w, o, flags) == [w EXCEPT !.obj[o].flags = @ \ flags]
Notify(w)          == [w EXCEPT !.bar = TRUE, !.asked = TRUE]
Has(w, o, flag)    == flag \in w.obj[o].flags
Toggle(set, flag)  == IF flag \in set THEN set \ {flag} ELSE set \union {flag}

-----------------------------------------------------------------------------
(* wm_zone_insert: what is off the screen, or above the limit of the list, *)
(* is not inserted.  A zone is cut on the left or on the right, not both.  *)
Cut(at, length, edge) ==
  CASE at < 0 -> <<0, length + at>>
    [] at >= 0 /\ at + length >= edge -> <<at, edge - at>>
    [] OTHER -> <<at, length>>

ZoneInsert(zones, r, o) ==
  LET x == Cut(r.x, r.w, Width)
      y == Cut(r.y, r.h, Height)
  IN IF ~ Overlap(r, Rect(0, 0, Width, Height)) \/ Len(zones) = ZoneLimit THEN zones
     ELSE Append(zones, [in |-> Rect(x[1], y[1], x[2], y[2]), obj |-> o])

Expose(w, o) == [w EXCEPT !.zones = ZoneInsert(@, Place(w.obj[o]), 0)]

(* wm_zone: to a zone without an object are added its parts that belong to *)
(* the visible objects, from the bottom to the top.                        *)
Max2(a, b) == IF a > b THEN a ELSE b
Min2(a, b) == IF a < b THEN a ELSE b

Common(a, b) ==
  LET x == Max2(a.x, b.x)  y == Max2(a.y, b.y)
  IN Rect(x, y, Min2(a.x + a.w, b.x + b.w) - x, Min2(a.y + a.h, b.y + b.h) - y)

Split(w, zones, zone) ==
  FoldLeft(LAMBDA zs, o :
             IF Has(w, o, "visible") /\ Overlap(w.obj[o], zone.in)
             THEN ZoneInsert(zs, Common(zone.in, w.obj[o]), o) ELSE zs,
           zones, w.list)

Zones(w) ==
  FoldLeft(LAMBDA zs, zone : IF zone.obj = 0 THEN Split(w, zs, zone) ELSE zs,
           w.zones, w.zones)

(* wm_fill, and wm_sync: the screen shows what was filled. *)
Fill(w, picture, zone) ==
  IF zone.obj = 0 THEN picture
  ELSE [p \in Pixel |->
          IF Covers(zone.in, p) THEN <<w.obj[zone.obj].id, w.obj[zone.obj].look>>
                                ELSE picture[p]]

Filled(w) ==
  [w EXCEPT !.picture = FoldLeft(LAMBDA p, zone : Fill(w, p, zone), @, w.zones),
            !.zones = <<>>]

Drawn(w) == Filled([w EXCEPT !.zones = Zones(w)])

-----------------------------------------------------------------------------
(* The list of objects.  While the thread of the taskbar moves an object   *)
(* up, the others go back one position at a time: one of them is twice on  *)
(* the list, the second time where the moved one is missing.               *)
Whole(w) == IF w.turn.hole = 0 THEN w.list
            ELSE [w.list EXCEPT ![w.turn.hole] = w.turn.obj]

(* The main loop changes the list meanwhile: what becomes of it is not     *)
(* followed (history).                                                     *)
Tear(w) == IF w.turn.hole = 0 THEN w ELSE [w EXCEPT !.ghost = TRUE]

Above(w, o) == Has(w, o, "arbiter") \/ Has(w, o, "cursor")

(* Mutant: nothing becomes active instead of an object that is removed. *)
ActivateNone(w) == w

(* wm_object_activate: the highest visible object below the taskbar. *)
Activate(w) ==
  LET bar == {p \in DOMAIN w.list : Has(w, w.list[p], "arbiter")}
      up  == {p \in DOMAIN w.list : /\ Has(w, w.list[p], "visible")
                                     /\ \A q \in bar : p < q}
  IN IF up = {} THEN w
     ELSE [w EXCEPT !.active = w.list[CHOOSE p \in up : \A q \in up : q <= p]]

(* wm_object_insert: before the taskbar and the cursor. *)
Insert(w, o) ==
  LET above == {p \in DOMAIN w.list : Above(w, w.list[p]) /\ ~ Has(w, o, "cursor")}
      at    == IF above = {} THEN Len(w.list) + 1
               ELSE CHOOSE p \in above : \A q \in above : p <= q
  IN [Tear(w) EXCEPT !.list = InsertAt(@, at, o)]

(* wm_object_create: in the first free entry; there may be none. *)
Free(w) == {o \in Index : w.obj[o].flags = {}}

Create(w, x, y, width, height, flags, pid) ==
  LET o    == CHOOSE i \in Free(w) : \A j \in Free(w) : i <= j
      id   == (w.ids + 1) % IdMod
      made == [w EXCEPT
                 !.obj[o] = [NoObject EXCEPT !.flags = flags \union {"exist"},
                   !.x = x, !.y = y, !.w = width, !.h = height, !.id = id, !.pid = pid],
                 !.ids = id, !.active = o]
  IN IF Free(w) = {} THEN [w EXCEPT !.pc = "crash"] ELSE Insert(made, o)

Without(list, o) == RemoveAt(list, CHOOSE p \in DOMAIN list : list[p] = o)

(* Mutant: an object is moved above the taskbar and the cursor too. *)
MoveAbove(w, o) ==
  [w EXCEPT !.list = IF Contains(@, o) THEN Append(Without(@, o), o) ELSE @]

(* wm_object_move_up *)
MoveUp(w, o) ==
  IF Contains(w.list, o)
  THEN Insert([w EXCEPT !.list = Without(@, o)], o) ELSE w

(* wm_object_remove: one entry less, listed or not. *)
RemoveObject(w, o) ==
  [Tear(w) EXCEPT
     !.obj[o].flags = {},
     !.list = IF Contains(@, o) THEN Without(@, o) ELSE Front(@)]

(* wm_object_by_id; 0 if there is none. *)
ById(w, id) ==
  LET at == {p \in DOMAIN w.list : w.obj[w.list[p]].id = id} IN
  IF at = {} THEN 0 ELSE w.list[CHOOSE p \in at : \A q \in at : p <= q]

(* wm_object_find: the workbench is everywhere. *)
Find(w, x, y) ==
  LET at == {p \in DOMAIN w.list : /\ Has(w, w.list[p], "visible")
                                    /\ ~ Has(w, w.list[p], "cursor")
                                    /\ Covers(w.obj[w.list[p]], <<x, y>>)}
  IN w.list[CHOOSE p \in at : \A q \in at : q <= p]

(* wm_object_fragile *)
Fragile(w) ==
  [w EXCEPT
     !.obj = [o \in Index |-> IF Contains(w.list, o) /\ Has(w, o, "fragile")
                              THEN [w.obj[o] EXCEPT !.flags = @ \ {"visible"}]
                              ELSE w.obj[o]],
     !.zones = FoldLeft(LAMBDA zs, o : IF Has(w, o, "fragile")
                                       THEN ZoneInsert(zs, Place(w.obj[o]), 0) ELSE zs,
                        w.zones, w.list)]

(* Mutant: to the left, the strip begins where the object does. *)
StripLeft(at, length, by) == IF by > 0 THEN <<at, by>> ELSE <<at + by, -by>>

(* wm_object_move: the strips that the object leaves are exposed. *)
Strip(at, length, by) ==
  IF by > 0 THEN <<at, by>> ELSE <<at + by + length, -by>>

Move(w, o, dx, dy) ==
  LET old == w.obj[o]
      x   == Strip(old.x, old.w, dx)
      y   == Strip(old.y, old.h, dy)
      zs  == IF dx = 0 THEN w.zones
             ELSE ZoneInsert(w.zones, Rect(x[1], old.y, x[2], old.h), 0)
      all == IF dy = 0 THEN zs ELSE ZoneInsert(zs, Rect(old.x + dx, y[1], old.w, y[2]), 0)
  IN IF Has(w, o, "fixed_xy") THEN w
     ELSE Set([w EXCEPT !.zones = all, !.obj[o] = [old EXCEPT !.x = @ + dx, !.y = @ + dy]],
              o, {"flush"})

(* An entry that was released is written to, so that it is lost, or is     *)
(* made active (history).                                                  *)
Ghost(w, o) == [w EXCEPT !.ghost = @ \/ ~ Contains(Whole(w), o)]

-----------------------------------------------------------------------------
(* wm_event.  First a message: a window is made, where its parent is or in *)
(* the middle, and its identifier and descriptor go to the client; or it   *)
(* gets its name; or it is closed by its owner.                            *)
Middle(length, of) == (of \div 2) - (length \div 2)

Message(w) ==
  LET m == Head(requests)
      o == ById(w, m.id)
      at == IF o # 0 THEN <<w.obj[o].x, w.obj[o].y>>
            ELSE <<Middle(Size[1], Width), Middle(Size[2], Height)>>
      new == Create(w, at[1], at[2], Size[1], Size[2], {"visible", "flush"}, m.from)
      closed == IF o = 0 THEN [w EXCEPT !.pc = "crash"]
                ELSE IF w.obj[o].pid # m.from THEN w
                ELSE Notify(Activate(RemoveObject(Expose(w, o), o)))
  IN IF requests = <<>> THEN w
     ELSE IF m.fn = "create" THEN Notify(new)
     ELSE IF m.fn = "close" THEN closed
     ELSE IF o = 0 THEN w ELSE Notify(w)

(* Then a key: of Alt, and Tab with it, which raises the lowest window.    *)
Own(w, o) == w.obj[o].pid = "wm" \/ Has(w, o, "arbiter") \/ Has(w, o, "menu")

Lowest(w) ==
  LET at == {p \in DOMAIN w.list : ~ Own(w, w.list[p])}
  IN IF at = {} THEN 0 ELSE w.list[CHOOSE p \in at : \A q \in at : p <= q]

Raise(w) ==
  IF Lowest(w) = 0 THEN w
  ELSE Notify(Activate(Set(MoveUp(w, Lowest(w)), Lowest(w), {"visible", "flush"})))

Keyboard(w, key) ==
  IF key \in {<<"alt", TRUE>>, <<"alt", FALSE>>} THEN [w EXCEPT !.alt = key[2]]
  ELSE IF key = <<"tab", TRUE>> /\ w.alt THEN Raise(w) ELSE w

(* Then the mouse: where the pointer is in every visible object, up to the *)
(* test on the x axis, which adds the movement on the y axis.              *)
Pointed(w, x, y) ==
  LET cursor == w.obj[Cursor]
      dy     == y - cursor.y
      At(o)  == <<IF cursor.x + dy >= o.x /\ x < o.x + o.w THEN x - o.x ELSE -1,
                  IF y >= o.y /\ y < o.y + o.h THEN y - o.y ELSE -1>>
  IN [w EXCEPT !.obj = [o \in Index |->
        IF Contains(w.list, o) /\ Has(w, o, "visible")
        THEN [@[o] EXCEPT !.pointer = At(w.obj[o])] ELSE @[o]]]

(* The left button goes down: the object under the pointer is selected,    *)
(* raised and active, and its owner gets a message.                        *)
InHeader(w, o, dx, dy) ==
  /\ w.obj[Cursor].y - (w.obj[o].y + dy) < Header
  /\ w.obj[Cursor].x - (w.obj[o].x + dx) < w.obj[o].w - Controls

Picked(w, o) == Notify([w EXCEPT !.held = TRUE, !.selected = o])

ToFront(w, o) ==
  IF Has(w, o, "fixed_z") \/ w.alt THEN w
  ELSE Set(Set(MoveUp(w, o), o, {"flush"}), Cursor, {"flush"})

Focus(w, o) == IF w.alt \/ o = Taskbar THEN w ELSE [w EXCEPT !.active = o]

Press(w, x, y) ==
  LET o == Find(w, x, y)
      v == Focus(ToFront(Picked(w, o), o), o)
      u == IF InHeader(w, o, x - w.obj[Cursor].x, y - w.obj[Cursor].y)
           THEN [v EXCEPT !.header = TRUE] ELSE v
  IN IF o = Taskbar THEN u ELSE Fragile(u)

Button(w, x, y, left) ==
  IF ~ left THEN [w EXCEPT !.held = FALSE, !.header = FALSE]
  ELSE IF w.held THEN w ELSE Press(w, x, y)

(* The pointer moved: the cursor goes with it, and the object it drags, as *)
(* long as that stays above the taskbar.                                   *)
Drag(w, x, y) ==
  LET dx == x - w.obj[Cursor].x
      dy == y - w.obj[Cursor].y
      o  == w.selected
      v  == Set([Expose(w, Cursor) EXCEPT !.obj[Cursor] = [@ EXCEPT !.x = x, !.y = y]],
                Cursor, {"flush"})
      drags == /\ o # 0 /\ w.held /\ (w.header \/ w.alt)
               /\ w.obj[o].y + dy < w.obj[Taskbar].y - BarHeight
  IN IF dx = 0 /\ dy = 0 THEN w
     ELSE IF drags THEN Ghost(Move(v, o, dx, dy), o) ELSE v

Pointer(w) ==
  LET left == "left" \in mouse.status
      v    == Button(Pointed(w, mouse.x, mouse.y), mouse.x, mouse.y, left)
  IN [Drag(v, mouse.x, mouse.y) EXCEPT !.x = mouse.x]

(* The first client that is not used is executed. *)
Executed(cs) ==
  LET free == {c \in Client : cs[c] = "none"} IN
  IF free = {} THEN cs ELSE [cs EXCEPT ![CHOOSE c \in free : TRUE] = "starting"]

Answered(cs) ==
  IF requests # <<>> /\ Head(requests).fn = "create"
  THEN [cs EXCEPT ![Head(requests).from] = IF @ = "asked" THEN "open" ELSE @] ELSE cs

Event ==
  LET Done(keyed, done) ==
        /\ wm' = IF keyed.pc = "crash" THEN keyed ELSE [done EXCEPT !.pc = "object"]
        /\ clicks' = IF done.held /\ ~ keyed.held
                     THEN [clicks EXCEPT ![done.obj[done.selected].pid] = @ + 1]
                     ELSE clicks
      Keyed(keyed) == Done(keyed, Pointer(keyed))
  IN /\ wm.pc = "event"
     /\ KeyReturn
     /\ Keyed(Keyboard(Message(wm), KeyCall))
     /\ requests' = IF requests = <<>> THEN <<>> ELSE Tail(requests)
     /\ client' = IF KeyCall = <<"\\", TRUE>> THEN Executed(Answered(client))
                  ELSE Answered(client)
     /\ UNCHANGED <<user, mouse, typed>>

-----------------------------------------------------------------------------
(* wm_object, for one object: first what was asked for it, *)
Minimized(w, o) ==
  Notify(Activate([Expose(w, o) EXCEPT
                     !.obj[o] = [w.obj[o] EXCEPT
                       !.flags = Toggle(@ \ {"visible"}, "hide"),
                       !.request = @ \ {"minimize"}]]))

Flushed(w, o) ==
  [Expose(w, o) EXCEPT
     !.obj[o] = [w.obj[o] EXCEPT !.flags = Toggle(@, "hide") \ {"flush"},
                                 !.request = @ \ {"flush"}]]

Destroyed(w, o) ==
  IF Has(w, o, "visible") THEN Activate(Expose(Clear(w, o, {"visible"}), o))
  ELSE RemoveObject(w, o)

Updated(w, o) ==
  LET x == w.obj[o]
      flush == \/ "hide" \in x.flags
               \/ "visible" \in x.flags /\ "flush" \in x.flags \union x.request
  IN IF "minimize" \in x.request THEN Minimized(w, o)
     ELSE IF flush THEN Flushed(w, o)
     ELSE IF "destroy" \in x.flags THEN Destroyed(w, o) ELSE w

(* then, if its owner is no more, it is hidden in one pass and goes in the *)
(* next.                                                                   *)
Running(pid) == pid \notin Client \/ client[pid] # "ended"

(* Mutant: the taskbar does not hear of it. *)
OrphanedUnseen(w, o) ==
  IF Running(w.obj[o].pid) THEN w
  ELSE IF Has(w, o, "destroy") THEN Activate(RemoveObject(w, o))
  ELSE Ghost([w EXCEPT !.obj[o].flags = (@ \ {"visible"}) \union {"hide", "destroy"}], o)

(* Mutant: it is hidden only. *)
OrphanedHidden(w, o) ==
  IF Running(w.obj[o].pid) THEN w
  ELSE Ghost([w EXCEPT !.obj[o].flags = (@ \ {"visible"}) \union {"hide"}], o)

Orphaned(w, o) ==
  IF Running(w.obj[o].pid) THEN w
  ELSE IF Has(w, o, "destroy") THEN Notify(Activate(RemoveObject(w, o)))
  ELSE Ghost([w EXCEPT !.obj[o].flags = (@ \ {"visible"}) \union {"hide", "destroy"}], o)

Visited(w, i) ==
  IF i > Len(w.list) THEN w ELSE Orphaned(Updated(w, w.list[i]), w.list[i])

Pass(w) ==
  LET after[i \in 0 .. ObjectLimit] == IF i = 0 THEN w ELSE Visited(after[i - 1], i)
  IN after[ObjectLimit]

Objects ==
  /\ wm.pc = "object"
  /\ wm' = [Pass(wm) EXCEPT !.pc = "zone"]
  /\ UNCHANGED <<client, requests, clicks>>

Zone ==
  /\ wm.pc = "zone"
  /\ wm' = [wm EXCEPT !.zones = Zones(wm), !.pc = "fill"]
  /\ UNCHANGED <<client, requests, clicks>>

Draw ==
  /\ wm.pc = "fill"
  /\ wm' = [Filled(wm) EXCEPT !.pc = "event"]
  /\ UNCHANGED <<client, requests, clicks>>

-----------------------------------------------------------------------------
(* wm_thread_taskbar.  The thread is at one of its steps, with an object   *)
(* and, in wm_object_move_up, with the position that the object leaves.    *)
NoTurn == [at |-> "idle", obj |-> 0, hole |-> 0, then |-> "idle"]

Goto(w, at)          == [w EXCEPT !.turn = [@ EXCEPT !.at = at]]
Sub(w, at, obj, end) == [w EXCEPT !.turn = [at |-> at, obj |-> obj, hole |-> 0, then |-> end]]
Return(w)              == Goto(w, w.turn.then)

(* A click: the button of the menu opens the menu, and all else hides it.  *)
Opens(w) == w.x < BarHeight /\ ~ Has(w, Menu, "visible")

Clicked(w) ==
  LET y == w.obj[Taskbar].y - w.obj[Menu].h IN
  IF Opens(w)
  THEN Sub([w EXCEPT !.obj[Menu] = [w.obj[Menu] EXCEPT !.x = 0, !.y = y]],
           "search", Menu, "open")
  ELSE Goto(Clear(w, Menu, {"visible"}), "expose")

Opened(w) == Goto([w EXCEPT !.active = Menu], "show")

(* A zone that comes after those of wm_zone is dropped (fill.c:56).        *)
Exposed(w) ==
  Sub([Expose(w, Menu) EXCEPT !.missed = @ \/ w.pc = "fill"], "look", 0, "entry")

(* wm_object_activate: an object is found, and then it is active.          *)
Looked(w)  == [w EXCEPT !.turn = [@ EXCEPT !.obj = Activate(w).active, !.at = "focus"]]
Focused(w) == Return(Ghost([w EXCEPT !.active = w.turn.obj], w.turn.obj))

(* wm_object_move_up: the object is looked for, and the others go back,    *)
(* one store at a time.                                                    *)
Searched(w) ==
  LET at == {p \in DOMAIN w.list : w.list[p] = w.turn.obj} IN
  IF at = {} THEN Return(w)
  ELSE [w EXCEPT !.turn = [@ EXCEPT !.at = "shift",
                                    !.hole = CHOOSE p \in at : \A q \in at : p <= q]]

Shifts(w) ==
  /\ w.turn.hole < Len(w.list)
  /\ ~ Above(w, w.list[w.turn.hole + 1])

Shifted(w) ==
  LET i == w.turn.hole IN
  IF Shifts(w)
  THEN [w EXCEPT !.list = [@ EXCEPT ![i] = w.list[i + 1]],
                 !.turn = [@ EXCEPT !.hole = i + 1]]
  ELSE [w EXCEPT !.list = Whole(w),
                 !.turn = [@ EXCEPT !.hole = 0, !.at = w.turn.then]]

Showed(w) ==
  LET v == Ghost(Set(w, w.turn.obj, {"visible", "flush"}), w.turn.obj) IN
  IF w.turn.obj = Menu THEN Goto(v, "entry") ELSE Goto(Set(v, Cursor, {"flush"}), "done")

(* The window of the list that was clicked, as it was when it was drawn:   *)
(* the active one is hidden, another one raised.                           *)
Entry(w) == ((w.x - BarHeight) \div w.entry) + 1

Chosen(w) ==
  LET o == w.elements[Entry(w)] IN
  IF w.elements = <<>> \/ w.x < BarHeight THEN Goto(w, "done")
  ELSE IF Entry(w) > Len(w.elements) THEN Goto(w, "done")
  ELSE Sub(w, IF o = w.active THEN "hide" ELSE "raise", o, "show")

Hidden(w) ==
  LET o == w.turn.obj IN
  Goto(Ghost([w EXCEPT !.obj[o].flags = Toggle(@, "visible")], o), "hidden")

(* What waits to be drawn does so no more (history).                       *)
Submitted(w) ==
  LET o == w.turn.obj IN
  Sub(Ghost([w EXCEPT !.obj[o].flags = Toggle(@, "hide"),
                      !.missed = @ \/ Has(w, o, "hide")], o), "look", 0, "done")

Raised(w) ==
  Goto(Ghost([w EXCEPT !.active = w.turn.obj], w.turn.obj), "search")

(* wm_thread_taskbar_list: the windows in the order of the table.  What is *)
(* left over of the width goes to the last entry, and stays in the width.  *)
Ascending(os) ==
  LET upTo[n \in 0 .. ObjectLimit] ==
        IF n = 0 THEN <<>> ELSE IF n \in os THEN Append(upTo[n - 1], n) ELSE upTo[n - 1]
  IN upTo[ObjectLimit]

Listed(w) ==
  LET os == {o \in Index : w.obj[o].flags # {} /\ ~ Own(w, o)}
      es == Ascending(os)
      all == Width - ClockWidth - BarHeight
      each == all \div Len(es)
  IN [w EXCEPT
       !.elements = es,
       !.entry = IF es = <<>> THEN @ ELSE Min2(each, EntryWidth) + (all % each),
       !.obj[Taskbar].look = [o \in os |-> <<Has(w, o, "visible"), o = w.active>>],
       !.asked = FALSE,
       !.turn = [NoTurn EXCEPT !.at = "clear"]]

(* Only then the request is taken back, with one that the main loop made   *)
(* since the list (history: asked), and the taskbar is drawn, as it is     *)
(* when the clock changes.                                                 *)
Reloaded(w) == [Set(w, Taskbar, {"flush"}) EXCEPT !.turn = NoTurn]
Cleared(w)  == [Reloaded(w) EXCEPT !.bar = FALSE]

Step(at, v) ==
  /\ wm.turn.at = at
  /\ wm' = v
  /\ UNCHANGED <<client, requests, clicks>>

TaskbarClick ==
  /\ wm.turn.at = "idle"
  /\ clicks["bar"] > 0
  /\ clicks' = [clicks EXCEPT !["bar"] = @ - 1]
  /\ wm' = Clicked(wm)
  /\ UNCHANGED <<client, requests>>

TaskbarMenu ==
  \/ Step("open", Opened(wm))
  \/ Step("expose", Exposed(wm))

TaskbarEntry ==
  \/ Step("entry", Chosen(wm))
  \/ Step("hide", Hidden(wm))
  \/ Step("hidden", Submitted(wm))
  \/ Step("raise", Raised(wm))
  \/ Step("done", Listed([wm EXCEPT !.bar = TRUE]))

TaskbarObject ==
  \/ Step("look", Looked(wm))
  \/ Step("focus", Focused(wm))
  \/ Step("search", Searched(wm))
  \/ Step("shift", Shifted(wm))
  \/ Step("show", Showed(wm))

TaskbarList ==
  \/ wm.bar /\ Step("idle", Listed(wm))
  \/ Step("clear", Cleared(wm))

(* The clock changed. *)
TaskbarClock ==
  /\ wm.turn.at = "idle"
  /\ user.draws > 0
  /\ user' = [user EXCEPT !.draws = @ - 1]
  /\ wm' = Reloaded(wm)
  /\ UNCHANGED <<client, requests, clicks, mouse, board, reader, typed, read>>

(* wm_thread_menu: the pointer is over a button.                           *)
MenuClick ==
  /\ clicks["menu"] > 0
  /\ clicks' = [clicks EXCEPT !["menu"] = @ - 1]
  /\ client' = IF \A i \in 1 .. 2 : wm.obj[Menu].pointer[i] >= 0
               THEN Executed(client) ELSE client
  /\ UNCHANGED <<wm, requests>>

-----------------------------------------------------------------------------
(* Bound: a user, the one who ends programs too, may wait for the first    *)
(* windows.                                                                *)
Awaited == user.waits => \A c \in user.clients : client[c] \in {"named", "closed", "ended"}

(* A client: lib_interface_window asks for a window, waits for the answer, *)
(* and gives it a name.                                                    *)
WindowOf(c) == {o \in Index : wm.obj[o].flags # {} /\ wm.obj[o].pid = c}
IdOf(c)     == wm.obj[CHOOSE o \in WindowOf(c) : TRUE].id

Becomes(c, from, to) == client[c] = from /\ client' = [client EXCEPT ![c] = to]
Request(c, fn, id)   == requests' = Append(requests, [from |-> c, fn |-> fn, id |-> id])

Ask(c) ==
  /\ Becomes(c, "starting", "asked")
  /\ Request(c, "create", 0)
  /\ UNCHANGED <<wm, clicks>>

Name(c) ==
  /\ Becomes(c, "open", "named")
  /\ Request(c, "rename", IdOf(c))
  /\ UNCHANGED <<wm, clicks>>

(* lib_interface_close *)
Close(c) ==
  /\ c \in user.ends /\ Awaited
  /\ Becomes(c, "named", "closed")
  /\ Request(c, "close", IdOf(c))
  /\ UNCHANGED <<wm, clicks>>

(* lib_interface_event: the pointer is over the control that closes, the   *)
(* last of the header, over the one that minimizes, or elsewhere.          *)
ClientClick(c) ==
  LET At(o)      == wm.obj[o].pointer
      Control(o) == IF At(o)[2] \in 0 .. Header - 1 THEN Size[1] - 1 - At(o)[1] ELSE -1
  IN /\ client[c] = "named"
     /\ clicks[c] > 0
     /\ clicks' = [clicks EXCEPT ![c] = @ - 1]
     /\ \E o \in WindowOf(c) :
          /\ client' = IF Control(o) = 0 THEN [client EXCEPT ![c] = "ended"] ELSE client
          /\ wm' = IF Control(o) \in 1 .. Controls - 1
                   THEN [wm EXCEPT !.obj[o].request = @ \union {"minimize"}] ELSE wm
     /\ UNCHANGED requests

(* The content of its window changes, lib_interface_hover included. *)
Redraw(c) ==
  /\ client[c] = "named"
  /\ user.draws > 0
  /\ user' = [user EXCEPT !.draws = @ - 1]
  /\ \E o \in WindowOf(c) :
       wm' = [wm EXCEPT !.obj[o] = [wm.obj[o] EXCEPT !.look = 1 - @,
                                                     !.request = @ \union {"flush"}]]
  /\ UNCHANGED <<client, requests, clicks, mouse, board, reader, typed, read>>

(* It exits, whatever it is at, if it is one that does. *)
End(c) ==
  /\ c \in user.ends /\ Awaited /\ client[c] \notin {"none", "ended"}
  /\ client' = [client EXCEPT ![c] = "ended"]
  /\ UNCHANGED <<wm, requests, clicks>>

-----------------------------------------------------------------------------
Blank ==
  [obj |-> [o \in Index |-> NoObject], list |-> <<>>, ids |-> 0, active |-> 0,
   selected |-> 0, held |-> FALSE, header |-> FALSE, alt |-> FALSE, zones |-> <<>>,
   picture |-> [p \in Pixel |-> <<0, 0>>], bar |-> FALSE, elements |-> <<>>,
   entry |-> 1, x |-> 0, pc |-> "init", ghost |-> FALSE, missed |-> FALSE,
   asked |-> FALSE, turn |-> NoTurn]

(* wm_init, with what the threads of the taskbar and the menu begin with,  *)
(* up to the first picture.                                                *)
Made ==
  LET bench  == Create(Blank, 0, 0, Width, Height, {"visible", "fixed_z", "fixed_xy"}, "wm")
      bar    == Create(Set(bench, Workbench, {"flush"}), 0, Height - BarHeight, Width,
                       BarHeight, {"arbiter", "fixed_z", "fixed_xy"}, "bar")
      cursor == Create(Set(bar, Taskbar, {"visible"}), Width \div 2, Height \div 2, 1, 1,
                       {"visible", "fixed_z", "cursor"}, "wm")
      menu   == Create(Set(cursor, Cursor, {"flush"}), Middle(1, Width), Middle(1, Height),
                       1, 1, {"visible", "flush"}, "menu")
  IN [menu EXCEPT !.obj[Menu].flags = {"hide", "menu", "fragile", "flush"}]

Begin ==
  /\ wm.pc = "init"
  /\ wm' = [Drawn(Pass(Drawn(Pass(Cleared(Listed(Made)))))) EXCEPT
              !.pc = "event"]
  /\ UNCHANGED <<client, requests, clicks>>

WindowsInit ==
  /\ InputInit
  /\ client   = [c \in Client |-> IF c \in user.clients THEN "starting" ELSE "none"]
  /\ requests = <<>>
  /\ clicks   = [p \in Client \union {"bar", "menu", "wm"} |-> 0]
  /\ wm       = Blank

(* The manager runs, and neither follows a pointer to nothing nor lost an  *)
(* entry of the table or of the list.                                      *)
Sane == wm.pc \notin {"off", "crash"} /\ ~ wm.ghost

Up == wm.pc \notin {"off", "init"}

(* Keys are read in the phase of wm_event. *)
Reading == wm.pc = "event" /\ (KeyFetch \/ KeyLoad \/ KeyStore)

Manager ==
  \/ Reading /\ UNCHANGED desktop
  \/ Event
  \/ (Begin \/ Objects \/ Zone \/ Draw) /\ UNCHANGED input

Threads ==
  \/ TaskbarClick /\ UNCHANGED input
  \/ (TaskbarMenu \/ TaskbarEntry \/ TaskbarObject \/ TaskbarList) /\ UNCHANGED input
  \/ MenuClick /\ UNCHANGED input
  \/ TaskbarClock

Clients == \E c \in Client :
  \/ (Ask(c) \/ Name(c) \/ Close(c) \/ ClientClick(c) \/ End(c)) /\ UNCHANGED input
  \/ Redraw(c)

WindowsNext ==
  /\ Sane
  /\ \/ Awaited /\ Interrupt /\ UNCHANGED desktop
     \/ Manager
     \/ wm.pc # "init" /\ (Threads \/ Clients)

(* The main loop never waits, so that it is fair to say that it goes round *)
(* for as long as the manager is sane: every phase of it is a step of      *)
(* Manager, one of which is enabled then.                                  *)
GoesRound == []<>(Sane => wm.pc = "event") /\ []<>(Sane => wm.pc = "zone")

WindowsVars == <<input, desktop>>
WindowsSpec == WindowsInit /\ [][WindowsNext]_WindowsVars /\ GoesRound

-----------------------------------------------------------------------------
(***************************************************************************)
(* Properties.  They are stated up to the first collision of the main loop *)
(* with the thread of the taskbar that loses an object (`ghost'), and,     *)
(* where the picture matters, that loses a zone (`missed').                *)
(***************************************************************************)

(* Every entry of the table in use is on the list, once, and no other; the *)
(* workbench is below all windows, the taskbar and the cursor are above    *)
(* them, whatever is created, raised, closed or left behind, and while the *)
(* thread of the taskbar is anywhere in wm_object_move_up, when the object *)
(* that it moves counts where it has made room (object.c:159-191,          *)
(* 250-294).                                                               *)
ListMatchesTable ==
  Up /\ ~ wm.ghost =>
    LET list == Whole(wm) IN
    /\ ToSet(list) = {o \in Index : wm.obj[o].flags # {}}
    /\ IsInjective(list)
    /\ Head(list) = Workbench
    /\ SubSeq(list, Len(list) - 1, Len(list)) = <<Taskbar, Cursor>>

(* Keys go to a window that is there, whichever of the main loop and the   *)
(* thread of the taskbar chose it, and when the other one chose or removed *)
(* one since (ipc.c:5-19, object.c:82-94, taskbar.c:196-236).              *)
ActiveIsListed == Up /\ ~ wm.ghost => Contains(Whole(wm), wm.active)

(* Nothing is left to be done for the objects. *)
Quiet ==
  /\ wm.pc = "event"
  /\ wm.turn = NoTurn
  /\ wm.zones = <<>>
  /\ \A p \in DOMAIN wm.list :
       LET x == wm.obj[wm.list[p]] IN
       /\ x.flags \intersect {"hide", "destroy"} = {} /\ "minimize" \notin x.request
       /\ "visible" \in x.flags => "flush" \notin x.flags \union x.request

Top(p) ==
  LET at == {q \in DOMAIN wm.list : Has(wm, wm.list[q], "visible")
                                      /\ Covers(wm.obj[wm.list[q]], p)}
  IN wm.obj[wm.list[CHOOSE q \in at : \A r \in at : r <= q]]

(* When nothing is left to be done, every pixel of the screen shows the    *)
(* highest visible object there, with its last content, and never what was *)
(* moved, hidden, covered or removed, also when a phase of the main loop   *)
(* fell between any two stores of the thread of the taskbar (zone.c,       *)
(* fill.c, object.c:5-80, 193-248, taskbar.c:181-252).                     *)
PictureIsCurrent ==
  Quiet /\ ~ wm.ghost /\ ~ wm.missed =>
    \A p \in Pixel : wm.picture[p] = <<Top(p).id, Top(p).look>>

(* The main loop asked for the taskbar after the thread had listed the     *)
(* windows, and before the thread took the request back.                   *)
Overtaken == wm.asked /\ ~ wm.bar

(* The taskbar has an entry for every window there is, shown as visible,   *)
(* hidden or active as it is, unless it is about to be drawn again         *)
(* (wm_taskbar_semaphore, taskbar.c:78-114): every change is asked for,    *)
(* and only a request that is overtaken can be lost.                       *)
TaskbarShowsWindows ==
  Quiet /\ ~ wm.ghost /\ ~ wm.bar /\ ~ Overtaken =>
    LET now == Listed(wm) IN
    /\ wm.elements = now.elements
    /\ wm.obj[Taskbar].look = now.obj[Taskbar].look

(* The window of a program that has ended goes from the screen, also when  *)
(* it is asked for after that (object.c:56-78).                            *)
EndedWindowsGo ==
  \A c \in Client :
    client[c] = "ended" ~> (wm.ghost \/ wm.pc = "crash" \/ WindowOf(c) = {})
=============================================================================
