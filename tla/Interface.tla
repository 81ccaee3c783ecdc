------------------------------ MODULE Interface ------------------------------
(***************************************************************************)
(* From the description of a window to the list of its elements: what      *)
(* lib_interface does before it asks for the window (library/shared/       *)
(* json.c, lib_interface_convert and its like in interface.c).             *)
(*                                                                         *)
(* A text is a sequence of tokens: a mark of the format, a digit, a white  *)
(* character, or a word, which stands for all its characters.  "q" is the  *)
(* quotation mark and "end" the character that terminates a text.  Where a *)
(* pointer is followed in the code there is a position in the text, and 0  *)
(* for none.                                                               *)
(*                                                                         *)
(* What recurses here is evaluated on a sample of descriptions.            *)
(***************************************************************************)
EXTENDS LibString, FiniteSets

CONSTANT Descriptions   \* bound: what windows are described

VARIABLE ui             \* lib_interface at work on one of them

uiVars == <<ui>>

-----------------------------------------------------------------------------
(* lib_json_parse, from the quotation mark that a key begins with.         *)
RECURSIVE KeyEnd(_, _), Closing(_, _, _), StringEnd(_, _), After(_, _)

KeyEnd(text, i) ==
  CASE text[i + 1] # "q" -> KeyEnd(text, i + 1)
    [] text[i] = "\\"    -> KeyEnd(text, i + 2)
    [] OTHER             -> i + 1

(* The bracket that closes an object: they are counted, in strings too. *)
Closing(text, i, open) ==
  CASE text[i] = "{"             -> Closing(text, i + 1, open + 1)
    [] text[i] = "}" /\ open = 1 -> i
    [] text[i] = "}"             -> Closing(text, i + 1, open - 1)
    [] OTHER                     -> Closing(text, i + 1, open)

StringEnd(text, i) ==
  IF text[i] = "q" /\ text[i - 1] # "\\" THEN i ELSE StringEnd(text, i + 1)

(* Where the key after a number or a word is. *)
After(text, i) ==
  CASE text[i] = "}"           -> 0
    [] text[i] \in {",", "end"} -> i + 1
    [] OTHER                   -> After(text, i + 1)

(* Behind an object or a string: another key, if its object is not closed. *)
Behind(text, i) == IF text[i] = "}" THEN 0 ELSE i + 1

Parsed(text, key, value) ==
  CASE text[value] = "{" ->
         [key |-> key, type |-> "object", value |-> value,
          next |-> Behind(text, Closing(text, value + 1, 1) + 1)]
    [] text[value] = "q" ->
         [key |-> key, type |-> "string",
          value |-> SubSeq(text, value + 1, StringEnd(text, value + 1) - 1),
          next |-> Behind(text, StringEnd(text, value + 1) + 1)]
    [] text[value] \in ToSet(Digits) \union {"-"} ->
         [key |-> key, type |-> "number", value |-> StringToInteger(text, value),
          next |-> After(text, value)]
    [] OTHER ->
         [key |-> key, type |-> "other", value |-> text[value], next |-> After(text, value)]

Parse(text, key) == Parsed(text, key, KeyEnd(text, key) + 2)

(* lib_json and lib_json_next: the keys of the object that begins there.   *)
RECURSIVE Entries(_, _)
Entries(text, key) ==
  IF key = 0 THEN <<>>
  ELSE LET Rest(entry) == <<entry>> \o Entries(text, entry.next) IN Rest(Parse(text, key))

Json(text, i) == IF text[i] = "{" THEN Entries(text, i + 1) ELSE <<>>

(* lib_json_key compares with this. *)
Key(text, entry) == text[entry.key + 1]

-----------------------------------------------------------------------------
(* lib_interface_convert.  What is taken from the keys of an object; an    *)
(* event counts if it is a string.  A string has the type of a sequence of *)
(* tokens; that long ones are cut (LIB_INTERFACE_NAME_length) is left out. *)
Taken(text, object, blank, keys) ==
  LET Step(element, e) ==
        IF Key(text, e) \in keys /\ (Key(text, e) = "event" => e.type = "string")
        THEN [element EXCEPT ![Key(text, e)] = e.value] ELSE element
  IN FoldLeft(Step, blank, Json(text, object))

NoElement ==
  [type |-> <<>>, id |-> 0, x |-> 0, y |-> 0, width |-> 0, height |-> 0,
   align |-> <<>>, event |-> <<>>, value |-> <<>>]

HeaderHeight == 22      \* LIB_INTERFACE_HEADER_HEIGHT_pixel

Control(text, object) ==
  Taken(text, object, [NoElement EXCEPT !.width = HeaderHeight, !.height = HeaderHeight],
        {"x", "id", "type"})

List(text, object) ==
  Taken(text, object, [NoElement EXCEPT !.type = <<"list">>], {"x", "y", "width", "height"})

(* Positions less than zero count from the other side of the window, and   *)
(* an unknown alignment is to the left.                                    *)
Aligned(window, l) ==
  [l EXCEPT !.x = IF @ < 0 THEN @ + window.width - l.width ELSE @,
            !.y = IF @ < 0 THEN @ + window.height - l.height ELSE @,
            !.align = IF @ \in {<<>>, <<"center">>, <<"right">>} THEN @ ELSE <<"left">>]

LabelOrButton(text, object, type, window) ==
  Aligned(window, Taken(text, object, [NoElement EXCEPT !.type = <<type>>],
                        {"id", "x", "y", "width", "height", "event", "align", "value"}))

(* Mutant: a quotation mark after a backslash ends a string. *)
EndsAlways == TRUE

EndsString == ui.previous # "\\"

(* lib_json_cohesion removes what is not visible and not in a string, in   *)
(* place: a step is a character.                                           *)
Cohesion ==
  LET token == ui.text[ui.i]
      Kept(inside, out) == [ui EXCEPT !.i = @ + 1,
                                      !.previous = IF inside /\ ~ ui.inside THEN @ ELSE token,
                                      !.inside = inside, !.json = @ \o out]
  IN /\ ui.pc = "cohesion" /\ ui.i <= Len(ui.text)
     /\ ui' = CASE token = "q" /\ (ui.inside => EndsString) -> Kept(~ ui.inside, <<token>>)
                [] token = " " /\ ~ ui.inside -> Kept(FALSE, <<>>)
                [] OTHER -> Kept(ui.inside, <<token>>)

(* lib_interface_convert: the first key, and then a step is an element.    *)
Convert ==
  /\ ui.pc = "cohesion" /\ ui.i > Len(ui.text)
  /\ ui' = [ui EXCEPT !.pc = "convert", !.entry = Parse(ui.json, 2)]

Converted(u, text, e) ==
  CASE Key(text, e) = "window" ->
         [u EXCEPT !.window = Taken(text, e.value, @, {"width", "height", "value"})]
    [] Key(text, e) = "control" ->
         [u EXCEPT !.elements = Append(@, Control(text, e.value)), !.controls = @ + 1]
    [] Key(text, e) \in {"label", "button"} ->
         [u EXCEPT !.elements =
            Append(@, LabelOrButton(text, e.value, Key(text, e), u.window))]
    [] Key(text, e) = "list" ->
         [u EXCEPT !.elements = Append(@, List(text, e.value))]
    [] OTHER -> u

ConvertNext ==
  /\ ui.pc = "convert"
  /\ LET With(u) == IF ui.entry.next = 0 THEN [u EXCEPT !.pc = "done"]
                    ELSE [u EXCEPT !.entry = Parse(ui.json, ui.entry.next)]
     IN ui' = With(Converted(ui, ui.json, ui.entry))

(* lib_interface_element_by_id: the first, up to one of no type. *)
ElementById(elements, id) ==
  LET at == {e \in DOMAIN elements :
               elements[e].id = id /\ \A d \in 1 .. e : elements[d].type # <<>>}
  IN IF at = {} THEN NoElement ELSE elements[CHOOSE e \in at : \A d \in at : e <= d]

-----------------------------------------------------------------------------
(* What a description says, as a reference: a sequence of objects, each    *)
(* one of a kind, with pairs of a key and a value, in a text with white    *)
(* characters between the parts, as they are written.                      *)
Number(n) ==
  (IF n < 0 THEN <<"-">> ELSE <<>>)
    \o (LET m == IF n < 0 THEN - n ELSE n IN
        (IF m < 10 THEN <<>> ELSE <<Digits[m \div 10 + 1]>>) \o <<Digits[(m % 10) + 1]>>)

Quoted(tokens) == <<"q">> \o tokens \o <<"q">>

CommaList(parts) == FoldLeft(LAMBDA out, part : IF out = <<>> THEN part ELSE out \o <<" ", ",", " ">> \o part,
                           <<>>, parts)

Pair(p) == Quoted(<<p.key>>) \o <<":", " ">>
             \o (IF p.key \in {"type", "align", "event", "value"} THEN Quoted(p.value)
                 ELSE Number(p.value))

Member(o) ==
  Quoted(<<o.kind>>) \o <<":", " ", "{", " ">> \o CommaList([k \in DOMAIN o.pairs |-> Pair(o.pairs[k])])
    \o <<" ", "}">>

Text(description) ==
  <<"{">> \o CommaList([k \in DOMAIN description |-> Member(description[k])]) \o <<" ", "}", " ">>

Value(o, key, default) ==
  LET at == {k \in DOMAIN o.pairs : o.pairs[k].key = key}
  IN IF at = {} THEN default ELSE o.pairs[CHOOSE k \in at : TRUE].value

(* An element as described: keys in any order, zero if there is none, from *)
(* the other side of the window if negative.                               *)
Described(o, window) ==
  LET Side(key, size) ==
        LET at == Value(o, key, 0) IN
        IF at < 0 /\ o.kind \in {"label", "button"}
        THEN at + Value(window, size, 0) - Value(o, size, 0) ELSE at
  IN [type |-> IF o.kind = "control" THEN Value(o, "type", <<>>) ELSE <<o.kind>>,
      id |-> Value(o, "id", 0),
      x |-> Side("x", "width"), y |-> Side("y", "height"),
      width |-> Value(o, "width", IF o.kind = "control" THEN HeaderHeight ELSE 0),
      height |-> Value(o, "height", IF o.kind = "control" THEN HeaderHeight ELSE 0),
      align |-> Value(o, "align", <<>>), event |-> Value(o, "event", <<>>),
      value |-> Value(o, "value", <<>>)]

InterfaceInit ==
  \E d \in Descriptions :
    ui = [description |-> d, pc |-> "cohesion", text |-> Text(d), i |-> 1, json |-> <<>>,
          inside |-> FALSE, previous |-> "end", entry |-> <<>>,
          window |-> [width |-> 0, height |-> 0, value |-> <<>>],
          elements |-> <<>>, controls |-> 0]

InterfaceNext == Cohesion \/ Convert \/ ConvertNext
InterfaceSpec == InterfaceInit /\ [][InterfaceNext]_uiVars

-----------------------------------------------------------------------------
(* The window and its elements are as they were described, in the order    *)
(* they were, however the text is laid out and in whatever order the keys  *)
(* of an object are, and an element with a number is found by it           *)
(* (interface.c:141-178, 262-456; json.c).                                 *)
InterfaceIsAsDescribed ==
  ui.pc = "done" =>
    LET window   == Head(ui.description)
        elements == [k \in 1 .. Len(ui.description) - 1 |->
                       Described(ui.description[k + 1], window)]
    IN /\ ui.window = [width |-> Value(window, "width", 0),
                       height |-> Value(window, "height", 0),
                       value |-> Value(window, "value", <<>>)]
       /\ ui.elements = elements
       /\ ui.controls = Cardinality({k \in DOMAIN elements :
                                      ui.description[k + 1].kind = "control"})
       /\ \A k \in DOMAIN elements :
            elements[k].id # 0 => ElementById(ui.elements, elements[k].id).id = elements[k].id
=============================================================================
