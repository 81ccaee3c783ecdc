----------------------------- MODULE MCTerminal ------------------------------
EXTENDS Terminal, MCStream

(* What is typed, and what the programs print that are executed.           *)
MCTypists == {
  \* a command line over the end of the screen line, and erased again
  [keys |-> <<{"b"}, {" ", "b"}, {"b"}, {"back", "b"}, {"back", "\n"}, {"back"}>>,
   script |-> <<>>],
  \* a program that hides the cursor, and ends before it shows it again
  [keys |-> <<{"a", "l", "q"}, {"\n"}, {"back", "\n"}, {"b"}>>,
   script |-> <<<<"hide", "u", "\n", "v">>, <<"w", "show">>>>],
  [keys |-> <<{"ctrl", "alt"}, {"c"}, {"ctrl up", "alt up"}, {"c"}>>, script |-> <<>>],
  \* programs in the foreground and in the background
  [keys |-> <<{"a"}, {"&", " "}, {"\n"}, {"a"}>>,
   script |-> <<<<"push", "u", "no clean", "v", "\t", "pop", "clean">>,
                <<"left", "w", "\r", "right", "clear line">>>>],
  [keys |-> <<{"a"}, {"\n"}, {"b"}>>,
   script |-> <<<<"down", "up", "\n", "\n", "u", "up", "left">>,
                <<"home", "down", "right", "clear", "v">>>>]}

MCJobs == {1, 2}

(* What is printed.                                                        *)
Part(kind, arg)           == [kind |-> kind, arg |-> arg]
Dec(prefix, arg)          == [kind |-> "d", prefix |-> prefix, arg |-> arg]
Frac(prefix, suffix, arg) == [kind |-> "f", prefix |-> prefix, suffix |-> suffix, arg |-> arg]
Percent                   == Part("percent", <<>>)

Parts == {Part("text", <<"a", " ">>), Part("c", "k"), Part("s", <<"u", "v">>),
          Part("s", <<>>), Dec(<<>>, 7), Dec(<<"3">>, -42), Dec(<<"0", "5">>, 0),
          Frac(<<>>, <<"2">>, -105), Frac(<<"4">>, <<"2">>, 1250), Frac(<<>>, <<"1">>, 4)}

KernelParts == {Part("text", <<"a">>), Part("c", "k"), Dec(<<>>, 70), Part("x", 0),
                Part("x", 171), Percent}

(* What printf loses is what follows a percent sign: it comes last here.   *)
MCCalls ==
  [to : {"printf"}, parts : {<<x, y, z>> : x \in Parts, y \in Parts, z \in Parts \union {Percent}}]
  \union [to : {"log"}, parts : {<<x, y>> : x \in Parts \union {Part("x", 171)},
                                            y \in Parts \union {Percent, Part("x", 30)}}]
  \union [to : {"kernel_log"}, parts : {<<x, y>> : x \in KernelParts, y \in KernelParts}]

(* Descriptions of windows, with each pair of elements.                    *)
Is(key, value) == [key |-> key, value |-> value]

Framed ==
  [kind |-> "window",
   pairs |-> <<Is("width", 99), Is("height", 83), Is("value", <<"Menu">>)>>]

Elements == {
  [kind |-> "control", pairs |-> <<Is("id", 1), Is("x", 50), Is("type", <<"close">>)>>],
  [kind |-> "control", pairs |-> <<Is("type", <<"minimize">>), Is("x", 28)>>],
  [kind |-> "button",
   pairs |-> <<Is("x", 1), Is("y", -1), Is("width", 40), Is("height", 20),
               Is("event", <<"console", " ", "top">>), Is("align", <<"right">>),
               Is("value", <<"Task", " ", "Manager">>)>>],
  [kind |-> "label",
   pairs |-> <<Is("value", <<"\\", "q", "a", " ", "b", "\\", "q">>), Is("x", -12),
               Is("width", 7), Is("align", <<"center">>), Is("id", 2)>>],
  [kind |-> "label", pairs |-> <<Is("value", <<>>), Is("id", 3)>>],
  [kind |-> "list", pairs |-> <<Is("x", 1), Is("y", 22), Is("width", 8), Is("height", 60)>>]}

MCDescriptions == {<<Framed>> \o s : s \in UNION {[1 .. n -> Elements] : n \in 0 .. 2}}

(* Directories of one to three files.                                      *)
Named(names, sizes) == [name : names, size : sizes]

MCDirectories ==
  {<<file>> : file \in Named({<<"a">>, <<"a", "b">>}, 0 .. 5)}
  \union {<<File(Self, 0), x, File(Parent, 0), y>> :
           x \in Named({<<"a">>}, {0, 1, 4, 5}), y \in Named({<<"b">>, <<".", "b">>}, {0, 3, 8})}
  \union {<<x, y, File(<<"b">>, 2)>> :
           x \in Named({<<"a">>, <<"a", "b", "c">>}, {1, 4}), y \in Named({<<"a", "b">>}, {0, 5})}

MCNames == {Self, Parent, <<"a">>, <<"b">>, <<"a", "b">>, <<".", "b">>}
=============================================================================
