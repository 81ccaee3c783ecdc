----------------------------- MODULE MCDesktop ------------------------------
EXTENDS Windows

Nobody == [keys |-> 0, packets |-> 0, draws |-> 0, scan |-> {}, prefixes |-> {},
           ends |-> {}, motion |-> {<<0, 0>>}, apart |-> FALSE, clients |-> {},
           waits |-> TRUE]

(* What one user does, each with other parts of the manager in view.       *)
MCUsers == {
  \* the controls in the header of a window, and dragging it
  [Nobody EXCEPT !.packets = 2, !.motion = {<<1, 0>>}, !.clients = {"c"}],
  [Nobody EXCEPT !.packets = 2, !.motion = {<<-2, 1>>}, !.clients = {"c"}],
  \* the menu opens and executes a program
  [Nobody EXCEPT !.packets = 3, !.motion = {<<0, 1>>, <<-3, -1>>}],
  \* Alt and Tab, the taskbar, and programs that end, with two windows
  [Nobody EXCEPT !.keys = 2, !.scan = {"alt", "tab"}, !.clients = {"c", "d"}],
  [Nobody EXCEPT !.packets = 1, !.motion = {<<-1, -1>>}, !.clients = {"c", "d"}],
  [Nobody EXCEPT !.ends = {"c", "d"}, !.clients = {"c", "d"}],
  [Nobody EXCEPT !.ends = {"d"}, !.clients = {"c", "d"}, !.waits = FALSE],
  [Nobody EXCEPT !.ends = {"c"}, !.draws = 2, !.clients = {"c"}],
  \* a program that ends while its window is moved, or its entry clicked
  [Nobody EXCEPT !.packets = 1, !.motion = {<<2, 0>>, <<0, -1>>}, !.ends = {"c"},
                 !.clients = {"c"}],
  \* a window that comes while the menu is raised
  [Nobody EXCEPT !.packets = 1, !.motion = {<<-3, -1>>}, !.clients = {"c"},
                 !.waits = FALSE],
  \* typing, with the manager on another processor, and after a prefix
  [Nobody EXCEPT !.keys = 4, !.scan = {"a"}, !.apart = TRUE],
  [Nobody EXCEPT !.keys = 3, !.scan = {"a", "shift", "caps", "none"},
                 !.prefixes = {"0xE0"}],
  [Nobody EXCEPT !.keys = 2, !.scan = {"a", "\\"}]}

MCSize == <<5, 1>>
MCClient == {"c", "d"}
=============================================================================
