---------------------------- MODULE MCKeyboardInput ----------------------------
(***************************************************************************)
(* A keyboard with a Shift key and a letter, under two layouts.            *)
(***************************************************************************)
EXTENDS KeyboardInput

MCPhysicalKeys == {"shift", "letter"}
MCKeys == {"KEY_LEFT_SHIFT", "KEY_O"}
MCUsed == {<<0, "KEY_O">>, <<1, "KEY_O">>, <<0, "event">>, <<1, "text">>}

\* The tables name the lower-case keysyms only.
LayoutFor(backend, position) ==
  [backend |-> backend,
   named |-> [k \in MCPhysicalKeys \X Levels |->
                CASE k[1] = "shift" -> "KEY_LEFT_SHIFT"
                  [] k = <<"letter", 0>> -> "KEY_O"
                  [] OTHER -> "KEY_UNKNOWN"],
   position |-> [p \in MCPhysicalKeys |-> IF p = "shift" THEN "KEY_LEFT_SHIFT" ELSE position]]

\* Where every key is at its QWERTY position, or the server's keysyms do not depend
\* on the modifiers.
SteadySetups == {LayoutFor("wayland", "KEY_O"), LayoutFor("x11", "KEY_O")}

\* Dvorak: the key at the position of S types an o.
DvorakKeys == MCKeys \cup {"KEY_S"}
DvorakSetups == {LayoutFor("wayland", "KEY_S")}
=============================================================================
