------------------------- MODULE MCConsoleKeyboard -------------------------
(***************************************************************************)
(* The keys and layouts ConsoleKeyboard is checked with: Shift (no         *)
(* character), a letter E, one or two dead keys, an IME key and injected  *)
(* VK_PACKET input.  A European layout has the dead keys and no IME; a    *)
(* CJK layout has the IME and no dead keys.                               *)
(***************************************************************************)
EXTENDS ConsoleKeyboard

CONSTANTS Shift, E, Dead, Dead2, Ime

KbdKeys == {Shift, E, Dead, Dead2, Ime, VK_PACKET}

DeadKeyLayout == [dead |-> {Dead, Dead2}, ime |-> {}]
ImeLayout     == [dead |-> {}, ime |-> {Ime}]

KbdLayouts == {DeadKeyLayout, ImeLayout}
=============================================================================
