-------------------------- MODULE ConsoleKeyboard --------------------------
(***************************************************************************)
(* The keyboard path of the Windows console client                         *)
(* (src/common/uxenconsole/uxenconsole-windows.c): window_proc turns the   *)
(* WM_KEYDOWN / WM_KEYUP / WM_SYSKEY* and WM_CHAR messages of the host     *)
(* window into uxenconsole_keyboard_event calls to the guest, holding back *)
(* the keys of a dead-key composition and of IME / VK_PACKET input in the *)
(* kbd_state machine of struct console.                                    *)
(*                                                                         *)
(* One thread runs main_loop, which dispatches one message at a time, so   *)
(* each message is one atomic action.  The environment is the physical    *)
(* keyboard: a key goes down (or autorepeats) and comes up.  A key is its *)
(* scancode; the virtual key in wParam is the key itself, VK_PROCESSKEY    *)
(* for a key the IME takes, and VK_PACKET for injected unicode input.      *)
(* ToUnicodeEx is reduced to the one result the code branches on: -1 for  *)
(* the down of a dead key of the active layout.  The layout                *)
(* (GetKeyboardLayout(0)) is fixed for a behaviour.  "guest" is the set  *)
(* of keys the guest has been sent a down event for and no up event since.*)
(***************************************************************************)
EXTENDS FiniteSets

CONSTANTS
  Keys,           \* the physical keys (scancodes); may include VK_PACKET
  Layouts,        \* keyboard layouts: [dead |-> the keys ToUnicodeEx reports
                  \* as dead keys (-1), ime |-> the keys an IME takes]
  VK_PROCESSKEY,
  VK_PACKET,
  NoKey           \* the 0 kbd_dead_key and the other fields start with

ASSUME \A l \in Layouts : l.dead \subseteq Keys /\ l.ime \subseteq Keys \ l.dead

(* enum { KBD_STATE_NORMAL = 0, ... }                                      *)
KbdStates == {"NORMAL", "DEADKEY_PRESSED", "DEADKEY_RELEASED",
              "COMPKEY_PRESSED", "UNICODE"}

VKeys == Keys \cup {VK_PROCESSKEY, VK_PACKET}

VARIABLES
  layout,           \* the active keyboard layout
  held,             \* the keys physically down
  kbd_state, kbd_dead_key, kbd_comp_key, kbd_last_key, kbd_unicode_key,
  guest             \* the keys the guest believes are down

vars == <<layout, held, kbd_state, kbd_dead_key, kbd_comp_key, kbd_last_key,
          kbd_unicode_key, guest>>

DeadKeys == layout.dead
ImeKeys  == layout.ime

TypeOK ==
  /\ layout \in Layouts
  /\ held \subseteq Keys
  /\ kbd_state \in KbdStates
  /\ {kbd_dead_key, kbd_comp_key, kbd_last_key, kbd_unicode_key}
       \subseteq VKeys \cup {NoKey}
  /\ guest \subseteq Keys

(* WinMain: memset(&cons, 0, sizeof (cons)).                               *)
Init ==
  /\ layout \in Layouts
  /\ held = {}
  /\ kbd_state = "NORMAL"
  /\ kbd_dead_key = NoKey /\ kbd_comp_key = NoKey
  /\ kbd_last_key = NoKey /\ kbd_unicode_key = NoKey
  /\ guest = {}

(* The wParam Windows gives a key's down and the ones it may give its up.  *)
DownVk(k) == IF k \in ImeKeys THEN VK_PROCESSKEY ELSE k
UpVks(k)  == IF k \in ImeKeys THEN {k, VK_PROCESSKEY} ELSE {k}

(* The sendkey label: the release of a dead key whose press was held back  *)
(* is dropped, anything else goes to the guest with scancode k (| 0x80 on *)
(* an up).                                                                 *)
sendkey(k, w, up) ==
  IF w = kbd_dead_key
  THEN /\ kbd_dead_key' = NoKey
       /\ UNCHANGED guest
  ELSE /\ guest' = IF up THEN guest \ {k} ELSE guest \cup {k}
       /\ UNCHANGED kbd_dead_key

(***************************************************************************)
(* The switch on kbd_state for the key message of key k with virtual key  *)
(* w; up tells WM_KEYUP / WM_SYSKEYUP from a down.  One operator per case.  *)
(***************************************************************************)
OnUnicode(k, w, up) ==
  /\ kbd_state = "UNICODE"
  /\ kbd_state' = IF up /\ w \in {kbd_unicode_key, VK_PROCESSKEY}
                  THEN "NORMAL" ELSE kbd_state
  /\ UNCHANGED <<kbd_dead_key, kbd_comp_key, kbd_unicode_key, guest>>

OnCompKeyPressed(k, w, up) ==
  /\ kbd_state = "COMPKEY_PRESSED"
  /\ kbd_state' = IF up /\ w = kbd_comp_key THEN "NORMAL" ELSE kbd_state
  /\ kbd_dead_key' = IF up /\ w = kbd_dead_key THEN NoKey ELSE kbd_dead_key
  /\ UNCHANGED <<kbd_comp_key, kbd_unicode_key, guest>>

(* Mutation: the compose key is not recorded (kbd_comp_key keeps its old  *)
(* value).                                                                 *)
OnDeadKeyReleasedNoComp(k, w, up) ==
  /\ kbd_state = "DEADKEY_RELEASED"
  /\ \/ /\ ~up
        /\ kbd_state' = "COMPKEY_PRESSED"
        /\ UNCHANGED <<kbd_dead_key, kbd_comp_key, kbd_unicode_key, guest>>
     \/ /\ up
        /\ sendkey(k, w, up)
        /\ UNCHANGED <<kbd_state, kbd_comp_key, kbd_unicode_key>>

OnDeadKeyReleased(k, w, up) ==
  /\ kbd_state = "DEADKEY_RELEASED"
  /\ \/ /\ ~up
        /\ kbd_comp_key' = w
        /\ kbd_state' = "COMPKEY_PRESSED"
        /\ UNCHANGED <<kbd_dead_key, kbd_unicode_key, guest>>
     \/ /\ up
        /\ sendkey(k, w, up)
        /\ UNCHANGED <<kbd_state, kbd_comp_key, kbd_unicode_key>>

OnDeadKeyPressed(k, w, up) ==
  /\ kbd_state = "DEADKEY_PRESSED"
  /\ \/ /\ up /\ w = kbd_dead_key
        /\ kbd_state' = "DEADKEY_RELEASED"
        /\ kbd_dead_key' = NoKey
        /\ UNCHANGED <<kbd_comp_key, kbd_unicode_key, guest>>
     \/ /\ up /\ w # kbd_dead_key
        /\ sendkey(k, w, up)
        /\ UNCHANGED <<kbd_state, kbd_comp_key, kbd_unicode_key>>
     \/ /\ ~up
        /\ kbd_comp_key' = w
        /\ kbd_state' = "COMPKEY_PRESSED"
        /\ UNCHANGED <<kbd_dead_key, kbd_unicode_key, guest>>

(* nchars == -1 on a down is the dead-key report of ToUnicodeEx.           *)
OnNormal(k, w, up) ==
  /\ kbd_state = "NORMAL"
  /\ \/ /\ ~up /\ w = VK_PROCESSKEY
        /\ kbd_state' = "UNICODE"
        /\ kbd_unicode_key' = k      \* MapVirtualKeyW(scancode, ...)
        /\ UNCHANGED <<kbd_dead_key, kbd_comp_key, guest>>
     \/ /\ ~up /\ w = VK_PACKET
        /\ kbd_state' = "UNICODE"
        /\ kbd_unicode_key' = w
        /\ UNCHANGED <<kbd_dead_key, kbd_comp_key, guest>>
     \/ /\ ~up /\ w \notin {VK_PROCESSKEY, VK_PACKET} /\ k \in DeadKeys
        /\ kbd_state' = "DEADKEY_PRESSED"
        /\ kbd_dead_key' = w
        /\ UNCHANGED <<kbd_comp_key, kbd_unicode_key, guest>>
     \/ /\ up \/ (w \notin {VK_PROCESSKEY, VK_PACKET} /\ k \notin DeadKeys)
        /\ sendkey(k, w, up)
        /\ UNCHANGED <<kbd_state, kbd_comp_key, kbd_unicode_key>>

(* window_proc on a key message: kbd_last_key is set on every down, then   *)
(* the switch.                                                            *)
KeyMessage(k, w, up) ==
  /\ kbd_last_key' = IF up THEN kbd_last_key ELSE w
  /\ \/ OnUnicode(k, w, up)
     \/ OnCompKeyPressed(k, w, up)
     \/ OnDeadKeyReleased(k, w, up)
     \/ OnDeadKeyPressed(k, w, up)
     \/ OnNormal(k, w, up)

(* A key goes down, or autorepeats while held: WM_KEYDOWN.                  *)
KeyDown(k) ==
  /\ UNCHANGED layout
  /\ held' = held \cup {k}
  /\ KeyMessage(k, DownVk(k), FALSE)

(* A held key comes up: WM_KEYUP.                                          *)
KeyUp(k) ==
  /\ k \in held
  /\ UNCHANGED layout
  /\ held' = held \ {k}
  /\ \E w \in UpVks(k) : KeyMessage(k, w, TRUE)

(***************************************************************************)
(* WM_CHAR / WM_SYSCHAR in COMPKEY_PRESSED or UNICODE: the composed        *)
(* character goes to the guest as a down and an up of kbd_last_key, with   *)
(* the scancode of the key TranslateMessage made it from.  TranslateMessage*)
(* posts it while that key's down is dispatched, so the key is held.  In   *)
(* other states the message goes to DefWindowProcW.                       *)
(***************************************************************************)
Char(k) ==
  /\ kbd_state \in {"COMPKEY_PRESSED", "UNICODE"}
  /\ k \in held
  /\ guest' = guest \ {k}
  /\ UNCHANGED <<layout, held, kbd_state, kbd_dead_key, kbd_comp_key, kbd_last_key,
                 kbd_unicode_key>>

Next ==
  \E k \in Keys : KeyDown(k) \/ KeyUp(k) \/ Char(k)

Spec == Init /\ [][Next]_vars

(***************************************************************************)
(* Every key the guest holds down is held down on the host: the console    *)
(* never leaves a key pressed in the guest after the user has released it. *)
(* This is what window_proc must keep while it holds back the key events  *)
(* of a dead-key composition or of IME input.                              *)
(***************************************************************************)
GuestKeysHeld == guest \subseteq held

(***************************************************************************)
(* Each state of window_proc that holds key events back belongs to a key  *)
(* that is still held: DEADKEY_PRESSED to the dead key, COMPKEY_PRESSED to *)
(* the compose key and UNICODE to the IME / VK_PACKET key, and the state  *)
(* is left on that key's up.  So once every key is up the console is back *)
(* in NORMAL (or DEADKEY_RELEASED, waiting for the key to compose with),  *)
(* and no later key is swallowed by a composition that is over.            *)
(***************************************************************************)
SwallowingStateHeld ==
  /\ kbd_state = "DEADKEY_PRESSED" => kbd_dead_key \in held
  /\ kbd_state = "COMPKEY_PRESSED" => kbd_comp_key \in held
  /\ kbd_state = "UNICODE"         => kbd_unicode_key \in held
=============================================================================
