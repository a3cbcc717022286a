------------------------------ MODULE Keyboard ------------------------------
(***************************************************************************)
(* From the keys of the host to the keyboard and the joystick of the        *)
(* Spectrum: the queue of events (mgfx.c), the key handler with Alt, Shift  *)
(* and the lock of the user interface (gzx.c), the keys that the program    *)
(* sees (zx_kbd.c, kempston.c), and the menus, dialogs and the debugger,    *)
(* which read the same queue while they are open.  The debugger opens by a   *)
(* key, and between two instructions where a stop address or a step that    *)
(* was left in it comes due (zx_proc_instr()).                              *)
(*                                                                          *)
(*   host        the events that the host holds until they are asked for    *)
(*   wbuf, wh, wt  the ring of events: where one is put and taken           *)
(*   lalt, lshift  key_lalt_held and key_lshift_held                        *)
(*   ui_lock     the user interface is locked                               *)
(*   pressed, joy  the keys that are pressed for the program, and the       *)
(*               directions and buttons of the joystick                     *)
(*   ui          who reads events: "main", "menu", "dialog", "debugger"     *)
(*               when a key has opened it and "stop" when a stop address or *)
(*               a step has; "quit"; "wild" when the ring has run out of    *)
(*               its bounds, which is undefined                             *)
(*   armed       dbg.stop_enabled or dbg.itrap_enabled: a stop address or a *)
(*               step is due (debugger_run() clears both, and what leaves   *)
(*               it sets one of them at most)                               *)
(*                                                                          *)
(* Remembered for the properties: down, the keys that are held down; got,   *)
(* the event that was read last; altSeen and shiftSeen, what the last event *)
(* of Alt and of Shift that anybody read has told: "down", a press, "up", a *)
(* release, "stray", a release read by somebody who can be open while the   *)
(* handler takes the key for held; astray, the keys whose event that was    *)
(* read last was not for the program; lost, those whose last event found    *)
(* the ring full.                                                           *)
(***************************************************************************)
EXTENDS Integers, Sequences

CONSTANTS Size,       \* WKEYBUF_SIZE
          Cursor,     \* keys that are the joystick as well
          Openers,    \* keys that open a dialog
          Steps,      \* keys that leave the debugger with a stop or a step due
          MaxEvents,  \* a bound on the events of a behaviour
          MaxWaiting  \* a bound on the events that wait at the host

ASSUME KeyboardAssumption ==
  Size \in Nat \ {0, 1} /\ MaxEvents \in Nat /\ MaxWaiting \in Nat

Alt == "LAlt"
Shift == "LShift"
Keys == {Alt, Shift, "Esc", "F12", "L", "U", "W"} \cup Cursor \cup Openers \cup Steps
Event == [key : Keys, press : BOOLEAN]

VARIABLES host, wbuf, wh, wt, lalt, lshift, ui_lock, pressed, joy, ui,
          armed, down, got, altSeen, shiftSeen, astray, lost, events

ring == <<wbuf, wh, wt>>
program == <<pressed, joy>>
held == <<lalt, lshift>>
ghosts == <<got, altSeen, shiftSeen, astray, lost>>
vars == <<host, ring, held, ui_lock, program, ui, armed, down, ghosts, events>>

Init ==
  /\ host = <<>>
  /\ wbuf = [i \in 0..(Size - 1) |-> [key |-> "Esc", press |-> FALSE]]
  /\ wh = 0 /\ wt = 0
  /\ lalt = FALSE /\ lshift = FALSE /\ ui_lock = FALSE
  /\ pressed = {} /\ joy = {}
  /\ ui = "main" /\ armed = FALSE
  /\ down = {} /\ got = <<>> /\ altSeen = "up" /\ shiftSeen = "up"
  /\ astray = {} /\ lost = {} /\ events = 0

(* The user presses or releases a key.                                      *)
User ==
  /\ events < MaxEvents /\ Len(host) < MaxWaiting
  /\ events' = events + 1
  /\ \E k \in Keys :
       /\ down' = IF k \in down THEN down \ {k} ELSE down \cup {k}
       /\ host' = Append(host, [key |-> k, press |-> k \notin down])
  /\ UNCHANGED <<ring, held, ui_lock, program, ui, armed, ghosts>>

(***************************************************************************)
(* w_putkey(): when the ring is full the event is put, but its place is not *)
(* taken.  If that place is the last one, wh is decremented from zero.      *)
(***************************************************************************)
Advanced_NoWrap(i) == i + 1
Advanced(i) == IF i + 1 >= Size THEN 0 ELSE i + 1

PutKey(r, e) ==
  IF r.wh < 0 THEN r
  ELSE [wbuf |-> [r.wbuf EXCEPT ![r.wh] = e],
        wh |-> IF Advanced(r.wh) = r.wt THEN Advanced(r.wh) - 1 ELSE Advanced(r.wh),
        wt |-> r.wt,
        lost |-> IF Advanced(r.wh) = r.wt THEN r.lost \cup {e.key} ELSE r.lost \ {e.key}]

(* mgfx_input_update() puts all that the host holds.                        *)
Puts[i \in 0 .. Len(host)] ==
  IF i = 0 THEN [wbuf |-> wbuf, wh |-> wh, wt |-> wt, lost |-> lost]
  ELSE PutKey(Puts[i - 1], host[i])
Updated == Puts[Len(host)]

(***************************************************************************)
(* key_handler().                                                           *)
(***************************************************************************)
ShiftHeld(e) == IF e.key = Shift THEN e.press ELSE lshift
BothHeld_ShiftIsEnough(e) == ShiftHeld(e) /\ e.press
BothHeld(e) == lalt /\ ShiftHeld(e) /\ e.press
AltHeld_Release(e) == lalt /\ ~ui_lock
AltHeld(e) == lalt /\ e.press /\ ~ui_lock

HandleAlt(e) ==
  /\ e.key = Alt
  /\ lalt' = e.press
  /\ UNCHANGED <<lshift, ui_lock, program, ui, armed>>

(* key_lalt_lshift().                                                       *)
HandleBoth(e) ==
  /\ e.key # Alt
  /\ BothHeld(e)
  /\ lshift' = ShiftHeld(e)
  /\ ui_lock' = CASE e.key = "L" -> TRUE [] e.key = "U" -> FALSE [] OTHER -> ui_lock
  /\ UNCHANGED <<lalt, program, ui, armed>>

(* key_lalt(): the dialog for the name of a recording forgets Alt.          *)
Dialog_KeepsAlt(e) == ui' = (IF e.key = "W" THEN "dialog" ELSE ui) /\ UNCHANGED lalt
Dialog(e) ==
  IF e.key = "W" THEN ui' = "dialog" /\ lalt' = FALSE
  ELSE UNCHANGED <<ui, lalt>>

HandleWithAlt(e) ==
  /\ e.key # Alt
  /\ ~BothHeld(e) /\ AltHeld(e)
  /\ lshift' = ShiftHeld(e)
  /\ Dialog(e)
  /\ UNCHANGED <<ui_lock, program, armed>>

(* zx_key_state_set(), key_joy_state_set(), and key_unmod(), whose keys     *)
(* other than those that open something are not of interest here; the       *)
(* debugger forgets the stop address or the step that was due.              *)
Opened(k) ==
  CASE k = "Esc" -> "menu"
    [] k = "F12" -> "debugger"
    [] k \in Openers \ {"Esc", "F12"} -> "dialog"
    [] OTHER -> ui

StateSet(keys, e) == IF e.press THEN keys \cup {e.key} ELSE keys \ {e.key}
JoyStateSet(e) == IF e.key \in Cursor THEN StateSet(joy, e) ELSE joy

HandleKey(e) ==
  /\ e.key # Alt
  /\ ~BothHeld(e) /\ ~AltHeld(e)
  /\ lshift' = ShiftHeld(e)
  /\ pressed' = StateSet(pressed, e)
  /\ joy' = JoyStateSet(e)
  /\ ui' = IF e.press /\ ~ui_lock THEN Opened(e.key) ELSE ui
  /\ armed' = (armed /\ ui' # "debugger")
  /\ UNCHANGED <<lalt, ui_lock>>

KeyHandler(e) ==
  /\ ui = "main"
  /\ HandleAlt(e) \/ HandleBoth(e) \/ HandleWithAlt(e) \/ HandleKey(e)

(* menu_run() in the main menu: an entry is carried out, or the menu goes   *)
(* on; U is the entry that locks the user interface.                        *)
MenuKey(e) ==
  /\ ui = "menu"
  /\ \/ ui' = "menu" /\ (e.press => e.key \notin {"Esc", "U"}) /\ UNCHANGED ui_lock
     \/ ui' = "main" /\ e.press /\ e.key = "Esc" /\ UNCHANGED ui_lock
     \/ ui' = "main" /\ e.press /\ e.key = "U" /\ ui_lock' = TRUE
     \/ ui' = "dialog" /\ e.press /\ e.key = "L" /\ UNCHANGED ui_lock
  /\ UNCHANGED <<held, program, armed>>

(* Dialogs end with a key of their own.                                     *)
DialogKey(e) ==
  /\ ui = "dialog"
  /\ ui' = IF e.press /\ e.key = "Esc" THEN "main" ELSE "dialog"
  /\ UNCHANGED <<held, ui_lock, program, armed>>

(* debugger_run(): Esc leaves the debugger, unless it leaves a line of text *)
(* or a view in it; the keys that trace, step over a call or run to the     *)
(* cursor leave it with a step or a stop address due, unless a line of text *)
(* takes them.                                                              *)
DebuggerKey(e) ==
  /\ ui \in {"debugger", "stop"}
  /\ \/ UNCHANGED <<ui, armed>>
     \/ e.press /\ e.key = "Esc" /\ ui' = "main" /\ UNCHANGED armed
     \/ e.press /\ e.key \in Steps /\ ui' = "main" /\ armed' = TRUE
  /\ UNCHANGED <<held, ui_lock, program>>

(* zx_proc_instr(): the stop address is met or the step is done, when all   *)
(* keys of the field have been handled.  Nobody asks for Alt or the lock.   *)
Stop ==
  /\ ui = "main" /\ armed
  /\ wh = wt
  /\ ui' = "stop" /\ armed' = FALSE
  /\ UNCHANGED <<host, ring, held, ui_lock, program, down, ghosts, events>>

(* Who does not pass the event on to the program: a menu, or the handler    *)
(* for a key that is pressed with Alt.                                      *)
Diverted(e) == ui # "main" \/ (e.press /\ lalt /\ (ShiftHeld(e) \/ ~ui_lock))

(* What an event of Alt or Shift tells whoever reads it.                    *)
Seen(e, strays) == IF e.press THEN "down" ELSE IF ui \in strays THEN "stray" ELSE "up"

(* w_getkey() and what its caller does with the event.                      *)
Read ==
  /\ ui \notin {"wild", "quit"}
  /\ LET r == Updated IN
     /\ r.wh >= 0 /\ r.wh # r.wt
     /\ host' = <<>>
     /\ wbuf' = r.wbuf /\ wh' = r.wh /\ wt' = Advanced(r.wt)
     /\ LET e == r.wbuf[r.wt] IN
        /\ KeyHandler(e) \/ MenuKey(e) \/ DialogKey(e) \/ DebuggerKey(e)
        /\ got' = <<e>>
        /\ altSeen' = IF e.key = Alt THEN Seen(e, {"stop"}) ELSE altSeen
        /\ shiftSeen' = IF e.key = Shift
                        THEN Seen(e, {"menu", "dialog", "debugger", "stop"}) ELSE shiftSeen
        /\ astray' = IF Diverted(e) THEN astray \cup {e.key} ELSE astray \ {e.key}
     /\ lost' = r.lost
  /\ UNCHANGED <<down, events>>

Overrun ==
  /\ ui \notin {"wild", "quit"}
  /\ Updated.wh < 0
  /\ ui' = "wild"
  /\ UNCHANGED <<host, ring, held, ui_lock, program, armed, down, ghosts, events>>

(* F10 and the entry of the main menu.                                      *)
Quit ==
  /\ ui \in {"main", "menu"}
  /\ ~ui_lock
  /\ ui' = "quit"
  /\ UNCHANGED <<host, ring, held, ui_lock, program, armed, down, ghosts, events>>

Next == User \/ Read \/ Stop \/ Overrun \/ Quit

Spec == Init /\ [][Next]_vars

TypeOK ==
  /\ host \in Seq(Event)
  /\ wbuf \in [0..(Size - 1) -> Event]
  /\ wh \in 0..(Size - 1) /\ wt \in 0..(Size - 1)
  /\ lalt \in BOOLEAN /\ lshift \in BOOLEAN /\ ui_lock \in BOOLEAN
  /\ pressed \subseteq Keys /\ joy \subseteq Cursor
  /\ ui \in {"main", "menu", "dialog", "debugger", "stop", "quit", "wild"}
  /\ armed \in BOOLEAN
  /\ altSeen \in {"up", "down", "stray"} /\ shiftSeen \in {"up", "down", "stray"}
  /\ down \subseteq Keys /\ astray \subseteq Keys /\ lost \subseteq Keys

(***************************************************************************)
(* Properties.                                                              *)
(***************************************************************************)

(* The ring and the host's events are one queue: events are read in their   *)
(* order, and only those behind a full ring are lost (w_putkey(),           *)
(* w_getkey()), unless the ring overflows at its end.                       *)
Waiting == IF wh >= wt THEN wh - wt ELSE wh + Size - wt
Place(i) == IF wt + i - 1 < Size THEN wt + i - 1 ELSE wt + i - 1 - Size
InRing == [i \in 1..Waiting |-> wbuf[Place(i)]]
Queue == INSTANCE KeyQueue WITH q <- InRing \o host, Room <- Size - 1
InOrder == Queue!Spec

(* When all events have been read, the program sees exactly the keys that   *)
(* are held down, and the joystick those of them that are its own, but for  *)
(* keys whose last event was read by a menu, was lost, or was pressed with  *)
(* Alt (key_handler()).                                                     *)
KeysFollow ==
  host = <<>> /\ wh = wt =>
    /\ pressed \ (astray \cup lost) = down \ (astray \cup lost \cup {Alt})
    /\ joy = pressed \cap Cursor

(* The handler takes Alt for held only if the last event of Alt that was    *)
(* read is a press, or its release was read by a debugger that a stop       *)
(* address or a step had opened: no menu, no dialog and no debugger that a  *)
(* key opens finds Alt held, but the one that forgets it (gzx.c:216).  What *)
(* opens in zx_proc_instr() does not ask, and debugger_run() forgets        *)
(* nothing (gzx.c:516, 537, debug.c:809).                                   *)
AltIsReal == lalt => altSeen # "up"

(* While the user interface is locked (README.md:70), whoever is open:      *)
(*   - no menu and no dialog opens and nothing quits; the debugger opens    *)
(*     only for a stop address or a step, and only the debugger leaves one; *)
(*   - every key that the handler reads goes to the program, but Alt, and   *)
(*     what is pressed while Alt and Shift are taken for held;              *)
(*   - only U, pressed while they are, unlocks it;                          *)
(* where a key that is taken for held is one whose last event read was a    *)
(* press, or a release that somebody else than the handler has read.        *)
WithAltAndShift(e) == e.press /\ altSeen # "up" /\ shiftSeen' # "up"

LockKept ==
  /\ \/ ui' \in {"main", "wild"}
     \/ ui' = "stop" /\ (ui = "stop" \/ armed)
  /\ armed' => armed \/ ui = "stop"
  /\ wt' = wt \/ ui # "main" => ui_lock' /\ UNCHANGED pressed
  /\ wt' # wt /\ ui = "main" =>
       LET e == got'[1] IN
       \/ e.key # Alt /\ pressed' = StateSet(pressed, e) /\ ui_lock'
       \/ e.key = Alt /\ UNCHANGED pressed /\ ui_lock'
       \/ WithAltAndShift(e) /\ UNCHANGED pressed /\ (~ui_lock' => e.key = "U")
LockHolds == [][ui_lock => LockKept]_vars
=============================================================================
