------------------------------- MODULE XfInput -------------------------------
(***************************************************************************)
(* Keys from the X server to the session (client/X11/xf_event.c,           *)
(* xf_keyboard.c).  X reports what happens while the window has the focus; *)
(* the client takes the events one by one, leaves out the release of a key *)
(* that repeats, keeps pressed_keys, and tells the session keys and the    *)
(* state of the lock keys.                                                 *)
(***************************************************************************)
EXTENDS Naturals, Sequences

CONSTANTS
    Keys,     \* keys of the keyboard: some of "ctrl", "alt", "enter", "pause", "caps", "other"
    MaxKeys,  \* bound: keys pressed
    MaxLag,   \* bound: events not yet taken
    MaxFocus  \* bound: changes of the focus

ASSUME XiAssumption == MaxKeys \in Nat /\ MaxLag \in Nat /\ MaxFocus \in Nat

VARIABLES
    xiDown,     \* keys that are held
    xiCaps,     \* the X server's caps lock
    xiFocus,    \* the window has the focus
    xiEvents,   \* events not yet taken: [is, key]
    xiPressed,  \* pressed_keys
    xiServer,   \* keys the session holds
    xiSrvCaps,  \* the session's caps lock
    xiFull,     \* the window is fullscreen
    xiApp,      \* remote_app
    xiLeft,     \* history: keys held when the focus went
    xiBreak,    \* history: ctrl was released before pause
    xiCount     \* keys pressed and changes of the focus so far

xiVars == <<xiDown, xiCaps, xiFocus, xiEvents, xiPressed, xiServer, xiSrvCaps, xiFull, xiApp,
            xiLeft, xiBreak, xiCount>>

XiInit ==
    /\ xiDown = {} /\ xiCaps = FALSE /\ xiFocus = TRUE /\ xiEvents = <<>> /\ xiPressed = {}
    /\ xiServer = {} /\ xiSrvCaps = FALSE /\ xiFull = FALSE /\ xiApp \in BOOLEAN
    /\ xiLeft = {} /\ xiBreak = FALSE /\ xiCount = [keys |-> 0, focus |-> 0]

Event(is, k) == [is |-> is, key |-> k]

-----------------------------------------------------------------------------
(* The user: presses, holds (the key repeats), releases, goes elsewhere.   *)
Reports(events) ==
    IF xiFocus THEN Len(xiEvents \o events) <= MaxLag /\ xiEvents' = xiEvents \o events
    ELSE UNCHANGED xiEvents

Presses(k) ==
    /\ k \notin xiDown /\ xiCount.keys < MaxKeys /\ xiCount' = [xiCount EXCEPT !.keys = @ + 1]
    /\ xiDown' = xiDown \union {k}
    /\ xiCaps' = IF k = "caps" THEN ~xiCaps ELSE xiCaps
    /\ Reports(<<Event("KeyPress", k)>>)
    /\ UNCHANGED <<xiFocus, xiPressed, xiServer, xiSrvCaps, xiFull, xiApp, xiLeft, xiBreak>>

Repeats(k) ==
    /\ k \in xiDown /\ xiCount.keys < MaxKeys /\ xiCount' = [xiCount EXCEPT !.keys = @ + 1]
    /\ Reports(<<Event("KeyRelease", k), Event("KeyPress", k)>>)
    /\ UNCHANGED <<xiDown, xiCaps, xiFocus, xiPressed, xiServer, xiSrvCaps, xiFull, xiApp, xiLeft, xiBreak>>

Releases(k) ==
    /\ k \in xiDown /\ xiDown' = xiDown \ {k} /\ Reports(<<Event("KeyRelease", k)>>)
    /\ UNCHANGED <<xiCaps, xiFocus, xiPressed, xiServer, xiSrvCaps, xiFull, xiApp, xiLeft, xiBreak, xiCount>>

LosesFocus ==
    /\ xiFocus /\ xiFocus' = FALSE /\ xiLeft' = xiLeft \union xiDown
    /\ xiEvents' = Append(xiEvents, Event("FocusOut", "none"))
    /\ UNCHANGED <<xiDown, xiCaps, xiPressed, xiServer, xiSrvCaps, xiFull, xiApp, xiBreak, xiCount>>

GetsFocus ==
    /\ ~xiFocus /\ xiCount.focus < MaxFocus /\ xiCount' = [xiCount EXCEPT !.focus = @ + 1]
    /\ xiFocus' = TRUE /\ xiEvents' = Append(xiEvents, Event("FocusIn", "none"))
    /\ UNCHANGED <<xiDown, xiCaps, xiPressed, xiServer, xiSrvCaps, xiFull, xiApp, xiLeft, xiBreak>>

-----------------------------------------------------------------------------
(* What a key does to the session: ctrl+break is a key of its own, pause   *)
(* alone is pressed and released at once; when caps lock is released the   *)
(* state of the lock keys follows, as X has it now - except in remote      *)
(* application mode, where it is not asked.                                *)
xf_kbd_get_toggle_keys_state == ~xiApp /\ xiCaps

xf_kbd_send_key(down, k, pressed) ==
    LET lone == k = "pause" /\ "ctrl" \notin pressed IN
    /\ xiServer' = (IF lone THEN xiServer \ {"ctrl"}
                    ELSE IF down THEN xiServer \union {k} ELSE xiServer \ {k})
    /\ xiSrvCaps' = (IF k # "caps" THEN xiSrvCaps
                     ELSE IF down THEN (IF "caps" \in xiServer THEN xiSrvCaps ELSE ~xiSrvCaps)
                     ELSE xf_kbd_get_toggle_keys_state)
    /\ xiBreak' = (xiBreak \/ (lone /\ "pause" \in xiServer))

xf_kbd_handle_special_keys(k, pressed) == k = "enter" /\ {"ctrl", "alt"} \subseteq pressed

xf_event_KeyPress(k) ==
    /\ xiPressed' = xiPressed \union {k}
    /\ \/ /\ xf_kbd_handle_special_keys(k, xiPressed') /\ xiFull' = ~xiFull
          /\ UNCHANGED <<xiServer, xiSrvCaps, xiBreak>>
       \/ /\ ~xf_kbd_handle_special_keys(k, xiPressed') /\ xf_kbd_send_key(TRUE, k, xiPressed')
          /\ UNCHANGED xiFull

(* A release directly before another press of the key is left out.         *)
xf_event_KeyRelease(k) ==
    /\ \/ /\ Len(xiEvents) > 1 /\ xiEvents[2] = Event("KeyPress", k)
          /\ UNCHANGED <<xiPressed, xiServer, xiSrvCaps, xiBreak>>
       \/ /\ ~(Len(xiEvents) > 1 /\ xiEvents[2] = Event("KeyPress", k))
          /\ xiPressed' = xiPressed \ {k} /\ xf_kbd_send_key(FALSE, k, xiPressed')
    /\ UNCHANGED xiFull

xf_event_FocusIn ==
    /\ xiSrvCaps' = xf_kbd_get_toggle_keys_state
    /\ UNCHANGED <<xiPressed, xiServer, xiFull, xiBreak>>

(* Nothing is told to the session; what is held stays held there.          *)
xf_event_FocusOut == UNCHANGED <<xiPressed, xiServer, xiSrvCaps, xiFull, xiBreak>>

xf_event_process ==
    /\ xiEvents # <<>> /\ xiEvents' = Tail(xiEvents)
    /\ LET e == Head(xiEvents) IN
       \/ e.is = "KeyPress" /\ xf_event_KeyPress(e.key)
       \/ e.is = "KeyRelease" /\ xf_event_KeyRelease(e.key)
       \/ e.is = "FocusIn" /\ xf_event_FocusIn
       \/ e.is = "FocusOut" /\ xf_event_FocusOut
    /\ UNCHANGED <<xiDown, xiCaps, xiFocus, xiApp, xiLeft, xiCount>>

XiNext ==
    \/ \E k \in Keys : Presses(k) \/ Repeats(k) \/ Releases(k)
    \/ LosesFocus \/ GetsFocus \/ xf_event_process

XiSpec == XiInit /\ [][XiNext]_xiVars

-----------------------------------------------------------------------------
XiTypeOK ==
    /\ xiDown \subseteq Keys /\ xiPressed \subseteq Keys /\ xiServer \subseteq Keys
    /\ xiCaps \in BOOLEAN /\ xiSrvCaps \in BOOLEAN /\ xiFocus \in BOOLEAN

(* Once every event is taken the session holds no key that is not held,    *)
(* but those left when the focus went, and the break key released after    *)
(* ctrl; leaving out repeats hides no release.                             *)
NoKeyHangs ==
    xiEvents = <<>> /\ xiFocus =>
      xiServer \subseteq xiDown \union xiLeft \union (IF xiBreak THEN {"pause"} ELSE {})

(* Lock keys: once the events are taken and caps lock is not held, the     *)
(* session's caps lock is the X server's, however the key was pressed and  *)
(* wherever the focus was meanwhile; a remote application's is off.        *)
CapsLockAgrees ==
    xiEvents = <<>> /\ xiFocus /\ "caps" \notin xiDown \union xiServer =>
      xiSrvCaps = (~xiApp /\ xiCaps)
=============================================================================
