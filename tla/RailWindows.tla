----------------------------- MODULE RailWindows -----------------------------
(***************************************************************************)
(* Where one window of a remote application is: at the server, in the      *)
(* client's RAIL window (libfreerdp-rail), in its X window                 *)
(* (client/X11/xf_rail.c, xf_window.c, xf_event.c) and on the X server.    *)
(* The server's application, the user with the window manager, and local   *)
(* moves (the server asks the window manager to move the window) change    *)
(* it; window orders, move orders and X events carry it, each in a queue   *)
(* of its own.  One dimension stands for both.                             *)
(***************************************************************************)
EXTENDS Integers, Sequences

CONSTANTS
    Places,     \* rectangles [x, w] the server's application and the user put the window at
    MaxServer,  \* bound: moves of the server's application and local moves
    MaxUser,    \* bound: moves by the user
    MaxTold     \* bound: moves of the window manager told to the server

ASSUME RwAssumption == Places \subseteq [x : Int, w : Nat \ {0}] /\ {MaxServer, MaxUser, MaxTold} \subseteq Nat

VARIABLES
    rwServer,   \* the server's window
    rwModal,    \* the server is in a local move
    rwWin,      \* rdpWindow: windowOffset and windowWidth
    rwXf,       \* xfWindow: left, width (right = left + width - 1)
    rwX,        \* the window on the X server
    rwShown,    \* the window is mapped on the X server
    rwLms,      \* local_move.state
    rwMapped,   \* is_mapped
    rwDrag,     \* the window manager moves the window for a local move
    rwDown,     \* orders to the client
    rwUp,       \* messages to the server
    rwEvents,   \* X events
    rwLeft,     \* what is left of the bounds: [server, user, told]
    rwCut       \* history: when a local move ended the client's windows were not in one place

rwVars == <<rwServer, rwModal, rwWin, rwXf, rwX, rwShown, rwLms, rwMapped, rwDrag, rwDown, rwUp,
            rwEvents, rwLeft, rwCut>>

Rect(x, w) == [x |-> x, w |-> w]
Order(is, r) == [is |-> is, at |-> r]
NoPlace == Rect(0, 0)

RwInit ==
    /\ rwServer \in Places /\ rwWin = rwServer /\ rwXf = rwServer /\ rwX = rwServer
    /\ rwModal = FALSE /\ rwShown = TRUE /\ rwLms = "none" /\ rwMapped = TRUE /\ rwDrag = FALSE
    /\ rwDown = <<>> /\ rwUp = <<>> /\ rwEvents = <<>>
    /\ rwLeft = [server |-> MaxServer, user |-> MaxUser, told |-> MaxTold] /\ rwCut = FALSE

(* The X server puts the window somewhere; a change is reported with the   *)
(* size.                                                                   *)
XPuts(r) ==
    /\ rwX' = r
    /\ rwEvents' = IF r = rwX THEN rwEvents ELSE Append(rwEvents, Order("configure", r))

-----------------------------------------------------------------------------
(* The server.                                                             *)
serverSide == <<rwWin, rwXf, rwX, rwShown, rwLms, rwMapped, rwDrag, rwEvents, rwCut>>

ServerMoves(r) ==
    /\ rwLeft.server > 0 /\ ~rwModal /\ r # rwServer
    /\ rwLeft' = [rwLeft EXCEPT !.server = @ - 1]
    /\ rwServer' = r /\ rwDown' = Append(rwDown, Order("update", r))
    /\ UNCHANGED <<rwModal, rwUp, serverSide>>

ServerStartsMove ==
    /\ rwLeft.server > 0 /\ ~rwModal /\ rwLeft' = [rwLeft EXCEPT !.server = @ - 1]
    /\ rwModal' = TRUE /\ rwDown' = Append(rwDown, Order("start", NoPlace))
    /\ UNCHANGED <<rwServer, rwUp, serverSide>>

ServerTakes ==
    /\ rwUp # <<>> /\ rwUp' = Tail(rwUp)
    /\ \/ /\ Head(rwUp).is = "move" /\ rwServer' = Head(rwUp).at /\ UNCHANGED rwModal
          /\ rwDown' = (IF rwServer' = rwServer THEN rwDown ELSE Append(rwDown, Order("update", rwServer')))
       \/ /\ Head(rwUp).is = "up" /\ rwModal' = FALSE /\ UNCHANGED rwServer
          /\ rwDown' = (IF rwModal THEN Append(rwDown, Order("end", NoPlace)) ELSE rwDown)
    /\ UNCHANGED <<rwLeft, serverSide>>

-----------------------------------------------------------------------------
(* The user and the window manager.                                        *)
userSide == <<rwServer, rwModal, rwWin, rwXf, rwLms, rwMapped, rwDown, rwUp, rwCut>>

UserMoves(r) ==
    /\ rwLeft.user > 0 /\ r # rwX /\ rwShown /\ rwLeft' = [rwLeft EXCEPT !.user = @ - 1]
    /\ XPuts(r) /\ UNCHANGED <<rwShown, rwDrag, userSide>>

(* The button goes up: the window manager's move is over and the window    *)
(* hears of the pointer again, or, when it was not moving, of the button.  *)
(* As long as the server does not hear of it, the user clicks again.       *)
UserLetsGo ==
    /\ rwModal /\ \A i \in DOMAIN rwEvents : rwEvents[i].is \notin {"enter", "button"}
    /\ \A i \in DOMAIN rwUp : rwUp[i].is # "up"
    /\ rwDrag' = FALSE /\ rwEvents' = Append(rwEvents, Order(IF rwDrag THEN "enter" ELSE "button", NoPlace))
    /\ UNCHANGED <<rwX, rwShown, rwLeft, userSide>>

UserHides ==
    /\ rwLeft.user > 0 /\ rwLeft' = [rwLeft EXCEPT !.user = @ - 1]
    /\ rwShown' = ~rwShown /\ rwEvents' = Append(rwEvents, Order(IF rwShown THEN "unmap" ELSE "map", NoPlace))
    /\ UNCHANGED <<rwX, rwDrag, userSide>>

-----------------------------------------------------------------------------
(* The client takes an order of the server.  A window order moves the X    *)
(* window unless it is there already or a local move is under way.         *)
xf_MoveWindow(r) ==
    \/ /\ r.w < 1 \/ rwLms \in {"starting", "active"}
       /\ UNCHANGED <<rwXf, rwX, rwEvents>>
    \/ /\ r.w >= 1 /\ rwLms \notin {"starting", "active"}
       /\ rwXf' = r /\ XPuts(r)

xf_rail_MoveWindow(r) ==
    \/ rwXf = r /\ UNCHANGED <<rwXf, rwX, rwEvents>>
    \/ rwXf # r /\ xf_MoveWindow(r)

window_list_update(r) == rwWin' = r /\ xf_rail_MoveWindow(r) /\ UNCHANGED <<rwLms, rwDrag, rwCut>>

xf_StartLocalMoveSize ==
    /\ rwLms' = (IF rwLms = "none" THEN "starting" ELSE rwLms)
    /\ rwDrag' = (rwDrag \/ rwLms = "none")
    /\ UNCHANGED <<rwWin, rwXf, rwX, rwEvents, rwCut>>

(* Mutant: a move that the client has ended stays that way.                *)
xf_EndLocalMoveSize_terminating ==
    /\ rwLms' = (IF rwLms = "terminating" THEN rwLms ELSE "none") /\ rwDrag' = (rwDrag /\ rwLms # "starting")
    /\ rwCut' = (rwCut \/ (rwLms # "none" /\ (rwXf # rwWin \/ rwX # rwXf)))
    /\ UNCHANGED <<rwWin, rwXf, rwX, rwEvents>>

(* A move that never started is taken back from the window manager.        *)
xf_EndLocalMoveSize ==
    /\ rwLms' = "none" /\ rwDrag' = (rwDrag /\ rwLms # "starting")
    /\ rwCut' = (rwCut \/ (rwLms # "none" /\ (rwXf # rwWin \/ rwX # rwXf)))
    /\ UNCHANGED <<rwWin, rwXf, rwX, rwEvents>>

ClientTakes ==
    /\ rwDown # <<>> /\ rwDown' = Tail(rwDown)
    /\ \/ Head(rwDown).is = "update" /\ window_list_update(Head(rwDown).at)
       \/ Head(rwDown).is = "start" /\ xf_StartLocalMoveSize
       \/ Head(rwDown).is = "end" /\ xf_EndLocalMoveSize
    /\ UNCHANGED <<rwServer, rwModal, rwShown, rwMapped, rwUp, rwLeft>>

-----------------------------------------------------------------------------
(* The client takes an X event.  A window the user moved is told to the    *)
(* server, with its last column where the end of a local move names the    *)
(* one after it.                                                           *)
xf_rail_adjust_position(xf) ==
    IF rwMapped /\ rwLms = "none" /\ xf # rwWin
      THEN /\ rwLeft.told > 0 /\ rwLeft' = [rwLeft EXCEPT !.told = @ - 1]
           /\ rwUp' = Append(rwUp, Order("move", Rect(xf.x, xf.w - 1)))
      ELSE UNCHANGED <<rwUp, rwLeft>>

(* The position is the present one, the size that of the event.            *)
xf_event_ConfigureNotify(e) ==
    /\ rwXf' = Rect(rwX.x, e.at.w)
    /\ xf_rail_adjust_position(rwXf')
    /\ rwLms' = (IF rwLms = "starting" THEN "active" ELSE rwLms)
    /\ UNCHANGED <<rwWin, rwMapped>>

xf_rail_end_local_move ==
    /\ rwUp' = rwUp \o <<Order("move", rwXf), Order("up", NoPlace)>>
    /\ rwWin' = rwXf /\ rwLms' = "terminating"

(* Any other event ends a local move that is under way; a pointer event    *)
(* while one starts is eaten.                                              *)
xf_event_suppress_events(e) ==
    \/ rwLms = "active" /\ xf_rail_end_local_move
    \/ /\ rwLms # "active" /\ UNCHANGED <<rwWin, rwLms>>
       /\ rwUp' = IF e.is = "button" THEN Append(rwUp, Order("up", NoPlace)) ELSE rwUp

xf_event_Other(e) ==
    /\ xf_event_suppress_events(e)
    /\ rwMapped' = (IF e.is \in {"map", "unmap"} /\ ~(rwLms = "starting" /\ e.is = "map")
                      THEN e.is = "map" ELSE rwMapped)
    /\ UNCHANGED <<rwXf, rwLeft>>

ClientEvent ==
    /\ rwEvents # <<>> /\ rwEvents' = Tail(rwEvents)
    /\ LET e == Head(rwEvents) IN
       \/ e.is = "configure" /\ xf_event_ConfigureNotify(e)
       \/ e.is # "configure" /\ xf_event_Other(e)
    /\ UNCHANGED <<rwServer, rwModal, rwX, rwShown, rwDrag, rwDown, rwCut>>

RwNext ==
    \/ \E r \in Places : ServerMoves(r) \/ UserMoves(r)
    \/ ServerStartsMove \/ ServerTakes \/ UserLetsGo \/ UserHides \/ ClientTakes \/ ClientEvent

RwSpec == RwInit /\ [][RwNext]_rwVars
RwFairness == /\ WF_rwVars(ServerTakes) /\ WF_rwVars(ClientTakes)
                  /\ WF_rwVars(ClientEvent) /\ WF_rwVars(UserLetsGo)
RwFairSpec == RwSpec /\ RwFairness

-----------------------------------------------------------------------------
RwTypeOK ==
    /\ {rwServer, rwWin, rwXf, rwX} \subseteq [x : Int, w : Int]
    /\ rwLms \in {"none", "starting", "active", "terminating"}
    /\ {rwModal, rwShown, rwMapped, rwDrag} \subseteq BOOLEAN

Quiet == rwDown = <<>> /\ rwUp = <<>> /\ rwEvents = <<>> /\ ~rwModal

(* Once every order, message and event is taken the four places agree,     *)
(* whoever moved the window last and whatever crossed on the way, unless a *)
(* local move ended with the window elsewhere - but for one column: a      *)
(* window the user made one wider is told with the size it had, which is   *)
(* no news to the server.                                                  *)
PlacesAgree ==
    Quiet /\ rwMapped /\ ~rwCut =>
      /\ rwLms = "none" /\ rwServer = rwWin /\ rwXf = rwX
      /\ rwX \in {rwServer, Rect(rwServer.x, rwServer.w + 1)}

(* Every local move ends: the server leaves it and the client too.         *)
LocalMoveEnds == rwModal ~> (~rwModal /\ rwLms = "none")
=============================================================================
