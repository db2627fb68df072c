----------------------------- MODULE Clipboard ------------------------------
(***************************************************************************)
(* The clipboard of the X11 client (xf_cliprdr.c) in both directions.      *)
(***************************************************************************)
EXTENDS Integers, Sequences

-----------------------------------------------------------------------------
(* The server's clipboard offered to X programs (client/X11/xf_cliprdr.c,  *)
(* channels/cliprdr).  The server announces formats; the client becomes    *)
(* the owner of CLIPBOARD, answers a program's request from what it has    *)
(* cached, or asks the server and delays the answer; one answer at a time  *)
(* can be delayed.  Contents are the number of the copy they come from.    *)

CONSTANTS
    Formats,    \* formats both the server and X know
    MaxCopies,  \* bound: copies made on the server
    MaxRequests \* bound: requests of X programs

ASSUME CoAssumption == MaxCopies \in Nat /\ MaxRequests \in Nat

VARIABLES
    coCopy,    \* the server's clipboard: [v, formats]
    coDown,    \* messages from the server, in order
    coUp,      \* data requests to the server, in order
    coOwner,   \* the client owns CLIPBOARD
    coList,    \* formats, with the copy they were announced for
    coData,    \* data: the copy cached, 0 if none
    coFormat,  \* data_format
    coRespond, \* respond: the request whose answer is delayed, 0 if none
    coAsked,   \* what X programs asked for
    coAnswers  \* history: answers to each request, with the list's copy then

coVars == <<coCopy, coDown, coUp, coOwner, coList, coData, coFormat, coRespond, coAsked, coAnswers>>

CoInit ==
    /\ coCopy = [v |-> 0, formats |-> {}] /\ coDown = <<>> /\ coUp = <<>>
    /\ coOwner = FALSE /\ coList = [v |-> 0, formats |-> {}]
    /\ coData = 0 /\ coFormat = "none" /\ coRespond = 0
    /\ coAsked = <<>> /\ coAnswers = <<>>

-----------------------------------------------------------------------------
(* The server: something is copied and announced; a request is answered    *)
(* from what it holds by then, not at all well, or with a failure.         *)
ServerCopies(formats) ==
    /\ coCopy.v < MaxCopies
    /\ coCopy' = [v |-> coCopy.v + 1, formats |-> formats]
    /\ coDown' = Append(coDown, [is |-> "list", copy |-> coCopy'])
    /\ UNCHANGED <<coUp, coOwner, coList, coData, coFormat, coRespond, coAsked, coAnswers>>

ServerAnswers ==
    /\ coUp # <<>> /\ coUp' = Tail(coUp)
    /\ \E good \in BOOLEAN :
         coDown' = Append(coDown,
            IF Head(coUp) \in coCopy.formats
            THEN [is |-> "data", v |-> coCopy.v, good |-> good] ELSE [is |-> "data", v |-> 0, good |-> TRUE])
    /\ UNCHANGED <<coCopy, coOwner, coList, coData, coFormat, coRespond, coAsked, coAnswers>>

-----------------------------------------------------------------------------
Nothing == 0   \* the program is told there is none
NullData == -1     \* the program is given null data

AnswerData(r, what) == [coAnswers EXCEPT ![r] = Append(@, [with |-> what, list |-> coList.v])]

(* Mutant: what is cached stays.                                           *)
format_list_event_cached ==
    /\ coDown # <<>> /\ Head(coDown).is = "list" /\ coDown' = Tail(coDown)
    /\ coList' = Head(coDown).copy /\ coData' = coData /\ coOwner' = TRUE
    /\ UNCHANGED <<coCopy, coUp, coFormat, coRespond, coAsked, coAnswers>>

(* A format list: what was cached is dropped, the selection taken.         *)
xf_cliprdr_process_cb_format_list_event ==
    /\ coDown # <<>> /\ Head(coDown).is = "list" /\ coDown' = Tail(coDown)
    /\ coList' = Head(coDown).copy /\ coData' = 0 /\ coOwner' = TRUE
    /\ UNCHANGED <<coCopy, coUp, coFormat, coRespond, coAsked, coAnswers>>

(* Data: kept, and given to the program that waits.  Data that cannot be   *)
(* converted (a short bitmap, HTML without its header) leaves nothing to   *)
(* give, yet something is given.                                           *)
xf_cliprdr_process_cb_data_response_event ==
    /\ coDown # <<>> /\ Head(coDown).is = "data" /\ coDown' = Tail(coDown)
    /\ IF coRespond = 0 THEN UNCHANGED <<coData, coAnswers>>
       ELSE LET m == Head(coDown) IN
            \/ m.v = 0 /\ coAnswers' = AnswerData(coRespond, Nothing) /\ UNCHANGED coData
            \/ m.v > 0 /\ m.good /\ coData' = m.v /\ coAnswers' = AnswerData(coRespond, m.v)
            \/ m.v > 0 /\ ~m.good /\ coData' = 0 /\ coAnswers' = AnswerData(coRespond, NullData)
    /\ coRespond' = 0
    /\ UNCHANGED <<coCopy, coUp, coOwner, coList, coFormat, coAsked>>

(* An X program asks for a format.                                         *)
xf_cliprdr_process_selection_request(f) ==
    LET r == Len(coAsked) + 1
        asked == Append(coAsked, f)
        told(what) == Append(coAnswers, what)
        now(what) == told(<<[with |-> what, list |-> coList.v]>>)
    IN  /\ coOwner /\ r <= MaxRequests /\ coAsked' = asked
        /\ \/ /\ f \notin coList.formats /\ coAnswers' = now(Nothing)
              /\ UNCHANGED <<coUp, coData, coFormat, coRespond>>
           \/ /\ f \in coList.formats /\ coData # 0 /\ f = coFormat
              /\ coAnswers' = now(coData)
              /\ UNCHANGED <<coUp, coData, coFormat, coRespond>>
           \/ /\ f \in coList.formats /\ (coData = 0 \/ f # coFormat) /\ coRespond # 0
              /\ coAnswers' = now(Nothing)
              /\ UNCHANGED <<coUp, coData, coFormat, coRespond>>
           \/ /\ f \in coList.formats /\ (coData = 0 \/ f # coFormat) /\ coRespond = 0
              /\ coAnswers' = told(<<>>)
              /\ coRespond' = r /\ coFormat' = f /\ coData' = 0 /\ coUp' = Append(coUp, f)
        /\ UNCHANGED <<coCopy, coDown, coOwner, coList>>

(* Another X program takes the selection; what is cached stays.            *)
xf_cliprdr_process_selection_clear ==
    /\ coOwner /\ coOwner' = FALSE
    /\ UNCHANGED <<coCopy, coDown, coUp, coList, coData, coFormat, coRespond, coAsked, coAnswers>>

CoNext ==
    \/ \E formats \in SUBSET Formats : ServerCopies(formats)
    \/ ServerAnswers
    \/ xf_cliprdr_process_cb_format_list_event \/ xf_cliprdr_process_cb_data_response_event
    \/ \E f \in Formats : xf_cliprdr_process_selection_request(f)
    \/ xf_cliprdr_process_selection_clear

CoSpec == CoInit /\ [][CoNext]_coVars

(* The server answers, and the client's loop takes what has come.          *)
CoFairness ==
    /\ WF_coVars(ServerAnswers)
    /\ WF_coVars(xf_cliprdr_process_cb_format_list_event)
    /\ WF_coVars(xf_cliprdr_process_cb_data_response_event)
CoFairSpec == CoSpec /\ CoFairness

-----------------------------------------------------------------------------
CoTypeOK ==
    /\ coData \in 0 .. MaxCopies /\ coRespond \in 0 .. Len(coAsked)
    /\ coOwner \in BOOLEAN /\ coFormat \in Formats \union {"none"}
    /\ DOMAIN coAnswers = DOMAIN coAsked

(* What is cached belongs to the list in force, although lists and data    *)
(* cross on their way: a program never pastes an older copy.               *)
CacheIsCurrent == coData # 0 => coData = coList.v

(* A request is answered once, and with the copy of the list in force - or *)
(* with nothing, or with the null data of an answer that was no good.      *)
PastedIsCurrent ==
    \A r \in DOMAIN coAnswers :
      /\ Len(coAnswers[r]) <= 1
      /\ \A k \in DOMAIN coAnswers[r] :
           LET a == coAnswers[r][k] IN a.with \in {Nothing, NullData, a.list}
      /\ coAnswers[r] = <<>> => coRespond = r

(* The answers of the server that are on their way.                         *)
DataIn == {k \in DOMAIN coDown : coDown[k].is = "data"}

(* At most one data request is under way, and it is the delayed answer's:  *)
(* so no answer of the server is given to another request.                 *)
OneUnderWay ==
    IF coRespond = 0 THEN coUp = <<>> /\ DataIn = {}
    ELSE \/ Len(coUp) = 1 /\ DataIn = {}
         \/ coUp = <<>> /\ \E k \in DOMAIN coDown : DataIn = {k}

(* The server's clipboard as X programs see it: what is cached or pasted is*)
(* the copy announced last, and one request is under way.                  *)
OfferedIsCurrent ==
    /\ CoTypeOK /\ CacheIsCurrent /\ PastedIsCurrent
    /\ OneUnderWay

(* Every request of an X program is answered in the end.                   *)
ProgramsAreAnswered == coRespond # 0 ~> coRespond = 0

-----------------------------------------------------------------------------
(* An X program's clipboard offered to the server (client/X11/             *)
(* xf_cliprdr.c).  The client asks the owner of CLIPBOARD what it has      *)
(* (TARGETS) whenever the owner changes and after every answer, and for    *)
(* the data when the server asks.  Both conversions are delivered in the   *)
(* one property of the client's window; large data comes in pieces (INCR), *)
(* the owner writing the next one when the client has deleted the last.    *)
(* Another FreeRDP as the owner (raw formats) is left out.                 *)

CONSTANTS MaxOwners, MaxAsks  \* bounds: programs that copy, requests of the server

ASSUME CiAssumption == MaxOwners \in Nat /\ MaxAsks \in Nat

Owners == 1 .. MaxOwners
Us == MaxOwners + 1     \* the client's own window
Nobody == 0

VARIABLES
    ciOwner,   \* the owner of CLIPBOARD
    ciNext,    \* programs that have copied
    ciKnown,   \* cb->owner
    ciConv,    \* conversions the owners have not served: [is, by]
    ciProp,    \* the property of the client's window: [is, of]
    ciFeed,    \* pieces each owner has to write, its end included
    ciEvents,  \* X events the client has not taken: [is, ok]
    ciIndex,   \* request_index >= 0
    ciIncr,    \* incr_starts
    ciHeld,    \* incr_data
    ciWant,    \* the server waits for an answer
    ciAsks,    \* requests of the server so far
    ciAnswers, \* history: what was answered
    ciServer,  \* what the server was told last: "none", "empty", "formats"
    ciCrossed, \* history: a conversion was asked for while one was under way
    ciBroken   \* history: an owner went away during a conversion, or refused

ciVars == <<ciOwner, ciNext, ciKnown, ciConv, ciProp, ciFeed, ciEvents, ciIndex, ciIncr, ciHeld,
            ciWant, ciAsks, ciAnswers, ciServer, ciCrossed, ciBroken>>

Gone == [is |-> "none", of |-> Nobody]

CiInit ==
    /\ ciOwner = Nobody /\ ciNext = 0 /\ ciKnown = Nobody /\ ciConv = <<>> /\ ciProp = Gone
    /\ ciFeed = [o \in Owners |-> 0] /\ ciEvents = <<>> /\ ciIndex = FALSE /\ ciIncr = FALSE
    /\ ciHeld = <<>> /\ ciWant = FALSE /\ ciAsks = 0 /\ ciAnswers = <<>> /\ ciServer = "none"
    /\ ciCrossed = FALSE /\ ciBroken = FALSE

(* Something is on its way through the property, given the transfer under  *)
(* way and the events that wait.                                           *)
OnItsWay(incr, events) == ciConv # <<>> \/ incr \/ \E k \in DOMAIN events : events[k].is # "new"
Busy == OnItsWay(ciIncr, ciEvents)

-----------------------------------------------------------------------------
(* The X programs: one copies, or goes away; the owner serves a conversion *)
(* or refuses it; it writes the next piece when the property is gone.      *)
Copies ==
    /\ ciNext < MaxOwners /\ ciNext' = ciNext + 1 /\ ciOwner' = ciNext + 1
    /\ UNCHANGED <<ciKnown, ciConv, ciProp, ciFeed, ciEvents, ciIndex, ciIncr, ciHeld, ciWant,
                   ciAsks, ciAnswers, ciServer, ciCrossed, ciBroken>>

GoesAway ==
    /\ ciOwner \in Owners /\ ciOwner' = Nobody
    /\ ciFeed' = [ciFeed EXCEPT ![ciOwner] = 0]
    /\ ciBroken' = (ciBroken \/ Busy)
    /\ ciEvents' = ciEvents \o [k \in DOMAIN SelectSeq(ciConv, LAMBDA c : c.by = ciOwner) |->
                      [is |-> SelectSeq(ciConv, LAMBDA c : c.by = ciOwner)[k].is, ok |-> FALSE]]
    /\ ciConv' = SelectSeq(ciConv, LAMBDA c : c.by # ciOwner)
    /\ UNCHANGED <<ciNext, ciKnown, ciProp, ciIndex, ciIncr, ciHeld, ciWant, ciAsks, ciAnswers,
                   ciServer, ciCrossed>>

Written(is, o) == [is |-> is, of |-> o]
Event(is, ok) == [is |-> is, ok |-> ok]

OwnerServes(k) ==
    LET c == ciConv[k] IN
    /\ k \in DOMAIN ciConv /\ \A j \in 1 .. k - 1 : ciConv[j].by # c.by
    /\ ciFeed[c.by] = 0 /\ ciConv' = SubSeq(ciConv, 1, k - 1) \o SubSeq(ciConv, k + 1, Len(ciConv))
    /\ \/ /\ ciEvents' = Append(ciEvents, Event(c.is, FALSE)) /\ ciBroken' = TRUE
          /\ UNCHANGED <<ciProp, ciFeed>>
       \/ /\ ciProp' = Written(IF c.is = "targets" THEN "atoms" ELSE "data", c.by)
          /\ ciEvents' = ciEvents \o <<Event("new", TRUE), Event(c.is, TRUE)>>
          /\ UNCHANGED <<ciFeed, ciBroken>>
       \/ /\ c.is = "data" /\ ciProp' = Written("incr", c.by)
          /\ ciEvents' = ciEvents \o <<Event("new", TRUE), Event(c.is, TRUE)>>
          /\ ciFeed' = [ciFeed EXCEPT ![c.by] = 3] /\ UNCHANGED ciBroken
    /\ UNCHANGED <<ciOwner, ciNext, ciKnown, ciIndex, ciIncr, ciHeld, ciWant, ciAsks, ciAnswers,
                   ciServer, ciCrossed>>

Feeds(o) ==
    /\ ciFeed[o] > 0 /\ ciProp = Gone /\ ciFeed' = [ciFeed EXCEPT ![o] = @ - 1]
    /\ ciProp' = Written(CASE ciFeed[o] = 3 -> "first" [] ciFeed[o] = 2 -> "second" [] OTHER -> "end", o)
    /\ ciEvents' = Append(ciEvents, Event("new", TRUE))
    /\ UNCHANGED <<ciOwner, ciNext, ciKnown, ciConv, ciIndex, ciIncr, ciHeld, ciWant, ciAsks,
                   ciAnswers, ciServer, ciCrossed, ciBroken>>

-----------------------------------------------------------------------------
(* XConvertSelection, with the events that wait; with no owner the X       *)
(* server refuses it itself.                                               *)
XConvertSelection(is, events) ==
    /\ ciCrossed' = (ciCrossed \/ OnItsWay(ciIncr', events))
    /\ \/ /\ ciOwner = Nobody /\ ciEvents' = Append(events, Event(is, FALSE))
          /\ ciBroken' = TRUE /\ UNCHANGED ciConv
       \/ /\ ciOwner # Nobody /\ ciEvents' = events
          /\ ciConv' = Append(ciConv, [is |-> is, by |-> ciOwner]) /\ UNCHANGED ciBroken

(* Tell the server what there is: nothing, or ask the owner first.         *)
xf_cliprdr_send_format_list(events) ==
    /\ ciKnown' = ciOwner
    /\ \/ /\ ciOwner = Nobody /\ ciServer' = "empty"
          /\ ciEvents' = events /\ UNCHANGED <<ciConv, ciCrossed, ciBroken>>
       \/ /\ ciOwner \in Owners /\ XConvertSelection("targets", events) /\ UNCHANGED ciServer
       \/ /\ ciOwner = Us /\ ciEvents' = events
          /\ UNCHANGED <<ciServer, ciConv, ciCrossed, ciBroken>>

xf_cliprdr_check_owner ==
    /\ ciKnown # ciOwner
    /\ UNCHANGED <<ciOwner, ciNext, ciProp, ciFeed, ciIndex, ciIncr, ciHeld, ciWant, ciAsks, ciAnswers>>
    /\ xf_cliprdr_send_format_list(ciEvents)

(* The server copies something itself: the client becomes the owner.       *)
XSetSelectionOwner ==
    /\ ciOwner \in Owners /\ ~ciWant /\ ciOwner' = Us /\ ciServer' = "none"
    /\ UNCHANGED <<ciNext, ciKnown, ciConv, ciProp, ciFeed, ciEvents, ciIndex, ciIncr, ciHeld,
                   ciWant, ciAsks, ciAnswers, ciCrossed, ciBroken>>

(* The server pastes.                                                      *)
xf_cliprdr_process_cb_data_request_event ==
    /\ ~ciWant /\ ciServer = "formats" /\ ciAsks < MaxAsks /\ ciOwner # Us
    /\ ciWant' = TRUE /\ ciAsks' = ciAsks + 1 /\ ciIndex' = TRUE
    /\ UNCHANGED <<ciOwner, ciNext, ciKnown, ciProp, ciFeed, ciIncr, ciHeld, ciAnswers, ciServer>>
    /\ XConvertSelection("data", ciEvents)

-----------------------------------------------------------------------------
(* SelectionNotify for TARGETS: all formats if the owner cannot say, else  *)
(* those the property lists, none if it holds anything else.               *)
xf_cliprdr_get_requested_targets ==
    /\ ciServer' = (IF Head(ciEvents).ok /\ ciProp.is # "atoms" THEN "empty" ELSE "formats")
    /\ ciEvents' = Tail(ciEvents)
    /\ UNCHANGED <<ciProp, ciIncr, ciHeld, ciWant, ciAnswers, ciKnown, ciConv, ciCrossed, ciBroken>>

(* An answer to the server, and after data the formats again.              *)
xf_cliprdr_send_data_response(what) ==
    /\ ciAnswers' = Append(ciAnswers, [with |-> what, asked |-> ciWant]) /\ ciWant' = FALSE
    /\ \/ /\ what = <<>> /\ ciEvents' = Tail(ciEvents)
          /\ UNCHANGED <<ciKnown, ciConv, ciServer, ciCrossed, ciBroken>>
       \/ what # <<>> /\ xf_cliprdr_send_format_list(Tail(ciEvents))

(* More is to come.                                                        *)
ClipWaits == /\ ciEvents' = Tail(ciEvents)
         /\ UNCHANGED <<ciWant, ciAnswers, ciKnown, ciConv, ciServer, ciCrossed, ciBroken>>

(* The part of an owner's data that the property holds.                    *)
Part(p) == <<p.is, p.of>>

(* SelectionNotify for data, or a new value of the property while a        *)
(* transfer is under way.  What is read is deleted.                        *)
xf_cliprdr_get_requested_data ==
    LET none == ciProp.is \in {"none", "end"}
        started == ciProp.is = "incr"
    IN  /\ ciProp' = Gone
        /\ \/ /\ none /\ ~ciIncr /\ UNCHANGED <<ciIncr, ciHeld>>
              /\ xf_cliprdr_send_data_response(<<>>)
           \/ started /\ ciIncr' = TRUE /\ ciHeld' = <<>> /\ ClipWaits
           \/ /\ none /\ ciIncr /\ ciIncr' = FALSE /\ ciHeld' = <<>>
              /\ xf_cliprdr_send_data_response(ciHeld)
           \/ /\ ~none /\ ~started /\ ciIncr /\ UNCHANGED ciIncr /\ ClipWaits
              /\ ciHeld' = (IF ciProp.is = "atoms" THEN ciHeld ELSE Append(ciHeld, Part(ciProp)))
           \/ /\ ~none /\ ~started /\ ~ciIncr /\ UNCHANGED <<ciIncr, ciHeld>>
              /\ xf_cliprdr_send_data_response(<<Part(ciProp)>>)

xf_cliprdr_process_selection_notify ==
    /\ ciEvents # <<>> /\ Head(ciEvents).is # "new"
    /\ \/ Head(ciEvents).is = "targets" /\ xf_cliprdr_get_requested_targets
       \/ Head(ciEvents).is = "data" /\ xf_cliprdr_get_requested_data
    /\ UNCHANGED <<ciOwner, ciNext, ciFeed, ciIndex, ciAsks>>

xf_cliprdr_process_property_notify ==
    /\ ciEvents # <<>> /\ Head(ciEvents).is = "new"
    /\ \/ ciIncr /\ ciIndex /\ xf_cliprdr_get_requested_data
       \/ ~(ciIncr /\ ciIndex) /\ ClipWaits /\ UNCHANGED <<ciProp, ciIncr, ciHeld>>
    /\ UNCHANGED <<ciOwner, ciNext, ciFeed, ciIndex, ciAsks>>

CiNext ==
    \/ Copies \/ GoesAway \/ XSetSelectionOwner
    \/ \E k \in DOMAIN ciConv : OwnerServes(k)
    \/ \E o \in Owners : Feeds(o)
    \/ xf_cliprdr_check_owner \/ xf_cliprdr_process_cb_data_request_event
    \/ xf_cliprdr_process_selection_notify \/ xf_cliprdr_process_property_notify

CiSpec == CiInit /\ [][CiNext]_ciVars

(* Owners serve what they are asked; the client's loop takes every event.  *)
CiFairness ==
    /\ WF_ciVars(\E k \in DOMAIN ciConv : OwnerServes(k))
    /\ \A o \in Owners : WF_ciVars(Feeds(o))
    /\ WF_ciVars(xf_cliprdr_process_selection_notify)
    /\ WF_ciVars(xf_cliprdr_process_property_notify)
CiFairSpec == CiSpec /\ CiFairness

-----------------------------------------------------------------------------
Content(o) == {<<<<"data", o>>>>, <<<<"first", o>>, <<"second", o>>>>}

CiTypeOK ==
    /\ ciOwner \in 0 .. Us /\ ciKnown \in 0 .. Us
    /\ ciServer \in {"none", "empty", "formats"}
    /\ ciFeed \in [Owners -> 0 .. 3] /\ ciWant \in BOOLEAN

(* As long as no conversion crosses another one and no owner leaves or     *)
(* refuses, the server gets exactly one answer to a request, and it is the *)
(* whole data of one owner, however many pieces it came in.                *)
AnswerIsWhole ==
    ~ciCrossed /\ ~ciBroken =>
      \A k \in DOMAIN ciAnswers :
        ciAnswers[k].asked /\ \E o \in Owners : ciAnswers[k].with \in Content(o)

(* Once nothing is under way the server has been told what the owner the   *)
(* client knows offers, unless conversions crossed or were refused.        *)
OfferIsTrue ==
    ~Busy /\ ~ciCrossed /\ ~ciBroken /\ ciKnown = ciOwner =>
      /\ ciOwner \in Owners => ciServer = "formats"
      /\ ciOwner = Nobody => ciServer # "formats"

(* The server's paste is answered, if no transfer was broken off.          *)
PasteIsAnswered == []((ciWant => <>(~ciWant \/ ciBroken \/ ciCrossed)))
=============================================================================
