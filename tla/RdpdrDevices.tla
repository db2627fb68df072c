---------------------------- MODULE RdpdrDevices ----------------------------
(***************************************************************************)
(* Device redirection: the channel with its device threads, and the driver *)
(* of a serial port.                                                       *)
(***************************************************************************)
EXTENDS Naturals, Sequences, SequencesExt

-----------------------------------------------------------------------------
(* The device redirection channel of NeutrinoRDP (channels/rdpdr): its     *)
(* handshake, its request packets (IRPs), the threads of the devices that  *)
(* answer them, and the end of the channel.                                *)
(*    rdpdr_main.c, devman.c, irp.c      the channel's own thread          *)
(*    disk, parallel, printer, smartcard one thread and one irp_list each  *)
(*    libfreerdp-utils/svc_plugin.c      the main thread ends the channel  *)
(* What the disk does to files is in DiskFiles, the serial port, whose     *)
(* thread differs, is below.                                               *)

CONSTANTS
    Kind,     \* Kind[d]: the type of the d-th registered device
    MaxReq    \* bound: how many requests the server sends

Dev == 1 .. Len(Kind)
Req == 1 .. MaxReq      \* the requests, in the order they arrive
NoReq == 0

(* What a request asks for.  A smartcard request is "sync" when            *)
(* scard_async_op says no, "async" when it gets a thread of its own.       *)
OpsOf(kind) ==
    CASE kind = "disk"     -> {"create", "close", "file", "notify"}
      [] kind = "printer"  -> {"create", "close", "file"}
      [] kind = "parallel" -> {"create", "close", "file"}
      [] kind = "scard"    -> {"sync", "async"}

ASSUME KindAssumption == Kind \in Seq({"disk", "printer", "parallel", "scard"})
ASSUME ReqAssumption == MaxReq \in Nat

VARIABLES
    rdVersion,   \* versionMinor: 0 before SERVER_ANNOUNCE
    rdShake,     \* how far the handshake is
    rdAnnounced, \* rdAnnounced[d]: how often d was in a device list
    rdMain,      \* main thread: the channel is up, closed, freeing or over
    rdFree,      \* the device devman_free is at
    rdPost,      \* the request whose signal the channel's thread still owes
    rdOf,        \* rdOf[r]: device, operation and file id of r
    rdState,     \* rdState[r]
    rdList,      \* rdList[d]: irp_list
    rdThread,    \* rdThread[d]: next step of d's thread
    rdHand,      \* rdHand[d]: the request d's thread works on
    rdSignal,    \* rdSignal[d]: signals[1]
    rdStop,      \* rdStop[d]: d's thread was told to stop (signals[0])
    rdFreed,     \* rdFreed[d]: d is freed
    rdSeq,       \* id_sequence
    rdRead,      \* rdRead[d]: the id_sequence d's thread has read
    rdFiles,     \* rdFiles[d]: ids of d's open files, in the order opened
    rdRaced,     \* history: two increments of id_sequence overlapped
    rdIn, rdLog, \* history: requests put on and worked off d's list
    rdGaveUp,    \* history: freerdp_thread_stop gave up on d
    rdLate       \* history: requests completed with plugin->priv freed

rdShakeVars == <<rdVersion, rdShake, rdAnnounced>>
rdMainVars  == <<rdMain, rdFree, rdFreed, rdGaveUp>>
rdIdVars    == <<rdSeq, rdRead, rdFiles, rdRaced>>
rdReqVars   == <<rdPost, rdOf, rdState>>
rdThrVars   == <<rdList, rdThread, rdHand, rdSignal, rdStop>>
rdHistVars  == <<rdIn, rdLog, rdLate>>
rdVars == <<rdShakeVars, rdMainVars, rdIdVars, rdReqVars, rdThrVars, rdHistVars>>

(* The state after rdpdr_process_connect: every device is registered, with *)
(* ids 1, 2, ... from id_sequence, and its thread waits.                   *)
RdInit ==
    /\ rdVersion = 0 /\ rdShake = "start"
    /\ rdAnnounced = [d \in Dev |-> 0]
    /\ rdMain = "up" /\ rdFree = 1
    /\ rdFreed = [d \in Dev |-> FALSE] /\ rdGaveUp = [d \in Dev |-> FALSE]
    /\ rdPost = NoReq
    /\ rdOf = [r \in Req |-> [dev |-> 0, op |-> "none", fid |-> 0]]
    /\ rdState = [r \in Req |-> "new"]
    /\ rdList = [d \in Dev |-> <<>>]
    /\ rdThread = [d \in Dev |-> "wait"] /\ rdHand = [d \in Dev |-> NoReq]
    /\ rdSignal = [d \in Dev |-> FALSE] /\ rdStop = [d \in Dev |-> FALSE]
    /\ rdSeq = Len(Kind) + 1 /\ rdRead = [d \in Dev |-> 0]
    /\ rdFiles = [d \in Dev |-> <<>>] /\ rdRaced = FALSE
    /\ rdIn = [d \in Dev |-> <<>>] /\ rdLog = [d \in Dev |-> <<>>]
    /\ rdLate = {}

(* The channel's thread runs, and is between two messages.                 *)
Receiving == rdMain = "up" /\ rdPost = NoReq /\ rdLate = {}

-----------------------------------------------------------------------------
(* The handshake.  A server of minor version 5 sends no USER_LOGGEDON.     *)
ServerAnnounce(v) ==
    /\ Receiving /\ rdShake = "start"
    /\ rdVersion' = v /\ rdShake' = "replied"
    /\ UNCHANGED <<rdAnnounced, rdMainVars, rdIdVars, rdReqVars, rdThrVars, rdHistVars>>

Announce(version, loggedon) ==
    rdAnnounced' = [d \in Dev |->
        IF version = 5 \/ Kind[d] = "scard" \/ loggedon
        THEN rdAnnounced[d] + 1 ELSE rdAnnounced[d]]

ClientIdConfirm(v) ==
    /\ Receiving /\ rdShake = "replied"
    /\ rdVersion' = v /\ rdShake' = "confirmed"
    /\ Announce(v, FALSE)
    /\ UNCHANGED <<rdMainVars, rdIdVars, rdReqVars, rdThrVars, rdHistVars>>

UserLoggedOn ==
    /\ Receiving /\ rdShake = "confirmed" /\ rdVersion # 5
    /\ rdShake' = "loggedon"
    /\ Announce(rdVersion, TRUE)
    /\ UNCHANGED <<rdVersion, rdMainVars, rdIdVars, rdReqVars, rdThrVars, rdHistVars>>

-----------------------------------------------------------------------------
(* A request for device d arrives.  Servers name devices of the list and   *)
(* files of earlier answers.  irp_list is filled under the lock, the       *)
(* thread is signalled after it; an async smartcard request is run by a    *)
(* thread of its own instead.                                              *)
KnownIds(d) == {rdOf[r].fid : r \in {q \in Req :
    rdOf[q].dev = d /\ rdOf[q].op = "create" /\ rdState[q] = "answered"}} \ {0}

IrpRequest(r, d, op, fid) ==
    /\ Receiving /\ rdState[r] = "new" /\ rdAnnounced[d] > 0
    /\ \A q \in 1 .. r - 1 : rdState[q] # "new"
    /\ op \in OpsOf(Kind[d])
    /\ fid \in IF op \in {"create", "sync", "async"} THEN {0} ELSE KnownIds(d)
    /\ rdOf' = [rdOf EXCEPT ![r] = [dev |-> d, op |-> op, fid |-> fid]]
    /\ IF op = "async"
       THEN /\ rdState' = [rdState EXCEPT ![r] = "own"]
            /\ UNCHANGED <<rdPost, rdList, rdIn>>
       ELSE /\ rdState' = [rdState EXCEPT ![r] = "listed"]
            /\ rdPost' = r
            /\ rdList' = [rdList EXCEPT ![d] = Append(@, r)]
            /\ rdIn' = [rdIn EXCEPT ![d] = Append(@, r)]
    /\ UNCHANGED <<rdShakeVars, rdMainVars, rdIdVars, rdThread, rdHand,
                   rdSignal, rdStop, rdLog, rdLate>>

IrpSignal ==
    /\ rdPost # NoReq /\ rdLate = {}
    /\ rdSignal' = [rdSignal EXCEPT ![rdOf[rdPost].dev] = TRUE]
    /\ rdPost' = NoReq
    /\ UNCHANGED <<rdShakeVars, rdMainVars, rdIdVars, rdOf, rdState, rdList,
                   rdThread, rdHand, rdStop, rdHistVars>>

-----------------------------------------------------------------------------
(* irp_complete sends through plugin->priv, which the main thread frees    *)
(* and clears before it frees the devices.                                 *)
Complete(r, d) ==
    IF rdMain \in {"up", "closed"}
    THEN rdState' = [rdState EXCEPT ![r] = "answered"] /\ rdLate' = rdLate
    ELSE rdState' = rdState /\ rdLate' = rdLate \cup {r}

(* The thread of device d: *_thread_func and *_process_irp_list.           *)
ThreadRuns(d, pc) == rdThread[d] = pc /\ rdLate = {}

ThreadWait(d) ==
    /\ ThreadRuns(d, "wait") /\ (rdSignal[d] \/ rdStop[d])
    /\ rdThread' = [rdThread EXCEPT ![d] = IF rdStop[d] THEN "quit" ELSE "reset"]
    /\ UNCHANGED <<rdShakeVars, rdMainVars, rdIdVars, rdReqVars, rdList, rdHand,
                   rdSignal, rdStop, rdHistVars>>

ThreadReset(d) ==
    /\ ThreadRuns(d, "reset")
    /\ rdSignal' = [rdSignal EXCEPT ![d] = FALSE]
    /\ rdThread' = [rdThread EXCEPT ![d] = "check"]
    /\ UNCHANGED <<rdShakeVars, rdMainVars, rdIdVars, rdReqVars, rdList, rdHand,
                   rdStop, rdHistVars>>

ThreadCheck(d) ==
    /\ ThreadRuns(d, "check")
    /\ rdThread' = [rdThread EXCEPT ![d] = IF rdStop[d] THEN "wait" ELSE "take"]
    /\ UNCHANGED <<rdShakeVars, rdMainVars, rdIdVars, rdReqVars, rdList, rdHand,
                   rdSignal, rdStop, rdHistVars>>

ThreadTake(d) ==
    /\ ThreadRuns(d, "take")
    /\ IF rdList[d] = <<>>
       THEN /\ rdThread' = [rdThread EXCEPT ![d] = "wait"]
            /\ UNCHANGED <<rdList, rdHand, rdState>>
       ELSE /\ rdThread' = [rdThread EXCEPT ![d] = "process"]
            /\ rdHand' = [rdHand EXCEPT ![d] = Head(rdList[d])]
            /\ rdList' = [rdList EXCEPT ![d] = Tail(@)]
            /\ rdState' = [rdState EXCEPT ![Head(rdList[d])] = "taken"]
    /\ UNCHANGED <<rdShakeVars, rdMainVars, rdIdVars, rdPost, rdOf, rdSignal,
                   rdStop, rdHistVars>>

(* The thread is done with its request and goes on with its list.          *)
Worked(d) ==
    /\ rdThread' = [rdThread EXCEPT ![d] = "check"]
    /\ rdHand' = [rdHand EXCEPT ![d] = NoReq]
    /\ rdLog' = [rdLog EXCEPT ![d] = Append(@, rdHand[d])]
    /\ UNCHANGED <<rdShakeVars, rdMainVars, rdPost, rdList, rdSignal, rdStop, rdIn>>

(* id_sequence++ in a create request: no lock orders the device threads.   *)
ReadSequence(d) ==
    /\ ThreadRuns(d, "process") /\ rdOf[rdHand[d]].op = "create"
    /\ rdRead' = [rdRead EXCEPT ![d] = rdSeq]
    /\ rdThread' = [rdThread EXCEPT ![d] = "increment"]
    /\ UNCHANGED <<rdShakeVars, rdMainVars, rdSeq, rdFiles, rdRaced, rdReqVars,
                   rdList, rdHand, rdSignal, rdStop, rdHistVars>>

(* Opening a file, a print job or a port fails or not; a printer has one   *)
(* job at a time, a parallel port keeps the last one opened.  The id is    *)
(* used up in any case; the answer of a failed create carries id 0.        *)
Create(d, ok) ==
    LET r == rdHand[d]
        id == rdRead[d]
    IN  /\ ThreadRuns(d, "increment")
        /\ (Kind[d] = "printer" /\ rdFiles[d] # <<>>) => ~ok
        /\ rdSeq' = id + 1
        /\ rdRaced' = (rdRaced \/ rdSeq # id)
        /\ rdRead' = [rdRead EXCEPT ![d] = 0]
        /\ rdOf' = [rdOf EXCEPT ![r].fid = IF ok THEN id ELSE 0]
        /\ rdFiles' = [rdFiles EXCEPT ![d] =
             CASE ok /\ Kind[d] # "parallel" -> Append(@, id)
               [] ok /\ Kind[d] = "parallel" -> <<id>>
               [] OTHER -> @]
        /\ Complete(r, d)
        /\ Worked(d)

(* Close takes the first file with the id off the list; a parallel port    *)
(* looks at no id and keeps its own.                                       *)
Close(d) ==
    LET r == rdHand[d]
        at == SelectInSeq(rdFiles[d], LAMBDA id : id = rdOf[r].fid)
    IN  /\ ThreadRuns(d, "process") /\ rdOf[r].op = "close"
        /\ rdFiles' = [rdFiles EXCEPT ![d] =
             IF at = 0 \/ Kind[d] = "parallel" THEN @ ELSE RemoveAt(@, at)]
        /\ Complete(r, d)
        /\ Worked(d)
        /\ UNCHANGED <<rdSeq, rdRead, rdRaced, rdOf>>

(* Every other request is answered, with a result or an error status ...   *)
Answer(d) ==
    /\ ThreadRuns(d, "process") /\ rdOf[rdHand[d]].op \in {"file", "sync"}
    /\ Complete(rdHand[d], d)
    /\ Worked(d)
    /\ UNCHANGED <<rdIdVars, rdOf>>

(* ... but for a notification about a directory, which is thrown away.     *)
Discard(d) ==
    /\ ThreadRuns(d, "process") /\ rdOf[rdHand[d]].op = "notify"
    /\ rdState' = [rdState EXCEPT ![rdHand[d]] = "dropped"]
    /\ Worked(d)
    /\ UNCHANGED <<rdIdVars, rdOf, rdLate>>

(* The thread of an async smartcard request, which nothing stops.          *)
OwnThread(r) ==
    /\ rdState[r] = "own" /\ rdLate = {}
    /\ Complete(r, rdOf[r].dev)
    /\ UNCHANGED <<rdShakeVars, rdMainVars, rdIdVars, rdPost, rdOf, rdThrVars,
                   rdIn, rdLog>>

-----------------------------------------------------------------------------
(* svc_plugin_process_terminated: stop the channel's thread and close the  *)
(* channel, then free priv and call rdpdr_process_terminate.               *)
CloseChannel ==
    /\ Receiving /\ rdMain' = "closed"
    /\ UNCHANGED <<rdFree, rdFreed, rdGaveUp, rdShakeVars, rdIdVars, rdReqVars,
                   rdThrVars, rdHistVars>>

FreePrivate ==
    /\ rdMain = "closed" /\ rdMain' = "freeing"
    /\ rdLate = {}
    /\ UNCHANGED <<rdFree, rdFreed, rdGaveUp, rdShakeVars, rdIdVars, rdReqVars,
                   rdThrVars, rdHistVars>>

(* devman_free takes the devices in order; each one's Free stops its       *)
(* thread, waits for it at most 100 seconds, and discards its list.        *)
StopDevice ==
    /\ rdMain = "freeing" /\ rdFree \in Dev /\ ~rdStop[rdFree] /\ rdLate = {}
    /\ rdStop' = [rdStop EXCEPT ![rdFree] = TRUE]
    /\ UNCHANGED <<rdShakeVars, rdMainVars, rdIdVars, rdReqVars, rdList,
                   rdThread, rdHand, rdSignal, rdHistVars>>

(* Mutant: the request its thread works on is discarded with the list.     *)
FreeDevice_hand(late) ==
    LET d == rdFree
    IN  /\ rdMain = "freeing" /\ rdFree \in Dev /\ rdStop[rdFree] /\ rdLate = {}
        /\ IF late THEN rdThread[d] \in {"process", "increment"}
                   ELSE rdThread[d] = "quit"
        /\ rdGaveUp' = [rdGaveUp EXCEPT ![d] = late]
        /\ rdState' = [r \in Req |-> IF r \in ToSet(rdList[d]) \cup {rdHand[d]} THEN "dropped"
                                     ELSE rdState[r]]
        /\ rdList' = [rdList EXCEPT ![d] = <<>>]
        /\ rdFiles' = [rdFiles EXCEPT ![d] = <<>>]
        /\ rdFreed' = [rdFreed EXCEPT ![d] = TRUE]
        /\ rdFree' = rdFree + 1
        /\ rdMain' = IF rdFree = Len(Kind) THEN "over" ELSE "freeing"
        /\ UNCHANGED <<rdShakeVars, rdSeq, rdRead, rdRaced, rdPost, rdOf,
                       rdThread, rdHand, rdSignal, rdStop, rdHistVars>>

FreeDevice(late) ==
    LET d == rdFree
    IN  /\ rdMain = "freeing" /\ rdFree \in Dev /\ rdStop[rdFree] /\ rdLate = {}
        /\ IF late THEN rdThread[d] \in {"process", "increment"}
                   ELSE rdThread[d] = "quit"
        /\ rdGaveUp' = [rdGaveUp EXCEPT ![d] = late]
        /\ rdState' = [r \in Req |-> IF r \in ToSet(rdList[d]) THEN "dropped"
                                     ELSE rdState[r]]
        /\ rdList' = [rdList EXCEPT ![d] = <<>>]
        /\ rdFiles' = [rdFiles EXCEPT ![d] = <<>>]
        /\ rdFreed' = [rdFreed EXCEPT ![d] = TRUE]
        /\ rdFree' = rdFree + 1
        /\ rdMain' = IF rdFree = Len(Kind) THEN "over" ELSE "freeing"
        /\ UNCHANGED <<rdShakeVars, rdSeq, rdRead, rdRaced, rdPost, rdOf,
                       rdThread, rdHand, rdSignal, rdStop, rdHistVars>>

Thread(d) == ThreadWait(d) \/ ThreadReset(d) \/ ThreadCheck(d) \/ ThreadTake(d)

Work(d) == \/ ReadSequence(d) \/ Create(d, TRUE) \/ Create(d, FALSE)
           \/ Close(d) \/ Answer(d) \/ Discard(d)

Terminate == FreePrivate \/ StopDevice \/ FreeDevice(FALSE)

RdNext ==
    \/ \E v \in {5, 12} : ServerAnnounce(v) \/ ClientIdConfirm(v)
    \/ UserLoggedOn
    \/ \E r \in Req, d \in Dev : \E op \in OpsOf(Kind[d]) :
         \E fid \in KnownIds(d) \cup {0} : IrpRequest(r, d, op, fid)
    \/ IrpSignal
    \/ \E d \in Dev : Thread(d) \/ Work(d)
    \/ \E r \in Req : OwnThread(r)
    \/ CloseChannel \/ Terminate \/ FreeDevice(TRUE)

RdSpec == RdInit /\ [][RdNext]_rdVars

(* Fairness: the threads run, and the main thread goes on once it began to *)
(* end the channel.  The server and the operating system owe nothing.      *)
RdFairness ==
    /\ WF_rdVars(IrpSignal)
    /\ \A d \in Dev : WF_rdVars(Thread(d)) /\ WF_rdVars(Work(d))
    /\ WF_rdVars(Terminate)

RdFairSpec == RdSpec /\ RdFairness

-----------------------------------------------------------------------------
RdTypeOK ==
    /\ rdVersion \in {0, 5, 12}
    /\ rdShake \in {"start", "replied", "confirmed", "loggedon"}
    /\ rdMain \in {"up", "closed", "freeing", "over"} /\ rdFree \in 1 .. Len(Kind) + 1
    /\ rdPost \in Req \cup {NoReq}
    /\ rdState \in [Req -> {"new", "listed", "own", "taken", "answered", "dropped"}]
    /\ rdThread \in [Dev -> {"wait", "reset", "check", "take", "process",
                             "increment", "quit"}]
    /\ rdHand \in [Dev -> Req \cup {NoReq}]
    /\ rdSignal \in [Dev -> BOOLEAN] /\ rdStop \in [Dev -> BOOLEAN]
    /\ rdFreed \in [Dev -> BOOLEAN] /\ rdGaveUp \in [Dev -> BOOLEAN]
    /\ rdSeq \in Nat /\ rdRead \in [Dev -> Nat] /\ rdRaced \in BOOLEAN
    /\ rdLate \subseteq Req
    /\ \A d \in Dev : rdList[d] \in Seq(Req) /\ rdFiles[d] \in Seq(Nat)
                      /\ rdIn[d] \in Seq(Req) /\ rdLog[d] \in Seq(Req)

(* A device's requests are worked off once each and in the order they      *)
(* came: what is finished, what its thread holds and what is on irp_list   *)
(* make up what arrived, until Free empties the list (all the *_main.c).   *)
WorkedInOrder ==
    \A d \in Dev :
        LET held == IF rdHand[d] = NoReq THEN <<>> ELSE <<rdHand[d]>>
        IN  /\ IsPrefix(rdLog[d] \o held \o rdList[d], rdIn[d])
            /\ ~rdFreed[d] => rdIn[d] = rdLog[d] \o held \o rdList[d]

(* A device is freed only when its thread has quit, unless 100 seconds     *)
(* passed while it was inside a request (freerdp_thread_stop).             *)
FreedWhenQuit == \A d \in Dev : rdFreed[d] => rdThread[d] = "quit" \/ rdGaveUp[d]

(* Completing with priv freed happens only to a request that was under way *)
(* when the channel closed, and only while devices are still being freed   *)
(* or to an async smartcard request: a list that is discarded in time is   *)
(* never answered (svc_plugin.c frees priv before the devices stop).       *)
LateCompletion ==
    \A r \in rdLate :
        \/ rdState[r] = "own"
        \/ LET d == rdOf[r].dev
           IN  rdState[r] = "taken" /\ (~rdFreed[d] \/ rdGaveUp[d])

(* Open files of a device have different ids as long as no two device      *)
(* threads overlapped in id_sequence++, which no lock guards; the ids of   *)
(* open files are then below the next one (devman.c, *_irp_create).        *)
FileIdsDistinct ==
    ~rdRaced => \A d \in Dev :
        /\ \A i, j \in 1 .. Len(rdFiles[d]) :
              rdFiles[d][i] = rdFiles[d][j] => i = j
        /\ \A i \in 1 .. Len(rdFiles[d]) : rdFiles[d][i] < rdSeq

(* Once the handshake is over for a server's version, every device is      *)
(* announced; other than smartcards exactly once, and not before the user  *)
(* logged on unless the version is 5 (rdpdr_main.c's comment at the loop). *)
AnnouncedInTime ==
    \A d \in Dev :
        /\ rdShake = "loggedon" \/ (rdShake = "confirmed" /\ rdVersion = 5)
             => rdAnnounced[d] > 0
        /\ Kind[d] # "scard" =>
             /\ rdAnnounced[d] <= 1
             /\ rdAnnounced[d] = 1 => rdShake = "loggedon" \/ rdVersion = 5

(* The listed requests are taken by their threads or discarded at the end: *)
(* no wake-up is lost between the list, the signal and its reset.          *)
ListedIsTaken ==
    (\E r \in Req : rdState[r] = "listed") ~> (rdLate # {} \/ \A r \in Req : rdState[r] # "listed")

(* Ending the channel ends: every device is freed, or the process has      *)
(* crashed in a late completion.                                           *)
ChannelEnds == rdMain = "closed" ~> (rdMain = "over" \/ rdLate # {})

-----------------------------------------------------------------------------
(* The redirected serial port (channels/rdpdr/serial): the thread of       *)
(* serial_main.c with the requests it keeps pending, and what serial_tty.c *)
(* decides about them.  Bytes, termios and the lines of the port are       *)
(* choices of the environment; stopping the thread is in RdpdrDevices.     *)

CONSTANTS
    MaxSerial,       \* bound: requests the server sends
    MaxOutstanding   \* bound: requests it waits for at the same time

ASSUME SerialAssumption == MaxSerial \in Nat /\ MaxOutstanding \in Nat

SReq == 1 .. MaxSerial

(* "ctl" is a device control that is answered at once, "wait" a            *)
(* WAIT_ON_MASK, "mask" a SET_WAIT_MASK, "purge" a PURGE that aborts reads *)
(* and writes, "timeouts" a SET_TIMEOUTS without any timeout.              *)
SOps == {"create", "close", "read", "write", "ctl", "wait", "mask", "purge",
         "timeouts"}

VARIABLES
    seOf,        \* seOf[r]: the operation of r
    seState,     \* seState[r]: new, listed, pending, or answered
    seAnswers,   \* seAnswers[r]: how often r was completed
    seList,      \* irp_list
    sePending,   \* pending_irps
    seOpen,      \* serial->tty # NULL
    seTimeout,   \* the tty has read timeouts
    seMask,      \* wait_mask # 0
    seSignal,    \* signals[1] of the thread
    seEvent,     \* in_event
    seSelect,    \* select_timeout # 0
    seThread,    \* next step of the thread
    seLooked,    \* history: requests that were pending in a select
    seFailed,    \* history: a select failed
    seDangling   \* a freed request is on pending_irps

seVars == <<seOf, seState, seAnswers, seList, sePending, seOpen, seTimeout,
            seMask, seSignal, seEvent, seSelect, seThread, seLooked, seFailed,
            seDangling>>

SeInit ==
    /\ seOf = [r \in SReq |-> "none"] /\ seState = [r \in SReq |-> "new"]
    /\ seAnswers = [r \in SReq |-> 0]
    /\ seList = <<>> /\ sePending = <<>>
    /\ seOpen = FALSE /\ seTimeout = FALSE /\ seMask = FALSE
    /\ seSignal = FALSE /\ seEvent = FALSE /\ seSelect = FALSE
    /\ seThread = "wait" /\ seLooked = {} /\ seFailed = FALSE /\ seDangling = FALSE

Outstanding == {r \in SReq : seState[r] \in {"listed", "pending"}}

(* serial_irp_request.  The server opens the port before it uses it and    *)
(* closes it when nothing is outstanding.                                  *)
SerialRequest(r, op) ==
    /\ ~seDangling
    /\ seState[r] = "new" /\ \A q \in 1 .. r - 1 : seState[q] # "new"
    /\ Len(seList) + Len(sePending) < MaxOutstanding
    /\ op = "create" => ~seOpen /\ Outstanding = {}
    /\ op # "create" => seOpen /\ \A q \in Outstanding : seOf[q] # "close"
    /\ op = "close" => Outstanding = {}
    /\ seOf' = [seOf EXCEPT ![r] = op]
    /\ seState' = [seState EXCEPT ![r] = "listed"]
    /\ seList' = Append(seList, r)
    /\ seSignal' = TRUE
    /\ UNCHANGED <<seAnswers, sePending, seOpen, seTimeout, seMask, seEvent,
                   seSelect, seThread, seLooked, seFailed,
                   seDangling>>

(* serial_thread_func: wait, forget the last timeout, reset the signal.    *)
SerialWake ==
    /\ seThread = "wait" /\ seSignal /\ ~seDangling
    /\ seSelect' = FALSE /\ seSignal' = FALSE /\ seThread' = "list"
    /\ UNCHANGED <<seOf, seState, seAnswers, seList, sePending, seOpen,
                   seTimeout, seMask, seEvent, seLooked, seFailed, seDangling>>

Answered(rs) ==
    /\ seState' = [r \in SReq |-> IF r \in rs THEN "answered" ELSE seState[r]]
    /\ seAnswers' = [r \in SReq |-> IF r \in rs THEN seAnswers[r] + 1
                                    ELSE seAnswers[r]]

(* The first pending request that asks for op, if there is one:            *)
(* serial_abort_single_io completes and removes just that one.             *)
FirstOf(op, pending) ==
    LET at == SelectInSeq(pending, LAMBDA r : seOf[r] = op)
    IN  IF at = 0 THEN {} ELSE {pending[at]}

Aborted(ops, pending) == UNION {FirstOf(op, pending) : op \in ops}

Without(pending, rs) == SelectSeq(pending, LAMBDA r : r \notin rs)

(* serial_check_for_events: the pending waits that have their event are    *)
(* completed and removed.  With a zero wait_mask all of them have.         *)
EventsOf(pending, mask) ==
    LET waits == {r \in ToSet(pending) : seOf[r] = "wait"}
    IN  IF mask THEN SUBSET waits ELSE {waits}

(* serial_process_irp takes the next request off irp_list: it completes r  *)
(* and what r aborts, or makes r pending, then looks for events.           *)
SerialProcess(ok) ==
    LET r == Head(seList)
        op == seOf[r]
        mask == IF op = "mask" THEN ok ELSE seMask
        aborted == IF op = "purge" THEN Aborted({"read", "write"}, sePending) ELSE {}
        keep == op \in {"read", "write"} \/ (op = "wait" /\ mask /\ ~ok)
        rest == Without(sePending, aborted) \o (IF keep THEN <<r>> ELSE <<>>)
    IN  /\ seThread = "list" /\ seList # <<>> /\ ~seDangling
        /\ \E events \in EventsOf(rest, mask) :
             LET done == aborted \cup events \cup (IF keep THEN {} ELSE {r})
             IN  /\ seAnswers' = [q \in SReq |-> IF q \in done THEN seAnswers[q] + 1
                                                 ELSE seAnswers[q]]
                 /\ seState' = [q \in SReq |->
                      CASE q \in done -> "answered"
                        [] q = r /\ q \notin done -> "pending"
                        [] OTHER -> seState[q]]
                 /\ sePending' = Without(rest, events)
                 /\ seEvent' = (seEvent \/ op \in {"read", "write"}
                                \/ aborted \cup events # {})
        /\ seList' = Tail(seList)
        /\ seOpen' = CASE op = "create" -> ok [] op = "close" -> FALSE [] OTHER -> seOpen
        /\ seMask' = IF op = "create" THEN FALSE ELSE mask
        /\ seTimeout' = CASE op = "create" -> TRUE [] op = "timeouts" -> FALSE
                          [] OTHER -> seTimeout
        /\ seSelect' = (seSelect \/ (op = "read" /\ seTimeout))
        /\ UNCHANGED <<seOf, seSignal, seThread, seLooked, seFailed, seDangling>>

(* irp_list is empty: look at the port if in_event is set.                 *)
SerialListDone ==
    /\ seThread = "list" /\ seList = <<>> /\ ~seDangling
    /\ seThread' = IF seEvent /\ sePending # <<>> THEN "select" ELSE "wait"
    /\ seEvent' = (seEvent /\ sePending # <<>>)
    /\ UNCHANGED <<seOf, seState, seAnswers, seList, sePending, seOpen, seTimeout,
                   seMask, seSignal, seSelect, seLooked, seFailed, seDangling>>

(* serial_check_fds when select fails: nothing is done, in_event stays.    *)
SelectFails ==
    /\ seThread = "select" /\ ~seDangling
    /\ seThread' = "wait" /\ seFailed' = TRUE
    /\ seLooked' = seLooked \cup ToSet(sePending)
    /\ UNCHANGED <<seOf, seState, seAnswers, seList, sePending, seOpen, seTimeout,
                   seMask, seSignal, seEvent, seSelect, seDangling>>

(* Mutant: what is aborted stays on the list of pending requests.          *)
SelectTimesOut_kept ==
    LET rs == IF seSelect THEN Aborted({"read", "write"}, sePending) ELSE {}
    IN  /\ seThread = "select" /\ ~seDangling
        /\ Answered(rs)
        /\ sePending' = sePending
        /\ seLooked' = seLooked \cup ToSet(sePending)
        /\ seThread' = "wait"
        /\ UNCHANGED <<seOf, seList, seOpen, seTimeout, seMask, seSignal, seEvent,
                       seSelect, seFailed, seDangling>>

(* ... when it times out: with a request's timeout one read and one write  *)
(* are aborted, with the default of 20 seconds none.  A pending write is   *)
(* what keeps select waiting only when the port takes no bytes.            *)
SelectTimesOut ==
    LET rs == IF seSelect THEN Aborted({"read", "write"}, sePending) ELSE {}
    IN  /\ seThread = "select" /\ ~seDangling
        /\ Answered(rs)
        /\ sePending' = Without(sePending, rs)
        /\ seLooked' = seLooked \cup ToSet(sePending)
        /\ seThread' = "wait"
        /\ UNCHANGED <<seOf, seList, seOpen, seTimeout, seMask, seSignal, seEvent,
                       seSelect, seFailed, seDangling>>

(* ... when the port is ready: every pending read, write or wait that can  *)
(* go on is completed, and freed with it; in_event is cleared.  Whether it *)
(* leaves the list is then read from the freed request: one that failed    *)
(* stays, and so may one whose memory was used again.                      *)
SelectReady(ready, rs, stays) ==
    /\ seThread = "select" /\ ~seDangling
    /\ ready # {} /\ \E r \in ToSet(sePending) : seOf[r] \in ready
    /\ rs = {r \in ToSet(sePending) : seOf[r] \in ready} \cup
            {r \in rs : seOf[r] = "wait"}
    /\ \A r \in ToSet(sePending) : seOf[r] = "wait" /\ ~seMask => r \in rs
    /\ Answered(rs)
    /\ seDangling' = stays
    /\ sePending' = IF stays THEN sePending ELSE Without(sePending, rs)
    /\ seLooked' = seLooked \cup ToSet(sePending)
    /\ seEvent' = FALSE
    /\ seThread' = "wait"
    /\ UNCHANGED <<seOf, seList, seOpen, seTimeout, seMask, seSignal, seSelect,
                   seFailed>>

SerialThread ==
    \/ SerialWake \/ SerialListDone \/ SelectTimesOut
    \/ \E ok \in BOOLEAN : SerialProcess(ok)
    \/ \E ready \in {{"read"}, {"write"}, {"read", "write"}},
          rs \in SUBSET ToSet(sePending) : SelectReady(ready, rs, FALSE)

SeNext ==
    \/ \E r \in SReq, op \in SOps : SerialRequest(r, op)
    \/ SerialThread
    \/ SelectFails
    \/ \E ready \in {{"read"}, {"write"}, {"read", "write"}},
          rs \in SUBSET ToSet(sePending) : SelectReady(ready, rs, TRUE)

SeSpec == SeInit /\ [][SeNext]_seVars

(* Fairness: the thread runs.  That select fails, or that a freed request  *)
(* stays on the list, is never owed.                                       *)
SeFairness == WF_seVars(SerialThread)

-----------------------------------------------------------------------------
SeTypeOK ==
    /\ seOf \in [SReq -> SOps \cup {"none"}]
    /\ seState \in [SReq -> {"new", "listed", "pending", "answered"}]
    /\ seAnswers \in [SReq -> 0 .. 2]
    /\ seList \in Seq(SReq) /\ sePending \in Seq(SReq) /\ seLooked \subseteq SReq
    /\ {seOpen, seTimeout, seMask, seSignal, seEvent, seSelect, seFailed,
        seDangling} \subseteq BOOLEAN
    /\ seThread \in {"wait", "list", "select"}

(* A request is completed at most once, by whichever of the four places    *)
(* that complete pending requests comes first: as long as no freed request *)
(* stays behind, what is on pending_irps has not been answered and what    *)
(* was answered is on no list (serial_main.c).                             *)
SerialOnce ==
    ~seDangling =>
        /\ \A r \in SReq : seAnswers[r] = IF seState[r] = "answered" THEN 1 ELSE 0
        /\ ToSet(sePending) = {r \in SReq : seState[r] = "pending"}
        /\ ToSet(seList) = {r \in SReq : seState[r] = "listed"}

(* When the thread goes to sleep it has passed every pending read and      *)
(* write to select: in_event, which check_fds clears, hides none.          *)
NoneOverlooked ==
    seThread = "wait" =>
        \A r \in ToSet(sePending) : seOf[r] \in {"read", "write"} => r \in seLooked

(* A wait_mask of zero cancels every wait: none is pending after it.       *)
MaskCancels ==
    seThread # "wait" /\ ~seMask /\ ~seDangling =>
        \A r \in ToSet(sePending) : seOf[r] # "wait"

(* A lone request, be it a read on a port with timeouts, is answered:      *)
(* select ends by data or by the timeout.  Of two outstanding reads or     *)
(* writes one may wait for the next request to wake the thread.            *)
Lone ==
    \E r \in SReq : /\ seState[r] = "listed" /\ Outstanding = {r}
                    /\ seOf[r] \notin {"write", "wait"} /\ (seOf[r] = "read" => seTimeout)
LoneIsAnswered == Lone ~> (~(\E r \in SReq : Outstanding = {r}) \/ seFailed \/ seDangling)

(* Redirected devices: each request is worked off in order, by a thread    *)
(* that still has its device, but for the named late completion; files have*)
(* distinct identifiers; devices are announced in time.                    *)
RequestsAreSafe ==
    /\ RdTypeOK /\ WorkedInOrder /\ FreedWhenQuit
    /\ LateCompletion /\ FileIdsDistinct /\ AnnouncedInTime
=============================================================================
