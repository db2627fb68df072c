-------------------------- MODULE VirtualChannels --------------------------
(***************************************************************************)
(* The virtual channel manager of NeutrinoRDP and the plugins it drives:   *)
(*    libfreerdp-channels/libchannels.c   the manager (main thread)        *)
(*    libfreerdp-utils/svc_plugin.c       one plugin, with its own thread  *)
(*    libfreerdp-utils/thread.c           start, stop and free of a thread *)
(*    client/X11/xfreerdp.c               the loop that drives the manager *)
(*                                                                         *)
(* A plugin thread hands data to the main thread through sync_data_list    *)
(* (under a mutex) and events through the one slot "event" (guarded by a   *)
(* semaphore), and wakes it with "signal".  The main thread hands data to  *)
(* the plugin through data_in_list and wakes it with signals[1]; it stops  *)
(* it with signals[0].  Wait objects are atomic flags here; WaitObjPipe    *)
(* shows that the pipe behind them behaves like one.                       *)
(***************************************************************************)
EXTENDS Integers, Sequences, FiniteSets

CONSTANTS
    NLibs,         \* number of loaded plugins (num_libs_data)
    Interval,      \* the plugins with interval_ms > 0
    PollLimit,     \* how often freerdp_thread_stop looks at status (1000)
    MaxWrites,     \* bound: calls of svc_plugin_send by the callbacks
    MaxPushes,     \* bound: calls of svc_plugin_send_event
    MaxData        \* bound: messages and events for the plugins

Libs == 1 .. NLibs

ASSUME LibsAssumption == NLibs \in Nat /\ Interval \subseteq Libs
ASSUME LimitAssumption == PollLimit \in Nat
ASSUME BoundAssumption ==
    MaxWrites \in Nat /\ MaxPushes \in Nat /\ MaxData \in Nat

VARIABLES
    is_connected,
    flags,           \* flags[l] = 2 while the plugin's channel is open
    signal,          \* channels->signal is set
    sync_data_list,  \* plugins whose data waits to be sent, in order
    event_sem,       \* value of the semaphore
    event,           \* plugin whose event is in the slot, 0 for NULL
    data_in_list,    \* data_in_list[l]: number of messages queued for l
    stop,            \* stop[l]: signals[0] of l's thread is set
    data,            \* data[l]: signals[1] of l's thread is set
    status,          \* status[l]: 0, 1 running, -1 quit
    freed,           \* freed[l]: l's thread object and queue are freed
    mpc, mlib, polls,   \* main thread: next step, plugin at hand, i
    tpc, ret,        \* plugin threads: next step, where a callback resumes
    late,            \* history: late[l], freerdp_thread_stop gave up on l
    writes, pushes, received   \* counters for the bounds

chan  == <<is_connected, flags, signal, sync_data_list, event_sem, event>>
svc   == <<data_in_list, stop, data, status, freed>>
main  == <<mpc, mlib, polls>>
thr   == <<tpc, ret>>
count == <<writes, pushes, received>>
vars  == <<chan, svc, main, thr, late, count>>

MainPCs == {"post_connect", "select", "check_fds", "signal_thread", "is_set",
            "clear", "process_sync", "pop_event", "close", "thread_stop",
            "poll", "terminated", "free", "done"}
Write == {"w_check", "w_lock", "w_enqueue", "w_set"}
Push  == {"e_check", "e_wait", "e_check2", "e_store", "e_set"}
Calls == {"connect_callback", "callback", "interval_callback"}
ThreadPCs == {"none", "wait", "stopped", "reset", "process", "dequeue", "quit",
              "clear_stop", "gone"} \cup Calls \cup Write \cup Push

Init ==
    /\ is_connected = FALSE /\ flags = [l \in Libs |-> 0]
    /\ signal = FALSE /\ sync_data_list = <<>> /\ event_sem = 1 /\ event = 0
    /\ data_in_list = [l \in Libs |-> 0]
    /\ stop = [l \in Libs |-> FALSE] /\ data = [l \in Libs |-> FALSE]
    /\ status = [l \in Libs |-> 0] /\ freed = [l \in Libs |-> FALSE]
    /\ mpc = "post_connect" /\ mlib = 0 /\ polls = 0
    /\ tpc = [l \in Libs |-> "none"] /\ ret = [l \in Libs |-> "callback"]
    /\ late = [l \in Libs |-> FALSE]
    /\ writes = 0 /\ pushes = 0 /\ received = 0

-----------------------------------------------------------------------------
(* The main thread.                                                        *)

MainTo(l) == mpc' = l /\ UNCHANGED <<mlib, polls>>

(* freerdp_channels_post_connect sets is_connected and calls CONNECTED for  *)
(* one plugin after the other: MyVirtualChannelOpen, then its thread starts. *)
post_connect ==
    /\ mpc = "post_connect"
    /\ is_connected' = TRUE
    /\ IF mlib < NLibs
       THEN /\ mlib' = mlib + 1
            /\ flags'  = [flags EXCEPT ![mlib + 1] = 2]
            /\ status' = [status EXCEPT ![mlib + 1] = 1]
            /\ tpc'    = [tpc EXCEPT ![mlib + 1] = "connect_callback"]
            /\ UNCHANGED mpc
       ELSE /\ mlib' = 0 /\ mpc' = "select"
            /\ UNCHANGED <<flags, status, tpc>>
    /\ UNCHANGED <<signal, sync_data_list, event_sem, event, data_in_list,
                   stop, data, freed, polls, ret, late, count>>

(* xfreerdp_run sleeps in select until the manager's signal is set ...     *)
select_signal ==
    /\ mpc = "select" /\ signal
    /\ MainTo("check_fds")
    /\ UNCHANGED <<chan, svc, thr, late, count>>

(* ... or the network or the display has something to read.                *)
select_other ==
    /\ mpc = "select"
    /\ MainTo("check_fds")
    /\ UNCHANGED <<chan, svc, thr, late, count>>

(* The connection ends: the loop condition, or a failing check_fds.        *)
disconnect ==
    /\ mpc \in {"select", "check_fds"}
    /\ MainTo("close")
    /\ UNCHANGED <<chan, svc, thr, late, count>>

(* freerdp_check_fds and xf_check_fds: a message of the server for plugin  *)
(* l, or an event of the user interface for it, is queued ...              *)
process_received(l) ==
    /\ mpc = "check_fds" /\ received < MaxData
    /\ received' = received + 1
    /\ data_in_list' = [data_in_list EXCEPT ![l] = @ + 1]
    /\ mpc' = "signal_thread" /\ mlib' = l /\ UNCHANGED polls
    /\ UNCHANGED <<chan, stop, data, status, freed, thr, late, writes, pushes>>

(* ... and its thread is woken.                                            *)
signal_thread ==
    /\ mpc = "signal_thread"
    /\ data' = [data EXCEPT ![mlib] = TRUE]
    /\ mpc' = "check_fds" /\ mlib' = 0 /\ UNCHANGED polls
    /\ UNCHANGED <<chan, data_in_list, stop, status, freed, thr, late, count>>

nothing_left ==
    /\ mpc = "check_fds"
    /\ MainTo("is_set")
    /\ UNCHANGED <<chan, svc, thr, late, count>>

(* freerdp_channels_check_fds.  What follows it depends on whether it was  *)
(* called by the loop or by freerdp_channels_close.                        *)
AfterSync == IF is_connected THEN "pop_event" ELSE "thread_stop"

is_set ==
    /\ mpc = "is_set"
    /\ MainTo(IF signal THEN "clear" ELSE AfterSync)
    /\ UNCHANGED <<chan, svc, thr, late, count>>

clear ==
    /\ mpc = "clear"
    /\ signal' = FALSE
    /\ MainTo("process_sync")
    /\ UNCHANGED <<is_connected, flags, sync_data_list, event_sem, event, svc,
                   thr, late, count>>

(* sync_data_mutex is held between the second check of MyVirtualChannelWrite *)
(* and the end of its enqueue.                                             *)
Locked == \E l \in Libs : tpc[l] = "w_enqueue"

(* freerdp_channels_process_sync sends the items one by one and tells the  *)
(* plugin (WRITE_COMPLETE) that it is done with the data.                  *)
process_sync ==
    /\ mpc = "process_sync"
    /\ IF sync_data_list # <<>>
       THEN ~Locked /\ sync_data_list' = Tail(sync_data_list) /\ UNCHANGED main
       ELSE MainTo(AfterSync) /\ UNCHANGED sync_data_list
    /\ UNCHANGED <<is_connected, flags, signal, event_sem, event, svc, thr, late,
                   count>>

(* Mutant: the semaphore is released without an event.                     *)
pop_event_always_signals ==
    /\ mpc = "pop_event"
    /\ event' = 0 /\ event_sem' = event_sem + 1
    /\ MainTo("select")
    /\ UNCHANGED <<is_connected, flags, signal, sync_data_list, svc, thr, late,
                   count>>

(* Mutant: the semaphore is not released.                                  *)
pop_event_keeps_sem ==
    /\ mpc = "pop_event"
    /\ event' = 0
    /\ MainTo("select")
    /\ UNCHANGED <<is_connected, flags, signal, sync_data_list, event_sem, svc,
                   thr, late, count>>

pop_event ==
    /\ mpc = "pop_event"
    /\ IF event = 0
       THEN UNCHANGED <<event, event_sem>>
       ELSE event' = 0 /\ event_sem' = event_sem + 1
    /\ MainTo("select")
    /\ UNCHANGED <<is_connected, flags, signal, sync_data_list, svc, thr, late,
                   count>>

-----------------------------------------------------------------------------
(* freerdp_channels_close: refuse new data, send what is queued, and call   *)
(* TERMINATED for every plugin.                                            *)

(* Mutant: what is queued is not sent before the plugins are terminated.   *)
close_no_sync ==
    /\ mpc = "close"
    /\ is_connected' = FALSE
    /\ mpc' = "thread_stop" /\ mlib' = 1 /\ UNCHANGED polls
    /\ UNCHANGED <<flags, signal, sync_data_list, event_sem, event, svc, thr,
                   late, count>>

close ==
    /\ mpc = "close"
    /\ is_connected' = FALSE
    /\ mpc' = "is_set" /\ mlib' = 1 /\ UNCHANGED polls
    /\ UNCHANGED <<flags, signal, sync_data_list, event_sem, event, svc, thr,
                   late, count>>

(* Mutant: the thread is told to stop and not waited for.                  *)
thread_stop_no_wait ==
    /\ mpc = "thread_stop"
    /\ IF mlib \in Libs
       THEN /\ stop' = [stop EXCEPT ![mlib] = TRUE]
            /\ mpc' = "terminated" /\ polls' = 0 /\ UNCHANGED mlib
       ELSE UNCHANGED stop /\ MainTo("free")
    /\ UNCHANGED <<chan, data_in_list, data, status, freed, thr, late, count>>

(* svc_plugin_process_terminated: freerdp_thread_stop sets signals[0] ...  *)
thread_stop ==
    /\ mpc = "thread_stop"
    /\ IF mlib \in Libs
       THEN /\ stop' = [stop EXCEPT ![mlib] = TRUE]
            /\ mpc' = "poll" /\ polls' = 0 /\ UNCHANGED mlib
       ELSE UNCHANGED stop /\ MainTo("free")
    /\ UNCHANGED <<chan, data_in_list, data, status, freed, thr, late, count>>

(* Mutant: one poll too many.                                              *)
poll_off_by_one ==
    /\ mpc = "poll"
    /\ IF status[mlib] > 0 /\ polls <= PollLimit
       THEN polls' = polls + 1 /\ UNCHANGED <<mpc, mlib, late>>
       ELSE /\ late' = IF status[mlib] > 0 THEN [late EXCEPT ![mlib] = TRUE]
                                             ELSE late
            /\ MainTo("terminated")
    /\ UNCHANGED <<chan, svc, thr, count>>

(* ... and looks at status every 100 ms, at most PollLimit times.          *)
poll ==
    /\ mpc = "poll"
    /\ IF status[mlib] > 0 /\ polls < PollLimit
       THEN polls' = polls + 1 /\ UNCHANGED <<mpc, mlib, late>>
       ELSE /\ late' = IF status[mlib] > 0 THEN [late EXCEPT ![mlib] = TRUE]
                                             ELSE late
            /\ MainTo("terminated")
    /\ UNCHANGED <<chan, svc, thr, count>>

(* The thread object, the channel and the queue go.                        *)
terminated ==
    /\ mpc = "terminated"
    /\ freed' = [freed EXCEPT ![mlib] = TRUE]
    /\ flags' = [flags EXCEPT ![mlib] = 0]
    /\ data_in_list' = [data_in_list EXCEPT ![mlib] = 0]
    /\ mpc' = "thread_stop" /\ mlib' = mlib + 1 /\ polls' = 0
    /\ UNCHANGED <<is_connected, signal, sync_data_list, event_sem, event, stop,
                   data, status, thr, late, count>>

(* freerdp_channels_free drops what is left in sync_data_list.             *)
free ==
    /\ mpc = "free"
    /\ sync_data_list' = <<>>
    /\ MainTo("done")
    /\ UNCHANGED <<is_connected, flags, signal, event_sem, event, svc, thr, late,
                   count>>

-----------------------------------------------------------------------------
(* A plugin thread, svc_plugin_thread_func.  Once its thread object is     *)
(* freed under it what it does is undefined and not modelled (see late).   *)

At(l, p) == tpc[l] = p /\ ~freed[l]
ThreadTo(l, p) == tpc' = [tpc EXCEPT ![l] = p]
Call(l, p) == ThreadTo(l, p) /\ ret' = [ret EXCEPT ![l] = tpc[l]]
Return(l) == ThreadTo(l, ret[l]) /\ UNCHANGED ret

(* A callback sends data, pushes an event, or returns.                     *)
send(l) ==
    /\ tpc[l] \in Calls /\ ~freed[l] /\ writes < MaxWrites
    /\ writes' = writes + 1
    /\ Call(l, "w_check")
    /\ UNCHANGED <<chan, svc, main, late, pushes, received>>

send_event(l) ==
    /\ tpc[l] \in Calls /\ ~freed[l] /\ pushes < MaxPushes
    /\ pushes' = pushes + 1
    /\ Call(l, "e_check")
    /\ UNCHANGED <<chan, svc, main, late, writes, received>>

(* Mutant: one message is processed per wake-up.                           *)
callback_returns_to_wait(l) ==
    /\ tpc[l] \in Calls /\ ~freed[l]
    /\ ThreadTo(l, "wait")
    /\ UNCHANGED <<chan, svc, main, ret, late, count>>

callback_returns(l) ==
    /\ tpc[l] \in Calls /\ ~freed[l]
    /\ ThreadTo(l, IF tpc[l] = "callback" THEN "process" ELSE "wait")
    /\ UNCHANGED <<chan, svc, main, ret, late, count>>

(* The select on signals[0] and signals[1], with a timeout if there is an  *)
(* interval.                                                               *)
thread_wait(l) ==
    /\ At(l, "wait") /\ (stop[l] \/ data[l])
    /\ ThreadTo(l, "stopped")
    /\ UNCHANGED <<chan, svc, main, ret, late, count>>

thread_wait_timeout(l) ==
    /\ At(l, "wait") /\ l \in Interval
    /\ ThreadTo(l, "stopped")
    /\ UNCHANGED <<chan, svc, main, ret, late, count>>

is_stopped(l) ==
    /\ At(l, "stopped")
    /\ ThreadTo(l, IF stop[l] THEN "quit" ELSE "reset")
    /\ UNCHANGED <<chan, svc, main, ret, late, count>>

thread_reset(l) ==
    /\ At(l, "reset")
    /\ data' = [data EXCEPT ![l] = FALSE]
    /\ ThreadTo(l, "process")
    /\ UNCHANGED <<chan, data_in_list, stop, status, freed, main, ret, late, count>>

(* svc_plugin_process_data_in, then interval_callback if there is one.     *)
AfterData(l) == IF l \in Interval THEN "interval_callback" ELSE "wait"

process_data_in(l) ==
    /\ At(l, "process")
    /\ ThreadTo(l, IF stop[l] THEN AfterData(l) ELSE "dequeue")
    /\ UNCHANGED <<chan, svc, main, ret, late, count>>

dequeue(l) ==
    /\ At(l, "dequeue")
    /\ IF data_in_list[l] > 0
       THEN /\ data_in_list' = [data_in_list EXCEPT ![l] = @ - 1]
            /\ ThreadTo(l, "callback")
       ELSE ThreadTo(l, AfterData(l)) /\ UNCHANGED data_in_list
    /\ UNCHANGED <<chan, stop, data, status, freed, main, ret, late, count>>

(* freerdp_thread_quit: two statements, and main may act between them.     *)
quit(l) ==
    /\ At(l, "quit")
    /\ status' = [status EXCEPT ![l] = -1]
    /\ ThreadTo(l, "clear_stop")
    /\ UNCHANGED <<chan, data_in_list, stop, data, freed, main, ret, late, count>>

clear_stop(l) ==
    /\ At(l, "clear_stop")
    /\ stop' = [stop EXCEPT ![l] = FALSE]
    /\ ThreadTo(l, "gone")
    /\ UNCHANGED <<chan, data_in_list, data, status, freed, main, ret, late, count>>

-----------------------------------------------------------------------------
(* MyVirtualChannelWrite, in the thread of plugin l.                       *)

w_check(l) ==
    /\ At(l, "w_check")
    /\ IF is_connected /\ flags[l] = 2
       THEN ThreadTo(l, "w_lock") /\ UNCHANGED ret
       ELSE Return(l)
    /\ UNCHANGED <<chan, svc, main, late, count>>

w_lock(l) ==
    /\ At(l, "w_lock") /\ ~Locked
    /\ IF is_connected
       THEN ThreadTo(l, "w_enqueue") /\ UNCHANGED ret
       ELSE Return(l)
    /\ UNCHANGED <<chan, svc, main, late, count>>

w_enqueue(l) ==
    /\ At(l, "w_enqueue")
    /\ sync_data_list' = Append(sync_data_list, l)
    /\ ThreadTo(l, "w_set") /\ UNCHANGED ret
    /\ UNCHANGED <<is_connected, flags, signal, event_sem, event, svc, main, late,
                   count>>

(* Mutant: only the first of several items wakes the main thread.          *)
w_set_if_first(l) ==
    /\ At(l, "w_set")
    /\ signal' = (signal \/ Len(sync_data_list) = 1)
    /\ Return(l)
    /\ UNCHANGED <<is_connected, flags, sync_data_list, event_sem, event, svc,
                   main, late, count>>

w_set(l) ==
    /\ At(l, "w_set")
    /\ signal' = TRUE
    /\ Return(l)
    /\ UNCHANGED <<is_connected, flags, sync_data_list, event_sem, event, svc,
                   main, late, count>>

(* MyVirtualChannelEventPush.                                              *)
e_check(l) ==
    /\ At(l, "e_check")
    /\ IF is_connected /\ flags[l] = 2
       THEN ThreadTo(l, "e_wait") /\ UNCHANGED ret
       ELSE Return(l)
    /\ UNCHANGED <<chan, svc, main, late, count>>

e_wait(l) ==
    /\ At(l, "e_wait") /\ event_sem > 0
    /\ event_sem' = event_sem - 1
    /\ ThreadTo(l, "e_check2") /\ UNCHANGED ret
    /\ UNCHANGED <<is_connected, flags, signal, sync_data_list, event, svc, main,
                   late, count>>

e_check2(l) ==
    /\ At(l, "e_check2")
    /\ IF is_connected
       THEN ThreadTo(l, "e_store") /\ UNCHANGED <<ret, event_sem>>
       ELSE event_sem' = event_sem + 1 /\ Return(l)
    /\ UNCHANGED <<is_connected, flags, signal, sync_data_list, event, svc, main,
                   late, count>>

e_store(l) ==
    /\ At(l, "e_store")
    /\ event' = l
    /\ ThreadTo(l, "e_set") /\ UNCHANGED ret
    /\ UNCHANGED <<is_connected, flags, signal, sync_data_list, event_sem, svc,
                   main, late, count>>

(* Mutant: the main thread is not woken.                                   *)
e_set_forgotten(l) ==
    /\ At(l, "e_set")
    /\ Return(l)
    /\ UNCHANGED <<chan, svc, main, late, count>>

e_set(l) ==
    /\ At(l, "e_set")
    /\ signal' = TRUE
    /\ Return(l)
    /\ UNCHANGED <<is_connected, flags, sync_data_list, event_sem, event, svc,
                   main, late, count>>

-----------------------------------------------------------------------------
Awake ==          \* what the main thread does of its own accord
    \/ post_connect \/ select_signal \/ signal_thread \/ nothing_left \/ is_set
    \/ clear \/ process_sync \/ pop_event \/ close \/ thread_stop \/ poll
    \/ terminated \/ free

Main == Awake \/ select_other \/ disconnect
             \/ \E l \in Libs : process_received(l)

Thread(l) ==
    \/ callback_returns(l) \/ thread_wait(l) \/ is_stopped(l) \/ thread_reset(l)
    \/ process_data_in(l) \/ dequeue(l) \/ quit(l) \/ clear_stop(l)
    \/ w_check(l) \/ w_lock(l) \/ w_enqueue(l) \/ w_set(l)
    \/ e_check(l) \/ e_wait(l) \/ e_check2(l) \/ e_store(l) \/ e_set(l)

Plugin(l) == Thread(l) \/ send(l) \/ send_event(l) \/ thread_wait_timeout(l)

Next == Main \/ \E l \in Libs : Plugin(l)

Spec == Init /\ [][Next]_vars

(* Both kinds of threads keep running while they have something to do, and *)
(* a thread that keeps trying gets the mutex or the semaphore (SF).  The   *)
(* main thread is not assumed to be woken by the network or the display,   *)
(* nor a plugin thread by its timeout.                                     *)
Fairness == SF_vars(Awake) /\ \A l \in Libs : SF_vars(Thread(l))

FairSpec == Spec /\ Fairness

-----------------------------------------------------------------------------
(* Type correctness.                                                       *)
TypeOK ==
    /\ is_connected \in BOOLEAN /\ flags \in [Libs -> {0, 2}]
    /\ signal \in BOOLEAN /\ sync_data_list \in Seq(Libs)
    /\ event_sem \in Nat /\ event \in Libs \cup {0}
    /\ data_in_list \in [Libs -> Nat]
    /\ stop \in [Libs -> BOOLEAN] /\ data \in [Libs -> BOOLEAN]
    /\ status \in [Libs -> {-1, 0, 1}] /\ freed \in [Libs -> BOOLEAN]
    /\ mpc \in MainPCs /\ mlib \in 0 .. NLibs + 1 /\ polls \in 0 .. PollLimit
    /\ tpc \in [Libs -> ThreadPCs] /\ ret \in [Libs -> Calls]
    /\ late \in [Libs -> BOOLEAN]
    /\ writes \in 0 .. MaxWrites /\ pushes \in 0 .. MaxPushes
    /\ received \in 0 .. MaxData

(* No wake-up of the main thread is lost: while data waits in              *)
(* sync_data_list, the signal is set, or the writer is about to set it, or *)
(* the main thread is about to look at the list.                           *)
NoLostWrite ==
    is_connected /\ sync_data_list # <<>> =>
        \/ signal \/ mpc = "process_sync"
        \/ \E l \in Libs : tpc[l] = "w_set"

(* The same for an event in the slot.                                      *)
NoLostEvent ==
    is_connected /\ event # 0 =>
        \/ signal \/ mpc \in {"process_sync", "pop_event"}
        \/ \E l \in Libs : tpc[l] = "e_set"

(* No wake-up of a plugin thread is lost: while messages wait for it, its  *)
(* signal is set, or main is about to set it, or the thread will look at   *)
(* the queue again before it sleeps (or it is told to stop).               *)
Draining(l) ==
    \/ tpc[l] \in {"process", "dequeue", "callback"}
    \/ tpc[l] \in Write \cup Push /\ ret[l] = "callback"

NoLostMessage ==
    \A l \in Libs : data_in_list[l] > 0 =>
        \/ data[l] \/ (mpc = "signal_thread" /\ mlib = l)
        \/ Draining(l) \/ stop[l] \/ status[l] < 0

(* The event slot has one owner at a time: the semaphore's unit is free, or *)
(* with one pusher, or in the slot.  So no event is overwritten by another. *)
Owners == {l \in Libs : tpc[l] \in {"e_check2", "e_store"}}

SlotExclusive ==
    /\ event_sem <= 1
    /\ event # 0 => event_sem = 0 /\ Owners = {}
    /\ event_sem = 1 => Owners = {}
    /\ \A l, k \in Owners : l = k

(* A disconnect loses at most one accepted write of each plugin: whatever  *)
(* a plugin queued before that one is sent by freerdp_channels_close.      *)
AtMostOneLost ==
    ~is_connected /\ mpc \in {"thread_stop", "poll", "terminated", "free"} =>
        \A i, j \in 1 .. Len(sync_data_list) :
            sync_data_list[i] = sync_data_list[j] => i = j

(* freerdp_thread_stop waits for the thread: its object is freed while the *)
(* thread may still use it only if it did not react for PollLimit polls,   *)
(* or in the last statement of freerdp_thread_quit.                        *)
FreedAfterQuit ==
    \A l \in Libs : freed[l] => late[l] \/ tpc[l] \in {"clear_stop", "gone"}

(* Data that a plugin wrote is sent, without help from network or display, *)
(* unless the connection ends.                                             *)
WritesAreSent ==
    sync_data_list # <<>> /\ is_connected
        ~> sync_data_list = <<>> \/ ~is_connected

(* A plugin waiting for the event slot gets it, unless the connection ends. *)
PushesGetThrough ==
    \A l \in Libs : tpc[l] = "e_wait" ~> tpc[l] # "e_wait" \/ ~is_connected

(* A message for a plugin reaches its callback, unless it is stopped.      *)
MessagesAreRead ==
    \A l \in Libs : data_in_list[l] > 0 ~> data_in_list[l] = 0 \/ stop[l]

(* Closing ends, even if a plugin thread hangs: every plugin is terminated. *)
CloseEnds == mpc = "close" ~> mpc = "done"

(* What is waiting to be sent is sent, who waits for the event slot gets   *)
(* it, and closing ends.                                                   *)
SendingEnds ==
    /\ WritesAreSent /\ PushesGetThrough /\ CloseEnds
=============================================================================
