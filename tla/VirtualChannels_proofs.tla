----------------------- MODULE VirtualChannels_proofs -----------------------
(***************************************************************************)
(* Proofs about VirtualChannels, for any number of plugins, any poll limit *)
(* and any number of writes, events and messages.                          *)
(***************************************************************************)
EXTENDS VirtualChannels, TLAPS

(* TypeOK in parts.                                                        *)
ChanTypeOK ==
    /\ is_connected \in BOOLEAN /\ flags \in [Libs -> {0, 2}]
    /\ signal \in BOOLEAN /\ sync_data_list \in Seq(Libs)
    /\ event_sem \in Nat /\ event \in Libs \cup {0}

SvcTypeOK ==
    /\ data_in_list \in [Libs -> Nat]
    /\ stop \in [Libs -> BOOLEAN] /\ data \in [Libs -> BOOLEAN]
    /\ status \in [Libs -> {-1, 0, 1}] /\ freed \in [Libs -> BOOLEAN]

MainTypeOK ==
    mpc \in MainPCs /\ mlib \in 0 .. NLibs + 1 /\ polls \in 0 .. PollLimit

ThreadTypeOK ==
    /\ tpc \in [Libs -> ThreadPCs] /\ ret \in [Libs -> Calls]
    /\ late \in [Libs -> BOOLEAN]
    /\ writes \in 0 .. MaxWrites /\ pushes \in 0 .. MaxPushes
    /\ received \in 0 .. MaxData

(* What ties the main thread's place in post_connect and close to the      *)
(* states of the plugin threads: a thread runs once its plugin's turn has  *)
(* come, and status tells main how far it is.                              *)
StepInv ==
    /\ mpc = "post_connect" =>
          /\ mlib <= NLibs
          /\ \A l \in Libs : tpc[l] = "none" <=> l > mlib
          /\ ~is_connected => mlib = 0 /\ sync_data_list = <<>> /\ event = 0
    /\ mpc # "post_connect" => \A l \in Libs : tpc[l] # "none"
    /\ \A l \in Libs : status[l] = 0 <=> tpc[l] = "none"
    /\ \A l \in Libs : status[l] = -1 <=> tpc[l] \in {"clear_stop", "gone"}
    /\ mpc \in {"signal_thread", "poll", "terminated"} => mlib \in Libs
    /\ mpc = "terminated" => late[mlib] \/ status[mlib] = -1

IInv ==
    /\ ChanTypeOK /\ SvcTypeOK /\ MainTypeOK /\ ThreadTypeOK /\ StepInv
    /\ NoLostWrite /\ NoLostEvent /\ SlotExclusive /\ FreedAfterQuit

USE LibsAssumption, LimitAssumption, BoundAssumption

(* The initial state satisfies the inductive invariant.                    *)
LEMMA InitIInv == Init => IInv
<1> SUFFICES ASSUME Init PROVE IInv
    OBVIOUS
<1>1. ChanTypeOK
    <2>1. sync_data_list \in Seq(Libs)
        BY DEF Init
    <2>. QED BY <2>1 DEF Init, ChanTypeOK
<1>2. SvcTypeOK
    BY DEF Init, SvcTypeOK
<1>3. MainTypeOK
    BY DEF Init, MainTypeOK, MainPCs
<1>4. ThreadTypeOK
    BY DEF Init, ThreadTypeOK, ThreadPCs, Calls
<1>5. StepInv
    BY DEF Init, StepInv, Libs
<1>6. NoLostWrite /\ NoLostEvent
    BY DEF Init, NoLostWrite, NoLostEvent
<1>7. SlotExclusive /\ FreedAfterQuit
    BY DEF Init, SlotExclusive, Owners, FreedAfterQuit
<1>. QED BY <1>1, <1>2, <1>3, <1>4, <1>5, <1>6, <1>7 DEF IInv

(* Where a thread is while it runs, and while it does not hold the slot.   *)
Alive   == ThreadPCs \ {"none", "clear_stop", "gone"}
Outside == ThreadPCs \ {"e_check2", "e_store"}

(* A plugin thread that is running and stays so does not disturb the facts *)
(* about starting, stopping and freeing of threads ...                     *)
LEMMA BusyThread ==
    ASSUME IInv, NEW l \in Libs, NEW p \in Alive, tpc[l] \in Alive,
           ThreadTo(l, p), UNCHANGED <<main, is_connected, status, freed, late>>
    PROVE  tpc' \in [Libs -> ThreadPCs] /\ StepInv' /\ FreedAfterQuit'
<1>1. tpc' = [tpc EXCEPT ![l] = p] /\ p \notin {"none", "clear_stop", "gone"}
      /\ tpc[l] \notin {"none", "clear_stop", "gone"}
    BY DEF ThreadTo, Alive
<1>2. \A k \in Libs : /\ tpc'[k] = "none" <=> tpc[k] = "none"
                      /\ tpc'[k] \in {"clear_stop", "gone"}
                            <=> tpc[k] \in {"clear_stop", "gone"}
    BY <1>1 DEF IInv, ThreadTypeOK
<1>3. mpc = "post_connect" => is_connected
    BY <1>1 DEF IInv, StepInv, Libs
<1>4. tpc' \in [Libs -> ThreadPCs]
    BY <1>1 DEF IInv, ThreadTypeOK, Alive
<1>5. StepInv'
    BY <1>2, <1>3 DEF IInv, StepInv, main
<1>6. FreedAfterQuit'
    BY <1>2 DEF IInv, FreedAfterQuit
<1>. QED BY <1>4, <1>5, <1>6

(* ... one that does not take the semaphore does not disturb the slot ...  *)
LEMMA NewOutside ==
    ASSUME IInv, NEW l \in Libs, NEW p \in Outside, ThreadTo(l, p),
           UNCHANGED <<event, event_sem>>
    PROVE  SlotExclusive'
<1>1. tpc' = [tpc EXCEPT ![l] = p] /\ p \notin {"e_check2", "e_store"}
    BY DEF ThreadTo, Outside
<1>2. Owners' \subseteq Owners
    BY <1>1 DEF IInv, ThreadTypeOK, Owners
<1>. QED BY <1>2 DEF IInv, SlotExclusive

(* ... and one that is not about to wake the main thread loses no wake-up. *)
LEMMA NoWaker ==
    ASSUME IInv, NEW l \in Libs, NEW p, ThreadTo(l, p),
           UNCHANGED <<is_connected, signal, mpc>>
    PROVE  /\ tpc[l] # "w_set" /\ UNCHANGED sync_data_list => NoLostWrite'
           /\ tpc[l] # "e_set" /\ UNCHANGED event => NoLostEvent'
<1>1. \A k \in Libs : k # l => tpc'[k] = tpc[k]
    BY DEF IInv, ThreadTypeOK, ThreadTo
<1>2. ASSUME tpc[l] # "w_set", UNCHANGED sync_data_list PROVE NoLostWrite'
    BY <1>1, <1>2 DEF IInv, NoLostWrite
<1>3. ASSUME tpc[l] # "e_set", UNCHANGED event PROVE NoLostEvent'
    BY <1>1, <1>3 DEF IInv, NoLostEvent
<1>. QED BY <1>2, <1>3

(* The main thread disturbs no plugin thread while it goes on.             *)
LEMMA MainGoesOn ==
    ASSUME IInv, mpc # "post_connect", mpc' \notin {"post_connect", "terminated"},
           mpc' \in {"signal_thread", "poll"} => mlib' \in Libs,
           UNCHANGED <<thr, status, freed, late>>
    PROVE  StepInv' /\ FreedAfterQuit'
<1>1. tpc' = tpc
    BY DEF thr
<1>2. StepInv'
    BY <1>1 DEF IInv, StepInv
<1>3. FreedAfterQuit'
    BY <1>1 DEF IInv, FreedAfterQuit
<1>. QED BY <1>2, <1>3

(* While the manager's own state stays the same, the main thread loses no  *)
(* wake-up by going on from a place that is not the one it is needed at.   *)
LEMMA ChanStays ==
    ASSUME IInv, UNCHANGED <<chan, thr>>, mpc \notin {"process_sync", "pop_event"}
    PROVE  ChanTypeOK' /\ NoLostWrite' /\ NoLostEvent' /\ SlotExclusive'
<1>1. UNCHANGED <<is_connected, flags, signal, sync_data_list, event_sem, event, tpc>>
    BY DEF chan, thr
<1>2. ChanTypeOK' /\ SlotExclusive'
    BY <1>1 DEF IInv, ChanTypeOK, SlotExclusive, Owners
<1>3. NoLostWrite' /\ NoLostEvent'
    BY <1>1 DEF IInv, NoLostWrite, NoLostEvent
<1>. QED BY <1>2, <1>3

(* Every step of the main thread preserves the invariant.                  *)
LEMMA MainIInv == ASSUME IInv, Main PROVE IInv'
<1>1. CASE post_connect
    <2>1. ChanTypeOK'
        BY <1>1 DEF IInv, post_connect, count, ChanTypeOK, StepInv, Libs,
            MainTypeOK
    <2>2. SvcTypeOK'
        BY <1>1 DEF IInv, post_connect, count, SvcTypeOK, StepInv, Libs,
            MainTypeOK
    <2>3. MainTypeOK'
        BY <1>1 DEF IInv, post_connect, count, MainTypeOK, MainPCs, Libs,
            StepInv
    <2>4. ThreadTypeOK'
        BY <1>1 DEF IInv, post_connect, count, ThreadTypeOK, ThreadPCs,
            Calls, Write, Push, Libs, MainTypeOK
    <2>5. StepInv'
        <3>1. CASE mlib < NLibs
            <4>1. /\ mlib + 1 \in Libs /\ mlib' = mlib + 1 /\ mpc' = mpc
                  /\ is_connected' /\ mlib \in Int
                BY <1>1, <3>1 DEF IInv, post_connect, MainTypeOK, Libs
            <4>2. \A l \in Libs :
                      /\ tpc'[l] = IF l = mlib + 1 THEN "connect_callback" ELSE tpc[l]
                      /\ status'[l] = IF l = mlib + 1 THEN 1 ELSE status[l]
                BY <1>1, <3>1 DEF IInv, post_connect, ThreadTypeOK, SvcTypeOK
            <4>3. \A l \in Libs : tpc'[l] = "none" <=> l > mlib + 1
                BY <1>1, <3>1, <4>1, <4>2 DEF IInv, post_connect, StepInv, Libs
            <4>. QED BY <1>1, <3>1, <4>1, <4>2, <4>3
                     DEF IInv, post_connect, StepInv, Libs, MainTypeOK
        <3>2. CASE ~(mlib < NLibs)
            <4>1. \A l \in Libs : tpc[l] # "none"
                BY <1>1, <3>2 DEF IInv, post_connect, StepInv, MainTypeOK, Libs
            <4>. QED BY <1>1, <3>2, <4>1 DEF IInv, post_connect, StepInv
        <3>. QED BY <3>1, <3>2
    <2>6. \A l \in Libs : tpc[l] # "none" => tpc'[l] = tpc[l]
        BY <1>1 DEF IInv, post_connect, StepInv, ThreadTypeOK, MainTypeOK, Libs
    <2>7. NoLostWrite'
        BY <1>1, <2>6 DEF IInv, post_connect, NoLostWrite, StepInv
    <2>8. NoLostEvent'
        BY <1>1, <2>6 DEF IInv, post_connect, NoLostEvent, StepInv
    <2>9. SlotExclusive'
        <3>1. CASE mlib < NLibs
            <4>1. mlib + 1 \in Libs /\ "connect_callback" \in Outside
                BY <3>1 DEF IInv, MainTypeOK, Libs, Outside, ThreadPCs, Calls
            <4>. QED BY <1>1, <3>1, <4>1, NewOutside DEF post_connect, ThreadTo
        <3>2. CASE ~(mlib < NLibs)
            BY <1>1, <3>2 DEF IInv, post_connect, SlotExclusive, Owners
        <3>. QED BY <3>1, <3>2
    <2>10. FreedAfterQuit'
        <3>1. \A l \in Libs : freed[l] => late[l] \/ tpc[l] # "none"
            BY DEF IInv, FreedAfterQuit
        <3>. QED BY <1>1, <2>6, <3>1 DEF IInv, post_connect, FreedAfterQuit
    <2>. QED BY <2>1, <2>2, <2>3, <2>4, <2>5, <2>7, <2>8, <2>9, <2>10 DEF IInv
<1>2. CASE select_signal \/ select_other \/ disconnect \/ nothing_left \/ is_set
    <2>1. /\ UNCHANGED <<chan, svc, thr, late, count, mlib, polls>>
          /\ mpc \in {"select", "check_fds", "is_set"}
          /\ mpc' \in {"check_fds", "close", "is_set", "clear", "pop_event", "thread_stop"}
        BY <1>2 DEF select_signal, select_other, disconnect, nothing_left, is_set, MainTo, AfterSync
    <2>2. SvcTypeOK' /\ MainTypeOK' /\ ThreadTypeOK'
        BY <2>1 DEF IInv, svc, thr, count, SvcTypeOK, MainTypeOK, MainPCs, ThreadTypeOK
    <2>3. StepInv' /\ FreedAfterQuit'
        BY <2>1, MainGoesOn DEF svc
    <2>. QED BY <2>1, <2>2, <2>3, ChanStays DEF IInv
<1>3. CASE signal_thread \/ \E l \in Libs : process_received(l)
    <2>1. /\ UNCHANGED <<chan, stop, status, freed, thr, late, polls, writes, pushes>>
          /\ mpc \in {"signal_thread", "check_fds"} /\ mpc' \in {"signal_thread", "check_fds"}
          /\ mlib' \in Libs \cup {0} /\ (mpc' = "signal_thread" => mlib' \in Libs)
        BY <1>3 DEF signal_thread, process_received, count
    <2>2. data_in_list' \in [Libs -> Nat] /\ data' \in [Libs -> BOOLEAN] /\ received' \in 0 .. MaxData
        <3>1. CASE signal_thread
            BY <3>1 DEF signal_thread, count, IInv, SvcTypeOK, ThreadTypeOK
        <3>2. ASSUME NEW l \in Libs, process_received(l)
              PROVE  data_in_list' \in [Libs -> Nat] /\ data' = data /\ received' \in 0 .. MaxData
            BY <3>2 DEF process_received, IInv, SvcTypeOK, ThreadTypeOK
        <3>. QED BY <1>3, <3>1, <3>2 DEF IInv, SvcTypeOK
    <2>3. SvcTypeOK' /\ MainTypeOK' /\ ThreadTypeOK'
        BY <2>1, <2>2 DEF IInv, thr, SvcTypeOK, MainTypeOK, MainPCs, ThreadTypeOK, Libs
    <2>4. StepInv' /\ FreedAfterQuit'
        BY <2>1, MainGoesOn
    <2>. QED BY <2>1, <2>3, <2>4, ChanStays DEF IInv
<1>4. CASE clear \/ process_sync \/ pop_event \/ close \/ free
    <2>1. /\ UNCHANGED <<flags, svc, thr, late, count, polls>> /\ mlib' \in {mlib, 1}
          /\ mpc \in {"clear", "process_sync", "pop_event", "close", "free"}
          /\ mpc' \in {"process_sync", "pop_event", "thread_stop", "select", "is_set", "done"}
        BY <1>4 DEF clear, process_sync, pop_event, close, free, MainTo, AfterSync, main
    <2>2. SvcTypeOK' /\ ThreadTypeOK'
        BY <2>1 DEF IInv, svc, thr, count, SvcTypeOK, ThreadTypeOK
    <2>3. MainTypeOK'
        BY <2>1 DEF IInv, MainTypeOK, MainPCs
    <2>4. StepInv' /\ FreedAfterQuit'
        BY <2>1, MainGoesOn DEF svc
    <2>5. UNCHANGED Owners /\ tpc' = tpc
        BY <2>1 DEF Owners, thr
    <2>6. CASE clear
        <3>1. sync_data_list' \in Seq(Libs)
            BY <2>6 DEF IInv, ChanTypeOK, clear
        <3>2. ChanTypeOK' /\ SlotExclusive'
            BY <2>1, <2>5, <2>6, <3>1 DEF IInv, ChanTypeOK, SlotExclusive, clear
        <3>3. NoLostWrite' /\ NoLostEvent'
            BY <2>5, <2>6 DEF IInv, NoLostWrite, NoLostEvent, clear, MainTo
        <3>. QED BY <2>2, <2>3, <2>4, <3>2, <3>3 DEF IInv
    <2>7. CASE process_sync
        <3>1. sync_data_list' \in Seq(Libs)
            BY <2>7 DEF IInv, ChanTypeOK, process_sync
        <3>2. ChanTypeOK' /\ SlotExclusive'
            BY <2>1, <2>5, <2>7, <3>1 DEF IInv, ChanTypeOK, SlotExclusive, process_sync
        <3>3. NoLostWrite' /\ NoLostEvent'
            BY <2>5, <2>7 DEF IInv, NoLostWrite, NoLostEvent, process_sync, MainTo, AfterSync, main
        <3>. QED BY <2>2, <2>3, <2>4, <3>2, <3>3 DEF IInv
    <2>8. CASE pop_event
        <3>1. sync_data_list' \in Seq(Libs)
            BY <2>8 DEF IInv, ChanTypeOK, pop_event
        <3>2. ChanTypeOK' /\ SlotExclusive'
            BY <2>1, <2>5, <2>8, <3>1 DEF IInv, ChanTypeOK, SlotExclusive, pop_event
        <3>3. NoLostWrite' /\ NoLostEvent'
            BY <2>5, <2>8 DEF IInv, NoLostWrite, NoLostEvent, pop_event, MainTo
        <3>. QED BY <2>2, <2>3, <2>4, <3>2, <3>3 DEF IInv
    <2>9. CASE close
        <3>1. sync_data_list' \in Seq(Libs)
            BY <2>9 DEF IInv, ChanTypeOK, close
        <3>2. ChanTypeOK' /\ SlotExclusive'
            BY <2>1, <2>5, <2>9, <3>1 DEF IInv, ChanTypeOK, SlotExclusive, close
        <3>3. NoLostWrite' /\ NoLostEvent'
            BY <2>5, <2>9 DEF IInv, NoLostWrite, NoLostEvent, close
        <3>. QED BY <2>2, <2>3, <2>4, <3>2, <3>3 DEF IInv
    <2>10. CASE free
        <3>1. sync_data_list' \in Seq(Libs)
            BY <2>10 DEF IInv, ChanTypeOK, free
        <3>2. ChanTypeOK' /\ SlotExclusive'
            BY <2>1, <2>5, <2>10, <3>1 DEF IInv, ChanTypeOK, SlotExclusive, free
        <3>3. NoLostWrite' /\ NoLostEvent'
            BY <2>5, <2>10 DEF IInv, NoLostWrite, NoLostEvent, free, MainTo
        <3>. QED BY <2>2, <2>3, <2>4, <3>2, <3>3 DEF IInv
    <2>. QED BY <1>4, <2>6, <2>7, <2>8, <2>9, <2>10
<1>5. CASE thread_stop
    <2>1. /\ UNCHANGED <<chan, thr, late, count, data_in_list, data, status, freed, mlib>>
          /\ mpc = "thread_stop" /\ mpc' \in {"poll", "free"} /\ (mpc' = "poll" => mlib \in Libs)
          /\ stop' \in [Libs -> BOOLEAN] /\ polls' \in {polls, 0}
        BY <1>5 DEF thread_stop, MainTo, IInv, SvcTypeOK
    <2>2. SvcTypeOK' /\ MainTypeOK' /\ ThreadTypeOK'
        BY <2>1 DEF IInv, thr, count, SvcTypeOK, MainTypeOK, MainPCs, ThreadTypeOK
    <2>3. StepInv' /\ FreedAfterQuit'
        BY <2>1, MainGoesOn
    <2>. QED BY <2>1, <2>2, <2>3, ChanStays DEF IInv
<1>6. CASE poll
    <2>1. /\ UNCHANGED <<chan, svc, thr, count, mlib>> /\ mpc = "poll"
          /\ mpc' \in {"poll", "terminated"} /\ mlib \in Libs
        BY <1>6 DEF poll, MainTo, IInv, StepInv
    <2>2. late' \in [Libs -> BOOLEAN] /\ polls' \in 0 .. PollLimit
        <3>1. late' \in {late, [late EXCEPT ![mlib] = TRUE]}
            BY <1>6 DEF poll
        <3>2. polls' \in {polls, polls + 1} /\ (polls' = polls + 1 => polls < PollLimit \/ polls' = polls)
            BY <1>6 DEF poll, MainTo
        <3>3. polls' \in 0 .. PollLimit
            BY <3>2 DEF IInv, MainTypeOK
        <3>. QED BY <3>1, <3>3 DEF IInv, ThreadTypeOK
    <2>3. SvcTypeOK' /\ MainTypeOK' /\ ThreadTypeOK'
        BY <2>1, <2>2 DEF IInv, svc, thr, count, SvcTypeOK, MainTypeOK, MainPCs, ThreadTypeOK
    <2>4. status[mlib] \in {-1, 0, 1} /\ status[mlib] # 0
        BY <2>1 DEF IInv, StepInv, SvcTypeOK
    <2>5. /\ \A l \in Libs : late[l] => late'[l]
          /\ mpc' = "terminated" => late'[mlib] \/ status[mlib] = -1
        BY <1>6, <2>1, <2>4 DEF IInv, poll, MainTo, ThreadTypeOK
    <2>6. StepInv'
        BY <2>1, <2>5 DEF IInv, StepInv, svc, thr
    <2>7. FreedAfterQuit'
        BY <2>1, <2>5 DEF IInv, FreedAfterQuit, svc, thr
    <2>. QED BY <2>1, <2>3, <2>6, <2>7, ChanStays DEF IInv
<1>7. CASE terminated
    <2>1. /\ UNCHANGED <<is_connected, signal, sync_data_list, event_sem, event, stop, data, status,
                         thr, late, count>>
          /\ mpc = "terminated" /\ mpc' = "thread_stop" /\ mlib' = mlib + 1 /\ polls' = 0
          /\ mlib \in Libs /\ (late[mlib] \/ status[mlib] = -1)
        BY <1>7 DEF terminated, IInv, StepInv
    <2>2. /\ freed' = [freed EXCEPT ![mlib] = TRUE] /\ flags' \in [Libs -> {0, 2}]
          /\ data_in_list' \in [Libs -> Nat]
        BY <1>7, <2>1 DEF terminated, IInv, ChanTypeOK, SvcTypeOK
    <2>3. ChanTypeOK' /\ SvcTypeOK' /\ ThreadTypeOK'
        BY <2>1, <2>2 DEF IInv, thr, count, ChanTypeOK, SvcTypeOK, ThreadTypeOK
    <2>4. MainTypeOK'
        BY <2>1 DEF MainTypeOK, MainPCs, Libs
    <2>5. StepInv' /\ NoLostWrite' /\ NoLostEvent' /\ SlotExclusive'
        BY <2>1 DEF IInv, StepInv, NoLostWrite, NoLostEvent, SlotExclusive, Owners, thr
    <2>6. FreedAfterQuit'
        <3>1. late[mlib] \/ tpc[mlib] \in {"clear_stop", "gone"}
            BY <2>1 DEF IInv, StepInv
        <3>2. \A k \in Libs : k # mlib => freed'[k] = freed[k]
            BY <2>2 DEF IInv, SvcTypeOK
        <3>. QED BY <2>1, <3>1, <3>2 DEF IInv, FreedAfterQuit, thr
    <2>. QED BY <2>3, <2>4, <2>5, <2>6 DEF IInv
<1>. QED BY <1>1, <1>2, <1>3, <1>4, <1>5, <1>6, <1>7 DEF Main, Awake

(* So does every step of a plugin thread.                                  *)
LEMMA PluginIInv == ASSUME IInv, NEW l \in Libs, Plugin(l) PROVE IInv'
<1>0. /\ tpc \in [Libs -> ThreadPCs] /\ ret \in [Libs -> Calls]
      /\ Calls \subseteq Alive /\ Calls \subseteq Outside
    BY DEF IInv, ThreadTypeOK, Calls, Alive, Outside, ThreadPCs
<1>1. CASE send(l) \/ send_event(l)
    <2>1. /\ UNCHANGED <<chan, svc, main, late, received>> /\ tpc[l] \in Calls
          /\ ret' \in [Libs -> Calls] /\ writes' \in 0 .. MaxWrites /\ pushes' \in 0 .. MaxPushes
        BY <1>0, <1>1 DEF send, send_event, Call, IInv, ThreadTypeOK
    <2>2. PICK p \in {"w_check", "e_check"} : ThreadTo(l, p)
        BY <1>1 DEF send, send_event, Call
    <2>3. p \in Alive /\ p \in Outside /\ tpc[l] \in Alive /\ tpc[l] \notin {"w_set", "e_set"}
        BY <1>0, <2>1 DEF Alive, Outside, ThreadPCs, Write, Push, Calls
    <2>4. tpc' \in [Libs -> ThreadPCs] /\ StepInv' /\ FreedAfterQuit'
        BY <2>1, <2>2, <2>3, BusyThread DEF chan, svc
    <2>5. ChanTypeOK' /\ SvcTypeOK' /\ MainTypeOK' /\ ThreadTypeOK'
        BY <2>1, <2>4 DEF IInv, chan, svc, main, ChanTypeOK, SvcTypeOK, MainTypeOK, ThreadTypeOK
    <2>6. SlotExclusive'
        BY <2>1, <2>2, <2>3, NewOutside DEF chan
    <2>7. NoLostWrite' /\ NoLostEvent'
        BY <2>1, <2>2, <2>3, NoWaker DEF chan, main
    <2>. QED BY <2>4, <2>5, <2>6, <2>7 DEF IInv
<1>2. CASE \/ callback_returns(l) \/ thread_wait(l) \/ thread_wait_timeout(l) \/ is_stopped(l)
           \/ thread_reset(l) \/ process_data_in(l) \/ dequeue(l)
    <2>1. /\ UNCHANGED <<chan, stop, status, freed, main, ret, late, count>>
          /\ tpc[l] \in Calls \cup {"wait", "stopped", "reset", "process", "dequeue"}
        BY <1>2 DEF callback_returns, thread_wait, thread_wait_timeout, is_stopped, thread_reset,
                    process_data_in, dequeue, At, svc
    <2>2. PICK p \in Calls \cup {"wait", "stopped", "reset", "process", "dequeue", "quit"} : ThreadTo(l, p)
        BY <1>2 DEF callback_returns, thread_wait, thread_wait_timeout, is_stopped, thread_reset,
                    process_data_in, dequeue, AfterData, Calls
    <2>3. p \in Alive /\ p \in Outside /\ tpc[l] \in Alive /\ tpc[l] \notin {"w_set", "e_set"}
        BY <1>0, <2>1, <2>2 DEF Alive, Outside, ThreadPCs, Calls
    <2>4. tpc' \in [Libs -> ThreadPCs] /\ StepInv' /\ FreedAfterQuit'
        BY <2>1, <2>2, <2>3, BusyThread DEF chan
    <2>5. data' \in [Libs -> BOOLEAN]
        BY <1>2 DEF callback_returns, thread_wait, thread_wait_timeout, is_stopped, thread_reset,
                    process_data_in, dequeue, svc, IInv, SvcTypeOK
    <2>6. data_in_list' \in [Libs -> Nat]
        <3>1. CASE dequeue(l)
            BY <3>1 DEF dequeue, IInv, SvcTypeOK
        <3>2. CASE ~dequeue(l)
            BY <1>2, <3>2 DEF callback_returns, thread_wait, thread_wait_timeout, is_stopped,
                              thread_reset, process_data_in, svc, IInv, SvcTypeOK
        <3>. QED BY <3>1, <3>2
    <2>7. ChanTypeOK' /\ SvcTypeOK' /\ MainTypeOK' /\ ThreadTypeOK'
        BY <2>1, <2>4, <2>5, <2>6
           DEF IInv, chan, main, count, ChanTypeOK, SvcTypeOK, MainTypeOK, ThreadTypeOK
    <2>8. SlotExclusive'
        BY <2>1, <2>2, <2>3, NewOutside DEF chan
    <2>9. NoLostWrite' /\ NoLostEvent'
        BY <2>1, <2>2, <2>3, NoWaker DEF chan, main
    <2>. QED BY <2>4, <2>7, <2>8, <2>9 DEF IInv
<1>3. CASE quit(l) \/ clear_stop(l)
    <2>1. /\ UNCHANGED <<chan, data_in_list, data, freed, main, ret, late, count>>
          /\ tpc[l] \in {"quit", "clear_stop"} /\ stop' \in [Libs -> BOOLEAN]
          /\ status' = [status EXCEPT ![l] = -1]
        <3>1. CASE quit(l)
            BY <3>1 DEF quit, At, IInv, SvcTypeOK
        <3>2. CASE clear_stop(l)
            <4>1. status[l] = -1
                BY <3>2 DEF clear_stop, At, IInv, StepInv
            <4>. QED BY <3>2, <4>1 DEF clear_stop, At, IInv, SvcTypeOK
        <3>. QED BY <1>3, <3>1, <3>2
    <2>2. PICK p \in {"clear_stop", "gone"} : ThreadTo(l, p)
        BY <1>3 DEF quit, clear_stop
    <2>3. /\ tpc' \in [Libs -> ThreadPCs] /\ status' \in [Libs -> {-1, 0, 1}]
          /\ tpc'[l] \in {"clear_stop", "gone"} /\ status'[l] = -1
          /\ \A k \in Libs : k # l => tpc'[k] = tpc[k] /\ status'[k] = status[k]
        BY <1>0, <2>1, <2>2 DEF ThreadTo, ThreadPCs, IInv, SvcTypeOK
    <2>4. ChanTypeOK' /\ SvcTypeOK' /\ MainTypeOK' /\ ThreadTypeOK'
        BY <2>1, <2>3 DEF IInv, chan, main, count, ChanTypeOK, SvcTypeOK, MainTypeOK, ThreadTypeOK
    <2>5. \A k \in Libs : /\ status'[k] = 0 <=> tpc'[k] = "none"
                          /\ status'[k] = -1 <=> tpc'[k] \in {"clear_stop", "gone"}
                          /\ tpc'[k] = "none" <=> tpc[k] = "none"
                          /\ status[k] = -1 => status'[k] = -1
        <3>1. \A k \in Libs : /\ status[k] = 0 <=> tpc[k] = "none"
                              /\ status[k] = -1 <=> tpc[k] \in {"clear_stop", "gone"}
            BY DEF IInv, StepInv
        <3>. QED BY <2>1, <2>3, <3>1
    <2>6. StepInv'
        <3>1. mpc = "post_connect" => is_connected
            BY <2>1 DEF IInv, StepInv, Libs
        <3>. QED BY <2>1, <2>5, <3>1 DEF IInv, StepInv, chan, main
    <2>7. FreedAfterQuit'
        BY <2>1, <2>3 DEF IInv, FreedAfterQuit
    <2>8. SlotExclusive'
        BY <2>1, <2>2, NewOutside DEF chan, Outside, ThreadPCs
    <2>9. NoLostWrite' /\ NoLostEvent'
        BY <2>1, <2>2, NoWaker DEF chan, main
    <2>. QED BY <2>4, <2>6, <2>7, <2>8, <2>9 DEF IInv
<1>4. CASE \/ w_check(l) \/ w_lock(l) \/ w_enqueue(l) \/ w_set(l)
           \/ e_check(l) \/ e_wait(l) \/ e_check2(l) \/ e_store(l) \/ e_set(l)
    <2>1. /\ UNCHANGED <<is_connected, flags, svc, main, ret, late, count>>
          /\ tpc[l] \in Write \cup Push
        BY <1>4 DEF w_check, w_lock, w_enqueue, w_set, e_check, e_wait, e_check2, e_store, e_set,
                    At, Return, Write, Push, chan
    <2>2. PICK p \in {ret[l], "w_lock", "w_enqueue", "w_set", "e_wait", "e_check2", "e_store", "e_set"} :
             ThreadTo(l, p)
        BY <1>4 DEF w_check, w_lock, w_enqueue, w_set, e_check, e_wait, e_check2, e_store, e_set, Return
    <2>3. p \in Alive /\ tpc[l] \in Alive
        BY <1>0, <2>1 DEF Alive, ThreadPCs, Write, Push
    <2>4. tpc' \in [Libs -> ThreadPCs] /\ StepInv' /\ FreedAfterQuit'
        BY <2>1, <2>2, <2>3, BusyThread DEF svc
    <2>5. SvcTypeOK' /\ MainTypeOK' /\ ThreadTypeOK'
        BY <2>1, <2>4 DEF IInv, svc, main, count, SvcTypeOK, MainTypeOK, ThreadTypeOK
    <2>6. CASE w_check(l) \/ w_lock(l) \/ e_check(l)
        <3>1. PICK q \in {ret[l], "w_lock", "w_enqueue", "e_wait"} : ThreadTo(l, q)
            BY <2>6 DEF w_check, w_lock, e_check, Return
        <3>2. UNCHANGED chan /\ tpc[l] \notin {"w_set", "e_set"} /\ q \in Outside
            BY <1>0, <2>6 DEF w_check, w_lock, e_check, At, Outside, ThreadPCs, Write, Push
        <3>3. ChanTypeOK' /\ SlotExclusive'
            BY <3>1, <3>2, NewOutside DEF IInv, chan, ChanTypeOK
        <3>4. NoLostWrite' /\ NoLostEvent'
            BY <2>1, <3>1, <3>2, NoWaker DEF chan, main
        <3>. QED BY <2>4, <2>5, <3>3, <3>4 DEF IInv
    <2>7. CASE w_enqueue(l)
        <3>1. /\ UNCHANGED <<signal, event_sem, event>> /\ ThreadTo(l, "w_set") /\ tpc[l] = "w_enqueue"
              /\ sync_data_list' \in Seq(Libs)
            BY <2>7 DEF w_enqueue, At, IInv, ChanTypeOK
        <3>2. ChanTypeOK' /\ SlotExclusive'
            BY <2>1, <3>1, NewOutside DEF IInv, ChanTypeOK, Outside, ThreadPCs, Write
        <3>3. tpc'[l] = "w_set"
            BY <1>0, <3>1 DEF ThreadTo
        <3>4. NoLostWrite' /\ NoLostEvent'
            BY <2>1, <3>1, <3>3, NoWaker DEF NoLostWrite, main
        <3>. QED BY <2>4, <2>5, <3>2, <3>4 DEF IInv
    <2>8. CASE w_set(l) \/ e_set(l)
        <3>1. /\ UNCHANGED <<sync_data_list, event_sem, event>> /\ signal' = TRUE /\ ThreadTo(l, ret[l])
            BY <2>8 DEF w_set, e_set, Return
        <3>2. ChanTypeOK' /\ SlotExclusive'
            BY <1>0, <2>1, <3>1, NewOutside DEF IInv, ChanTypeOK
        <3>3. NoLostWrite' /\ NoLostEvent'
            BY <3>1 DEF NoLostWrite, NoLostEvent
        <3>. QED BY <2>4, <2>5, <3>2, <3>3 DEF IInv
    <2>9. CASE e_wait(l)
        <3>1. /\ UNCHANGED <<signal, sync_data_list, event>> /\ ThreadTo(l, "e_check2") /\ tpc[l] = "e_wait"
              /\ event_sem = 1 /\ event_sem' = 0
            BY <2>9 DEF e_wait, At, IInv, SlotExclusive, ChanTypeOK
        <3>2. Owners = {} /\ event = 0
            BY <3>1 DEF IInv, SlotExclusive
        <3>3. Owners' \subseteq {l}
            BY <1>0, <3>1, <3>2 DEF ThreadTo, Owners
        <3>4. ChanTypeOK' /\ SlotExclusive'
            BY <2>1, <3>1, <3>2, <3>3 DEF IInv, ChanTypeOK, SlotExclusive
        <3>5. NoLostWrite' /\ NoLostEvent'
            BY <2>1, <3>1, NoWaker DEF main
        <3>. QED BY <2>4, <2>5, <3>4, <3>5 DEF IInv
    <2>10. CASE e_check2(l) \/ e_store(l)
        <3>1. UNCHANGED <<signal, sync_data_list>> /\ tpc[l] \in {"e_check2", "e_store"}
            BY <2>10 DEF e_check2, e_store, At
        <3>2. l \in Owners /\ event_sem = 0 /\ event = 0 /\ Owners = {l}
            <4>1. l \in Owners
                BY <3>1 DEF Owners
            <4>2. event_sem \in Nat /\ event_sem <= 1 /\ event_sem # 1 /\ event = 0
                BY <4>1 DEF IInv, SlotExclusive, ChanTypeOK
            <4>3. Owners = {l}
                BY <4>1 DEF IInv, SlotExclusive
            <4>. QED BY <4>1, <4>2, <4>3
        <3>3. CASE ThreadTo(l, "e_store")
            <4>1. Owners' = Owners /\ UNCHANGED <<event, event_sem>>
                BY <1>0, <2>10, <3>2, <3>3 DEF Owners, e_check2, e_store, ThreadTo, Return, Calls
            <4>. QED BY <2>1, <2>4, <2>5, <3>1, <3>3, <4>1, NoWaker
                     DEF IInv, ChanTypeOK, SlotExclusive, main
        <3>4. CASE ~ThreadTo(l, "e_store")
            <4>1. /\ tpc'[l] \notin {"e_check2", "e_store"} /\ event' \in {0, l} /\ event_sem' \in {0, 1}
                  /\ event' # 0 => event_sem' = 0 /\ tpc'[l] = "e_set"
                <5>1. CASE e_check2(l)
                    BY <1>0, <3>2, <3>4, <5>1 DEF e_check2, ThreadTo, Return, Calls
                <5>2. CASE e_store(l)
                    BY <1>0, <3>2, <5>2 DEF e_store, ThreadTo
                <5>. QED BY <2>10, <5>1, <5>2
            <4>2. Owners' = {}
                BY <1>0, <2>2, <3>2, <4>1 DEF Owners, ThreadTo
            <4>3. ChanTypeOK' /\ SlotExclusive'
                BY <2>1, <3>1, <4>1, <4>2 DEF IInv, ChanTypeOK, SlotExclusive
            <4>4. NoLostWrite' /\ NoLostEvent'
                BY <2>1, <2>2, <3>1, <4>1, NoWaker DEF NoLostEvent, main
            <4>. QED BY <2>4, <2>5, <4>3, <4>4 DEF IInv
        <3>. QED BY <3>3, <3>4
    <2>. QED BY <1>4, <2>6, <2>7, <2>8, <2>9, <2>10
<1>. QED BY <1>1, <1>2, <1>3, <1>4 DEF Plugin, Thread

(* Every step preserves it.                                                *)
LEMMA NextIInv == ASSUME IInv, [Next]_vars PROVE IInv'
<1>1. CASE UNCHANGED vars
    <2>1. ChanTypeOK' /\ SvcTypeOK' /\ MainTypeOK' /\ ThreadTypeOK'
        BY <1>1 DEF IInv, vars, chan, svc, main, thr, count, ChanTypeOK,
            SvcTypeOK, MainTypeOK, ThreadTypeOK
    <2>2. StepInv' /\ NoLostWrite' /\ NoLostEvent'
        BY <1>1 DEF IInv, vars, chan, svc, main, thr, StepInv, NoLostWrite, NoLostEvent
    <2>3. SlotExclusive' /\ FreedAfterQuit'
        BY <1>1 DEF IInv, vars, chan, svc, thr, SlotExclusive, Owners, FreedAfterQuit
    <2>. QED BY <2>1, <2>2, <2>3 DEF IInv
<1>. QED BY <1>1, MainIInv, PluginIInv DEF Next

(* The inductive invariant holds in every reachable state of the manager   *)
(* and its plugin threads.                                                 *)
LEMMA Invariance == Spec => []IInv
BY InitIInv, NextIInv, PTL DEF Spec

(* The manager and its plugins keep every variable in its type.            *)
THEOREM TypeCorrect == Spec => []TypeOK
<1>1. IInv => TypeOK
    BY DEF IInv, ChanTypeOK, SvcTypeOK, MainTypeOK, ThreadTypeOK, TypeOK
<1>. QED BY Invariance, <1>1, PTL

(* Data queued by MyVirtualChannelWrite never waits for a main thread that *)
(* nobody wakes.                                                           *)
THEOREM WriteWakesMain == Spec => []NoLostWrite
<1>1. IInv => NoLostWrite
    BY DEF IInv
<1>. QED BY Invariance, <1>1, PTL

(* Neither does an event stored by MyVirtualChannelEventPush.              *)
THEOREM EventWakesMain == Spec => []NoLostEvent
<1>1. IInv => NoLostEvent
    BY DEF IInv
<1>. QED BY Invariance, <1>1, PTL

(* The event slot has one owner, whatever the number of plugins.           *)
THEOREM OneOwner == Spec => []SlotExclusive
<1>1. IInv => SlotExclusive
    BY DEF IInv
<1>. QED BY Invariance, <1>1, PTL

(* svc_plugin_process_terminated frees a thread's object only after the    *)
(* thread has quit, unless it did not react in time.                       *)
THEOREM FreeAfterQuit == Spec => []FreedAfterQuit
<1>1. IInv => FreedAfterQuit
    BY DEF IInv
<1>. QED BY Invariance, <1>1, PTL

-----------------------------------------------------------------------------
(* The plugin whose turn it is in post_connect has no thread yet.          *)
LEMMA NextPlugin ==
    ASSUME IInv, mpc = "post_connect", mlib < NLibs
    PROVE  mlib + 1 \in Libs /\ tpc[mlib + 1] = "none"
<1>1. mlib \in Nat /\ mlib + 1 \in Libs
    BY DEF IInv, MainTypeOK, Libs
<1>. QED BY <1>1 DEF IInv, StepInv

(* A plugin thread that moves from p to q, and leaves its queue, its       *)
(* signals and the main thread alone, is still going to look at the queue  *)
(* if it was before.                                                       *)
LEMMA StillDraining ==
    ASSUME IInv, NoLostMessage, NEW l \in Libs, NEW q,
           tpc' = [tpc EXCEPT ![l] = q],
           Draining(l) => Draining(l)',
           \A k \in Libs : k # l => ret'[k] = ret[k],
           UNCHANGED <<svc, main>>
    PROVE  NoLostMessage'
<1>1. \A k \in Libs : Draining(k) => Draining(k)'
    BY DEF Draining, IInv, ThreadTypeOK
<1>. QED BY <1>1 DEF NoLostMessage, svc, main

(* A step of the main thread that queues no message, and is not the one    *)
(* that wakes a plugin thread, leaves every message as it was.             *)
LEMMA MainElsewhere ==
    ASSUME IInv, NoLostMessage, mpc # "signal_thread", thr' = thr,
           data' = data, status' = status,
           \A k \in Libs : /\ data_in_list'[k] > 0 => data_in_list[k] > 0
                           /\ stop[k] => stop'[k]
    PROVE  NoLostMessage'
    BY DEF NoLostMessage, Draining, thr

(* Every step of the two kinds of threads keeps the wake-ups of the plugin *)
(* threads.                                                                *)
LEMMA NextMessage == ASSUME IInv, NoLostMessage, [Next]_vars PROVE NoLostMessage'
<1>1. CASE post_connect
    <2>1. CASE mlib < NLibs
        <3>1. mlib + 1 \in Libs /\ tpc[mlib + 1] = "none"
            BY <1>1, <2>1, NextPlugin DEF post_connect
        <3>2. \A k \in Libs : Draining(k) => Draining(k)'
            BY <1>1, <2>1, <3>1 DEF post_connect, Draining, IInv, ThreadTypeOK, Calls, Write, Push
        <3>3. \A k \in Libs : status[k] < 0 => status'[k] < 0
            BY <1>1, <2>1, <3>1 DEF post_connect, IInv, StepInv, SvcTypeOK
        <3>. QED BY <1>1, <2>1, <3>2, <3>3 DEF post_connect, NoLostMessage
    <2>2. CASE ~(mlib < NLibs)
        BY <1>1, <2>2 DEF post_connect, NoLostMessage, Draining
    <2>. QED BY <2>1, <2>2
<1>2. CASE \/ select_signal \/ nothing_left \/ is_set \/ clear \/ process_sync \/ pop_event
           \/ close \/ poll \/ free \/ select_other \/ disconnect
    <2>1. mpc # "signal_thread" /\ thr' = thr /\ svc' = svc
        BY <1>2 DEF select_signal, nothing_left, is_set, clear, process_sync, pop_event, close,
                    poll, free, select_other, disconnect
    <2>. QED BY <2>1, MainElsewhere DEF svc
<1>3. CASE thread_stop
    <2>1. \A k \in Libs : stop[k] => stop'[k]
        BY <1>3 DEF thread_stop, IInv, SvcTypeOK
    <2>. QED BY <1>3, <2>1, MainElsewhere DEF thread_stop
<1>4. CASE terminated
    <2>1. \A k \in Libs : data_in_list'[k] > 0 => data_in_list[k] > 0
        BY <1>4 DEF terminated, IInv, SvcTypeOK
    <2>. QED BY <1>4, <2>1, MainElsewhere DEF terminated
<1>5. ASSUME NEW l \in Libs, process_received(l) PROVE NoLostMessage'
    BY <1>5 DEF process_received, NoLostMessage, IInv, SvcTypeOK, Draining, thr
<1>6. CASE signal_thread
    BY <1>6 DEF signal_thread, NoLostMessage, IInv, SvcTypeOK, Draining, thr
<1>7. ASSUME NEW l \in Libs, Plugin(l) PROVE NoLostMessage'
    <2> USE DEF IInv, ThreadTypeOK
    <2>1. CASE send(l) \/ send_event(l)
        <3>1. PICK q \in {"w_check", "e_check"} : Call(l, q) /\ UNCHANGED <<svc, main>> /\ tpc[l] \in Calls
            BY <2>1 DEF send, send_event
        <3>2. Draining(l) => Draining(l)'
            BY <3>1 DEF Draining, Call, ThreadTo, Calls, Write, Push
        <3>. QED BY <3>1, <3>2, StillDraining DEF Call, ThreadTo
    <2>2. CASE callback_returns(l)
        <3>1. Draining(l) => Draining(l)'
            BY <2>2 DEF callback_returns, Draining, ThreadTo, Calls, Write, Push
        <3>. QED BY <2>2, <3>1, StillDraining DEF callback_returns, ThreadTo
    <2>3. CASE thread_wait(l) \/ thread_wait_timeout(l) \/ is_stopped(l)
        <3>1. PICK q : ThreadTo(l, q) /\ UNCHANGED <<svc, main, ret>> /\ tpc[l] \in {"wait", "stopped"}
            BY <2>3 DEF thread_wait, thread_wait_timeout, is_stopped, At
        <3>2. ~Draining(l)
            BY <3>1 DEF Draining, Write, Push
        <3>. QED BY <3>1, <3>2, StillDraining DEF ThreadTo
    <2>4. CASE thread_reset(l)
        <3>1. \A k \in Libs : /\ Draining(k) => Draining(k)'
                              /\ k # l => data'[k] = data[k]
              /\ Draining(l)'
            BY <2>4 DEF thread_reset, Draining, ThreadTo, SvcTypeOK
        <3>. QED BY <2>4, <3>1 DEF thread_reset, NoLostMessage, main
    <2>5. CASE process_data_in(l) \/ dequeue(l)
        <3>1. \A k \in Libs : k # l => /\ Draining(k) => Draining(k)'
                                       /\ data_in_list'[k] = data_in_list[k]
            BY <2>5 DEF process_data_in, dequeue, Draining, ThreadTo, SvcTypeOK, svc
        <3>2. UNCHANGED <<data, stop, status, main>>
            BY <2>5 DEF process_data_in, dequeue, svc
        <3>3. data_in_list'[l] > 0 => Draining(l)' \/ stop[l]
            BY <2>5 DEF process_data_in, dequeue, Draining, ThreadTo, SvcTypeOK, svc
        <3>. QED BY <3>1, <3>2, <3>3 DEF NoLostMessage, main
    <2>6. CASE quit(l) \/ clear_stop(l)
        <3>1. \A k \in Libs : k # l => /\ Draining(k) => Draining(k)'
                                       /\ status'[k] = status[k] /\ stop'[k] = stop[k]
            BY <2>6 DEF quit, clear_stop, Draining, ThreadTo, SvcTypeOK
        <3>2. status'[l] < 0
            <4>1. CASE quit(l)
                BY <4>1 DEF quit, SvcTypeOK
            <4>2. CASE clear_stop(l)
                <5>1. status[l] = -1 /\ status' = status
                    BY <4>2 DEF clear_stop, At, StepInv
                <5>. QED BY <5>1
            <4>. QED BY <2>6, <4>1, <4>2
        <3>3. UNCHANGED <<data, data_in_list, main>>
            BY <2>6 DEF quit, clear_stop
        <3>. QED BY <3>1, <3>2, <3>3 DEF NoLostMessage, main
    <2>7. CASE \/ w_check(l) \/ w_lock(l) \/ w_enqueue(l) \/ w_set(l)
               \/ e_check(l) \/ e_wait(l) \/ e_check2(l) \/ e_store(l) \/ e_set(l)
        <3>1. tpc[l] \in Write \cup Push /\ UNCHANGED <<svc, main, ret>>
            BY <2>7 DEF w_check, w_lock, w_enqueue, w_set, e_check, e_wait, e_check2, e_store,
                        e_set, At, Return, Write, Push
        <3>2. PICK q \in Write \cup Push \cup {ret[l]} : ThreadTo(l, q)
            BY <2>7 DEF w_check, w_lock, w_enqueue, w_set, e_check, e_wait, e_check2, e_store,
                        e_set, Return, Write, Push
        <3>3. Draining(l) => Draining(l)'
            BY <3>1, <3>2 DEF ThreadTo, Draining, Write, Push
        <3>. QED BY <3>1, <3>2, <3>3, StillDraining DEF ThreadTo
    <2>. QED BY <1>7, <2>1, <2>2, <2>3, <2>4, <2>5, <2>6, <2>7 DEF Plugin, Thread
<1>8. CASE UNCHANGED vars
    BY <1>8 DEF vars, svc, main, thr, NoLostMessage, Draining
<1>. QED BY <1>1, <1>2, <1>3, <1>4, <1>5, <1>6, <1>7, <1>8 DEF Next, Main, Awake

(* A message for a plugin never waits in the queue of a thread that sleeps *)
(* and that nobody is going to wake.                                       *)
THEOREM MessageWakesThread == Spec => []NoLostMessage
<1>1. Init => NoLostMessage
    BY DEF Init, NoLostMessage
<1>. QED BY Invariance, <1>1, NextMessage, PTL DEF Spec

-----------------------------------------------------------------------------
(* No plugin has two items in sync_data_list.                              *)
NoneTwice ==
    \A i, j \in DOMAIN sync_data_list : sync_data_list[i] = sync_data_list[j] => i = j

Closing == {"thread_stop", "poll", "terminated", "free"}

(* Why a disconnect loses so little: unless the signal is set or main is   *)
(* sending, each item in the list is of a thread that has yet to set the   *)
(* signal, which so has no second one.  After the disconnect only a thread *)
(* that has passed the second check of is_connected adds an item, once.    *)
LossInv ==
    /\ ~signal /\ mpc # "process_sync" =>
          /\ NoneTwice
          /\ \A i \in DOMAIN sync_data_list : tpc[sync_data_list[i]] = "w_set"
    /\ ~is_connected /\ mpc \in Closing =>
          /\ NoneTwice
          /\ \A i \in DOMAIN sync_data_list : tpc[sync_data_list[i]] # "w_enqueue"

(* A step that leaves an empty list keeps it.                              *)
LEMMA NothingLost == ASSUME sync_data_list' = <<>> PROVE LossInv'
<1>1. DOMAIN sync_data_list' = {}
    OBVIOUS
<1>. QED BY <1>1 DEF LossInv, NoneTwice

(* What list_enqueue leaves in a list: the items it had, and the new one.  *)
LEMMA ItemOfAppend ==
    ASSUME NEW S, NEW s \in Seq(S), NEW e \in S, NEW i \in DOMAIN Append(s, e)
    PROVE  (i \in DOMAIN s /\ Append(s, e)[i] = s[i]) \/ Append(s, e)[i] = e
<1>1. Len(s) \in Nat /\ DOMAIN s = 1 .. Len(s) /\ i \in 1 .. Len(s) + 1
    OBVIOUS
<1>2. CASE i = Len(s) + 1
    BY <1>1, <1>2
<1>3. CASE i # Len(s) + 1
    BY <1>1, <1>3
<1>. QED BY <1>2, <1>3

(* An item added by a plugin that has none leaves nobody with two.         *)
LEMMA AddedOnce ==
    ASSUME IInv, NEW l \in Libs, NoneTwice,
           \A i \in DOMAIN sync_data_list : sync_data_list[i] # l,
           sync_data_list' = Append(sync_data_list, l)
    PROVE  NoneTwice'
<1>1. sync_data_list \in Seq(Libs)
    BY DEF IInv, ChanTypeOK
<1>. QED BY <1>1 DEF NoneTwice

(* A thread that does not touch list and signal keeps LossInv unless it    *)
(* goes to w_enqueue or comes from w_set.                                  *)
LEMMA NoLoss ==
    ASSUME IInv, LossInv, NEW l \in Libs, NEW q, tpc' = [tpc EXCEPT ![l] = q],
           tpc[l] # "w_set" /\ (q = "w_enqueue" => is_connected),
           UNCHANGED <<is_connected, signal, sync_data_list, main>>
    PROVE  LossInv'
<1>1. sync_data_list \in Seq(Libs)
    BY DEF IInv, ChanTypeOK
<1>2. \A i \in DOMAIN sync_data_list : sync_data_list[i] \in Libs
    BY <1>1
<1>3. UNCHANGED <<NoneTwice, mpc>>
    BY DEF NoneTwice, main
<1>4. \A i \in DOMAIN sync_data_list :
         /\ tpc[sync_data_list[i]] = "w_set" => tpc'[sync_data_list[i]] = "w_set"
         /\ tpc'[sync_data_list[i]] = "w_enqueue" /\ ~is_connected
               => tpc[sync_data_list[i]] = "w_enqueue"
    BY <1>2 DEF IInv, ThreadTypeOK
<1>. QED BY <1>3, <1>4 DEF LossInv

(* Every step of the two kinds of threads keeps it.                        *)
LEMMA NextLoss == ASSUME IInv, LossInv, [Next]_vars PROVE LossInv'
<1>0. sync_data_list \in Seq(Libs) /\ \A i \in DOMAIN sync_data_list : sync_data_list[i] \in Libs
    BY DEF IInv, ChanTypeOK
<1>1. CASE post_connect
    <2>1. sync_data_list' = sync_data_list /\ signal' = signal /\ mpc' \notin Closing \cup {"process_sync"}
          /\ mpc = "post_connect" /\ UNCHANGED NoneTwice
        BY <1>1 DEF post_connect, Closing, NoneTwice
    <2>2. \A k \in Libs : tpc[k] = "w_set" => tpc'[k] = "w_set"
        <3>1. CASE mlib < NLibs
            <4>1. mlib + 1 \in Libs /\ tpc[mlib + 1] = "none"
                BY <1>1, <3>1, NextPlugin DEF post_connect
            <4>. QED BY <1>1, <3>1, <4>1 DEF post_connect, IInv, ThreadTypeOK
        <3>2. CASE ~(mlib < NLibs)
            BY <1>1, <3>2 DEF post_connect
        <3>. QED BY <3>1, <3>2
    <2>. QED BY <1>0, <2>1, <2>2 DEF LossInv
<1>2. CASE \/ select_signal \/ nothing_left \/ pop_event \/ signal_thread \/ select_other \/ disconnect
           \/ \E l \in Libs : process_received(l)
    <2>1. /\ mpc \notin Closing \cup {"process_sync"} /\ mpc' \notin Closing \cup {"process_sync"}
          /\ UNCHANGED <<is_connected, signal, sync_data_list, tpc, NoneTwice>>
        BY <1>2 DEF select_signal, nothing_left, pop_event, signal_thread, select_other, disconnect,
                    process_received, MainTo, Closing, chan, thr, NoneTwice
    <2>. QED BY <2>1 DEF LossInv
<1>3. CASE is_set
    <2>1. /\ mpc \notin Closing \cup {"process_sync"} /\ mpc' # "process_sync"
          /\ mpc' \in Closing => ~signal
          /\ UNCHANGED <<is_connected, signal, sync_data_list, tpc, NoneTwice>>
        BY <1>3 DEF is_set, MainTo, AfterSync, Closing, chan, thr, NoneTwice
    <2>. QED BY <2>1 DEF LossInv
<1>4. CASE clear
    <2>1. mpc' = "process_sync"
        BY <1>4 DEF clear, MainTo
    <2>. QED BY <2>1 DEF LossInv, Closing
<1>5. CASE process_sync
    <2>1. CASE sync_data_list # <<>>
        <3>1. mpc' = "process_sync"
            BY <1>5, <2>1 DEF process_sync, main
        <3>. QED BY <3>1 DEF LossInv, Closing
    <2>2. CASE sync_data_list = <<>>
        <3>1. sync_data_list' = <<>>
            BY <1>5, <2>2 DEF process_sync
        <3>. QED BY <3>1, NothingLost
    <2>. QED BY <2>1, <2>2
<1>6. CASE close
    <2>1. /\ mpc # "process_sync" /\ mpc' \notin Closing
          /\ UNCHANGED <<signal, sync_data_list, tpc, NoneTwice>>
        BY <1>6 DEF close, Closing, thr, NoneTwice
    <2>. QED BY <2>1 DEF LossInv
<1>7. CASE thread_stop \/ poll \/ terminated
    <2>1. /\ mpc \in Closing /\ mpc' \in Closing
          /\ UNCHANGED <<is_connected, signal, sync_data_list, tpc, NoneTwice>>
        BY <1>7 DEF thread_stop, poll, terminated, MainTo, Closing, chan, thr, NoneTwice
    <2>. QED BY <2>1 DEF LossInv, Closing
<1>8. CASE free
    <2>1. sync_data_list' = <<>>
        BY <1>8 DEF free
    <2>. QED BY <2>1, NothingLost
<1>9. ASSUME NEW l \in Libs, Plugin(l) PROVE LossInv'
    <2>1. CASE w_set(l)
        <3>1. /\ signal' /\ UNCHANGED <<is_connected, sync_data_list, mpc, NoneTwice>>
              /\ tpc' = [tpc EXCEPT ![l] = ret[l]] /\ ret[l] # "w_enqueue"
            BY <2>1 DEF w_set, Return, ThreadTo, main, NoneTwice, IInv, ThreadTypeOK, Calls
        <3>2. \A k \in Libs : tpc[k] # "w_enqueue" => tpc'[k] # "w_enqueue"
            BY <3>1 DEF IInv, ThreadTypeOK
        <3>. QED BY <1>0, <3>1, <3>2 DEF LossInv
    <2>2. CASE w_enqueue(l)
        <3>1. /\ sync_data_list' = Append(sync_data_list, l) /\ UNCHANGED <<is_connected, signal, mpc>>
              /\ tpc' = [tpc EXCEPT ![l] = "w_set"] /\ tpc[l] = "w_enqueue"
            BY <2>2 DEF w_enqueue, At, ThreadTo, main
        <3>2. \A i \in DOMAIN sync_data_list' :
                 \/ i \in DOMAIN sync_data_list /\ sync_data_list'[i] = sync_data_list[i]
                 \/ sync_data_list'[i] = l
            BY <1>0, <3>1, ItemOfAppend
        <3>3. \A k \in Libs : IF k = l THEN tpc'[k] = "w_set" ELSE tpc'[k] = tpc[k]
            BY <3>1 DEF IInv, ThreadTypeOK
        <3>4. CASE ~signal /\ mpc # "process_sync"
            <4>1. NoneTwice /\ \A i \in DOMAIN sync_data_list : tpc[sync_data_list[i]] = "w_set"
                BY <3>4 DEF LossInv
            <4>2. NoneTwice'
                BY <3>1, <4>1, AddedOnce
            <4>3. \A i \in DOMAIN sync_data_list' : tpc'[sync_data_list'[i]] = "w_set"
                BY <1>0, <3>2, <3>3, <4>1
            <4>. QED BY <4>2, <4>3 DEF LossInv
        <3>5. CASE ~is_connected /\ mpc \in Closing /\ ~(~signal /\ mpc # "process_sync")
            <4>1. NoneTwice /\ \A i \in DOMAIN sync_data_list : tpc[sync_data_list[i]] # "w_enqueue"
                BY <3>5 DEF LossInv
            <4>2. NoneTwice'
                BY <3>1, <4>1, AddedOnce
            <4>3. \A i \in DOMAIN sync_data_list' : tpc'[sync_data_list'[i]] # "w_enqueue"
                BY <1>0, <3>2, <3>3, <4>1
            <4>. QED BY <3>1, <3>5, <4>2, <4>3 DEF LossInv
        <3>6. CASE ~(~signal /\ mpc # "process_sync") /\ ~(~is_connected /\ mpc \in Closing)
            BY <3>1, <3>6 DEF LossInv
        <3>. QED BY <3>4, <3>5, <3>6
    <2>3. CASE w_lock(l)
        <3>1. PICK q \in {"w_enqueue", ret[l]} : tpc' = [tpc EXCEPT ![l] = q] /\ (q = "w_enqueue" => is_connected)
            BY <2>3 DEF w_lock, Return, ThreadTo, IInv, ThreadTypeOK, Calls
        <3>. QED BY <2>3, <3>1, NoLoss DEF w_lock, At, chan
    <2>4. CASE e_set(l)
        <3>1. /\ signal' /\ UNCHANGED <<is_connected, sync_data_list, mpc, NoneTwice>>
              /\ tpc' = [tpc EXCEPT ![l] = ret[l]] /\ ret[l] # "w_enqueue"
            BY <2>4 DEF e_set, Return, ThreadTo, main, NoneTwice, IInv, ThreadTypeOK, Calls
        <3>2. \A k \in Libs : tpc[k] # "w_enqueue" => tpc'[k] # "w_enqueue"
            BY <3>1 DEF IInv, ThreadTypeOK
        <3>. QED BY <1>0, <3>1, <3>2 DEF LossInv
    <2>5. CASE \/ send(l) \/ send_event(l) \/ callback_returns(l) \/ thread_wait(l)
               \/ thread_wait_timeout(l) \/ is_stopped(l) \/ thread_reset(l) \/ process_data_in(l)
               \/ dequeue(l) \/ quit(l) \/ clear_stop(l)
        <3>1. tpc[l] # "w_set" /\ UNCHANGED <<is_connected, signal, sync_data_list, main>>
            BY <2>5 DEF send, send_event, callback_returns, thread_wait, thread_wait_timeout,
                        is_stopped, thread_reset, process_data_in, dequeue, quit, clear_stop,
                        At, Calls, chan
        <3>2. PICK q \in {"wait", "stopped", "reset", "process", "dequeue", "callback",
                          "interval_callback", "quit", "clear_stop", "gone", "w_check", "e_check"} :
                 ThreadTo(l, q)
            BY <2>5 DEF send, send_event, callback_returns, thread_wait, thread_wait_timeout,
                        is_stopped, thread_reset, process_data_in, dequeue, quit, clear_stop,
                        Call, AfterData
        <3>. QED BY <3>1, <3>2, NoLoss DEF ThreadTo
    <2>6. CASE w_check(l) \/ e_check(l) \/ e_wait(l) \/ e_check2(l) \/ e_store(l)
        <3>1. tpc[l] # "w_set" /\ UNCHANGED <<is_connected, signal, sync_data_list, main>>
            BY <2>6 DEF w_check, e_check, e_wait, e_check2, e_store, At, chan
        <3>2. PICK q \in {ret[l], "w_lock", "e_wait", "e_check2", "e_store", "e_set"} : ThreadTo(l, q)
            BY <2>6 DEF w_check, e_check, e_wait, e_check2, e_store, Return
        <3>3. q # "w_enqueue"
            BY <3>2 DEF IInv, ThreadTypeOK, Calls
        <3>. QED BY <3>1, <3>2, <3>3, NoLoss DEF ThreadTo
    <2>. QED BY <1>9, <2>1, <2>2, <2>3, <2>4, <2>5, <2>6 DEF Plugin, Thread
<1>10. CASE UNCHANGED vars
    BY <1>10 DEF vars, chan, main, thr, LossInv, NoneTwice
<1>. QED BY <1>1, <1>2, <1>3, <1>4, <1>5, <1>6, <1>7, <1>8, <1>9, <1>10 DEF Next, Main, Awake

(* A disconnect loses at most one accepted write of each plugin, whatever  *)
(* the number of plugins and writes.                                       *)
THEOREM OneLost == Spec => []AtMostOneLost
<1>1. Init => LossInv
    BY DEF Init, LossInv, NoneTwice
<1>2. IInv /\ LossInv => AtMostOneLost
    <2> SUFFICES ASSUME IInv, LossInv PROVE AtMostOneLost
        OBVIOUS
    <2>1. DOMAIN sync_data_list = 1 .. Len(sync_data_list)
        BY DEF IInv, ChanTypeOK
    <2>. QED BY <2>1 DEF LossInv, NoneTwice, Closing, AtMostOneLost
<1>. QED BY Invariance, <1>1, <1>2, NextLoss, PTL DEF Spec
=============================================================================
