------------------------------- MODULE Sound --------------------------------
(***************************************************************************)
(* The sound channel, and the PulseAudio device three plugins play to or   *)
(* record from.                                                            *)
(***************************************************************************)
EXTENDS Naturals, Sequences

-----------------------------------------------------------------------------
(* Sound of the session (channels/rdpsnd/rdpsnd_main.c, alsa, pulse): the  *)
(* server offers formats and sends waves, each as a wave info and the wave *)
(* itself; the client plays it and confirms it a quarter of a second after *)
(* the wave info came, from an interval callback that runs only while      *)
(* interval_ms is set.                                                     *)

CONSTANTS
    Offers,     \* lists of formats the server may offer
    Supported,  \* formats the device's FormatSupported accepts
    Delay,      \* delay_ms
    MaxWaves,   \* bound: waves the server sends
    MaxTime     \* bound: the clock

ASSUME SdAssumption == Delay \in Nat /\ MaxWaves \in Nat /\ MaxTime \in Nat

VARIABLES
    sdFormats,   \* supported_formats, and with the answer the server's view
    sdExpecting, \* expectingWave
    sdBlock,     \* cBlockNo
    sdStamp,     \* wave_timestamp
    sdIsOpen,    \* is_open
    sdCurrent,   \* current_format
    sdDevice,    \* what the device is set to: a format, or "closed"
    sdOut,       \* data_out_list: blocks to confirm, and when
    sdInterval,  \* interval_ms > 0
    sdNow,       \* the clock
    sdOver,      \* terminated
    sdMeant,     \* history: the format the server meant for each wave
    sdPlayed,    \* history: the format each wave was played in
    sdWhole,     \* history: waves that came complete, in that order
    sdConfirmed, \* history: waves confirmed, in that order
    sdStale      \* history: formats were negotiated while the device was open

sdVars == <<sdFormats, sdExpecting, sdBlock, sdStamp, sdIsOpen, sdCurrent, sdDevice,
            sdOut, sdInterval, sdNow, sdOver, sdMeant, sdPlayed, sdWhole,
            sdConfirmed, sdStale>>

Wave == 1 .. MaxWaves

SdInit ==
    /\ sdFormats = <<>> /\ sdExpecting = FALSE /\ sdBlock = 0 /\ sdStamp = 0
    /\ sdIsOpen = FALSE /\ sdCurrent = 0 /\ sdDevice = "closed"
    /\ sdOut = <<>> /\ sdInterval = FALSE /\ sdNow = 0 /\ sdOver = FALSE
    /\ sdMeant = <<>> /\ sdPlayed = [w \in Wave |-> "not"]
    /\ sdWhole = <<>> /\ sdConfirmed = <<>> /\ sdStale = FALSE

SdReceives == ~sdOver /\ ~sdExpecting

-----------------------------------------------------------------------------
(* SNDC_FORMATS: the answer lists what the device supports, and an index   *)
(* of later waves counts in that list.                                     *)
rdpsnd_process_message_formats(offer) ==
    /\ SdReceives
    /\ sdFormats' = SelectSeq(offer, LAMBDA f : f \in Supported)
    /\ sdStale' = (sdStale \/ sdIsOpen)
    /\ UNCHANGED <<sdExpecting, sdBlock, sdStamp, sdIsOpen, sdCurrent, sdDevice, sdOut,
                   sdInterval, sdNow, sdOver, sdMeant, sdPlayed, sdWhole, sdConfirmed>>

(* Opening or changing the device may fail, which nobody is told.          *)
DeviceSet(f) == sdDevice' \in {f, "closed"}

(* SNDC_WAVE.  An open device is set only if the index changed.            *)
rdpsnd_process_message_wave_info(no) ==
    LET w == Len(sdMeant) + 1 IN
    /\ SdReceives /\ w <= MaxWaves /\ no \in DOMAIN sdFormats
    /\ sdMeant' = Append(sdMeant, sdFormats[no])
    /\ sdBlock' = w /\ sdStamp' = sdNow /\ sdExpecting' = TRUE
    /\ sdCurrent' = no /\ sdIsOpen' = TRUE
    /\ \/ ~sdIsOpen /\ DeviceSet(sdFormats[no])
       \/ sdIsOpen /\ no # sdCurrent /\ DeviceSet(sdFormats[no])
       \/ sdIsOpen /\ no = sdCurrent /\ UNCHANGED sdDevice
    /\ UNCHANGED <<sdFormats, sdOut, sdInterval, sdNow, sdOver, sdPlayed, sdWhole,
                   sdConfirmed, sdStale>>

(* The wave.  One whose size is not the announced one is not played and    *)
(* not confirmed.  A device whose writing fails is closed and reopened.    *)
rdpsnd_process_message_wave(whole) ==
    /\ sdExpecting /\ ~sdOver
    /\ sdExpecting' = FALSE
    /\ IF ~whole THEN UNCHANGED <<sdOut, sdInterval, sdPlayed, sdWhole, sdDevice>>
       ELSE /\ sdPlayed' = [sdPlayed EXCEPT ![sdBlock] = sdDevice]
            /\ sdDevice' \in {sdDevice, "closed"}
            /\ sdWhole' = Append(sdWhole, sdBlock)
            /\ sdOut' = Append(sdOut, [block |-> sdBlock, at |-> sdStamp + Delay])
            /\ sdInterval' = TRUE
    /\ UNCHANGED <<sdFormats, sdBlock, sdStamp, sdIsOpen, sdCurrent, sdNow, sdOver,
                   sdMeant, sdConfirmed, sdStale>>

rdpsnd_process_message_close ==
    /\ SdReceives
    /\ sdIsOpen' = FALSE /\ sdDevice' = "closed"
    /\ UNCHANGED <<sdFormats, sdExpecting, sdBlock, sdStamp, sdCurrent, sdOut, sdInterval,
                   sdNow, sdOver, sdMeant, sdPlayed, sdWhole, sdConfirmed, sdStale>>

-----------------------------------------------------------------------------
(* The interval callback: confirmations are sent up to the first that is   *)
(* not due, and the interval ends when there is nothing left and the       *)
(* device is closed.                                                       *)
Due(n) ==
    /\ \A k \in 1 .. n : sdOut[k].at < sdNow
    /\ n < Len(sdOut) => sdOut[n + 1].at >= sdNow

(* Mutant: the number of the last wave is sent for each.                   *)
rdpsnd_process_interval_block ==
    /\ ~sdOver /\ sdInterval
    /\ \E n \in 0 .. Len(sdOut) :
       /\ Due(n) /\ sdConfirmed' = sdConfirmed \o [k \in 1 .. n |-> sdBlock]
       /\ sdOut' = SubSeq(sdOut, n + 1, Len(sdOut))
       /\ sdInterval' = ~(n = Len(sdOut) /\ ~sdIsOpen)
    /\ UNCHANGED <<sdFormats, sdExpecting, sdBlock, sdStamp, sdIsOpen, sdCurrent, sdDevice,
                   sdNow, sdOver, sdMeant, sdPlayed, sdWhole, sdStale>>

rdpsnd_process_interval ==
    /\ ~sdOver /\ sdInterval
    /\ \E n \in 0 .. Len(sdOut) :
       /\ Due(n) /\ sdConfirmed' = sdConfirmed \o [k \in 1 .. n |-> sdOut[k].block]
       /\ sdOut' = SubSeq(sdOut, n + 1, Len(sdOut))
       /\ sdInterval' = ~(n = Len(sdOut) /\ ~sdIsOpen)
    /\ UNCHANGED <<sdFormats, sdExpecting, sdBlock, sdStamp, sdIsOpen, sdCurrent, sdDevice,
                   sdNow, sdOver, sdMeant, sdPlayed, sdWhole, sdStale>>

SdTick ==
    /\ sdNow < MaxTime /\ sdNow' = sdNow + 1
    /\ UNCHANGED <<sdFormats, sdExpecting, sdBlock, sdStamp, sdIsOpen, sdCurrent, sdDevice,
                   sdOut, sdInterval, sdOver, sdMeant, sdPlayed, sdWhole, sdConfirmed, sdStale>>

rdpsnd_process_terminate ==
    /\ ~sdOver /\ sdOver' = TRUE
    /\ sdDevice' = "closed" /\ sdOut' = <<>> /\ sdFormats' = <<>>
    /\ UNCHANGED <<sdExpecting, sdBlock, sdStamp, sdIsOpen, sdCurrent, sdInterval, sdNow,
                   sdMeant, sdPlayed, sdWhole, sdConfirmed, sdStale>>

SdNext ==
    \/ \E offer \in Offers : rdpsnd_process_message_formats(offer)
    \/ \E no \in DOMAIN sdFormats : rdpsnd_process_message_wave_info(no)
    \/ \E whole \in BOOLEAN : rdpsnd_process_message_wave(whole)
    \/ rdpsnd_process_message_close
    \/ rdpsnd_process_interval \/ SdTick \/ rdpsnd_process_terminate

SdSpec == SdInit /\ [][SdNext]_sdVars

(* The channel's thread calls back at every interval, and time passes.     *)
SdFairness == WF_sdVars(rdpsnd_process_interval) /\ WF_sdVars(sdInterval /\ SdTick)
SdFairSpec == SdSpec /\ SdFairness

-----------------------------------------------------------------------------
SdTypeOK ==
    /\ sdExpecting \in BOOLEAN /\ sdIsOpen \in BOOLEAN /\ sdInterval \in BOOLEAN
    /\ sdBlock \in 0 .. MaxWaves /\ sdNow \in 0 .. MaxTime /\ sdStamp <= sdNow
    /\ \A k \in DOMAIN sdOut : sdOut[k].block \in Wave /\ sdOut[k].at \in Nat

(* A wave is played in the format the server meant, or not heard because   *)
(* the device could not be opened.  An index that did not change is taken  *)
(* for the same format, so this is lost once formats were negotiated again *)
(* while the device was open.                                              *)
PlayedAsMeant ==
    ~sdStale => \A w \in DOMAIN sdMeant : sdPlayed[w] \in {"not", "closed", sdMeant[w]}

(* Waves that came complete are confirmed once each and in their order;    *)
(* those not yet confirmed are listed, so that the server's window opens   *)
(* again for each.                                                         *)
ConfirmedInOrder ==
    ~sdOver => sdWhole = sdConfirmed \o [k \in DOMAIN sdOut |-> sdOut[k].block]

(* While something is listed the interval callback runs, though it is      *)
(* switched off whenever the list is found empty and the device closed.    *)
IntervalRuns == sdOut # <<>> => sdInterval

(* Every complete wave is confirmed in the end, unless the channel ends,   *)
(* which empties the list: the first listed one whose time comes before    *)
(* the clock's bound does not stay.                                        *)
Owed == sdOut # <<>> /\ Head(sdOut).at < MaxTime
AllConfirmed == Owed ~> ~Owed

-----------------------------------------------------------------------------
(* The PulseAudio plugins (rdpsnd_pulse.c, tsmf_pulse.c, audin_pulse.c).   *)
(* A caller holds the main loop's lock, looks at the state of the context, *)
(* the stream or an operation, and waits - giving up the lock - until a    *)
(* callback of the main loop signals.  A signal wakes who is waiting and   *)
(* is lost otherwise.  Looking and beginning to wait are one step, since   *)
(* the lock is held in between; a callback and its signal are another.     *)
(* PulseAudio itself is external: it may refuse, fail and drain at will.   *)

CONSTANTS
    Plugins,   \* a subset of {"rdpsnd", "tsmf", "audin"}
    MaxPlays,  \* bound: pieces of sound played
    Size,      \* bytes of a piece
    MaxRoom    \* the server's buffer

ASSUME PdAssumption ==
    /\ Plugins \subseteq {"rdpsnd", "tsmf", "audin"}
    /\ MaxPlays \in Nat /\ Size \in Nat /\ MaxRoom \in Nat \ {0}

VARIABLES
    pdPlugin,  \* which plugin this is
    pdPc,      \* the caller: where it is, or what it waits for
    pdContext, \* state of the context: "new", "connecting", "ready", "failed"
    pdStream,  \* state of the stream, "none" if there is none
    pdRoom,    \* writable size
    pdLeft,    \* of the piece being played, what is not written yet
    pdDrain,   \* the drain operation: "none", "running", "done"
    pdPlays,   \* pieces played
    pdTold     \* history: what Open returned, and the context's state then

pdVars == <<pdPlugin, pdPc, pdContext, pdStream, pdRoom, pdLeft, pdDrain, pdPlays, pdTold>>

PdInit ==
    /\ pdPlugin \in Plugins /\ pdPc = "start" /\ pdContext = "new" /\ pdStream = "none"
    /\ pdRoom = 0 /\ pdLeft = 0 /\ pdDrain = "none" /\ pdPlays = 0 /\ pdTold = <<"not", "new">>

-----------------------------------------------------------------------------
(* Connecting: the main loop is started, and the state looked at until it  *)
(* is ready or bad.                                                        *)
Connects(plugin) ==
    /\ pdPlugin = plugin
    /\ \/ pdPc = "start" /\ pdPc' = "connect" /\ pdContext' = "connecting"
       \/ pdPc = "start" /\ pdPc' = "refused" /\ pdContext' = "failed"
       \/ pdPc = "connect" /\ pdContext = "connecting" /\ pdPc' = "context?" /\ UNCHANGED pdContext
       \/ pdPc = "connect" /\ pdContext = "ready" /\ pdPc' = "connected" /\ UNCHANGED pdContext
       \/ pdPc = "connect" /\ pdContext = "failed" /\ pdPc' = "refused" /\ UNCHANGED pdContext
    /\ UNCHANGED <<pdPlugin, pdStream, pdRoom, pdLeft, pdDrain, pdPlays, pdTold>>

rdpsnd_pulse_connect == Connects("rdpsnd")
tsmf_pulse_connect == Connects("tsmf")
audin_pulse_connect == Connects("audin")

(* A plugin's entry takes the connection for what it is ...                *)
Entered ==
    /\ pdPlugin # "tsmf"
    /\ \/ pdPc = "connected" /\ pdPc' = "idle" /\ pdTold' = <<"true", pdContext>>
       \/ pdPc = "refused" /\ pdPc' = "freed" /\ pdTold' = <<"false", pdContext>>
    /\ UNCHANGED <<pdPlugin, pdContext, pdStream, pdRoom, pdLeft, pdDrain, pdPlays>>

(* ... but tsmf_pulse_open fails if connecting did not, and a device that  *)
(* could not be opened is freed (tsmf_load_audio_device_by_name).          *)
tsmf_pulse_open ==
    /\ pdPlugin = "tsmf"
    /\ \/ pdPc = "connected" /\ pdPc' = "freed" /\ pdTold' = <<"false", pdContext>>
       \/ pdPc = "refused" /\ pdPc' = "idle" /\ pdTold' = <<"true", pdContext>>
    /\ UNCHANGED <<pdPlugin, pdContext, pdStream, pdRoom, pdLeft, pdDrain, pdPlays>>

(* Opening a stream; none can be made in a context that is not ready, so   *)
(* tsmf's copies of what follows, reached only in a failed context, do     *)
(* nothing.                                                                *)
OpensStream(plugin) ==
    /\ pdPlugin = plugin
    /\ \/ /\ pdPc = "idle" /\ pdStream = "none" /\ pdContext = "ready"
          /\ pdPc' = "open" /\ pdStream' = "creating"
       \/ /\ pdPc = "open" /\ pdStream = "creating" /\ pdPc' = "stream?" /\ UNCHANGED pdStream
       \/ /\ pdPc = "open" /\ pdStream = "ready" /\ pdPc' = "idle" /\ UNCHANGED pdStream
       \/ /\ pdPc = "open" /\ pdStream = "failed" /\ pdPc' = "close" /\ UNCHANGED pdStream
    /\ UNCHANGED <<pdPlugin, pdContext, pdRoom, pdLeft, pdDrain, pdPlays, pdTold>>

rdpsnd_pulse_open == OpensStream("rdpsnd")
audin_pulse_opens == OpensStream("audin")

(* Playing: as much as there is room for is written, or the room awaited;  *)
(* a stream that went bad has no writable size and ends it.                *)
rdpsnd_pulse_play ==
    /\ pdPlugin = "rdpsnd"
    /\ \/ /\ pdPc = "idle" /\ pdStream # "none" /\ pdPlays < MaxPlays
          /\ pdPc' = "play" /\ pdLeft' = Size /\ pdPlays' = pdPlays + 1 /\ UNCHANGED pdRoom
       \/ /\ pdPc = "play" /\ (pdLeft = 0 \/ pdStream = "failed")
          /\ pdPc' = "idle" /\ pdLeft' = 0 /\ UNCHANGED <<pdPlays, pdRoom>>
       \/ /\ pdPc = "play" /\ pdLeft > 0 /\ pdStream = "ready" /\ pdRoom = 0
          /\ pdPc' = "room?" /\ UNCHANGED <<pdLeft, pdPlays, pdRoom>>
       \/ /\ pdPc = "play" /\ pdLeft > 0 /\ pdStream = "ready" /\ pdRoom > 0
          /\ LET len == IF pdRoom > pdLeft THEN pdLeft ELSE pdRoom
             IN  pdLeft' = pdLeft - len /\ pdRoom' = pdRoom - len
          /\ UNCHANGED <<pdPc, pdPlays>>
    /\ UNCHANGED <<pdPlugin, pdContext, pdStream, pdDrain, pdTold>>

(* Closing drains what is still to be heard, and waits for the operation.  *)
(* A bad stream cannot be drained.  (audin_pulse_close does not drain.)    *)
Closes(plugin) ==
    /\ pdPlugin = plugin
    /\ \/ /\ pdPc = "idle" /\ pdStream # "none" /\ pdPc' = "close"
          /\ UNCHANGED <<pdStream, pdDrain, pdRoom>>
       \/ /\ pdPc = "close" /\ pdDrain = "none" /\ pdStream = "ready" /\ plugin # "audin"
          /\ pdPc' = "drained?" /\ pdDrain' = "running" /\ UNCHANGED <<pdStream, pdRoom>>
       \/ /\ pdPc = "close" /\ (pdDrain = "done" \/ pdStream = "failed" \/ plugin = "audin")
          /\ pdPc' = "idle" /\ pdStream' = "none" /\ pdDrain' = "none" /\ pdRoom' = 0
       \/ /\ pdPc = "close" /\ pdDrain = "running" /\ pdStream = "ready"
          /\ pdPc' = "drained?" /\ UNCHANGED <<pdStream, pdDrain, pdRoom>>
    /\ UNCHANGED <<pdPlugin, pdContext, pdLeft, pdPlays, pdTold>>

rdpsnd_pulse_close == Closes("rdpsnd")
audin_pulse_closes == Closes("audin")

-----------------------------------------------------------------------------
(* The main loop's thread.  A signal wakes the caller, who looks again.    *)
Signalled ==
    pdPc' = CASE pdPc = "context?" -> "connect" [] pdPc = "stream?" -> "open"
              [] pdPc = "room?" -> "play" [] pdPc = "drained?" -> "close" [] OTHER -> pdPc

rdpsnd_pulse_context_state_callback ==
    /\ pdContext = "connecting" /\ pdPc \in {"connect", "context?"}
    /\ pdContext' \in {"ready", "failed"} /\ Signalled
    /\ UNCHANGED <<pdPlugin, pdStream, pdRoom, pdLeft, pdDrain, pdPlays, pdTold>>

(* The stream becomes ready, or bad at any time; then a drain is cancelled.*)
rdpsnd_pulse_stream_state_callback ==
    /\ \/ pdStream = "creating" /\ pdStream' \in {"ready", "failed"}
       \/ pdStream = "ready" /\ pdStream' = "failed"
    /\ pdDrain' = IF pdDrain = "running" /\ pdStream' = "failed" THEN "done" ELSE pdDrain
    /\ Signalled
    /\ UNCHANGED <<pdPlugin, pdContext, pdRoom, pdLeft, pdPlays, pdTold>>

(* Mutant: who waits for room is not woken.                                *)
request_callback_silent ==
    /\ pdStream = "ready" /\ pdRoom < MaxRoom /\ pdRoom' \in pdRoom + 1 .. MaxRoom
    /\ UNCHANGED pdPc
    /\ UNCHANGED <<pdPlugin, pdContext, pdStream, pdLeft, pdDrain, pdPlays, pdTold>>

rdpsnd_pulse_stream_request_callback ==
    /\ pdStream = "ready" /\ pdRoom < MaxRoom /\ pdRoom' \in pdRoom + 1 .. MaxRoom
    /\ Signalled
    /\ UNCHANGED <<pdPlugin, pdContext, pdStream, pdLeft, pdDrain, pdPlays, pdTold>>

rdpsnd_pulse_stream_success_callback ==
    /\ pdDrain = "running" /\ pdDrain' = "done" /\ Signalled
    /\ UNCHANGED <<pdPlugin, pdContext, pdStream, pdRoom, pdLeft, pdPlays, pdTold>>

Calls ==
    \/ rdpsnd_pulse_connect \/ tsmf_pulse_connect \/ audin_pulse_connect
    \/ Entered \/ tsmf_pulse_open
    \/ rdpsnd_pulse_open \/ audin_pulse_opens
    \/ rdpsnd_pulse_play
    \/ rdpsnd_pulse_close \/ audin_pulse_closes

PdNext ==
    \/ Calls
    \/ rdpsnd_pulse_context_state_callback \/ rdpsnd_pulse_stream_state_callback
    \/ rdpsnd_pulse_stream_request_callback \/ rdpsnd_pulse_stream_success_callback

PdSpec == PdInit /\ [][PdNext]_pdVars

(* A call goes on when it can; PulseAudio answers in the end.              *)
PdFairness ==
    /\ WF_pdVars(pdPc # "start" /\ Calls) /\ WF_pdVars(rdpsnd_pulse_context_state_callback)
    /\ WF_pdVars(pdStream = "creating" /\ rdpsnd_pulse_stream_state_callback)
    /\ WF_pdVars(rdpsnd_pulse_stream_request_callback)
    /\ WF_pdVars(rdpsnd_pulse_stream_success_callback)
PdFairSpec == PdSpec /\ PdFairness

-----------------------------------------------------------------------------
PdTypeOK ==
    /\ pdPlugin \in Plugins /\ pdContext \in {"new", "connecting", "ready", "failed"}
    /\ pdStream \in {"none", "creating", "ready", "failed"} /\ pdRoom \in 0 .. MaxRoom
    /\ pdLeft \in 0 .. Size /\ pdDrain \in {"none", "running", "done"}

(* Nobody sleeps through what they wait for: a caller in                   *)
(* pa_threaded_mainloop_wait waits for something that has not happened,    *)
(* since every state, request and success callback signals.                *)
NobodySleepsThrough ==
    /\ pdPc = "context?" => pdContext = "connecting"
    /\ pdPc = "stream?" => pdStream = "creating"
    /\ pdPc = "room?" => pdStream = "ready" /\ pdRoom = 0
    /\ pdPc = "drained?" => pdDrain = "running"

(* Connecting, opening, playing and closing come back to their caller.     *)
PulseCallsReturn == pdPc # "start" ~> pdPc \in {"idle", "freed"}

(* Opening the device succeeds if and only if the connection was made; it  *)
(* is when tsmf_pulse_open warns that connecting failed that it did not.   *)
OpenTellsTheTruth ==
    pdTold[1] # "not" => (pdTold[1] = "true") = (pdTold[2] = "ready")

(* Sound output: waves are played with the format meant, confirmed in      *)
(* order, and the interval timer runs while there is something to confirm. *)
SoundIsSafe ==
    /\ SdTypeOK /\ PlayedAsMeant /\ ConfirmedInOrder
    /\ IntervalRuns
=============================================================================
