----------------------------- MODULE MediaData ------------------------------
(***************************************************************************)
(* The data of sound and video: samples and formats, and the messages of   *)
(* the multimedia channel.                                                 *)
(***************************************************************************)
EXTENDS Integers, Sequences, SequencesExt, FiniteSetsExt, Layout

-----------------------------------------------------------------------------
(* What the sound channels compute: resampling and IMA ADPCM               *)
(* (libfreerdp-utils/dsp.c), which formats a device accepts, what setting  *)
(* one does to it, and the answers to the server's lists of formats.       *)
(* Samples are integers; an encoded byte is a pair of 4-bit codes, and a   *)
(* block header is an entry <<"header", sample, step>> with three fillers. *)

Clip(lo, hi, x) == IF x < lo THEN lo ELSE IF x > hi THEN hi ELSE x

-----------------------------------------------------------------------------
(* dsp_resample: frame i of the result is the nearest of its neighbours in *)
(* the source; source frames are given, and their number of channels.      *)
NearestFrame(i, srate, rrate, sframes) ==
    LET n1 == Min({(i * srate) \div rrate, sframes - 1})
        n2 == IF n1 * rrate = i * srate \/ n1 = sframes - 1 THEN n1 ELSE n1 + 1
    IN  IF n2 # n1 /\ i * srate - n1 * rrate > n2 * rrate - i * srate THEN n2 ELSE n1

dsp_resample(src, schan, srate, rchan, rrate) ==
    LET rframes == (Len(src) * rrate) \div srate
    IN  [i \in 1 .. rframes |->
          [c \in 1 .. rchan |->
             src[1 + NearestFrame(i - 1, srate, rrate, Len(src))][1 + ((c - 1) % schan)]]]

-----------------------------------------------------------------------------
(* IMA ADPCM.  A coder's state for one channel is [sample, step].          *)
ima_step_index_table(code) == IF code % 8 < 4 THEN -1 ELSE ((code % 8) - 3) * 2

ima_step_size_table ==
    <<7, 8, 9, 10, 11, 12, 13, 14, 16, 17, 19, 21, 23, 25, 28, 31, 34, 37, 41, 45,
      50, 55, 60, 66, 73, 80, 88, 97, 107, 118, 130, 143, 157, 173, 190, 209, 230, 253,
      279, 307, 337, 371, 408, 449, 494, 544, 598, 658, 724, 796, 876, 963, 1060, 1166,
      1282, 1411, 1552, 1707, 1878, 2066, 2272, 2499, 2749, 3024, 3327, 3660, 4026, 4428,
      4871, 5358, 5894, 6484, 7132, 7845, 8630, 9493, 10442, 11487, 12635, 13899, 15289,
      16818, 18500, 20350, 22385, 24623, 27086, 29794, 32767>>

NextState(s, diff, code) ==
    [sample |-> Clip(-32768, 32767, s.sample + diff),
     step   |-> Clip(0, 88, s.step + ima_step_index_table(code))]

dsp_decode_ima_adpcm_sample(s, code) ==
    LET ss == ima_step_size_table[s.step + 1]
        d  == (ss \div 8) + (IF code % 2 = 1 THEN ss \div 4 ELSE 0)
              + (IF (code \div 2) % 2 = 1 THEN ss \div 2 ELSE 0)
              + (IF (code \div 4) % 2 = 1 THEN ss ELSE 0)
    IN  NextState(s, IF code >= 8 THEN -d ELSE d, code)

(* The code of a sample, and the state after it.                           *)
dsp_encode_ima_adpcm_sample(s, sample) ==
    LET ss == ima_step_size_table[s.step + 1]
        d  == sample - s.sample
        e0 == IF d < 0 THEN -d ELSE d
        e1 == IF e0 >= ss THEN e0 - ss ELSE e0
        e2 == IF e1 >= ss \div 2 THEN e1 - (ss \div 2) ELSE e1
        e3 == IF e2 >= ss \div 4 THEN e2 - (ss \div 4) ELSE e2
        code == (IF d < 0 THEN 8 ELSE 0) + (IF e0 >= ss THEN 4 ELSE 0)
                + (IF e1 >= ss \div 2 THEN 2 ELSE 0) + (IF e2 >= ss \div 4 THEN 1 ELSE 0)
        diff == IF d < 0 THEN d + e3 - (ss \div 8) ELSE (d - e3) + (ss \div 8)
    IN  [code |-> code, state |-> NextState(s, diff, code)]

(* Codes of a run of samples of one channel; the last state is kept.       *)
Codes(s, samples) ==
    FoldLeft(LAMBDA acc, x : LET c == dsp_encode_ima_adpcm_sample(acc.state, x)
                             IN  [state |-> c.state, codes |-> Append(acc.codes, c.code)],
             [state |-> s, codes |-> <<>>], samples)

Header(s) == <<<<"header", s.sample, s.step>>>> \o [k \in 1 .. 3 |-> <<"filler">>]

(* The bytes of 8 samples of either channel: the left's in bytes 0 to 3,   *)
(* the right's in 4 to 7, the earlier sample in the low half.              *)
ima_stereo_encode_map(left, right) ==
    [b \in 1 .. 8 |-> IF b <= 4 THEN <<left[2 * b - 1], left[2 * b]>>
                      ELSE <<right[2 * b - 9], right[2 * b - 8]>>]

(* Whole packets: mono takes two samples a byte, stereo sixteen at a time. *)
dsp_encode_ima_adpcm(states, frames, channels, block_size) ==
    LET group == IF channels > 1 THEN 8 ELSE 2
        Part(k, c) == [j \in 1 .. group |-> frames[(k - 1) * group + j][c]]
        Step(acc, k) ==
            LET head == IF Len(acc.out) % block_size = 0
                        THEN FlattenSeq([c \in 1 .. channels |-> Header(acc.states[c])]) ELSE <<>>
                run  == [c \in 1 .. channels |-> Codes(acc.states[c], Part(k, c))]
                body == IF channels > 1
                        THEN ima_stereo_encode_map(run[1].codes, run[2].codes)
                        ELSE <<<<run[1].codes[1], run[1].codes[2]>>>>
            IN  [states |-> [c \in 1 .. channels |-> run[c].state],
                 out |-> acc.out \o head \o body]
    IN  FoldLeft(Step, [states |-> states, out |-> <<>>],
                 [k \in 1 .. Len(frames) \div group |-> k])

(* One group of the decoder: a header when the remaining size is a         *)
(* multiple of the block size, then one byte, or eight.                    *)
DecodeGroup(acc, src, channels, block_size) ==
    LET left  == Len(src) - acc.pos
        heads == IF left % block_size = 0 THEN channels ELSE 0
        st    == [c \in 1 .. channels |->
                    IF heads > 0 THEN [sample |-> src[acc.pos + 4 * c - 3][2],
                                       step |-> src[acc.pos + 4 * c - 3][3]]
                    ELSE acc.states[c]]
        at    == acc.pos + 4 * heads
        Nibbles(c) == IF channels > 1
                      THEN FlattenSeq([b \in 1 .. 4 |-> src[at + 4 * (c - 1) + b]])
                      ELSE src[at + 1]
        Run(c) == FoldLeft(LAMBDA r, code :
                              LET s == dsp_decode_ima_adpcm_sample(r.state, code)
                              IN  [state |-> s, samples |-> Append(r.samples, s.sample)],
                           [state |-> st[c], samples |-> <<>>], Nibbles(c))
        runs  == [c \in 1 .. channels |-> Run(c)]
    IN  [states |-> [c \in 1 .. channels |-> runs[c].state],
         pos |-> at + (IF channels > 1 THEN 8 ELSE 1),
         frames |-> acc.frames \o [j \in DOMAIN runs[1].samples |->
                                     [c \in 1 .. channels |-> runs[c].samples[j]]]]

dsp_decode_ima_adpcm(states, src, channels, block_size) ==
    FoldLeft(LAMBDA acc, k : IF acc.pos < Len(src) THEN DecodeGroup(acc, src, channels, block_size)
                             ELSE acc,
             [states |-> states, pos |-> 0, frames |-> <<>>],
             [k \in 1 .. Len(src) \div (IF channels > 1 THEN 8 ELSE 1) |-> k])

-----------------------------------------------------------------------------
(* Formats [tag, channels, rate, align, bits, extra]: what devices accept. *)
PA_RATE_MAX == 192000     \* external: PulseAudio's limits
PA_CHANNELS_MAX == 32

rdpsnd_alsa_format_supported(f) ==
    /\ f.rate <= 48000 /\ f.channels \in {1, 2}
    /\ \/ f.tag = 1 /\ f.extra = 0 /\ f.bits \in {8, 16}
       \/ f.tag = 17 /\ f.bits = 4

audin_alsa_format_supported(f) == rdpsnd_alsa_format_supported(f)

rdpsnd_pulse_format_supported(f) ==
    /\ f.rate <= PA_RATE_MAX
    /\ \/ /\ f.tag = 1 /\ f.extra = 0 /\ f.bits \in {8, 16}
          /\ f.channels \in 1 .. PA_CHANNELS_MAX
       \/ /\ f.tag \in {6, 7} /\ f.extra = 0 /\ f.bits = 8
          /\ f.channels \in 1 .. PA_CHANNELS_MAX
       \/ f.tag = 17 /\ f.bits = 4 /\ f.channels \in {1, 2}

audin_pulse_format_supported(f) == rdpsnd_pulse_format_supported(f)

(* What the device is set to.  A tag or width no case names leaves ALSA's  *)
(* sample format as it was.                                                *)
rdpsnd_alsa_set_format(alsa, f) ==
    LET bytes == CASE f.tag = 1 /\ f.bits = 8 -> 1
                   [] f.tag = 1 /\ f.bits = 16 -> 2
                   [] f.tag = 17 -> 2
                   [] OTHER -> alsa.bytes
    IN  [rate |-> f.rate, channels |-> f.channels, bytes |-> bytes,
         wformat |-> f.tag, block |-> f.align]

rdpsnd_pulse_set_format_spec(f) ==
    [rate |-> f.rate, channels |-> f.channels, wformat |-> f.tag, block |-> f.align,
     bytes |-> IF f.tag = 17 \/ (f.tag = 1 /\ f.bits = 16) THEN 2 ELSE 1]

(* A packet of recorded ADPCM is made a whole number of blocks, counting   *)
(* up from whatever the packet was before.                                 *)
WholeBlocks(frames, f) ==
    LET bs == (f.align - 4 * f.channels) * 4
    IN  ((((frames * f.channels * 2) \div bs) + 1) * bs) \div (f.channels * 2)

audin_alsa_set_format(frames, f, asked) == IF f.tag = 17 THEN WholeBlocks(frames, f) ELSE frames

audin_pulse_set_format(frames, f, asked) ==
    LET n == IF asked > 0 THEN asked ELSE frames
    IN  IF f.tag = 17 THEN WholeBlocks(n, f) ELSE n

-----------------------------------------------------------------------------
(* The answers to the server's list.  fixed = [tag, channels, rate] are    *)
(* the plugin's options, 0 where not given.                                *)
Kept(fixed, f) ==
    /\ fixed.tag \in {0, f.tag} /\ fixed.channels \in {0, f.channels}
    /\ fixed.rate \in {0, f.rate}

FormatBytes(list) == FoldLeft(LAMBDA n, f : n + 18 + f.extra, 0, list)

rdpsnd_process_message_formats(fixed, list) ==
    LET out == SelectSeq(list, LAMBDA f : Kept(fixed, f) /\ rdpsnd_alsa_format_supported(f))
    IN  [formats |-> out, count |-> Len(out), sent |-> 24 + FormatBytes(out),
         body |-> 24 + FormatBytes(out) - 4]

(* formats is a new array, but formats_count goes on counting.             *)
audin_process_formats(had, fixed, list) ==
    LET out == SelectSeq(list, LAMBDA f : Kept(fixed, f) /\ audin_alsa_format_supported(f))
    IN  [listed |-> out, count |-> had + Len(out), sent |-> 9 + FormatBytes(out)]

(* rdpsnd_alsa_play: bytes handed to ALSA for a wave of that many bytes,   *)
(* or none if they are not whole frames.                                   *)
DecodedSize(size, channels, block_size) ==
    (size * 4) - 16 * channels * ((size + block_size - 1) \div block_size)

rdpsnd_alsa_play(alsa, size) ==
    LET n == IF alsa.wformat = 17 THEN DecodedSize(size, alsa.channels, alsa.block) ELSE size
    IN  IF n % (alsa.channels * alsa.bytes) # 0 THEN 0 ELSE n

-----------------------------------------------------------------------------
(* Multimedia redirection messages (channels/drdynvc/tsmf: tsmf_main.c,    *)
(* tsmf_ifman.c, tsmf_codec.c): what each request is answered with and     *)
(* does to the presentations, and how a media type is read.  A request is  *)
(* [fn, known, stream, ...] with known: the presentation is found, stream: *)
(* so is the stream.  An answer is [error, pending, size, to, does]: size  *)
(* counts the bytes after the 8 of the header, does names the call made    *)
(* into tsmf_media.c.                                                      *)

Answered(size, to, does) == [error |-> 0, pending |-> FALSE, size |-> size, to |-> to, does |-> does]
NoAnswer(error, does) == [error |-> error, pending |-> TRUE, size |-> 0, to |-> "same", does |-> does]
Failed == [error |-> 1, pending |-> FALSE, size |-> 0, to |-> "same", does |-> "none"]

ExchangedCapabilities(caps) ==
    [k \in DOMAIN caps |-> IF caps[k].type = 2 THEN [caps[k] EXCEPT !.value = "MF+DSHOW"] ELSE caps[k]]

(* One group of handlers after the other, in the order of tsmf_ifman.c.    *)
(* The request for capabilities is copied, capability 2 is overwritten     *)
(* with the platforms the client has, and the end is where the             *)
(* capabilities' lengths say it is.                                        *)
tsmf_ifman_prepare(r) ==
    CASE r.fn = "RIM_EXCHANGE_CAPABILITY_REQUEST" -> Answered(8, "same", "none")
      [] r.fn = "EXCHANGE_CAPABILITIES_REQ" ->
           Answered(4 + FoldLeft(LAMBDA n, c : n + 8 + c.length, 0, r.caps) + 4, "stub", "none")
      [] r.fn = "CHECK_FORMAT_SUPPORT_REQ" -> Answered(12, "stub", "none")
      [] r.fn = "ON_NEW_PRESENTATION" ->
           IF r.known THEN NoAnswer(1, "none") ELSE NoAnswer(0, "presentation_new")
      [] r.fn = "ADD_STREAM" ->
           NoAnswer(IF r.known THEN 0 ELSE 1, IF r.known /\ ~r.stream THEN "stream_new" ELSE "none")
      [] r.fn = "SET_TOPOLOGY_REQ" -> Answered(8, "stub", "none")
tsmf_ifman_settings(r) ==
    CASE r.fn = "REMOVE_STREAM" ->
           IF r.known /\ r.stream THEN NoAnswer(0, "stream_free") ELSE NoAnswer(1, "none")
      [] r.fn = "SHUTDOWN_PRESENTATION_REQ" ->
           Answered(4, "stub", IF r.known THEN "presentation_free" ELSE "none")
      [] r.fn \in {"ON_STREAM_VOLUME", "ON_CHANNEL_VOLUME", "SET_VIDEO_WINDOW", "SET_ALLOCATOR",
                   "NOTIFY_PREROLL"} -> NoAnswer(0, "none")
      [] r.fn = "UPDATE_GEOMETRY_INFO" ->
           IF r.known THEN NoAnswer(0, "set_geometry_info") ELSE NoAnswer(1, "none")
tsmf_ifman_samples(r) ==
    CASE r.fn = "ON_SAMPLE" -> IF r.known /\ r.stream THEN NoAnswer(0, "push_sample") ELSE Failed
      [] r.fn = "ON_FLUSH" -> IF r.known THEN NoAnswer(0, "flush") ELSE Failed
      [] r.fn = "ON_END_OF_STREAM" -> Answered(16, "client", "stream_end")
tsmf_ifman_playback(r) ==
    CASE r.fn = "ON_PLAYBACK_STARTED" -> Answered(16, "client", IF r.known THEN "start" ELSE "none")
      [] r.fn \in {"ON_PLAYBACK_PAUSED", "ON_PLAYBACK_RESTARTED"} -> NoAnswer(0, "none")
      [] r.fn = "ON_PLAYBACK_STOPPED" -> Answered(16, "client", IF r.known THEN "stop" ELSE "none")
      [] r.fn = "ON_PLAYBACK_RATE_CHANGED" -> Answered(16, "client", "none")

(* Rectangles come as top, left, bottom, right.                            *)
VisibleRects(corners) ==
    [k \in DOMAIN corners |->
       LET c == corners[k]
       IN  [x |-> c[2], y |-> c[1], width |-> (c[4] - c[2]) % 65536, height |-> (c[3] - c[1]) % 65536]]

(* tsmf_on_data_received: what goes back to the server, and the effect.    *)
TsmfHandled(r) ==
    CASE r.fn \in {"RIM_EXCHANGE_CAPABILITY_REQUEST", "EXCHANGE_CAPABILITIES_REQ",
                   "CHECK_FORMAT_SUPPORT_REQ", "ON_NEW_PRESENTATION", "ADD_STREAM",
                   "SET_TOPOLOGY_REQ"} -> tsmf_ifman_prepare(r)
      [] r.fn \in {"REMOVE_STREAM", "SHUTDOWN_PRESENTATION_REQ", "ON_STREAM_VOLUME",
                   "ON_CHANNEL_VOLUME", "SET_VIDEO_WINDOW", "UPDATE_GEOMETRY_INFO",
                   "SET_ALLOCATOR", "NOTIFY_PREROLL"} -> tsmf_ifman_settings(r)
      [] r.fn \in {"ON_SAMPLE", "ON_FLUSH", "ON_END_OF_STREAM"} -> tsmf_ifman_samples(r)
      [] r.fn \in {"ON_PLAYBACK_STARTED", "ON_PLAYBACK_PAUSED", "ON_PLAYBACK_RESTARTED",
                   "ON_PLAYBACK_STOPPED", "ON_PLAYBACK_RATE_CHANGED"} -> tsmf_ifman_playback(r)
      [] r.fn = "SET_CHANNEL_PARAMS" -> NoAnswer(0, "set_channel_params")
      [] r.fn = "RIMCALL_RELEASE" -> NoAnswer(0, "none")
      [] OTHER -> Answered(0, "same", "none")

tsmf_on_data_received(r) ==
    LET a == TsmfHandled(r)
    IN  [sent |-> IF a.error = 0 /\ ~a.pending THEN 8 + a.size ELSE 0, to |-> a.to, does |-> a.does]

tsmf_playback_ack == Bytes(<<4, 4, 4, 4, 8, 8>>)

-----------------------------------------------------------------------------
(* Reading a media type.  Each part gives how far it advances.             *)
Beyond(n, m) == IF n > m THEN n - m ELSE 0

BitmapInfoFields == <<4, 4, 4, 28>>
tsmf_codec_parse_BITMAPINFOHEADER(biSize, bypass) ==
    [moved |-> Bytes(BitmapInfoFields) + (IF bypass THEN Beyond(biSize, 40) ELSE 0),
     counted |-> IF bypass THEN biSize ELSE 40]

tsmf_codec_parse_VIDEOINFOHEADER2 ==
    [moved |-> Bytes(<<4, 4, 4, 4, 16, 4, 4, 8, 24>>), counted |-> 72]

(* The format block: how far the stream moved, and the extra data's size   *)
(* (it begins where the stream stands).                                    *)
tsmf_codec_parse_media_type(t) ==
    CASE t.format = "MFVIDEOFORMAT" ->
           [moved |-> Bytes(<<8, 4, 4, 32, 4, 4, 80, 4, 36>>),
            extra |-> Beyond(t.cbFormat, 176)]
      [] t.format = "WAVEFORMATEX" ->
           [moved |-> Bytes(<<2, 2, 4, 4, 2, 2, 2>>), extra |-> t.extra]
      [] t.format \in {"MPEG2VIDEOINFO", "VIDEOINFO2"} ->
           LET v == tsmf_codec_parse_VIDEOINFOHEADER2
               b == tsmf_codec_parse_BITMAPINFOHEADER(t.biSize, t.format = "MPEG2VIDEOINFO")
               i == v.counted + b.counted
           IN  [moved |-> v.moved + b.moved, extra |-> Beyond(t.cbFormat, i)]
      [] OTHER -> [moved |-> 0, extra |-> 0]

(* A rate is never a fraction with a zero.                                 *)
SamplesPerSecond(avgTime) ==
    [num |-> 1000000, den |-> IF avgTime \div 10 = 0 THEN 1 ELSE avgTime \div 10]

(* The mark is restored, so that the stream can be read again.             *)
tsmf_codec_check_media_type(t) ==
    [ret |-> t.major # "UNKNOWN" /\ t.sub # "UNKNOWN" /\ t.format # "UNKNOWN", moved |-> 0]
=============================================================================
