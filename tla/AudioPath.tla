----------------------------- MODULE AudioPath -----------------------------
(***************************************************************************)
(* The audio of a phone on its way out: AudioRouter, which pushes each     *)
(* buffer to the pipeline of the vehicle and turns other streams down      *)
(* under guidance, and AudioMixer, which mixes the streams for the UI.     *)
(*                                                                         *)
(* Audio is counted in half frames, so that a buffer may end inside a      *)
(* frame.  Streams other than media are converted to the format of the     *)
(* mixer and come in whole frames.  ragged and media are history: a media  *)
(* buffer has ended inside a frame; how the last media buffer of this      *)
(* phase, with or without guidance, was routed.                            *)
(***************************************************************************)
EXTENDS Naturals, FiniteSetsExt

CONSTANT MaxBuffered    \* bound: half frames in the buffer of a stream

ASSUME AudioAssumption == MaxBuffered \in Nat

VARIABLE audio

Stream == {"media", "system", "speech"}
Frame == 2

Audio ==
    [mixer: BOOLEAN,                    \* m_audioMixer
     buffer: [Stream -> 0..MaxBuffered],
     active: SUBSET Stream,
     ragged: BOOLEAN,
     daemon: BOOLEAN,                   \* PipeWire or PulseAudio runs
     ready: BOOLEAN,                    \* m_initialized of AudioRouter
     tried: BOOLEAN,                    \* m_lastInitializeAttemptMs is recent
     ducking: BOOLEAN,                  \* m_duckingEnabled
     guidance: BOOLEAN,                 \* the phone has its guidance stream open
     media: {"none", "full", "ducked"}]

-----------------------------------------------------------------------------
(* AudioMixer.                                                             *)

NoData == [s \in Stream |-> 0]

\* mutant: a stream of which exactly the mixed part is there keeps it
MixBuffers_KeepsLast(a) ==
    LET full == {s \in a.active : a.buffer[s] > 0}
        mixed == (Min({a.buffer[s] : s \in full}) \div Frame) * Frame
        taken == {s \in a.active : a.buffer[s] > mixed}
        left == [s \in Stream |-> IF s \in taken THEN a.buffer[s] - mixed ELSE a.buffer[s]]
    IN  IF full = {} \/ mixed = 0 THEN a
        ELSE [a EXCEPT !.buffer = left, !.active = {s \in @ : s \in taken => left[s] > 0}]

\* mixBuffers: as many frames as the shortest buffer has are taken from every stream
\* that has as many.
MixBuffers(a) ==
    LET full == {s \in a.active : a.buffer[s] > 0}
        mixed == (Min({a.buffer[s] : s \in full}) \div Frame) * Frame
        taken == {s \in a.active : a.buffer[s] >= mixed}
        left == [s \in Stream |-> IF s \in taken THEN a.buffer[s] - mixed ELSE a.buffer[s]]
    IN  IF full = {} \/ mixed = 0 THEN a
        ELSE [a EXCEPT !.buffer = left, !.active = {s \in @ : s \in taken => left[s] > 0}]

\* mixAudioData; without a mixer the buffer goes out as it is.
MixAudioData(a, s, n) ==
    IF ~a.mixer THEN a
    ELSE MixBuffers([a EXCEPT !.buffer[s] = @ + n, !.active = @ \cup {s},
                              !.ragged = @ \/ n % Frame # 0])

-----------------------------------------------------------------------------
(* AudioRouter.                                                            *)

\* ensureAudioBackendReady: a backend that was found is not asked for again.
EnsureReady(a) ==
    IF a.ready \/ a.tried THEN a ELSE [a EXCEPT !.ready = a.daemon, !.tried = TRUE]

\* routeAudioFrame
RouteAudioFrame(a, s) ==
    LET tried == EnsureReady(a)
    IN  IF s = "media" /\ tried.ready
        THEN [tried EXCEPT !.media = IF tried.ducking THEN "ducked" ELSE "full"]
        ELSE tried

\* routeGuidanceAudioToVehicle turns ducking on; nothing turns it off.
RouteToVehicle(a, s) ==
    RouteAudioFrame(IF s = "speech" THEN [a EXCEPT !.ducking = TRUE] ELSE a, s)

-----------------------------------------------------------------------------
(* Steps.                                                                  *)

\* onMediaAudioChannelUpdate, onSystemAudioChannelUpdate, onSpeechAudioChannelUpdate
AudioData(s) ==
    \E n \in 1..MaxBuffered :
        /\ s = "speech" => audio.guidance
        /\ s # "media" => n % Frame = 0
        /\ audio.buffer[s] + n <= MaxBuffered
        /\ audio' = MixAudioData(RouteToVehicle(audio, s), s, n)

\* The mixer is made with the channels of a connection and goes with them.
MixerMade ==
    /\ ~audio.mixer
    /\ audio' = [audio EXCEPT !.mixer = TRUE, !.ragged = FALSE]

MixerGone ==
    /\ audio.mixer
    /\ audio' = [audio EXCEPT !.mixer = FALSE, !.buffer = NoData, !.active = {},
                              !.guidance = FALSE, !.media = "none"]

\* The stream of guidance: the phone starts and stops it.
GuidanceStartsOrStops ==
    audio.mixer /\ audio' = [audio EXCEPT !.guidance = ~@, !.media = "none"]

DaemonComesOrGoes == audio' = [audio EXCEPT !.daemon = ~@]

RetryIntervalOver == audio.tried /\ audio' = [audio EXCEPT !.tried = FALSE]

\* The service initialises its router when it is made.
AudioInit ==
    \E daemon \in BOOLEAN :
        audio = EnsureReady(
            [mixer |-> FALSE, buffer |-> NoData, active |-> {}, ragged |-> FALSE,
             daemon |-> daemon, ready |-> FALSE, tried |-> FALSE, ducking |-> FALSE,
             guidance |-> FALSE, media |-> "none"])

AudioNext ==
    \/ \E s \in Stream : AudioData(s)
    \/ MixerMade \/ MixerGone \/ GuidanceStartsOrStops
    \/ DaemonComesOrGoes \/ RetryIntervalOver

AudioSpec == AudioInit /\ [][AudioNext]_audio

-----------------------------------------------------------------------------
(* Properties.                                                             *)

AudioTypeOK == audio \in Audio

\* As long as the phone sends whole frames nothing waits in a buffer: whatever the
\* streams and in whatever order they speak, each buffer is mixed when it comes.
HeardAtOnce == ~audio.ragged => audio.buffer = NoData

\* "Apply ducking for non-guidance streams when guidance priority is active"
\* (docs/comprehensive/AUDIO_ROUTING.md): without guidance media is not turned down.
DuckingFollowsGuidance == audio.media = "ducked" => audio.guidance
=============================================================================
