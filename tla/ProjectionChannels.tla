------------------------- MODULE ProjectionChannels -------------------------
(***************************************************************************)
(* The channels of one Android Auto connection: which of them has a        *)
(* receive outstanding, whose handler it belongs to, and the projection    *)
(* milestones, readiness and idle watchdog that the messages drive.        *)
(*                                                                         *)
(* svc is the service.  rx[c] is the state of a channel object:            *)
(*   none   no object                                                      *)
(*   void   an object of an earlier messenger (its kind was disabled when  *)
(*          the current objects were made, which does not reset it)        *)
(*   idle   no receive outstanding       armed  at least one outstanding   *)
(*   dead   the receive failed, and the failure was reported to the        *)
(*          service instead of being retried                               *)
(* handler[c] is none, own (made for the current object) or old.           *)
(*                                                                         *)
(* How the connection comes and goes is module AndroidAutoLink; here       *)
(* Established, Disconnect and CleanUp may happen whenever they can.       *)
(***************************************************************************)
EXTENDS Naturals, FiniteSets

CONSTANTS
    Policies,   \* the startup policies the configuration may select
    Configs,    \* the channel configurations in use
    Modes,      \* the video transport modes the configuration may request
    MaxFailures,     \* bound: receives and sends that fail
    MaxConnections,  \* bound: connections established
    MaxChanges       \* bound: changes of the channel configuration

Optional == {"systemAudio", "speechAudio", "telephonyAudio", "input", "sensor",
             "bluetooth", "wifiProjection", "microphone"}
Audio == {"mediaAudio", "systemAudio", "speechAudio", "telephonyAudio"}
NonControl == Optional \cup {"video", "mediaAudio"}
Channel == NonControl \cup {"control"}

Milestone == {"version", "discovery", "videoOpened", "videoConfigured", "videoStarted",
              "videoFrame", "audioConfigured", "audioStarted", "audioFrame", "payload"}

Policy == [compat: BOOLEAN,             \* compat_openauto profile
           deferToDiscovery: BOOLEAN,   \* arm nothing before service discovery
           deferToControl: BOOLEAN,     \* arm nothing before the version response
           earlyOptional: BOOLEAN,      \* arm optional channels before a stream starts
           micDelay: BOOLEAN]           \* arm the microphone after a delay

\* isCompatOpenAutoProfileEnabled makes every other switch take its compat value.
PolicyAllowed(p) ==
    p.compat => p = [compat |-> TRUE, deferToDiscovery |-> FALSE, deferToControl |-> FALSE,
                     earlyOptional |-> TRUE, micDelay |-> FALSE]

ASSUME PoliciesAssumption == Policies \subseteq {p \in Policy : PolicyAllowed(p)}
ASSUME ConfigsAssumption == Configs \subseteq SUBSET NonControl
ASSUME ModesAssumption == Modes \subseteq {"h264", "jpeg", "webrtc"}
ASSUME BoundsAssumption == {MaxFailures, MaxConnections, MaxChanges} \subseteq Nat

VARIABLES
    svc,      \* the service
    policy,   \* the startup policy, which the configuration fixes
    left      \* how many failures, connections and changes are left

vars == <<svc, policy, left>>

Service ==
    [conn: BOOLEAN,                     \* m_state = CONNECTED
     teardown: BOOLEAN,                 \* m_aasdkTeardownInProgress
     config: Configs,                   \* m_channelConfig, and whether wireless is on
     reconnectAsked: BOOLEAN,           \* the configuration changed since the connection
     mode: {"h264", "jpeg", "webrtc"},  \* m_videoTransportMode
     rx: [Channel -> {"none", "void", "idle", "armed", "dead"}],
     handler: [Channel -> {"none", "own", "old"}],
     retry: SUBSET Channel,             \* handlers waiting 120 ms to arm again
     micTimer: BOOLEAN,                 \* a delayed arming of the microphone
     grace: BOOLEAN,                    \* the 200 ms no-device grace timer
     graceUsed: BOOLEAN,                \* m_postDiscoveryNoDeviceGraceRecoveryCount
     nonControlArmed: BOOLEAN,          \* m_nonControlReceivesArmed
     optionalArmed: BOOLEAN,            \* m_optionalChannelsArmed
     done: SUBSET Milestone,            \* the m_video..., m_mediaAudio..., m_control... flags
     announced: BOOLEAN,                \* projection_ready in the last status emitted
     watchdog: BOOLEAN,                 \* m_projectionIdleWatchdogTimer is active
     recovery: BOOLEAN,                 \* m_projectionIdleRecoveryScheduled
     recoveryTimer: BOOLEAN]            \* the 250 ms timer of the idle recovery

-----------------------------------------------------------------------------
(* Status, readiness and the watchdog.                                     *)

Reached(s, M) == M \subseteq s.done

IsReady(s) ==
    /\ s.conn
    /\ Reached(s, {"version", "discovery"})
    /\ "video" \in s.config =>
           Reached(s, {"videoOpened", "videoConfigured", "videoStarted", "videoFrame"})

Watchable(s) == s.conn /\ ~IsReady(s) /\ Reached(s, {"version", "discovery"})

\* mutant: a readiness once announced is not withdrawn
Publish_Latched(s) ==
    [s EXCEPT !.announced = @ \/ IsReady(s),
              !.watchdog = Watchable(s),
              !.recovery = @ /\ Watchable(s)]

\* publishProjectionStatus; stopping the watchdog clears the recovery flag.
Publish(s) ==
    [s EXCEPT !.announced = IsReady(s),
              !.watchdog = Watchable(s),
              !.recovery = @ /\ Watchable(s)]

Reach(s, m) == [s EXCEPT !.done = @ \cup {m}]
Lose(s, M) == [s EXCEPT !.done = @ \ M]

ResetProjection(s) ==
    Publish([s EXCEPT !.done = {}, !.recovery = FALSE, !.graceUsed = FALSE])

-----------------------------------------------------------------------------
(* Arming.                                                                 *)

\* channel->receive(handler) on each channel of C that has an object and a handler.
Receive(s, C) ==
    [s EXCEPT !.rx = [c \in Channel |->
        IF c \in C /\ @[c] \in {"idle", "armed", "dead"} /\ s.handler[c] # "none"
        THEN "armed" ELSE @[c]]]

\* A handler of input, sensor, microphone, bluetooth, wifi or control arms the
\* service's current channel, an audio handler the channel it captured, and the
\* video handler the channel it was made for, if that still exists.
FollowsService(c) == c \notin Audio \cup {"video"}
ArmsCurrent(s, c) == s.handler[c] = "own" \/ FollowsService(c)

\* armReceive of a handler; bluetooth and wifi do not look at the teardown flag.
ArmReceive(s, c) ==
    IF ArmsCurrent(s, c) /\ (s.teardown => c \in {"bluetooth", "wifiProjection"})
    THEN Receive(s, {c}) ELSE s

\* The microphone is armed at once or, with a delay configured, by a timer.
ArmMicrophone(s) ==
    IF policy.micDelay /\ s.rx["microphone"] # "none" /\ s.handler["microphone"] # "none"
    THEN [s EXCEPT !.micTimer = TRUE]
    ELSE Receive(s, {"microphone"})

ArmInitial == ~policy.deferToDiscovery /\ ~policy.deferToControl

ArmNonControlAfterControlReady(s) ==
    IF /\ ~policy.deferToDiscovery /\ policy.deferToControl
       /\ ~s.nonControlArmed /\ s.conn /\ "version" \in s.done
    THEN ArmMicrophone(Receive([s EXCEPT !.nonControlArmed = TRUE], NonControl \ {"microphone"}))
    ELSE s

PrimaryStarted(s) == s.done \cap {"videoStarted", "audioStarted"} # {}

ArmOptional(s) ==
    IF /\ ~s.optionalArmed /\ s.conn /\ "discovery" \in s.done
       /\ policy.earlyOptional \/ PrimaryStarted(s)
    THEN ArmMicrophone(Receive([s EXCEPT !.optionalArmed = TRUE], Optional \ {"microphone"}))
    ELSE s

\* mutant: discovery does not clear the flag of the optional channels
ArmDeferredAfterDiscovery_FlagKept(s) ==
    IF policy.deferToDiscovery THEN ArmOptional(Receive(s, {"video", "mediaAudio"})) ELSE s

ArmDeferredAfterDiscovery(s) ==
    IF policy.deferToDiscovery
    THEN ArmOptional(Receive([s EXCEPT !.optionalArmed = FALSE], {"video", "mediaAudio"}))
    ELSE s

RearmActiveReceives(s) ==
    IF s.teardown \/ ~s.conn THEN s
    ELSE Receive(s, IF "discovery" \in s.done THEN Channel ELSE Channel \ {"microphone"})

-----------------------------------------------------------------------------
(* The connection.                                                         *)

\* mutant: the mode gets a name that the enumeration does not have
FallBackFromWebRtc_UnknownMode(s) == Publish([s EXCEPT !.mode = "jpg"])

\* The bridge of the WebRTC mode fails to start, or fails later, and the
\* service falls back to JPEG frames.
FallBackFromWebRtc(s) == Publish([s EXCEPT !.mode = "jpeg"])

\* The objects of the enabled channels are replaced; others stay as they are.
NewChannels(s) ==
    [s EXCEPT !.rx = [c \in Channel |->
                          IF c \in s.config \cup {"control"} THEN "idle"
                          ELSE IF @[c] = "none" THEN "none" ELSE "void"],
              !.handler = [c \in Channel |-> IF @[c] = "own" THEN "old" ELSE @[c]],
              !.retry = {c \in @ : FollowsService(c)},
              !.teardown = FALSE]

SetupChannels(s) ==
    LET t == NewChannels(s)
    IN  IF s.mode = "webrtc" /\ "video" \in s.config THEN {t, FallBackFromWebRtc(t)} ELSE {t}

\* Handlers are made, and armed, only where there is none.
MakeHandlers(s) ==
    LET fresh == {c \in Channel : s.rx[c] # "none" /\ s.handler[c] = "none"}
        made == [s EXCEPT !.handler = [c \in Channel |-> IF c \in fresh THEN "own" ELSE @[c]],
                          !.nonControlArmed = FALSE]
        initial == Receive(made, (fresh \cap {"control"}) \cup
                       IF ArmInitial THEN fresh \ {"microphone"} ELSE {})
        microphone == IF ArmInitial /\ "microphone" \in fresh
                      THEN ArmMicrophone(initial) ELSE initial
    IN  IF policy.compat /\ ArmInitial
        THEN [microphone EXCEPT !.nonControlArmed = TRUE, !.optionalArmed = TRUE]
        ELSE microphone

Spend(what) ==
    /\ left[what] > 0
    /\ left' = [left EXCEPT ![what] = @ - 1]
    /\ UNCHANGED policy

\* A transport is there: the channels are set up and the connection established.
Established ==
    /\ ~svc.conn /\ Spend("connections")
    /\ \E t \in SetupChannels(svc) :
           svc' = Publish([MakeHandlers(ResetProjection(t)) EXCEPT
                               !.conn = TRUE, !.reconnectAsked = FALSE])

\* messenger->stop() takes the receives with it; objects and handlers stay.
DisconnectOf(s) ==
    ResetProjection([s EXCEPT !.conn = FALSE,
        !.rx = [c \in Channel |-> IF @[c] \in {"armed", "dead"} THEN "idle" ELSE @[c]]])

Disconnect ==
    /\ svc.conn
    /\ svc' = DisconnectOf(svc)
    /\ UNCHANGED <<policy, left>>

\* cleanupChannels; it does not reset the handler of the sensor channel.
CleanupChannels(s) ==
    ResetProjection([s EXCEPT !.teardown = TRUE,
        !.rx = [c \in Channel |-> "none"],
        !.handler = [c \in Channel |->
                        IF c = "sensor" /\ @[c] # "none" THEN "old" ELSE "none"]])

CleanUp ==
    /\ ~svc.conn
    /\ svc' = CleanupChannels(svc)
    /\ UNCHANGED <<policy, left>>

-----------------------------------------------------------------------------
(* Messages of the phone.  A message takes one receive; what the handler   *)
(* does with it ends, or does not, in arming the channel again.            *)

Taken(s, c) == [s EXCEPT !.rx[c] = "idle"]

Message(c) == svc.conn /\ svc.rx[c] = "armed" /\ UNCHANGED <<policy, left>>

\* The version response.  The phone answers only a request, and what follows it
\* up to service discovery is module ControlBringUp.
VersionResponse ==
    /\ Message("control")
    /\ "version" \notin svc.done
    /\ LET s == Publish(Reach(Taken(svc, "control"), "version"))
       IN  svc' = ArmReceive(ArmNonControlAfterControlReady(s), "control")

ServiceDiscovery ==
    /\ Message("control")
    /\ "version" \in svc.done
    /\ LET s == Publish(Reach(Taken(svc, "control"), "discovery"))
       IN  svc' = ArmReceive(ArmDeferredAfterDiscovery(s), "control")

\* The channels that the discovery response names: those with an object.
Offered(s) == {c \in NonControl : s.rx[c] # "none"}

\* Once it sees a channel in the discovery response, the phone may open it.
Conversation(c) == Message(c) /\ "discovery" \in svc.done /\ c \in Offered(svc)

\* mutant: the stop indication is not published
VideoStop_Unpublished(s) == Lose(s, {"videoStarted", "videoFrame"})

\* The video handler does nothing, not even arm, when its channel is gone, except
\* that start and stop set their flags.
VideoStart(s) == ArmOptional(Publish(Reach(s, "videoStarted")))
VideoStop(s) == Publish(Lose(s, {"videoStarted", "videoFrame"}))

\* onVideoChannelUpdate: with encoded frames the first picture is not published.
VideoFrame(s, vcl) ==
    IF "video" \notin s.config THEN s
    ELSE IF s.mode = "h264" THEN (IF vcl THEN Reach(s, "videoFrame") ELSE s)
    ELSE IF "videoFrame" \in s.done THEN s ELSE Publish(Reach(s, "videoFrame"))

VideoMessage ==
    /\ Conversation("video")
    /\ LET s == Taken(svc, "video")
           alive == svc.handler["video"] = "own"
       IN  \/ /\ alive
              /\ svc' = ArmReceive(Publish(Reach(s, "videoOpened")), "video")
           \/ /\ alive /\ "videoOpened" \in s.done
              /\ svc' = ArmReceive(Publish(Reach(s, "videoConfigured")), "video")
           \/ /\ "videoConfigured" \in s.done
              /\ svc' = ArmReceive(VideoStart(s), "video")
           \/ /\ "videoConfigured" \in s.done
              /\ svc' = ArmReceive(VideoStop(s), "video")
           \/ /\ alive /\ "videoConfigured" \in s.done
              /\ \E vcl \in BOOLEAN :
                     svc' = ArmReceive(VideoFrame(Reach(s, "payload"), vcl), "video")
           \/ /\ ~alive
              /\ svc' = s

\* onMediaAudioChannelUpdate; audio_enabled stays TRUE here.
MediaAudioFrame(s) ==
    IF "mediaAudio" \in s.config /\ "audioFrame" \notin s.done
    THEN Publish(Reach(s, "audioFrame")) ELSE s

\* Only the media audio channel has milestones.
AudioMessage(c) ==
    /\ Conversation(c)
    /\ LET s == Taken(svc, c)
       IN  \/ svc' = ArmReceive(s, c)
           \/ /\ c = "mediaAudio"
              /\ svc' = ArmReceive(Publish(Reach(s, "audioConfigured")), c)
           \/ /\ c = "mediaAudio" /\ "audioConfigured" \in s.done
              /\ svc' = ArmReceive(ArmOptional(Publish(Reach(s, "audioStarted"))), c)
           \/ /\ c = "mediaAudio" /\ "audioConfigured" \in s.done
              /\ svc' = ArmReceive(Publish(Lose(s, {"audioStarted", "audioFrame"})), c)
           \/ /\ c = "mediaAudio" => "audioConfigured" \in s.done
              /\ svc' = ArmReceive(IF c = "mediaAudio" THEN MediaAudioFrame(Reach(s, "payload"))
                                   ELSE Reach(s, "payload"), c)

ControlMessage == Message("control") /\ svc' = ArmReceive(Taken(svc, "control"), "control")
InputMessage == Conversation("input") /\ svc' = ArmReceive(Taken(svc, "input"), "input")
SensorMessage == Conversation("sensor") /\ svc' = ArmReceive(Taken(svc, "sensor"), "sensor")
MicrophoneMessage ==
    Conversation("microphone") /\ svc' = ArmReceive(Taken(svc, "microphone"), "microphone")
BluetoothMessage ==
    Conversation("bluetooth") /\ svc' = ArmReceive(Taken(svc, "bluetooth"), "bluetooth")
WifiMessage ==
    /\ Conversation("wifiProjection")
    /\ svc' = ArmReceive(Taken(svc, "wifiProjection"), "wifiProjection")

-----------------------------------------------------------------------------
(* Errors.                                                                 *)

\* onChannelError of the service, as far as it changes the channels.  kind is
\* recoverable, noDevice, fatal (a recovery follows), sslNoDevice or plain.
StreamBroken(s, c) ==
    Publish(CASE c = "video" -> Lose(s, {"videoStarted"})
              [] c = "mediaAudio" -> Lose(s, {"audioStarted"})
              [] OTHER -> s)

ServiceError(s, c, kind) ==
    IF s.teardown THEN {s} ELSE
    LET early == /\ c # "control" /\ s.conn
                 /\ s.done \cap {"version", "discovery"} = {}
        broken == StreamBroken(s, c)
        inGrace == /\ kind = "noDevice" /\ "discovery" \in broken.done
                   /\ ~PrimaryStarted(broken) /\ ~broken.graceUsed
        handled ==
            CASE kind = "recoverable" /\ s.conn -> RearmActiveReceives(s)
              [] inGrace ->
                     [broken EXCEPT !.grace = TRUE, !.graceUsed = TRUE]
              [] kind = "sslNoDevice" /\ broken.conn -> CleanupChannels(DisconnectOf(broken))
              [] kind \in {"noDevice", "fatal"} /\ ~inGrace /\ broken.conn -> DisconnectOf(broken)
              [] OTHER -> broken
    IN  IF early THEN {s, handled} ELSE {handled}

\* A receive of a handler fails.  Transient failures are retried by the handler.
ReceiveFails(c) ==
    /\ Spend("failures")
    /\ svc.rx[c] = "armed" /\ svc.conn
    /\ \/ svc' = [Taken(svc, c) EXCEPT !.retry = @ \cup {c}]
       \/ \E kind \in {"noDevice", "fatal", "sslNoDevice", "plain"} :
              svc' \in ServiceError([svc EXCEPT !.rx[c] = "dead"], c, kind)

\* A send on the channel fails: a response, an acknowledgement, a focus kick.
\* The receive that is outstanding stays.
SendFails(c) ==
    /\ Spend("failures")
    /\ svc.conn /\ svc.handler[c] # "none" /\ svc.rx[c] \notin {"none", "void"}
    /\ \/ svc' = [svc EXCEPT !.retry = @ \cup {c}]
       \/ \E kind \in {"noDevice", "fatal", "sslNoDevice", "plain"} :
              svc' \in ServiceError(svc, c, kind)

\* A focus nudge of the watchdog times out once too often.
NudgeFails ==
    /\ Spend("failures")
    /\ svc.conn /\ ~policy.compat /\ ~svc.recovery
    /\ svc' \in ServiceError(svc, "projectionWatchdog", "recoverable")

\* A touch or a key cannot be sent: the error goes past the handler.
InputSendFails ==
    /\ Spend("failures")
    /\ svc.conn /\ svc.rx["input"] \notin {"none", "void"}
    /\ \E kind \in {"recoverable", "noDevice", "sslNoDevice"} :
           svc' \in ServiceError(svc, "input", kind)

RetryOver(c) ==
    /\ c \in svc.retry
    /\ svc' = ArmReceive([svc EXCEPT !.retry = @ \ {c}], c)
    /\ UNCHANGED <<policy, left>>

GraceOver ==
    /\ svc.grace
    /\ svc' = LET s == [svc EXCEPT !.grace = FALSE]
                  inWindow == "discovery" \in s.done /\ ~PrimaryStarted(s)
              IN  IF s.conn
                  THEN Receive(s, (Channel \ {"bluetooth", "wifiProjection", "microphone"})
                                  \cup IF inWindow THEN {} ELSE {"microphone"})
                  ELSE s
    /\ UNCHANGED <<policy, left>>

\* The timers of the initial, the control-ready and the optional arming differ in
\* the milestone they ask for.
MicDelayOver ==
    /\ svc.micTimer
    /\ svc' = LET s == [svc EXCEPT !.micTimer = FALSE]
                  milestone == IF ~policy.deferToDiscovery /\ policy.deferToControl
                               THEN "version" ELSE "discovery"
              IN  IF s.conn /\ milestone \in s.done THEN Receive(s, {"microphone"}) ELSE s
    /\ UNCHANGED <<policy, left>>

-----------------------------------------------------------------------------
(* The idle watchdog.                                                      *)

\* A stream that has started but shows no frame is armed again.
RearmStreams(s) ==
    IF PrimaryStarted(s) /\ s.done \cap {"videoFrame", "audioFrame"} = {}
    THEN Receive(s, Audio \cup {"video"}) ELSE s

\* Its windows and attempts are left open: a reconnect may be due at any tick.
ReconnectMayBeDue(s) ==
    /\ ~policy.compat /\ ~s.recovery
    /\ s.done \cap {"videoFrame", "audioFrame", "payload"} = {}

WatchdogStops ==
    /\ svc.watchdog /\ ~Watchable(svc)
    /\ svc' = [svc EXCEPT !.watchdog = FALSE, !.recovery = FALSE]
    /\ UNCHANGED <<policy, left>>

WatchdogTick ==
    /\ svc.watchdog /\ Watchable(svc)
    /\ \/ svc' = RearmStreams(svc)
       \/ /\ ReconnectMayBeDue(svc)
          /\ svc' = [RearmStreams(svc) EXCEPT !.recovery = TRUE, !.recoveryTimer = TRUE]
    /\ UNCHANGED <<policy, left>>

IdleRecovery ==
    /\ svc.recoveryTimer
    /\ svc' = LET s == [svc EXCEPT !.recoveryTimer = FALSE]
              IN  IF s.conn THEN DisconnectOf(s) ELSE [s EXCEPT !.recovery = FALSE]
    /\ UNCHANGED <<policy, left>>

-----------------------------------------------------------------------------
(* Commands.                                                               *)

\* The configuration changes at once, the channels with the next connection, which
\* the service asks for by an error.
SetChannelConfig ==
    /\ Spend("changes")
    /\ \E config \in Configs :
           /\ config \cap {"wifiProjection"} = svc.config \cap {"wifiProjection"}
           /\ svc' = [svc EXCEPT !.config = config,
                                 !.reconnectAsked = @ \/ (svc.conn /\ config # svc.config)]

BridgeFails ==
    /\ svc.mode = "webrtc" /\ svc.conn
    /\ svc' = FallBackFromWebRtc(svc)
    /\ UNCHANGED <<policy, left>>

NewService ==
    [conn |-> FALSE, teardown |-> FALSE, reconnectAsked |-> FALSE,
     config |-> CHOOSE c \in Configs : TRUE, mode |-> "h264", rx |-> [c \in Channel |-> "none"],
     handler |-> [c \in Channel |-> "none"], retry |-> {}, micTimer |-> FALSE,
     grace |-> FALSE, graceUsed |-> FALSE, nonControlArmed |-> FALSE,
     optionalArmed |-> FALSE, done |-> {}, announced |-> FALSE, watchdog |-> FALSE,
     recovery |-> FALSE, recoveryTimer |-> FALSE]

Init ==
    /\ policy \in Policies
    /\ left = [failures |-> MaxFailures, connections |-> MaxConnections, changes |-> MaxChanges]
    /\ \E config \in Configs, mode \in Modes :
           svc = [NewService EXCEPT !.config = config, !.mode = mode]

PhoneMessage ==
    \/ VersionResponse \/ ServiceDiscovery \/ ControlMessage \/ VideoMessage
    \/ \E c \in Audio : AudioMessage(c)
    \/ InputMessage \/ SensorMessage \/ MicrophoneMessage \/ BluetoothMessage \/ WifiMessage

Failure == (\E c \in Channel : ReceiveFails(c) \/ SendFails(c)) \/ NudgeFails \/ InputSendFails

Timer ==
    \/ \E c \in Channel : RetryOver(c)
    \/ GraceOver \/ MicDelayOver \/ WatchdogStops \/ WatchdogTick \/ IdleRecovery

Next ==
    \/ Established \/ Disconnect \/ CleanUp \/ PhoneMessage \/ Failure \/ Timer
    \/ SetChannelConfig \/ BridgeFails

Spec == Init /\ [][Next]_vars

-----------------------------------------------------------------------------
(* Properties.                                                             *)

TypeOK ==
    /\ svc \in Service /\ policy \in Policies
    /\ left \in [{"failures", "connections", "changes"} -> Nat]

\* A connected service that has answered service discovery and is not ready is
\* watched: whichever handler took a milestone away started the watchdog again.
NotReadyIsWatched == Watchable(svc) /\ ~svc.reconnectAsked => svc.watchdog

\* projection_ready is never announced for a projection that is not ready.
AnnouncedIsReady == svc.announced /\ ~svc.reconnectAsked => IsReady(svc)

\* Readiness is announced when it is reached (projectionStatusChanged is "emitted
\* when projection channel readiness changes").
ReadinessAnnounced == svc.conn /\ ~svc.reconnectAsked => svc.announced = IsReady(svc)

\* The control channel, and from service discovery on every channel that its response
\* offered, is listened to.  Of a connection with its own handlers, none is left
\* without a receive, a retry or a reported failure, except optional ones that wait
\* for a stream to start, the microphone during its delay, and the microphone of a
\* service that defers nothing.
AdvertisedIsHeard ==
    svc.conn =>
        \A c \in {"control"} \cup IF "discovery" \in svc.done THEN Offered(svc) ELSE {} :
            svc.handler[c] = "own" /\ svc.rx[c] = "idle" =>
                \/ c \in svc.retry
                \/ c \in Optional /\ ~svc.optionalArmed /\ ~policy.earlyOptional
                       /\ ~PrimaryStarted(svc)
                \/ c = "microphone" /\ (svc.micTimer \/ ArmInitial)

=============================================================================
