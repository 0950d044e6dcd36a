-------------------------- MODULE AndroidAutoLink --------------------------
(***************************************************************************)
(* The connection life cycle of RealAndroidAutoService: searching for a    *)
(* phone, establishing and losing the connection, and the recoveries that  *)
(* channel errors and the projection idle watchdog start.                  *)
(*                                                                         *)
(* Everything runs on the Qt main thread: aasdk's io_service is polled     *)
(* from a QTimer, so a handler, a timer callback or a command is one step, *)
(* and what interleaves is the order in which they run.  Timers carry no   *)
(* time: a pending one may expire at any moment, in any order.             *)
(*                                                                         *)
(* `link' is the state of the one service instance.  Each function of the  *)
(* code is an operator from the record before the call to the record after *)
(* it (or to the set of records it may leave), and an action applies them  *)
(* in the order of the code.                                               *)
(*                                                                         *)
(*   state       m_state                                                   *)
(*   aasdk       m_ioService, m_usbWrapper and m_usbHub exist              *)
(*   teardown    m_aasdkTeardownInProgress                                 *)
(*   chan        the channel objects: "none", "live", or "stopped" once    *)
(*               disconnect() has stopped their messenger but kept them    *)
(*   handler     m_controlEventHandler exists                              *)
(*   armed       a receive is outstanding on the current control channel   *)
(*   others      a receive is outstanding on another channel               *)
(*   late        an operation on a messenger stopped or replaced since has *)
(*               not been reported yet                                     *)
(*   progress    the projection milestones reached                         *)
(*   graced      m_postDiscoveryNoDeviceGraceRecoveryCount is used up      *)
(*   gone        m_deviceGoneRecoveryScheduled                             *)
(*   idle        m_projectionIdleRecoveryScheduled                         *)
(*   hub         m_usbHubDetectionStarted: "idle" when false, "waiting" or  *)
(*               "reported" as the promise of this search is outstanding    *)
(*   polling     m_deviceDetectionTimer is active, or paused for an AOAP    *)
(*               query that restarts it                                     *)
(*   wrapper     m_tcpWrapper exists                                       *)
(*   accepting   an async_accept is outstanding on the wireless port       *)
(*   host        m_wirelessHost is not empty                               *)
(*   recoveries  m_controlTimeoutRecoveryCount, up to FullReinitAfter      *)
(*   timers      how many one-shot timers of each kind are pending         *)
(*   session     the session bookkeeping of SessionRecords                 *)
(***************************************************************************)
EXTENDS SessionRecords, Integers, Functions

CONSTANTS
  Transport,           \* "usb" or "tcp" (m_transportMode, m_wirelessEnabled)
  HotspotAutoStart,    \* m_wirelessHotspotAutoStart with a network manager
  DeferReceives,       \* receives of other channels wait for service discovery
  FullReinitOnTimeout, \* core.android_auto.control.full_reinit_on_timeout
  FullReinitAfter,     \* core.android_auto.control.timeout_full_reinit_after
  Commands,            \* the commands of the UI: launch, connect, disconnect
  MaxTimers            \* bound: one-shot timers pending at once

ASSUME TransportAssumption == Transport \in {"usb", "tcp"}
ASSUME SwitchAssumption ==
  /\ HotspotAutoStart \in BOOLEAN /\ DeferReceives \in BOOLEAN
  /\ FullReinitOnTimeout \in BOOLEAN /\ Commands \subseteq {"launch", "connect", "disconnect"}
ASSUME CountAssumption == FullReinitAfter \in Nat \ {0} /\ MaxTimers \in Nat

VARIABLES
  link,     \* the service instance
  orphans   \* history: sessions left open by a process that died

vars == <<link, orphans>>

\* AUTHENTICATING and SECURING are declared by the code and never entered.
ConnectionState ==
  {"DISCONNECTED", "SEARCHING", "CONNECTING", "CONNECTED", "DISCONNECTING", "ERROR"}

\* After discovery: whether a stream is started and whether a payload was ever
\* seen ("started": only the one, "stalled": only the other, "partial": both),
\* and "playing" once the video is ready.
Progress == {"none", "version", "discovery", "started", "stalled", "partial", "playing"}

\* The one-shot timers: the startup detection delay; a handler's delay before it
\* arms its channel again; the no-device grace; the
\* reconnect delay after a channel error (after a version or handshake timeout:
\* timeoutReconnect) and the two re-initialisation delays it leads to; the
\* delay of the immediate recovery; the three of the idle recovery.
Kind == {"startup", "rearm", "grace", "reconnect", "timeoutReconnect", "fullReinit",
         "softReinit", "immediate", "idleBegin", "idleCleanup", "idleReinit"}

Link ==
  [state : ConnectionState, aasdk : BOOLEAN, teardown : BOOLEAN,
   chan : {"none", "live", "stopped"}, handler : BOOLEAN, armed : BOOLEAN,
   others : BOOLEAN, late : BOOLEAN, progress : Progress, graced : BOOLEAN, gone : BOOLEAN,
   idle : BOOLEAN, hub : {"idle", "waiting", "reported"},
   polling : BOOLEAN, wrapper : BOOLEAN, accepting : BOOLEAN,
   host : BOOLEAN, recoveries : 0..FullReinitAfter, timers : [Kind -> Nat],
   session : Bookkeeping]

-----------------------------------------------------------------------------
(* State changes every handler is built from *)

Start(l, k) == [l EXCEPT !.timers[k] = @ + 1]

Expired(l, k) == [l EXCEPT !.timers[k] = @ - 1]

\* The idle watchdog runs only while a connected phone that has completed
\* discovery is not yet projecting.
Watchable(l) ==
  l.state = "CONNECTED" /\ l.progress \in {"discovery", "started", "stalled", "partial"}

\* Publishing the projection status stops a watchdog that no longer applies.
Publish(l) == [l EXCEPT !.idle = @ /\ Watchable(l)]

ResetProjection(l) == [l EXCEPT !.progress = "none", !.graced = FALSE, !.idle = FALSE]

Transition(l, to) ==
  IF l.state = to THEN l
  ELSE [Publish([l EXCEPT !.state = to]) EXCEPT !.session = OnConnectionState(@, to)]

\* Receives of channel objects that are stopped or dropped may still report.
ReceivesDetached(l) ==
  [l EXCEPT !.late = @ \/ l.armed \/ l.others, !.armed = FALSE, !.others = FALSE]

StopMessenger(l) ==
  [ReceivesDetached(l) EXCEPT !.chan = IF @ = "live" THEN "stopped" ELSE @]

Disconnect(l) ==
  IF l.state \notin {"CONNECTED", "CONNECTING"} THEN l
  ELSE Transition(ResetProjection(StopMessenger(Transition(l, "DISCONNECTING"))),
                  "DISCONNECTED")

CleanupChannels(l) ==
  ResetProjection([ReceivesDetached(l) EXCEPT !.teardown = TRUE, !.chan = "none",
                                              !.handler = FALSE, !.wrapper = FALSE])

\* The io_service goes away with every operation still outstanding on it.
CleanupAASDK(l) ==
  [CleanupChannels(l) EXCEPT !.aasdk = FALSE, !.polling = FALSE,
                             !.hub = IF @ = "waiting" THEN "reported" ELSE @,
                             !.late = FALSE, !.accepting = FALSE]

\* A new io_service replaces the one that live channels were running on.
SetupAASDK(l, ok) ==
  [StopMessenger(l) EXCEPT !.teardown = FALSE, !.aasdk = @ \/ ok,
                           !.late = FALSE, !.accepting = FALSE]

\* The timer is stopped, the hub cancelled and its flag cleared.
StopDetection(l) == [l EXCEPT !.hub = "idle", !.polling = FALSE]

\* setupChannels and setupChannelsWithTransport; an exception only reports.
SetupChannels_KeepsTeardown(l, ok) ==   \* mutant: the flag is never cleared
  IF ok THEN [ReceivesDetached(l) EXCEPT !.chan = "live"] ELSE l

SetupChannels(l, ok) ==
  IF ok THEN [ReceivesDetached(l) EXCEPT !.chan = "live", !.teardown = FALSE] ELSE l

\* A channel is armed on connect only when its handler has to be created.
ArmControl(l) ==
  IF l.chan = "none" \/ l.handler THEN l
  ELSE [l EXCEPT !.handler = TRUE, !.armed = (l.chan = "live"),
                 !.others = (l.chan = "live" /\ ~DeferReceives)]

\* handleConnectionEstablished
Established(l) ==
  LET ready == [ArmControl(ResetProjection(l)) EXCEPT !.gone = FALSE]
  IN  {Transition([ready EXCEPT !.session = b], "CONNECTED") : b \in SessionsOpened(l.session)}

EstablishedOver(l) == UNION {Established(SetupChannels(l, ok)) : ok \in BOOLEAN}

-----------------------------------------------------------------------------
(* startSearching *)

ListenForPhone(l) ==
  LET tried == [l EXCEPT !.wrapper = @ \/ l.aasdk]
  IN  {Transition(tried, "DISCONNECTED")} \union
      {Transition([tried EXCEPT !.accepting = TRUE], "SEARCHING") :
         x \in {n \in {l.aasdk} : n /\ ~l.accepting}}

ConnectToHost(l) ==
  LET tried == [l EXCEPT !.wrapper = @ \/ l.aasdk]
  IN  {Transition(tried, "DISCONNECTED")} \union
      (IF l.aasdk THEN EstablishedOver(tried) ELSE {})

SearchWireless(l) ==
  LET hosts == IF HotspotAutoStart THEN {l.host, TRUE} ELSE {l.host}
      From(h) == Transition([l EXCEPT !.host = h], "CONNECTING")
  IN  UNION {IF h THEN ConnectToHost(From(h)) ELSE ListenForPhone(From(h)) : h \in hosts}

StartSearching_NoStartup(l) ==   \* mutant: detection is never scheduled
  LET cleared == ResetProjection([l EXCEPT !.gone = FALSE])
  IN  IF cleared.state # "DISCONNECTED" THEN {cleared}
      ELSE {Transition([cleared EXCEPT !.hub = "idle"], "SEARCHING")}

\* The recovery flag and the milestones are cleared before the guards.
StartSearching(l) ==
  LET cleared == ResetProjection([l EXCEPT !.gone = FALSE])
  IN  IF cleared.state # "DISCONNECTED" THEN {cleared}
      ELSE IF Transport = "tcp" THEN SearchWireless(cleared)
      ELSE {Start(Transition([cleared EXCEPT !.hub = "idle"], "SEARCHING"), "startup")}

\* stopSearching, disconnect and cleanup, in the order of deinitialise.
Deinitialised(l) ==
  LET idle == IF l.state = "SEARCHING"
              THEN Transition(ResetProjection(StopDetection(l)), "DISCONNECTED")
              ELSE l
      apart == IF idle.state = "CONNECTED" THEN Disconnect(idle) ELSE idle
  IN  Transition(CleanupAASDK(apart), "DISCONNECTED")

\* A service constructed and initialised over the session store b leaves.
NewLink(b, host) ==
  [state |-> "DISCONNECTED", aasdk |-> TRUE, teardown |-> FALSE, chan |-> "none",
   handler |-> FALSE, armed |-> FALSE, others |-> FALSE, late |-> FALSE, progress |-> "none",
   graced |-> FALSE, gone |-> FALSE, idle |-> FALSE, hub |-> "idle", polling |-> FALSE,
   wrapper |-> FALSE, accepting |-> FALSE, host |-> host, recoveries |-> 0,
   timers |-> [k \in Kind |-> 0], session |-> NewBookkeeping(b)]

\* ServiceManager starts a search as soon as the service is initialised; a
\* fixed host is only configured for the wireless transport.
Started(b) ==
  UNION {StartSearching(NewLink(b, h)) : h \in IF Transport = "tcp" THEN BOOLEAN ELSE {FALSE}}

Init ==
  /\ link \in Started(EmptyStore)
  /\ orphans = {}

\* One step of the instance, within the bound on pending timers.
Becomes(results) ==
  /\ link' \in {l \in results : SumFunction(l.timers) <= MaxTimers}
  /\ UNCHANGED orphans

-----------------------------------------------------------------------------
(* Detection and the incoming connection *)

Expiring(k) == link.timers[k] > 0

StartupDelayOver ==
  /\ Expiring("startup")
  /\ LET l == Expired(link, "startup")
     IN  Becomes({IF l.state # "SEARCHING" THEN l
                  ELSE IF ~l.aasdk THEN Transition(l, "DISCONNECTED")
                  ELSE IF l.hub # "idle" THEN l
                  ELSE [l EXCEPT !.hub = "waiting", !.polling = TRUE]})

\* A phone in accessory mode is attached: the channels are built on it.
Attached(l) == EstablishedOver(Transition([l EXCEPT !.polling = FALSE], "CONNECTING"))

HubReported_AnyState ==   \* mutant: a late promise is not checked
  /\ link.aasdk /\ link.hub = "waiting"
  /\ LET l == [link EXCEPT !.hub = "reported"]
     IN  Becomes({[l EXCEPT !.polling = TRUE]} \union Attached(l))

\* The hub hands over a device; one it cannot attach is left to the scans.
HubReported ==
  /\ link.state = "SEARCHING" /\ link.aasdk /\ link.hub = "waiting"
  /\ LET l == [link EXCEPT !.hub = "reported"]
     IN  Becomes({[l EXCEPT !.polling = TRUE]} \union Attached(l))

\* A scan finds the phone; opening it succeeds, or the attempt fails with the
\* detection timer already stopped.
ScanFoundDevice ==
  /\ link.state = "SEARCHING" /\ link.aasdk /\ link.polling
  /\ Becomes({[link EXCEPT !.polling = FALSE]} \union Attached(link))

\* The accept callback has no guard on the state it finds.
PhoneAccepted ==
  /\ link.accepting /\ link.wrapper
  /\ Becomes(EstablishedOver([link EXCEPT !.accepting = FALSE]))

AcceptFailed ==
  /\ link.accepting
  /\ Becomes({Transition([link EXCEPT !.accepting = FALSE], "DISCONNECTED")})

-----------------------------------------------------------------------------
(* Messages of a live connection *)

ControlMessage == link.chan = "live" /\ link.armed

Bump_NoCap(n) == n + 1   \* mutant

Bump(n) == IF n < FullReinitAfter THEN n + 1 ELSE n

\* The requests are repeated, so a response may follow an earlier one.
VersionReceived ==
  Publish([link EXCEPT !.progress = IF @ = "none" THEN "version" ELSE @, !.recoveries = 0])

VersionAccepted == ControlMessage /\ Becomes({VersionReceived})

\* No compatible version: the error is reported and the state becomes ERROR.
VersionRejected ==
  ControlMessage /\ Becomes({Transition([VersionReceived EXCEPT !.armed = FALSE], "ERROR")})

ServiceDiscovery ==
  /\ ControlMessage /\ link.progress # "none"
  /\ Becomes({Publish([link EXCEPT !.progress = IF @ = "version" THEN "discovery" ELSE @,
                                   !.recoveries = 0, !.others = @ \/ DeferReceives])})

\* What a start indication or a first frame makes of the milestones.
Advanced(p) ==
  CASE p = "discovery" -> {"started", "stalled"}
    [] p \in {"started", "stalled"} -> {"partial", "playing"}
    [] p = "partial" -> {"playing"}
    [] OTHER -> {p}

\* A stop indication or an error of a media channel clears the flags of one of
\* the two streams.
Stopped(p) ==
  CASE p = "started" -> {"discovery", "started"}
    [] p = "partial" -> {"stalled", "partial"}
    [] p = "playing" -> {"stalled", "partial", "playing"}
    [] OTHER -> {p}

MediaMessage == link.chan = "live" /\ link.others

MediaProgress ==
  /\ MediaMessage
  /\ Becomes({Publish([link EXCEPT !.progress = p]) : p \in Advanced(link.progress)})

MediaStopped ==
  /\ MediaMessage
  /\ Becomes({Publish([link EXCEPT !.progress = p]) : p \in Stopped(link.progress)})

\* handleConnectionLost: the receive is not armed again.
ByeBye ==
  /\ ControlMessage
  /\ LET l == ResetProjection([link EXCEPT !.armed = FALSE])
     IN  Becomes({IF l.state = "CONNECTED" THEN Disconnect(l) ELSE l})

-----------------------------------------------------------------------------
(* Channel errors *)

Channel == {"control", "media", "other"}

\* Libusb transfer errors 1 and -4 (or intertwined channels), 2, 5; native code 5
\* of another layer and of the SSL wrapper; the two control timeouts;
\* OPERATION_ABORTED; OPERATION_IN_PROGRESS; the rest.
ErrorKind == {"usbTransient", "usbTimeout", "usbGone", "linkGone", "sslGone",
              "versionTimeout", "handshakeTimeout", "aborted", "inProgress", "unknown"}

Recoverable == {"usbTransient", "usbTimeout", "usbGone"}

NoDevice == {"usbGone", "linkGone", "sslGone"}

ControlTimeout == {"versionTimeout", "handshakeTimeout"}

Fatal == NoDevice \union ControlTimeout \union {"usbTimeout", "aborted"}

\* Every channel that has a handler is armed.
Armed(l) ==
  IF ~l.handler THEN l ELSE [l EXCEPT !.armed = (l.chan = "live"), !.others = (l.chan = "live")]

\* rearmActiveReceives
Rearmed(l) == IF l.teardown \/ l.state # "CONNECTED" THEN l ELSE Armed(l)

ErrorSeen(l, ch) ==
  {Publish([l EXCEPT !.progress = p]) :
     p \in IF ch = "media" THEN Stopped(l.progress) ELSE {l.progress}}

\* performImmediateTransportRecovery
ImmediateRecovery(l) ==
  LET begun == [StopDetection(l) EXCEPT !.gone = TRUE, !.recoveries = Bump(@)]
  IN  IF l.gone THEN l
      ELSE Start(Transition(CleanupChannels(Disconnect(begun)), "DISCONNECTED"), "immediate")

ScheduledRecovery(l, kind) ==
  IF l.gone THEN l
  ELSE Start(Disconnect([l EXCEPT !.gone = TRUE]),
             IF kind \in ControlTimeout THEN "timeoutReconnect" ELSE "reconnect")

InGrace(l, kind) ==
  kind \in NoDevice /\ l.progress \in {"discovery", "stalled"} /\ ~l.graced /\ ~l.gone

\* What follows an error that is not ignored.
Recovered(l, kind) ==
  IF InGrace(l, kind) THEN Start([l EXCEPT !.graced = TRUE], "grace")
  ELSE IF kind = "sslGone" THEN ImmediateRecovery(l)
  ELSE IF kind \in Fatal THEN ScheduledRecovery(l, kind)
  ELSE l

\* The first errors of other channels are ignored before the handshake.
PreHandshake(l, ch) == ch # "control" /\ l.state = "CONNECTED" /\ l.progress = "none"

ChannelError_InTeardown(l, ch, kind) ==   \* mutant: no teardown check
  IF kind \in Recoverable /\ l.state = "CONNECTED" THEN {Rearmed(l)}
  ELSE {Recovered(seen, kind) : seen \in ErrorSeen(l, ch)}

\* onChannelError
ChannelError(l, ch, kind) ==
  IF l.teardown THEN {l}
  ELSE {i \in {l} : PreHandshake(i, ch)} \union
       (IF kind \in Recoverable /\ l.state = "CONNECTED" THEN {Rearmed(l)}
        ELSE {Recovered(seen, kind) : seen \in ErrorSeen(l, ch)})

\* An event handler keeps transient errors to itself and arms its channel again
\* after a delay.
HandlerError(l, ch, kind) ==
  IF l.teardown \/ kind = "inProgress" THEN {l}
  ELSE IF kind \in Recoverable THEN {Start(l, "rearm")}
  ELSE ChannelError(l, ch, kind)

\* The error may have consumed a receive of its channel.
LiveChannelError ==
  /\ link.chan = "live"
  /\ \E ch \in Channel, kind \in ErrorKind \ ControlTimeout :
       /\ IF ch = "control" THEN link.armed ELSE link.others
       /\ \E armed \in {link.armed, link.armed /\ ch # "control"},
             others \in {link.others, link.others /\ ch = "control"} :
            Becomes(HandlerError([link EXCEPT !.armed = armed, !.others = others], ch, kind))

\* The service reports some errors itself: of a version request, of the wait for
\* the handshake, and of an input report or of a nudge by the idle watchdog.
SendFailed ==
  /\ link.chan = "live"
  /\ \/ /\ link.handler /\ link.progress = "none"
        /\ \E kind \in ErrorKind \ {"handshakeTimeout", "inProgress"} :
             Becomes(ChannelError(link, "control", kind))
     \/ /\ link.progress = "version" /\ link.state \in {"CONNECTED", "CONNECTING"}
        /\ Becomes(ChannelError(link, "control", "handshakeTimeout"))
     \/ /\ link.state = "CONNECTED"
        /\ \E kind \in NoDevice : Becomes(ChannelError(link, "other", kind))
     \/ /\ Watchable(link) /\ link.progress = "discovery" /\ ~link.gone /\ ~link.idle
        /\ Becomes(ChannelError(link, "other", "usbTimeout"))

\* An operation left on an earlier messenger reports at last, to its handler or
\* to the service.
LateChannelError ==
  /\ link.late
  /\ \E ch \in Channel, kind \in {"usbGone", "linkGone", "aborted", "unknown"} :
       LET l == [link EXCEPT !.late = FALSE]
       IN  Becomes(HandlerError(l, ch, kind)) \/ Becomes(ChannelError(l, ch, kind))

-----------------------------------------------------------------------------
(* Recovery timers *)

\* A handler arms its channel again: control arms the channel there is now, the
\* others the one they were made for, if it still exists.
RearmDelayOver ==
  /\ Expiring("rearm")
  /\ LET l == Expired(link, "rearm")
         arms == ~l.teardown /\ l.chan = "live"
     IN  Becomes({l, [l EXCEPT !.armed = @ \/ arms], [l EXCEPT !.others = @ \/ arms]})

GraceOver ==
  /\ Expiring("grace")
  /\ LET l == Expired(link, "grace")
     IN  Becomes({IF l.state = "CONNECTED" THEN Armed(l) ELSE l})

ReconnectDelayOver_SearchingFirst ==   \* mutant: the flag is cleared too late
  /\ Expiring("reconnect")
  /\ LET l == Expired(link, "reconnect")
     IN  Becomes(IF l.state = "SEARCHING" THEN {l}
                 ELSE StartSearching(Disconnect([l EXCEPT !.gone = FALSE])))

ReconnectDelayOver ==
  /\ Expiring("reconnect")
  /\ LET l == [Expired(link, "reconnect") EXCEPT !.gone = FALSE]
     IN  Becomes(IF l.state = "SEARCHING" THEN {l} ELSE StartSearching(Disconnect(l)))

\* The connection state is left as it is found: nothing is disconnected.
TimeoutReconnectDelayOver ==
  /\ Expiring("timeoutReconnect")
  /\ LET l == [Expired(link, "timeoutReconnect") EXCEPT !.gone = FALSE]
         stopped == [StopDetection(l) EXCEPT !.recoveries = Bump(@)]
     IN  Becomes({IF l.state = "SEARCHING" THEN l
                  ELSE IF FullReinitOnTimeout \/ stopped.recoveries = FullReinitAfter
                  THEN Start(CleanupAASDK(stopped), "fullReinit")
                  ELSE Start(CleanupChannels(stopped), "softReinit")})

\* The stack is set up again and the search restarted, or libusb fails.
Reinitialised(l) ==
  StartSearching(SetupAASDK(l, TRUE)) \union {Transition(SetupAASDK(l, FALSE), "ERROR")}

FullReinitDelayOver ==
  /\ Expiring("fullReinit")
  /\ LET l == Expired(link, "fullReinit")
     IN  Becomes(IF l.state = "SEARCHING" THEN {l} ELSE Reinitialised(l))

SoftReinitDelayOver_NoSearch ==   \* mutant: the search is not restarted
  Expiring("softReinit") /\ Becomes({Expired(link, "softReinit")})

SoftReinitDelayOver ==
  /\ Expiring("softReinit")
  /\ LET l == Expired(link, "softReinit")
     IN  Becomes(IF l.state = "SEARCHING" THEN {l} ELSE StartSearching(l))

ImmediateDelayOver ==
  /\ Expiring("immediate")
  /\ Becomes(StartSearching(Expired(link, "immediate")))

\* The watchdog has seen no media for too long.
IdleRecoveryDue ==
  /\ Watchable(link) /\ link.progress \in {"discovery", "started"} /\ ~link.idle
  /\ Becomes({Start([link EXCEPT !.idle = TRUE], "idleBegin")})

IdleDisconnect ==
  /\ Expiring("idleBegin")
  /\ LET l == Expired(link, "idleBegin")
     IN  Becomes({IF l.state # "CONNECTED" THEN [l EXCEPT !.idle = FALSE]
                  ELSE Start(Disconnect([l EXCEPT !.gone = TRUE]), "idleCleanup")})

IdleOver(l) == [l EXCEPT !.idle = FALSE, !.gone = FALSE]

IdleCleanup_KeepsFlags ==   \* mutant: the early exit forgets the flags
  /\ Expiring("idleCleanup")
  /\ LET l == Expired(link, "idleCleanup")
     IN  Becomes({IF l.state # "DISCONNECTED" THEN l
                  ELSE Start(CleanupAASDK(StopDetection(l)), "idleReinit")})

IdleCleanup ==
  /\ Expiring("idleCleanup")
  /\ LET l == Expired(link, "idleCleanup")
     IN  Becomes({IF l.state # "DISCONNECTED" THEN IdleOver(l)
                  ELSE Start(CleanupAASDK(StopDetection(l)), "idleReinit")})

IdleRestart_KeepsFlags ==   \* mutant
  /\ Expiring("idleReinit")
  /\ LET l == Expired(link, "idleReinit")
     IN  Becomes(IF l.state = "SEARCHING" THEN {l} ELSE Reinitialised(l))

IdleRestart ==
  /\ Expiring("idleReinit")
  /\ LET l == Expired(link, "idleReinit")
     IN  Becomes(IF l.state = "SEARCHING" THEN {IdleOver(l)}
                 ELSE {IdleOver(r) : r \in Reinitialised(l)})

-----------------------------------------------------------------------------
(* Commands, restarts, crashes *)

\* android-auto/launch, and the relaunch that follows a renegotiation.
Launch == "launch" \in Commands /\ Becomes(StartSearching(link))

\* connectToDevice has no guard on the state it finds.
ConnectToDevice == "connect" \in Commands /\ Becomes({Transition(link, "CONNECTING")})

DisconnectCommand ==
  /\ "disconnect" \in Commands
  /\ link.state \in {"CONNECTED", "CONNECTING"}
  /\ Becomes({Disconnect(link)})

\* ServiceManager stops the service and starts a new one; stopSearching
\* dereferences the hub, so a searching service must still have one.
Restart ==
  /\ link.state = "SEARCHING" => link.aasdk
  /\ Becomes(Started(Deinitialised(link).session))

\* The process dies, and is started again over the same database.
Crash ==
  /\ link' \in Started(link.session)
  /\ orphans' = orphans \union {s \in Sid : link.session.rows[s] \in OpenRow}

\* The database starts or stops refusing statements (a full disk, a lock).
StoreChanges ==
  \E refused \in Refusals : Becomes({[link EXCEPT !.session.failing = refused]})

Detection ==
  StartupDelayOver \/ HubReported \/ ScanFoundDevice \/ PhoneAccepted \/ AcceptFailed

Conversation ==
  \/ VersionAccepted \/ VersionRejected \/ ServiceDiscovery \/ MediaProgress
  \/ MediaStopped \/ ByeBye \/ LiveChannelError \/ SendFailed \/ LateChannelError
  \/ IdleRecoveryDue

RecoveryTimer ==
  \/ RearmDelayOver \/ GraceOver \/ ReconnectDelayOver \/ TimeoutReconnectDelayOver
  \/ FullReinitDelayOver \/ SoftReinitDelayOver \/ ImmediateDelayOver
  \/ IdleDisconnect \/ IdleCleanup \/ IdleRestart

Next ==
  \/ Detection \/ Conversation \/ RecoveryTimer
  \/ Launch \/ ConnectToDevice \/ DisconnectCommand \/ Restart \/ Crash \/ StoreChanges

\* The event loop expires every timer it was given; what the phone, the user
\* and the operating system do is never assumed.
TimersExpire ==
  /\ WF_vars(StartupDelayOver) /\ WF_vars(RearmDelayOver) /\ WF_vars(GraceOver)
  /\ WF_vars(ReconnectDelayOver) /\ WF_vars(TimeoutReconnectDelayOver)
  /\ WF_vars(FullReinitDelayOver) /\ WF_vars(SoftReinitDelayOver)
  /\ WF_vars(ImmediateDelayOver) /\ WF_vars(IdleDisconnect)
  /\ WF_vars(IdleCleanup) /\ WF_vars(IdleRestart)

Spec == Init /\ [][Next]_vars

FairSpec == Spec /\ TimersExpire

-----------------------------------------------------------------------------
(* Properties *)

Pending(ks) == \E k \in ks : link.timers[k] > 0

\* Type invariant.
TypeOK == link \in Link /\ orphans \subseteq Sid

\* The session follows the connection: a connected phone has an open session,
\* active and heartbeating, whose row says so (if its INSERT worked) or, when its
\* UPDATE was refused, still negotiating; a service that is not connected or
\* connecting has none.
SessionMirrorsConnection ==
  LET b == link.session
  IN  /\ link.state = "CONNECTED" =>
           /\ b.state = "active" /\ b.beat
           /\ StoreOpen =>
                /\ b.id \in Sid
                /\ \/ b.rows[b.id] \in {"active", "missing"}
                   \/ b.rows[b.id] = "negotiating" /\ b.id \in b.stale
      /\ link.state \in {"DISCONNECTED", "SEARCHING", "ERROR"} => b.id = NoSession /\ ~b.beat

\* The session store shows no second live session but by a failure: an open row
\* is the current session's, or was left open by a process that died or by a
\* refused UPDATE.
OneOpenSession ==
  \A s \in Sid : link.session.rows[s] \in OpenRow =>
    s = link.session.id \/ s \in orphans \union link.session.stale

\* A recovery flag that blocks further recoveries is backed by the timer that
\* will clear it.
RecoveryFlagBacked ==
  /\ link.gone => Pending({"reconnect", "timeoutReconnect", "immediate", "idleCleanup", "idleReinit"})
  /\ link.idle => Pending({"idleBegin"})

\* While errors are ignored as fallout of a teardown there is no channel left
\* that could report one.
TeardownHasNoChannel ==
  link.teardown => link.chan = "none" /\ ~link.handler /\ ~link.armed /\ ~link.others

\* A session that has ended stays ended: no late state update revives its row.
EndedStaysEnded ==
  [][\A s \in Sid : link.session.rows[s] = "ended" => link'.session.rows[s] = "ended"]_vars

\* Over USB nothing connects a service that is at rest: a phone is only
\* attached by a search that somebody started.
NoUnannouncedConnection ==
  [][link.state \in {"DISCONNECTED", "ERROR"} => link'.state # "CONNECTED"]_vars

\* While a recovery that has torn the channels down waits for its timer, no
\* error of the dead connection starts another one.
NoRecoveryDuringTeardown ==
  [][link.teardown /\ link.timers.reconnect + link.timers.timeoutReconnect = 0
       => link'.timers.reconnect + link'.timers.timeoutReconnect = 0]_vars

\* A recovery that was started ends: the flag that blocks the next one clears.
RecoveryEnds == link.gone ~> ~link.gone

\* A service that a recovery has taken to DISCONNECTED is back in a search, or in
\* ERROR, when the chain of that recovery's timers is through.
RecoverySearches ==
  (link.state = "DISCONNECTED" /\ Pending(Kind \ {"startup", "rearm", "grace", "idleBegin"})) ~>
    link.state \in {"SEARCHING", "ERROR"}

\* Every search over USB gets as far as detection.
SearchDetects ==
  (link.state = "SEARCHING" /\ link.hub = "idle") ~> (link.hub # "idle" \/ link.state # "SEARCHING")

\* Connecting arms the control receive, as handleConnectionEstablished says it
\* does ("Arm control receive once on connect").
ArmedOnConnect ==
  [][link.state # "CONNECTED" /\ link'.state = "CONNECTED" /\ link'.chan = "live"
       => link'.armed]_vars

\* Over any transport, a connected phone's session is ACTIVE ("Connection
\* established and projecting") and keeps its heartbeat.
ConnectedSessionActive ==
  link.state = "CONNECTED" /\ link.session.id # NoSession =>
    link.session.beat /\ link.session.rows[link.session.id] \in {"active", "missing"}

\* The sessions of the ledger, read off the rows; one whose INSERT was refused
\* has no row, and is open while it is the current one.
LedgerStatus ==
  [s \in Sid |-> CASE link.session.rows[s] = "fresh" -> "unused"
                   [] link.session.rows[s] = "ended" -> "closed"
                   [] OTHER -> IF s = link.session.id THEN "open"
                               ELSE IF link.session.rows[s] = "missing" THEN "closed" ELSE "lost"]

Ledger == INSTANCE SessionLedger WITH
            None <- NoSession, status <- LedgerStatus, current <- link.session.id

\* The bookkeeping implements the ledger.
ImplementsLedger == Ledger!Spec
=============================================================================
