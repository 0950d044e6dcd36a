--------------------------- MODULE ControlBringUp ---------------------------
(***************************************************************************)
(* Bringing up the control channel of RealAndroidAutoService: the requests *)
(* for the protocol version and their retries, and the watchdog of the TLS *)
(* handshake that follows.  The connection itself is reduced to what these *)
(* read of it: it may be established, lost, torn down or fail at any       *)
(* moment (AndroidAutoLink says when it does).                             *)
(*                                                                         *)
(* The handshake epoch only grows and is only compared for equality, so a  *)
(* watchdog is `current' until the epoch passes it, and never again.       *)
(*                                                                         *)
(*   state      m_state (SEARCHING counts as DISCONNECTED)                 *)
(*   chan       m_controlChannel: "none", "live", or "stopped" once its    *)
(*              messenger was stopped                                      *)
(*   handler    m_controlEventHandler exists                               *)
(*   armed      a receive is outstanding on the channel                    *)
(*   version    m_controlVersionReceived                                   *)
(*   discovery  m_serviceDiscoveryCompleted                                *)
(*   attempts   m_controlVersionRequestAttempts, up to MaxAttempts         *)
(*   native2    m_controlSendNative2ConsecutiveTimeouts, up to Threshold   *)
(*   delays     initial request delays pending                             *)
(*   retries    request retry delays pending                               *)
(*   sends      version requests whose send is not complete                *)
(*   lateSends  those made on a channel stopped or replaced since          *)
(*   unanswered version requests the phone has and did not answer yet      *)
(*   awaiting   m_controlHandshakeAwaitingActivation                       *)
(*   retried    m_controlHandshakeActivationRetryCount                     *)
(*   dogs       the pending watchdog timers; `own' is history: the wait it  *)
(*              was started for is not over                                *)
(***************************************************************************)
EXTENDS Naturals

CONSTANTS
  MaxAttempts,  \* core.android_auto.control.version_request_max_attempts
  Threshold,    \* ...control.fast_reconnect_on_send_timeout_native2_threshold
  MaxRetries,   \* ...control.handshake_activation_retries
  MaxPending    \* bound: requests and their timers pending at once

ASSUME CountAssumption ==
  /\ MaxAttempts \in Nat \ {0} /\ Threshold \in Nat \ {0}
  /\ MaxRetries \in Nat /\ MaxPending \in Nat

VARIABLE control

vars == <<control>>

State == {"DISCONNECTED", "CONNECTING", "CONNECTED", "ERROR"}

\* A watchdog is the first of its wait, or the last one after a retry.
Watchdog == [current : BOOLEAN, last : BOOLEAN, own : BOOLEAN]

Control ==
  [state : State, chan : {"none", "live", "stopped"}, handler : BOOLEAN, armed : BOOLEAN,
   version : BOOLEAN, discovery : BOOLEAN, attempts : 0..MaxAttempts, native2 : 0..Threshold,
   delays : Nat, retries : Nat, sends : Nat, lateSends : Nat, unanswered : Nat,
   awaiting : BOOLEAN, retried : Nat, dogs : SUBSET Watchdog]

\* A service that was just initialised.
Fresh ==
  [state |-> "DISCONNECTED", chan |-> "none", handler |-> FALSE, armed |-> FALSE,
   version |-> FALSE, discovery |-> FALSE, attempts |-> 0, native2 |-> 0, delays |-> 0,
   retries |-> 0, sends |-> 0, lateSends |-> 0, unanswered |-> 0, awaiting |-> FALSE,
   retried |-> 0, dogs |-> {}]

Init == control = Fresh

\* One step, within the bound on what is pending.
Becomes(results) ==
  control' \in {c \in results :
                  c.delays + c.retries + c.sends + c.lateSends + c.unanswered <= MaxPending}

-----------------------------------------------------------------------------
(* State changes the handlers are built from *)

CappedAt_NoCap(max, n) == n   \* mutant

CappedAt(max, n) == IF n < max THEN n ELSE max

\* The wait for the handshake ends: no pending watchdog was started for a later
\* one.
WaitOver(c) ==
  [c EXCEPT !.awaiting = FALSE, !.retried = 0, !.dogs = {[d EXCEPT !.own = FALSE] : d \in @}]

\* ++m_controlHandshakeEpoch
EpochPassed(c) == [c EXCEPT !.dogs = {[d EXCEPT !.current = FALSE] : d \in @}]

Watch_SameEpoch(c, last) ==   \* mutant: the wait does not get an epoch of its own
  [c EXCEPT !.awaiting = TRUE,
            !.dogs = {[d EXCEPT !.own = FALSE] : d \in @} \union
                     {[current |-> TRUE, last |-> last, own |-> TRUE]}]

\* A watchdog with an epoch of its own is started for a new wait, or goes on
\* with the present one.
Watch(c, last) ==
  LET passed == EpochPassed(c)
  IN  [passed EXCEPT !.awaiting = TRUE,
                     !.dogs = {[d EXCEPT !.own = FALSE] : d \in @} \union
                              {[current |-> TRUE, last |-> last, own |-> TRUE]}]

\* resetProjectionStatus
ResetProjection(c) == [EpochPassed(WaitOver(c)) EXCEPT !.version = FALSE, !.discovery = FALSE]

\* Nothing more arrives over the channel, and its sends will fail late.
Detached(c) ==
  [c EXCEPT !.armed = FALSE, !.lateSends = @ + c.sends, !.sends = 0, !.unanswered = 0]

\* disconnect
Disconnect(c) ==
  IF c.state \notin {"CONNECTED", "CONNECTING"} THEN c
  ELSE ResetProjection([Detached(c) EXCEPT !.chan = IF @ = "live" THEN "stopped" ELSE @,
                                           !.state = "DISCONNECTED"])

\* cleanupChannels
CleanupChannels(c) ==
  ResetProjection([Detached(c) EXCEPT !.chan = "none", !.handler = FALSE])

-----------------------------------------------------------------------------
(* Errors of the control channel *)

Recoverable == {"native2", "cancelled", "transient", "usbGone"}

NoDevice == {"usbGone", "linkGone", "sslGone"}

Fatal == {"native2", "aborted", "versionTimeout", "handshakeTimeout"} \union NoDevice

ErrorKind == Recoverable \union Fatal \union {"unknown"}

\* onChannelError("control", ...): ignored in a teardown; otherwise the wait is
\* over, and the receive is armed again, or the connection given up, unless a
\* recovery is already under way or the error falls in the grace period.
ControlError(c, kind) ==
  LET s == EpochPassed(WaitOver(c))
  IN  IF c.chan = "none" THEN {c}
      ELSE IF kind \in Recoverable /\ c.state = "CONNECTED"
      THEN {[s EXCEPT !.armed = @ \/ (s.handler /\ s.chan = "live")]}
      ELSE IF kind \notin Fatal THEN {s}
      ELSE {i \in {s} : i.state # "CONNECTED" \/ (kind \in NoDevice /\ i.discovery)} \union
           {IF kind = "sslGone" THEN CleanupChannels([Disconnect(s) EXCEPT !.state = "DISCONNECTED"])
            ELSE Disconnect(s)}

-----------------------------------------------------------------------------
(* The connection *)

\* handleConnectionEstablished: only a new handler arms the channel and starts
\* to ask for the version.
Established(c) ==
  LET reset == ResetProjection(c)
      fresh == [reset EXCEPT !.handler = TRUE, !.armed = (reset.chan = "live"), !.attempts = 0,
                             !.native2 = 0, !.retried = 0, !.delays = @ + 1]
      ready == IF c.chan = "none" \/ c.handler THEN reset ELSE fresh
  IN  [ready EXCEPT !.state = "CONNECTED"]

\* The channels are set up first, which may fail.
Establish ==
  Becomes({Established([Detached(control) EXCEPT !.chan = "live"]), Established(control)})

Lose ==
  /\ control.state \in {"CONNECTED", "CONNECTING"}
  /\ Becomes({Disconnect(control)})

\* A recovery or a restart tears the channels down, and maybe the stack with
\* the operations outstanding on it.
TearDown ==
  LET c == CleanupChannels(control)
  IN  Becomes({[c EXCEPT !.state = s, !.lateSends = n] :
                 s \in {c.state, "DISCONNECTED"}, n \in {0, c.lateSends}})

\* A connection attempt that fails changes the state and nothing else.
AttemptFailed == Becomes({[control EXCEPT !.state = "DISCONNECTED"]})

ConnectToDevice == Becomes({[control EXCEPT !.state = "CONNECTING"]})

\* The service is stopped and a new one started.
Restart == control' = Fresh

-----------------------------------------------------------------------------
(* The version requests *)

\* sendControlVersionRequest: once a request was made, the window for an answer
\* may have passed.
VersionRequested(c) ==
  IF c.chan = "none" THEN {c}
  ELSE {[c EXCEPT !.attempts = CappedAt(MaxAttempts, @ + 1),
                  !.sends = @ + (IF c.chan = "live" THEN 1 ELSE 0),
                  !.lateSends = @ + (IF c.chan = "live" THEN 0 ELSE 1)]} \union
       (IF c.attempts > 0 THEN ControlError(c, "versionTimeout") ELSE {})

CanRequest(c) == c.state = "CONNECTED" /\ c.chan # "none" /\ c.handler

\* The first request does not ask whether an answer has come.
InitialDelayOver ==
  /\ control.delays > 0
  /\ LET c == [control EXCEPT !.delays = @ - 1]
     IN  Becomes(IF CanRequest(c) THEN VersionRequested(c) ELSE {c})

RetryDelayOver ==
  /\ control.retries > 0
  /\ LET c == [control EXCEPT !.retries = @ - 1]
     IN  Becomes(IF CanRequest(c) /\ ~c.version THEN VersionRequested(c) ELSE {c})

RequestSent ==
  /\ control.sends > 0
  /\ Becomes({[control EXCEPT !.sends = @ - 1, !.unanswered = @ + 1]})

Again(c) == [c EXCEPT !.retries = @ + 1]

\* The send timed out (native code 2): retried below the threshold.
SendTimedOut(c) ==
  LET counted == [c EXCEPT !.native2 = CappedAt(Threshold, @ + 1)]
  IN  IF counted.native2 >= Threshold THEN ControlError(counted, "native2")
      ELSE IF c.state = "CONNECTED" /\ c.attempts < MaxAttempts THEN {Again(counted)}
      ELSE ControlError(counted, "versionTimeout")

\* The promise of a request that fails; nothing ties it to its connection.
SendFailed(c) ==
  {Again(c)} \union SendTimedOut(c)
  \union ControlError([c EXCEPT !.native2 = 0], "cancelled")
  \union UNION {ControlError(c, k) :
                  k \in ErrorKind \ {"native2", "cancelled", "versionTimeout", "handshakeTimeout"}}

RequestFailed ==
  \/ control.sends > 0 /\ Becomes(SendFailed([control EXCEPT !.sends = @ - 1]))
  \/ control.lateSends > 0 /\ Becomes(SendFailed([control EXCEPT !.lateSends = @ - 1]))

-----------------------------------------------------------------------------
(* The handshake *)

Receives == control.chan = "live" /\ control.armed

\* An exception of the TLS layer is reported as an error of the channel.
TlsError(c) == ControlError(c, "sslGone") \union ControlError(c, "unknown")

\* A handler that reports one does not arm the channel again.
TlsFailed(c) == TlsError([c EXCEPT !.armed = FALSE])

\* onVersionResponse
VersionResponse ==
  /\ Receives /\ control.unanswered > 0
  /\ LET c == [control EXCEPT !.unanswered = @ - 1, !.version = TRUE,
                              !.attempts = 0, !.native2 = 0]
         incompatible == {[e EXCEPT !.armed = FALSE, !.state = "ERROR"] :
                            e \in ControlError(c, "unknown")}
     IN  Becomes({Watch(c, FALSE)} \union incompatible \union TlsFailed(c))

\* onHandshake
HandshakeReceived ==
  /\ Receives /\ control.version
  /\ LET c == IF control.awaiting THEN WaitOver(control) ELSE control
     IN  Becomes({c} \union TlsFailed(c))

\* onServiceDiscoveryRequest
DiscoveryRequested ==
  /\ Receives /\ control.version
  /\ LET c == IF control.awaiting THEN WaitOver(control) ELSE control
     IN  Becomes({[c EXCEPT !.discovery = TRUE]})

\* A receive fails, or a send of the handshake does.
ControlFailed ==
  /\ control.chan # "none"
  /\ \E kind \in ErrorKind \ {"versionTimeout", "handshakeTimeout"} :
       Becomes(ControlError([control EXCEPT !.armed = FALSE], kind)
               \union ControlError(control, kind))

\* The phone did not answer in time: once, the handshake is sent again, which
\* may throw; then the connection is given up.
WatchdogBarks_NoRearm(c, d) ==   \* mutant: the retry is not watched
  IF ~d.last /\ c.retried < MaxRetries THEN {[c EXCEPT !.retried = @ + 1]}
  ELSE ControlError([c EXCEPT !.awaiting = FALSE], "handshakeTimeout")

WatchdogBarks_Uncounted(c, d) ==   \* mutant: every watchdog retries
  {Watch(c, FALSE)}

WatchdogBarks(c, d) ==
  LET again == [c EXCEPT !.retried = @ + 1]
  IN  IF ~d.last /\ c.retried < MaxRetries
      THEN {Watch(again, TRUE)} \union TlsError([again EXCEPT !.awaiting = FALSE])
      ELSE ControlError([c EXCEPT !.awaiting = FALSE], "handshakeTimeout")

WatchdogExpires ==
  \E d \in control.dogs :
    LET c == [control EXCEPT !.dogs = @ \ {d}]
    IN  Becomes(IF /\ c.awaiting /\ d.current /\ ~c.discovery
                   /\ c.state \in {"CONNECTED", "CONNECTING"}
                THEN WatchdogBarks(c, d) ELSE {c})

-----------------------------------------------------------------------------

Connection ==
  Establish \/ Lose \/ TearDown \/ AttemptFailed \/ ConnectToDevice \/ Restart

Requests == InitialDelayOver \/ RetryDelayOver \/ RequestSent \/ RequestFailed

Handshake ==
  VersionResponse \/ HandshakeReceived \/ DiscoveryRequested \/ ControlFailed \/ WatchdogExpires

Next == Connection \/ Requests \/ Handshake

Spec == Init /\ [][Next]_vars

\* The event loop runs every timer it was given.
FairSpec == Spec /\ WF_vars(WatchdogExpires)

-----------------------------------------------------------------------------
(* Properties *)

\* Type invariant.
TypeOK == control \in Control

\* A connection that waits for the handshake has a watchdog that will notice if
\* it never comes: every path that starts, repeats or resumes a wait starts one
\* for its epoch.
AwaitingIsWatched ==
  control.awaiting /\ ~control.discovery /\ control.state = "CONNECTED"
    => \E d \in control.dogs : d.current

\* A watchdog that could give the connection up was started for the very wait
\* that is on: not for an earlier connection, an earlier exchange, or a wait the
\* phone has since answered.
WatchdogIsOwn == control.awaiting => \A d \in control.dogs : d.current => d.own

\* A handshake that is awaited is answered, or the connection is given up.
WaitEnds ==
  (control.awaiting /\ control.state = "CONNECTED")
    ~> (~control.awaiting \/ control.discovery \/ control.state # "CONNECTED")

\* When the sends of version requests have timed out Threshold times in a row,
\* the transport is recovered ("Keep retrying until the threshold is reached to
\* avoid over-eager teardown"; "Triggering immediate transport recovery due to
\* native=2 consecutive").
TimeoutsRecover ==
  [][control.state = "CONNECTED" /\ control.native2 < Threshold /\ control'.native2 = Threshold
       => control'.state = "DISCONNECTED"]_vars
=============================================================================
