---------------------------- MODULE Renegotiation ----------------------------
(***************************************************************************)
(* Who may end a connection to negotiate it anew: the startup check of the *)
(* service manager and the renegotiate command of the WebSocket server.    *)
(* Both disconnect the Android Auto service at once and start a search     *)
(* again from a timer, and both decide by copies they keep of its state.   *)
(*                                                                         *)
(* ren holds the Android Auto service (state, milestones), the copies of   *)
(* the WebSocket server (cached, stamp) and of the service manager (seen,  *)
(* connectedDuring, churn...) and the timers.  The connection itself is    *)
(* module AndroidAutoLink: here a phone is found, lost or fails whenever   *)
(* it can.  Times are abstracted to whether a span is over.                *)
(***************************************************************************)
EXTENDS Naturals

CONSTANTS
    ChurnLimit,     \* renegotiate_unstable_disconnect_threshold
    MaxCommands,    \* bound: commands of the UI
    MaxPhones       \* bound: phones found

ASSUME RenegotiationAssumption ==
    ChurnLimit \in Nat \ {0} /\ MaxCommands \in Nat /\ MaxPhones \in Nat

VARIABLE ren

RenState == {"none", "DISCONNECTED", "SEARCHING", "CONNECTING", "CONNECTED", "ERROR"}

\* What is known, with the service in one of these states.
KnownIn(states) ==
    [state: states,             \* none is no service
     progress: BOOLEAN,         \* version received, discovery completed or ready
     untouched: BOOLEAN,        \* the phone has not answered the version request yet
     recovery: BOOLEAN,         \* a timer of the service will search again
     heard: BOOLEAN,            \* the WebSocket server is connected to this instance
     cached: BOOLEAN,           \* m_lastProjectionStatus shows progress
     stamp: {"none", "recent", "old"},   \* m_lastConnectedStateMs
     cooling: BOOLEAN,          \* m_lastRenegotiationRequestMs is recent
     seen: BOOLEAN,             \* m_androidAutoProjectionReady, ...Received, ...Completed
     connectedDuring: BOOLEAN,  \* m_androidAutoConnectedDuringStartup
     issued: BOOLEAN,           \* m_androidAutoStartupRenegotiateIssued
     startupCooling: BOOLEAN,   \* m_androidAutoLastStartupRenegotiateMs is recent
     churn: 0..ChurnLimit,      \* m_androidAutoStartupDisconnectCount
     unquiet: BOOLEAN,          \* m_androidAutoLastDisconnectMs is recent
     inStartup: BOOLEAN,        \* less than 120 s since the service started
     startup: Nat,              \* startup timers pending, of any instance
     grace: Nat,                \* readiness grace timers pending
     relaunch: Nat,             \* relaunch timers pending, of either renegotiation
     commands: 0..MaxCommands, phones: 0..MaxPhones]   \* what the bounds leave

Renegotiating == KnownIn(RenState)

-----------------------------------------------------------------------------
(* Signals of the Android Auto service.                                    *)

Lost(state) == state \in {"DISCONNECTED", "DISCONNECTING", "ERROR"}

\* The service manager's slot for a change of state.
ManagerHears(r, state) ==
    LET known == [r EXCEPT !.connectedDuring = @ \/ state = "CONNECTED",
                           !.seen = @ /\ ~Lost(state)]
    IN  IF Lost(state) /\ r.inStartup
        THEN [known EXCEPT !.unquiet = TRUE,
                           !.churn = IF @ < ChurnLimit THEN @ + 1 ELSE @]
        ELSE known

\* onAndroidAutoStateChanged of the WebSocket server.
StampState(r, state) ==
    [r EXCEPT !.stamp = CASE state = "CONNECTED" -> "recent"
                          [] state \in {"DISCONNECTED", "ERROR"} -> "none"
                          [] OTHER -> @]

Signal(r, state) ==
    LET told == ManagerHears(r, state)
    IN  IF r.heard THEN StampState(told, state) ELSE told

MoveTo(r, state) == IF r.state = state THEN r ELSE [Signal(r, state) EXCEPT !.state = state]

\* mutant: the server keeps the status it has while no phone is connected
PublishStatus_WhenConnected(r) ==
    [r EXCEPT !.seen = r.progress,
              !.cached = IF r.heard /\ r.state = "CONNECTED" THEN r.progress ELSE @]

\* projectionStatusChanged, and the slots of both.
PublishStatus(r) ==
    [r EXCEPT !.seen = r.progress, !.cached = IF r.heard THEN r.progress ELSE @]

ResetMilestones(r) == PublishStatus([r EXCEPT !.progress = FALSE])

-----------------------------------------------------------------------------
(* Calls to the Android Auto service.                                      *)

\* mutant: the search starts only in a service that was never connected
Search_OnlyFresh(r) ==
    LET reset == ResetMilestones(r)
    IN  IF r.state = "DISCONNECTED" /\ ~r.connectedDuring THEN MoveTo(reset, "SEARCHING") ELSE reset

\* startSearching resets the milestones before it looks at the state.
Search(r) ==
    LET reset == ResetMilestones(r)
    IN  IF r.state = "DISCONNECTED" THEN MoveTo(reset, "SEARCHING") ELSE reset

\* mutant: the connection is given up and never reported as gone
HangUp_Halfway(r) ==
    IF r.state \in {"CONNECTED", "CONNECTING"}
    THEN ResetMilestones(MoveTo(r, "DISCONNECTING"))
    ELSE r

\* disconnect
HangUp(r) ==
    IF r.state \in {"CONNECTED", "CONNECTING"}
    THEN MoveTo(ResetMilestones(MoveTo(r, "DISCONNECTING")), "DISCONNECTED")
    ELSE r

\* deinitialise, and the deletion of the instance with its timers.
StopInstance(r) ==
    IF r.state = "none" THEN r
    ELSE [MoveTo(ResetMilestones(HangUp(r)), "DISCONNECTED")
              EXCEPT !.state = "none", !.heard = FALSE, !.recovery = FALSE]

\* startAndroidAutoService.  Only the first instance is heard by the server.
StartInstance(r) ==
    LET stopped == StopInstance(r)
        fresh == [stopped EXCEPT !.state = "DISCONNECTED", !.seen = FALSE,
                      !.connectedDuring = FALSE, !.issued = FALSE, !.startupCooling = FALSE,
                      !.churn = 0, !.unquiet = FALSE, !.inStartup = TRUE, !.untouched = FALSE,
                      !.progress = FALSE]
    IN  [Search(fresh) EXCEPT !.startup = @ + 1]

-----------------------------------------------------------------------------
(* The phone and the service's own recovery.                               *)

PhoneFound ==
    /\ ren.phones > 0
    /\ ren.state = "SEARCHING"
    /\ ren' = [MoveTo(ResetMilestones(MoveTo(ren, "CONNECTING")), "CONNECTED")
                   EXCEPT !.untouched = TRUE, !.phones = @ - 1]

PhoneAnswers ==
    /\ ren.state = "CONNECTED" /\ ren.untouched
    /\ ren' = PublishStatus([ren EXCEPT !.progress = TRUE, !.untouched = FALSE])

PhoneLost ==
    /\ ren.state \in {"CONNECTED", "CONNECTING"}
    /\ ren' = [HangUp(ren) EXCEPT !.recovery = TRUE]

\* Version rejected: that counts as a milestone, and the service stays in ERROR until it
\* is restarted.
PhoneRejected ==
    /\ ren.state = "CONNECTED" /\ ren.untouched
    /\ ren' = MoveTo(PublishStatus([ren EXCEPT !.progress = TRUE, !.untouched = FALSE]), "ERROR")

\* The recovery ends a connection that was made since, unless it is one of a timeout.
RecoveryOver ==
    /\ ren.recovery
    /\ LET r == [ren EXCEPT !.recovery = FALSE]
       IN  IF r.state = "SEARCHING" THEN ren' = r ELSE ren' \in {Search(r), Search(HangUp(r))}

-----------------------------------------------------------------------------
(* The startup check of the service manager.                               *)

Trigger(r) ==
    [HangUp([r EXCEPT !.issued = TRUE, !.startupCooling = TRUE]) EXCEPT !.relaunch = @ + 1]

HeldBack(r) ==
    \/ r.state = "none" \/ r.issued \/ r.startupCooling
    \/ r.churn >= ChurnLimit /\ r.unquiet
    \/ r.connectedDuring
    \/ r.state = "CONNECTED" /\ r.seen

StartupOver ==
    /\ ren.startup > 0
    /\ ren' = LET r == [ren EXCEPT !.startup = @ - 1]
              IN  IF HeldBack(r) THEN r
                  ELSE IF r.state \in {"CONNECTING", "CONNECTED"} THEN [r EXCEPT !.grace = @ + 1]
                  ELSE Trigger(r)

\* mutant: after the grace only the state and the milestones are looked at
Settled_NoHistory(r) == r.state = "none" \/ (r.state = "CONNECTED" /\ r.seen)

Settled(r) == r.state = "none" \/ r.connectedDuring \/ (r.state = "CONNECTED" /\ r.seen)

GraceOfStartupOver ==
    /\ ren.grace > 0
    /\ ren' = LET r == [ren EXCEPT !.grace = @ - 1]
              IN  IF Settled(r) THEN r ELSE Trigger(r)

\* A relaunch timer acts on whichever instance there is.
RelaunchOver ==
    /\ ren.relaunch > 0
    /\ ren' = LET r == [ren EXCEPT !.relaunch = @ - 1]
              IN  IF r.state = "none" THEN r ELSE Search(r)

-----------------------------------------------------------------------------
(* Commands of the UI.                                                     *)

Command(r) == [r EXCEPT !.commands = @ - 1]
Commanded == ren.commands > 0

Suppressed(r) ==
    \/ r.state = "CONNECTED" /\ r.stamp = "recent" /\ r.cached
    \/ r.cooling

Renegotiate ==
    /\ Commanded /\ ren.state # "none" /\ ~Suppressed(ren)
    /\ ren' = Command([HangUp([ren EXCEPT !.cooling = TRUE]) EXCEPT !.relaunch = @ + 1])

LaunchCommand == Commanded /\ ren.state # "none" /\ ren' = Command(Search(ren))

ConnectCommand == Commanded /\ ren.state # "none" /\ ren' = Command(MoveTo(ren, "CONNECTING"))

HangUpCommand == Commanded /\ ren.state # "none" /\ ren' = Command(HangUp(ren))

\* A client that subscribes makes the server announce, and stamp, the state.
SubscribeCommand ==
    Commanded /\ ren.state # "none" /\ ren' = Command(StampState(ren, ren.state))

StopCommand == Commanded /\ ren' = Command(StopInstance(ren))

RestartCommand == Commanded /\ ren' = Command(StartInstance(ren))

-----------------------------------------------------------------------------
(* Time.                                                                   *)

TimePasses ==
    \/ ren.stamp = "recent" /\ ren' = [ren EXCEPT !.stamp = "old"]
    \/ ren.cooling /\ ren' = [ren EXCEPT !.cooling = FALSE]
    \/ ren.startupCooling /\ ren' = [ren EXCEPT !.startupCooling = FALSE]
    \/ ren.unquiet /\ ren' = [ren EXCEPT !.unquiet = FALSE]
    \/ ren.inStartup /\ ren' = [ren EXCEPT !.inStartup = FALSE]

\* The core has started its services and connected the server to them.
RenInit ==
    ren = [StartInstance(
              [state |-> "none", progress |-> FALSE, untouched |-> FALSE, recovery |-> FALSE,
               heard |-> FALSE, cached |-> FALSE, stamp |-> "none", cooling |-> FALSE,
               seen |-> FALSE, connectedDuring |-> FALSE, issued |-> FALSE,
               startupCooling |-> FALSE, churn |-> 0, unquiet |-> FALSE, inStartup |-> FALSE,
               startup |-> 0, grace |-> 0, relaunch |-> 0,
               commands |-> MaxCommands, phones |-> MaxPhones]) EXCEPT !.heard = TRUE]

RenNext ==
    \/ PhoneFound \/ PhoneAnswers \/ PhoneLost \/ PhoneRejected \/ RecoveryOver
    \/ StartupOver \/ GraceOfStartupOver \/ RelaunchOver
    \/ Renegotiate \/ LaunchCommand \/ ConnectCommand \/ HangUpCommand
    \/ SubscribeCommand \/ StopCommand \/ RestartCommand
    \/ TimePasses

RenSpec == RenInit /\ [][RenNext]_ren

-----------------------------------------------------------------------------
(* Properties.                                                             *)

RenTypeOK == ren \in Renegotiating

\* A startup check that runs late, even one of an earlier instance, ends no
\* connection that stands.
ConnectedIsSpared ==
    [][ren.state = "CONNECTED" /\ (ren'.startup < ren.startup \/ ren'.grace < ren.grace)
           => ren'.state = "CONNECTED"]_ren

\* The copies by which renegotiations are held back are those of the connection
\* that stands: milestones of a connection that is gone hold nothing back.
CopiesAreCurrent ==
    /\ ren.state = "CONNECTED" => ren.seen = ren.progress
    /\ ren.heard => ren.cached = ren.progress /\ (ren.stamp # "none" => ren.state # "DISCONNECTED")

\* A renegotiation is followed by a search, unless someone else has found
\* something to do, or there is no service.
RenegotiationSearches == (ren.relaunch > 0) ~> (ren.state # "DISCONNECTED")
=============================================================================
