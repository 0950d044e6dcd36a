------------------------ MODULE ControlBringUp_proofs ------------------------
(***************************************************************************)
(* Proofs about ControlBringUp: the wait for the handshake is always       *)
(* watched, and only by its own watchdog.                                  *)
(*                                                                         *)
(* With the types, the two properties are inductive together once they are *)
(* read as properties of a record (Sound): each function of the code takes *)
(* a sound record to sound ones, and an action composes such functions.    *)
(***************************************************************************)
EXTENDS ControlBringUp, TLAPS

\* AwaitingIsWatched, of any record.
Watched(c) ==
  c.awaiting /\ ~c.discovery /\ c.state = "CONNECTED" => \E d \in c.dogs : d.current

\* WatchdogIsOwn, of any record.
Owned(c) == c.awaiting => \A d \in c.dogs : d.current => d.own

Sound(c) == c \in Control /\ Watched(c) /\ Owned(c)

\* The inductive invariant.
IInv == Sound(control)

\* A record that awaits nothing is sound whatever else it says.
LEMMA QuietSound ==
  ASSUME NEW c \in Control, ~c.awaiting
  PROVE  Sound(c)
BY DEF Sound, Watched, Owned

\* A cap keeps a count within its bound, as in m_controlVersionRequestAttempts.
LEMMA CappedAtType ==
  ASSUME NEW max \in Nat, NEW n \in Nat
  PROVE  CappedAt(max, n) \in 0..max
BY DEF CappedAt

\* Ending a wait leaves nothing awaited (onHandshake, resetProjectionStatus).
LEMMA WaitOverSound ==
  ASSUME NEW c \in Control
  PROVE  WaitOver(c) \in Control /\ ~WaitOver(c).awaiting
<1> DEFINE ds == {[d EXCEPT !.own = FALSE] : d \in c.dogs}
           w == [c EXCEPT !.awaiting = FALSE, !.retried = 0, !.dogs = ds]
<1>0. c.dogs \subseteq Watchdog
  BY DEF Control
<1>1. ds \in SUBSET Watchdog
  BY <1>0 DEF Watchdog
<1> HIDE DEF ds
<1>2. w \in Control /\ ~w.awaiting
  BY <1>1 DEF Control
<1> QED BY <1>2 DEF WaitOver, ds

\* Passing an epoch changes the watchdogs only (++m_controlHandshakeEpoch).
LEMMA EpochPassedType ==
  ASSUME NEW c \in Control
  PROVE  /\ EpochPassed(c) \in Control
         /\ EpochPassed(c).awaiting = c.awaiting
         /\ \A d \in EpochPassed(c).dogs : ~d.current
<1> DEFINE ds == {[d EXCEPT !.current = FALSE] : d \in c.dogs}
           e == [c EXCEPT !.dogs = ds]
<1>0. c.dogs \subseteq Watchdog
  BY DEF Control
<1>1. ds \in SUBSET Watchdog /\ \A d \in ds : ~d.current
  BY <1>0 DEF Watchdog
<1> HIDE DEF ds
<1>2. e \in Control /\ e.awaiting = c.awaiting /\ e.dogs = ds
  BY <1>1 DEF Control
<1> QED BY <1>1, <1>2 DEF EpochPassed, ds

\* A wait that is started or goes on is watched by its own watchdog (the timer
\* of onVersionResponse and the one after a retry).
LEMMA WatchSound ==
  ASSUME NEW c \in Control, NEW last \in BOOLEAN
  PROVE  Sound(Watch(c, last))
<1> DEFINE p == EpochPassed(c)
           old == {[d EXCEPT !.own = FALSE] : d \in p.dogs}
           new == [current |-> TRUE, last |-> last, own |-> TRUE]
           w == [p EXCEPT !.awaiting = TRUE, !.dogs = old \union {new}]
<1>1. p \in Control /\ \A d \in p.dogs : ~d.current
  BY EpochPassedType
<1>2. p.dogs \subseteq Watchdog
  BY <1>1 DEF Control
<1>3. /\ old \subseteq Watchdog
      /\ \A d \in old : ~d.current
  BY <1>1, <1>2 DEF Watchdog
<1>4. new \in Watchdog /\ new.current /\ new.own
  BY DEF Watchdog
<1>5. w \in Control
  <2> HIDE DEF p, old, new
  <2> QED BY <1>1, <1>3, <1>4 DEF Control
<1>6. w.dogs = old \union {new}
  <2> HIDE DEF old, new, p
  <2> QED BY <1>1 DEF Control
<1>7. Watched(w) /\ Owned(w)
  <2> HIDE DEF old, new, w
  <2> QED BY <1>3, <1>4, <1>6 DEF Watched, Owned
<1>8. w = Watch(c, last)
  BY DEF Watch
<1> HIDE DEF w
<1> QED BY <1>5, <1>7, <1>8 DEF Sound

\* resetProjectionStatus leaves nothing awaited.
LEMMA ResetSound ==
  ASSUME NEW c \in Control
  PROVE  ResetProjection(c) \in Control /\ ~ResetProjection(c).awaiting
<1> DEFINE e == EpochPassed(WaitOver(c))
<1>1. e \in Control /\ ~e.awaiting
  BY WaitOverSound, EpochPassedType
<1> HIDE DEF e
<1>2. [e EXCEPT !.version = FALSE, !.discovery = FALSE] \in Control
      /\ ~[e EXCEPT !.version = FALSE, !.discovery = FALSE].awaiting
  BY <1>1 DEF Control
<1> QED BY <1>2 DEF ResetProjection, e

\* Detaching a channel does not touch the wait (messenger stop).
LEMMA DetachedType ==
  ASSUME NEW c \in Control
  PROVE  Detached(c) \in Control
<1> DEFINE late == c.lateSends + c.sends
           d == [c EXCEPT !.armed = FALSE, !.lateSends = late, !.sends = 0, !.unanswered = 0]
<1>1. late \in Nat
  BY DEF Control
<1> HIDE DEF late
<1>2. d \in Control
  BY <1>1 DEF Control
<1> QED BY <1>2 DEF Detached, late

\* disconnect leaves nothing awaited, or does nothing.
LEMMA DisconnectSound ==
  ASSUME NEW c \in Control
  PROVE  /\ Disconnect(c) \in Control
         /\ ~c.awaiting => ~Disconnect(c).awaiting
         /\ Sound(c) => Sound(Disconnect(c))
<1> DEFINE d == [Detached(c) EXCEPT !.chan = IF @ = "live" THEN "stopped" ELSE @,
                                    !.state = "DISCONNECTED"]
<1>1. d \in Control
  BY DetachedType, ZenonT(90) DEF Control, State
<1>2. ResetProjection(d) \in Control /\ ~ResetProjection(d).awaiting
  BY <1>1, ResetSound
<1> HIDE DEF d
<1>3. Disconnect(c) = c \/ Disconnect(c) = ResetProjection(d)
  BY DEF Disconnect, d
<1> QED BY <1>2, <1>3, QuietSound

\* cleanupChannels leaves nothing awaited.
LEMMA CleanupSound ==
  ASSUME NEW c \in Control
  PROVE  CleanupChannels(c) \in Control /\ ~CleanupChannels(c).awaiting
<1> DEFINE d == [Detached(c) EXCEPT !.chan = "none", !.handler = FALSE]
<1>1. d \in Control
  BY DetachedType, ZenonT(90) DEF Control
<1> HIDE DEF d
<1>2. ResetProjection(d) \in Control /\ ~ResetProjection(d).awaiting
  BY <1>1, ResetSound
<1> QED BY <1>2 DEF CleanupChannels, d

\* onChannelError("control"): the wait is over, except in a teardown, which
\* changes nothing.
LEMMA ControlErrorSound ==
  ASSUME NEW c \in Control, NEW kind, NEW r \in ControlError(c, kind)
  PROVE  /\ r \in Control
         /\ r = c \/ ~r.awaiting
<1> DEFINE s == EpochPassed(WaitOver(c))
           rearmed == [s EXCEPT !.armed = @ \/ (s.handler /\ s.chan = "live")]
           down == [Disconnect(s) EXCEPT !.state = "DISCONNECTED"]
<1>1. s \in Control /\ ~s.awaiting
  BY WaitOverSound, EpochPassedType
<1> HIDE DEF s
<1>2. rearmed \in Control /\ ~rearmed.awaiting
  BY <1>1 DEF Control
<1>3. Disconnect(s) \in Control /\ ~Disconnect(s).awaiting
  BY <1>1, DisconnectSound
<1>4. down \in Control
  BY <1>3 DEF Control, State
<1>5. CleanupChannels(down) \in Control /\ ~CleanupChannels(down).awaiting
  BY <1>4, CleanupSound
<1> HIDE DEF rearmed, down
<1>6. r \in {c, rearmed, s, CleanupChannels(down), Disconnect(s)}
  BY DEF ControlError, s, rearmed, down
<1> QED BY <1>1, <1>2, <1>3, <1>5, <1>6

\* The same, of a sound record.
LEMMA ErrorKeepsSound ==
  ASSUME NEW c, Sound(c), NEW kind, NEW r \in ControlError(c, kind)
  PROVE  Sound(r)
<1>1. c \in Control
  BY DEF Sound
<1> QED BY <1>1, ControlErrorSound, QuietSound

\* sendControlVersionRequest does not touch the wait, or reports an error.
LEMMA RequestedSound ==
  ASSUME NEW c, Sound(c), NEW r \in VersionRequested(c)
  PROVE  Sound(r)
<1> DEFINE a == CappedAt(MaxAttempts, c.attempts + 1)
           n == c.sends + (IF c.chan = "live" THEN 1 ELSE 0)
           l == c.lateSends + (IF c.chan = "live" THEN 0 ELSE 1)
           asked == [c EXCEPT !.attempts = a, !.sends = n, !.lateSends = l]
<1>1. c \in Control
  BY DEF Sound
<1>2. c.attempts \in 0..MaxAttempts /\ c.sends \in Nat /\ c.lateSends \in Nat
  BY <1>1 DEF Control
<1>3. c.attempts + 1 \in Nat /\ MaxAttempts \in Nat /\ n \in Nat /\ l \in Nat
  BY <1>2, CountAssumption
<1>4. a \in 0..MaxAttempts
  BY <1>3, CappedAtType
<1> HIDE DEF a, n, l
<1>5. Sound(asked)
  BY <1>1, <1>3, <1>4 DEF Sound, Watched, Owned, Control
<1>6. r = c \/ r = asked \/ r \in ControlError(c, "versionTimeout")
  BY DEF VersionRequested, a, n, l
<1> HIDE DEF asked
<1> QED BY <1>5, <1>6, ErrorKeepsSound

\* A failed send asks again or reports an error.
LEMMA SendFailedSound ==
  ASSUME NEW c, Sound(c), NEW r \in SendFailed(c)
  PROVE  Sound(r)
<1> DEFINE n == CappedAt(Threshold, c.native2 + 1)
           counted == [c EXCEPT !.native2 = n]
           zeroed == [c EXCEPT !.native2 = 0]
<1>1. c \in Control /\ c.native2 \in 0..Threshold
  BY DEF Sound, Control
<1>0. c.native2 + 1 \in Nat /\ Threshold \in Nat /\ 0 \in 0..Threshold
  BY <1>1, CountAssumption
<1>2. n \in 0..Threshold /\ 0 \in 0..Threshold
  BY <1>0, CappedAtType
<1> HIDE DEF n
<1>3. Sound(counted)
  BY <1>1, <1>2 DEF Sound, Watched, Owned, Control
<1>4. Sound(zeroed)
  BY <1>1, <1>2 DEF Sound, Watched, Owned, Control
<1>5. ASSUME NEW x, Sound(x)
      PROVE  Sound(Again(x))
  <2> DEFINE k == x.retries + 1
  <2>1. k \in Nat
    BY <1>5 DEF Sound, Control
  <2> HIDE DEF k
  <2>2. Sound([x EXCEPT !.retries = k])
    BY <1>5, <2>1 DEF Sound, Watched, Owned, Control
  <2> QED BY <2>2 DEF Again, k
<1> HIDE DEF counted, zeroed
<1>6. \/ r = Again(c)
      \/ r = Again(counted)
      \/ \E k : r \in ControlError(counted, k)
      \/ r \in ControlError(zeroed, "cancelled")
      \/ \E k : r \in ControlError(c, k)
  BY DEF SendFailed, SendTimedOut, counted, zeroed, n
<1> QED BY <1>3, <1>4, <1>5, <1>6, ErrorKeepsSound

\* handleConnectionEstablished leaves nothing awaited.
LEMMA EstablishedSound ==
  ASSUME NEW c \in Control
  PROVE  Sound(Established(c))
<1> DEFINE reset == ResetProjection(c)
           n == reset.delays + 1
           fresh == [reset EXCEPT !.handler = TRUE, !.armed = (reset.chan = "live"), !.attempts = 0,
                                  !.native2 = 0, !.retried = 0, !.delays = n]
           ready == IF c.chan = "none" \/ c.handler THEN reset ELSE fresh
<1>1. reset \in Control /\ ~reset.awaiting
  BY ResetSound
<1> HIDE DEF reset
<1>0. n \in Nat /\ 0 \in 0..MaxAttempts /\ 0 \in 0..Threshold
  BY <1>1, CountAssumption DEF Control
<1> HIDE DEF n
<1>2. fresh \in Control /\ ~fresh.awaiting
  BY <1>1, <1>0, ZenonT(90) DEF Control
<1> HIDE DEF fresh
<1>3. ready \in Control /\ ~ready.awaiting
  BY <1>1, <1>2
<1> HIDE DEF ready
<1>4. /\ [ready EXCEPT !.state = "CONNECTED"] \in Control
      /\ ~[ready EXCEPT !.state = "CONNECTED"].awaiting
  BY <1>3 DEF Control, State
<1>5. Established(c) = [ready EXCEPT !.state = "CONNECTED"]
  BY DEF Established, ready, fresh, reset, n
<1> QED BY <1>4, <1>5, QuietSound

\* The exceptions of the TLS layer.
LEMMA TlsFailedSound ==
  ASSUME NEW c, Sound(c), NEW r \in TlsFailed(c)
  PROVE  Sound(r)
<1> DEFINE off == [c EXCEPT !.armed = FALSE]
<1>1. Sound(off)
  BY ZenonT(90) DEF Sound, Watched, Owned, Control
<1> HIDE DEF off
<1>2. r \in ControlError(off, "sslGone") \/ r \in ControlError(off, "unknown")
  BY DEF TlsFailed, TlsError, off
<1> QED BY <1>1, <1>2, ErrorKeepsSound

\* A watchdog that barks is no longer pending: the wait goes on with another, or
\* is over.
LEMMA BarksSound ==
  ASSUME NEW c \in Control, NEW d \in Watchdog, NEW r \in WatchdogBarks(c, d)
  PROVE  Sound(r)
<1> DEFINE again == [c EXCEPT !.retried = @ + 1]
           over == [c EXCEPT !.awaiting = FALSE]
           off == [again EXCEPT !.awaiting = FALSE]
<1>1. again \in Control
  BY DEF Control
<1>2. Sound(over)
  BY QuietSound DEF Control
<1>3. Sound(off)
  BY <1>1, QuietSound, ZenonT(90) DEF Control
<1>4. Sound(Watch(again, TRUE))
  BY <1>1, WatchSound
<1> HIDE DEF again, over, off
<1>5. \/ r = Watch(again, TRUE)
      \/ r \in ControlError(off, "sslGone")
      \/ r \in ControlError(off, "unknown")
      \/ r \in ControlError(over, "handshakeTimeout")
  BY DEF WatchdogBarks, TlsError, again, over, off
<1> QED BY <1>2, <1>3, <1>4, <1>5, ErrorKeepsSound

-----------------------------------------------------------------------------

\* A service that was just initialised awaits nothing.
LEMMA FreshSound == Sound(Fresh)
BY CountAssumption DEF Sound, Watched, Owned, Fresh, Control, State, Watchdog

\* What happens to the connection.
LEMMA ConnectionSound ==
  ASSUME Sound(control), Connection
  PROVE  Sound(control')
<1>1. control \in Control
  BY DEF Sound
<1>2. CASE Establish
  <2> DEFINE up == [Detached(control) EXCEPT !.chan = "live"]
  <2>1. up \in Control
    BY <1>1, DetachedType DEF Control
  <2> HIDE DEF up
  <2>2. control' \in {Established(up), Established(control)}
    BY <1>2 DEF Establish, Becomes, up
  <2> QED BY <1>1, <2>1, <2>2, EstablishedSound
<1>3. CASE Lose
  BY <1>1, <1>3, DisconnectSound DEF Lose, Becomes
<1>4. CASE TearDown
  <2> DEFINE c == CleanupChannels(control)
  <2>1. c \in Control /\ ~c.awaiting
    BY <1>1, CleanupSound
  <2>2. PICK s \in {c.state, "DISCONNECTED"}, n \in {0, c.lateSends} :
          control' = [c EXCEPT !.state = s, !.lateSends = n]
    BY <1>4 DEF TearDown, Becomes
  <2> HIDE DEF c
  <2>3. s \in State /\ n \in Nat
    BY <2>1, <2>2 DEF Control, State
  <2>4. control' \in Control /\ ~control'.awaiting
    BY <2>1, <2>2, <2>3 DEF Control
  <2> QED BY <2>4, QuietSound
<1>5. CASE AttemptFailed
  <2>1. control' = [control EXCEPT !.state = "DISCONNECTED"]
    BY <1>5 DEF AttemptFailed, Becomes
  <2> QED BY <2>1 DEF Sound, Watched, Owned, Control, State
<1>6. CASE ConnectToDevice
  <2>1. control' = [control EXCEPT !.state = "CONNECTING"]
    BY <1>6 DEF ConnectToDevice, Becomes
  <2> QED BY <2>1 DEF Sound, Watched, Owned, Control, State
<1>7. CASE Restart
  BY <1>7, FreshSound DEF Restart
<1> QED BY <1>2, <1>3, <1>4, <1>5, <1>6, <1>7 DEF Connection

\* The version requests and their timers.
LEMMA RequestsSound ==
  ASSUME Sound(control), Requests
  PROVE  Sound(control')
<1>1. control \in Control
  BY DEF Sound
<1>2. CASE InitialDelayOver
  <2> DEFINE c == [control EXCEPT !.delays = @ - 1]
  <2>1. Sound(c)
    BY <1>1, <1>2 DEF InitialDelayOver, Sound, Watched, Owned, Control
  <2> HIDE DEF c
  <2>2. control' = c \/ control' \in VersionRequested(c)
    BY <1>2 DEF InitialDelayOver, Becomes, c
  <2> QED BY <2>1, <2>2, RequestedSound
<1>3. CASE RetryDelayOver
  <2> DEFINE c == [control EXCEPT !.retries = @ - 1]
  <2>1. Sound(c)
    BY <1>1, <1>3 DEF RetryDelayOver, Sound, Watched, Owned, Control
  <2> HIDE DEF c
  <2>2. control' = c \/ control' \in VersionRequested(c)
    BY <1>3 DEF RetryDelayOver, Becomes, c
  <2> QED BY <2>1, <2>2, RequestedSound
<1>4. CASE RequestSent
  <2> DEFINE n == control.sends - 1
             u == control.unanswered + 1
  <2>1. control' = [control EXCEPT !.sends = n, !.unanswered = u]
    BY <1>4 DEF RequestSent, Becomes
  <2>2. n \in Nat /\ u \in Nat
    BY <1>1, <1>4 DEF RequestSent, Control
  <2> HIDE DEF n, u
  <2> QED BY <1>1, <2>1, <2>2, ZenonT(90) DEF Sound, Watched, Owned, Control
<1>5. CASE RequestFailed
  <2> DEFINE now == [control EXCEPT !.sends = @ - 1]
             late == [control EXCEPT !.lateSends = @ - 1]
  <2>1. control.sends > 0 => Sound(now)
    BY <1>1 DEF Sound, Watched, Owned, Control
  <2>2. control.lateSends > 0 => Sound(late)
    BY <1>1 DEF Sound, Watched, Owned, Control
  <2> HIDE DEF now, late
  <2>3. \/ control.sends > 0 /\ control' \in SendFailed(now)
        \/ control.lateSends > 0 /\ control' \in SendFailed(late)
    BY <1>5 DEF RequestFailed, Becomes, now, late
  <2> QED BY <2>1, <2>2, <2>3, SendFailedSound
<1> QED BY <1>2, <1>3, <1>4, <1>5 DEF Requests

\* The messages of the handshake, its errors and its watchdogs.
LEMMA HandshakeSound ==
  ASSUME Sound(control), Handshake
  PROVE  Sound(control')
<1>1. control \in Control
  BY DEF Sound
<1>2. CASE VersionResponse
  <2> DEFINE u == control.unanswered - 1
             c == [control EXCEPT !.unanswered = u, !.version = TRUE, !.attempts = 0,
                                  !.native2 = 0]
  <2>5. 0 \in 0..MaxAttempts /\ 0 \in 0..Threshold
    BY CountAssumption
  <2>6. control.unanswered \in Nat /\ control.unanswered > 0
    BY <1>1, <1>2 DEF VersionResponse, Control
  <2>7. u \in Nat
    BY <2>6
  <2> HIDE DEF u
  <2>1. Sound(c)
    BY <1>1, <2>5, <2>7 DEF Sound, Watched, Owned, Control
  <2> HIDE DEF c
  <2>2. c \in Control
    BY <2>1 DEF Sound
  <2>3. \/ control' = Watch(c, FALSE)
        \/ control' \in TlsFailed(c)
        \/ \E e \in ControlError(c, "unknown") :
             control' = [e EXCEPT !.armed = FALSE, !.state = "ERROR"]
    BY <1>2 DEF VersionResponse, Becomes, c, u
  <2>4. ASSUME NEW e \in ControlError(c, "unknown")
        PROVE  Sound([e EXCEPT !.armed = FALSE, !.state = "ERROR"])
    <3>1. Sound(e)
      BY <2>1, ErrorKeepsSound
    <3> QED BY <3>1, ZenonT(90) DEF Sound, Watched, Owned, Control, State
  <2> QED BY <2>1, <2>2, <2>3, <2>4, WatchSound, TlsFailedSound
<1>3. CASE HandshakeReceived
  <2> DEFINE c == IF control.awaiting THEN WaitOver(control) ELSE control
  <2>1. Sound(c)
    BY <1>1, WaitOverSound, QuietSound
  <2> HIDE DEF c
  <2>2. control' = c \/ control' \in TlsFailed(c)
    BY <1>3 DEF HandshakeReceived, Becomes, c
  <2> QED BY <2>1, <2>2, TlsFailedSound
<1>4. CASE DiscoveryRequested
  <2> DEFINE c == IF control.awaiting THEN WaitOver(control) ELSE control
  <2>1. Sound(c)
    BY <1>1, WaitOverSound, QuietSound
  <2> HIDE DEF c
  <2>2. control' = [c EXCEPT !.discovery = TRUE]
    BY <1>4 DEF DiscoveryRequested, Becomes, c
  <2> QED BY <2>1, <2>2, ZenonT(90) DEF Sound, Watched, Owned, Control
<1>5. CASE ControlFailed
  <2> DEFINE off == [control EXCEPT !.armed = FALSE]
  <2>1. Sound(off)
    BY <1>1, ZenonT(90) DEF Sound, Watched, Owned, Control
  <2> HIDE DEF off
  <2>2. \E k : control' \in ControlError(off, k) \union ControlError(control, k)
    BY <1>5 DEF ControlFailed, Becomes, off
  <2> QED BY <2>1, <2>2, ErrorKeepsSound
<1>6. CASE WatchdogExpires
  <2>1. PICK d \in control.dogs :
          LET c == [control EXCEPT !.dogs = @ \ {d}]
          IN  Becomes(IF /\ c.awaiting /\ d.current /\ ~c.discovery
                         /\ c.state \in {"CONNECTED", "CONNECTING"}
                      THEN WatchdogBarks(c, d) ELSE {c})
    BY <1>6 DEF WatchdogExpires
  <2> DEFINE c == [control EXCEPT !.dogs = @ \ {d}]
  <2>2. d \in Watchdog /\ c \in Control
    BY <1>1 DEF Control
  <2>3. CASE c.awaiting /\ d.current /\ ~c.discovery /\ c.state \in {"CONNECTED", "CONNECTING"}
    <3>1. control' \in WatchdogBarks(c, d)
      BY <2>1, <2>3 DEF Becomes
    <3> QED BY <2>2, <3>1, BarksSound
  <2>4. CASE ~(c.awaiting /\ d.current /\ ~c.discovery /\ c.state \in {"CONNECTED", "CONNECTING"})
    <3>1. control' = c
      BY <2>1, <2>4 DEF Becomes
    <3>2. Sound(c)
      BY <1>1, <2>2, <2>4 DEF Sound, Watched, Owned, Control
    <3> QED BY <3>1, <3>2
  <2> QED BY <2>3, <2>4
<1> QED BY <1>2, <1>3, <1>4, <1>5, <1>6, SMTT(60) DEF Handshake

\* The invariant holds throughout.
THEOREM BringUpInvariance == Spec => []IInv
<1>1. Init => IInv
  BY FreshSound DEF Init, IInv
<1>2. IInv /\ [Next]_vars => IInv'
  <2> SUFFICES ASSUME IInv, [Next]_vars PROVE IInv'
    OBVIOUS
  <2>1. CASE Next
    BY <2>1, ConnectionSound, RequestsSound, HandshakeSound DEF IInv, Next
  <2>2. CASE UNCHANGED vars
    BY <2>2 DEF IInv, vars
  <2> QED BY <2>1, <2>2
<1> QED BY <1>1, <1>2, PTL DEF Spec

\* Every reachable state is well typed.
THEOREM BringUpTypeCorrect == Spec => []TypeOK
<1>1. IInv => TypeOK
  BY DEF IInv, Sound, TypeOK
<1> QED BY <1>1, BringUpInvariance, PTL

\* A connection that waits for the handshake has a current watchdog.
THEOREM WaitIsWatched == Spec => []AwaitingIsWatched
<1>1. IInv => AwaitingIsWatched
  BY DEF IInv, Sound, Watched, AwaitingIsWatched
<1> QED BY <1>1, BringUpInvariance, PTL

\* A watchdog that can give the connection up belongs to the wait that is on.
THEOREM WatchdogsAreOwn == Spec => []WatchdogIsOwn
<1>1. IInv => WatchdogIsOwn
  BY DEF IInv, Sound, Owned, WatchdogIsOwn
<1> QED BY <1>1, BringUpInvariance, PTL
=============================================================================
