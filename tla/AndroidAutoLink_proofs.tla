----------------------- MODULE AndroidAutoLink_proofs -----------------------
EXTENDS AndroidAutoLink, TLAPS

-----------------------------------------------------------------------------
(* The session bookkeeping *)

\* What every session operator keeps, O being the sessions of dead processes:
\* only the current row, an orphan or a row whose UPDATE was refused is open, the
\* current row is one that was created and not ended, and the heartbeat runs only
\* in the active state.
SessionOK(b, O) ==
  /\ b \in Bookkeeping
  /\ \A s \in Sid : b.rows[s] \in OpenRow => s = b.id \/ s \in O \union b.stale
  /\ b.id # NoSession => b.id \notin O /\ b.rows[b.id] \in {"negotiating", "active", "missing"}
  /\ \A s \in O : b.rows[s] # "fresh"
  /\ b.beat => b.state = "active"

\* From b to c the current session is kept or closed, and no other changes.
Settles(b, c) ==
  /\ c.id \in {b.id, NoSession}
  /\ \A s \in Sid : s # b.id => c.rows[s] = b.rows[s]
  /\ b.id \in Sid => c.rows[b.id] # "fresh"

\* From b to c the current session, if any, is closed and a new one opened.
Opens(b, c) ==
  \E n \in Sid :
    /\ b.rows[n] = "fresh" /\ c.id = n /\ n # b.id
    /\ \A s \in Sid \ {n, b.id} : c.rows[s] = b.rows[s]
    /\ b.id \in Sid => c.rows[b.id] # "fresh"

\* The current row says active, or is left negotiating by a refused UPDATE.
Recorded(b) ==
  \/ b.rows[b.id] \in {"active", "missing"}
  \/ b.rows[b.id] = "negotiating" /\ b.id \in b.stale

\* An UPDATE of the current row touches that row and its own mark only.
LEMMA SetRowKeeps ==
  ASSUME NEW b \in Bookkeeping, NEW st \in Statement, NEW to \in RowState
  PROVE  LET c == SetRow(b, st, to)
         IN  /\ c \in Bookkeeping
             /\ c.id = b.id /\ c.state = b.state /\ c.beat = b.beat /\ c.failing = b.failing
             /\ \A s \in Sid : s # b.id => c.rows[s] = b.rows[s] /\ (s \in c.stale <=> s \in b.stale)
             /\ b.id \in Sid =>
                  \/ c.rows[b.id] \in {"missing", to}
                  \/ c.rows[b.id] = b.rows[b.id] /\ b.id \in c.stale
             /\ b.id \in Sid => c.rows[b.id] = b.rows[b.id] \/ c.rows[b.id] = to
<1> DEFINE c == SetRow(b, st, to)
<1>1. CASE b.id \notin Sid
  BY <1>1 DEF SetRow
<1>2. CASE b.id \in Sid /\ b.rows[b.id] \in {"missing", to}
  <2>1. c = [b EXCEPT !.stale = @ \ {b.id}] BY <1>2 DEF SetRow
  <2> QED BY <1>2, <2>1 DEF Bookkeeping
<1>3. CASE b.id \in Sid /\ b.rows[b.id] \notin {"missing", to} /\ st \in b.failing
  <2>1. c = [b EXCEPT !.stale = @ \union {b.id}] BY <1>3 DEF SetRow
  <2> QED BY <1>3, <2>1 DEF Bookkeeping
<1>4. CASE b.id \in Sid /\ b.rows[b.id] \notin {"missing", to} /\ st \notin b.failing
  <2> DEFINE w == [b.rows EXCEPT ![b.id] = to]
             m == b.stale \ {b.id}
  <2>1. c = [b EXCEPT !.rows = w, !.stale = m] BY <1>4 DEF SetRow
  <2>2. w \in [Sid -> RowState] /\ w[b.id] = to /\ \A s \in Sid : s # b.id => w[s] = b.rows[s]
    BY <1>4 DEF Bookkeeping
  <2>3. m \in SUBSET Sid /\ \A s \in Sid : s # b.id => (s \in m <=> s \in b.stale)
    BY DEF Bookkeeping
  <2> HIDE DEF w, m
  <2>4. /\ c \in Bookkeeping /\ c.rows = w /\ c.stale = m
        /\ c.id = b.id /\ c.state = b.state /\ c.beat = b.beat /\ c.failing = b.failing
    BY <2>1, <2>2, <2>3 DEF Bookkeeping
  <2> QED BY <1>4, <2>2, <2>3, <2>4
<1> QED BY <1>1, <1>2, <1>3, <1>4

\* Ending the session keeps the bookkeeping sound.
LEMMA EndKeeps ==
  ASSUME NEW O \in SUBSET Sid, NEW b, SessionOK(b, O)
  PROVE  /\ SessionOK(EndCurrentSession(b), O)
         /\ Settles(b, EndCurrentSession(b))
         /\ EndCurrentSession(b).id = NoSession
         /\ EndCurrentSession(b).state = b.state
<1>1. CASE b.id = NoSession
  BY <1>1, NoSessionAssumption DEF SessionOK, Settles, EndCurrentSession
<1>2. CASE b.id # NoSession
  <2> DEFINE d == SetRow(b, "endSession", "ended")
             c == [d EXCEPT !.beat = FALSE, !.id = NoSession]
  <2>1. EndCurrentSession(b) = c BY <1>2 DEF EndCurrentSession
  <2>2. b \in Bookkeeping /\ b.id \in Sid BY <1>2 DEF SessionOK, Bookkeeping
  <2>3. "endSession" \in Statement /\ "ended" \in RowState BY DEF Statement, RowState
  <2>4. /\ d \in Bookkeeping /\ d.state = b.state
        /\ \A s \in Sid : s # b.id => d.rows[s] = b.rows[s] /\ (s \in d.stale <=> s \in b.stale)
        /\ d.rows[b.id] \in {"missing", "ended"} \/ (d.rows[b.id] = b.rows[b.id] /\ b.id \in d.stale)
    BY <2>2, <2>3, SetRowKeeps
  <2> HIDE DEF d
  <2>5. /\ c \in Bookkeeping /\ c.id = NoSession /\ ~c.beat /\ c.rows = d.rows /\ c.stale = d.stale
        /\ c.state = b.state
    BY <2>4 DEF Bookkeeping
  <2> HIDE DEF c
  <2>6. c.rows[b.id] # "fresh" /\ (c.rows[b.id] \in OpenRow => b.id \in c.stale)
    BY <1>2, <2>4, <2>5 DEF SessionOK, OpenRow
  <2>7. SessionOK(c, O) BY <2>2, <2>4, <2>5, <2>6, SMTT(60) DEF SessionOK
  <2> QED BY <2>1, <2>4, <2>5, <2>6, <2>7 DEF Settles
<1> QED BY <1>1, <1>2

\* A session transition keeps it sound, and leaves the state it was given.
LEMMA MoveKeeps ==
  ASSUME NEW O \in SUBSET Sid, NEW b, SessionOK(b, O), NEW to \in SessionState
  PROVE  LET c == TransitionToSessionState(b, to)
         IN  /\ SessionOK(c, O)
             /\ Settles(b, c)
             /\ c.state = to
             /\ to = "negotiating" \/ to = "active" => c.id = b.id
             /\ to \in {"ended", "error"} /\ b.state # to => c.id = NoSession
             /\ b.state # to /\ to = "active" => c.beat
             /\ b.state # to /\ b.id # NoSession /\ to = "active" => Recorded(c)
<1>1. CASE b.state = to
  BY <1>1, NoSessionAssumption DEF SessionOK, Settles, TransitionToSessionState
<1>2. CASE b.state # to
  <2> DEFINE d == SetRow(b, to, to)
             m == [d EXCEPT !.state = to, !.beat = (to = "active")]
  <2>1. b \in Bookkeeping /\ b.id \in Sid \union {NoSession} BY DEF SessionOK, Bookkeeping
  <2>2. to \in Statement /\ to \in RowState BY DEF Statement, SessionState, RowState, OpenRow
  <2>3. /\ d \in Bookkeeping /\ d.id = b.id
        /\ \A s \in Sid : s # b.id => d.rows[s] = b.rows[s] /\ (s \in d.stale <=> s \in b.stale)
        /\ b.id \in Sid =>
             d.rows[b.id] \in {"missing", to} \/ (d.rows[b.id] = b.rows[b.id] /\ b.id \in d.stale)
        /\ b.id \in Sid => d.rows[b.id] = b.rows[b.id] \/ d.rows[b.id] = to
    BY <2>1, <2>2, SetRowKeeps
  <2> HIDE DEF d
  <2>4. /\ m \in Bookkeeping /\ m.id = b.id /\ m.rows = d.rows /\ m.stale = d.stale
        /\ m.state = to /\ (m.beat <=> to = "active")
    BY <2>3 DEF Bookkeeping
  <2>5. /\ to \in {"negotiating", "active"} => TransitionToSessionState(b, to) = m
        /\ to \in {"ended", "error"} => TransitionToSessionState(b, to) = EndCurrentSession(m)
    BY <1>2 DEF TransitionToSessionState, d
  <2> HIDE DEF m
  <2>6. b.id \in Sid => d.rows[b.id] # "fresh" /\ b.id \notin O
    BY <2>2, <2>3, NoSessionAssumption DEF SessionOK, SessionState
  <2>7. Settles(b, m) BY <2>3, <2>4, <2>6 DEF Settles
  <2>8. CASE to \in {"negotiating", "active"}
    <3>1. b.id \in Sid => m.rows[m.id] \in {"negotiating", "active", "missing"}
      BY <2>3, <2>4, <2>8, NoSessionAssumption DEF SessionOK
    <3>2. SessionOK(m, O)
      BY <2>1, <2>3, <2>4, <2>6, <3>1, NoSessionAssumption, SMTT(60) DEF SessionOK
    <3>3. to = "active" /\ b.id # NoSession => Recorded(m)
      BY <2>1, <2>3, <2>4, <2>8, <3>1 DEF Recorded
    <3> QED BY <1>2, <2>4, <2>5, <2>7, <2>8, <3>2, <3>3
  <2>9. CASE to \in {"ended", "error"}
    <3> DEFINE c == EndCurrentSession(m)
    <3>1. CASE b.id = NoSession
      <4>1. c = m BY <2>4, <3>1 DEF EndCurrentSession
      <4>2. SessionOK(m, O)
        BY <2>3, <2>4, <2>9, <3>1, NoSessionAssumption, SMTT(60) DEF SessionOK
      <4> QED BY <1>2, <2>4, <2>5, <2>7, <2>9, <3>1, <4>1, <4>2
    <3>2. CASE b.id # NoSession
      <4> DEFINE e == SetRow(m, "endSession", "ended")
      <4>1. c = [e EXCEPT !.beat = FALSE, !.id = NoSession] BY <2>4, <3>2 DEF EndCurrentSession
      <4>2. "endSession" \in Statement /\ "ended" \in RowState BY DEF Statement, RowState
      <4>3. /\ e \in Bookkeeping /\ e.state = m.state
            /\ \A s \in Sid : s # b.id => e.rows[s] = m.rows[s] /\ (s \in e.stale <=> s \in m.stale)
            /\ e.rows[b.id] \in {"missing", "ended"} \/ (e.rows[b.id] = m.rows[b.id] /\ b.id \in e.stale)
        BY <2>1, <2>4, <3>2, <4>2, SetRowKeeps
      <4> HIDE DEF e
      <4>4. /\ c \in Bookkeeping /\ c.id = NoSession /\ ~c.beat /\ c.rows = e.rows
            /\ c.stale = e.stale /\ c.state = to
        BY <2>4, <4>1, <4>3 DEF Bookkeeping
      <4> HIDE DEF c
      <4>5. c.rows[b.id] # "fresh" /\ (c.rows[b.id] \in OpenRow => b.id \in c.stale)
        BY <2>1, <2>4, <2>6, <3>2, <4>3, <4>4 DEF OpenRow
      <4>6. SessionOK(c, O)
        BY <2>1, <2>3, <2>4, <3>2, <4>3, <4>4, <4>5, SMTT(60) DEF SessionOK
      <4>7. Settles(b, c) BY <2>3, <2>4, <4>3, <4>4, <4>5 DEF Settles
      <4>8. TransitionToSessionState(b, to) = c BY <2>5, <2>9 DEF c
      <4> QED BY <2>9, <4>4, <4>6, <4>7, <4>8
    <3> QED BY <3>1, <3>2
  <2> QED BY <2>8, <2>9 DEF SessionState
<1> QED BY <1>1, <1>2

\* So does the session transition of a connection state.
LEMMA StateKeeps ==
  ASSUME NEW O \in SUBSET Sid, NEW b, SessionOK(b, O), NEW to \in ConnectionState
  PROVE  LET c == OnConnectionState(b, to)
         IN  /\ SessionOK(c, O) /\ Settles(b, c)
             /\ to = "CONNECTED" => c.state = "active" /\ c.id = b.id
             /\ to = "CONNECTING" => c.state = "negotiating" /\ c.id = b.id
             /\ to \in {"SEARCHING", "DISCONNECTING"} => c = b
             /\ to = "ERROR" => c.state = "error" /\ (b.state # "error" => c.id = NoSession)
             /\ to = "DISCONNECTED" =>
                  c.state # "active" /\ (b.state \in {"active", "negotiating"} => c.id = NoSession)
<1> DEFINE c == OnConnectionState(b, to)
<1>0. SessionOK(b, O) /\ Settles(b, b)
  BY NoSessionAssumption DEF SessionOK, Settles
<1>1. CASE to = "CONNECTED"
  <2>1. c = TransitionToSessionState(b, "active") BY <1>1 DEF OnConnectionState
  <2>2. "active" \in SessionState BY DEF SessionState
  <2> QED BY <1>1, <2>1, <2>2, MoveKeeps
<1>2. CASE to = "CONNECTING"
  <2>1. c = TransitionToSessionState(b, "negotiating") BY <1>2 DEF OnConnectionState
  <2>2. "negotiating" \in SessionState BY DEF SessionState
  <2> QED BY <1>2, <2>1, <2>2, MoveKeeps
<1>3. CASE to \in {"SEARCHING", "DISCONNECTING"}
  BY <1>0, <1>3 DEF OnConnectionState
<1>4. CASE to = "ERROR"
  <2>1. c = TransitionToSessionState(b, "error") BY <1>4 DEF OnConnectionState
  <2>2. "error" \in SessionState BY DEF SessionState
  <2> QED BY <1>4, <2>1, <2>2, MoveKeeps
<1>5. CASE to = "DISCONNECTED" /\ b.state \in {"active", "negotiating"}
  <2>1. c = TransitionToSessionState(b, "ended") BY <1>5 DEF OnConnectionState
  <2>2. "ended" \in SessionState BY DEF SessionState
  <2> QED BY <1>5, <2>1, <2>2, MoveKeeps
<1>6. CASE to = "DISCONNECTED" /\ b.state \notin {"active", "negotiating"}
  BY <1>0, <1>6 DEF OnConnectionState
<1> QED BY <1>1, <1>2, <1>3, <1>4, <1>5, <1>6 DEF ConnectionState

-----------------------------------------------------------------------------
(* The link *)

LinkOK(l, O) ==
  /\ l \in Link
  /\ SessionOK(l.session, O)
  /\ l.teardown => l.chan = "none" /\ ~l.handler /\ ~l.armed /\ ~l.others
  /\ l.accepting => Transport = "tcp"

\* What the helpers leave to the recoveries.
SameRecovery(l, r) ==
  r.timers = l.timers /\ r.gone = l.gone /\ (r.idle => l.idle)

\* A connection transition reaches its state and keeps the link sound.
LEMMA TransitionKeeps ==
  ASSUME NEW O \in SUBSET Sid, NEW l, LinkOK(l, O), NEW to \in ConnectionState
  PROVE  LET r == Transition(l, to)
         IN  /\ LinkOK(r, O) /\ Settles(l.session, r.session) /\ SameRecovery(l, r)
             /\ r.state = to
             /\ l.state = to => r = l
             /\ l.state # to => r.session = OnConnectionState(l.session, to)
<1>1. CASE l.state = to
  BY <1>1, NoSessionAssumption DEF Transition, LinkOK, SessionOK, Settles, SameRecovery
<1>2. CASE l.state # to
  <2> DEFINE c == OnConnectionState(l.session, to)
             r == Transition(l, to)
  <2>1. SessionOK(c, O) /\ Settles(l.session, c)
    BY StateKeeps DEF LinkOK
  <2>2. c \in Bookkeeping BY <2>1 DEF SessionOK
  <2>3. r.state = to /\ r.session = c /\ r \in Link /\ r.teardown = l.teardown /\ r.chan = l.chan /\ r.handler = l.handler
         /\ r.armed = l.armed /\ r.others = l.others /\ r.accepting = l.accepting /\ r.timers = l.timers /\ r.gone = l.gone /\ (r.idle => l.idle)
    BY <1>2, <2>2, ZenonT(90) DEF Transition, Publish, LinkOK, Link, Watchable
  <2> QED BY <1>2, <2>1, <2>3 DEF LinkOK, SameRecovery
<1> QED BY <1>1, <1>2

\* From l to r neither the connection state nor the session moves.
Quiet(l, r, O) ==
  LinkOK(r, O) /\ r.session = l.session /\ r.state = l.state /\ SameRecovery(l, r)

\* The helpers of the teardown and the set-up do not move state or session.
LEMMA HelpersQuiet ==
  ASSUME NEW O \in SUBSET Sid, NEW l, LinkOK(l, O), NEW ok \in BOOLEAN
  PROVE  /\ Quiet(l, Publish(l), O)
         /\ Quiet(l, ResetProjection(l), O) /\ ~ResetProjection(l).idle
         /\ Quiet(l, StopMessenger(l), O)
         /\ Quiet(l, CleanupChannels(l), O) /\ ~CleanupChannels(l).idle
         /\ Quiet(l, CleanupAASDK(l), O) /\ ~CleanupAASDK(l).idle
         /\ Quiet(l, SetupAASDK(l, ok), O)
         /\ Quiet(l, StopDetection(l), O)
         /\ Quiet(l, SetupChannels(l, ok), O)
         /\ Quiet(l, ArmControl(l), O)
<1>1. Quiet(l, Publish(l), O)
  BY DEF Quiet, LinkOK, SameRecovery, Link, Publish, Watchable
<1>2. Quiet(l, ResetProjection(l), O) /\ ~ResetProjection(l).idle
  BY ZenonT(90) DEF Quiet, LinkOK, SameRecovery, Link, ResetProjection, Progress
<1> DEFINE d == ReceivesDetached(l)
<1>0. Quiet(l, d, O) /\ d.chan = l.chan /\ ~d.armed /\ ~d.others
  BY ZenonT(90) DEF Quiet, LinkOK, SameRecovery, Link, ReceivesDetached
<1> HIDE DEF d
<1>3. Quiet(l, StopMessenger(l), O)
  <2>1. Quiet(d, [d EXCEPT !.chan = IF @ = "live" THEN "stopped" ELSE @], O)
    BY <1>0 DEF Quiet, LinkOK, SameRecovery, Link
  <2> QED BY <1>0, <2>1 DEF StopMessenger, d, Quiet, SameRecovery
<1>4. Quiet(l, CleanupChannels(l), O) /\ ~CleanupChannels(l).idle
  <2> DEFINE e == [d EXCEPT !.teardown = TRUE, !.chan = "none", !.handler = FALSE, !.wrapper = FALSE]
  <2>1. Quiet(d, e, O)
    BY <1>0, ZenonT(90) DEF Quiet, LinkOK, SameRecovery, Link
  <2> HIDE DEF e
  <2>2. Quiet(e, ResetProjection(e), O) /\ ~ResetProjection(e).idle
    BY <2>1, ZenonT(90) DEF Quiet, LinkOK, SameRecovery, Link, ResetProjection, Progress
  <2>3. CleanupChannels(l) = ResetProjection(e) BY DEF CleanupChannels, d, e
  <2> QED BY <1>0, <2>1, <2>2, <2>3 DEF Quiet, SameRecovery
<1>5. Quiet(l, CleanupAASDK(l), O) /\ ~CleanupAASDK(l).idle
  <2> DEFINE e == CleanupChannels(l)
  <2>1. Quiet(l, e, O) /\ ~e.idle BY <1>4
  <2> HIDE DEF e
  <2>2. e.teardown \in BOOLEAN /\ e.hub \in {"idle", "waiting", "reported"}
    BY <2>1 DEF Quiet, LinkOK, Link
  <2> DEFINE h == IF e.hub = "waiting" THEN "reported" ELSE e.hub
             f == [e EXCEPT !.aasdk = FALSE, !.polling = FALSE, !.hub = h,
                            !.late = FALSE, !.accepting = FALSE]
  <2>3. h \in {"idle", "waiting", "reported"} BY <2>2
  <2>4. CleanupAASDK(l) = f BY DEF CleanupAASDK, e
  <2> HIDE DEF h
  <2>5. Quiet(e, f, O) /\ ~f.idle BY <2>1, <2>3, ZenonT(90) DEF Quiet, LinkOK, SameRecovery, Link
  <2> HIDE DEF f
  <2> QED BY <2>1, <2>4, <2>5 DEF Quiet, SameRecovery
<1>6. Quiet(l, SetupAASDK(l, ok), O)
  <2> DEFINE e == StopMessenger(l)
  <2>1. Quiet(l, e, O) BY <1>3
  <2> HIDE DEF e
  <2> DEFINE a == e.aasdk \/ ok
             f == [e EXCEPT !.teardown = FALSE, !.aasdk = a, !.late = FALSE, !.accepting = FALSE]
  <2>2. a \in BOOLEAN BY DEF LinkOK, Link
  <2>3. SetupAASDK(l, ok) = f BY DEF SetupAASDK, e
  <2> HIDE DEF a
  <2>4. Quiet(e, f, O) BY <2>1, <2>2, ZenonT(90) DEF Quiet, LinkOK, SameRecovery, Link
  <2> HIDE DEF f
  <2> QED BY <2>1, <2>3, <2>4 DEF Quiet, SameRecovery
<1>7. Quiet(l, StopDetection(l), O)
  BY ZenonT(90) DEF Quiet, LinkOK, SameRecovery, Link, StopDetection
<1>8. Quiet(l, SetupChannels(l, ok), O)
  <2>1. Quiet(d, [d EXCEPT !.chan = "live", !.teardown = FALSE], O)
    BY <1>0, ZenonT(90) DEF Quiet, LinkOK, SameRecovery, Link
  <2>2. Quiet(l, l, O) BY DEF Quiet, SameRecovery
  <2> QED BY <1>0, <2>1, <2>2 DEF SetupChannels, d, Quiet, SameRecovery
<1>9. Quiet(l, ArmControl(l), O)
  <2> DEFINE live == l.chan = "live"
             early == live /\ ~DeferReceives
             f == [l EXCEPT !.handler = TRUE, !.armed = live, !.others = early]
  <2>1. CASE l.chan = "none" \/ l.handler
    BY <2>1 DEF ArmControl, Quiet, SameRecovery
  <2>2. CASE ~(l.chan = "none" \/ l.handler)
    <3>1. ArmControl(l) = f BY <2>2 DEF ArmControl
    <3>2. live \in BOOLEAN /\ early \in BOOLEAN /\ ~l.teardown BY <2>2 DEF LinkOK
    <3> HIDE DEF live, early
    <3>3. Quiet(l, f, O) BY <3>2, ZenonT(90) DEF Quiet, LinkOK, SameRecovery, Link
    <3> QED BY <3>1, <3>3
  <2> QED BY <2>1, <2>2
<1> QED BY <1>1, <1>2, <1>3, <1>4, <1>5, <1>6, <1>7, <1>8, <1>9

\* The session follows the connection state between two actions.
Follows(l) ==
  /\ l.state # "DISCONNECTING"
  /\ l.state = "CONNECTED" => l.session.state = "active"
  /\ l.state = "CONNECTING" => l.session.state = "negotiating"
  /\ l.state \in {"DISCONNECTED", "SEARCHING", "ERROR"} =>
       l.session.id = NoSession /\ l.session.state # "active"

\* Settling composes.
LEMMA SettlesTwice ==
  ASSUME NEW b, NEW c, NEW d, Settles(b, c), Settles(c, d), b.id \in Sid \union {NoSession}
  PROVE  Settles(b, d)
BY NoSessionAssumption DEF Settles

\* disconnect() leaves a sound link that is not connected.
LEMMA DisconnectKeeps ==
  ASSUME NEW O \in SUBSET Sid, NEW l, LinkOK(l, O), Follows(l)
  PROVE  LET r == Disconnect(l)
         IN  /\ LinkOK(r, O) /\ Follows(r) /\ Settles(l.session, r.session) /\ SameRecovery(l, r)
             /\ r.state = IF l.state \in {"CONNECTED", "CONNECTING"} THEN "DISCONNECTED" ELSE l.state
             /\ l.state = "CONNECTED" => ~r.idle
             /\ l.state \notin {"CONNECTED", "CONNECTING"} => r = l
<1>1. CASE l.state \notin {"CONNECTED", "CONNECTING"}
  BY <1>1, NoSessionAssumption DEF Disconnect, LinkOK, SessionOK, Settles, SameRecovery
<1>2. CASE l.state \in {"CONNECTED", "CONNECTING"}
  <2> DEFINE l1 == Transition(l, "DISCONNECTING")
             l2 == StopMessenger(l1)
             l3 == ResetProjection(l2)
             l4 == Transition(l3, "DISCONNECTED")
  <2>0. Disconnect(l) = l4 BY <1>2 DEF Disconnect
  <2>1. /\ LinkOK(l1, O) /\ SameRecovery(l, l1)
        /\ l1.state = "DISCONNECTING" /\ l1.session = l.session
    BY <1>2, TransitionKeeps, StateKeeps, "DISCONNECTING" \in ConnectionState
       DEF ConnectionState, LinkOK
  <2>2. Quiet(l1, l2, O) BY <2>1, HelpersQuiet
  <2>3. Quiet(l2, l3, O) /\ ~l3.idle BY <2>2, HelpersQuiet, ZenonT(90) DEF Quiet
  <2>4. /\ LinkOK(l4, O) /\ SameRecovery(l3, l4) /\ Settles(l3.session, l4.session)
        /\ l4.state = "DISCONNECTED" /\ l4.session = OnConnectionState(l3.session, "DISCONNECTED")
    BY <2>1, <2>2, <2>3, TransitionKeeps DEF Quiet, ConnectionState
  <2>5. l3.session = l.session /\ l3.session.state \in {"active", "negotiating"}
    BY <1>2, <2>1, <2>2, <2>3 DEF Quiet, Follows
  <2>6. l4.session.state # "active" /\ l4.session.id = NoSession
    BY <2>4, <2>5, <2>3, StateKeeps DEF Quiet, LinkOK, ConnectionState
  <2>7. SameRecovery(l, l4) /\ ~l4.idle
    BY <2>1, <2>2, <2>3, <2>4 DEF Quiet, SameRecovery
  <2> QED BY <1>2, <2>0, <2>4, <2>5, <2>6, <2>7 DEF Follows
<1> QED BY <1>1, <1>2

\* What a step may do to the sessions: close the open one, or open a new one.
Step(b, c) == Settles(b, c) \/ Opens(b, c)

\* The connected phone's session is the active one, with its heartbeat.
Live(l) ==
  /\ l.session.beat
  /\ StoreOpen => l.session.id \in Sid /\ Recorded(l.session)

\* A step that connects does it with a live session.
KeepsLive(l, r) ==
  r.state = "CONNECTED" => Live(r) \/ (l.state = "CONNECTED" /\ r.session = l.session)

\* A step of the session after one that only settles is one step.
LEMMA StepAfterSettles ==
  ASSUME NEW b, NEW c, NEW d, Settles(b, c), Step(c, d), b.id \in Sid \union {NoSession}
  PROVE  Step(b, d)
<1>1. CASE Settles(c, d) BY <1>1, SettlesTwice DEF Step
<1>2. CASE Opens(c, d)
  <2>1. PICK n \in Sid :
          /\ c.rows[n] = "fresh" /\ d.id = n /\ n # c.id
          /\ \A s \in Sid \ {n, c.id} : d.rows[s] = c.rows[s]
          /\ c.id \in Sid => d.rows[c.id] # "fresh"
    BY <1>2 DEF Opens
  <2>2. n # b.id BY <2>1, NoSessionAssumption DEF Settles
  <2>3. b.rows[n] = "fresh" BY <2>1, <2>2 DEF Settles
  <2>4. \A s \in Sid \ {n, b.id} : d.rows[s] = b.rows[s]
    BY <2>1, NoSessionAssumption, ZenonT(90) DEF Settles
  <2>5. b.id \in Sid => d.rows[b.id] # "fresh"
    BY <2>1, <2>2, NoSessionAssumption DEF Settles
  <2> QED BY <2>1, <2>2, <2>3, <2>4, <2>5 DEF Step, Opens
<1> QED BY <1>1, <1>2 DEF Step

\* And so is one that settles after a step.
LEMMA SettlesAfterStep ==
  ASSUME NEW b, NEW c, NEW d, Step(b, c), Settles(c, d), d.id = c.id,
         b.id \in Sid \union {NoSession}, c.id \in Sid \union {NoSession}
  PROVE  Step(b, d)
<1>1. CASE Settles(b, c) BY <1>1, SettlesTwice DEF Step
<1>2. CASE Opens(b, c) BY <1>2 DEF Opens, Settles, Step
<1> QED BY <1>1, <1>2 DEF Step

\* Opening a session closes the current one and uses a new id.
LEMMA SessionsOpenedKeeps ==
  ASSUME NEW O \in SUBSET Sid, NEW b, SessionOK(b, O), NEW c \in SessionsOpened(b)
  PROVE  /\ SessionOK(c, O) /\ Step(b, c) /\ c.state = b.state
         /\ StoreOpen => c.id \in Sid /\ c.rows[c.id] \in {"negotiating", "missing"}
<1>1. CASE ~StoreOpen
  BY <1>1, NoSessionAssumption DEF SessionsOpened, SessionOK, Step, Settles
<1>2. CASE StoreOpen
  <2>1. PICK s \in Sid, i \in BOOLEAN : b.rows[s] = "fresh" /\ c = CreateSession(b, s, i)
    BY <1>2 DEF SessionsOpened
  <2> DEFINE e == EndCurrentSession(b)
             w == IF i THEN "negotiating" ELSE "missing"
  <2>2. SessionOK(e, O) /\ Settles(b, e) /\ e.id = NoSession /\ e.state = b.state
    BY EndKeeps
  <2> HIDE DEF e
  <2>3. w \in {"negotiating", "missing"} /\ w \in RowState BY DEF RowState, OpenRow
  <2>4. c = [e EXCEPT !.id = s, !.rows = [e.rows EXCEPT ![s] = w]]
    BY <1>2, <2>1 DEF CreateSession, e
  <2> HIDE DEF w
  <2>5. s # b.id /\ s \notin O BY <2>1, NoSessionAssumption DEF SessionOK
  <2>6. e.rows[s] = "fresh" BY <2>1, <2>2, <2>5 DEF Settles
  <2>7. SessionOK(c, O) /\ c.state = e.state /\ c.id = s /\ c.rows = [e.rows EXCEPT ![s] = w]
    BY <2>2, <2>3, <2>4, <2>5, <2>6, NoSessionAssumption, ZenonT(90) DEF SessionOK, Bookkeeping
  <2>8. e.rows \in [Sid -> RowState] BY <2>2 DEF SessionOK, Bookkeeping
  <2>9. c.rows[s] = w /\ \A t \in Sid \ {s} : c.rows[t] = e.rows[t] BY <2>7, <2>8
  <2>10. Opens(e, c) BY <2>2, <2>6, <2>7, <2>9, NoSessionAssumption DEF Opens
  <2>11. Step(b, c) BY <2>2, <2>10, StepAfterSettles DEF Step, SessionOK, Bookkeeping
  <2> QED BY <2>2, <2>3, <2>7, <2>9, <2>11
<1> QED BY <1>1, <1>2

\* Every established connection is sound and, if new, has a live session.
LEMMA EstablishedKeeps ==
  ASSUME NEW O \in SUBSET Sid, NEW l, LinkOK(l, O), NEW r \in Established(l), Follows(l)
  PROVE  /\ LinkOK(r, O) /\ Follows(r) /\ Step(l.session, r.session)
         /\ r.state = "CONNECTED" /\ r.timers = l.timers /\ ~r.gone /\ ~r.idle
         /\ l.state # "CONNECTED" => Live(r)
<1> DEFINE l1 == ResetProjection(l)
           l2 == ArmControl(l1)
           l3 == [l2 EXCEPT !.gone = FALSE]
<1>1. Quiet(l, l1, O) /\ ~l1.idle BY HelpersQuiet
<1>2. Quiet(l1, l2, O) BY <1>1, HelpersQuiet DEF Quiet
<1>3. LinkOK(l2, O) /\ ~l2.idle /\ l2.session = l.session /\ l2.state = l.state /\ l2.timers = l.timers
  BY <1>1, <1>2 DEF Quiet, SameRecovery
<1>4. PICK b \in SessionsOpened(l.session) : r = Transition([l3 EXCEPT !.session = b], "CONNECTED")
  BY DEF Established
<1> HIDE DEF l2
<1> DEFINE l4 == [l3 EXCEPT !.session = b]
<1>5. /\ SessionOK(b, O) /\ Step(l.session, b) /\ b.state = l.session.state
      /\ StoreOpen => b.id \in Sid /\ b.rows[b.id] \in {"negotiating", "missing"}
  BY SessionsOpenedKeeps DEF LinkOK
<1>13. b \in Bookkeeping BY <1>5 DEF SessionOK
<1>14. /\ l2 \in Link
       /\ l2.accepting => Transport = "tcp"
       /\ l2.teardown => l2.chan = "none" /\ ~l2.handler /\ ~l2.armed /\ ~l2.others
  BY <1>3 DEF LinkOK
<1>15. /\ l4 \in Link /\ l4.session = b /\ ~l4.gone
       /\ l4.state = l2.state /\ l4.timers = l2.timers /\ l4.idle = l2.idle
       /\ l4.accepting = l2.accepting /\ l4.teardown = l2.teardown /\ l4.chan = l2.chan
       /\ l4.handler = l2.handler /\ l4.armed = l2.armed /\ l4.others = l2.others
  BY <1>13, <1>14, ZenonT(90) DEF Link
<1>6. /\ LinkOK(l4, O) /\ l4.session = b /\ l4.state = l.state /\ l4.timers = l.timers
      /\ ~l4.gone /\ ~l4.idle
  BY <1>3, <1>5, <1>14, <1>15 DEF LinkOK
<1>12. r = Transition(l4, "CONNECTED") BY <1>4
<1> HIDE DEF l4
<1>7. "CONNECTED" \in ConnectionState BY DEF ConnectionState
<1>8. /\ LinkOK(r, O) /\ Settles(b, r.session) /\ SameRecovery(l4, r) /\ r.state = "CONNECTED"
      /\ l.state = "CONNECTED" => r = l4
      /\ l.state # "CONNECTED" => r.session = OnConnectionState(b, "CONNECTED")
  BY <1>12, <1>6, <1>7, TransitionKeeps
<1>9. /\ r.timers = l.timers /\ ~r.gone /\ ~r.idle
  BY <1>6, <1>8 DEF SameRecovery
<1>10. CASE l.state = "CONNECTED"
  BY <1>5, <1>6, <1>8, <1>9, <1>10 DEF Follows
<1>11. CASE l.state # "CONNECTED"
  <2>1. r.session.state = "active" /\ r.session.id = b.id
    BY <1>5, <1>7, <1>8, <1>11, StateKeeps
  <2>2. Step(l.session, r.session)
    BY <1>5, <1>8, <2>1, SettlesAfterStep DEF LinkOK, SessionOK, Bookkeeping
  <2>3. Live(r)
    <3>1. b.state # "active"
      BY <1>5, <1>11 DEF Follows, LinkOK, Link, ConnectionState
    <3>2. r.session = TransitionToSessionState(b, "active")
      BY <1>8, <1>11 DEF OnConnectionState
    <3>3. "active" \in SessionState BY DEF SessionState
    <3>4. r.session.beat /\ (b.id # NoSession => Recorded(r.session))
      BY <1>5, <3>1, <3>2, <3>3, MoveKeeps
    <3> QED BY <1>5, <2>1, <3>4, NoSessionAssumption DEF Live
  <2> QED BY <1>8, <1>9, <1>11, <2>1, <2>2, <2>3 DEF Follows
<1> QED BY <1>10, <1>11

\* Also when the channels were set up, or failed to be, on the way.
LEMMA EstablishedOverKeeps ==
  ASSUME NEW O \in SUBSET Sid, NEW l, LinkOK(l, O), NEW r \in EstablishedOver(l), Follows(l)
  PROVE  /\ LinkOK(r, O) /\ Follows(r) /\ Step(l.session, r.session)
         /\ r.state = "CONNECTED" /\ r.timers = l.timers /\ ~r.gone /\ ~r.idle
         /\ l.state # "CONNECTED" => Live(r)
<1>1. PICK ok \in BOOLEAN : r \in Established(SetupChannels(l, ok)) BY DEF EstablishedOver
<1> DEFINE m == SetupChannels(l, ok)
<1>2. Quiet(l, m, O) BY HelpersQuiet
<1>3. r \in Established(m) BY <1>1
<1> HIDE DEF m
<1>4. LinkOK(m, O) /\ Follows(m) /\ m.session = l.session /\ m.state = l.state /\ m.timers = l.timers
  BY <1>2 DEF Quiet, Follows, SameRecovery
<1> QED BY <1>3, <1>4, EstablishedKeeps

\* What a search leaves behind.
Searched(l, r, O) ==
  /\ LinkOK(r, O) /\ Follows(r) /\ Step(l.session, r.session) /\ KeepsLive(l, r)
  /\ ~r.gone /\ ~r.idle
  /\ \A k \in Kind \ {"startup"} : r.timers[k] = l.timers[k]
  /\ Transport = "usb" /\ r.state = "CONNECTED" => l.state = "CONNECTED"

\* A search over TCP leaves a sound link.
LEMMA WirelessKeeps ==
  ASSUME NEW O \in SUBSET Sid, NEW l, LinkOK(l, O), Follows(l), l.state = "DISCONNECTED",
         Transport = "tcp", ~l.gone, ~l.idle, NEW r \in SearchWireless(l)
  PROVE  Searched(l, r, O)
<1>1. PICK h \in BOOLEAN :
        LET f == Transition([l EXCEPT !.host = h], "CONNECTING")
        IN  r \in ConnectToHost(f) \/ r \in ListenForPhone(f)
  BY ZenonT(90) DEF SearchWireless, LinkOK, Link
<1> DEFINE e == [l EXCEPT !.host = h]
           f == Transition(e, "CONNECTING")
<1>2. LinkOK(e, O) /\ e.session = l.session /\ e.state = l.state /\ SameRecovery(l, e)
  BY DEF LinkOK, Link, SameRecovery
<1>3. r \in ConnectToHost(f) \/ r \in ListenForPhone(f) BY <1>1
<1> HIDE DEF e
<1>4. "CONNECTING" \in ConnectionState /\ "DISCONNECTED" \in ConnectionState /\ "SEARCHING" \in ConnectionState
  BY DEF ConnectionState
<1>5. /\ LinkOK(f, O) /\ Settles(l.session, f.session) /\ f.state = "CONNECTING"
      /\ f.session = OnConnectionState(l.session, "CONNECTING") /\ SameRecovery(e, f)
  BY <1>2, <1>4, TransitionKeeps
<1>6. f.session.state = "negotiating" /\ f.session.id = NoSession
  BY <1>4, <1>5, StateKeeps DEF LinkOK, Follows
<1>7. Follows(f) /\ SameRecovery(l, f) BY <1>2, <1>5, <1>6 DEF Follows, SameRecovery
<1> HIDE DEF f
<1> DEFINE w == f.wrapper \/ f.aasdk
           g == [f EXCEPT !.wrapper = w]
<1>8. w \in BOOLEAN BY DEF LinkOK
<1>9. (f.wrapper \/ f.aasdk) = w BY DEF w
<1> HIDE DEF w
<1>10. LinkOK(g, O) /\ g.session = f.session /\ g.state = f.state /\ SameRecovery(f, g)
  BY <1>5, <1>8 DEF LinkOK, Link, SameRecovery
<1>11. r = Transition(g, "DISCONNECTED") \/ r \in EstablishedOver(g)
        \/ r = Transition([g EXCEPT !.accepting = TRUE], "SEARCHING")
  BY <1>3, <1>9 DEF ConnectToHost, ListenForPhone
<1> HIDE DEF g
<1>12. Step(l.session, l.session) /\ SameRecovery(l, g) /\ Follows(g) /\ Settles(l.session, g.session)
  BY <1>5, <1>6, <1>7, <1>10, NoSessionAssumption DEF Step, Settles, LinkOK, SessionOK, SameRecovery, Follows
<1>13. CASE r = Transition(g, "DISCONNECTED")
  <2>1. /\ LinkOK(r, O) /\ Settles(g.session, r.session) /\ SameRecovery(g, r) /\ r.state = "DISCONNECTED"
        /\ r.session = OnConnectionState(g.session, "DISCONNECTED")
    BY <1>4, <1>5, <1>10, <1>13, TransitionKeeps
  <2>2. r.session.state # "active" /\ r.session.id = NoSession
    BY <1>4, <1>6, <1>10, <2>1, StateKeeps DEF LinkOK
  <2>3. Step(l.session, r.session)
    BY <1>12, <2>1, SettlesTwice DEF Step, LinkOK, SessionOK, Bookkeeping
  <2> QED BY <1>12, <2>1, <2>2, <2>3 DEF Searched, Follows, KeepsLive, SameRecovery
<1>14. CASE r \in EstablishedOver(g)
  <2>1. /\ LinkOK(r, O) /\ Follows(r) /\ Step(g.session, r.session)
        /\ r.state = "CONNECTED" /\ r.timers = g.timers /\ ~r.gone /\ ~r.idle /\ Live(r)
    BY <1>5, <1>10, <1>12, <1>14, EstablishedOverKeeps
  <2>2. Step(l.session, r.session)
    BY <1>12, <2>1, StepAfterSettles DEF LinkOK, SessionOK, Bookkeeping
  <2> QED BY <1>12, <2>1, <2>2 DEF Searched, KeepsLive, SameRecovery
<1>15. CASE r = Transition([g EXCEPT !.accepting = TRUE], "SEARCHING")
  <2> DEFINE a == [g EXCEPT !.accepting = TRUE]
  <2>1. LinkOK(a, O) /\ a.session = g.session /\ a.state = g.state /\ SameRecovery(g, a)
    BY <1>10, ZenonT(90) DEF LinkOK, Link, SameRecovery
  <2>2. r = Transition(a, "SEARCHING") BY <1>15
  <2> HIDE DEF a
  <2>3. /\ LinkOK(r, O) /\ Settles(a.session, r.session) /\ SameRecovery(a, r) /\ r.state = "SEARCHING"
        /\ r.session = OnConnectionState(a.session, "SEARCHING")
    BY <1>4, <1>5, <1>10, <2>1, <2>2, TransitionKeeps
  <2>4. r.session = g.session BY <1>4, <2>1, <2>3, StateKeeps DEF LinkOK
  <2> QED BY <1>6, <1>10, <1>12, <2>1, <2>3, <2>4 DEF Searched, Follows, KeepsLive, SameRecovery, Step
<1> QED BY <1>11, <1>13, <1>14, <1>15

\* startSearching leaves a sound link whose recovery flags are clear.
LEMMA SearchKeeps ==
  ASSUME NEW O \in SUBSET Sid, NEW l, LinkOK(l, O), Follows(l), NEW r \in StartSearching(l)
  PROVE  Searched(l, r, O)
<1> DEFINE g == [l EXCEPT !.gone = FALSE]
           c == ResetProjection(g)
<1>1. LinkOK(g, O) /\ g.session = l.session /\ g.state = l.state /\ g.timers = l.timers /\ ~g.gone
  BY ZenonT(90) DEF LinkOK, Link
<1>2. \/ c.state # "DISCONNECTED" /\ r = c
      \/ c.state = "DISCONNECTED" /\ Transport = "tcp" /\ r \in SearchWireless(c)
      \/ c.state = "DISCONNECTED" /\ Transport # "tcp"
           /\ r = Start(Transition([c EXCEPT !.hub = "idle"], "SEARCHING"), "startup")
  BY DEF StartSearching
<1> HIDE DEF g
<1>3. Quiet(g, c, O) /\ ~c.idle BY <1>1, HelpersQuiet
<1> HIDE DEF c
<1>4. /\ LinkOK(c, O) /\ Follows(c) /\ c.session = l.session /\ c.state = l.state /\ c.timers = l.timers
      /\ ~c.gone /\ ~c.idle
  BY <1>1, <1>3 DEF Quiet, SameRecovery, Follows
<1>5. Settles(l.session, l.session)
  BY NoSessionAssumption DEF Settles, LinkOK, SessionOK
<1>6. CASE c.state # "DISCONNECTED" /\ r = c
  BY <1>4, <1>5, <1>6 DEF Searched, Step, KeepsLive
<1>7. CASE c.state = "DISCONNECTED" /\ Transport = "tcp" /\ r \in SearchWireless(c)
  <2>1. Searched(c, r, O) BY <1>4, <1>7, WirelessKeeps
  <2> QED BY <1>4, <2>1 DEF Searched, KeepsLive
<1>8. CASE /\ c.state = "DISCONNECTED"
           /\ r = Start(Transition([c EXCEPT !.hub = "idle"], "SEARCHING"), "startup")
  <2> DEFINE h == [c EXCEPT !.hub = "idle"]
             t == Transition(h, "SEARCHING")
  <2>1. LinkOK(h, O) /\ h.session = l.session /\ h.state = "DISCONNECTED" /\ h.timers = l.timers
        /\ ~h.gone /\ ~h.idle
    BY <1>4, <1>8 DEF LinkOK, Link
  <2>2. r = Start(t, "startup") BY <1>8
  <2> HIDE DEF h
  <2>3. "SEARCHING" \in ConnectionState /\ "startup" \in Kind BY DEF ConnectionState, Kind
  <2>4. /\ LinkOK(t, O) /\ SameRecovery(h, t) /\ t.state = "SEARCHING"
        /\ t.session = OnConnectionState(h.session, "SEARCHING")
    BY <2>1, <2>3, TransitionKeeps
  <2>5. t.session = l.session BY <2>1, <2>3, <2>4, StateKeeps DEF LinkOK
  <2> HIDE DEF t
  <2>6. t.timers \in [Kind -> Nat] /\ t.timers = l.timers BY <2>1, <2>4 DEF LinkOK, Link, SameRecovery
  <2>7. /\ LinkOK(r, O) /\ r.session = t.session /\ r.state = t.state /\ r.gone = t.gone /\ r.idle = t.idle
        /\ \A k \in Kind \ {"startup"} : r.timers[k] = t.timers[k]
    BY <2>2, <2>3, <2>4, <2>6 DEF Start, LinkOK, Link
  <2>8. Follows(r) BY <1>4, <1>8, <2>4, <2>5, <2>7 DEF Follows
  <2>9. ~r.gone /\ ~r.idle BY <2>1, <2>4, <2>7 DEF SameRecovery
  <2> QED BY <1>5, <2>4, <2>5, <2>6, <2>7, <2>8, <2>9 DEF Searched, Step, KeepsLive
<1> QED BY <1>2, <1>6, <1>7, <1>8

-----------------------------------------------------------------------------
(* The inductive invariant and what a step may do *)

\* A recovery flag is backed by a timer (RecoveryFlagBacked, of a record).
Backed(l) ==
  /\ l.gone => \E k \in {"reconnect", "timeoutReconnect", "immediate", "idleCleanup", "idleReinit"} :
                 l.timers[k] > 0
  /\ l.idle => l.timers["idleBegin"] > 0

Sound(l, O) == LinkOK(l, O) /\ Follows(l) /\ Backed(l)

Delayed == {"reconnect", "timeoutReconnect"}

Effect(l, r) ==
  /\ Step(l.session, r.session)
  /\ Transport = "usb" => KeepsLive(l, r)
  /\ Transport = "usb" /\ l.state \in {"DISCONNECTED", "ERROR"} => r.state # "CONNECTED"
  /\ l.teardown => \A k \in Delayed : r.timers[k] <= l.timers[k]

\* A session that does not move settles.
LEMMA SameSession ==
  ASSUME NEW O \in SUBSET Sid, NEW b, SessionOK(b, O)
  PROVE  Settles(b, b) /\ Step(b, b) /\ b.id \in Sid \union {NoSession}
BY NoSessionAssumption DEF SessionOK, Settles, Step, Bookkeeping

\* Pending timers are counted by naturals.
LEMMA TimerTypes ==
  ASSUME NEW O \in SUBSET Sid, NEW l, LinkOK(l, O)
  PROVE  l.timers \in [Kind -> Nat] /\ \A k \in Kind : l.timers[k] \in Nat
BY DEF LinkOK, Link

\* What is quiet keeps soundness and has no effect of its own.
LEMMA QuietSound ==
  ASSUME NEW O \in SUBSET Sid, NEW l, Sound(l, O), NEW r, Quiet(l, r, O)
  PROVE  Sound(r, O) /\ Effect(l, r)
<1>1. Sound(r, O) BY DEF Sound, Quiet, Follows, Backed, SameRecovery
<1>2. Delayed \subseteq Kind BY DEF Delayed, Kind
<1>3. \A k \in Delayed : l.timers[k] <= l.timers[k] BY <1>2, TimerTypes DEF Sound
<1>4. Effect(l, r)
  BY <1>3, SameSession DEF Effect, Quiet, KeepsLive, SameRecovery, Sound, LinkOK
<1> QED BY <1>1, <1>4

\* A timer of kind k was started, or has expired.
LEMMA StartKeeps ==
  ASSUME NEW O \in SUBSET Sid, NEW l, LinkOK(l, O), NEW k \in Kind
  PROVE  LET r == Start(l, k)
         IN  /\ LinkOK(r, O) /\ r.session = l.session /\ r.state = l.state
             /\ r.gone = l.gone /\ r.idle = l.idle /\ r.teardown = l.teardown
             /\ r.timers[k] = l.timers[k] + 1
             /\ \A j \in Kind \ {k} : r.timers[j] = l.timers[j]
BY TimerTypes DEF Start, LinkOK, Link

\* An expiry takes one timer of its kind and nothing else.
LEMMA ExpiredKeeps ==
  ASSUME NEW O \in SUBSET Sid, NEW l, LinkOK(l, O), NEW k \in Kind, l.timers[k] > 0
  PROVE  LET r == Expired(l, k)
         IN  /\ LinkOK(r, O) /\ r.session = l.session /\ r.state = l.state
             /\ r.gone = l.gone /\ r.idle = l.idle /\ r.teardown = l.teardown
             /\ r.handler = l.handler /\ r.chan = l.chan
             /\ r.timers[k] = l.timers[k] - 1
             /\ \A j \in Kind \ {k} : r.timers[j] = l.timers[j]
<1>1. l.timers[k] - 1 \in Nat BY TimerTypes
<1> QED BY <1>1, TimerTypes DEF Expired, LinkOK, Link

\* A transition out of a sound state to one that ends or restarts the session.
LEMMA MoveSound ==
  ASSUME NEW O \in SUBSET Sid, NEW l, LinkOK(l, O), Follows(l),
         NEW to \in {"DISCONNECTED", "ERROR", "CONNECTING"}
  PROVE  LET r == Transition(l, to)
         IN  /\ LinkOK(r, O) /\ Follows(r) /\ Settles(l.session, r.session)
             /\ SameRecovery(l, r) /\ r.state = to
             /\ Backed(l) => Sound(r, O) /\ Effect(l, r)
<1> DEFINE r == Transition(l, to)
<1>1. to \in ConnectionState BY DEF ConnectionState
<1>2. /\ LinkOK(r, O) /\ Settles(l.session, r.session) /\ SameRecovery(l, r) /\ r.state = to
      /\ l.state = to => r = l
      /\ l.state # to => r.session = OnConnectionState(l.session, to)
  BY <1>1, TransitionKeeps
<1> HIDE DEF r
<1>3. SessionOK(l.session, O) BY DEF LinkOK
<1>4. Follows(r)
  <2>1. CASE l.state = to BY <1>2, <2>1
  <2>2. CASE l.state # to /\ to = "CONNECTING" BY <1>1, <1>2, <1>3, <2>2, StateKeeps DEF Follows
  <2>3. CASE l.state # to /\ to = "ERROR"
    <3>1. r.session.state = "error" /\ (l.session.state # "error" => r.session.id = NoSession)
      BY <1>1, <1>2, <1>3, <2>3, StateKeeps
    <3>2. l.session.state = "error" => l.session.id = NoSession
      BY DEF Follows, LinkOK, Link, ConnectionState
    <3> QED BY <1>2, <2>3, <3>1, <3>2 DEF Follows, Settles
  <2>4. CASE l.state # to /\ to = "DISCONNECTED"
    <3>1. /\ r.session.state # "active"
          /\ l.session.state \in {"active", "negotiating"} => r.session.id = NoSession
      BY <1>1, <1>2, <1>3, <2>4, StateKeeps
    <3>2. l.session.state \notin {"active", "negotiating"} => l.session.id = NoSession
      BY DEF Follows, LinkOK, Link, ConnectionState
    <3> QED BY <1>2, <2>4, <3>1, <3>2 DEF Follows, Settles
  <2> QED BY <2>1, <2>2, <2>3, <2>4
<1>5. ASSUME Backed(l) PROVE Sound(r, O) /\ Effect(l, r)
  <2>1. Backed(r) BY <1>2, <1>5 DEF Backed, SameRecovery
  <2>2. \A k \in Delayed : r.timers[k] <= l.timers[k]
    BY <1>2, TimerTypes DEF Delayed, Kind, SameRecovery
  <2> QED BY <1>2, <1>4, <2>1, <2>2 DEF Sound, Effect, Step, KeepsLive
<1> QED BY <1>2, <1>4, <1>5 DEF r

\* A search started from a record that differs in flags and timers only.
LEMMA SearchSound ==
  ASSUME NEW O \in SUBSET Sid, NEW l, LinkOK(l, O), NEW m, LinkOK(m, O), Follows(m),
         Settles(l.session, m.session), KeepsLive(l, m), m.state = "CONNECTED" => l.state = "CONNECTED",
         \A k \in Delayed : m.timers[k] <= l.timers[k],
         NEW r \in StartSearching(m)
  PROVE  Sound(r, O) /\ Effect(l, r)
<1>1. Searched(m, r, O) BY SearchKeeps
<1>2. Sound(r, O) BY <1>1 DEF Sound, Searched, Backed
<1>3. Step(l.session, r.session)
  BY <1>1, StepAfterSettles, SameSession DEF Searched, LinkOK
<1>4. \A k \in Delayed : r.timers[k] <= l.timers[k]
  BY <1>1 DEF Searched, Delayed, Kind
<1>5. KeepsLive(l, r) BY <1>1 DEF Searched, KeepsLive, Live
<1> QED BY <1>1, <1>2, <1>3, <1>4, <1>5 DEF Effect, Searched

\* From l to m nothing but timers and flags changed, and no delayed recovery
\* was added; what a step does from m it does from l.
LEMMA EffectAfter ==
  ASSUME NEW O \in SUBSET Sid, NEW l, LinkOK(l, O), NEW m, NEW r, Effect(m, r),
         m.session = l.session, m.state = l.state, l.teardown => m.teardown,
         LinkOK(m, O), LinkOK(r, O), \A k \in Delayed : m.timers[k] <= l.timers[k]
  PROVE  Effect(l, r)
<1>1. Delayed \subseteq Kind BY DEF Delayed, Kind
<1>2. \A k \in Delayed : l.timers[k] \in Nat /\ m.timers[k] \in Nat /\ r.timers[k] \in Nat
  BY <1>1, TimerTypes
<1> QED BY <1>2 DEF Effect, KeepsLive

\* Attaching a phone leaves a sound link.
LEMMA AttachedKeeps ==
  ASSUME NEW O \in SUBSET Sid, NEW l, Sound(l, O), l.state = "SEARCHING", NEW r \in Attached(l)
  PROVE  Sound(r, O) /\ Effect(l, r)
<1> DEFINE p == [l EXCEPT !.polling = FALSE]
           c == Transition(p, "CONNECTING")
<1>1. LinkOK(p, O) /\ Follows(p) /\ p.session = l.session /\ p.state = l.state /\ p.timers = l.timers
  BY ZenonT(90) DEF Sound, LinkOK, Link, Follows
<1>2. r \in EstablishedOver(c) BY DEF Attached
<1> HIDE DEF p
<1>3. LinkOK(c, O) /\ Follows(c) /\ Settles(p.session, c.session) /\ SameRecovery(p, c) /\ c.state = "CONNECTING"
  BY <1>1, MoveSound
<1> HIDE DEF c
<1>4. /\ LinkOK(r, O) /\ Follows(r) /\ Step(c.session, r.session)
      /\ r.state = "CONNECTED" /\ r.timers = c.timers /\ ~r.gone /\ ~r.idle /\ Live(r)
  BY <1>2, <1>3, EstablishedOverKeeps
<1>5. Step(l.session, r.session)
  BY <1>1, <1>3, <1>4, StepAfterSettles, SameSession DEF LinkOK
<1>6. \A k \in Delayed : r.timers[k] <= l.timers[k]
  BY <1>1, <1>3, <1>4, TimerTypes DEF Delayed, Kind, SameRecovery, Sound
<1> QED BY <1>4, <1>5, <1>6 DEF Sound, Backed, Effect, KeepsLive

-----------------------------------------------------------------------------
(* The actions preserve soundness *)

\* One lemma per action: it keeps the link sound, and its effect is allowed.
LEMMA StartupDelayOverSound ==
  ASSUME orphans \in SUBSET Sid, Sound(link, orphans), StartupDelayOver
  PROVE  Sound(link', orphans) /\ Effect(link, link') /\ orphans' = orphans
<1> DEFINE l == Expired(link, "startup")
<1>1. "startup" \in Kind BY DEF Kind
<1>2. /\ LinkOK(l, orphans) /\ l.session = link.session /\ l.state = link.state
      /\ l.gone = link.gone /\ l.idle = link.idle /\ l.teardown = link.teardown
      /\ \A j \in Kind \ {"startup"} : l.timers[j] = link.timers[j]
  BY <1>1, ExpiredKeeps DEF StartupDelayOver, Expiring, Sound
<1>3. \/ link' = l
      \/ link' = Transition(l, "DISCONNECTED")
      \/ link' = [l EXCEPT !.hub = "waiting", !.polling = TRUE]
  BY DEF StartupDelayOver, Becomes
<1>4. orphans' = orphans BY DEF StartupDelayOver, Becomes
<1> HIDE DEF l
<1>5. Sound(l, orphans) BY <1>2 DEF Sound, Follows, Backed, Kind
<1>6. \A k \in Delayed : l.timers[k] <= link.timers[k]
  BY <1>2, TimerTypes DEF Delayed, Kind, Sound
<1>7. CASE link' = l
  <2>1. Quiet(l, l, orphans) BY <1>2 DEF Quiet, SameRecovery
  <2> QED BY <1>2, <1>4, <1>5, <1>6, <1>7, <2>1, QuietSound, EffectAfter DEF Sound
<1>8. CASE link' = Transition(l, "DISCONNECTED")
  <2>1. Sound(link', orphans) /\ Effect(l, link') BY <1>5, <1>8, MoveSound DEF Sound
  <2> QED BY <1>2, <1>4, <1>6, <2>1, EffectAfter DEF Sound
<1>9. CASE link' = [l EXCEPT !.hub = "waiting", !.polling = TRUE]
  <2>1. Quiet(l, link', orphans) BY <1>2, <1>9, ZenonT(90) DEF Quiet, LinkOK, Link, SameRecovery
  <2> QED BY <1>2, <1>4, <1>5, <1>6, <2>1, QuietSound, EffectAfter DEF Sound
<1> QED BY <1>3, <1>7, <1>8, <1>9

\* A phone attached by the hub, or left to the scans.
LEMMA HubReportedSound ==
  ASSUME orphans \in SUBSET Sid, Sound(link, orphans), HubReported
  PROVE  Sound(link', orphans) /\ Effect(link, link') /\ orphans' = orphans
<1> DEFINE l == [link EXCEPT !.hub = "reported"]
<1>1. Quiet(link, l, orphans) BY DEF Quiet, Sound, LinkOK, Link, SameRecovery
<1>2. l.teardown = link.teardown BY DEF Sound, LinkOK, Link
<1>3. link' = [l EXCEPT !.polling = TRUE] \/ link' \in Attached(l)
  BY DEF HubReported, Becomes
<1>4. orphans' = orphans /\ link.state = "SEARCHING" BY DEF HubReported, Becomes
<1> HIDE DEF l
<1>5. Sound(l, orphans) BY <1>1, QuietSound
<1>6. \A k \in Delayed : l.timers[k] <= link.timers[k]
  BY <1>1, TimerTypes DEF Delayed, Kind, Sound, Quiet, SameRecovery
<1>7. Sound(link', orphans) /\ Effect(l, link')
  <2>1. CASE link' = [l EXCEPT !.polling = TRUE]
    <3>1. Quiet(l, link', orphans) BY <1>5, <2>1, ZenonT(90) DEF Quiet, Sound, LinkOK, Link, SameRecovery
    <3> QED BY <1>5, <3>1, QuietSound
  <2>2. CASE link' \in Attached(l)
    BY <1>1, <1>4, <1>5, <2>2, AttachedKeeps DEF Quiet
  <2> QED BY <1>3, <2>1, <2>2
<1> QED BY <1>1, <1>2, <1>4, <1>5, <1>6, <1>7, EffectAfter DEF Sound, Quiet

\* A phone attached by a scan, or not opened.
LEMMA ScanFoundDeviceSound ==
  ASSUME orphans \in SUBSET Sid, Sound(link, orphans), ScanFoundDevice
  PROVE  Sound(link', orphans) /\ Effect(link, link') /\ orphans' = orphans
<1>1. link' = [link EXCEPT !.polling = FALSE] \/ link' \in Attached(link)
  BY DEF ScanFoundDevice, Becomes
<1>2. orphans' = orphans /\ link.state = "SEARCHING" BY DEF ScanFoundDevice, Becomes
<1>3. CASE link' = [link EXCEPT !.polling = FALSE]
  <2>1. Quiet(link, link', orphans) BY <1>3, ZenonT(90) DEF Quiet, Sound, LinkOK, Link, SameRecovery
  <2> QED BY <1>2, <2>1, QuietSound
<1>4. CASE link' \in Attached(link) BY <1>2, <1>4, AttachedKeeps
<1> QED BY <1>1, <1>3, <1>4

\* A phone accepted over TCP, in whatever state.
LEMMA PhoneAcceptedSound ==
  ASSUME orphans \in SUBSET Sid, Sound(link, orphans), PhoneAccepted
  PROVE  Sound(link', orphans) /\ Effect(link, link') /\ orphans' = orphans
<1> DEFINE l == [link EXCEPT !.accepting = FALSE]
<1>1. /\ LinkOK(l, orphans) /\ Follows(l) /\ l.session = link.session /\ l.state = link.state
      /\ l.timers = link.timers
  BY ZenonT(90) DEF Sound, LinkOK, Link, Follows
<1>2. link' \in EstablishedOver(l) /\ orphans' = orphans BY DEF PhoneAccepted, Becomes
<1>3. Transport # "usb" BY DEF PhoneAccepted, Sound, LinkOK
<1> HIDE DEF l
<1>4. /\ LinkOK(link', orphans) /\ Follows(link') /\ Step(l.session, (link').session)
      /\ (link').timers = l.timers /\ ~(link').gone /\ ~(link').idle
  BY <1>1, <1>2, EstablishedOverKeeps
<1>5. \A k \in Delayed : (link').timers[k] <= link.timers[k]
  BY <1>1, <1>4, TimerTypes DEF Delayed, Kind, Sound
<1> QED BY <1>1, <1>2, <1>3, <1>4, <1>5 DEF Sound, Backed, Effect

\* A failed accept.
LEMMA AcceptFailedSound ==
  ASSUME orphans \in SUBSET Sid, Sound(link, orphans), AcceptFailed
  PROVE  Sound(link', orphans) /\ Effect(link, link') /\ orphans' = orphans
<1> DEFINE l == [link EXCEPT !.accepting = FALSE]
<1>1. Quiet(link, l, orphans) /\ l.teardown = link.teardown /\ l.timers = link.timers
  BY ZenonT(90) DEF Quiet, Sound, LinkOK, Link, SameRecovery
<1>2. link' = Transition(l, "DISCONNECTED") /\ orphans' = orphans BY DEF AcceptFailed, Becomes
<1> HIDE DEF l
<1>3. Sound(l, orphans) BY <1>1, QuietSound
<1>4. Sound(link', orphans) /\ Effect(l, link') BY <1>2, <1>3, MoveSound DEF Sound
<1>5. \A k \in Delayed : l.timers[k] <= link.timers[k]
  BY <1>1, TimerTypes DEF Delayed, Kind, Sound
<1> QED BY <1>1, <1>2, <1>3, <1>4, <1>5, EffectAfter DEF Sound, Quiet

\* A handler that only moves data the session does not see.
LEMMA PublishedSound ==
  ASSUME NEW O \in SUBSET Sid, NEW l, Sound(l, O), NEW m, Quiet(l, m, O), m.teardown = l.teardown
  PROVE  /\ Sound(m, O) /\ Sound(Publish(m), O)
         /\ Effect(l, m) /\ Effect(l, Publish(m))
         /\ Quiet(l, Publish(m), O) /\ Publish(m).teardown = l.teardown
<1>1. Sound(m, O) /\ Effect(l, m) BY QuietSound
<1>2. Quiet(m, Publish(m), O) BY <1>1, HelpersQuiet DEF Sound
<1>3. Quiet(l, Publish(m), O) BY <1>2 DEF Quiet, SameRecovery
<1>4. Publish(m).teardown = m.teardown BY <1>1 DEF Publish, Sound, LinkOK, Link
<1> QED BY <1>1, <1>3, <1>4, QuietSound

\* As MoveSound, when data was moved before the transition.
LEMMA QuietMoveSound ==
  ASSUME NEW O \in SUBSET Sid, NEW l, Sound(l, O), NEW m, Sound(m, O), Quiet(l, m, O),
         m.teardown = l.teardown, NEW to \in {"DISCONNECTED", "ERROR", "CONNECTING"}
  PROVE  Sound(Transition(m, to), O) /\ Effect(l, Transition(m, to))
<1>1. Sound(Transition(m, to), O) /\ Effect(m, Transition(m, to)) BY MoveSound DEF Sound
<1>2. \A k \in Delayed : m.timers[k] <= l.timers[k]
  BY TimerTypes DEF Delayed, Kind, Sound, Quiet, SameRecovery
<1> QED BY <1>1, <1>2, EffectAfter DEF Sound, Quiet

\* As MoveSound, for disconnect().
LEMMA DisconnectSound ==
  ASSUME NEW O \in SUBSET Sid, NEW l, Sound(l, O), NEW m, Sound(m, O), Quiet(l, m, O),
         m.teardown = l.teardown
  PROVE  Sound(Disconnect(m), O) /\ Effect(l, Disconnect(m))
<1> DEFINE r == Disconnect(m)
<1>1. /\ LinkOK(r, O) /\ Follows(r) /\ Settles(m.session, r.session) /\ SameRecovery(m, r)
      /\ r.state # "CONNECTED"
  BY DisconnectKeeps DEF Sound
<1> HIDE DEF r
<1>2. \A k \in Delayed : r.timers[k] <= l.timers[k]
  BY <1>1, TimerTypes DEF Delayed, Kind, Sound, Quiet, SameRecovery
<1>3. Sound(r, O) BY <1>1 DEF Sound, Backed, SameRecovery
<1>4. Effect(l, r) BY <1>1, <1>2 DEF Effect, Step, KeepsLive, Quiet
<1> QED BY <1>3, <1>4 DEF r

\* The milestones stay milestones.
LEMMA MilestoneTypes ==
  ASSUME NEW p \in Progress
  PROVE  Advanced(p) \subseteq Progress /\ Stopped(p) \subseteq Progress
BY DEF Progress, Advanced, Stopped

\* What both answers to a version request do first.
LEMMA VersionReceivedSound ==
  ASSUME NEW O \in SUBSET Sid, Sound(link, O)
  PROVE  LET r == VersionReceived
         IN  /\ Sound(r, O) /\ Effect(link, r)
             /\ Quiet(link, r, O) /\ r.teardown = link.teardown
<1> DEFINE p == IF link.progress = "none" THEN "version" ELSE link.progress
           m == [link EXCEPT !.progress = p, !.recoveries = 0]
<1>1. p \in Progress /\ 0 \in 0..FullReinitAfter
  BY CountAssumption DEF Progress, Sound, LinkOK, Link
<1>2. VersionReceived = Publish(m) BY DEF VersionReceived
<1> HIDE DEF p
<1>3. Quiet(link, m, O) /\ m.teardown = link.teardown
  BY <1>1, ZenonT(90) DEF Quiet, Sound, LinkOK, Link, SameRecovery
<1> HIDE DEF m
<1> QED BY <1>2, <1>3, PublishedSound

\* Both answers to a version request.
LEMMA VersionSound ==
  ASSUME orphans \in SUBSET Sid, Sound(link, orphans), VersionAccepted \/ VersionRejected
  PROVE  Sound(link', orphans) /\ Effect(link, link') /\ orphans' = orphans
<1> DEFINE v == VersionReceived
           m == [v EXCEPT !.armed = FALSE]
<1>1. Sound(v, orphans) /\ Effect(link, v) /\ Quiet(link, v, orphans) /\ v.teardown = link.teardown
  BY VersionReceivedSound
<1>2. orphans' = orphans /\ (link' = v \/ link' = Transition(m, "ERROR"))
  BY DEF VersionAccepted, VersionRejected, Becomes
<1> HIDE DEF v
<1>3. Quiet(link, m, orphans) /\ m.teardown = link.teardown
  BY <1>1, ZenonT(90) DEF Quiet, LinkOK, Link, SameRecovery
<1> HIDE DEF m
<1>4. Sound(m, orphans) BY <1>3, QuietSound
<1>5. CASE link' = v BY <1>1, <1>2, <1>5
<1>6. CASE link' = Transition(m, "ERROR") BY <1>2, <1>3, <1>4, <1>6, QuietMoveSound
<1> QED BY <1>2, <1>5, <1>6

\* Service discovery, and the receives it arms.
LEMMA ServiceDiscoverySound ==
  ASSUME orphans \in SUBSET Sid, Sound(link, orphans), ServiceDiscovery
  PROVE  Sound(link', orphans) /\ Effect(link, link') /\ orphans' = orphans
<1> DEFINE p == IF link.progress = "version" THEN "discovery" ELSE link.progress
           o == link.others \/ DeferReceives
           m == [link EXCEPT !.progress = p, !.recoveries = 0, !.others = o]
<1>1. /\ p \in Progress /\ 0 \in 0..FullReinitAfter /\ o \in BOOLEAN
  BY CountAssumption, SwitchAssumption DEF Progress, Sound, LinkOK, Link
<1>2. link' = Publish(m) /\ orphans' = orphans BY DEF ServiceDiscovery, Becomes
<1>3. ~link.teardown BY DEF ServiceDiscovery, ControlMessage, Sound, LinkOK
<1> HIDE DEF p, o
<1>4. Quiet(link, m, orphans) /\ m.teardown = link.teardown
  BY <1>1, <1>3, ZenonT(90) DEF Quiet, Sound, LinkOK, Link, SameRecovery
<1> HIDE DEF m
<1> QED BY <1>2, <1>4, PublishedSound

\* Start, stop and first frame of a stream.
LEMMA MediaSound ==
  ASSUME orphans \in SUBSET Sid, Sound(link, orphans), MediaProgress \/ MediaStopped
  PROVE  Sound(link', orphans) /\ Effect(link, link') /\ orphans' = orphans
<1>1. link.progress \in Progress BY DEF Sound, LinkOK, Link
<1>2. PICK p \in Advanced(link.progress) \union Stopped(link.progress) :
        link' = Publish([link EXCEPT !.progress = p]) /\ orphans' = orphans
  BY DEF MediaProgress, MediaStopped, Becomes
<1>3. p \in Progress BY <1>1, <1>2, MilestoneTypes
<1> DEFINE m == [link EXCEPT !.progress = p]
<1>4. Quiet(link, m, orphans) /\ m.teardown = link.teardown
  BY <1>3 DEF Quiet, Sound, LinkOK, Link, SameRecovery
<1>5. link' = Publish(m) BY <1>2
<1> HIDE DEF m
<1> QED BY <1>2, <1>4, <1>5, PublishedSound

\* The phone says good-bye.
LEMMA ByeByeSound ==
  ASSUME orphans \in SUBSET Sid, Sound(link, orphans), ByeBye
  PROVE  Sound(link', orphans) /\ Effect(link, link') /\ orphans' = orphans
<1> DEFINE a == [link EXCEPT !.armed = FALSE]
           l == ResetProjection(a)
<1>1. Quiet(link, a, orphans) /\ a.teardown = link.teardown
  BY ZenonT(90) DEF Quiet, Sound, LinkOK, Link, SameRecovery
<1>2. orphans' = orphans /\ (link' = l \/ link' = Disconnect(l)) BY DEF ByeBye, Becomes
<1> HIDE DEF a
<1>3. Quiet(a, l, orphans) BY <1>1, HelpersQuiet DEF Quiet
<1>4. l.teardown = a.teardown BY <1>1 DEF ResetProjection, Quiet, LinkOK, Link
<1>5. Quiet(link, l, orphans) /\ l.teardown = link.teardown BY <1>1, <1>3, <1>4 DEF Quiet, SameRecovery
<1>6. Sound(l, orphans) /\ Effect(link, l) BY <1>5, QuietSound
<1> HIDE DEF l
<1> QED BY <1>2, <1>5, <1>6, DisconnectSound

\* The idle watchdog backs its flag by the timer it starts.
LEMMA IdleRecoveryDueSound ==
  ASSUME orphans \in SUBSET Sid, Sound(link, orphans), IdleRecoveryDue
  PROVE  Sound(link', orphans) /\ Effect(link, link') /\ orphans' = orphans
<1> DEFINE l == [link EXCEPT !.idle = TRUE]
<1>1. /\ LinkOK(l, orphans) /\ Follows(l) /\ l.session = link.session /\ l.state = link.state
      /\ l.timers = link.timers /\ l.gone = link.gone
  BY ZenonT(90) DEF Sound, LinkOK, Link, Follows
<1>2. link' = Start(l, "idleBegin") /\ orphans' = orphans BY DEF IdleRecoveryDue, Becomes
<1>3. "idleBegin" \in Kind BY DEF Kind
<1> HIDE DEF l
<1>4. /\ LinkOK(link', orphans) /\ (link').session = l.session /\ (link').state = l.state
      /\ (link').gone = l.gone
      /\ (link').timers["idleBegin"] = l.timers["idleBegin"] + 1
      /\ \A j \in Kind \ {"idleBegin"} : (link').timers[j] = l.timers[j]
  BY <1>1, <1>2, <1>3, StartKeeps, ZenonT(90)
<1>5. \A k \in Kind : link.timers[k] \in Nat BY TimerTypes DEF Sound
<1>6. Sound(link', orphans)
  BY <1>1, <1>4, <1>5 DEF Sound, Follows, Backed, Kind
<1>7. \A k \in Delayed : (link').timers[k] <= link.timers[k]
  BY <1>1, <1>4, <1>5 DEF Delayed, Kind
<1> QED BY <1>1, <1>2, <1>4, <1>6, <1>7, SameSession DEF Effect, KeepsLive, Sound, LinkOK

\* Starting a timer that backs no flag changes nothing that matters.
LEMMA StartSound ==
  ASSUME NEW O \in SUBSET Sid, NEW l, Sound(l, O), NEW k \in Kind \ Delayed, NEW r, r = Start(l, k)
  PROVE  Sound(r, O) /\ Effect(l, r) /\ r.teardown = l.teardown
<1>1. LinkOK(l, O) /\ k \in Kind BY DEF Sound
<1>2. /\ LinkOK(r, O) /\ r.session = l.session /\ r.state = l.state
      /\ r.gone = l.gone /\ r.idle = l.idle /\ r.teardown = l.teardown
      /\ r.timers[k] = l.timers[k] + 1
      /\ \A j \in Kind \ {k} : r.timers[j] = l.timers[j]
  BY <1>1, TimerTypes DEF Start, LinkOK, Link
<1>3. \A j \in Kind : l.timers[j] \in Nat BY <1>1, TimerTypes
<1>4. \A j \in Kind : l.timers[j] > 0 => r.timers[j] > 0 BY <1>2, <1>3
<1>5. Sound(r, O) BY <1>2, <1>4 DEF Sound, Follows, Backed, Kind
<1>6. \A j \in Delayed : r.timers[j] <= l.timers[j] BY <1>2, <1>3 DEF Delayed, Kind
<1>7. Effect(l, r) BY <1>1, <1>2, <1>6, SameSession DEF Effect, KeepsLive, LinkOK
<1> QED BY <1>2, <1>5, <1>7

\* Noting an error is quiet.
LEMMA ErrorSeenQuiet ==
  ASSUME NEW O \in SUBSET Sid, NEW l, Sound(l, O), NEW ch \in Channel, NEW r \in ErrorSeen(l, ch)
  PROVE  /\ Quiet(l, r, O) /\ Sound(r, O)
         /\ Effect(l, r) /\ r.teardown = l.teardown
<1>1. l.progress \in Progress BY DEF Sound, LinkOK, Link
<1>2. PICK p \in Stopped(l.progress) \union {l.progress} : r = Publish([l EXCEPT !.progress = p])
  BY DEF ErrorSeen
<1>3. p \in Progress BY <1>1, <1>2, MilestoneTypes
<1> DEFINE m == [l EXCEPT !.progress = p]
<1>4. Quiet(l, m, O) /\ m.teardown = l.teardown
  BY <1>3 DEF Quiet, Sound, LinkOK, Link, SameRecovery
<1>5. r = Publish(m) BY <1>2
<1> HIDE DEF m
<1> QED BY <1>4, <1>5, PublishedSound

\* Arming receives is invisible to the session and the recoveries; a link in
\* teardown has no handler, so nothing is armed then.
LEMMA ArmedQuiet ==
  ASSUME NEW O \in SUBSET Sid, NEW l, LinkOK(l, O)
  PROVE  Quiet(l, Armed(l), O) /\ Quiet(l, Rearmed(l), O)
<1> DEFINE live == l.chan = "live"
           a == [l EXCEPT !.armed = live, !.others = live]
<1>1. live \in BOOLEAN OBVIOUS
<1>2. Quiet(l, l, O) BY DEF Quiet, SameRecovery
<1>3. Quiet(l, Armed(l), O)
  <2>1. CASE ~l.handler BY <1>2, <2>1 DEF Armed
  <2>2. CASE l.handler
    <3>1. Armed(l) = a BY <2>2 DEF Armed
    <3>2. ~l.teardown BY <2>2 DEF LinkOK
    <3> HIDE DEF live
    <3>3. Quiet(l, a, O) BY <1>1, <3>2, ZenonT(90) DEF Quiet, LinkOK, Link, SameRecovery
    <3> QED BY <3>1, <3>3
  <2> QED BY <2>1, <2>2
<1>4. Rearmed(l) = l \/ Rearmed(l) = Armed(l) BY DEF Rearmed
<1> QED BY <1>2, <1>3, <1>4

\* The recovery count stays in its range.
LEMMA BumpInRange ==
  ASSUME NEW n \in 0..FullReinitAfter
  PROVE  Bump(n) \in 0..FullReinitAfter
BY CountAssumption DEF Bump

\* The immediate recovery backs the flag it sets by its own timer.
LEMMA ImmediateRecoverySound ==
  ASSUME NEW O \in SUBSET Sid, NEW l, Sound(l, O), ~l.teardown
  PROVE  Sound(ImmediateRecovery(l), O) /\ Effect(l, ImmediateRecovery(l))
<1>1. CASE l.gone
  <2>1. Quiet(l, l, O) BY DEF Quiet, Sound, SameRecovery
  <2> QED BY <1>1, <2>1, QuietSound DEF ImmediateRecovery
<1>2. CASE ~l.gone
  <2> DEFINE s == StopDetection(l)
             b == [s EXCEPT !.gone = TRUE, !.recoveries = Bump(@)]
             d == Disconnect(b)
             c == CleanupChannels(d)
             t == Transition(c, "DISCONNECTED")
             r == Start(t, "immediate")
  <2>0. ImmediateRecovery(l) = r BY <1>2 DEF ImmediateRecovery
  <2>1. Quiet(l, s, O) BY HelpersQuiet DEF Sound
  <2> HIDE DEF s
  <2>2. Bump(s.recoveries) \in 0..FullReinitAfter BY <2>1, BumpInRange DEF Quiet, LinkOK, Link
  <2>3. LinkOK(b, O) /\ b.session = l.session /\ b.state = l.state
    BY <2>1, <2>2 DEF Quiet, LinkOK, Link
  <2> HIDE DEF b
  <2>4. Follows(b) BY <2>3 DEF Sound, Follows
  <2>5. LinkOK(d, O) /\ Follows(d) /\ Settles(l.session, d.session) BY <2>3, <2>4, DisconnectKeeps
  <2> HIDE DEF d
  <2>6. Quiet(d, c, O) /\ ~c.idle BY <2>5, HelpersQuiet
  <2> HIDE DEF c
  <2>7. LinkOK(c, O) /\ Follows(c) BY <2>5, <2>6 DEF Quiet, Follows
  <2>8. /\ LinkOK(t, O) /\ Follows(t) /\ Settles(c.session, t.session) /\ SameRecovery(c, t)
        /\ t.state = "DISCONNECTED"
    BY <2>7, MoveSound
  <2> HIDE DEF t
  <2>9. "immediate" \in Kind BY DEF Kind
  <2>10. /\ LinkOK(r, O) /\ r.session = t.session /\ r.state = t.state /\ r.idle = t.idle
         /\ r.timers["immediate"] = t.timers["immediate"] + 1
    BY <2>8, <2>9, StartKeeps
  <2>11. t.timers["immediate"] \in Nat BY <2>8, <2>9, TimerTypes
  <2>12. Sound(r, O) BY <2>6, <2>8, <2>10, <2>11 DEF Sound, Follows, Backed, SameRecovery
  <2>13. Settles(l.session, r.session)
    BY <2>5, <2>6, <2>8, <2>10, SettlesTwice, SameSession DEF Quiet, Sound, LinkOK
  <2>14. Effect(l, r) BY <2>8, <2>10, <2>13 DEF Effect, Step, KeepsLive
  <2> QED BY <2>0, <2>12, <2>14
<1> QED BY <1>1, <1>2

\* The scheduled recovery backs the flag it sets by its own timer.
LEMMA ScheduledRecoverySound ==
  ASSUME NEW O \in SUBSET Sid, NEW l, Sound(l, O), ~l.teardown, NEW kind \in ErrorKind
  PROVE  Sound(ScheduledRecovery(l, kind), O) /\ Effect(l, ScheduledRecovery(l, kind))
<1>1. CASE l.gone
  <2>1. Quiet(l, l, O) BY DEF Quiet, Sound, SameRecovery
  <2> QED BY <1>1, <2>1, QuietSound DEF ScheduledRecovery
<1>2. CASE ~l.gone
  <2> DEFINE k == IF kind \in ControlTimeout THEN "timeoutReconnect" ELSE "reconnect"
             g == [l EXCEPT !.gone = TRUE]
             d == Disconnect(g)
             r == Start(d, k)
  <2>0. ScheduledRecovery(l, kind) = r BY <1>2 DEF ScheduledRecovery
  <2>1. k \in Kind /\ k \in Delayed /\ k # "idleBegin" BY DEF Kind, Delayed
  <2> HIDE DEF k
  <2>2. /\ LinkOK(g, O) /\ Follows(g) /\ g.session = l.session /\ g.state = l.state
        /\ g.timers = l.timers /\ g.idle = l.idle
    BY ZenonT(90) DEF Sound, LinkOK, Link, Follows
  <2> HIDE DEF g
  <2>3. LinkOK(d, O) /\ Follows(d) /\ Settles(l.session, d.session) /\ SameRecovery(g, d) /\ d.state # "CONNECTED"
    BY <2>2, DisconnectKeeps
  <2> HIDE DEF d
  <2>4. /\ LinkOK(r, O) /\ r.session = d.session /\ r.state = d.state /\ r.idle = d.idle
        /\ r.timers[k] = d.timers[k] + 1
        /\ \A j \in Kind \ {k} : r.timers[j] = d.timers[j]
    BY <2>1, <2>3, StartKeeps, ZenonT(90)
  <2>5. d.timers[k] \in Nat BY <2>1, <2>3, TimerTypes
  <2>6. r.timers[k] > 0 BY <2>4, <2>5
  <2>7. r.idle => r.timers["idleBegin"] > 0
    BY <2>1, <2>2, <2>3, <2>4 DEF Sound, Backed, SameRecovery, Kind
  <2>8. Sound(r, O) BY <2>1, <2>3, <2>4, <2>6, <2>7 DEF Sound, Follows, Backed, Delayed
  <2>9. Effect(l, r) BY <2>3, <2>4 DEF Effect, Step, KeepsLive
  <2> QED BY <2>0, <2>8, <2>9
<1> QED BY <1>1, <1>2

\* Every reaction to an error is sound outside a teardown.
LEMMA RecoveredSound ==
  ASSUME NEW O \in SUBSET Sid, NEW l, Sound(l, O), ~l.teardown, NEW kind \in ErrorKind
  PROVE  Sound(Recovered(l, kind), O) /\ Effect(l, Recovered(l, kind))
<1> DEFINE r == Recovered(l, kind)
<1>0. Quiet(l, l, O) BY DEF Quiet, Sound, SameRecovery
<1>1. \/ r = Start([l EXCEPT !.graced = TRUE], "grace")
      \/ r = ImmediateRecovery(l)
      \/ r = ScheduledRecovery(l, kind)
      \/ r = l
  BY DEF Recovered
<1> SUFFICES Sound(r, O) /\ Effect(l, r) OBVIOUS
<1> HIDE DEF r
<1>2. CASE r = Start([l EXCEPT !.graced = TRUE], "grace")
  <2> DEFINE g == [l EXCEPT !.graced = TRUE]
  <2>1. Quiet(l, g, O) BY ZenonT(90) DEF Quiet, Sound, LinkOK, Link, SameRecovery
  <2>2. r = Start(g, "grace") /\ "grace" \in Kind \ Delayed BY <1>2 DEF Kind, Delayed
  <2> HIDE DEF g
  <2>3. Sound(g, O) BY <2>1, QuietSound
  <2>4. Sound(r, O) /\ Effect(g, r) BY <2>2, <2>3, StartSound
  <2> QED BY <2>1, <2>4 DEF Effect, KeepsLive, Quiet
<1>3. CASE r = ImmediateRecovery(l) BY <1>3, ImmediateRecoverySound
<1>4. CASE r = ScheduledRecovery(l, kind) BY <1>4, ScheduledRecoverySound
<1>5. CASE r = l BY <1>0, <1>5, QuietSound
<1> QED BY <1>1, <1>2, <1>3, <1>4, <1>5

\* onChannelError is sound whenever it is called.
LEMMA ChannelErrorSound ==
  ASSUME NEW O \in SUBSET Sid, NEW l, Sound(l, O), NEW ch \in Channel, NEW kind \in ErrorKind,
         NEW r \in ChannelError(l, ch, kind)
  PROVE  Sound(r, O) /\ Effect(l, r)
<1>0. Quiet(l, l, O) BY DEF Quiet, Sound, SameRecovery
<1>1. CASE r = l BY <1>0, <1>1, QuietSound
<1>2. CASE r = Rearmed(l)
  <2>1. Quiet(l, Rearmed(l), O) BY ArmedQuiet DEF Sound
  <2> QED BY <1>2, <2>1, QuietSound
<1>3. CASE ~l.teardown /\ \E seen \in ErrorSeen(l, ch) : r = Recovered(seen, kind)
  <2>1. PICK seen \in ErrorSeen(l, ch) : r = Recovered(seen, kind) BY <1>3
  <2>2. /\ Quiet(l, seen, O) /\ Sound(seen, O) /\ Effect(l, seen) /\ ~seen.teardown
    BY <1>3, ErrorSeenQuiet
  <2>3. Sound(r, O) /\ Effect(seen, r) BY <2>1, <2>2, RecoveredSound
  <2> QED BY <1>3, <2>2, <2>3 DEF Effect, KeepsLive, Quiet
<1> QED BY <1>1, <1>2, <1>3 DEF ChannelError

\* So is the error callback of every handler.
LEMMA HandlerErrorSound ==
  ASSUME NEW O \in SUBSET Sid, NEW l, Sound(l, O), NEW ch \in Channel, NEW kind \in ErrorKind,
         NEW r \in HandlerError(l, ch, kind)
  PROVE  Sound(r, O) /\ Effect(l, r)
<1>0. Quiet(l, l, O) BY DEF Quiet, Sound, SameRecovery
<1>1. CASE r = l BY <1>0, <1>1, QuietSound
<1>2. CASE r = Start(l, "rearm")
  <2>1. "rearm" \in Kind \ Delayed BY DEF Kind, Delayed
  <2> QED BY <1>2, <2>1, StartSound
<1>3. CASE r \in ChannelError(l, ch, kind) BY <1>3, ChannelErrorSound
<1> QED BY <1>1, <1>2, <1>3 DEF HandlerError

\* An error reported by a handler of the current channels.
LEMMA LiveChannelErrorSound ==
  ASSUME orphans \in SUBSET Sid, Sound(link, orphans), LiveChannelError
  PROVE  Sound(link', orphans) /\ Effect(link, link') /\ orphans' = orphans
<1>1. PICK ch \in Channel, kind \in ErrorKind, a \in BOOLEAN, o \in BOOLEAN :
        /\ link' \in HandlerError([link EXCEPT !.armed = a, !.others = o], ch, kind)
        /\ orphans' = orphans
  BY ZenonT(90) DEF LiveChannelError, Becomes, Sound, LinkOK, Link
<1> DEFINE l == [link EXCEPT !.armed = a, !.others = o]
<1>2. ~link.teardown BY DEF LiveChannelError, Sound, LinkOK
<1>3. Quiet(link, l, orphans)
  BY <1>2, ZenonT(90) DEF Quiet, Sound, LinkOK, Link, SameRecovery
<1>4. link' \in HandlerError(l, ch, kind) BY <1>1
<1> HIDE DEF l
<1>5. Sound(l, orphans) BY <1>3, QuietSound
<1>6. Sound(link', orphans) /\ Effect(l, link') BY <1>4, <1>5, HandlerErrorSound
<1> QED BY <1>1, <1>2, <1>3, <1>6 DEF Effect, KeepsLive, Quiet

\* An error the service reports itself.
LEMMA SendFailedSound ==
  ASSUME orphans \in SUBSET Sid, Sound(link, orphans), SendFailed
  PROVE  Sound(link', orphans) /\ Effect(link, link') /\ orphans' = orphans
<1>1. PICK ch \in Channel, kind \in ErrorKind :
        link' \in ChannelError(link, ch, kind) /\ orphans' = orphans
  BY DEF SendFailed, Becomes, Channel, ErrorKind, NoDevice
<1> QED BY <1>1, ChannelErrorSound

\* An error of an earlier messenger, reported late.
LEMMA LateChannelErrorSound ==
  ASSUME orphans \in SUBSET Sid, Sound(link, orphans), LateChannelError
  PROVE  Sound(link', orphans) /\ Effect(link, link') /\ orphans' = orphans
<1> DEFINE l == [link EXCEPT !.late = FALSE]
<1>1. Quiet(link, l, orphans) /\ l.timers = link.timers
      /\ (link.teardown => l.teardown)
  BY ZenonT(90) DEF Quiet, Sound, LinkOK, Link, SameRecovery
<1>2. PICK ch \in Channel, kind \in {"usbGone", "linkGone", "aborted", "unknown"} :
        /\ link' \in HandlerError(l, ch, kind) \/ link' \in ChannelError(l, ch, kind)
        /\ orphans' = orphans
  BY DEF LateChannelError, Becomes
<1> HIDE DEF l
<1>3. Sound(l, orphans) BY <1>1, QuietSound
<1>4. \A k \in Delayed : l.timers[k] <= link.timers[k]
  BY <1>1, TimerTypes DEF Delayed, Kind, Sound
<1>5. kind \in ErrorKind BY DEF ErrorKind
<1>6. Sound(link', orphans) /\ Effect(l, link')
  BY <1>2, <1>3, <1>5, HandlerErrorSound, ChannelErrorSound
<1> QED BY <1>1, <1>2, <1>3, <1>4, <1>6, EffectAfter DEF Sound, Quiet

\* A timer expired: the others, the flags and the session stayed.
Elapsed(l, e, k, O) ==
  /\ LinkOK(e, O) /\ Follows(e) /\ e.session = l.session /\ e.state = l.state
  /\ e.gone = l.gone /\ e.idle = l.idle /\ e.teardown = l.teardown
  /\ e.handler = l.handler /\ e.chan = l.chan
  /\ \A j \in Kind \ {k} : e.timers[j] = l.timers[j]
  /\ \A j \in Delayed : e.timers[j] <= l.timers[j]
  /\ Settles(l.session, e.session) /\ KeepsLive(l, e) /\ Effect(l, e)

\* An expiry is Elapsed.
LEMMA Expires ==
  ASSUME NEW O \in SUBSET Sid, NEW l, Sound(l, O), NEW k \in Kind, l.timers[k] > 0,
         NEW e, e = Expired(l, k)
  PROVE  Elapsed(l, e, k, O)
<1>1. l.timers[k] - 1 \in Nat /\ LinkOK(l, O) BY TimerTypes DEF Sound
<1>2. /\ LinkOK(e, O) /\ e.session = l.session /\ e.state = l.state
      /\ e.gone = l.gone /\ e.idle = l.idle /\ e.teardown = l.teardown
      /\ e.handler = l.handler /\ e.chan = l.chan
      /\ e.timers[k] = l.timers[k] - 1
      /\ \A j \in Kind \ {k} : e.timers[j] = l.timers[j]
  BY <1>1, TimerTypes DEF Expired, LinkOK, Link
<1>3. \A j \in Kind : l.timers[j] \in Nat BY <1>1, TimerTypes
<1>4. \A j \in Delayed : e.timers[j] <= l.timers[j] BY <1>2, <1>3 DEF Delayed, Kind
<1>5. Follows(e) BY <1>2 DEF Sound, Follows
<1>6. Settles(l.session, e.session) /\ Step(l.session, e.session)
  BY <1>1, <1>2, SameSession DEF LinkOK
<1>7. KeepsLive(l, e) BY <1>2 DEF KeepsLive
<1> QED BY <1>2, <1>4, <1>5, <1>6, <1>7 DEF Effect, Elapsed

\* A timer that backs no flag expired: the link stays sound.
LEMMA ElapsedSound ==
  ASSUME NEW O \in SUBSET Sid, NEW l, Sound(l, O), NEW k \in {"rearm", "grace"},
         l.timers[k] > 0, NEW e, e = Expired(l, k)
  PROVE  Sound(e, O) /\ Elapsed(l, e, k, O)
<1>1. k \in Kind BY DEF Kind
<1>2. Elapsed(l, e, k, O) BY <1>1, Expires
<1> QED BY <1>2 DEF Elapsed, Sound, Backed, Kind

\* What follows the expiry quietly has the effect of the expiry.
LEMMA QuietAfter ==
  ASSUME NEW O \in SUBSET Sid, NEW l, Sound(l, O), NEW k \in Kind, NEW e, Sound(e, O),
         Elapsed(l, e, k, O), NEW r, Quiet(e, r, O)
  PROVE  Sound(r, O) /\ Effect(l, r)
<1>1. Sound(r, O) /\ Effect(e, r) BY QuietSound
<1> QED BY <1>1, EffectAfter DEF Elapsed, Sound

\* A handler arms its channel again.
LEMMA RearmDelayOverSound ==
  ASSUME orphans \in SUBSET Sid, Sound(link, orphans), RearmDelayOver
  PROVE  Sound(link', orphans) /\ Effect(link, link') /\ orphans' = orphans
<1> DEFINE l == Expired(link, "rearm")
           arms == ~l.teardown /\ l.chan = "live"
           a == [l EXCEPT !.armed = @ \/ arms]
           o == [l EXCEPT !.others = @ \/ arms]
<1>1. "rearm" \in Kind /\ link.timers["rearm"] > 0 BY DEF Kind, RearmDelayOver, Expiring
<1>2. orphans' = orphans /\ link' \in {l, a, o} BY DEF RearmDelayOver, Becomes
<1>3. l = Expired(link, "rearm") OBVIOUS
<1> HIDE DEF l
<1>4. Sound(l, orphans) /\ Elapsed(link, l, "rearm", orphans) BY <1>1, <1>3, ElapsedSound
<1>5. l.armed \in BOOLEAN /\ l.others \in BOOLEAN /\ arms \in BOOLEAN
  BY <1>4 DEF Sound, LinkOK, Link
<1>6. arms => ~l.teardown OBVIOUS
<1> HIDE DEF arms
<1>7. (l.armed \/ arms) \in BOOLEAN /\ (l.others \/ arms) \in BOOLEAN BY <1>5
<1>8. Quiet(l, l, orphans) BY <1>4 DEF Sound, Quiet, SameRecovery
<1>9. Quiet(l, a, orphans) BY <1>4, <1>6, <1>7, ZenonT(90) DEF Quiet, Sound, LinkOK, Link, SameRecovery
<1>10. Quiet(l, o, orphans) BY <1>4, <1>6, <1>7, ZenonT(90) DEF Quiet, Sound, LinkOK, Link, SameRecovery
<1> HIDE DEF a, o
<1> QED BY <1>1, <1>2, <1>4, <1>8, <1>9, <1>10, QuietAfter

\* The end of the no-device grace.
LEMMA GraceOverSound ==
  ASSUME orphans \in SUBSET Sid, Sound(link, orphans), GraceOver
  PROVE  Sound(link', orphans) /\ Effect(link, link') /\ orphans' = orphans
<1> DEFINE l == Expired(link, "grace")
<1>1. "grace" \in Kind /\ link.timers["grace"] > 0 BY DEF Kind, GraceOver, Expiring
<1>2. orphans' = orphans /\ link' \in {l, Armed(l)} BY DEF GraceOver, Becomes
<1>3. l = Expired(link, "grace") OBVIOUS
<1> HIDE DEF l
<1>4. Sound(l, orphans) /\ Elapsed(link, l, "grace", orphans) BY <1>1, <1>3, ElapsedSound
<1>5. Quiet(l, l, orphans) BY <1>4 DEF Sound, Quiet, SameRecovery
<1>6. Quiet(l, Armed(l), orphans) BY <1>4, ArmedQuiet DEF Sound
<1> QED BY <1>1, <1>2, <1>4, <1>5, <1>6, QuietAfter

\* The reconnect delay: the flag clears with its timer.
LEMMA ReconnectDelayOverSound ==
  ASSUME orphans \in SUBSET Sid, Sound(link, orphans), ReconnectDelayOver
  PROVE  Sound(link', orphans) /\ Effect(link, link') /\ orphans' = orphans
<1> DEFINE e == Expired(link, "reconnect")
           l == [e EXCEPT !.gone = FALSE]
           d == Disconnect(l)
<1>1. "reconnect" \in Kind /\ link.timers["reconnect"] > 0 BY DEF Kind, ReconnectDelayOver, Expiring
<1>2. orphans' = orphans /\ (link' = l \/ link' \in StartSearching(d))
  BY DEF ReconnectDelayOver, Becomes
<1>3. e = Expired(link, "reconnect") OBVIOUS
<1> HIDE DEF e
<1>4. /\ LinkOK(e, orphans) /\ Follows(e) /\ e.session = link.session /\ e.state = link.state
      /\ e.idle = link.idle
      /\ \A j \in Kind \ {"reconnect"} : e.timers[j] = link.timers[j]
      /\ \A j \in Delayed : e.timers[j] <= link.timers[j]
      /\ Settles(link.session, e.session) /\ KeepsLive(link, e) /\ Effect(link, e)
  <2>1. Elapsed(link, e, "reconnect", orphans) BY <1>1, <1>3, Expires
  <2> QED BY <2>1 DEF Elapsed
<1>5. /\ LinkOK(l, orphans) /\ l.session = e.session /\ l.state = e.state /\ l.timers = e.timers
      /\ l.idle = e.idle /\ ~l.gone
  BY <1>4, ZenonT(90) DEF LinkOK, Link
<1> HIDE DEF l
<1>6. Follows(l) BY <1>4, <1>5 DEF Follows
<1>7. CASE link' = l
  <2>1. Sound(l, orphans) BY <1>4, <1>5, <1>6 DEF Sound, Backed, Kind
  <2>2. Effect(link, l) BY <1>4, <1>5 DEF Effect, KeepsLive
  <2> QED BY <1>2, <1>7, <2>1, <2>2
<1>8. CASE link' \in StartSearching(d)
  <2>1. /\ LinkOK(d, orphans) /\ Follows(d) /\ Settles(l.session, d.session) /\ SameRecovery(l, d)
        /\ d.state # "CONNECTED"
    BY <1>5, <1>6, DisconnectKeeps
  <2> HIDE DEF d
  <2>2. Settles(link.session, d.session) /\ KeepsLive(link, d) /\ LinkOK(link, orphans)
    BY <1>4, <1>5, <2>1 DEF KeepsLive, Sound
  <2>3. \A j \in Delayed : d.timers[j] <= link.timers[j] BY <1>4, <1>5, <2>1 DEF SameRecovery
  <2> QED BY <1>2, <1>8, <2>1, <2>2, <2>3, SearchSound
<1> QED BY <1>2, <1>7, <1>8

\* The delay after a control timeout, and the teardown it brings.
LEMMA TimeoutReconnectDelayOverSound ==
  ASSUME orphans \in SUBSET Sid, Sound(link, orphans), TimeoutReconnectDelayOver
  PROVE  Sound(link', orphans) /\ Effect(link, link') /\ orphans' = orphans
<1> DEFINE e == Expired(link, "timeoutReconnect")
           l == [e EXCEPT !.gone = FALSE]
           s == StopDetection(l)
           t == [s EXCEPT !.recoveries = Bump(@)]
<1>1. "timeoutReconnect" \in Kind /\ link.timers["timeoutReconnect"] > 0
  BY DEF Kind, TimeoutReconnectDelayOver, Expiring
<1>2. orphans' = orphans /\ (\/ link' = l
                             \/ link' = Start(CleanupAASDK(t), "fullReinit")
                             \/ link' = Start(CleanupChannels(t), "softReinit"))
  BY DEF TimeoutReconnectDelayOver, Becomes
<1>3. e = Expired(link, "timeoutReconnect") OBVIOUS
<1> HIDE DEF e
<1>4. /\ LinkOK(e, orphans) /\ Follows(e) /\ e.session = link.session /\ e.state = link.state
      /\ e.idle = link.idle /\ e.teardown = link.teardown
      /\ \A j \in Kind \ {"timeoutReconnect"} : e.timers[j] = link.timers[j]
      /\ \A j \in Delayed : e.timers[j] <= link.timers[j]
      /\ Effect(link, e)
  <2>1. Elapsed(link, e, "timeoutReconnect", orphans) BY <1>1, <1>3, Expires
  <2> QED BY <2>1 DEF Elapsed
<1>5. /\ LinkOK(l, orphans) /\ l.session = e.session /\ l.state = e.state /\ l.timers = e.timers
      /\ l.idle = e.idle /\ ~l.gone
  BY <1>4, ZenonT(90) DEF LinkOK, Link
<1> HIDE DEF l
<1>6. Sound(l, orphans) BY <1>4, <1>5 DEF Sound, Follows, Backed, Kind
<1>7. Effect(link, l) BY <1>4, <1>5 DEF Effect, KeepsLive
<1>8. Quiet(l, s, orphans) BY <1>5, HelpersQuiet
<1> HIDE DEF s
<1>9. Bump(s.recoveries) \in 0..FullReinitAfter BY <1>8, BumpInRange DEF Quiet, LinkOK, Link
<1>10. Quiet(l, t, orphans) BY <1>8, <1>9 DEF Quiet, LinkOK, Link, SameRecovery
<1> HIDE DEF t
<1>11. ASSUME NEW c, Quiet(t, c, orphans), NEW k \in Kind \ Delayed, link' = Start(c, k)
       PROVE  Sound(link', orphans) /\ Effect(link, link')
  <2>1. Quiet(l, c, orphans) BY <1>10, <1>11 DEF Quiet, SameRecovery
  <2>2. Sound(c, orphans) BY <1>6, <2>1, QuietSound
  <2>3. Sound(link', orphans) /\ Effect(c, link') BY <1>11, <2>2, StartSound
  <2>4. \A j \in Delayed : (link').timers[j] <= link.timers[j]
    BY <1>11, <1>4, <1>5, <2>1, <2>2, TimerTypes DEF Quiet, SameRecovery, Start, Delayed, Kind, Sound
  <2> QED BY <1>4, <1>5, <2>1, <2>3, <2>4 DEF Quiet, Effect, KeepsLive
<1>12. "fullReinit" \in Kind \ Delayed /\ "softReinit" \in Kind \ Delayed BY DEF Kind, Delayed
<1>13. Quiet(t, CleanupAASDK(t), orphans) /\ Quiet(t, CleanupChannels(t), orphans)
  BY <1>10, HelpersQuiet, ZenonT(90) DEF Quiet
<1> QED BY <1>2, <1>6, <1>7, <1>11, <1>12, <1>13

\* Both outcomes of setting the stack up again.
LEMMA ReinitialisedKeeps ==
  ASSUME NEW O \in SUBSET Sid, NEW l, LinkOK(l, O), NEW m, LinkOK(m, O), Follows(m),
         m.session = l.session, m.state = l.state,
         \A k \in Delayed : m.timers[k] <= l.timers[k],
         NEW r \in Reinitialised(m)
  PROVE  LinkOK(r, O) /\ Follows(r) /\ Effect(l, r) /\ (Backed(m) => Backed(r))
<1>1. SessionOK(l.session, O) BY DEF LinkOK
<1>2. CASE r \in StartSearching(SetupAASDK(m, TRUE))
  <2> DEFINE a == SetupAASDK(m, TRUE)
  <2>1. Quiet(m, a, O) BY HelpersQuiet
  <2>2. r \in StartSearching(a) BY <1>2
  <2> HIDE DEF a
  <2>3. /\ LinkOK(a, O) /\ Follows(a) /\ Settles(l.session, a.session) /\ KeepsLive(l, a)
        /\ (a.state = "CONNECTED" => l.state = "CONNECTED")
        /\ \A k \in Delayed : a.timers[k] <= l.timers[k]
    BY <1>1, <2>1, SameSession DEF Quiet, Follows, KeepsLive, SameRecovery
  <2>4. Sound(r, O) /\ Effect(l, r) BY <2>2, <2>3, SearchSound
  <2> QED BY <2>4 DEF Sound
<1>3. CASE r = Transition(SetupAASDK(m, FALSE), "ERROR")
  <2> DEFINE a == SetupAASDK(m, FALSE)
  <2>1. Quiet(m, a, O) BY HelpersQuiet
  <2>2. r = Transition(a, "ERROR") BY <1>3
  <2> HIDE DEF a
  <2>3. LinkOK(a, O) /\ Follows(a) BY <2>1 DEF Quiet, Follows
  <2>4. LinkOK(r, O) /\ Follows(r) /\ Settles(a.session, r.session) /\ SameRecovery(a, r) /\ r.state = "ERROR"
    BY <2>2, <2>3, MoveSound
  <2>5. Backed(m) => Backed(r) BY <2>1, <2>4 DEF Quiet, SameRecovery, Backed
  <2>6. Effect(l, r)
    BY <2>1, <2>4 DEF Quiet, SameRecovery, Effect, KeepsLive, Step
  <2> QED BY <2>4, <2>5, <2>6
<1> QED BY <1>2, <1>3 DEF Reinitialised

\* The delays that end in a search.
LEMMA ReinitDelayOverSound ==
  ASSUME orphans \in SUBSET Sid, Sound(link, orphans),
         FullReinitDelayOver \/ SoftReinitDelayOver \/ ImmediateDelayOver
  PROVE  Sound(link', orphans) /\ Effect(link, link') /\ orphans' = orphans
<1>1. PICK k \in {"fullReinit", "softReinit", "immediate"} :
        /\ link.timers[k] > 0 /\ orphans' = orphans
        /\ \/ link' = Expired(link, k) /\ k # "immediate"
           \/ link' \in StartSearching(Expired(link, k))
           \/ link' \in Reinitialised(Expired(link, k)) /\ k # "immediate"
  BY DEF FullReinitDelayOver, SoftReinitDelayOver, ImmediateDelayOver, Expiring, Becomes
<1> DEFINE e == Expired(link, k)
<1>2. e = Expired(link, k) /\ k \in Kind \ Delayed /\ k # "idleBegin" BY DEF Kind, Delayed
<1>3. \/ link' = e /\ k # "immediate"
      \/ link' \in StartSearching(e)
      \/ link' \in Reinitialised(e) /\ k # "immediate"
  BY <1>1
<1> HIDE DEF e
<1>4. /\ LinkOK(e, orphans) /\ Follows(e) /\ e.session = link.session /\ e.state = link.state
      /\ e.gone = link.gone /\ e.idle = link.idle
      /\ \A j \in Kind \ {k} : e.timers[j] = link.timers[j]
      /\ \A j \in Delayed : e.timers[j] <= link.timers[j]
      /\ Settles(link.session, e.session) /\ KeepsLive(link, e) /\ Effect(link, e)
  <2>1. Elapsed(link, e, k, orphans) BY <1>1, <1>2, Expires
  <2> QED BY <2>1 DEF Elapsed
<1>5. k # "immediate" => Backed(e)
  BY <1>1, <1>2, <1>4 DEF Sound, Backed, Kind
<1>6. CASE link' = e /\ k # "immediate" BY <1>1, <1>4, <1>5, <1>6 DEF Sound
<1>7. CASE link' \in StartSearching(e)
  <2>1. LinkOK(link, orphans) BY DEF Sound
  <2> QED BY <1>1, <1>4, <1>7, <2>1, SearchSound
<1>8. CASE link' \in Reinitialised(e) /\ k # "immediate"
  <2>1. LinkOK(link, orphans) BY DEF Sound
  <2>2. LinkOK(link', orphans) /\ Follows(link') /\ Effect(link, link') /\ (Backed(e) => Backed(link'))
    BY <1>4, <1>8, <2>1, ReinitialisedKeeps
  <2> QED BY <1>1, <1>5, <1>8, <2>2 DEF Sound
<1> QED BY <1>3, <1>6, <1>7, <1>8

\* The idle recovery disconnects: the second flag gets its own timer.
LEMMA IdleDisconnectSound ==
  ASSUME orphans \in SUBSET Sid, Sound(link, orphans), IdleDisconnect
  PROVE  Sound(link', orphans) /\ Effect(link, link') /\ orphans' = orphans
<1> DEFINE l == Expired(link, "idleBegin")
           g == [l EXCEPT !.gone = TRUE]
           d == Disconnect(g)
<1>1. "idleBegin" \in Kind /\ link.timers["idleBegin"] > 0 BY DEF Kind, IdleDisconnect, Expiring
<1>2. orphans' = orphans /\ (\/ link' = [l EXCEPT !.idle = FALSE]
                             \/ l.state = "CONNECTED" /\ link' = Start(d, "idleCleanup"))
  BY DEF IdleDisconnect, Becomes
<1>3. l = Expired(link, "idleBegin") OBVIOUS
<1> HIDE DEF l
<1>4. /\ LinkOK(l, orphans) /\ Follows(l) /\ l.session = link.session /\ l.state = link.state
      /\ l.gone = link.gone
      /\ \A j \in Kind \ {"idleBegin"} : l.timers[j] = link.timers[j]
      /\ \A j \in Delayed : l.timers[j] <= link.timers[j]
      /\ Effect(link, l)
  <2>1. Elapsed(link, l, "idleBegin", orphans) BY <1>1, <1>3, Expires
  <2> QED BY <2>1 DEF Elapsed
<1>5. CASE link' = [l EXCEPT !.idle = FALSE]
  <2>1. /\ LinkOK(link', orphans) /\ (link').session = l.session /\ (link').state = l.state
        /\ (link').timers = l.timers /\ (link').gone = l.gone /\ ~(link').idle
    BY <1>4, <1>5, ZenonT(90) DEF LinkOK, Link
  <2>2. Sound(link', orphans) BY <1>4, <2>1 DEF Sound, Follows, Backed, Kind
  <2> QED BY <1>2, <1>4, <2>1, <2>2 DEF Effect, KeepsLive
<1>6. CASE l.state = "CONNECTED" /\ link' = Start(d, "idleCleanup")
  <2>1. /\ LinkOK(g, orphans) /\ Follows(g) /\ g.session = l.session /\ g.state = l.state
        /\ g.timers = l.timers
    BY <1>4, ZenonT(90) DEF LinkOK, Link, Follows
  <2>2. link' = Start(d, "idleCleanup") BY <1>6
  <2> HIDE DEF g
  <2>3. /\ LinkOK(d, orphans) /\ Follows(d) /\ Settles(l.session, d.session) /\ SameRecovery(g, d)
        /\ d.state # "CONNECTED" /\ ~d.idle
    BY <1>6, <2>1, DisconnectKeeps
  <2> HIDE DEF d
  <2>4. "idleCleanup" \in Kind \ Delayed BY DEF Kind, Delayed
  <2>5. /\ LinkOK(link', orphans) /\ (link').session = d.session /\ (link').state = d.state
        /\ ~(link').idle /\ (link').timers["idleCleanup"] = d.timers["idleCleanup"] + 1
        /\ \A j \in Delayed : (link').timers[j] = d.timers[j]
    BY <2>2, <2>3, <2>4, TimerTypes DEF Start, LinkOK, Link, Kind, Delayed
  <2>10. \A j \in Kind : d.timers[j] \in Nat BY <2>3, TimerTypes
  <2>6. (link').timers["idleCleanup"] > 0 BY <2>4, <2>5, <2>10
  <2>7. Sound(link', orphans) BY <2>3, <2>5, <2>6 DEF Sound, Follows, Backed
  <2>8. \A j \in Delayed : (link').timers[j] <= link.timers[j]
    BY <1>4, <2>1, <2>3, <2>5 DEF SameRecovery
  <2>9. Effect(link, link') BY <1>4, <2>3, <2>5, <2>8 DEF Effect, KeepsLive, Step
  <2> QED BY <1>2, <2>7, <2>9
<1> QED BY <1>2, <1>5, <1>6

\* Both flags are cleared.
LEMMA IdleOverSound ==
  ASSUME NEW O \in SUBSET Sid, NEW l, NEW m, LinkOK(m, O), Follows(m), Effect(l, m)
  PROVE  Sound(IdleOver(m), O) /\ Effect(l, IdleOver(m))
<1> DEFINE r == IdleOver(m)
<1>1. /\ LinkOK(r, O) /\ r.session = m.session /\ r.state = m.state /\ r.timers = m.timers
      /\ ~r.gone /\ ~r.idle
  BY ZenonT(90) DEF IdleOver, LinkOK, Link
<1> HIDE DEF r
<1>2. Sound(r, O) /\ Effect(l, r)
  BY <1>1 DEF Sound, Follows, Backed, Effect, KeepsLive, Live
<1> QED BY <1>2 DEF r

\* The idle recovery tears the stack down, or gives up and clears the flags.
LEMMA IdleCleanupSound ==
  ASSUME orphans \in SUBSET Sid, Sound(link, orphans), IdleCleanup
  PROVE  Sound(link', orphans) /\ Effect(link, link') /\ orphans' = orphans
<1> DEFINE l == Expired(link, "idleCleanup")
           s == StopDetection(l)
           c == CleanupAASDK(s)
<1>1. "idleCleanup" \in Kind /\ link.timers["idleCleanup"] > 0 BY DEF Kind, IdleCleanup, Expiring
<1>2. orphans' = orphans /\ (link' = IdleOver(l) \/ link' = Start(c, "idleReinit"))
  BY DEF IdleCleanup, Becomes
<1>3. l = Expired(link, "idleCleanup") OBVIOUS
<1> HIDE DEF l
<1>4. /\ LinkOK(l, orphans) /\ Follows(l) /\ l.session = link.session /\ l.state = link.state
      /\ \A j \in Delayed : l.timers[j] <= link.timers[j]
      /\ Effect(link, l)
  <2>1. Elapsed(link, l, "idleCleanup", orphans) BY <1>1, <1>3, Expires
  <2> QED BY <2>1 DEF Elapsed
<1>5. CASE link' = IdleOver(l) BY <1>2, <1>4, <1>5, IdleOverSound
<1>6. CASE link' = Start(c, "idleReinit")
  <2>1. Quiet(l, s, orphans) BY <1>4, HelpersQuiet
  <2> HIDE DEF s
  <2>2. Quiet(s, c, orphans) /\ ~c.idle BY <2>1, HelpersQuiet, ZenonT(90) DEF Quiet
  <2> HIDE DEF c
  <2>3. "idleReinit" \in Kind \ Delayed BY DEF Kind, Delayed
  <2>4. LinkOK(c, orphans) /\ c.session = link.session /\ c.state = link.state /\ c.timers = l.timers
    BY <1>4, <2>1, <2>2 DEF Quiet, SameRecovery
  <2>5. /\ LinkOK(link', orphans) /\ (link').session = c.session /\ (link').state = c.state
        /\ ~(link').idle /\ (link').timers["idleReinit"] = c.timers["idleReinit"] + 1
        /\ \A j \in Delayed : (link').timers[j] = c.timers[j]
    BY <1>6, <2>2, <2>3, <2>4, TimerTypes DEF Start, LinkOK, Link, Kind, Delayed
  <2>9. \A j \in Kind : c.timers[j] \in Nat BY <2>4, TimerTypes
  <2>6. (link').timers["idleReinit"] > 0 BY <2>3, <2>5, <2>9
  <2>7. Sound(link', orphans) BY <1>4, <2>4, <2>5, <2>6 DEF Sound, Follows, Backed
  <2>8. Effect(link, link') BY <1>4, <2>4, <2>5 DEF Effect, KeepsLive
  <2> QED BY <1>2, <2>7, <2>8
<1> QED BY <1>2, <1>5, <1>6

\* The idle recovery ends with a search and clear flags.
LEMMA IdleRestartSound ==
  ASSUME orphans \in SUBSET Sid, Sound(link, orphans), IdleRestart
  PROVE  Sound(link', orphans) /\ Effect(link, link') /\ orphans' = orphans
<1> DEFINE l == Expired(link, "idleReinit")
<1>1. "idleReinit" \in Kind /\ link.timers["idleReinit"] > 0 BY DEF Kind, IdleRestart, Expiring
<1>2. orphans' = orphans /\ (\/ link' = IdleOver(l)
                             \/ \E r \in Reinitialised(l) : link' = IdleOver(r))
  BY DEF IdleRestart, Becomes
<1>3. l = Expired(link, "idleReinit") OBVIOUS
<1> HIDE DEF l
<1>4. /\ LinkOK(l, orphans) /\ Follows(l) /\ l.session = link.session /\ l.state = link.state
      /\ \A j \in Delayed : l.timers[j] <= link.timers[j]
      /\ Effect(link, l)
  <2>1. Elapsed(link, l, "idleReinit", orphans) BY <1>1, <1>3, Expires
  <2> QED BY <2>1 DEF Elapsed
<1>5. CASE link' = IdleOver(l) BY <1>2, <1>4, <1>5, IdleOverSound
<1>6. CASE \E r \in Reinitialised(l) : link' = IdleOver(r)
  <2>1. PICK r \in Reinitialised(l) : link' = IdleOver(r) BY <1>6
  <2>2. LinkOK(link, orphans) BY DEF Sound
  <2>3. LinkOK(r, orphans) /\ Follows(r) /\ Effect(link, r) BY <1>4, <2>2, ReinitialisedKeeps
  <2> QED BY <1>2, <2>1, <2>3, IdleOverSound
<1> QED BY <1>2, <1>5, <1>6

\* The commands of the user interface.
LEMMA CommandSound ==
  ASSUME orphans \in SUBSET Sid, Sound(link, orphans), Launch \/ ConnectToDevice \/ DisconnectCommand
  PROVE  Sound(link', orphans) /\ Effect(link, link') /\ orphans' = orphans
<1>0. orphans' = orphans BY DEF Launch, ConnectToDevice, DisconnectCommand, Becomes
<1>1. LinkOK(link, orphans) /\ Follows(link) /\ Backed(link) BY DEF Sound
<1>2. Quiet(link, link, orphans) BY <1>1 DEF Quiet, SameRecovery
<1>3. CASE Launch
  <2>1. link' \in StartSearching(link) BY <1>3 DEF Launch, Becomes
  <2>2. \A k \in Delayed : link.timers[k] <= link.timers[k] BY <1>1, TimerTypes DEF Delayed, Kind
  <2>3. Settles(link.session, link.session) /\ KeepsLive(link, link)
    BY <1>1, SameSession DEF LinkOK, KeepsLive
  <2> QED BY <1>0, <1>1, <2>1, <2>2, <2>3, SearchSound
<1>4. CASE ConnectToDevice
  <2>1. link' = Transition(link, "CONNECTING") BY <1>4 DEF ConnectToDevice, Becomes
  <2> QED BY <1>0, <1>1, <2>1, MoveSound
<1>5. CASE DisconnectCommand
  <2>1. link' = Disconnect(link) BY <1>5 DEF DisconnectCommand, Becomes
  <2> QED BY <1>0, <1>2, <2>1, DisconnectSound
<1> QED BY <1>3, <1>4, <1>5

-----------------------------------------------------------------------------
(* A new instance: the first start, a restart, and the start after a crash *)

\* A change of what the database refuses leaves memory and rows as they are.
Unmoved(l, r) ==
  /\ Step(l.session, r.session) /\ r.state = l.state /\ r.timers = l.timers
  /\ Live(l) => Live(r)

LEMMA StoreChangesSound ==
  ASSUME orphans \in SUBSET Sid, Sound(link, orphans), StoreChanges
  PROVE  Sound(link', orphans) /\ Unmoved(link, link') /\ orphans' = orphans
<1>1. PICK refused \in Refusals : link' = [link EXCEPT !.session.failing = refused] /\ orphans' = orphans
  BY DEF StoreChanges, Becomes
<1>2. refused \in SUBSET Statement BY RefusalsAssumption
<1> DEFINE b == link.session
           c == [b EXCEPT !.failing = refused]
<1>3. link \in Link /\ SessionOK(b, orphans) /\ b \in Bookkeeping BY DEF Sound, LinkOK, SessionOK
<1>4. /\ c \in Bookkeeping /\ c.rows = b.rows /\ c.id = b.id /\ c.state = b.state /\ c.beat = b.beat
      /\ c.stale = b.stale
  BY <1>2, <1>3 DEF Bookkeeping
<1>5. link' = [link EXCEPT !.session = c] BY <1>1, <1>3 DEF Link
<1> HIDE DEF c
<1>6. SessionOK(c, orphans) BY <1>3, <1>4 DEF SessionOK
<1>7. /\ link' \in Link /\ (link').session = c /\ (link').state = link.state /\ (link').timers = link.timers
      /\ (link').gone = link.gone /\ (link').idle = link.idle /\ (link').accepting = link.accepting
      /\ (link').teardown = link.teardown /\ (link').chan = link.chan /\ (link').handler = link.handler
      /\ (link').armed = link.armed /\ (link').others = link.others
  BY <1>3, <1>4, <1>5 DEF Link
<1>8. Settles(b, c) BY <1>3, <1>4, NoSessionAssumption DEF Settles, SessionOK
<1>9. Sound(link', orphans)
  BY <1>4, <1>6, <1>7 DEF Sound, LinkOK, Follows, Backed
<1>10. Live(link) => Live(link') BY <1>4, <1>7 DEF Live, Recorded
<1> QED BY <1>1, <1>7, <1>8, <1>9, <1>10 DEF Unmoved, Step

\* No session is open but those of dead processes and of refused UPDATEs.
AtRest(b, O) ==
  /\ b \in Bookkeeping
  /\ \A s \in Sid : (b.rows[s] \in OpenRow => s \in O \union b.stale) /\ (s \in O => b.rows[s] # "fresh")

\* A new service over the store another one leaves is sound.
LEMMA NewLinkKeeps ==
  ASSUME NEW O \in SUBSET Sid, NEW a, AtRest(a, O), NEW h \in BOOLEAN
  PROVE  /\ LinkOK(NewLink(a, h), O) /\ Follows(NewLink(a, h))
         /\ NewLink(a, h).session = NewBookkeeping(a)
         /\ NewLink(a, h).state = "DISCONNECTED"
         /\ NewLink(a, h).timers = [k \in Kind |-> 0]
<1> DEFINE b == NewBookkeeping(a)
           l == NewLink(a, h)
<1>1. b \in Bookkeeping /\ b.id = NoSession /\ b.state = "ended" /\ ~b.beat /\ b.rows = a.rows /\ b.stale = a.stale
  BY DEF AtRest, NewBookkeeping, Bookkeeping, SessionState
<1>2. SessionOK(b, O) BY <1>1, NoSessionAssumption DEF SessionOK, AtRest
<1>3. l.session = b BY DEF NewLink
<1> HIDE DEF b
<1>4. 0 \in 0..FullReinitAfter BY CountAssumption
<1>5. [k \in Kind |-> 0] \in [Kind -> Nat] OBVIOUS
<1>6. /\ l.state = "DISCONNECTED" /\ ~l.teardown /\ ~l.accepting /\ l.timers = [k \in Kind |-> 0]
  BY DEF NewLink
<1>7. l \in Link
  BY <1>1, <1>4, <1>5 DEF NewLink, Link, ConnectionState, Progress, b
<1>8. LinkOK(l, O) BY <1>2, <1>3, <1>6, <1>7 DEF LinkOK
<1>9. Follows(l) BY <1>1, <1>3, <1>6 DEF Follows
<1> QED BY <1>3, <1>6, <1>8, <1>9 DEF b

\* And so is it after its first search.
LEMMA StartedKeeps ==
  ASSUME NEW O \in SUBSET Sid, NEW a, AtRest(a, O), NEW r \in Started(a)
  PROVE  /\ Sound(r, O) /\ Step(NewBookkeeping(a), r.session)
         /\ r.state = "CONNECTED" => Live(r) /\ Transport # "usb"
         /\ \A k \in Delayed : r.timers[k] = 0
<1>1. PICK h \in BOOLEAN : r \in StartSearching(NewLink(a, h)) BY DEF Started
<1> DEFINE l == NewLink(a, h)
<1>2. /\ LinkOK(l, O) /\ Follows(l) /\ l.session = NewBookkeeping(a) /\ l.state = "DISCONNECTED"
      /\ l.timers = [k \in Kind |-> 0]
  BY NewLinkKeeps
<1>3. r \in StartSearching(l) BY <1>1
<1> HIDE DEF l
<1>4. Searched(l, r, O) BY <1>2, <1>3, SearchKeeps
<1>5. \A k \in Delayed : r.timers[k] = 0 BY <1>2, <1>4 DEF Searched, Delayed, Kind
<1> QED BY <1>2, <1>4, <1>5 DEF Searched, Sound, Backed, KeepsLive

\* A stopped service leaves no open session of its own.
LEMMA DeinitialisedKeeps ==
  ASSUME NEW O \in SUBSET Sid, NEW l, Sound(l, O)
  PROVE  LET d == Deinitialised(l)
         IN  /\ LinkOK(d, O) /\ Settles(l.session, d.session)
             /\ d.session.id = NoSession
<1> DEFINE s == StopDetection(l)
           p == ResetProjection(s)
           i == IF l.state = "SEARCHING" THEN Transition(p, "DISCONNECTED") ELSE l
           a == IF i.state = "CONNECTED" THEN Disconnect(i) ELSE i
           c == CleanupAASDK(a)
           d == Transition(c, "DISCONNECTED")
<1>0. Deinitialised(l) = d BY DEF Deinitialised
<1>1. LinkOK(l, O) /\ Follows(l) /\ Settles(l.session, l.session) /\ l.session.id \in Sid \union {NoSession}
  BY SameSession DEF Sound, LinkOK
<1>2. Quiet(l, s, O) BY <1>1, HelpersQuiet
<1> HIDE DEF s
<1>3. Quiet(s, p, O) BY <1>2, HelpersQuiet, ZenonT(90) DEF Quiet
<1> HIDE DEF p
<1>4. LinkOK(p, O) /\ Follows(p) /\ p.session = l.session BY <1>1, <1>2, <1>3 DEF Quiet, Follows
<1>5. LinkOK(i, O) /\ Follows(i) /\ Settles(l.session, i.session) BY <1>1, <1>4, MoveSound
<1> HIDE DEF i
<1>6. LinkOK(a, O) /\ Follows(a) /\ Settles(l.session, a.session)
  BY <1>1, <1>5, DisconnectKeeps, SettlesTwice
<1> HIDE DEF a
<1>7. Quiet(a, c, O) BY <1>6, HelpersQuiet
<1> HIDE DEF c
<1>8. LinkOK(c, O) /\ Follows(c) /\ c.session = a.session BY <1>6, <1>7 DEF Quiet, Follows
<1>9. LinkOK(d, O) /\ Follows(d) /\ Settles(c.session, d.session) /\ d.state = "DISCONNECTED"
  BY <1>8, MoveSound
<1> HIDE DEF d
<1>10. Settles(l.session, d.session) BY <1>1, <1>6, <1>8, <1>9, SettlesTwice
<1>11. d.session.id = NoSession BY <1>9 DEF Follows
<1>12. LinkOK(d, O) /\ Settles(l.session, d.session) /\ d.session.id = NoSession
  BY <1>9, <1>10, <1>11
<1> QED BY <1>0, <1>12

\* A restart by ServiceManager.
LEMMA RestartSound ==
  ASSUME orphans \in SUBSET Sid, Sound(link, orphans), Restart
  PROVE  Sound(link', orphans) /\ Effect(link, link') /\ orphans' = orphans
<1> DEFINE d == Deinitialised(link)
           n == NewBookkeeping(d.session)
<1>1. link' \in Started(d.session) /\ orphans' = orphans BY DEF Restart, Becomes
<1>2. LinkOK(d, orphans) /\ Settles(link.session, d.session) /\ d.session.id = NoSession
  BY DeinitialisedKeeps
<1> HIDE DEF d
<1>3. AtRest(d.session, orphans)
  BY <1>2, NoSessionAssumption DEF LinkOK, SessionOK, AtRest, Bookkeeping
<1>4. /\ Sound(link', orphans) /\ Step(n, (link').session)
      /\ (link').state = "CONNECTED" => Live(link') /\ Transport # "usb"
      /\ \A k \in Delayed : (link').timers[k] = 0
  BY <1>1, <1>3, StartedKeeps
<1>5. n.id = NoSession /\ n.rows = d.session.rows
  BY <1>2 DEF NewBookkeeping, LinkOK, SessionOK, Bookkeeping
<1> HIDE DEF n
<1>6. Settles(link.session, n) BY <1>2, <1>5 DEF Settles
<1>7. link.session.id \in Sid \union {NoSession} BY DEF Sound, LinkOK, SessionOK, Bookkeeping
<1>8. Step(link.session, (link').session) BY <1>4, <1>6, <1>7, StepAfterSettles
<1>9. \A k \in Delayed : (link').timers[k] <= link.timers[k]
  <2>1. \A k \in Delayed : link.timers[k] \in Nat BY TimerTypes DEF Sound, Delayed, Kind
  <2> QED BY <1>4, <2>1
<1> QED BY <1>1, <1>4, <1>8, <1>9 DEF Effect, KeepsLive

\* The sessions a crash leaves open are those of the dead process from then on.
LEMMA CrashSound ==
  ASSUME orphans \in SUBSET Sid, Sound(link, orphans), Crash
  PROVE  /\ orphans' \in SUBSET Sid /\ Sound(link', orphans')
         /\ orphans' = orphans \union {s \in Sid : link.session.rows[s] \in OpenRow}
         /\ Step(NewBookkeeping(link.session), (link').session)
         /\ (link').state = "CONNECTED" => Live(link') /\ Transport # "usb"
         /\ \A k \in Delayed : (link').timers[k] = 0
<1>1. link' \in Started(link.session)
  BY DEF Crash
<1>2. orphans' \in SUBSET Sid /\ orphans' = orphans \union {s \in Sid : link.session.rows[s] \in OpenRow}
  BY DEF Crash
<1>3. AtRest(link.session, orphans')
  BY <1>2 DEF Sound, LinkOK, SessionOK, AtRest, Bookkeeping, OpenRow
<1> QED BY <1>1, <1>2, <1>3, StartedKeeps

-----------------------------------------------------------------------------
(* The theorems *)

\* The inductive invariant.  Sound carries the facts about the channels, the
\* timers and the rows; over USB a connected link is Live as well.
IInv ==
  /\ orphans \in SUBSET Sid
  /\ Sound(link, orphans)
  /\ Transport = "usb" /\ link.state = "CONNECTED" => Live(link)

\* Every step but a crash has its effect on the sessions of this process, if any.
LEMMA StepSound ==
  ASSUME orphans \in SUBSET Sid, Sound(link, orphans), Next
  PROVE  Crash \/ (/\ Sound(link', orphans) /\ orphans' = orphans
                   /\ Effect(link, link') \/ Unmoved(link, link'))
<1>1. CASE Detection
  BY <1>1, StartupDelayOverSound, HubReportedSound, ScanFoundDeviceSound, PhoneAcceptedSound,
     AcceptFailedSound DEF Detection
<1>2. CASE Conversation
  BY <1>2, VersionSound, ServiceDiscoverySound, MediaSound, ByeByeSound,
     LiveChannelErrorSound, SendFailedSound, LateChannelErrorSound,
     IdleRecoveryDueSound DEF Conversation
<1>3. CASE RecoveryTimer
  BY <1>3, RearmDelayOverSound, GraceOverSound, ReconnectDelayOverSound, TimeoutReconnectDelayOverSound,
     ReinitDelayOverSound, IdleDisconnectSound, IdleCleanupSound, IdleRestartSound
     DEF RecoveryTimer
<1>4. CASE Launch \/ ConnectToDevice \/ DisconnectCommand BY <1>4, CommandSound
<1>5. CASE Restart BY <1>5, RestartSound
<1>6. CASE StoreChanges BY <1>6, StoreChangesSound
<1> QED BY <1>1, <1>2, <1>3, <1>4, <1>5, <1>6 DEF Next

\* An empty database is at rest.
LEMMA EmptyAtRest ==
  AtRest(EmptyStore, {}) /\ \A s \in Sid : EmptyStore.rows[s] = "fresh"
<1>1. /\ EmptyStore.rows = [s \in Sid |-> "fresh"] /\ EmptyStore.stale = {}
      /\ \A s \in Sid : EmptyStore.rows[s] = "fresh"
  BY DEF EmptyStore
<1>2. EmptyStore \in Bookkeeping
  BY DEF EmptyStore, Bookkeeping, SessionState, RowState, OpenRow, Statement
<1> QED BY <1>1, <1>2 DEF AtRest, OpenRow

\* The initial states satisfy the inductive invariant.
LEMMA InitIInv == Init => IInv
<1> SUFFICES ASSUME Init PROVE IInv OBVIOUS
<1>1. link \in Started(EmptyStore) /\ orphans = {} BY DEF Init
<1>2. AtRest(EmptyStore, {}) BY EmptyAtRest
<1>3. {} \in SUBSET Sid OBVIOUS
<1> QED BY <1>1, <1>2, <1>3, StartedKeeps DEF IInv

\* Every step keeps it.
LEMMA NextIInv == IInv /\ [Next]_vars => IInv'
<1> SUFFICES ASSUME IInv, [Next]_vars PROVE IInv' OBVIOUS
<1>1. CASE Next /\ ~Crash
  <2>1. /\ Sound(link', orphans) /\ orphans' = orphans
        /\ Effect(link, link') \/ Unmoved(link, link')
    BY <1>1, StepSound DEF IInv
  <2>2. Transport = "usb" /\ (link').state = "CONNECTED" => Live(link')
    BY <2>1 DEF IInv, Effect, KeepsLive, Live, Recorded, Unmoved
  <2> QED BY <2>1, <2>2 DEF IInv
<1>2. CASE Crash BY <1>2, CrashSound DEF IInv
<1>3. CASE UNCHANGED vars
  BY <1>3 DEF IInv, vars, Sound, LinkOK, Follows, Backed, Live, Recorded, SessionOK
<1> QED BY <1>1, <1>2, <1>3

\* The inductive invariant holds in every reachable state.
THEOREM Invariance == Spec => []IInv
BY InitIInv, NextIInv, PTL DEF Spec

\* Type correctness of the whole state.
THEOREM TypeCorrect == Spec => []TypeOK
<1>1. IInv => TypeOK BY DEF IInv, TypeOK, Sound, LinkOK
<1> QED BY <1>1, Invariance, PTL

\* Whatever is set in motion by errors, timers, commands, restarts and crashes,
\* whatever UPDATEs the database refuses, an open row is the current session's, or
\* a dead process or a refused UPDATE left it so.
THEOREM OneSession == Spec => []OneOpenSession
<1>1. IInv => OneOpenSession BY DEF IInv, OneOpenSession, Sound, LinkOK, SessionOK
<1> QED BY <1>1, Invariance, PTL

\* No recovery flag is left set without the timer that clears it.
THEOREM FlagsBacked == Spec => []RecoveryFlagBacked
<1>1. IInv => RecoveryFlagBacked BY DEF IInv, RecoveryFlagBacked, Sound, Backed, Pending
<1> QED BY <1>1, Invariance, PTL

\* Errors are ignored only while no channel exists.
THEOREM TeardownClean == Spec => []TeardownHasNoChannel
<1>1. IInv => TeardownHasNoChannel BY DEF IInv, TeardownHasNoChannel, Sound, LinkOK
<1> QED BY <1>1, Invariance, PTL

\* Over USB the session record mirrors the connection.
THEOREM SessionFollows ==
  ASSUME Transport = "usb"
  PROVE  Spec => []SessionMirrorsConnection
<1>1. IInv => SessionMirrorsConnection
  BY DEF IInv, SessionMirrorsConnection, Sound, LinkOK, SessionOK, Follows, Live, Recorded
<1> QED BY <1>1, Invariance, PTL

\* No session step touches a row that has ended.
LEMMA StepKeepsEnded ==
  ASSUME NEW O \in SUBSET Sid, NEW b, SessionOK(b, O), NEW c, Step(b, c), NEW s \in Sid,
         b.rows[s] = "ended"
  PROVE  c.rows[s] = "ended"
<1>1. s # b.id BY NoSessionAssumption DEF SessionOK
<1>2. CASE Settles(b, c) BY <1>1, <1>2 DEF Settles
<1>3. CASE Opens(b, c) BY <1>1, <1>3 DEF Opens
<1> QED BY <1>2, <1>3 DEF Step

\* No step, a crash included, changes the row of a session that has ended.
THEOREM EndedFinal == Spec => EndedStaysEnded
<1>1. IInv /\ [Next]_vars =>
        [\A s \in Sid : link.session.rows[s] = "ended" => link'.session.rows[s] = "ended"]_vars
  <2> SUFFICES ASSUME IInv, Next, NEW s \in Sid, link.session.rows[s] = "ended"
               PROVE  (link').session.rows[s] = "ended"
    OBVIOUS
  <2>1. CASE Crash
    <3> DEFINE n == NewBookkeeping(link.session)
    <3>1. Step(n, (link').session) BY <2>1, CrashSound DEF IInv
    <3>2. n.id = NoSession /\ n.rows[s] = "ended"
      BY DEF NewBookkeeping, IInv, Sound, LinkOK, SessionOK, Bookkeeping
    <3> HIDE DEF n
    <3> QED BY <3>1, <3>2, NoSessionAssumption DEF Step, Settles, Opens
  <2>2. CASE ~Crash
    <3>1. Step(link.session, (link').session) BY <2>2, StepSound DEF IInv, Effect, Unmoved
    <3> QED BY <3>1, StepKeepsEnded, SMTT(60) DEF IInv, Sound, LinkOK
  <2> QED BY <2>1, <2>2
<1> QED BY <1>1, Invariance, PTL DEF Spec, EndedStaysEnded

\* Over USB nothing but a search connects.
THEOREM NoSurprise ==
  ASSUME Transport = "usb"
  PROVE  Spec => NoUnannouncedConnection
<1>1. IInv /\ [Next]_vars =>
        [link.state \in {"DISCONNECTED", "ERROR"} => link'.state # "CONNECTED"]_vars
  <2> SUFFICES ASSUME IInv, Next, link.state \in {"DISCONNECTED", "ERROR"}
               PROVE  (link').state # "CONNECTED"
    OBVIOUS
  <2>1. CASE Crash BY <2>1, CrashSound DEF IInv
  <2>2. CASE ~Crash BY <2>2, StepSound DEF IInv, Effect, Unmoved
  <2> QED BY <2>1, <2>2
<1> QED BY <1>1, Invariance, PTL DEF Spec, NoUnannouncedConnection

\* A teardown is not answered by a second recovery.
THEOREM NoSecondRecovery == Spec => NoRecoveryDuringTeardown
<1>1. IInv /\ [Next]_vars =>
        [link.teardown /\ link.timers.reconnect + link.timers.timeoutReconnect = 0
           => link'.timers.reconnect + link'.timers.timeoutReconnect = 0]_vars
  <2> SUFFICES ASSUME IInv, Next, link.teardown,
                      link.timers["reconnect"] + link.timers["timeoutReconnect"] = 0
               PROVE  (link').timers["reconnect"] + (link').timers["timeoutReconnect"] = 0
    OBVIOUS
  <2>1. CASE Crash BY <2>1, CrashSound DEF IInv, Delayed
  <2>2. CASE ~Crash
    <3>1. /\ Sound(link', orphans)
          /\ (link').timers = link.timers \/ \A k \in Delayed : (link').timers[k] <= link.timers[k]
      BY <2>2, StepSound DEF IInv, Effect, Unmoved
    <3>3. \A k \in Delayed : link.timers[k] \in Nat /\ (link').timers[k] \in Nat
      BY <3>1, TimerTypes DEF IInv, Sound, Delayed, Kind
    <3> QED BY <3>1, <3>3 DEF Delayed
  <2> QED BY <2>1, <2>2
<1> QED BY <1>1, Invariance, PTL DEF Spec, NoRecoveryDuringTeardown

-----------------------------------------------------------------------------
(* The bookkeeping implements the ledger *)

\* The status of a session, with the bookkeeping as parameter.
StatusIn(b) ==
  [s \in Sid |-> CASE b.rows[s] = "fresh" -> "unused"
                   [] b.rows[s] = "ended" -> "closed"
                   [] OTHER -> IF s = b.id THEN "open"
                               ELSE IF b.rows[s] = "missing" THEN "closed" ELSE "lost"]

\* What becomes of a session that is not the current one any more.
Fate(c, s) == IF c.rows[s] \in OpenRow THEN "lost" ELSE "closed"

\* Every session has a status of the ledger.
LEMMA StatusValues ==
  ASSUME NEW O \in SUBSET Sid, NEW b, SessionOK(b, O), NEW s \in Sid
  PROVE  /\ s = b.id => StatusIn(b)[s] = "open"
         /\ b.rows[s] = "fresh" => StatusIn(b)[s] = "unused"
         /\ s # b.id /\ b.rows[s] # "fresh" => StatusIn(b)[s] = Fate(b, s)
<1>1. s = b.id => b.rows[s] \notin {"fresh", "ended"} BY NoSessionAssumption DEF SessionOK
<1> DEFINE status == CASE b.rows[s] = "fresh" -> "unused"
                       [] b.rows[s] = "ended" -> "closed"
                       [] OTHER -> IF s = b.id THEN "open"
                                   ELSE IF b.rows[s] = "missing" THEN "closed" ELSE "lost"
<1>6. StatusIn(b)[s] = status BY DEF StatusIn
<1> HIDE DEF StatusIn
<1>7. s = b.id => status = "open" BY <1>1, SMT DEF OpenRow
<1>8. b.rows[s] = "fresh" => status = "unused" BY <1>1, SMT DEF OpenRow
<1>2. /\ s = b.id => StatusIn(b)[s] = "open"
      /\ b.rows[s] = "fresh" => StatusIn(b)[s] = "unused"
  BY <1>6, <1>7, <1>8
<1>3. CASE s # b.id /\ b.rows[s] = "ended" BY <1>6, <1>3 DEF Fate, OpenRow
<1>4. CASE s # b.id /\ b.rows[s] \in OpenRow
  BY <1>6, <1>4 DEF Fate, OpenRow
<1>5. CASE s # b.id /\ b.rows[s] = "missing"
  BY <1>6, <1>5 DEF Fate, OpenRow
<1>9. b.rows[s] \in {"fresh", "ended", "missing"} \union OpenRow
  BY DEF SessionOK, Bookkeeping, RowState
<1> QED BY <1>2, <1>3, <1>4, <1>5, <1>9

\* From b to c the current session changed; on the ledger this is Change of its
\* fate and of c.id, as Charged says.
Moved(b, c) ==
  /\ b.id # c.id
  /\ b.id \in Sid => c.rows[b.id] # "fresh"
  /\ \A s \in Sid : s # b.id /\ s # c.id => c.rows[s] = b.rows[s]
  /\ c.id # NoSession => b.rows[c.id] = "fresh"

Charged(b, c) ==
  /\ c.id = NoSession \/ (c.id \in Sid /\ StatusIn(b)[c.id] = "unused")
  /\ StatusIn(c) = [s \in Sid |-> IF s = c.id THEN "open"
                                  ELSE IF s = b.id THEN Fate(c, b.id) ELSE StatusIn(b)[s]]

\* A session step is a step of the ledger.
LEMMA StepMaps ==
  ASSUME NEW O \in SUBSET Sid, NEW P \in SUBSET Sid, NEW b, NEW c, SessionOK(b, O), SessionOK(c, P),
         Moved(b, c)
  PROVE  Charged(b, c)
<1>1. b.id \in Sid \union {NoSession} /\ c.id \in Sid \union {NoSession}
  BY DEF SessionOK, Bookkeeping
<1>2. c.id = NoSession \/ (c.id \in Sid /\ StatusIn(b)[c.id] = "unused")
  BY <1>1, StatusValues DEF Moved
<1>3. ASSUME NEW s \in Sid
      PROVE  StatusIn(c)[s] = IF s = c.id THEN "open"
                              ELSE IF s = b.id THEN Fate(c, b.id) ELSE StatusIn(b)[s]
  <2>1. CASE s = c.id BY <2>1, StatusValues
  <2>2. CASE s # c.id /\ s = b.id BY <2>2, StatusValues DEF Moved
  <2>3. CASE s # c.id /\ s # b.id
    <3>1. c.rows[s] = b.rows[s] BY <2>3 DEF Moved
    <3>2. Fate(c, s) = Fate(b, s) BY <3>1 DEF Fate
    <3> QED BY <2>3, <3>1, <3>2, StatusValues
  <2> QED BY <2>1, <2>2, <2>3
<1>4. StatusIn(c) = [s \in Sid |-> StatusIn(c)[s]] BY DEF StatusIn
<1>5. StatusIn(c) = [s \in Sid |-> IF s = c.id THEN "open"
                                  ELSE IF s = b.id THEN Fate(c, b.id) ELSE StatusIn(b)[s]]
  BY <1>3, <1>4
<1> QED BY <1>2, <1>5 DEF Charged

\* The status of all sessions stays while the current one stays.
LEMMA SameStatus ==
  ASSUME NEW O \in SUBSET Sid, NEW P \in SUBSET Sid, NEW b, NEW c, SessionOK(b, O), SessionOK(c, P),
         Settles(b, c), c.id = b.id
  PROVE  StatusIn(c) = StatusIn(b)
<1>1. ASSUME NEW s \in Sid PROVE StatusIn(c)[s] = StatusIn(b)[s]
  <2>1. CASE s = b.id BY <2>1, StatusValues
  <2>2. CASE s # b.id
    <3>1. c.rows[s] = b.rows[s] BY <2>2 DEF Settles
    <3>2. Fate(c, s) = Fate(b, s) BY <3>1 DEF Fate
    <3> QED BY <2>2, <3>1, <3>2, StatusValues
  <2> QED BY <2>1, <2>2
<1>2. StatusIn(c) = [s \in Sid |-> StatusIn(c)[s]] /\ StatusIn(b) = [s \in Sid |-> StatusIn(b)[s]]
  BY DEF StatusIn
<1> QED BY <1>1, <1>2

\* The first bookkeeping maps to an initial ledger.
LEMMA LedgerInit == Init => Ledger!Init
<1> SUFFICES ASSUME Init PROVE Ledger!Init OBVIOUS
<1> DEFINE b == NewBookkeeping(EmptyStore)
           c == link.session
<1>1. link \in Started(EmptyStore) /\ orphans = {} /\ {} \in SUBSET Sid BY DEF Init
<1>2. AtRest(EmptyStore, {}) /\ \A s \in Sid : EmptyStore.rows[s] = "fresh" BY EmptyAtRest
<1>3. b.id = NoSession /\ b.rows = EmptyStore.rows BY <1>2 DEF NewBookkeeping, AtRest, Bookkeeping
<1>5. Sound(link, {}) /\ Step(b, c) BY <1>1, <1>2, StartedKeeps
<1>6. SessionOK(c, {}) BY <1>5 DEF Sound, LinkOK
<1> HIDE DEF b
<1>7. \A s \in Sid : s # c.id => c.rows[s] = "fresh"
  BY <1>2, <1>3, <1>5, NoSessionAssumption DEF Step, Settles, Opens
<1> HIDE DEF c
<1>8. ASSUME NEW s \in Sid
      PROVE  StatusIn(c)[s] = IF s = c.id THEN "open" ELSE "unused"
  BY <1>1, <1>6, <1>7, StatusValues
<1>9. StatusIn(c) = [s \in Sid |-> StatusIn(c)[s]] BY DEF StatusIn
<1>10. LedgerStatus = StatusIn(c) BY <1>1 DEF LedgerStatus, StatusIn, c
<1>11. LedgerStatus = [s \in Sid |-> IF s = c.id THEN "open" ELSE "unused"]
  BY <1>8, <1>9, <1>10
<1>12. c.id \in Sid \union {NoSession} BY <1>6 DEF SessionOK, Bookkeeping
<1> QED BY <1>11, <1>12 DEF Ledger!Init, c

\* A step of the link maps to a step of the ledger or leaves it alone.
LEMMA LedgerNext == IInv /\ [Next]_vars => [Ledger!Next]_(Ledger!vars)
<1> SUFFICES ASSUME IInv, [Next]_vars PROVE [Ledger!Next]_(Ledger!vars) OBVIOUS
<1> DEFINE b == link.session
           c == (link').session
<1>0. orphans \in SUBSET Sid /\ SessionOK(b, orphans) /\ b.id \in Sid \union {NoSession}
  BY DEF IInv, Sound, LinkOK, SessionOK, Bookkeeping
<1>1. LedgerStatus = StatusIn(b) /\ LedgerStatus' = StatusIn(c)
  BY DEF LedgerStatus, StatusIn
<1>2. ASSUME SessionOK(c, orphans'), orphans' \in SUBSET Sid, Moved(b, c)
      PROVE  Ledger!Next
  <2>0. Charged(b, c) BY <1>0, <1>2, StepMaps
  <2> DEFINE fate == Fate(c, b.id)
  <2>1. /\ c.id = NoSession \/ (c.id \in Sid /\ StatusIn(b)[c.id] = "unused")
        /\ StatusIn(c) = [s \in Sid |-> IF s = c.id THEN "open"
                                        ELSE IF s = b.id THEN fate ELSE StatusIn(b)[s]]
    BY <2>0 DEF Charged
  <2>2. fate \in {"closed", "lost"} BY DEF Fate
  <2> HIDE DEF fate
  <2>3. Ledger!Change(fate, c.id) BY <1>1, <2>1 DEF Ledger!Change
  <2>4. CASE fate = "lost" BY <2>1, <2>3, <2>4 DEF Ledger!Next, Ledger!Lose
  <2>5. CASE fate = "closed" /\ c.id = NoSession
    BY <1>2, <2>3, <2>5 DEF Ledger!Next, Ledger!Close, Moved
  <2>6. CASE fate = "closed" /\ c.id # NoSession
    BY <2>1, <2>3, <2>6 DEF Ledger!Next, Ledger!Open
  <2> QED BY <2>2, <2>4, <2>5, <2>6
<1>3. CASE Next /\ ~Crash
  <2>1. SessionOK(c, orphans) /\ Step(b, c) /\ orphans' = orphans
    BY <1>3, StepSound DEF IInv, Sound, LinkOK, Effect, Unmoved
  <2>2. CASE Settles(b, c) /\ c.id = b.id
    <3>1. StatusIn(c) = StatusIn(b) BY <1>0, <2>1, <2>2, SameStatus
    <3> QED BY <1>1, <2>2, <3>1 DEF Ledger!vars
  <2>3. CASE (Settles(b, c) /\ c.id # b.id) \/ Opens(b, c)
    <3>1. Moved(b, c) BY <1>0, <2>3, NoSessionAssumption DEF Moved, Settles, Opens
    <3> QED BY <1>0, <1>2, <2>1, <3>1
  <2> QED BY <2>1, <2>2, <2>3 DEF Step
<1>4. CASE Crash
  <2> DEFINE n == NewBookkeeping(b)
  <2>1. orphans' \in SUBSET Sid /\ SessionOK(c, orphans') /\ Step(n, c)
    BY <1>4, CrashSound DEF IInv, Sound, LinkOK
  <2>2. n.id = NoSession /\ n.rows = b.rows BY <1>0 DEF NewBookkeeping, SessionOK, Bookkeeping
  <2> HIDE DEF n
  <2>3. /\ \A s \in Sid : s # c.id => c.rows[s] = b.rows[s]
        /\ c.id # NoSession => c.id \in Sid /\ b.rows[c.id] = "fresh"
    BY <2>1, <2>2, NoSessionAssumption DEF Step, Settles, Opens
  <2>4. b.id \in Sid => b.rows[b.id] # "fresh" /\ c.id # b.id
    BY <1>0, <2>3, NoSessionAssumption DEF SessionOK
  <2>5. CASE c.id = b.id
    <3>1. b.id = NoSession BY <1>0, <2>4, <2>5
    <3>2. Settles(b, c) BY <2>3, <2>5, <3>1, NoSessionAssumption DEF Settles
    <3>3. StatusIn(c) = StatusIn(b) BY <1>0, <2>1, <2>5, <3>2, SameStatus
    <3> QED BY <1>1, <2>5, <3>3 DEF Ledger!vars
  <2>6. CASE c.id # b.id
    <3>1. Moved(b, c) BY <2>3, <2>4, <2>6 DEF Moved
    <3> QED BY <1>0, <1>2, <2>1, <3>1
  <2> QED BY <2>5, <2>6
<1>5. CASE UNCHANGED vars
  <2>1. LedgerStatus' = LedgerStatus /\ (link').session.id = link.session.id
    BY <1>5 DEF vars, LedgerStatus
  <2> QED BY <2>1 DEF Ledger!vars
<1> QED BY <1>3, <1>4, <1>5

\* The session bookkeeping, under every order of events, is a ledger: one current
\* session, ids used once, closed and lost sessions never reopened.
THEOREM LedgerImplemented == Spec => ImplementsLedger
<1>1. Ledger!Spec <=> Ledger!Init /\ [][Ledger!Next]_(Ledger!vars) BY DEF Ledger!Spec
<1> QED BY LedgerInit, LedgerNext, Invariance, PTL DEF Spec, ImplementsLedger, Ledger!Spec
=============================================================================
