----------------------------- MODULE Api_proofs -----------------------------
(***************************************************************************)
(* Proofs about what the WebSocket server keeps of the Android Auto        *)
(* service: the copies by which renegotiations are held back, and what its *)
(* clients are told and shown.                                             *)
(*                                                                         *)
(* The inductive invariants are RenOK and ServerOK.  The calls of          *)
(* Renegotiation pass through states that no step ends in (disconnecting), *)
(* so that its lemmas are about services on their way (Moving), and RenOK  *)
(* says that a step ends in none of them.                                  *)
(***************************************************************************)
EXTENDS Renegotiation, ApiClients, TLAPS

-----------------------------------------------------------------------------
(* Renegotiation.                                                          *)

\* A service that is called may also be disconnecting.
Passing == RenState \cup {"DISCONNECTING"}
Moving == KnownIn(Passing)

\* The invariant of the copies: those of the service manager are current while a phone
\* is connected, those of the server as long as it hears the service.
CopiesOK(r) ==
  /\ r \in Moving
  /\ r.state = "CONNECTED" => r.seen = r.progress /\ r.connectedDuring
  /\ r.heard => /\ r.state # "none"
                /\ r.cached = r.progress
                /\ r.stamp # "none" => r.state # "DISCONNECTED"

RenOK(r) == CopiesOK(r) /\ r.state \in RenState

RenInv == RenOK(ren)

\* What a call leaves alone: the timers, and whether the server hears the service.
Same(r, s) ==
  /\ s.startup = r.startup /\ s.grace = r.grace /\ s.relaunch = r.relaunch
  /\ s.heard = r.heard /\ s.recovery = r.recovery
  /\ s.commands = r.commands /\ s.phones = r.phones

LEMMA MovingTyped ==
  ASSUME NEW r \in Moving, r.state \in RenState
  PROVE  r \in Renegotiating
BY DEF Moving, Renegotiating, KnownIn

\* A new state is signalled to the service manager, and to the server if it hears it.
LEMMA MoveToForm ==
  ASSUME NEW r \in Moving, NEW state \in Passing
  PROVE  LET m == MoveTo(r, state)
         IN  /\ m \in Moving /\ Same(r, m) /\ m.state = state
             /\ m.progress = r.progress /\ m.cached = r.cached
             /\ m.seen = (r.seen /\ (r.state # state => ~Lost(state)))
             /\ m.connectedDuring = (r.connectedDuring \/ (r.state # state /\ state = "CONNECTED"))
             /\ r.state = state \/ ~r.heard => m.stamp = r.stamp
             /\ r.state # state /\ r.heard =>
                  m.stamp = CASE state = "CONNECTED" -> "recent"
                              [] state \in {"DISCONNECTED", "ERROR"} -> "none"
                              [] OTHER -> r.stamp
<1> DEFINE told == ManagerHears(r, state)
           signalled == Signal(r, state)
<1>1. told \in Moving /\ Same(r, told)
        /\ told.state = r.state /\ told.progress = r.progress /\ told.cached = r.cached
        /\ told.seen = (r.seen /\ ~Lost(state)) /\ told.stamp = r.stamp
        /\ told.connectedDuring = (r.connectedDuring \/ state = "CONNECTED")
  <2> DEFINE seen == r.seen /\ ~Lost(state)
             during == r.connectedDuring \/ state = "CONNECTED"
             known == [r EXCEPT !.connectedDuring = during, !.seen = seen]
             more == IF known.churn < ChurnLimit THEN known.churn + 1 ELSE known.churn
  <2>1. seen \in BOOLEAN /\ during \in BOOLEAN
    BY DEF Moving, KnownIn
  <2>2. told \in {known, [known EXCEPT !.unquiet = TRUE, !.churn = more]}
    BY DEF ManagerHears
  <2> HIDE DEF seen, during, told
  <2>3. /\ known \in Moving /\ Same(r, known) /\ known.state = r.state
        /\ known.progress = r.progress /\ known.cached = r.cached /\ known.seen = seen
        /\ known.stamp = r.stamp /\ known.connectedDuring = during
    BY <2>1 DEF Same, Moving, KnownIn
  <2> HIDE DEF known
  <2>4. more \in 0..ChurnLimit
    BY <2>3, RenegotiationAssumption DEF Moving, KnownIn
  <2> HIDE DEF more
  <2>5. told \in Moving /\ Same(known, told)
          /\ told.state = known.state /\ told.progress = known.progress
          /\ told.cached = known.cached /\ told.seen = known.seen
          /\ told.stamp = known.stamp /\ told.connectedDuring = known.connectedDuring
    BY <2>2, <2>3, <2>4 DEF Same, Moving, KnownIn
  <2> QED BY <2>3, <2>5 DEF Same, seen, during
<1> HIDE DEF told
<1>2. signalled \in Moving /\ Same(r, signalled)
        /\ signalled.progress = r.progress /\ signalled.cached = r.cached
        /\ signalled.seen = told.seen /\ signalled.connectedDuring = told.connectedDuring
        /\ signalled.stamp = IF r.heard
             THEN CASE state = "CONNECTED" -> "recent"
                    [] state \in {"DISCONNECTED", "ERROR"} -> "none"
                    [] OTHER -> r.stamp
             ELSE r.stamp
  BY <1>1 DEF Signal, StampState, told, Same, Moving, KnownIn
<1> HIDE DEF signalled
<1>3. CASE r.state = state
  BY <1>3 DEF MoveTo, Same, Moving, KnownIn
<1>4. CASE r.state # state
  <2>1. MoveTo(r, state) = [signalled EXCEPT !.state = state]
    BY <1>4 DEF MoveTo, signalled
  <2> QED BY <1>1, <1>2, <1>4, <2>1 DEF Same, Moving, KnownIn
<1> QED BY <1>3, <1>4

\* A move that makes no connection and no end of the service keeps the copies current.
LEMMA MoveToOK ==
  ASSUME NEW r, CopiesOK(r), NEW state \in Passing \ {"CONNECTED", "none"}
  PROVE  CopiesOK(MoveTo(r, state)) /\ Same(r, MoveTo(r, state)) /\ MoveTo(r, state).state = state
<1>1. r \in Moving
  BY DEF CopiesOK
<1> QED BY <1>1, MoveToForm DEF CopiesOK, Same, Moving, KnownIn

\* Milestones that are published reach every copy that is kept.
LEMMA PublishOK ==
  ASSUME NEW r \in Moving, r.state = "CONNECTED" => r.connectedDuring,
         r.heard => r.state # "none" /\ (r.stamp # "none" => r.state # "DISCONNECTED")
  PROVE  LET p == PublishStatus(r)
         IN  /\ CopiesOK(p) /\ Same(r, p) /\ p.state = r.state
             /\ p.seen = r.progress /\ p.progress = r.progress
             /\ p.stamp = r.stamp /\ (~r.heard => p.cached = r.cached)
BY DEF PublishStatus, CopiesOK, Same, Moving, KnownIn

LEMMA ResetOK ==
  ASSUME NEW r, CopiesOK(r)
  PROVE  LET p == ResetMilestones(r)
         IN  /\ CopiesOK(p) /\ Same(r, p) /\ p.state = r.state
             /\ p.seen = FALSE /\ p.progress = FALSE
             /\ p.stamp = r.stamp /\ (~r.heard => p.cached = r.cached)
<1> DEFINE q == [r EXCEPT !.progress = FALSE]
<1>1. /\ q \in Moving /\ Same(r, q) /\ q.state = r.state /\ q.progress = FALSE
      /\ q.connectedDuring = r.connectedDuring /\ q.stamp = r.stamp /\ q.cached = r.cached
  BY DEF CopiesOK, Same, Moving, KnownIn
<1>2. /\ q.state = "CONNECTED" => q.connectedDuring
      /\ q.heard => q.state # "none" /\ (q.stamp # "none" => q.state # "DISCONNECTED")
  BY <1>1 DEF CopiesOK, Same
<1> HIDE DEF q
<1> QED BY <1>1, <1>2, PublishOK DEF ResetMilestones, q, Same

-----------------------------------------------------------------------------
(* Renegotiation: calls to the service.                                    *)

\* startSearching
LEMMA RenSearchOK ==
  ASSUME NEW r, RenOK(r)
  PROVE  LET s == Search(r)
         IN  /\ RenOK(s) /\ Same(r, s)
             /\ s.state # "CONNECTED" <=> r.state # "CONNECTED"
             /\ r.state = "DISCONNECTED" => s.state = "SEARCHING"
             /\ ~r.heard => s.cached = r.cached /\ s.stamp = r.stamp /\ ~s.progress
<1> DEFINE p == ResetMilestones(r)
           s == Search(r)
<1>1. CopiesOK(p) /\ Same(r, p) /\ p.state = r.state /\ ~p.progress
        /\ p.stamp = r.stamp /\ (~r.heard => p.cached = r.cached)
  BY ResetOK DEF RenOK
<1>2. CASE r.state = "DISCONNECTED"
  <2>1. s = MoveTo(p, "SEARCHING")
    BY <1>2 DEF Search
  <2>2. "SEARCHING" \in Passing \ {"CONNECTED", "none"} /\ p \in Moving /\ "SEARCHING" \in RenState
    BY <1>1 DEF Passing, RenState, CopiesOK
  <2>3. CopiesOK(s) /\ Same(p, s) /\ s.state = "SEARCHING"
    BY <1>1, <2>1, <2>2, MoveToOK
  <2>4. s.progress = p.progress /\ s.cached = p.cached /\ (~p.heard => s.stamp = p.stamp)
    BY <2>1, <2>2, MoveToForm
  <2> QED BY <1>1, <1>2, <2>2, <2>3, <2>4 DEF RenOK, Same
<1>3. CASE r.state # "DISCONNECTED"
  <2>1. s = p
    BY <1>3 DEF Search
  <2> QED BY <1>1, <1>3, <2>1 DEF RenOK
<1> QED BY <1>2, <1>3

\* disconnect
LEMMA HangUpOK ==
  ASSUME NEW r, RenOK(r)
  PROVE  LET h == HangUp(r)
         IN  /\ RenOK(h) /\ Same(r, h)
             /\ h.state \notin {"CONNECTED", "CONNECTING"}
             /\ h.state # "none" <=> r.state # "none"
<1>1. CASE r.state \in {"CONNECTED", "CONNECTING"}
  <2> DEFINE a == MoveTo(r, "DISCONNECTING")
             b == ResetMilestones(a)
             c == MoveTo(b, "DISCONNECTED")
  <2>0. /\ "DISCONNECTING" \in Passing \ {"CONNECTED", "none"}
        /\ "DISCONNECTED" \in Passing \ {"CONNECTED", "none"} /\ "DISCONNECTED" \in RenState
    BY DEF Passing, RenState
  <2>1. CopiesOK(a) /\ Same(r, a)
    BY <2>0, MoveToOK DEF RenOK
  <2> HIDE DEF a
  <2>2. CopiesOK(b) /\ Same(a, b)
    BY <2>1, ResetOK
  <2> HIDE DEF b
  <2>3. CopiesOK(c) /\ Same(b, c) /\ c.state = "DISCONNECTED"
    BY <2>0, <2>2, MoveToOK
  <2>4. HangUp(r) = c
    BY <1>1 DEF HangUp, a, b
  <2> HIDE DEF c
  <2> QED BY <1>1, <2>0, <2>1, <2>2, <2>3, <2>4 DEF RenOK, Same
<1>2. CASE r.state \notin {"CONNECTED", "CONNECTING"}
  BY <1>2 DEF HangUp, Same
<1> QED BY <1>1, <1>2

\* deinitialise, and the end of the instance
LEMMA StopInstanceOK ==
  ASSUME NEW r, RenOK(r)
  PROVE  LET s == StopInstance(r)
         IN  /\ RenOK(s) /\ s.state = "none" /\ ~s.heard
             /\ s.startup = r.startup /\ s.grace = r.grace /\ s.relaunch = r.relaunch
             /\ s.commands = r.commands /\ s.phones = r.phones
             /\ r.state = "none" => s = r
<1>1. CASE r.state = "none"
  BY <1>1 DEF StopInstance, RenOK, CopiesOK
<1>2. CASE r.state # "none"
  <2> DEFINE a == HangUp(r)
             b == ResetMilestones(a)
             c == MoveTo(b, "DISCONNECTED")
  <2>0. "DISCONNECTED" \in Passing \ {"CONNECTED", "none"} /\ "none" \in RenState
    BY DEF Passing, RenState
  <2>1. RenOK(a) /\ Same(r, a)
    BY HangUpOK
  <2> HIDE DEF a
  <2>2. CopiesOK(b) /\ Same(a, b)
    BY <2>1, ResetOK DEF RenOK
  <2> HIDE DEF b
  <2>3. CopiesOK(c) /\ Same(b, c)
    BY <2>0, <2>2, MoveToOK
  <2>4. StopInstance(r) = [c EXCEPT !.state = "none", !.heard = FALSE, !.recovery = FALSE]
    BY <1>2 DEF StopInstance, a, b
  <2> HIDE DEF c
  <2> DEFINE s == [c EXCEPT !.state = "none", !.heard = FALSE, !.recovery = FALSE]
  <2>5. c \in Moving /\ "none" \in Passing
    BY <2>3 DEF CopiesOK, Passing, RenState
  <2>6. s \in Moving /\ s.state = "none" /\ ~s.heard
          /\ s.startup = c.startup /\ s.grace = c.grace /\ s.relaunch = c.relaunch
          /\ s.commands = c.commands /\ s.phones = c.phones
    BY <2>5 DEF Moving, KnownIn
  <2> HIDE DEF s
  <2> QED BY <1>2, <2>0, <2>1, <2>2, <2>3, <2>4, <2>6 DEF RenOK, CopiesOK, Same, s
<1> QED BY <1>1, <1>2

\* startAndroidAutoService
LEMMA StartInstanceOK ==
  ASSUME NEW r, RenOK(r)
  PROVE  LET s == StartInstance(r)
         IN  /\ RenOK(s) /\ s.startup = r.startup + 1 /\ s.grace = r.grace
             /\ s.commands = r.commands /\ s.phones = r.phones
             /\ s.state # "none"
             /\ r.state = "none" =>
                  s.cached = r.cached /\ s.stamp = r.stamp /\ ~s.progress /\ ~s.heard
<1> DEFINE a == StopInstance(r)
           b == [a EXCEPT !.state = "DISCONNECTED", !.seen = FALSE,
                      !.connectedDuring = FALSE, !.issued = FALSE, !.startupCooling = FALSE,
                      !.churn = 0, !.unquiet = FALSE, !.inStartup = TRUE, !.untouched = FALSE,
                      !.progress = FALSE]
           c == Search(b)
<1>1. /\ RenOK(a) /\ a.state = "none" /\ ~a.heard
      /\ a.startup = r.startup /\ a.grace = r.grace /\ a.relaunch = r.relaunch
      /\ a.commands = r.commands /\ a.phones = r.phones /\ (r.state = "none" => a = r)
  BY StopInstanceOK
<1> HIDE DEF a
<1>2. /\ RenOK(b) /\ ~b.heard /\ Same(a, b) /\ b.state = "DISCONNECTED"
      /\ b.cached = a.cached /\ b.stamp = a.stamp
  <2>1. /\ a \in Moving /\ "DISCONNECTED" \in Passing /\ "DISCONNECTED" \in RenState
        /\ 0 \in 0..ChurnLimit
    BY <1>1, RenegotiationAssumption DEF RenOK, CopiesOK, Passing, RenState
  <2>2. /\ b \in Moving /\ b.heard = a.heard /\ Same(a, b) /\ b.state = "DISCONNECTED"
        /\ b.cached = a.cached /\ b.stamp = a.stamp
    BY <2>1 DEF Same, Moving, KnownIn
  <2> HIDE DEF b
  <2> QED BY <1>1, <2>1, <2>2 DEF RenOK, CopiesOK
<1> HIDE DEF b
<1>3. /\ RenOK(c) /\ Same(b, c) /\ c.state = "SEARCHING"
      /\ c.cached = b.cached /\ c.stamp = b.stamp /\ ~c.progress
  BY <1>2, RenSearchOK
<1> HIDE DEF c
<1>4. StartInstance(r) = [c EXCEPT !.startup = @ + 1]
  BY DEF StartInstance, a, b, c
<1>5. c \in Moving /\ c.startup \in Nat
  BY <1>3 DEF RenOK, CopiesOK, Moving, KnownIn
<1> QED BY <1>1, <1>2, <1>3, <1>4, <1>5 DEF RenOK, CopiesOK, Same, Moving, KnownIn

-----------------------------------------------------------------------------
(* Renegotiation: steps.                                                   *)

\* A timer of the startup check that ran leaves a connection as it was.
Spared(r, s) ==
  r.state = "CONNECTED" /\ (s.startup < r.startup \/ s.grace < r.grace) => s.state = "CONNECTED"

\* What a step does.
StepOK(r, s) == RenOK(s) /\ Spared(r, s)

\* A call, and what is noted besides, on a service that is not on its way.
LEMMA RenFields ==
  ASSUME NEW r, RenOK(r)
  PROVE  /\ r \in Moving /\ r \in Renegotiating /\ r.state \in RenState
         /\ r.startup \in Nat /\ r.grace \in Nat /\ r.relaunch \in Nat
         /\ r.commands \in 0..MaxCommands /\ r.phones \in 0..MaxPhones
BY MovingTyped DEF RenOK, CopiesOK, Moving, KnownIn

\* What is noted besides is no business of the copies.
SameCopies(r, s) ==
  /\ s \in Moving /\ s.state = r.state
  /\ s.progress = r.progress /\ s.seen = r.seen /\ s.connectedDuring = r.connectedDuring
  /\ s.heard = r.heard /\ s.cached = r.cached /\ s.stamp = r.stamp

LEMMA NotedOK ==
  ASSUME NEW r, RenOK(r), NEW s, SameCopies(r, s)
  PROVE  RenOK(s)
BY DEF SameCopies, RenOK, CopiesOK

LEMMA PhoneFoundOK ==
  ASSUME RenOK(ren), PhoneFound
  PROVE  StepOK(ren, ren')
<1> DEFINE a == MoveTo(ren, "CONNECTING")
           b == ResetMilestones(a)
           c == MoveTo(b, "CONNECTED")
<1>0. /\ "CONNECTING" \in Passing \ {"CONNECTED", "none"} /\ "CONNECTED" \in Passing
      /\ "CONNECTED" \in RenState
  BY DEF Passing, RenState
<1>1. CopiesOK(a) /\ Same(ren, a) /\ a.state = "CONNECTING"
  BY <1>0, MoveToOK DEF RenOK
<1> HIDE DEF a
<1>2. /\ CopiesOK(b) /\ Same(a, b) /\ b.state = "CONNECTING"
      /\ b.seen = FALSE /\ b.progress = FALSE
  BY <1>1, ResetOK
<1> HIDE DEF b
<1>3. /\ c \in Moving /\ Same(b, c) /\ c.state = "CONNECTED"
      /\ c.progress = b.progress /\ c.cached = b.cached
      /\ c.seen = FALSE /\ c.connectedDuring
  BY <1>0, <1>2, MoveToForm DEF CopiesOK
<1> HIDE DEF c
<1>4. RenOK(c)
  BY <1>0, <1>2, <1>3 DEF RenOK, CopiesOK, Same
<1>5. ren' = [c EXCEPT !.untouched = TRUE, !.phones = @ - 1] /\ ren.phones > 0
  BY DEF PhoneFound, a, b, c
<1>6. /\ c.phones = ren.phones /\ ren.phones \in 0..MaxPhones
      /\ c.startup = ren.startup /\ c.grace = ren.grace
      /\ ren.startup \in Nat /\ ren.grace \in Nat
  BY <1>1, <1>2, <1>3, RenFields DEF Same
<1>7. /\ RenOK(ren') /\ ren'.state = "CONNECTED"
  <2>1. c.phones - 1 \in 0..MaxPhones
    BY <1>5, <1>6, RenegotiationAssumption
  <2>2. c \in Moving
    BY <1>3
  <2>3. SameCopies(c, ren')
    BY <1>5, <2>1, <2>2 DEF SameCopies, Moving, KnownIn
  <2> QED BY <1>3, <1>4, <2>3, NotedOK DEF SameCopies
<1> QED BY <1>7 DEF StepOK, Spared

LEMMA PhoneAnswersOK ==
  ASSUME RenOK(ren), PhoneAnswers
  PROVE  StepOK(ren, ren')
<1> DEFINE r == [ren EXCEPT !.progress = TRUE, !.untouched = FALSE]
<1>1. /\ r \in Moving /\ r.state = ren.state /\ r.connectedDuring = ren.connectedDuring
      /\ r.heard = ren.heard /\ r.stamp = ren.stamp
  <2>1. ren \in Moving
    BY RenFields
  <2> QED BY <2>1 DEF Moving, KnownIn
<1>2. ren' = PublishStatus(r) /\ ren.state = "CONNECTED"
  BY DEF PhoneAnswers
<1> HIDE DEF r
<1>3. CopiesOK(ren') /\ ren'.state = "CONNECTED"
  BY <1>1, <1>2, PublishOK DEF RenOK, CopiesOK
<1> QED BY <1>3 DEF StepOK, Spared, RenOK, RenState

LEMMA PhoneRejectedOK ==
  ASSUME RenOK(ren), PhoneRejected
  PROVE  StepOK(ren, ren')
<1> DEFINE r == [ren EXCEPT !.progress = TRUE, !.untouched = FALSE]
           p == PublishStatus(r)
<1>0. "ERROR" \in Passing \ {"CONNECTED", "none"} /\ "ERROR" \in RenState
  BY DEF Passing, RenState
<1>1. /\ r \in Moving /\ r.state = ren.state /\ r.connectedDuring = ren.connectedDuring
      /\ r.heard = ren.heard /\ r.stamp = ren.stamp
      /\ r.startup = ren.startup /\ r.grace = ren.grace
  <2>1. ren \in Moving
    BY RenFields
  <2> QED BY <2>1 DEF Moving, KnownIn
<1>2. ren' = MoveTo(p, "ERROR") /\ ren.state = "CONNECTED"
  BY DEF PhoneRejected
<1> HIDE DEF r
<1>3. CopiesOK(p) /\ Same(r, p)
  BY <1>1, <1>2, PublishOK DEF RenOK, CopiesOK
<1> HIDE DEF p
<1>4. CopiesOK(ren') /\ Same(p, ren') /\ ren'.state = "ERROR"
  BY <1>0, <1>2, <1>3, MoveToOK
<1> QED BY <1>0, <1>1, <1>3, <1>4, RenFields DEF StepOK, Spared, RenOK, Same

LEMMA PhoneLostOK ==
  ASSUME RenOK(ren), PhoneLost
  PROVE  StepOK(ren, ren')
<1> DEFINE h == HangUp(ren)
<1>1. RenOK(h) /\ Same(ren, h)
  BY HangUpOK
<1>2. ren' = [h EXCEPT !.recovery = TRUE]
  BY DEF PhoneLost
<1> HIDE DEF h
<1>3. SameCopies(h, ren') /\ ren'.startup = h.startup /\ ren'.grace = h.grace
  <2>1. h \in Moving
    BY <1>1, RenFields
  <2> QED BY <1>2, <2>1 DEF SameCopies, Moving, KnownIn
<1> QED BY <1>1, <1>3, NotedOK, RenFields DEF StepOK, Spared, Same

LEMMA RecoveryOverOK ==
  ASSUME RenOK(ren), RecoveryOver
  PROVE  StepOK(ren, ren')
<1> DEFINE r == [ren EXCEPT !.recovery = FALSE]
<1>1. RenOK(r) /\ r.startup = ren.startup /\ r.grace = ren.grace
  <2>1. ren \in Moving
    BY RenFields
  <2>2. SameCopies(ren, r) /\ r.startup = ren.startup /\ r.grace = ren.grace
    BY <2>1 DEF SameCopies, Moving, KnownIn
  <2> QED BY <2>2, NotedOK
<1>2. ren' \in {r, Search(r), Search(HangUp(r))}
  BY DEF RecoveryOver
<1> HIDE DEF r
<1>3. RenOK(Search(r)) /\ Same(r, Search(r))
  BY <1>1, RenSearchOK
<1>4. RenOK(HangUp(r)) /\ Same(r, HangUp(r))
  BY <1>1, HangUpOK
<1>5. RenOK(Search(HangUp(r))) /\ Same(HangUp(r), Search(HangUp(r)))
  BY <1>4, RenSearchOK
<1>6. RenOK(ren') /\ ren'.startup = ren.startup /\ ren'.grace = ren.grace
  BY <1>1, <1>2, <1>3, <1>4, <1>5 DEF Same
<1> QED BY <1>6, RenFields DEF StepOK, Spared

\* A renegotiation by the service manager.
LEMMA TriggerOK ==
  ASSUME NEW r, RenOK(r)
  PROVE  RenOK(Trigger(r))
<1> DEFINE i == [r EXCEPT !.issued = TRUE, !.startupCooling = TRUE]
           h == HangUp(i)
<1>1. RenOK(i)
  <2>1. r \in Moving
    BY RenFields
  <2>2. SameCopies(r, i)
    BY <2>1 DEF SameCopies, Moving, KnownIn
  <2> QED BY <2>2, NotedOK
<1> HIDE DEF i
<1>2. RenOK(h)
  BY <1>1, HangUpOK
<1>3. Trigger(r) = [h EXCEPT !.relaunch = @ + 1]
  BY DEF Trigger, i, h
<1> HIDE DEF h
<1>4. SameCopies(h, Trigger(r))
  <2>1. h \in Moving
    BY <1>2, RenFields
  <2> QED BY <1>3, <2>1 DEF SameCopies, Moving, KnownIn
<1> QED BY <1>2, <1>4, NotedOK

LEMMA StartupOverOK ==
  ASSUME RenOK(ren), StartupOver
  PROVE  StepOK(ren, ren')
<1> DEFINE r == [ren EXCEPT !.startup = @ - 1]
           g == [r EXCEPT !.grace = @ + 1]
<1>1. RenOK(r) /\ r.state = ren.state /\ RenOK(g) /\ g.state = ren.state
  <2>1. ren.startup > 0 /\ ren.startup - 1 \in Nat /\ ren.grace + 1 \in Nat
    BY RenFields DEF StartupOver
  <2>2. ren \in Moving
    BY RenFields
  <2>3. SameCopies(ren, r) /\ SameCopies(ren, g)
    BY <2>1, <2>2 DEF SameCopies, Moving, KnownIn
  <2> QED BY <2>3, NotedOK DEF SameCopies
<1>2. CASE HeldBack(r)
  <2>1. ren' = r
    BY <1>2 DEF StartupOver
  <2> QED BY <1>1, <2>1 DEF StepOK, Spared
<1>3. CASE ~HeldBack(r) /\ r.state \in {"CONNECTING", "CONNECTED"}
  <2>1. ren' = g
    BY <1>3 DEF StartupOver
  <2> QED BY <1>1, <2>1 DEF StepOK, Spared
<1>4. CASE ~HeldBack(r) /\ ~(r.state \in {"CONNECTING", "CONNECTED"})
  <2>1. ren' = Trigger(r)
    BY <1>4 DEF StartupOver
  <2>2. ren.state # "CONNECTED"
    BY <1>1, <1>4
  <2> QED BY <1>1, <2>1, <2>2, TriggerOK DEF StepOK, Spared
<1> QED BY <1>2, <1>3, <1>4

\* During the connection that stands a connection was made, so that the check is settled.
LEMMA GraceOK ==
  ASSUME RenOK(ren), GraceOfStartupOver
  PROVE  StepOK(ren, ren')
<1> DEFINE r == [ren EXCEPT !.grace = @ - 1]
<1>1. RenOK(r) /\ r.state = ren.state
  <2>1. ren.grace - 1 \in Nat /\ ren \in Moving
    BY RenFields DEF GraceOfStartupOver
  <2>2. SameCopies(ren, r)
    BY <2>1 DEF SameCopies, Moving, KnownIn
  <2> QED BY <2>2, NotedOK DEF SameCopies
<1>2. ren' = IF Settled(r) THEN r ELSE Trigger(r)
  BY DEF GraceOfStartupOver
<1> HIDE DEF r
<1>3. r.state = "CONNECTED" => Settled(r)
  BY <1>1 DEF Settled, RenOK, CopiesOK
<1> QED BY <1>1, <1>2, <1>3, TriggerOK DEF StepOK, Spared

LEMMA RelaunchOK ==
  ASSUME RenOK(ren), RelaunchOver
  PROVE  StepOK(ren, ren')
<1> DEFINE r == [ren EXCEPT !.relaunch = @ - 1]
<1>1. RenOK(r) /\ r.startup = ren.startup /\ r.grace = ren.grace
  <2>1. ren.relaunch - 1 \in Nat /\ ren \in Moving
    BY RenFields DEF RelaunchOver
  <2>2. SameCopies(ren, r) /\ r.startup = ren.startup /\ r.grace = ren.grace
    BY <2>1 DEF SameCopies, Moving, KnownIn
  <2> QED BY <2>2, NotedOK
<1>2. ren' \in {r, Search(r)}
  BY DEF RelaunchOver
<1> HIDE DEF r
<1>3. RenOK(ren') /\ ren'.startup = ren.startup /\ ren'.grace = ren.grace
  BY <1>1, <1>2, RenSearchOK DEF Same
<1> QED BY <1>3, RenFields DEF StepOK, Spared

\* A command is counted, besides what it does.
LEMMA CommandOK ==
  ASSUME NEW r, RenOK(r), RenOK(ren), Commanded, r.commands = ren.commands,
         r.startup >= ren.startup, r.grace = ren.grace
  PROVE  StepOK(ren, Command(r))
<1> DEFINE c == Command(r)
<1>1. r.commands - 1 \in 0..MaxCommands
  BY RenFields, RenegotiationAssumption DEF Commanded
<1>2. SameCopies(r, c) /\ c.startup = r.startup /\ c.grace = r.grace
  <2>1. r \in Moving
    BY RenFields
  <2> QED BY <1>1, <2>1 DEF Command, SameCopies, Moving, KnownIn
<1> HIDE DEF c
<1>3. RenOK(c)
  BY <1>2, NotedOK
<1>4. Spared(ren, c)
  BY <1>2, RenFields DEF Spared
<1> QED BY <1>3, <1>4 DEF StepOK, c

\* The UI's renegotiation notes its time and leaves a relaunch behind.
LEMMA RenegotiateCommandOK ==
  ASSUME RenOK(ren), Renegotiate
  PROVE  StepOK(ren, ren')
<1> DEFINE i == [ren EXCEPT !.cooling = TRUE]
           h == HangUp(i)
           l == [h EXCEPT !.relaunch = @ + 1]
<1>1. RenOK(i) /\ Same(ren, i)
  <2>1. ren \in Moving
    BY RenFields
  <2>2. SameCopies(ren, i) /\ Same(ren, i)
    BY <2>1 DEF SameCopies, Same, Moving, KnownIn
  <2> QED BY <2>2, NotedOK
<1> HIDE DEF i
<1>2. RenOK(h) /\ Same(i, h)
  BY <1>1, HangUpOK
<1> HIDE DEF h
<1>3. RenOK(l) /\ l.commands = h.commands /\ l.startup = h.startup /\ l.grace = h.grace
  <2>1. h \in Moving
    BY <1>2, RenFields
  <2>2. SameCopies(h, l) /\ l.commands = h.commands /\ l.startup = h.startup /\ l.grace = h.grace
    BY <2>1 DEF SameCopies, Moving, KnownIn
  <2> QED BY <1>2, <2>2, NotedOK
<1>4. ren' = Command(l) /\ Commanded
  BY DEF Renegotiate, i, h, l
<1> HIDE DEF l
<1> QED BY <1>1, <1>2, <1>3, <1>4, CommandOK, RenFields DEF Same

LEMMA LaunchCommandOK ==
  ASSUME RenOK(ren), LaunchCommand
  PROVE  StepOK(ren, ren')
<1>1. RenOK(Search(ren)) /\ Same(ren, Search(ren))
  BY RenSearchOK
<1> QED BY <1>1, CommandOK, RenFields DEF LaunchCommand, Same

LEMMA ConnectCommandOK ==
  ASSUME RenOK(ren), ConnectCommand
  PROVE  StepOK(ren, ren')
<1>0. "CONNECTING" \in Passing \ {"CONNECTED", "none"} /\ "CONNECTING" \in RenState
  BY DEF Passing, RenState
<1>1. RenOK(MoveTo(ren, "CONNECTING")) /\ Same(ren, MoveTo(ren, "CONNECTING"))
  BY <1>0, MoveToOK DEF RenOK
<1> QED BY <1>1, CommandOK, RenFields DEF ConnectCommand, Same

LEMMA HangUpCommandOK ==
  ASSUME RenOK(ren), HangUpCommand
  PROVE  StepOK(ren, ren')
<1>1. RenOK(HangUp(ren)) /\ Same(ren, HangUp(ren))
  BY HangUpOK
<1> QED BY <1>1, CommandOK, RenFields DEF HangUpCommand, Same

\* A stamp of the state that is: none while disconnected.
LEMMA SubscribeCommandOK ==
  ASSUME RenOK(ren), SubscribeCommand
  PROVE  StepOK(ren, ren')
<1> DEFINE s == StampState(ren, ren.state)
<1>1. /\ s \in Moving /\ s.state = ren.state /\ s.seen = ren.seen
      /\ s.progress = ren.progress /\ s.connectedDuring = ren.connectedDuring
      /\ s.heard = ren.heard /\ s.cached = ren.cached
      /\ (s.stamp # "none" => ren.state # "DISCONNECTED")
      /\ Same(ren, s)
  <2>1. ren \in Moving
    BY RenFields
  <2> DEFINE stamp == CASE ren.state = "CONNECTED" -> "recent"
                        [] ren.state \in {"DISCONNECTED", "ERROR"} -> "none"
                        [] OTHER -> ren.stamp
  <2>2. stamp \in {"none", "recent", "old"} /\ (stamp # "none" => ren.state # "DISCONNECTED")
    BY <2>1 DEF Moving, KnownIn
  <2>3. s = [ren EXCEPT !.stamp = stamp]
    BY <2>1 DEF StampState, Moving, KnownIn
  <2> HIDE DEF stamp, s
  <2> QED BY <2>1, <2>2, <2>3 DEF Same, Moving, KnownIn
<1>2. ren' = Command(s) /\ Commanded
  BY DEF SubscribeCommand
<1> HIDE DEF s
<1>3. RenOK(s)
  BY <1>1 DEF RenOK, CopiesOK
<1> QED BY <1>1, <1>2, <1>3, CommandOK, RenFields DEF Same

LEMMA StopCommandOK ==
  ASSUME RenOK(ren), StopCommand
  PROVE  StepOK(ren, ren')
BY StopInstanceOK, CommandOK, RenFields DEF StopCommand

LEMMA RestartCommandOK ==
  ASSUME RenOK(ren), RestartCommand
  PROVE  StepOK(ren, ren')
<1> DEFINE s == StartInstance(ren)
<1>1. RenOK(s) /\ s.startup = ren.startup + 1 /\ s.grace = ren.grace /\ s.commands = ren.commands
  BY StartInstanceOK
<1>2. ren' = Command(s) /\ Commanded
  BY DEF RestartCommand
<1> HIDE DEF s
<1>3. s.startup >= ren.startup
  BY <1>1, RenFields
<1> QED BY <1>1, <1>2, <1>3, CommandOK

LEMMA TimeOK ==
  ASSUME RenOK(ren), TimePasses
  PROVE  StepOK(ren, ren')
<1>0. ren \in Moving
  BY RenFields
<1>1. CASE ren.stamp = "recent" /\ ren' = [ren EXCEPT !.stamp = "old"]
  <2>1. /\ ren' \in Moving /\ ren'.state = ren.state
        /\ ren'.progress = ren.progress /\ ren'.seen = ren.seen
        /\ ren'.connectedDuring = ren.connectedDuring
        /\ ren'.heard = ren.heard /\ ren'.cached = ren.cached
    BY <1>0, <1>1 DEF Moving, KnownIn
  <2> QED BY <1>1, <2>1 DEF StepOK, Spared, RenOK, CopiesOK
<1>2. CASE \/ ren' = [ren EXCEPT !.cooling = FALSE]
           \/ ren' = [ren EXCEPT !.startupCooling = FALSE]
           \/ ren' = [ren EXCEPT !.unquiet = FALSE]
           \/ ren' = [ren EXCEPT !.inStartup = FALSE]
  <2>1. SameCopies(ren, ren')
    <3>1. CASE ren' = [ren EXCEPT !.cooling = FALSE]
      BY <1>0, <3>1 DEF SameCopies, Moving, KnownIn
    <3>2. CASE ren' = [ren EXCEPT !.startupCooling = FALSE]
      BY <1>0, <3>2 DEF SameCopies, Moving, KnownIn
    <3>3. CASE ren' = [ren EXCEPT !.unquiet = FALSE]
      BY <1>0, <3>3 DEF SameCopies, Moving, KnownIn
    <3>4. CASE ren' = [ren EXCEPT !.inStartup = FALSE]
      BY <1>0, <3>4 DEF SameCopies, Moving, KnownIn
    <3> QED BY <1>2, <3>1, <3>2, <3>3, <3>4
  <2> QED BY <2>1, NotedOK DEF StepOK, Spared, SameCopies
<1> QED BY <1>1, <1>2 DEF TimePasses

LEMMA RenStep ==
  ASSUME RenOK(ren), RenNext
  PROVE  StepOK(ren, ren')
BY PhoneFoundOK, PhoneAnswersOK, PhoneLostOK, PhoneRejectedOK, RecoveryOverOK, StartupOverOK,
   GraceOK, RelaunchOK, RenegotiateCommandOK, LaunchCommandOK, ConnectCommandOK,
   HangUpCommandOK, SubscribeCommandOK, StopCommandOK, RestartCommandOK, TimeOK DEF RenNext

LEMMA RenStart == RenInit => RenOK(ren)
<1> SUFFICES ASSUME RenInit PROVE RenOK(ren)
  OBVIOUS
<1> DEFINE none == [state |-> "none", progress |-> FALSE, untouched |-> FALSE, recovery |-> FALSE,
               heard |-> FALSE, cached |-> FALSE, stamp |-> "none", cooling |-> FALSE,
               seen |-> FALSE, connectedDuring |-> FALSE, issued |-> FALSE,
               startupCooling |-> FALSE, churn |-> 0, unquiet |-> FALSE, inStartup |-> FALSE,
               startup |-> 0, grace |-> 0, relaunch |-> 0,
               commands |-> MaxCommands, phones |-> MaxPhones]
           s == StartInstance(none)
<1>1. RenOK(none) /\ none.state = "none" /\ none.cached = FALSE /\ none.stamp = "none"
  BY RenegotiationAssumption DEF RenOK, CopiesOK, Moving, KnownIn, Passing, RenState
<1>2. ren = [s EXCEPT !.heard = TRUE]
  BY DEF RenInit
<1> HIDE DEF none
<1>3. RenOK(s) /\ s.state # "none" /\ s.cached = FALSE /\ s.stamp = "none" /\ ~s.progress
  BY <1>1, StartInstanceOK
<1> HIDE DEF s
<1>4. /\ ren \in Moving /\ ren.state = s.state /\ ren.seen = s.seen
      /\ ren.progress = s.progress /\ ren.connectedDuring = s.connectedDuring
      /\ ren.cached = s.cached /\ ren.stamp = s.stamp /\ s.progress \in BOOLEAN
  <2>1. s \in Moving
    BY <1>3, RenFields
  <2> QED BY <1>2, <2>1 DEF Moving, KnownIn
<1> QED BY <1>3, <1>4 DEF RenOK, CopiesOK

LEMMA RenInvariance == RenSpec => []RenInv
<1>1. RenInit => RenInv
  BY RenStart DEF RenInv
<1>2. RenInv /\ [RenNext]_ren => RenInv'
  BY RenStep DEF RenInv, StepOK
<1> QED BY <1>1, <1>2, PTL DEF RenSpec

\* The types of the negotiating parties hold, for any limits.
THEOREM RenegotiationTypes == RenSpec => []RenTypeOK
<1>1. RenInv => RenTypeOK
  BY RenFields DEF RenInv, RenTypeOK
<1> QED BY RenInvariance, <1>1, PTL

\* The copies that shouldSuppressRenegotiation and the startup check look at are those of
\* the connection that stands, whatever is lost, recovered, commanded and restarted.
THEOREM CopiesStayCurrent == RenSpec => []CopiesAreCurrent
<1>1. RenInv => CopiesAreCurrent
  BY DEF RenInv, RenOK, CopiesOK, CopiesAreCurrent
<1> QED BY RenInvariance, <1>1, PTL

\* No timer of a startup check, however late and of whatever instance, ends a connection.
THEOREM ConnectionsAreSpared == RenSpec => ConnectedIsSpared
<1>1. RenInv /\ [RenNext]_ren
        => [ren.state = "CONNECTED" /\ (ren'.startup < ren.startup \/ ren'.grace < ren.grace)
              => ren'.state = "CONNECTED"]_ren
  BY RenStep DEF RenInv, StepOK, Spared
<1> QED BY RenInvariance, <1>1, PTL DEF RenSpec, ConnectedIsSpared

-----------------------------------------------------------------------------
(* ApiClients.                                                             *)

\* The sets that are kept: those of the phone's last frame with any, as long as its
\* connection stands; what is left of a connection that is over is marked.
SetsFollowed(a) ==
  /\ a.state = "CONNECTED" /\ a.phone = "whole" => a.kept = ParameterSet /\ ~a.foreign
  /\ a.state = "CONNECTED" /\ a.phone = "silent" => a.foreign \/ a.kept = {}
  /\ a.foreign \/ (a.state # "CONNECTED" /\ a.kept # {}) => a.unfollowed
  /\ a.state = "CONNECTED" => a.phone # "none"

\* Who has subscribed, or was told anything, has agreed to the contract where there is
\* one; no frame was shown that should not be.
Tellable(a) ==
  /\ a \in Api
  /\ \A c \in Client :
       /\ a.socket[c] = "new" => a.subs[c] = {}
       /\ RequireHello /\ a.subs[c] # {} => c \in a.hello
       /\ RequireHello /\ a.told[c] # "nothing" => c \in a.hello
  /\ SetsFollowed(a)
  /\ a.shown # "undecodable"

\* The invariant of the server: whoever subscribed below android-auto knows the state, too.
Knows(a, c) ==
  "android-auto/*" \in a.subs[c] /\ a.socket[c] = "open" => a.told[c] = a.state

ServerOK(a) == Tellable(a) /\ \A c \in Client : Knows(a, c)

ServerInv == ServerOK(api)

\* What a step that is not about frames leaves alone.
SameMedia(a, b) ==
  /\ b.state = a.state /\ b.shown = a.shown /\ b.kept = a.kept
  /\ b.foreign = a.foreign /\ b.unfollowed = a.unfollowed /\ b.phone = a.phone

LEMMA ApiFields ==
  ASSUME NEW a \in Api
  PROVE  /\ a.socket \in [Client -> {"new", "open", "closing", "gone"}]
         /\ a.hello \in SUBSET Client /\ a.subs \in [Client -> SUBSET Pattern]
         /\ a.told \in [Client -> Phase \cup {"nothing"}] /\ a.state \in Phase
         /\ a.kept \in SUBSET ParameterSet
         /\ a.foreign \in BOOLEAN /\ a.unfollowed \in BOOLEAN
         /\ a.phone \in {"none", "silent", "whole", "split"}
         /\ a.shown \in {"nothing", "undecodable", "excused", "decodable"}
         /\ a.broadcasts \in BOOLEAN /\ a.left \in 0..MaxEvents
BY DEF Api

\* Whoever has subscribed is told, and knows the state.
LEMMA TellStateOK ==
  ASSUME NEW a, Tellable(a)
  PROVE  ServerOK(TellState(a))
<1> DEFINE told == [c \in Client |->
             IF c \in Subscribers(a, "android-auto/status") /\ a.socket[c] = "open"
             THEN a.state ELSE a.told[c]]
           t == TellState(a)
<1>1. a \in Api
  BY DEF Tellable
<1>2. told \in [Client -> Phase \cup {"nothing"}]
  BY <1>1, ApiFields
<1>3. t = [a EXCEPT !.told = told]
  BY <1>1 DEF TellState, Api
<1> HIDE DEF told
<1>4. /\ t \in Api /\ t.told = told /\ t.socket = a.socket /\ t.hello = a.hello
      /\ t.subs = a.subs /\ SameMedia(a, t)
  BY <1>1, <1>2, <1>3 DEF Api, SameMedia
<1> HIDE DEF t
<1>5. ASSUME NEW c \in Client
      PROVE  /\ RequireHello /\ told[c] # "nothing" => c \in a.hello
             /\ "android-auto/*" \in a.subs[c] /\ a.socket[c] = "open" => told[c] = a.state
  <2>1. c \in Subscribers(a, "android-auto/status") => a.subs[c] # {}
    BY DEF Subscribers
  <2>2. "android-auto/*" \in a.subs[c] => c \in Subscribers(a, "android-auto/status")
    BY DEF Subscribers, TopicMatches
  <2>3. told[c] = IF c \in Subscribers(a, "android-auto/status") /\ a.socket[c] = "open"
                  THEN a.state ELSE a.told[c]
    BY DEF told
  <2> QED BY <2>1, <2>2, <2>3 DEF Tellable
<1>6. ServerOK(t)
  BY <1>4, <1>5 DEF ServerOK, Tellable, Knows, SameMedia, SetsFollowed
<1> QED BY <1>6 DEF t

\* A subscription, of a client that may subscribe.
LEMMA HandleSubscribeOK ==
  ASSUME NEW a, ServerOK(a), NEW c \in Client, a.socket[c] = "open",
         ContractSatisfied(a, c), NEW pattern \in Pattern
  PROVE  ServerOK(HandleSubscribe(a, c, pattern))
<1> DEFINE e == [a EXCEPT !.subs[c] = @ \cup {pattern}]
<1>1. a \in Api /\ a.subs \in [Client -> SUBSET Pattern]
  BY ApiFields DEF ServerOK, Tellable
<1>2. /\ e \in Api /\ e.subs = [a.subs EXCEPT ![c] = @ \cup {pattern}]
      /\ e.told = a.told /\ e.socket = a.socket /\ e.hello = a.hello /\ SameMedia(a, e)
  <2>1. [a.subs EXCEPT ![c] = @ \cup {pattern}] \in [Client -> SUBSET Pattern]
    BY <1>1
  <2>2. e = [a EXCEPT !.subs = [a.subs EXCEPT ![c] = @ \cup {pattern}]]
    BY <1>1 DEF Api
  <2> HIDE DEF e
  <2> QED BY <1>1, <2>1, <2>2 DEF Api, SameMedia
<1> HIDE DEF e
<1>3. \A x \in Client : /\ RequireHello /\ e.subs[x] # {} => x \in e.hello
                        /\ e.socket[x] = "new" => e.subs[x] = {}
  BY <1>1, <1>2 DEF ServerOK, Tellable, ContractSatisfied
<1>4. Tellable(e)
  BY <1>2, <1>3 DEF ServerOK, Tellable, SameMedia, SetsFollowed
<1>5. CASE pattern \in a.subs[c]
  BY <1>5 DEF HandleSubscribe
<1>6. CASE /\ pattern \notin a.subs[c]
           /\ pattern \in {"android-auto/*", "android-auto/media/*", "android-auto"}
  <2>1. HandleSubscribe(a, c, pattern) = TellState(e)
    BY <1>6 DEF HandleSubscribe, e
  <2> QED BY <1>4, <2>1, TellStateOK
<1>7. CASE /\ pattern \notin a.subs[c]
           /\ pattern \notin {"android-auto/*", "android-auto/media/*", "android-auto"}
  <2>1. HandleSubscribe(a, c, pattern) = e
    BY <1>7 DEF HandleSubscribe, e
  <2>2. \A x \in Client : "android-auto/*" \in e.subs[x] => "android-auto/*" \in a.subs[x]
    BY <1>1, <1>2, <1>7
  <2>3. ServerOK(e)
    BY <1>2, <1>4, <2>2 DEF ServerOK, Knows, SameMedia
  <2> QED BY <2>1, <2>3
<1> QED BY <1>5, <1>6, <1>7

LEMMA ConnectOK ==
  ASSUME ServerOK(api), NEW c \in Client, Connect(c)
  PROVE  ServerOK(api')
<1>1. /\ api \in Api /\ api.socket \in [Client -> {"new", "open", "closing", "gone"}]
      /\ api.subs \in [Client -> SUBSET Pattern]
  BY ApiFields DEF ServerOK, Tellable
<1>2. api' = [api EXCEPT !.socket = [@ EXCEPT ![c] = "open"]] /\ api.socket[c] = "new"
  BY <1>1 DEF Connect, Api
<1>3. /\ api' \in Api /\ api'.socket = [api.socket EXCEPT ![c] = "open"]
      /\ api'.subs = api.subs /\ api'.told = api.told /\ api'.hello = api.hello
      /\ SameMedia(api, api')
  BY <1>1, <1>2 DEF Api, SameMedia
<1>4. api.subs[c] = {}
  BY <1>2 DEF ServerOK, Tellable
<1> QED BY <1>1, <1>3, <1>4 DEF ServerOK, Tellable, Knows, SameMedia, SetsFollowed

LEMMA LeaveOK ==
  ASSUME ServerOK(api), NEW c \in Client, Leave(c)
  PROVE  ServerOK(api')
<1>1. /\ api \in Api /\ api.socket \in [Client -> {"new", "open", "closing", "gone"}]
      /\ api.subs \in [Client -> SUBSET Pattern] /\ api.hello \in SUBSET Client
      /\ api.told \in [Client -> Phase \cup {"nothing"}]
  BY ApiFields DEF ServerOK, Tellable
<1>2. api' = [api EXCEPT !.socket = [@ EXCEPT ![c] = "gone"], !.hello = @ \ {c},
                         !.subs = [@ EXCEPT ![c] = {}], !.told = [@ EXCEPT ![c] = "nothing"]]
  BY <1>1 DEF Leave, Api
<1>3. /\ api' \in Api /\ api'.socket = [api.socket EXCEPT ![c] = "gone"]
      /\ api'.subs = [api.subs EXCEPT ![c] = {}]
      /\ api'.told = [api.told EXCEPT ![c] = "nothing"] /\ api'.hello = api.hello \ {c}
      /\ SameMedia(api, api')
  BY <1>1, <1>2 DEF Api, SameMedia
<1> QED BY <1>1, <1>3 DEF ServerOK, Tellable, Knows, SameMedia, SetsFollowed

LEMMA HelloOK ==
  ASSUME ServerOK(api), NEW c \in Client, Hello(c)
  PROVE  ServerOK(api')
<1>1. /\ api \in Api /\ api.socket \in [Client -> {"new", "open", "closing", "gone"}]
      /\ api.hello \in SUBSET Client /\ api.left - 1 \in 0..MaxEvents
  BY ApiFields, ApiAssumption DEF ServerOK, Tellable, Hello
<1>2. \E hello \in {api.hello, api.hello \cup {c}}, s \in {api.socket[c], "closing"} :
        api' = [api EXCEPT !.hello = hello, !.left = @ - 1, !.socket = [@ EXCEPT ![c] = s]]
  <2>1. api.socket = [api.socket EXCEPT ![c] = api.socket[c]]
    BY <1>1
  <2>2. CASE api' = [api EXCEPT !.hello = @ \cup {c}, !.left = @ - 1]
    <3>1. api' = [api EXCEPT !.hello = api.hello \cup {c}, !.left = @ - 1,
                             !.socket = [@ EXCEPT ![c] = api.socket[c]]]
      BY <1>1, <2>1, <2>2 DEF Api
    <3> QED BY <3>1
  <2>3. CASE api' = [api EXCEPT !.left = @ - 1,
                                !.socket[c] = IF RequireHello THEN "closing" ELSE @]
    <3>1. api' = [api EXCEPT !.hello = api.hello, !.left = @ - 1, !.socket = [@ EXCEPT
                     ![c] = IF RequireHello THEN "closing" ELSE api.socket[c]]]
      BY <1>1, <2>3 DEF Api
    <3> QED BY <3>1
  <2> QED BY <2>2, <2>3 DEF Hello
<1>3. PICK hello \in {api.hello, api.hello \cup {c}}, s \in {api.socket[c], "closing"} :
        api' = [api EXCEPT !.hello = hello, !.left = @ - 1, !.socket = [@ EXCEPT ![c] = s]]
  BY <1>2
<1>4. /\ api' \in Api /\ api'.socket = [api.socket EXCEPT ![c] = s] /\ api'.hello = hello
      /\ api'.subs = api.subs /\ api'.told = api.told /\ SameMedia(api, api')
  BY <1>1, <1>3 DEF Api, SameMedia
<1> QED BY <1>1, <1>3, <1>4 DEF ServerOK, Tellable, Knows, SameMedia, SetsFollowed

LEMMA SubscribeOK ==
  ASSUME ServerOK(api), NEW c \in Client, Subscribe(c)
  PROVE  ServerOK(api')
BY HandleSubscribeOK DEF Subscribe

LEMMA UnsubscribeOK ==
  ASSUME ServerOK(api), NEW c \in Client, Unsubscribe(c)
  PROVE  ServerOK(api')
<1>1. PICK pattern \in api.subs[c] :
        LET a == [api EXCEPT !.subs[c] = @ \ {pattern}]
        IN  api' = IF c \in Subscribers(a, "android-auto/status") THEN a
                   ELSE [a EXCEPT !.told[c] = "nothing"]
  BY DEF Unsubscribe
<1> DEFINE a == [api EXCEPT !.subs[c] = @ \ {pattern}]
<1>2. /\ api \in Api /\ api.subs \in [Client -> SUBSET Pattern]
      /\ api.told \in [Client -> Phase \cup {"nothing"}]
  BY ApiFields DEF ServerOK, Tellable
<1>3. /\ a \in Api /\ a.subs = [api.subs EXCEPT ![c] = @ \ {pattern}]
      /\ a.told = api.told /\ a.socket = api.socket /\ a.hello = api.hello /\ SameMedia(api, a)
  <2>1. [api.subs EXCEPT ![c] = @ \ {pattern}] \in [Client -> SUBSET Pattern]
    BY <1>2
  <2>2. a = [api EXCEPT !.subs = [api.subs EXCEPT ![c] = @ \ {pattern}]]
    BY <1>2 DEF Api
  <2> HIDE DEF a
  <2> QED BY <1>2, <2>1, <2>2 DEF Api, SameMedia
<1> HIDE DEF a
<1>4. \A x \in Client : a.subs[x] \in SUBSET api.subs[x]
  BY <1>2, <1>3
<1>5. ServerOK(a)
  BY <1>3, <1>4 DEF ServerOK, Tellable, Knows, SameMedia, SetsFollowed
<1>6. CASE c \in Subscribers(a, "android-auto/status")
  BY <1>1, <1>5, <1>6 DEF a
<1>7. CASE c \notin Subscribers(a, "android-auto/status")
  <2>1. api' = [a EXCEPT !.told = [@ EXCEPT ![c] = "nothing"]]
    <3>1. api' = [a EXCEPT !.told[c] = "nothing"]
      BY <1>1, <1>7 DEF a
    <3> QED BY <1>3, <3>1 DEF Api
  <2>2. /\ api' \in Api /\ api'.told = [a.told EXCEPT ![c] = "nothing"]
        /\ api'.subs = a.subs /\ api'.socket = a.socket /\ api'.hello = a.hello
        /\ SameMedia(a, api')
    BY <1>2, <1>3, <2>1 DEF Api, SameMedia
  <2>3. "android-auto/*" \notin a.subs[c]
    BY <1>7 DEF Subscribers, TopicMatches
  <2> QED BY <1>2, <1>3, <1>5, <2>2, <2>3 DEF ServerOK, Tellable, Knows, SameMedia, SetsFollowed
<1> QED BY <1>6, <1>7

\* What is left of an earlier connection is marked when the next one begins.
LEMMA ConnectedOK ==
  ASSUME ServerOK(api), Connected
  PROVE  ServerOK(api')
<1> DEFINE a == [Began(api) EXCEPT !.state = "CONNECTED", !.left = @ - 1]
<1>1. api' = TellState(a) /\ api \in Api /\ api.left - 1 \in 0..MaxEvents
  BY ApiFields, ApiAssumption DEF Connected, ServerOK, Tellable
<1>2. /\ a \in Api /\ a.subs = api.subs /\ a.told = api.told /\ a.socket = api.socket
      /\ a.hello = api.hello /\ a.shown = api.shown /\ a.kept = api.kept
      /\ a.foreign = (api.kept # {}) /\ a.unfollowed = api.unfollowed /\ a.phone = "silent"
  BY <1>1 DEF Began, Api, Phase
<1> HIDE DEF a
<1>3. Tellable(a)
  BY <1>2 DEF Connected, ServerOK, Tellable, SetsFollowed
<1> QED BY <1>1, <1>3, TellStateOK

LEMMA DisconnectedOK ==
  ASSUME ServerOK(api), Disconnected
  PROVE  ServerOK(api')
<1> DEFINE a == OnDisconnected([api EXCEPT !.state = "DISCONNECTED"])
<1>1. api' = TellState(a) /\ api \in Api
  BY DEF Disconnected, ServerOK, Tellable
<1>2. /\ a \in Api /\ a.state = "DISCONNECTED" /\ a.subs = api.subs /\ a.told = api.told
      /\ a.socket = api.socket /\ a.hello = api.hello /\ a.shown = api.shown
      /\ a.kept = {} /\ ~a.foreign
  BY <1>1 DEF OnDisconnected, Api, Phase
<1> HIDE DEF a
<1>3. Tellable(a)
  BY <1>2 DEF ServerOK, Tellable, SetsFollowed
<1> QED BY <1>1, <1>3, TellStateOK

LEMMA DroppedOK ==
  ASSUME ServerOK(api), LeftSilently
  PROVE  ServerOK(api')
<1> DEFINE a == [api EXCEPT !.state = "DISCONNECTED", !.unfollowed = TRUE]
<1>1. api' = TellState(a) /\ api \in Api
  BY DEF LeftSilently, ServerOK, Tellable
<1>2. /\ a \in Api /\ a.state = "DISCONNECTED" /\ a.subs = api.subs /\ a.told = api.told
      /\ a.socket = api.socket /\ a.hello = api.hello /\ a.shown = api.shown
      /\ a.unfollowed
  BY <1>1 DEF Api, Phase
<1> HIDE DEF a
<1>3. Tellable(a)
  BY <1>2 DEF ServerOK, Tellable, SetsFollowed
<1> QED BY <1>1, <1>3, TellStateOK

LEMMA ReplacedOK ==
  ASSUME ServerOK(api), Replaced
  PROVE  ServerOK(api')
<1>1. api \in Api /\ api.left - 1 \in 0..MaxEvents
  BY ApiFields, ApiAssumption DEF Replaced, ServerOK, Tellable
<1>2. /\ api' \in Api /\ api'.subs = api.subs /\ api'.told = api.told
      /\ api'.socket = api.socket /\ api'.hello = api.hello /\ api'.shown = api.shown
      /\ api'.state = api.state /\ api'.kept = api.kept /\ api'.foreign = (api.kept # {})
      /\ api'.unfollowed /\ api'.phone = "silent"
  BY <1>1 DEF Replaced, Began, Api
<1> QED BY <1>2 DEF ServerOK, Tellable, Knows, SetsFollowed

\* A frame finds the sets of its own connection, or one of the excuses.
LEMMA FrameOK ==
  ASSUME ServerOK(api), EncodedFrame
  PROVE  ServerOK(api')
<1>1. PICK sets \in SUBSET ParameterSet, soon \in BOOLEAN :
        LET a == KeepSets(api, sets)
        IN  api' = IF \/ Subscribers(a, "android-auto/media") = {}
                      \/ soon /\ a.broadcasts
                   THEN a
                   ELSE [a EXCEPT !.broadcasts = TRUE, !.shown = Quality(a, sets)]
  BY DEF EncodedFrame
<1> DEFINE a == KeepSets(api, sets)
           b == [a EXCEPT !.broadcasts = TRUE, !.shown = Quality(a, sets)]
<1>2. api \in Api /\ api.phone # "none"
  BY DEF EncodedFrame, ServerOK, Tellable
<1>3. /\ a \in Api /\ a.subs = api.subs /\ a.told = api.told
      /\ a.socket = api.socket /\ a.hello = api.hello /\ a.shown = api.shown
      /\ a.state = api.state
      /\ sets = {} => SameMedia(api, a)
      /\ sets # {} => /\ a.kept = sets /\ ~a.foreign
                      /\ a.unfollowed = (a.state # "CONNECTED")
                      /\ a.phone = IF sets = ParameterSet THEN "whole" ELSE "split"
  <2>1. CASE sets = {}
    BY <1>2, <2>1 DEF KeepSets, SameMedia
  <2>2. CASE sets # {}
    BY <1>2, <2>2 DEF KeepSets, Api
  <2> QED BY <2>1, <2>2
<1>4. api' \in {a, b}
  BY <1>1
<1> HIDE DEF a
<1>5. SetsFollowed(a)
  <2>1. CASE sets = {}
    BY <1>3, <2>1 DEF SameMedia, SetsFollowed, ServerOK, Tellable
  <2>2. CASE sets # {}
    BY <1>3, <2>2 DEF SetsFollowed
  <2> QED BY <2>1, <2>2
<1>6. ServerOK(a)
  BY <1>3, <1>5 DEF ServerOK, Tellable, Knows
<1>7. Quality(a, sets) \in {"decodable", "excused"}
  <2> SUFFICES ASSUME ~Excused(a) PROVE Quality(a, sets) = "decodable"
    BY DEF Quality
  <2>1. a.state = "CONNECTED" /\ ~a.foreign
    BY <1>5 DEF Excused, SetsFollowed
  <2>2. a.phone \in {"none", "silent", "whole", "split"}
    BY <1>3, ApiFields
  <2>3. a.phone = "whole"
    BY <1>5, <2>1, <2>2 DEF Excused, SetsFollowed
  <2>4. a.kept = ParameterSet
    BY <1>5, <2>1, <2>3 DEF SetsFollowed
  <2>5. (IF sets = {} THEN a.kept ELSE sets) = ParameterSet
    BY <1>3, <2>4
  <2> QED BY <2>1, <2>5 DEF Quality
<1>8. /\ b \in Api /\ b.subs = a.subs /\ b.told = a.told
      /\ b.socket = a.socket /\ b.hello = a.hello /\ b.shown = Quality(a, sets)
      /\ b.state = a.state /\ b.kept = a.kept /\ b.foreign = a.foreign
      /\ b.unfollowed = a.unfollowed /\ b.phone = a.phone
  BY <1>3, <1>7 DEF Api
<1> HIDE DEF b
<1>9. ServerOK(b)
  BY <1>6, <1>7, <1>8 DEF ServerOK, Tellable, Knows, SetsFollowed
<1> QED BY <1>4, <1>6, <1>9

LEMMA ServerStart == ApiInit => ServerInv
<1> SUFFICES ASSUME ApiInit PROVE ServerOK(api)
  BY DEF ServerInv
<1>1. api \in Api
  BY ApiAssumption DEF ApiInit, Api, Phase
<1> QED BY <1>1 DEF ApiInit, ServerOK, Tellable, Knows, SetsFollowed

LEMMA ServerInvariance == ApiSpec => []ServerInv
<1>1. ServerInv /\ [ApiNext]_api => ServerInv'
  BY ConnectOK, LeaveOK, HelloOK, SubscribeOK, UnsubscribeOK, ConnectedOK, DisconnectedOK,
     DroppedOK, ReplacedOK, FrameOK DEF ServerInv, ApiNext
<1> QED BY ServerStart, <1>1, PTL DEF ApiSpec

\* The types of the server's clients hold, for any set of clients.
THEOREM ApiTypes == ApiSpec => []ApiTypeOK
<1>1. ServerInv => ApiTypeOK
  BY DEF ServerInv, ServerOK, Tellable, ApiTypeOK
<1> QED BY ServerInvariance, <1>1, PTL

\* However subscriptions, hellos, connections and departures interleave, for any number of
\* clients and with the contract required or not: handleSubscribe and broadcastEvent leave
\* no subscriber below android-auto without the state, and tell nobody who has not agreed.
THEOREM SubscribersAreTold == ApiSpec => []SubscribersKnowState
<1>1. ServerInv => SubscribersKnowState
  BY DEF ServerInv, ServerOK, Tellable, Knows, SubscribersKnowState
<1> QED BY ServerInvariance, <1>1, PTL

\* For phones that send parameter sets as they like, connections that end with and without
\* `disconnected`, late frames and dropped ones: no frame is broadcast that a client that has
\* just come cannot decode, or after the sets of an earlier connection (m_h264ParameterSets),
\* but for the cases that Excused names.
THEOREM FramesAreDecodable == ApiSpec => []FramesDecodable
<1>1. ServerInv => FramesDecodable
  BY DEF ServerInv, ServerOK, Tellable, FramesDecodable
<1> QED BY ServerInvariance, <1>1, PTL
=============================================================================
