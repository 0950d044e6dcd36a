---------------------- MODULE ProjectionChannels_proofs ----------------------
(***************************************************************************)
(* Proofs about the channels of a projection, for every set of policies    *)
(* and configurations and every bound on failures, connections and         *)
(* changes: the types, the watchdog that follows the milestones, the       *)
(* announcements that follow the readiness, and the channels that the      *)
(* service listens to.                                                     *)
(*                                                                         *)
(* The last one needs to know which channels a policy has armed at which   *)
(* milestone (Awaited), and, between two calls of a handler, which of them *)
(* the handler is yet to arm: Live(p, s, X) is the invariant with the      *)
(* channels of X excepted.  Every operation of the service is a lemma      *)
(* about Live; the actions compose them.                                   *)
(***************************************************************************)
EXTENDS ProjectionChannels, TLAPS

\* The channel object has handlers of its own but nothing brings a message to them.
Owed(s, c) == s.handler[c] = "own" /\ s.rx[c] = "idle" /\ c \notin s.retry

\* The channels that the policy has had armed at the milestones reached so far.
Awaited(p, s) ==
    {"control"} \cup
    IF p.deferToDiscovery
    THEN IF "discovery" \in s.done
         THEN {"video", "mediaAudio"} \cup IF s.optionalArmed THEN Optional ELSE {} ELSE {}
    ELSE IF p.deferToControl
    THEN IF "version" \in s.done THEN NonControl ELSE {}
    ELSE NonControl \ {"microphone"}

Listening(p, s, X) ==
    \A c \in Awaited(p, s) \ X : Owed(s, c) => c = "microphone" /\ s.micTimer

\* The milestones and flags of a connection agree with what has been armed.
Orderly(p, s) ==
    /\ ~s.teardown
    /\ "discovery" \in s.done => "version" \in s.done
    /\ ~p.deferToDiscovery /\ p.deferToControl /\ "version" \notin s.done =>
           ~s.nonControlArmed

\* The optional channels wait only while the policy lets them.
Prompt(p, s) ==
    p.deferToDiscovery /\ "discovery" \in s.done /\ ~s.optionalArmed =>
        ~p.earlyOptional /\ ~PrimaryStarted(s)

Calm(p, s, X) == s.conn => Orderly(p, s) /\ Listening(p, s, X)

\* What was published agrees with what is.
Synced(s) ==
    ~s.reconnectAsked => (Watchable(s) => s.watchdog) /\ (s.announced => IsReady(s))

Sound(p, s, X) == s \in Service /\ Synced(s) /\ Calm(p, s, X)
Live(p, s, X) == Sound(p, s, X) /\ (s.conn => Prompt(p, s))

-----------------------------------------------------------------------------
(* Operations that arm.                                                    *)

\* t differs from s only in receives, timers and counters, and listens to C.
Arms(s, t, C) ==
    /\ t.conn = s.conn /\ t.teardown = s.teardown /\ t.config = s.config
    /\ t.reconnectAsked = s.reconnectAsked /\ t.done = s.done
    /\ t.announced = s.announced /\ t.watchdog = s.watchdog
    /\ t.nonControlArmed = s.nonControlArmed /\ t.optionalArmed = s.optionalArmed
    /\ s.micTimer => t.micTimer
    /\ \A c \in Channel : Owed(t, c) =>
           Owed(s, c) /\ (c \in C => c = "microphone" /\ t.micTimer)

LEMMA ArmsSound ==
  ASSUME NEW p, NEW s, NEW t \in Service, NEW C, NEW X, Arms(s, t, C), Sound(p, s, X)
  PROVE  Sound(p, t, X \ C)
<1>1. Synced(t)
  BY DEF Arms, Sound, Synced, Watchable, IsReady, Reached
<1>2. ASSUME t.conn PROVE Orderly(p, t)
  BY <1>2 DEF Arms, Sound, Calm, Orderly
<1>3. ASSUME t.conn PROVE Listening(p, t, X \ C)
  <2>1. Awaited(p, t) = Awaited(p, s)
    BY DEF Arms, Awaited
  <2>2. Awaited(p, s) \subseteq Channel
    BY DEF Awaited, Channel, NonControl, Optional
  <2>3. Listening(p, s, X) /\ (s.micTimer => t.micTimer)
    BY <1>3 DEF Arms, Sound, Calm
  <2>4. \A c \in Channel : Owed(t, c) =>
           Owed(s, c) /\ (c \in C => c = "microphone" /\ t.micTimer)
    BY DEF Arms
  <2> QED BY <2>1, <2>2, <2>3, <2>4 DEF Listening
<1> QED BY <1>1, <1>2, <1>3 DEF Sound, Calm

LEMMA ArmsLive ==
  ASSUME NEW p, NEW s, NEW t \in Service, NEW C, NEW X, Arms(s, t, C), Live(p, s, X)
  PROVE  Live(p, t, X \ C)
BY ArmsSound DEF Arms, Live, Prompt, PrimaryStarted

LEMMA SoundMore ==
  ASSUME NEW p, NEW s, NEW X, NEW Y, Sound(p, s, Y), Y \subseteq X
  PROVE  Sound(p, s, X)
BY DEF Sound, Calm, Listening

LEMMA ArmsTwice ==
  ASSUME NEW s, NEW t, NEW u, NEW C, NEW D, Arms(s, t, C), Arms(t, u, D)
  PROVE  Arms(s, u, C \cup D)
<1>1. \A c \in Channel : Owed(u, c) =>
         Owed(s, c) /\ (c \in C \cup D => c = "microphone" /\ u.micTimer)
  BY DEF Arms
<1> QED BY <1>1 DEF Arms

LEMMA ArmsNone ==
  ASSUME NEW s
  PROVE  Arms(s, s, {})
BY DEF Arms

LEMMA ReceiveArms ==
  ASSUME NEW s \in Service, NEW C
  PROVE  Receive(s, C) \in Service /\ Arms(s, Receive(s, C), C)
<1> DEFINE f == [c \in Channel |->
        IF c \in C /\ s.rx[c] \in {"idle", "armed", "dead"} /\ s.handler[c] # "none"
        THEN "armed" ELSE s.rx[c]]
<1>1. f \in [Channel -> {"none", "void", "idle", "armed", "dead"}]
  BY DEF Service
<1>2. \A c \in Channel : f[c] = "idle" =>
         s.rx[c] = "idle" /\ (c \in C => s.handler[c] # "own")
  OBVIOUS
<1>3. Receive(s, C) = [s EXCEPT !.rx = f]
  BY DEF Receive
<1> HIDE DEF f
<1>4. Receive(s, C) \in Service
  BY <1>1, <1>3 DEF Service
<1>5. Arms(s, Receive(s, C), C)
  BY <1>2, <1>3 DEF Arms, Owed, Service
<1> QED BY <1>4, <1>5

LEMMA MicrophoneArms ==
  ASSUME NEW s \in Service
  PROVE  ArmMicrophone(s) \in Service /\ Arms(s, ArmMicrophone(s), {"microphone"})
<1>1. CASE ArmMicrophone(s) = [s EXCEPT !.micTimer = TRUE]
  <2>1. ArmMicrophone(s) \in Service
    BY <1>1 DEF Service
  <2>2. Arms(s, ArmMicrophone(s), {"microphone"})
    BY <1>1 DEF Arms, Owed, Service
  <2> QED BY <2>1, <2>2
<1>2. CASE ArmMicrophone(s) = Receive(s, {"microphone"})
  BY <1>2, ReceiveArms
<1> QED BY <1>1, <1>2 DEF ArmMicrophone

\* A handler that is the service's own arms its channel.
LEMMA HandlerArms ==
  ASSUME NEW s \in Service, NEW c \in Channel, ~s.teardown
  PROVE  ArmReceive(s, c) \in Service /\ Arms(s, ArmReceive(s, c), {c})
<1>1. CASE ArmsCurrent(s, c)
  BY <1>1, ReceiveArms DEF ArmReceive
<1>2. CASE ~ArmsCurrent(s, c)
  <2>1. ArmReceive(s, c) = s
    BY <1>2 DEF ArmReceive
  <2>2. ~Owed(s, c)
    BY <1>2 DEF ArmsCurrent, Owed
  <2> QED BY <2>1, <2>2 DEF Arms
<1> QED BY <1>1, <1>2

\* In a teardown it arms its channel or does nothing.
LEMMA LateHandlerArms ==
  ASSUME NEW s \in Service, NEW c \in Channel
  PROVE  ArmReceive(s, c) \in Service /\ Arms(s, ArmReceive(s, c), {})
<1>1. CASE ArmReceive(s, c) = s
  BY <1>1, ArmsNone
<1>2. CASE ArmReceive(s, c) = Receive(s, {c})
  <2>1. Receive(s, {c}) \in Service /\ Arms(s, Receive(s, {c}), {c})
    BY ReceiveArms
  <2> QED BY <1>2, <2>1 DEF Arms
<1> QED BY <1>1, <1>2 DEF ArmReceive

\* The channels that wait for a stream are armed when it has started.
LEMMA ArmOptionalLive ==
  ASSUME NEW p, NEW s, NEW X, p = policy, Sound(p, s, X)
  PROVE  /\ Live(p, ArmOptional(s), X)
         /\ ArmOptional(s).conn = s.conn
<1>0. s \in Service /\ Synced(s) /\ (s.conn => Orderly(p, s) /\ Listening(p, s, X))
  BY DEF Sound, Calm
<1> DEFINE now == /\ ~s.optionalArmed /\ s.conn /\ "discovery" \in s.done
                  /\ policy.earlyOptional \/ PrimaryStarted(s)
           a == [s EXCEPT !.optionalArmed = TRUE]
           b == Receive(a, Optional \ {"microphone"})
           d == ArmMicrophone(b)
<1>1. CASE now
  <2>1. a \in Service
    BY <1>0 DEF Service
  <2>2. /\ a.conn = s.conn /\ a.teardown = s.teardown /\ a.config = s.config
        /\ a.reconnectAsked = s.reconnectAsked /\ a.done = s.done
        /\ a.announced = s.announced /\ a.watchdog = s.watchdog /\ a.micTimer = s.micTimer
        /\ a.nonControlArmed = s.nonControlArmed /\ a.optionalArmed
        /\ a.rx = s.rx /\ a.handler = s.handler /\ a.retry = s.retry
    BY <1>0 DEF Service
  <2> HIDE DEF a
  <2>3. Live(p, a, X \cup Optional)
    <3>1. Synced(a)
      BY <1>0, <2>2 DEF Synced, Watchable, IsReady, Reached
    <3>2. ASSUME a.conn PROVE Orderly(p, a) /\ Prompt(p, a)
      BY <1>0, <2>2, <3>2 DEF Orderly, Prompt
    <3>3. ASSUME a.conn PROVE Listening(p, a, X \cup Optional)
      BY <1>0, <2>2, <3>3 DEF Listening, Awaited, Owed
    <3> QED BY <2>1, <3>1, <3>2, <3>3 DEF Live, Sound, Calm
  <2>4. b \in Service /\ Arms(a, b, Optional \ {"microphone"})
    BY <2>1, ReceiveArms
  <2>5. d \in Service /\ Arms(b, d, {"microphone"})
    BY <2>4, MicrophoneArms
  <2>6. Live(p, b, (X \cup Optional) \ (Optional \ {"microphone"}))
    BY <2>3, <2>4, ArmsLive
  <2>7. Live(p, d, X)
    <3> DEFINE Y == ((X \cup Optional) \ (Optional \ {"microphone"})) \ {"microphone"}
    <3>1. Y \subseteq X
      OBVIOUS
    <3> HIDE DEF d
    <3>4. Live(p, d, Y)
      BY <2>5, <2>6, ArmsLive
    <3> HIDE DEF Y
    <3>2. Sound(p, d, Y) /\ (d.conn => Prompt(p, d))
      BY <3>4 DEF Live
    <3>3. Sound(p, d, X)
      BY <3>1, <3>2, SoundMore
    <3> QED BY <3>2, <3>3 DEF Live
  <2>8. ArmOptional(s) = d
    BY <1>1 DEF ArmOptional, a
  <2> QED BY <2>2, <2>4, <2>5, <2>7, <2>8 DEF Arms
<1>2. CASE ~now
  <2>1. ArmOptional(s) = s
    BY <1>2 DEF ArmOptional
  <2>2. s.conn => Prompt(p, s)
    BY <1>2 DEF Prompt
  <2> QED BY <2>1, <2>2 DEF Live
<1> QED BY <1>1, <1>2
-----------------------------------------------------------------------------
(* The steps of a handler.                                                 *)

LEMMA LiveIsSound ==
  ASSUME NEW p, NEW s, NEW X, Live(p, s, X)
  PROVE  /\ Sound(p, s, X) /\ s \in Service /\ Synced(s) /\ Calm(p, s, X)
         /\ s.conn => ~s.teardown /\ Prompt(p, s) /\ Orderly(p, s) /\ Listening(p, s, X)
BY DEF Live, Sound, Calm, Orderly

\* Nothing is armed by, or owed for, what is published or which streams run.
LEMMA SameCalm ==
  ASSUME NEW p, NEW s, NEW t, NEW X, Calm(p, s, X),
         t.conn = s.conn, t.teardown = s.teardown, t.rx = s.rx, t.handler = s.handler,
         t.retry = s.retry, t.micTimer = s.micTimer,
         t.nonControlArmed = s.nonControlArmed, t.optionalArmed = s.optionalArmed,
         t.done \cap {"version", "discovery"} = s.done \cap {"version", "discovery"}
  PROVE  Calm(p, t, X)
<1>1. /\ "version" \in t.done <=> "version" \in s.done
      /\ "discovery" \in t.done <=> "discovery" \in s.done
  OBVIOUS
<1>2. Awaited(p, t) = Awaited(p, s)
  BY <1>1 DEF Awaited
<1>3. \A c : Owed(t, c) => Owed(s, c)
  BY DEF Owed
<1>4. Orderly(p, s) => Orderly(p, t)
  BY <1>1 DEF Orderly
<1>5. Listening(p, s, X) => Listening(p, t, X)
  BY <1>2, <1>3 DEF Listening
<1> QED BY <1>4, <1>5 DEF Calm

LEMMA PublishFields ==
  ASSUME NEW s \in Service
  PROVE  /\ Publish(s) \in Service
         /\ Publish(s).conn = s.conn /\ Publish(s).teardown = s.teardown
         /\ Publish(s).config = s.config /\ Publish(s).done = s.done
         /\ Publish(s).reconnectAsked = s.reconnectAsked
         /\ Publish(s).rx = s.rx /\ Publish(s).handler = s.handler
         /\ Publish(s).retry = s.retry /\ Publish(s).micTimer = s.micTimer
         /\ Publish(s).nonControlArmed = s.nonControlArmed
         /\ Publish(s).optionalArmed = s.optionalArmed
         /\ Publish(s).announced = IsReady(s) /\ Publish(s).watchdog = Watchable(s)
<1> DEFINE ready == IsReady(s)
           watch == Watchable(s)
<1>1. ready \in BOOLEAN /\ watch \in BOOLEAN
  BY DEF IsReady, Watchable, Reached, Service
<1>2. Publish(s) = [s EXCEPT !.announced = ready, !.watchdog = watch,
                             !.recovery = @ /\ watch]
  BY DEF Publish
<1> HIDE DEF ready, watch
<1>3. (s.recovery /\ watch) \in BOOLEAN
  BY <1>1 DEF Service
<1>4. Publish(s) \in Service
  BY <1>1, <1>2, <1>3 DEF Service
<1>5. /\ Publish(s).conn = s.conn /\ Publish(s).teardown = s.teardown
      /\ Publish(s).config = s.config /\ Publish(s).done = s.done
      /\ Publish(s).reconnectAsked = s.reconnectAsked
      /\ Publish(s).rx = s.rx /\ Publish(s).handler = s.handler
      /\ Publish(s).retry = s.retry /\ Publish(s).micTimer = s.micTimer
      /\ Publish(s).nonControlArmed = s.nonControlArmed
      /\ Publish(s).optionalArmed = s.optionalArmed
      /\ Publish(s).announced = ready /\ Publish(s).watchdog = watch
  BY <1>2 DEF Service
<1> QED BY <1>4, <1>5 DEF ready, watch

\* Publishing makes what was published agree with what is.
LEMMA PublishSound ==
  ASSUME NEW p, NEW s \in Service, NEW X, Calm(p, s, X)
  PROVE  Sound(p, Publish(s), X) /\ Publish(s).conn = s.conn
<1> DEFINE t == Publish(s)
<1>1. /\ t \in Service
      /\ t.conn = s.conn /\ t.teardown = s.teardown
      /\ t.config = s.config /\ t.done = s.done
      /\ t.rx = s.rx /\ t.handler = s.handler
      /\ t.retry = s.retry /\ t.micTimer = s.micTimer
      /\ t.nonControlArmed = s.nonControlArmed /\ t.optionalArmed = s.optionalArmed
      /\ t.announced = IsReady(s) /\ t.watchdog = Watchable(s)
  BY PublishFields
<1> HIDE DEF t
<1>2. Synced(t)
  BY <1>1 DEF Synced, Watchable, IsReady, Reached
<1>3. Calm(p, t, X)
  BY <1>1, SameCalm
<1>4. Sound(p, t, X)
  BY <1>1, <1>2, <1>3 DEF Sound
<1> QED BY <1>1, <1>4 DEF t

LEMMA PublishLive ==
  ASSUME NEW p, NEW s \in Service, NEW X, Calm(p, s, X), s.conn => Prompt(p, s)
  PROVE  Live(p, Publish(s), X) /\ Publish(s).conn = s.conn
<1>1. Sound(p, Publish(s), X) /\ Publish(s).conn = s.conn
  BY PublishSound
<1>2. Prompt(p, Publish(s)) <=> Prompt(p, s)
  BY PublishFields DEF Prompt, PrimaryStarted
<1> QED BY <1>1, <1>2 DEF Live

\* A service that is not connected owes nothing.
LEMMA PublishIdle ==
  ASSUME NEW p, NEW s \in Service, s.conn = FALSE
  PROVE  Live(p, Publish(s), {}) /\ Publish(s).conn = FALSE
BY PublishLive DEF Calm

LEMMA TakenLive ==
  ASSUME NEW p, NEW s, NEW c \in Channel, Live(p, s, {})
  PROVE  /\ Live(p, Taken(s, c), {c})
         /\ Taken(s, c).conn = s.conn /\ Taken(s, c).done = s.done
         /\ Taken(s, c).handler = s.handler
<1> DEFINE t == Taken(s, c)
<1>0. s \in Service
  BY LiveIsSound
<1>1. /\ t.conn = s.conn /\ t.teardown = s.teardown
      /\ t.config = s.config /\ t.done = s.done
      /\ t.reconnectAsked = s.reconnectAsked
      /\ t.handler = s.handler
      /\ t.retry = s.retry /\ t.micTimer = s.micTimer
      /\ t.nonControlArmed = s.nonControlArmed /\ t.optionalArmed = s.optionalArmed
      /\ t.announced = s.announced /\ t.watchdog = s.watchdog
      /\ \A d \in Channel \ {c} : t.rx[d] = s.rx[d]
  BY <1>0 DEF Taken, Service
<1>2. t \in Service
  BY <1>0 DEF Taken, Service
<1> HIDE DEF t
<1>3. Synced(t)
  BY <1>1, LiveIsSound DEF Synced, Watchable, IsReady, Reached
<1>5. ASSUME t.conn PROVE Orderly(p, t) /\ Prompt(p, t)
  BY <1>1, <1>5, LiveIsSound DEF Orderly, Prompt, PrimaryStarted
<1>6. ASSUME t.conn PROVE Listening(p, t, {c})
  <2>1. Awaited(p, t) = Awaited(p, s)
    BY <1>1 DEF Awaited
  <2>2. Awaited(p, s) \subseteq Channel
    BY DEF Awaited, Channel, NonControl, Optional
  <2>3. Listening(p, s, {})
    BY <1>1, <1>6, LiveIsSound
  <2>4. \A d \in Channel \ {c} : Owed(t, d) => Owed(s, d)
    BY <1>1 DEF Owed
  <2> QED BY <1>1, <2>1, <2>2, <2>3, <2>4 DEF Listening
<1>7. Live(p, t, {c})
  BY <1>2, <1>3, <1>5, <1>6 DEF Live, Sound, Calm
<1> QED BY <1>1, <1>7 DEF t

\* The handler arms its channel again: nothing is left to arm.
LEMMA ArmReceiveLive ==
  ASSUME NEW p, NEW s, NEW c \in Channel, Live(p, s, {c}), s.conn
  PROVE  Live(p, ArmReceive(s, c), {})
<1>1. s \in Service /\ ~s.teardown
  BY LiveIsSound
<1>2. ArmReceive(s, c) \in Service /\ Arms(s, ArmReceive(s, c), {c})
  BY <1>1, HandlerArms
<1>3. Live(p, ArmReceive(s, c), {c} \ {c})
  BY <1>2, ArmsLive
<1>4. {c} \ {c} = {}
  OBVIOUS
<1> QED BY <1>3, <1>4

LEMMA ReachFields ==
  ASSUME NEW s \in Service, NEW m \in Milestone
  PROVE  /\ Reach(s, m) \in Service
         /\ Reach(s, m).conn = s.conn /\ Reach(s, m).teardown = s.teardown
         /\ Reach(s, m).config = s.config /\ Reach(s, m).done = s.done \cup {m}
         /\ Reach(s, m).reconnectAsked = s.reconnectAsked
         /\ Reach(s, m).rx = s.rx /\ Reach(s, m).handler = s.handler
         /\ Reach(s, m).retry = s.retry /\ Reach(s, m).micTimer = s.micTimer
         /\ Reach(s, m).nonControlArmed = s.nonControlArmed
         /\ Reach(s, m).optionalArmed = s.optionalArmed
         /\ Reach(s, m).announced = s.announced /\ Reach(s, m).watchdog = s.watchdog
<1>1. s.done \cup {m} \in SUBSET Milestone
  BY DEF Service
<1> QED BY <1>1 DEF Reach, Service

LEMMA LoseFields ==
  ASSUME NEW s \in Service, NEW M
  PROVE  /\ Lose(s, M) \in Service
         /\ Lose(s, M).conn = s.conn /\ Lose(s, M).teardown = s.teardown
         /\ Lose(s, M).config = s.config /\ Lose(s, M).done = s.done \ M
         /\ Lose(s, M).reconnectAsked = s.reconnectAsked
         /\ Lose(s, M).rx = s.rx /\ Lose(s, M).handler = s.handler
         /\ Lose(s, M).retry = s.retry /\ Lose(s, M).micTimer = s.micTimer
         /\ Lose(s, M).nonControlArmed = s.nonControlArmed
         /\ Lose(s, M).optionalArmed = s.optionalArmed
<1>1. s.done \ M \in SUBSET Milestone
  BY DEF Service
<1> QED BY <1>1 DEF Lose, Service

\* A milestone that arms nothing may be reached without being published.
LEMMA ReachLive ==
  ASSUME NEW p, NEW s, NEW X, Live(p, s, X),
         NEW m \in Milestone \ {"version", "discovery", "videoStarted", "audioStarted"}
  PROVE  /\ Live(p, Reach(s, m), X)
         /\ Reach(s, m).conn = s.conn /\ Reach(s, m).done = s.done \cup {m}
<1> DEFINE t == Reach(s, m)
<1>1. s \in Service
  BY LiveIsSound
<1>2. /\ t \in Service
      /\ t.conn = s.conn /\ t.teardown = s.teardown
      /\ t.config = s.config /\ t.done = s.done \cup {m}
      /\ t.reconnectAsked = s.reconnectAsked
      /\ t.rx = s.rx /\ t.handler = s.handler
      /\ t.retry = s.retry /\ t.micTimer = s.micTimer
      /\ t.nonControlArmed = s.nonControlArmed /\ t.optionalArmed = s.optionalArmed
      /\ t.announced = s.announced /\ t.watchdog = s.watchdog
  BY <1>1, ReachFields
<1> HIDE DEF t
<1>3. Synced(t)
  <2>1. Synced(s)
    BY LiveIsSound
  <2>2. (IsReady(s) => IsReady(t)) /\ (Watchable(t) => Watchable(s))
    BY <1>2 DEF IsReady, Watchable, Reached
  <2> QED BY <1>2, <2>1, <2>2 DEF Synced
<1>4. Calm(p, t, X)
  BY <1>2, LiveIsSound, SameCalm
<1>5. t.conn => Prompt(p, t)
  BY <1>2, LiveIsSound DEF Prompt, PrimaryStarted
<1> QED BY <1>2, <1>3, <1>4, <1>5 DEF Live, Sound, t

LEMMA ReachPublished ==
  ASSUME NEW p, NEW s, NEW X, Live(p, s, X),
         NEW m \in Milestone \ {"version", "discovery", "videoStarted", "audioStarted"}
  PROVE  Live(p, Publish(Reach(s, m)), X) /\ Publish(Reach(s, m)).conn = s.conn
<1>1. Live(p, Reach(s, m), X) /\ Reach(s, m).conn = s.conn
  BY ReachLive
<1>2. /\ Reach(s, m) \in Service /\ Calm(p, Reach(s, m), X)
      /\ Reach(s, m).conn => Prompt(p, Reach(s, m))
  BY <1>1, LiveIsSound
<1> QED BY <1>1, <1>2, PublishLive

LEMMA LosePublished ==
  ASSUME NEW p, NEW s, NEW X, Live(p, s, X), NEW M, M \cap {"version", "discovery"} = {}
  PROVE  Live(p, Publish(Lose(s, M)), X) /\ Publish(Lose(s, M)).conn = s.conn
<1> DEFINE t == Lose(s, M)
<1>1. s \in Service
  BY LiveIsSound
<1>2. /\ t \in Service
      /\ t.conn = s.conn /\ t.teardown = s.teardown
      /\ t.config = s.config /\ t.done = s.done \ M
      /\ t.reconnectAsked = s.reconnectAsked
      /\ t.rx = s.rx /\ t.handler = s.handler
      /\ t.retry = s.retry /\ t.micTimer = s.micTimer
      /\ t.nonControlArmed = s.nonControlArmed /\ t.optionalArmed = s.optionalArmed
  BY <1>1, LoseFields
<1> HIDE DEF t
<1>3. Calm(p, t, X)
  BY <1>2, LiveIsSound, SameCalm
<1>4. t.conn => Prompt(p, t)
  BY <1>2, LiveIsSound DEF Prompt, PrimaryStarted
<1>5. Live(p, Publish(t), X) /\ Publish(t).conn = t.conn
  BY <1>2, <1>3, <1>4, PublishLive
<1> QED BY <1>2, <1>5 DEF t

\* A stream that starts is published and has the optional channels armed.
LEMMA StartLive ==
  ASSUME NEW p, NEW s, NEW X, Live(p, s, X), p = policy,
         NEW m \in {"videoStarted", "audioStarted"}
  PROVE  /\ Live(p, ArmOptional(Publish(Reach(s, m))), X)
         /\ ArmOptional(Publish(Reach(s, m))).conn = s.conn
<1> DEFINE t == Reach(s, m)
<1>1. s \in Service /\ m \in Milestone
  BY LiveIsSound DEF Milestone
<1>2. /\ t \in Service
      /\ t.conn = s.conn /\ t.teardown = s.teardown
      /\ t.config = s.config /\ t.done = s.done \cup {m}
      /\ t.reconnectAsked = s.reconnectAsked
      /\ t.rx = s.rx /\ t.handler = s.handler
      /\ t.retry = s.retry /\ t.micTimer = s.micTimer
      /\ t.nonControlArmed = s.nonControlArmed /\ t.optionalArmed = s.optionalArmed
  BY <1>1, ReachFields
<1> HIDE DEF t
<1>3. Calm(p, t, X)
  BY <1>2, LiveIsSound, SameCalm
<1>4. Sound(p, Publish(t), X) /\ Publish(t).conn = t.conn
  BY <1>2, <1>3, PublishSound
<1> QED BY <1>2, <1>4, ArmOptionalLive DEF t

\* The version response arms the other channels of a policy that waits for it.
LEMMA VersionLive ==
  ASSUME NEW p, NEW s, p = policy, Live(p, s, {"control"}), s.conn, "version" \notin s.done
  PROVE  LET t == Publish(Reach(s, "version"))
         IN  /\ Live(p, ArmNonControlAfterControlReady(t), {"control"})
             /\ ArmNonControlAfterControlReady(t).conn
<1> DEFINE r == Reach(s, "version")
           t == Publish(r)
           waits == ~p.deferToDiscovery /\ p.deferToControl
<1>1. s \in Service /\ "version" \in Milestone
  BY LiveIsSound DEF Milestone
<1>2. r \in Service /\ r.conn = s.conn /\ r.teardown = s.teardown
        /\ r.done = s.done \cup {"version"}
        /\ r.rx = s.rx /\ r.handler = s.handler
        /\ r.retry = s.retry /\ r.micTimer = s.micTimer
        /\ r.nonControlArmed = s.nonControlArmed /\ r.optionalArmed = s.optionalArmed
  BY <1>1, ReachFields
<1> HIDE DEF r
<1>3. Orderly(p, s) /\ Listening(p, s, {"control"}) /\ "discovery" \notin s.done
  BY LiveIsSound DEF Orderly
<1>4. Orderly(p, r) /\ Prompt(p, r)
  BY <1>2, <1>3 DEF Orderly, Prompt
<1>5. CASE waits
  <2> DEFINE Y == {"control"} \cup NonControl
             a == [t EXCEPT !.nonControlArmed = TRUE]
             b == Receive(a, NonControl \ {"microphone"})
             d == ArmMicrophone(b)
  <2>1. Awaited(p, r) \subseteq Y
    BY <1>5 DEF Awaited
  <2>2. Calm(p, r, Y)
    BY <1>4, <2>1 DEF Calm, Listening
  <2> HIDE DEF Y
  <2>3. Live(p, t, Y) /\ t.conn = s.conn
    BY <1>2, <1>4, <2>2, PublishLive
  <2>4. t \in Service /\ t.nonControlArmed = FALSE /\ "version" \in t.done
    BY <1>1, <1>2, <1>3, <1>5, PublishFields DEF Orderly, Service
  <2>5. ArmNonControlAfterControlReady(t) = d
    BY <1>5, <2>3, <2>4 DEF ArmNonControlAfterControlReady
  <2> HIDE DEF t
  <2>6. /\ a \in Service /\ a.conn = t.conn /\ a.teardown = t.teardown
        /\ a.config = t.config /\ a.reconnectAsked = t.reconnectAsked /\ a.done = t.done
        /\ a.announced = t.announced /\ a.watchdog = t.watchdog
        /\ a.optionalArmed = t.optionalArmed
    BY <2>4 DEF Service
  <2> HIDE DEF a
  <2>7. Live(p, a, Y)
    <3>1. Synced(a)
      BY <2>3, <2>6, LiveIsSound DEF Synced, Watchable, IsReady, Reached
    <3>2. a.conn => Orderly(p, a) /\ Prompt(p, a)
      BY <2>3, <2>4, <2>6, LiveIsSound DEF Orderly, Prompt, PrimaryStarted
    <3>3. Listening(p, a, Y)
      BY <1>5 DEF Listening, Awaited, Y
    <3> QED BY <2>6, <3>1, <3>2, <3>3 DEF Live, Sound, Calm
  <2>8. b \in Service /\ Arms(a, b, NonControl \ {"microphone"})
    BY <2>6, ReceiveArms
  <2>9. Live(p, b, Y \ (NonControl \ {"microphone"}))
    BY <2>7, <2>8, ArmsLive
  <2> HIDE DEF b
  <2>10. d \in Service /\ Arms(b, d, {"microphone"})
    BY <2>8, MicrophoneArms
  <2>11. Live(p, d, (Y \ (NonControl \ {"microphone"})) \ {"microphone"})
    BY <2>9, <2>10, ArmsLive
  <2>12. (Y \ (NonControl \ {"microphone"})) \ {"microphone"} = {"control"}
    BY DEF Y, NonControl, Optional
  <2>13. d.conn
    BY <2>3, <2>6, <2>8, <2>10 DEF Arms
  <2> QED BY <2>5, <2>11, <2>12, <2>13 DEF t, r
<1>6. CASE ~waits
  <2>1. Awaited(p, r) = Awaited(p, s)
    BY <1>2, <1>6 DEF Awaited
  <2>2. \A c : Owed(r, c) => Owed(s, c)
    BY <1>2 DEF Owed
  <2>3. Calm(p, r, {"control"})
    BY <1>2, <1>3, <1>4, <2>1, <2>2 DEF Calm, Listening
  <2>4. Live(p, t, {"control"}) /\ t.conn = s.conn
    BY <1>2, <1>4, <2>3, PublishLive
  <2>5. ArmNonControlAfterControlReady(t) = t
    BY <1>6 DEF ArmNonControlAfterControlReady
  <2> QED BY <2>4, <2>5 DEF r
<1> QED BY <1>5, <1>6

\* Service discovery arms what a policy deferred to it: the streams, and the optional
\* channels as soon as the policy lets them.
LEMMA DiscoveryLive ==
  ASSUME NEW p, NEW s, p = policy, Live(p, s, {"control"}), s.conn, "version" \in s.done
  PROVE  LET t == Publish(Reach(s, "discovery"))
         IN  /\ Live(p, ArmDeferredAfterDiscovery(t), {"control"})
             /\ ArmDeferredAfterDiscovery(t).conn
<1> DEFINE r == Reach(s, "discovery")
           t == Publish(r)
<1>1. s \in Service /\ "discovery" \in Milestone
  BY LiveIsSound DEF Milestone
<1>2. r \in Service /\ r.conn = s.conn /\ r.teardown = s.teardown
        /\ r.done = s.done \cup {"discovery"}
        /\ r.rx = s.rx /\ r.handler = s.handler
        /\ r.retry = s.retry /\ r.micTimer = s.micTimer
        /\ r.nonControlArmed = s.nonControlArmed /\ r.optionalArmed = s.optionalArmed
  BY <1>1, ReachFields
<1> HIDE DEF r
<1>3. Orderly(p, s) /\ Listening(p, s, {"control"})
  BY LiveIsSound
<1>4. Orderly(p, r)
  BY <1>2, <1>3 DEF Orderly
<1>5. CASE p.deferToDiscovery
  <2> DEFINE Y == {"control", "video", "mediaAudio"}
             Z == Y \cup Optional
             a == [t EXCEPT !.optionalArmed = FALSE]
             b == Receive(a, {"video", "mediaAudio"})
  <2>1. Awaited(p, r) \subseteq Z
    BY <1>5 DEF Awaited
  <2>2. Calm(p, r, Z)
    BY <1>4, <2>1 DEF Calm, Listening
  <2> HIDE DEF Z
  <2>3. Sound(p, t, Z) /\ t.conn = s.conn
    BY <1>2, <2>2, PublishSound
  <2>4. t \in Service /\ t.done = r.done
    BY <1>2, PublishFields
  <2>5. ArmDeferredAfterDiscovery(t) = ArmOptional(b)
    BY <1>5 DEF ArmDeferredAfterDiscovery
  <2> HIDE DEF t
  <2>6. /\ a \in Service /\ a.conn = t.conn /\ a.teardown = t.teardown
        /\ a.config = t.config /\ a.reconnectAsked = t.reconnectAsked /\ a.done = t.done
        /\ a.announced = t.announced /\ a.watchdog = t.watchdog
        /\ a.optionalArmed = FALSE /\ a.nonControlArmed = t.nonControlArmed
    BY <2>4 DEF Service
  <2> HIDE DEF a
  <2>7. Sound(p, a, Y)
    <3>1. Synced(a)
      BY <2>3, <2>6 DEF Sound, Synced, Watchable, IsReady, Reached
    <3>2. a.conn => Orderly(p, a)
      BY <2>3, <2>6 DEF Sound, Calm, Orderly
    <3>3. Listening(p, a, Y)
      BY <1>5, <2>6 DEF Listening, Awaited
    <3> QED BY <2>6, <3>1, <3>2, <3>3 DEF Sound, Calm
  <2> HIDE DEF Y
  <2>8. b \in Service /\ Arms(a, b, {"video", "mediaAudio"})
    BY <2>6, ReceiveArms
  <2>9. Sound(p, b, Y \ {"video", "mediaAudio"})
    BY <2>7, <2>8, ArmsSound
  <2>10. Y \ {"video", "mediaAudio"} = {"control"}
    BY DEF Y
  <2>11. b.conn
    BY <2>3, <2>6, <2>8 DEF Arms
  <2> HIDE DEF b
  <2>12. Live(p, ArmOptional(b), {"control"}) /\ ArmOptional(b).conn = b.conn
    BY <2>9, <2>10, ArmOptionalLive
  <2> QED BY <2>5, <2>11, <2>12 DEF t, r
<1>6. CASE ~p.deferToDiscovery
  <2>1. Awaited(p, r) = Awaited(p, s)
    BY <1>2, <1>6 DEF Awaited
  <2>2. \A c : Owed(r, c) => Owed(s, c)
    BY <1>2 DEF Owed
  <2>3. Calm(p, r, {"control"}) /\ Prompt(p, r)
    BY <1>2, <1>3, <1>4, <1>6, <2>1, <2>2 DEF Calm, Listening, Prompt
  <2>4. Live(p, t, {"control"}) /\ t.conn = s.conn
    BY <1>2, <2>3, PublishLive
  <2>5. ArmDeferredAfterDiscovery(t) = t
    BY <1>6 DEF ArmDeferredAfterDiscovery
  <2> QED BY <2>4, <2>5 DEF r
<1> QED BY <1>5, <1>6

-----------------------------------------------------------------------------
(* Messages.                                                               *)

LEMMA VideoFrameLive ==
  ASSUME NEW p, NEW s, NEW X, Live(p, s, X), NEW vcl
  PROVE  Live(p, VideoFrame(s, vcl), X) /\ VideoFrame(s, vcl).conn = s.conn
<1>1. "videoFrame" \in Milestone \ {"version", "discovery", "videoStarted", "audioStarted"}
  BY DEF Milestone
<1>2. VideoFrame(s, vcl) \in {s, Reach(s, "videoFrame"), Publish(Reach(s, "videoFrame"))}
  BY DEF VideoFrame
<1> QED BY <1>1, <1>2, ReachLive, ReachPublished

LEMMA AudioFrameLive ==
  ASSUME NEW p, NEW s, NEW X, Live(p, s, X)
  PROVE  Live(p, MediaAudioFrame(s), X) /\ MediaAudioFrame(s).conn = s.conn
<1>1. "audioFrame" \in Milestone \ {"version", "discovery", "videoStarted", "audioStarted"}
  BY DEF Milestone
<1>2. MediaAudioFrame(s) \in {s, Publish(Reach(s, "audioFrame"))}
  BY DEF MediaAudioFrame
<1> QED BY <1>1, <1>2, ReachPublished

\* What a handler does with a message that it takes from the channel, and the arming
\* that it ends with.
LEMMA MessageLive ==
  ASSUME NEW c \in Channel, Live(policy, svc, {}), Message(c)
  PROVE  LET s == Taken(svc, c)
         IN  /\ Live(policy, s, {c}) /\ s.conn /\ s.done = svc.done
             /\ Live(policy, ArmReceive(s, c), {})
<1>1. svc.conn
  BY DEF Message
<1>2. /\ Live(policy, Taken(svc, c), {c})
      /\ Taken(svc, c).conn = svc.conn /\ Taken(svc, c).done = svc.done
  BY TakenLive
<1> QED BY <1>1, <1>2, ArmReceiveLive

LEMMA VersionResponseLive ==
  ASSUME Live(policy, svc, {}), VersionResponse
  PROVE  Live(policy, svc', {})
<1> DEFINE s == Taken(svc, "control")
<1>1. Message("control") /\ "control" \in Channel /\ "version" \notin svc.done
  BY DEF VersionResponse, Channel
<1>2. Live(policy, s, {"control"}) /\ s.conn /\ "version" \notin s.done
  BY <1>1, MessageLive
<1>3. svc' = ArmReceive(ArmNonControlAfterControlReady(Publish(Reach(s, "version"))), "control")
  BY DEF VersionResponse
<1> HIDE DEF s
<1> QED BY <1>1, <1>2, <1>3, VersionLive, ArmReceiveLive

LEMMA ServiceDiscoveryLive ==
  ASSUME Live(policy, svc, {}), ServiceDiscovery
  PROVE  Live(policy, svc', {})
<1> DEFINE s == Taken(svc, "control")
<1>1. Message("control") /\ "control" \in Channel /\ "version" \in svc.done
  BY DEF ServiceDiscovery, Channel
<1>2. Live(policy, s, {"control"}) /\ s.conn /\ "version" \in s.done
  BY <1>1, MessageLive
<1>3. svc' = ArmReceive(ArmDeferredAfterDiscovery(Publish(Reach(s, "discovery"))), "control")
  BY DEF ServiceDiscovery
<1> HIDE DEF s
<1> QED BY <1>1, <1>2, <1>3, DiscoveryLive, ArmReceiveLive

LEMMA VideoMessageLive ==
  ASSUME Live(policy, svc, {}), VideoMessage
  PROVE  Live(policy, svc', {})
<1> DEFINE s == Taken(svc, "video")
           quiet == Milestone \ {"version", "discovery", "videoStarted", "audioStarted"}
<1>1. Message("video") /\ "video" \in Channel
  BY DEF VideoMessage, Conversation, Channel, NonControl
<1>2. Live(policy, s, {"video"}) /\ s.conn /\ Live(policy, ArmReceive(s, "video"), {})
  BY <1>1, MessageLive
<1>3. {"videoOpened", "videoConfigured", "payload"} \subseteq quiet
        /\ "videoStarted" \in {"videoStarted", "audioStarted"}
        /\ {"videoStarted", "videoFrame"} \cap {"version", "discovery"} = {}
  BY DEF Milestone
<1>4. \/ svc' = ArmReceive(Publish(Reach(s, "videoOpened")), "video")
      \/ svc' = ArmReceive(Publish(Reach(s, "videoConfigured")), "video")
      \/ svc' = ArmReceive(VideoStart(s), "video")
      \/ svc' = ArmReceive(VideoStop(s), "video")
      \/ \E vcl \in BOOLEAN : svc' = ArmReceive(VideoFrame(Reach(s, "payload"), vcl), "video")
      \/ svc' = s /\ svc.handler["video"] # "own"
  BY DEF VideoMessage
<1> HIDE DEF s, quiet
<1>5. ASSUME NEW m \in {"videoOpened", "videoConfigured"},
             svc' = ArmReceive(Publish(Reach(s, m)), "video")
      PROVE  Live(policy, svc', {})
  <2>1. Live(policy, Publish(Reach(s, m)), {"video"}) /\ Publish(Reach(s, m)).conn
    BY <1>2, <1>3, ReachPublished DEF quiet
  <2> QED BY <1>1, <1>5, <2>1, ArmReceiveLive
<1>6. CASE svc' = ArmReceive(VideoStart(s), "video")
  <2>1. Live(policy, VideoStart(s), {"video"}) /\ VideoStart(s).conn
    BY <1>2, <1>3, StartLive DEF VideoStart
  <2> QED BY <1>1, <1>6, <2>1, ArmReceiveLive
<1>7. CASE svc' = ArmReceive(VideoStop(s), "video")
  <2>1. Live(policy, VideoStop(s), {"video"}) /\ VideoStop(s).conn
    BY <1>2, <1>3, LosePublished DEF VideoStop
  <2> QED BY <1>1, <1>7, <2>1, ArmReceiveLive
<1>8. ASSUME NEW vcl \in BOOLEAN,
             svc' = ArmReceive(VideoFrame(Reach(s, "payload"), vcl), "video")
      PROVE  Live(policy, svc', {})
  <2>1. Live(policy, Reach(s, "payload"), {"video"}) /\ Reach(s, "payload").conn
    BY <1>2, <1>3, ReachLive DEF quiet
  <2>2. /\ Live(policy, VideoFrame(Reach(s, "payload"), vcl), {"video"})
        /\ VideoFrame(Reach(s, "payload"), vcl).conn
    BY <2>1, VideoFrameLive
  <2> QED BY <1>1, <1>8, <2>2, ArmReceiveLive
<1>9. CASE svc' = s /\ svc.handler["video"] # "own"
  <2>1. s.handler = svc.handler
    BY <1>1, TakenLive DEF s
  <2>2. ~Owed(s, "video")
    BY <1>9, <2>1 DEF Owed
  <2>3. s \in Service /\ Arms(s, s, {"video"})
    BY <1>2, <2>2, LiveIsSound DEF Arms
  <2>4. Live(policy, s, {"video"} \ {"video"})
    BY <1>2, <2>3, ArmsLive
  <2>5. {"video"} \ {"video"} = {}
    OBVIOUS
  <2> QED BY <1>9, <2>4, <2>5
<1> QED BY <1>4, <1>5, <1>6, <1>7, <1>8, <1>9

LEMMA AudioMessageLive ==
  ASSUME Live(policy, svc, {}), NEW c \in Audio, AudioMessage(c)
  PROVE  Live(policy, svc', {})
<1> DEFINE s == Taken(svc, c)
           quiet == Milestone \ {"version", "discovery", "videoStarted", "audioStarted"}
<1>1. Message(c) /\ c \in Channel
  BY DEF AudioMessage, Conversation, Audio, Channel, NonControl, Optional
<1>2. Live(policy, s, {c}) /\ s.conn /\ Live(policy, ArmReceive(s, c), {})
  BY <1>1, MessageLive
<1>3. {"audioConfigured", "payload"} \subseteq quiet
        /\ "audioStarted" \in {"videoStarted", "audioStarted"}
        /\ {"audioStarted", "audioFrame"} \cap {"version", "discovery"} = {}
  BY DEF Milestone
<1>4. PICK t \in {s, Publish(Reach(s, "audioConfigured")),
                  ArmOptional(Publish(Reach(s, "audioStarted"))),
                  Publish(Lose(s, {"audioStarted", "audioFrame"})),
                  Reach(s, "payload"), MediaAudioFrame(Reach(s, "payload"))} :
             svc' = ArmReceive(t, c)
  BY DEF AudioMessage
<1> HIDE DEF s, quiet
<1>5. Live(policy, Publish(Reach(s, "audioConfigured")), {c})
        /\ Publish(Reach(s, "audioConfigured")).conn
  BY <1>2, <1>3, ReachPublished DEF quiet
<1>6. Live(policy, ArmOptional(Publish(Reach(s, "audioStarted"))), {c})
        /\ ArmOptional(Publish(Reach(s, "audioStarted"))).conn
  BY <1>2, <1>3, StartLive
<1>7. Live(policy, Publish(Lose(s, {"audioStarted", "audioFrame"})), {c})
        /\ Publish(Lose(s, {"audioStarted", "audioFrame"})).conn
  BY <1>2, <1>3, LosePublished
<1>8. Live(policy, Reach(s, "payload"), {c}) /\ Reach(s, "payload").conn
  BY <1>2, <1>3, ReachLive DEF quiet
<1>9. /\ Live(policy, MediaAudioFrame(Reach(s, "payload")), {c})
      /\ MediaAudioFrame(Reach(s, "payload")).conn
  BY <1>8, AudioFrameLive
<1>10. Live(policy, t, {c}) /\ t.conn
  BY <1>2, <1>4, <1>5, <1>6, <1>7, <1>8, <1>9
<1> QED BY <1>1, <1>4, <1>10, ArmReceiveLive

LEMMA PhoneMessageLive ==
  ASSUME Live(policy, svc, {}), PhoneMessage
  PROVE  Live(policy, svc', {})
<1>1. ASSUME NEW c \in {"control", "input", "sensor", "microphone", "bluetooth",
                        "wifiProjection"},
             Message(c), svc' = ArmReceive(Taken(svc, c), c)
      PROVE  Live(policy, svc', {})
  <2>1. c \in Channel
    BY DEF Channel, NonControl, Optional
  <2> QED BY <1>1, <2>1, MessageLive
<1>2. CASE \/ ControlMessage \/ InputMessage \/ SensorMessage \/ MicrophoneMessage
           \/ BluetoothMessage \/ WifiMessage
  BY <1>1, <1>2 DEF ControlMessage, InputMessage, SensorMessage, MicrophoneMessage,
                    BluetoothMessage, WifiMessage, Conversation
<1> QED BY <1>2, VersionResponseLive, ServiceDiscoveryLive, VideoMessageLive,
           AudioMessageLive DEF PhoneMessage

-----------------------------------------------------------------------------
(* The connection.                                                         *)

LEMMA ResetLive ==
  ASSUME NEW p, NEW s \in Service, s.conn = FALSE
  PROVE  Live(p, ResetProjection(s), {}) /\ ResetProjection(s).conn = FALSE
<1> DEFINE t == [s EXCEPT !.done = {}, !.recovery = FALSE, !.graceUsed = FALSE]
<1>1. t \in Service /\ t.conn = FALSE
  BY DEF Service
<1>2. ResetProjection(s) = Publish(t)
  BY DEF ResetProjection
<1> QED BY <1>1, <1>2, PublishIdle

LEMMA DisconnectOfLive ==
  ASSUME NEW p, NEW s \in Service
  PROVE  Live(p, DisconnectOf(s), {}) /\ DisconnectOf(s).conn = FALSE
<1> DEFINE f == [c \in Channel |-> IF s.rx[c] \in {"armed", "dead"} THEN "idle" ELSE s.rx[c]]
           t == [s EXCEPT !.conn = FALSE, !.rx = f]
<1>1. f \in [Channel -> {"none", "void", "idle", "armed", "dead"}]
  BY DEF Service
<1>2. DisconnectOf(s) = ResetProjection(t)
  BY DEF DisconnectOf
<1> HIDE DEF f
<1>3. t \in Service /\ t.conn = FALSE
  BY <1>1 DEF Service
<1> QED BY <1>2, <1>3, ResetLive

LEMMA CleanupLive ==
  ASSUME NEW p, NEW s \in Service, s.conn = FALSE
  PROVE  Live(p, CleanupChannels(s), {})
<1> DEFINE f == [c \in Channel |-> "none"]
           g == [c \in Channel |->
                    IF c = "sensor" /\ s.handler[c] # "none" THEN "old" ELSE "none"]
           t == [s EXCEPT !.teardown = TRUE, !.rx = f, !.handler = g]
<1>1. /\ f \in [Channel -> {"none", "void", "idle", "armed", "dead"}]
      /\ g \in [Channel -> {"none", "own", "old"}]
  OBVIOUS
<1>2. CleanupChannels(s) = ResetProjection(t)
  BY DEF CleanupChannels
<1> HIDE DEF f, g
<1>3. t \in Service /\ t.conn = FALSE
  BY <1>1 DEF Service
<1> QED BY <1>2, <1>3, ResetLive

\* The objects are new: nothing of them has a handler of its own yet.
LEMMA SetupType ==
  ASSUME NEW s \in Service, s.conn = FALSE, NEW t \in SetupChannels(s)
  PROVE  /\ t \in Service /\ t.conn = FALSE /\ t.teardown = FALSE
         /\ \A c \in Channel : t.handler[c] # "own"
<1> DEFINE f == [c \in Channel |->
                    IF c \in s.config \cup {"control"} THEN "idle"
                    ELSE IF s.rx[c] = "none" THEN "none" ELSE "void"]
           g == [c \in Channel |-> IF s.handler[c] = "own" THEN "old" ELSE s.handler[c]]
           h == {c \in s.retry : FollowsService(c)}
           n == [s EXCEPT !.rx = f, !.handler = g, !.retry = h, !.teardown = FALSE]
<1>1. /\ f \in [Channel -> {"none", "void", "idle", "armed", "dead"}]
      /\ g \in [Channel -> {"none", "own", "old"}] /\ h \in SUBSET Channel
      /\ \A c \in Channel : g[c] # "own"
  BY DEF Service
<1>2. NewChannels(s) = n
  BY DEF NewChannels
<1> HIDE DEF f, g, h
<1>3. n \in Service /\ n.conn = FALSE /\ n.teardown = FALSE /\ n.handler = g
  BY <1>1 DEF Service
<1> HIDE DEF n
<1> DEFINE j == [n EXCEPT !.mode = "jpeg"]
<1>4. j \in Service /\ j.conn = FALSE /\ j.teardown = FALSE /\ j.handler = g
  BY <1>3 DEF Service
<1>5. t \in {n, Publish(j)}
  BY <1>2 DEF SetupChannels, FallBackFromWebRtc
<1> HIDE DEF j
<1>6. /\ Publish(j) \in Service /\ Publish(j).conn = FALSE
      /\ Publish(j).teardown = FALSE /\ Publish(j).handler = g
  BY <1>4, PublishFields
<1> QED BY <1>1, <1>3, <1>5, <1>6

LEMMA ResetFields ==
  ASSUME NEW s \in Service
  PROVE  /\ ResetProjection(s) \in Service
         /\ ResetProjection(s).conn = s.conn /\ ResetProjection(s).teardown = s.teardown
         /\ ResetProjection(s).done = {} /\ ResetProjection(s).handler = s.handler
<1> DEFINE t == [s EXCEPT !.done = {}, !.recovery = FALSE, !.graceUsed = FALSE]
<1>1. t \in Service /\ t.conn = s.conn /\ t.teardown = s.teardown /\ t.done = {}
        /\ t.handler = s.handler
  BY DEF Service
<1>2. ResetProjection(s) = Publish(t)
  BY DEF ResetProjection
<1> HIDE DEF t
<1> QED BY <1>1, <1>2, PublishFields

\* A new connection: its new handlers have armed what the policy arms at once.
LEMMA HandlersArm ==
  ASSUME NEW r \in Service, r.teardown = FALSE, r.done = {},
         \A c \in Channel : r.handler[c] # "own"
  PROVE  LET u == [MakeHandlers(r) EXCEPT !.conn = TRUE, !.reconnectAsked = FALSE]
         IN  /\ u \in Service /\ u.conn = TRUE
             /\ Orderly(policy, u) /\ Prompt(policy, u) /\ Listening(policy, u, {})
<1> DEFINE fresh == {c \in Channel : r.rx[c] # "none" /\ r.handler[c] = "none"}
           g == [c \in Channel |-> IF c \in fresh THEN "own" ELSE r.handler[c]]
           made == [r EXCEPT !.handler = g, !.nonControlArmed = FALSE]
           C == (fresh \cap {"control"}) \cup IF ArmInitial THEN fresh \ {"microphone"} ELSE {}
           initial == Receive(made, C)
           all == IF ArmInitial /\ "microphone" \in fresh
                  THEN ArmMicrophone(initial) ELSE initial
           m == IF policy.compat /\ ArmInitial
                THEN [all EXCEPT !.nonControlArmed = TRUE, !.optionalArmed = TRUE] ELSE all
           u == [m EXCEPT !.conn = TRUE, !.reconnectAsked = FALSE]
<1>1. MakeHandlers(r) = m
  BY DEF MakeHandlers
<1>2. /\ g \in [Channel -> {"none", "own", "old"}]
      /\ \A c \in Channel : g[c] = "own" => c \in fresh
  BY DEF Service
<1>3. fresh \subseteq Channel
  OBVIOUS
<1> HIDE DEF g, fresh
<1>4. /\ made \in Service /\ made.teardown = FALSE /\ made.done = {}
      /\ made.nonControlArmed = FALSE /\ made.handler = g
  BY <1>2 DEF Service
<1> HIDE DEF made
<1>5. initial \in Service /\ Arms(made, initial, C)
  BY <1>4, ReceiveArms
<1> HIDE DEF initial
<1>6. all \in Service /\ Arms(initial, all, {})
  <2>1. ArmMicrophone(initial) \in Service /\ Arms(initial, ArmMicrophone(initial), {"microphone"})
    BY <1>5, MicrophoneArms
  <2>2. Arms(initial, ArmMicrophone(initial), {})
    BY <2>1 DEF Arms
  <2> QED BY <1>5, <2>1, <2>2, ArmsNone
<1> HIDE DEF all, C
<1>7. Arms(made, all, C)
  <2>1. Arms(made, all, C \cup {})
    BY <1>5, <1>6, ArmsTwice
  <2>2. C \cup {} = C
    OBVIOUS
  <2> QED BY <2>1, <2>2
<1>8. /\ all.teardown = FALSE /\ all.done = {} /\ all.nonControlArmed = FALSE
      /\ \A c \in Channel :
           Owed(all, c) => c \in fresh /\ (c \in C => c = "microphone" /\ all.micTimer)
  <2>1. \A c \in Channel : Owed(made, c) => c \in fresh
    BY <1>2, <1>4 DEF Owed
  <2> QED BY <1>4, <1>7, <2>1 DEF Arms
<1>9. /\ m \in Service /\ m.teardown = FALSE /\ m.done = {}
      /\ m.nonControlArmed => ArmInitial
      /\ m.rx = all.rx /\ m.handler = all.handler /\ m.retry = all.retry
      /\ m.micTimer = all.micTimer
  <2> DEFINE n == [all EXCEPT !.nonControlArmed = TRUE, !.optionalArmed = TRUE]
  <2>1. m = all \/ (ArmInitial /\ m = n)
    OBVIOUS
  <2>2. /\ n \in Service /\ n.teardown = FALSE /\ n.done = {}
        /\ n.rx = all.rx /\ n.handler = all.handler /\ n.retry = all.retry
        /\ n.micTimer = all.micTimer
    BY <1>6, <1>8 DEF Service
  <2> HIDE DEF m, n
  <2> QED BY <1>6, <1>8, <2>1, <2>2
<1> HIDE DEF m
<1>10. /\ u \in Service /\ u.conn = TRUE /\ u.teardown = FALSE /\ u.done = {}
       /\ u.nonControlArmed => ArmInitial
       /\ u.rx = all.rx /\ u.handler = all.handler /\ u.retry = all.retry
       /\ u.micTimer = all.micTimer
  BY <1>9 DEF Service
<1> HIDE DEF u
<1>11. Orderly(policy, u) /\ Prompt(policy, u)
  BY <1>10 DEF Orderly, Prompt, ArmInitial
<1>12. Listening(policy, u, {})
  <2>1. \A c \in Channel :
           Owed(u, c) => c \in fresh /\ (c \in C => c = "microphone" /\ u.micTimer)
    BY <1>8, <1>10 DEF Owed
  <2>2. Awaited(policy, u) \subseteq
          {"control"} \cup IF ArmInitial THEN NonControl \ {"microphone"} ELSE {}
    BY <1>10 DEF Awaited, ArmInitial
  <2>3. \A c \in Awaited(policy, u) : c \in Channel /\ (c \in fresh => c \in C)
    <3>1. "control" \in Channel /\ NonControl \subseteq Channel
      BY DEF Channel
    <3>2. CASE ArmInitial
      BY <2>2, <3>1, <3>2 DEF C
    <3>3. CASE ~ArmInitial
      BY <2>2, <3>1, <3>3 DEF C
    <3> QED BY <3>2, <3>3
  <2> QED BY <2>1, <2>3 DEF Listening
<1> QED BY <1>1, <1>10, <1>11, <1>12 DEF u

LEMMA EstablishedLive ==
  ASSUME Live(policy, svc, {}), Established
  PROVE  Live(policy, svc', {})
<1>1. svc \in Service /\ svc.conn = FALSE
  <2>1. svc \in Service
    BY LiveIsSound
  <2> QED BY <2>1 DEF Established, Service
<1>2. PICK t \in SetupChannels(svc) :
         svc' = Publish([MakeHandlers(ResetProjection(t)) EXCEPT
                            !.conn = TRUE, !.reconnectAsked = FALSE])
  BY DEF Established
<1>3. /\ t \in Service /\ t.teardown = FALSE
      /\ \A c \in Channel : t.handler[c] # "own"
  BY <1>1, SetupType
<1> DEFINE r == ResetProjection(t)
<1>4. /\ r \in Service /\ r.teardown = FALSE /\ r.done = {}
      /\ \A c \in Channel : r.handler[c] # "own"
  BY <1>3, ResetFields
<1> HIDE DEF r
<1> DEFINE u == [MakeHandlers(r) EXCEPT !.conn = TRUE, !.reconnectAsked = FALSE]
<1>5. /\ u \in Service
      /\ Orderly(policy, u) /\ Prompt(policy, u) /\ Listening(policy, u, {})
  BY <1>4, HandlersArm
<1>6. svc' = Publish(u)
  BY <1>2 DEF r
<1> HIDE DEF u
<1> QED BY <1>5, <1>6, PublishLive DEF Calm

-----------------------------------------------------------------------------
(* Errors.                                                                 *)

\* A change that leaves what Live speaks of as it was.
LEMMA ArmsNothing ==
  ASSUME NEW p, NEW s, NEW t \in Service, Live(p, s, {}), Arms(s, t, {})
  PROVE  Live(p, t, {})
<1>1. Live(p, t, {} \ {})
  BY ArmsLive
<1>2. {} \ {} = {}
  OBVIOUS
<1> QED BY <1>1, <1>2

\* A receive more never hurts.
LEMMA ReceiveLive ==
  ASSUME NEW p, NEW s, NEW C, Live(p, s, {})
  PROVE  Live(p, Receive(s, C), {}) /\ Receive(s, C).conn = s.conn
<1>1. Receive(s, C) \in Service /\ Arms(s, Receive(s, C), C)
  BY LiveIsSound, ReceiveArms
<1>2. Arms(s, Receive(s, C), {}) /\ Receive(s, C).conn = s.conn
  BY <1>1 DEF Arms
<1> QED BY <1>1, <1>2, ArmsNothing

LEMMA BrokenLive ==
  ASSUME NEW p, NEW s, NEW c, Live(p, s, {})
  PROVE  Live(p, StreamBroken(s, c), {})
<1>1. \E M \in {{"videoStarted"}, {"audioStarted"}} : StreamBroken(s, c) = Publish(Lose(s, M))
      \/ StreamBroken(s, c) = Publish(s)
  BY DEF StreamBroken
<1>2. \A M \in {{"videoStarted"}, {"audioStarted"}} : Live(p, Publish(Lose(s, M)), {})
  BY LosePublished
<1>3. Live(p, Publish(s), {})
  BY LiveIsSound, PublishLive
<1> QED BY <1>1, <1>2, <1>3

LEMMA ServiceErrorLive ==
  ASSUME NEW p, NEW s, NEW c, NEW kind, NEW t \in ServiceError(s, c, kind), Live(p, s, {})
  PROVE  Live(p, t, {})
<1> DEFINE broken == StreamBroken(s, c)
           counted == [broken EXCEPT !.grace = TRUE, !.graceUsed = TRUE]
           inGrace == /\ kind = "noDevice" /\ "discovery" \in broken.done
                      /\ ~PrimaryStarted(broken) /\ ~broken.graceUsed
           handled ==
             CASE kind = "recoverable" /\ s.conn -> RearmActiveReceives(s)
               [] inGrace -> counted
               [] kind = "sslNoDevice" /\ broken.conn -> CleanupChannels(DisconnectOf(broken))
               [] kind \in {"noDevice", "fatal"} /\ ~inGrace /\ broken.conn ->
                      DisconnectOf(broken)
               [] OTHER -> broken
<1>1. t \in {s, handled}
  BY DEF ServiceError
<1>2. Live(p, broken, {}) /\ broken \in Service
  BY BrokenLive, LiveIsSound
<1>3. handled \in {RearmActiveReceives(s), counted,
                   CleanupChannels(DisconnectOf(broken)), DisconnectOf(broken), broken}
  <2> DEFINE a == kind = "recoverable" /\ s.conn
             b == inGrace
             d == kind = "sslNoDevice" /\ broken.conn
             e == kind \in {"noDevice", "fatal"} /\ ~inGrace /\ broken.conn
  <2>1. ~(a /\ b) /\ ~(a /\ d) /\ ~(a /\ e) /\ ~(b /\ d) /\ ~(b /\ e) /\ ~(d /\ e)
    OBVIOUS
  <2> HIDE DEF a, b, d, e, broken, counted
  <2>2. handled = CASE a -> RearmActiveReceives(s)
                    [] b -> counted
                    [] d -> CleanupChannels(DisconnectOf(broken))
                    [] e -> DisconnectOf(broken)
                    [] OTHER -> broken
    BY DEF a, b, d, e
  <2> QED BY <2>1, <2>2
<1> HIDE DEF broken, handled
<1>4. Live(p, RearmActiveReceives(s), {})
  BY ReceiveLive DEF RearmActiveReceives
<1>5. Live(p, counted, {})
  <2>1. counted \in Service /\ Arms(broken, counted, {})
    BY <1>2 DEF Service, Arms, Owed
  <2> HIDE DEF counted
  <2> QED BY <1>2, <2>1, ArmsNothing
<1>6. Live(p, DisconnectOf(broken), {}) /\ DisconnectOf(broken).conn = FALSE
  BY <1>2, DisconnectOfLive
<1>7. Live(p, CleanupChannels(DisconnectOf(broken)), {})
  BY <1>6, CleanupLive, LiveIsSound
<1> QED BY <1>1, <1>2, <1>3, <1>4, <1>5, <1>6, <1>7

\* A handler that will try again, and one that has reported its failure, are heard of.
LEMMA RetryArms ==
  ASSUME NEW s \in Service, NEW c \in Channel
  PROVE  /\ LET t == [s EXCEPT !.retry = @ \cup {c}] IN t \in Service /\ Arms(s, t, {})
         /\ LET t == [Taken(s, c) EXCEPT !.retry = @ \cup {c}]
            IN  t \in Service /\ Arms(s, t, {})
         /\ LET t == [s EXCEPT !.rx[c] = "dead"] IN t \in Service /\ Arms(s, t, {})
<1>1. s.retry \cup {c} \in SUBSET Channel /\ s.retry \in SUBSET Channel
  BY DEF Service
<1> DEFINE idle == [s.rx EXCEPT ![c] = "idle"]
           dead == [s.rx EXCEPT ![c] = "dead"]
           R == s.retry \cup {c}
<1>2. /\ idle \in [Channel -> {"none", "void", "idle", "armed", "dead"}]
      /\ dead \in [Channel -> {"none", "void", "idle", "armed", "dead"}]
      /\ \A d \in Channel \ {c} : idle[d] = s.rx[d]
      /\ \A d \in Channel : dead[d] = "idle" => s.rx[d] = "idle"
  BY DEF Service
<1>3. Taken(s, c) = [s EXCEPT !.rx = idle] /\ [s EXCEPT !.rx[c] = "dead"] = [s EXCEPT !.rx = dead]
  BY DEF Taken, Service
<1>4. [Taken(s, c) EXCEPT !.retry = @ \cup {c}] = [s EXCEPT !.rx = idle, !.retry = R]
  BY <1>3 DEF Service
<1>5. [s EXCEPT !.retry = @ \cup {c}] = [s EXCEPT !.retry = R]
  OBVIOUS
<1>6. c \in R /\ (\A d : d \notin R => d \notin s.retry) /\ R \in SUBSET Channel
  BY <1>1
<1> HIDE DEF idle, dead, R
<1>7. LET t == [s EXCEPT !.retry = R] IN t \in Service /\ Arms(s, t, {})
  BY <1>6 DEF Service, Arms, Owed
<1>8. LET t == [s EXCEPT !.rx = idle, !.retry = R] IN t \in Service /\ Arms(s, t, {})
  BY <1>2, <1>6 DEF Service, Arms, Owed
<1>9. LET t == [s EXCEPT !.rx = dead] IN t \in Service /\ Arms(s, t, {})
  BY <1>2 DEF Service, Arms, Owed
<1> QED BY <1>3, <1>4, <1>5, <1>7, <1>8, <1>9

LEMMA FailureLive ==
  ASSUME Live(policy, svc, {}), Failure
  PROVE  Live(policy, svc', {})
<1>1. svc \in Service
  BY LiveIsSound
<1>2. ASSUME NEW c \in Channel, ReceiveFails(c)
      PROVE  Live(policy, svc', {})
  <2> DEFINE a == [Taken(svc, c) EXCEPT !.retry = @ \cup {c}]
             b == [svc EXCEPT !.rx[c] = "dead"]
  <2>1. Live(policy, a, {}) /\ Live(policy, b, {})
    <3>1. a \in Service /\ Arms(svc, a, {}) /\ b \in Service /\ Arms(svc, b, {})
      BY <1>1, RetryArms
    <3> HIDE DEF a, b
    <3> QED BY <3>1, ArmsNothing
  <2>2. svc' = a \/ \E kind : svc' \in ServiceError(b, c, kind)
    BY <1>2 DEF ReceiveFails
  <2> HIDE DEF a, b
  <2> QED BY <2>1, <2>2, ServiceErrorLive
<1>3. ASSUME NEW c \in Channel, SendFails(c)
      PROVE  Live(policy, svc', {})
  <2> DEFINE a == [svc EXCEPT !.retry = @ \cup {c}]
  <2>1. Live(policy, a, {})
    <3>1. a \in Service /\ Arms(svc, a, {})
      BY <1>1, RetryArms
    <3> HIDE DEF a
    <3> QED BY <3>1, ArmsNothing
  <2>2. svc' = a \/ \E kind : svc' \in ServiceError(svc, c, kind)
    BY <1>3 DEF SendFails
  <2> HIDE DEF a
  <2> QED BY <2>1, <2>2, ServiceErrorLive
<1>4. CASE NudgeFails \/ InputSendFails
  <2>1. \E c, kind : svc' \in ServiceError(svc, c, kind)
    BY <1>4 DEF NudgeFails, InputSendFails
  <2> QED BY <2>1, ServiceErrorLive
<1> QED BY <1>2, <1>3, <1>4 DEF Failure

-----------------------------------------------------------------------------
(* Timers, the watchdog and commands.                                      *)

LEMMA RetryOverLive ==
  ASSUME Live(policy, svc, {}), NEW c \in Channel, RetryOver(c)
  PROVE  Live(policy, svc', {})
<1> DEFINE a == [svc EXCEPT !.retry = @ \ {c}]
<1>1. svc \in Service /\ svc' = ArmReceive(a, c)
  BY LiveIsSound DEF RetryOver
<1>2. /\ a \in Service /\ a.conn = svc.conn /\ a.teardown = svc.teardown
      /\ a.config = svc.config /\ a.done = svc.done
      /\ a.reconnectAsked = svc.reconnectAsked
      /\ a.rx = svc.rx /\ a.handler = svc.handler
      /\ a.retry = svc.retry \ {c} /\ a.micTimer = svc.micTimer
      /\ a.nonControlArmed = svc.nonControlArmed /\ a.optionalArmed = svc.optionalArmed
      /\ a.announced = svc.announced /\ a.watchdog = svc.watchdog
  BY <1>1 DEF Service
<1> HIDE DEF a
<1>3. Live(policy, a, {c})
  <2>1. Synced(a)
    BY <1>2, LiveIsSound DEF Synced, Watchable, IsReady, Reached
  <2>2. a.conn => Orderly(policy, a) /\ Prompt(policy, a)
    BY <1>2, LiveIsSound DEF Orderly, Prompt, PrimaryStarted
  <2>3. ASSUME a.conn PROVE Listening(policy, a, {c})
    <3>1. Awaited(policy, a) = Awaited(policy, svc)
      BY <1>2 DEF Awaited
    <3>2. \A d : d # c /\ Owed(a, d) => Owed(svc, d)
      BY <1>2 DEF Owed
    <3>3. Listening(policy, svc, {})
      BY <1>2, <2>3, LiveIsSound
    <3> QED BY <1>2, <3>1, <3>2, <3>3 DEF Listening
  <2> QED BY <1>2, <2>1, <2>2, <2>3 DEF Live, Sound, Calm
<1>4. CASE a.conn
  BY <1>1, <1>3, <1>4, ArmReceiveLive
<1>5. CASE ~a.conn
  <2> DEFINE t == ArmReceive(a, c)
  <2>1. t \in Service /\ Arms(a, t, {})
    BY <1>2, LateHandlerArms
  <2> HIDE DEF t
  <2>2. Live(policy, a, {})
    BY <1>3, <1>5 DEF Live, Sound, Calm
  <2> QED BY <1>1, <2>1, <2>2, ArmsNothing DEF t
<1> QED BY <1>4, <1>5

LEMMA GraceOverLive ==
  ASSUME Live(policy, svc, {}), GraceOver
  PROVE  Live(policy, svc', {})
<1> DEFINE a == [svc EXCEPT !.grace = FALSE]
<1>0. svc \in Service
  BY LiveIsSound
<1>1. a \in Service /\ Arms(svc, a, {})
  <2>1. a \in Service
    BY <1>0 DEF Service
  <2>2. Arms(svc, a, {})
    BY <1>0 DEF Service, Arms, Owed
  <2> QED BY <2>1, <2>2
<1>2. svc' = a \/ \E C : svc' = Receive(a, C)
  BY DEF GraceOver
<1> HIDE DEF a
<1>3. Live(policy, a, {})
  BY <1>1, ArmsNothing
<1> QED BY <1>2, <1>3, ReceiveLive

LEMMA MicDelayOverLive ==
  ASSUME Live(policy, svc, {}), MicDelayOver
  PROVE  Live(policy, svc', {})
<1> DEFINE a == [svc EXCEPT !.micTimer = FALSE]
           milestone == IF ~policy.deferToDiscovery /\ policy.deferToControl
                        THEN "version" ELSE "discovery"
<1>1. svc \in Service
        /\ svc' = IF a.conn /\ milestone \in a.done THEN Receive(a, {"microphone"}) ELSE a
  BY LiveIsSound DEF MicDelayOver
<1>2. /\ a \in Service /\ a.conn = svc.conn /\ a.teardown = svc.teardown
      /\ a.config = svc.config /\ a.done = svc.done
      /\ a.reconnectAsked = svc.reconnectAsked
      /\ a.rx = svc.rx /\ a.handler = svc.handler
      /\ a.retry = svc.retry /\ a.micTimer = FALSE
      /\ a.nonControlArmed = svc.nonControlArmed /\ a.optionalArmed = svc.optionalArmed
      /\ a.announced = svc.announced /\ a.watchdog = svc.watchdog
  BY <1>1 DEF Service
<1> HIDE DEF a
<1>3. Synced(a)
  BY <1>2, LiveIsSound DEF Synced, Watchable, IsReady, Reached
<1>4. a.conn => Orderly(policy, a) /\ Prompt(policy, a)
  BY <1>2, LiveIsSound DEF Orderly, Prompt, PrimaryStarted
<1>5. ASSUME a.conn PROVE Listening(policy, a, {"microphone"})
  <2>1. Awaited(policy, a) = Awaited(policy, svc)
    BY <1>2 DEF Awaited
  <2>2. \A d : Owed(a, d) => Owed(svc, d)
    BY <1>2 DEF Owed
  <2>3. Listening(policy, svc, {})
    BY <1>2, <1>5, LiveIsSound
  <2> QED BY <2>1, <2>2, <2>3 DEF Listening
<1>6. Live(policy, a, {"microphone"})
  BY <1>2, <1>3, <1>4, <1>5 DEF Live, Sound, Calm
<1>7. CASE a.conn /\ milestone \in a.done
  <2> DEFINE t == Receive(a, {"microphone"})
  <2>1. t \in Service /\ Arms(a, t, {"microphone"})
    BY <1>2, ReceiveArms
  <2> HIDE DEF t
  <2>2. Live(policy, t, {"microphone"} \ {"microphone"})
    BY <1>6, <2>1, ArmsLive
  <2>3. {"microphone"} \ {"microphone"} = {}
    OBVIOUS
  <2> QED BY <1>1, <1>7, <2>2, <2>3 DEF t
<1>8. CASE ~(a.conn /\ milestone \in a.done)
  <2>1. ASSUME a.conn PROVE "microphone" \notin Awaited(policy, a)
    BY <1>8, <2>1 DEF Awaited
  <2>2. a.conn => Listening(policy, a, {})
    BY <1>5, <2>1 DEF Listening
  <2>3. Live(policy, a, {})
    BY <1>2, <1>3, <1>4, <2>2 DEF Live, Sound, Calm
  <2> QED BY <1>1, <1>8, <2>3
<1> QED BY <1>7, <1>8

\* The watchdog stops itself only when there is nothing to watch.
LEMMA WatchdogStopsLive ==
  ASSUME Live(policy, svc, {}), WatchdogStops
  PROVE  Live(policy, svc', {})
<1> DEFINE a == [svc EXCEPT !.watchdog = FALSE, !.recovery = FALSE]
<1>1. svc \in Service /\ svc' = a /\ ~Watchable(svc)
  BY LiveIsSound DEF WatchdogStops
<1>2. /\ a \in Service /\ a.conn = svc.conn /\ a.teardown = svc.teardown
      /\ a.config = svc.config /\ a.done = svc.done
      /\ a.reconnectAsked = svc.reconnectAsked
      /\ a.rx = svc.rx /\ a.handler = svc.handler
      /\ a.retry = svc.retry /\ a.micTimer = svc.micTimer
      /\ a.nonControlArmed = svc.nonControlArmed /\ a.optionalArmed = svc.optionalArmed
      /\ a.announced = svc.announced
  BY <1>1 DEF Service
<1> HIDE DEF a
<1>3. Synced(a)
  BY <1>1, <1>2, LiveIsSound DEF Synced, Watchable, IsReady, Reached
<1>4. Calm(policy, a, {})
  BY <1>2, LiveIsSound, SameCalm
<1>5. a.conn => Prompt(policy, a)
  BY <1>2, LiveIsSound DEF Prompt, PrimaryStarted
<1> QED BY <1>1, <1>2, <1>3, <1>4, <1>5 DEF Live, Sound

LEMMA WatchdogTickLive ==
  ASSUME Live(policy, svc, {}), WatchdogTick
  PROVE  Live(policy, svc', {})
<1> DEFINE a == RearmStreams(svc)
           b == [a EXCEPT !.recovery = TRUE, !.recoveryTimer = TRUE]
<1>1. svc' = a \/ svc' = b
  BY DEF WatchdogTick
<1>2. Live(policy, a, {})
  BY ReceiveLive DEF RearmStreams
<1> HIDE DEF a
<1>3. b \in Service /\ Arms(a, b, {})
  <2>1. a \in Service
    BY <1>2, LiveIsSound
  <2>2. b \in Service
    BY <2>1 DEF Service
  <2>3. Arms(a, b, {})
    BY <2>1 DEF Service, Arms, Owed
  <2> QED BY <2>2, <2>3
<1> HIDE DEF b
<1> QED BY <1>1, <1>2, <1>3, ArmsNothing

LEMMA IdleRecoveryLive ==
  ASSUME Live(policy, svc, {}), IdleRecovery
  PROVE  Live(policy, svc', {})
<1> DEFINE a == [svc EXCEPT !.recoveryTimer = FALSE]
           b == [a EXCEPT !.recovery = FALSE]
<1>0. svc \in Service
  BY LiveIsSound
<1>1. a \in Service /\ b \in Service /\ Arms(svc, b, {})
  <2>1. a \in Service /\ b \in Service
    BY <1>0 DEF Service
  <2>2. Arms(svc, b, {})
    BY <1>0 DEF Service, Arms, Owed
  <2> QED BY <2>1, <2>2
<1>2. svc' = DisconnectOf(a) \/ svc' = b
  BY DEF IdleRecovery
<1> HIDE DEF a, b
<1> QED BY <1>1, <1>2, ArmsNothing, DisconnectOfLive

\* A new configuration is published by the reconnect that it asks for.
LEMMA SetChannelConfigLive ==
  ASSUME Live(policy, svc, {}), SetChannelConfig
  PROVE  Live(policy, svc', {})
<1>1. PICK config \in Configs :
         svc' = [svc EXCEPT !.config = config,
                            !.reconnectAsked = @ \/ (svc.conn /\ config # svc.config)]
  BY DEF SetChannelConfig
<1> DEFINE asked == svc.reconnectAsked \/ (svc.conn /\ config # svc.config)
           a == [svc EXCEPT !.config = config, !.reconnectAsked = asked]
<1>2. svc' = a /\ svc \in Service
  BY <1>1, LiveIsSound
<1>3. asked \in BOOLEAN
  BY <1>2 DEF Service
<1> HIDE DEF asked
<1>4. /\ a \in Service /\ a.conn = svc.conn /\ a.teardown = svc.teardown
      /\ a.config = config /\ a.done = svc.done
      /\ a.reconnectAsked = asked
      /\ a.rx = svc.rx /\ a.handler = svc.handler
      /\ a.retry = svc.retry /\ a.micTimer = svc.micTimer
      /\ a.nonControlArmed = svc.nonControlArmed /\ a.optionalArmed = svc.optionalArmed
      /\ a.announced = svc.announced /\ a.watchdog = svc.watchdog
  BY <1>2, <1>3 DEF Service
<1> HIDE DEF a
<1>5. Synced(a)
  BY <1>4, LiveIsSound DEF asked, Synced, Watchable, IsReady, Reached
<1>6. Calm(policy, a, {})
  BY <1>4, LiveIsSound, SameCalm
<1>7. a.conn => Prompt(policy, a)
  BY <1>4, LiveIsSound DEF Prompt, PrimaryStarted
<1> QED BY <1>2, <1>4, <1>5, <1>6, <1>7 DEF Live, Sound

LEMMA BridgeFailsLive ==
  ASSUME Live(policy, svc, {}), BridgeFails
  PROVE  Live(policy, svc', {})
<1> DEFINE a == [svc EXCEPT !.mode = "jpeg"]
<1>1. svc' = Publish(a)
  BY DEF BridgeFails, FallBackFromWebRtc
<1>2. a \in Service /\ Arms(svc, a, {})
  BY LiveIsSound DEF Service, Arms, Owed
<1> HIDE DEF a
<1>3. Live(policy, a, {})
  BY <1>2, ArmsNothing
<1> QED BY <1>1, <1>3, LiveIsSound, PublishLive

-----------------------------------------------------------------------------
(* The invariant and the theorems.                                         *)

LeftOK == left \in [{"failures", "connections", "changes"} -> Nat]

ChannelsInv == Live(policy, svc, {}) /\ policy \in Policies /\ LeftOK

LEMMA ChannelsStart == Init => ChannelsInv
<1> SUFFICES ASSUME Init PROVE ChannelsInv
  OBVIOUS
<1>1. PICK config \in Configs, mode \in Modes :
         svc = [NewService EXCEPT !.config = config, !.mode = mode]
  BY DEF Init
<1>2. mode \in {"h264", "jpeg", "webrtc"}
  BY ModesAssumption
<1> DEFINE f == [c \in Channel |-> "none"]
<1>3. f \in [Channel -> {"none", "void", "idle", "armed", "dead"}]
        /\ f \in [Channel -> {"none", "own", "old"}]
  OBVIOUS
<1>4. svc = [conn |-> FALSE, teardown |-> FALSE, reconnectAsked |-> FALSE,
             config |-> config, mode |-> mode, rx |-> f,
             handler |-> f, retry |-> {}, micTimer |-> FALSE,
             grace |-> FALSE, graceUsed |-> FALSE, nonControlArmed |-> FALSE,
             optionalArmed |-> FALSE, done |-> {}, announced |-> FALSE, watchdog |-> FALSE,
             recovery |-> FALSE, recoveryTimer |-> FALSE]
  BY <1>1 DEF NewService
<1> HIDE DEF f
<1>5. svc \in Service
  BY <1>2, <1>3, <1>4 DEF Service
<1>6. Synced(svc) /\ ~svc.conn
  BY <1>4 DEF Synced, Watchable
<1>7. LeftOK
  BY BoundsAssumption DEF Init, LeftOK
<1>8. policy \in Policies
  BY DEF Init
<1> QED BY <1>5, <1>6, <1>7, <1>8 DEF ChannelsInv, Live, Sound, Calm

LEMMA ChannelsStep == ChannelsInv /\ [Next]_vars => ChannelsInv'
<1> SUFFICES ASSUME ChannelsInv, Next PROVE ChannelsInv'
  BY DEF vars, ChannelsInv, Live, Sound, Synced, Calm, Watchable, IsReady, Reached, Orderly,
         Prompt, Listening, Awaited, Owed, PrimaryStarted, LeftOK
<1>1. Live(policy, svc, {}) /\ LeftOK /\ policy \in Policies
  BY DEF ChannelsInv
<1>2. Live(policy, svc', {})
  <2>1. CASE Disconnect \/ CleanUp
    <3>1. svc \in Service
      BY <1>1, LiveIsSound
    <3>2. svc.conn = FALSE => Live(policy, CleanupChannels(svc), {})
      BY <3>1, CleanupLive
    <3>3. Live(policy, DisconnectOf(svc), {})
      BY <3>1, DisconnectOfLive
    <3> QED BY <2>1, <3>1, <3>2, <3>3 DEF Disconnect, CleanUp, Service
  <2>2. CASE Timer
    BY <1>1, <2>2, RetryOverLive, GraceOverLive, MicDelayOverLive, WatchdogStopsLive,
       WatchdogTickLive, IdleRecoveryLive DEF Timer
  <2> QED BY <1>1, <2>1, <2>2, EstablishedLive, PhoneMessageLive, FailureLive,
             SetChannelConfigLive, BridgeFailsLive DEF Next
<1>3. policy' = policy /\ (left' = left \/ \E what \in {"failures", "connections", "changes"} :
        Spend(what))
  BY DEF Next, Established, Disconnect, CleanUp, PhoneMessage, Failure, Timer,
         SetChannelConfig, BridgeFails, VersionResponse, ServiceDiscovery, ControlMessage,
         VideoMessage, AudioMessage, InputMessage, SensorMessage, MicrophoneMessage,
         BluetoothMessage, WifiMessage, Conversation, Message, ReceiveFails, SendFails,
         NudgeFails, InputSendFails, RetryOver, GraceOver, MicDelayOver, WatchdogStops,
         WatchdogTick, IdleRecovery, Spend
<1>4. LeftOK'
  <2>1. CASE left' = left
    BY <1>1, <2>1 DEF LeftOK
  <2>2. ASSUME NEW what \in {"failures", "connections", "changes"}, Spend(what) PROVE LeftOK'
    <3>1. left[what] - 1 \in Nat
      BY <1>1, <2>2 DEF LeftOK, Spend
    <3> QED BY <1>1, <2>2, <3>1 DEF LeftOK, Spend
  <2> QED BY <1>3, <2>1, <2>2
<1>5. Live(policy, svc, {})'
  BY <1>2, <1>3 DEF Live, Sound, Synced, Calm, Watchable, IsReady, Reached, Orderly,
         Prompt, Listening, Awaited, Owed, PrimaryStarted
<1> QED BY <1>1, <1>3, <1>4, <1>5 DEF ChannelsInv

LEMMA ChannelsInvariance == Spec => []ChannelsInv
BY ChannelsStart, ChannelsStep, PTL DEF Spec

\* The types of the channels and of the milestones hold, whatever the policies, the
\* configurations and the bounds are.
THEOREM ChannelTypes == Spec => []TypeOK
<1>1. ChannelsInv => TypeOK
  BY DEF ChannelsInv, Live, Sound, LeftOK, TypeOK
<1> QED BY ChannelsInvariance, <1>1, PTL

\* Every handler that takes a milestone away, and every way of falling back, leaves the
\* idle watchdog running while a discovered projection is not ready.
THEOREM UnreadyIsWatched == Spec => []NotReadyIsWatched
<1>1. ChannelsInv => NotReadyIsWatched
  BY DEF ChannelsInv, Live, Sound, Synced, NotReadyIsWatched
<1> QED BY ChannelsInvariance, <1>1, PTL

\* projection_ready is withdrawn by every step that ends the readiness, until a
\* changed configuration asks for a new connection.
THEOREM AnnouncementIsTrue == Spec => []AnnouncedIsReady
<1>1. ChannelsInv => AnnouncedIsReady
  BY DEF ChannelsInv, Live, Sound, Synced, AnnouncedIsReady
<1> QED BY ChannelsInvariance, <1>1, PTL

\* No channel that the service has advertised is left without a receive: under every
\* policy, after every message, failure, retry and reconnection.
THEOREM AdvertisedAreHeard == Spec => []AdvertisedIsHeard
<1>1. ChannelsInv => AdvertisedIsHeard
  <2> SUFFICES ASSUME ChannelsInv, svc.conn,
                      NEW c \in {"control"} \cup
                          IF "discovery" \in svc.done THEN Offered(svc) ELSE {},
                      svc.handler[c] = "own", svc.rx[c] = "idle", c \notin svc.retry
               PROVE  \/ c \in Optional /\ ~svc.optionalArmed /\ ~policy.earlyOptional
                             /\ ~PrimaryStarted(svc)
                      \/ c = "microphone" /\ (svc.micTimer \/ ArmInitial)
    BY DEF AdvertisedIsHeard
  <2>1. /\ Orderly(policy, svc) /\ Prompt(policy, svc)
        /\ c \in Awaited(policy, svc) => c = "microphone" /\ svc.micTimer
    BY DEF ChannelsInv, Live, Sound, Calm, Listening, Owed
  <2>2. c \notin Awaited(policy, svc) => c \in NonControl /\ "discovery" \in svc.done
    BY DEF Awaited, Offered
  <2>3. CASE c \in Awaited(policy, svc)
    BY <2>1, <2>3
  <2>4. CASE c \notin Awaited(policy, svc) /\ policy.deferToDiscovery
    <3>1. c \in Optional /\ ~svc.optionalArmed
      BY <2>2, <2>4 DEF Awaited, NonControl
    <3> QED BY <2>1, <2>2, <2>4, <3>1 DEF Prompt
  <2>5. CASE c \notin Awaited(policy, svc) /\ ~policy.deferToDiscovery
    BY <2>1, <2>2, <2>5 DEF Awaited, Orderly, ArmInitial
  <2> QED BY <2>3, <2>4, <2>5
<1> QED BY ChannelsInvariance, <1>1, PTL

=============================================================================
