------------------------------ MODULE ApiClients ------------------------------
(***************************************************************************)
(* The clients of the WebSocket server: the contract they must agree to,   *)
(* their subscriptions, the events they are sent, and the H.264 parameter  *)
(* sets that the server keeps for those who come late.                     *)
(*                                                                         *)
(* told[c] is history: the connection state that client c was last told.   *)
(* So are foreign, unfollowed and phone: whose the cached parameter sets   *)
(* are, whether a signal was to clear them, and what the phone has sent.   *)
(* The Android Auto service the server is connected to is an environment   *)
(* that changes state and shows frames; what happens when it is replaced   *)
(* is module ProfileServices.                                              *)
(***************************************************************************)
EXTENDS Naturals, FiniteSets

CONSTANTS
    Client,         \* connections of clients, used once
    RequireHello,   \* core.websocket.client_contract.require_hello
    MaxEvents       \* bound: changes of the connection, and hellos

ASSUME ApiAssumption == RequireHello \in BOOLEAN /\ MaxEvents \in Nat

VARIABLE api

\* Topics stand for the topics of one kind, patterns for the subscriptions to them.
Topic == {"android-auto/status", "android-auto/media", "bluetooth"}
Pattern == {"*", "android-auto/*", "android-auto/media/*", "bluetooth/*", "android-auto"}

Phase == {"DISCONNECTED", "CONNECTED"}

ParameterSet == {"sps", "pps"}

Api ==
    [socket: [Client -> {"new", "open", "closing", "gone"}],   \* m_clients
     hello: SUBSET Client,                        \* m_clientHelloReceived
     subs: [Client -> SUBSET Pattern],            \* m_subscriptions
     told: [Client -> Phase \cup {"nothing"}],
     state: Phase,                                \* of the Android Auto service
     kept: SUBSET ParameterSet,                   \* m_h264ParameterSets
     foreign: BOOLEAN,                            \* they are of an earlier connection
     unfollowed: BOOLEAN,                         \* no `disconnected` was to clear them
     phone: {"none", "silent", "whole", "split"}, \* the sets in its last frame with any
     shown: {"nothing", "undecodable", "excused", "decodable"},   \* the last frame sent
     broadcasts: BOOLEAN,                         \* m_h264BroadcastCount is not 0
     left: 0..MaxEvents]

-----------------------------------------------------------------------------
(* Topics.                                                                 *)

\* topicMatches: a pattern matches itself, "*" everything, "p/*" and "p/#" what is below p.
TopicMatches(topic, pattern) ==
    \/ pattern = "*"
    \/ pattern = "android-auto/*" /\ topic \in {"android-auto/status", "android-auto/media"}
    \/ pattern = "android-auto/media/*" /\ topic = "android-auto/media"
    \/ pattern = "bluetooth/*" /\ topic = "bluetooth"

Subscribers(a, topic) ==
    {c \in Client : \E pattern \in a.subs[c] : TopicMatches(topic, pattern)}

\* broadcastEvent of a state; a socket that closes takes no more.
TellState(a) ==
    [a EXCEPT !.told = [c \in Client |->
        IF c \in Subscribers(a, "android-auto/status") /\ a.socket[c] = "open"
        THEN a.state ELSE @[c]]]

-----------------------------------------------------------------------------
(* Clients.                                                                *)

Connect(c) ==
    /\ api.socket[c] = "new"
    /\ api' = [api EXCEPT !.socket[c] = "open"]

\* onClientDisconnected
Leave(c) ==
    /\ api.socket[c] \in {"open", "closing"}
    /\ api' = [api EXCEPT !.socket[c] = "gone", !.hello = @ \ {c}, !.subs[c] = {},
                          !.told[c] = "nothing"]

\* evaluateClientHello looks at kind, protocol, version and capability: the reasons
\* to refuse are one here.
Hello(c) ==
    /\ api.socket[c] = "open" /\ api.left > 0
    /\ \/ api' = [api EXCEPT !.hello = @ \cup {c}, !.left = @ - 1]
       \/ api' = [api EXCEPT !.left = @ - 1, !.socket[c] = IF RequireHello THEN "closing" ELSE @]

ContractSatisfied(a, c) == RequireHello => c \in a.hello

\* mutant: the current state is sent before the subscription is entered
HandleSubscribe_TellsFirst(a, c, pattern) ==
    IF pattern \in a.subs[c] THEN a
    ELSE LET told == IF pattern \in {"android-auto/*", "android-auto/media/*", "android-auto"}
                     THEN TellState(a) ELSE a
         IN  [told EXCEPT !.subs[c] = @ \cup {pattern}]

\* handleSubscribe; with a topic of Android Auto every subscriber is told the state.
HandleSubscribe(a, c, pattern) ==
    IF pattern \in a.subs[c] THEN a
    ELSE LET entered == [a EXCEPT !.subs[c] = @ \cup {pattern}]
         IN  IF pattern \in {"android-auto/*", "android-auto/media/*", "android-auto"}
             THEN TellState(entered) ELSE entered

Subscribe(c) ==
    /\ api.socket[c] = "open" /\ ContractSatisfied(api, c)
    /\ \E pattern \in Pattern : api' = HandleSubscribe(api, c, pattern)

Unsubscribe(c) ==
    /\ api.socket[c] = "open" /\ ContractSatisfied(api, c)
    /\ \E pattern \in api.subs[c] :
           LET a == [api EXCEPT !.subs[c] = @ \ {pattern}]
           IN  api' = IF c \in Subscribers(a, "android-auto/status") THEN a
                      ELSE [a EXCEPT !.told[c] = "nothing"]

-----------------------------------------------------------------------------
(* Signals of the Android Auto service.                                    *)

\* A connection whose phone has sent nothing yet.
Began(a) == [a EXCEPT !.phone = "silent", !.foreign = a.kept # {}]

Connected ==
    /\ api.state = "DISCONNECTED" /\ api.left > 0
    /\ api' = TellState([Began(api) EXCEPT !.state = "CONNECTED", !.left = @ - 1])

\* mutant: the parameter sets are kept for the next connection
OnDisconnected_Keeps(a) == a

\* onAndroidAutoDisconnected
OnDisconnected(a) == [a EXCEPT !.kept = {}, !.foreign = FALSE, !.unfollowed = FALSE]

\* disconnect, which is all that emits `disconnected`
Disconnected ==
    /\ api.state = "CONNECTED"
    /\ api' = TellState(OnDisconnected([api EXCEPT !.state = "DISCONNECTED"]))

\* The service leaves CONNECTED by itself: connectToDevice, or a recovery that failed.
LeftSilently ==
    /\ api.state = "CONNECTED"
    /\ api' = TellState([api EXCEPT !.state = "DISCONNECTED", !.unfollowed = TRUE])

\* A phone is accepted over a connection that stands: no state changes.
Replaced ==
    /\ api.state = "CONNECTED" /\ api.left > 0
    /\ api' = [Began(api) EXCEPT !.unfollowed = TRUE, !.left = @ - 1]

\* What the server can do nothing about: a late frame of a connection that is over, a phone
\* that has not sent its sets or sent one of them alone, which takes the place of both;
\* and what it does nothing about: a connection that ended without `disconnected`.
Excused(a) ==
    \/ a.state # "CONNECTED"
    \/ a.phone = "silent" /\ a.kept = {}
    \/ a.phone = "split"
    \/ a.foreign /\ a.unfollowed

\* What a client that has just come can do with a frame: the cached sets precede one that
\* has none.
Quality(a, sets) ==
    LET carried == IF sets = {} THEN a.kept ELSE sets
    IN  IF carried = ParameterSet /\ (sets = {} => ~a.foreign) THEN "decodable"
        ELSE IF Excused(a) THEN "excused" ELSE "undecodable"

\* Sets are kept even when nobody watches, as they come: one alone replaces both.  After
\* `disconnected` nothing clears those of a late frame.
KeepSets(a, sets) ==
    IF sets = {} THEN a
    ELSE [a EXCEPT !.kept = sets, !.foreign = FALSE, !.unfollowed = a.state # "CONNECTED",
                   !.phone = IF sets = ParameterSet THEN "whole" ELSE "split"]

\* An encoded frame, with any of the parameter sets, also one that was on its way when the
\* connection ended.  It may come too soon after the last one and be dropped, except the
\* first ever.
EncodedFrame ==
    /\ api.phone # "none"
    /\ \E sets \in SUBSET ParameterSet, soon \in BOOLEAN :
           LET a == KeepSets(api, sets)
           IN  api' = IF \/ Subscribers(a, "android-auto/media") = {}
                         \/ soon /\ a.broadcasts
                      THEN a
                      ELSE [a EXCEPT !.broadcasts = TRUE, !.shown = Quality(a, sets)]

ApiInit ==
    api = [socket |-> [c \in Client |-> "new"], hello |-> {}, subs |-> [c \in Client |-> {}],
           told |-> [c \in Client |-> "nothing"], state |-> "DISCONNECTED",
           kept |-> {}, foreign |-> FALSE, unfollowed |-> FALSE, phone |-> "none",
           shown |-> "nothing", broadcasts |-> FALSE, left |-> MaxEvents]

ApiNext ==
    \/ \E c \in Client : Connect(c) \/ Leave(c) \/ Hello(c) \/ Subscribe(c) \/ Unsubscribe(c)
    \/ Connected \/ Disconnected \/ LeftSilently \/ Replaced \/ EncodedFrame

ApiSpec == ApiInit /\ [][ApiNext]_api

-----------------------------------------------------------------------------
(* Properties.                                                             *)

ApiTypeOK == api \in Api

\* Whoever has subscribed below android-auto knows the state of the connection,
\* however subscriptions, connections and other clients interleave, and only a
\* client that agreed to the contract is told anything.
SubscribersKnowState ==
    \A c \in Client :
        /\ "android-auto/*" \in api.subs[c] /\ api.socket[c] = "open" => api.told[c] = api.state
        /\ api.told[c] # "nothing" /\ RequireHello => c \in api.hello

\* A frame that is broadcast can be decoded by a client that has just come, and is not
\* preceded by the sets of another connection, whoever watches and whatever is dropped,
\* but for what Excused names.
FramesDecodable == api.shown # "undecodable"
=============================================================================
