----------------------------- MODULE DeviceScan -----------------------------
(***************************************************************************)
(* The search for a phone over USB, in detail: the scans of the detection  *)
(* timer and of the hub, which devices they take for a phone, and the AOAP *)
(* queries that switch a phone to accessory mode, with their attempts,     *)
(* watchdogs and retry window.  AndroidAutoLink models what comes of it    *)
(* (polling, HubReported, ScanFoundDevice).                                *)
(*                                                                         *)
(* unopened is history: a scan of this search stopped the detection timer  *)
(* for an accessory that could then not be opened.                         *)
(***************************************************************************)
EXTENDS Naturals, FiniteSets, Sequences, SequencesExt

CONSTANTS
    AllowList, DenyList,    \* vendors: core.android_auto.usb.vendor_..._list
    MaxAoapAttempts,        \* m_aoapMaxAttempts
    MaxQueries              \* bound: queries, whose watchdogs may all be pending

ASSUME DeviceScanAssumption ==
    /\ AllowList \subseteq {"google", "maker"} /\ DenyList \subseteq {"google", "maker"}
    /\ MaxAoapAttempts \in Nat \ {0} /\ MaxQueries \in Nat

VARIABLE usb

UsbDevice ==
    [vendor: {"google", "maker"},
     accessory: BOOLEAN,                \* its product id is one of AOAP
     androidLike: BOOLEAN]              \* an interface of ADB, MTP, PTP or RNDIS

\* What can be attached: a phone, before and after the switch, and something else.
Phone == [vendor |-> "maker", accessory |-> FALSE, androidLike |-> TRUE]
Accessory == [vendor |-> "google", accessory |-> TRUE, androidLike |-> FALSE]
Drive == [vendor |-> "maker", accessory |-> FALSE, androidLike |-> FALSE]

Usb ==
    [state: {"DISCONNECTED", "SEARCHING", "CONNECTED"},
     attached: SUBSET {Phone, Accessory, Drive},
     hub: BOOLEAN,                      \* the promise of this search is not resolved
     polling: BOOLEAN,                  \* m_deviceDetectionTimer is active
     scans: BOOLEAN,                    \* a single scan is due: initial or after the hub
     resume: BOOLEAN,                   \* a timer will start the detection timer again
     inProgress: BOOLEAN,               \* m_aoapInProgress
     attempts: 0..MaxAoapAttempts,      \* m_aoapAttempts
     asked: 0..MaxQueries,              \* queries that may still be answered
     watchdogs: [1..MaxAoapAttempts -> 0..MaxQueries],   \* pending, by attempt
     window: BOOLEAN,                   \* m_aoapRetryResetTimer is active
     unopened: BOOLEAN, queries: 0..MaxQueries]

-----------------------------------------------------------------------------
(* Candidates.                                                             *)

IsCandidate(d) ==
    /\ d.accessory \/ d.vendor = "google" \/ d.vendor \in AllowList \/ d.androidLike
    /\ d.vendor \notin DenyList
    /\ AllowList # {} => d.vendor \in AllowList \/ d.accessory

-----------------------------------------------------------------------------
(* Queries.                                                                *)

\* armAoapRetryResetWindowIfNeeded
ArmWindow(u) == IF u.attempts < MaxAoapAttempts THEN u ELSE [u EXCEPT !.window = TRUE]

\* A query that is given up is not cancelled: its answer may come all the same.
GiveUp(u) == [u EXCEPT !.inProgress = FALSE]

\* An accessory: it is opened and the connection established.  The timer is stopped
\* before the device is opened, and a query under way is not given up.
Open(u, opens, creates) ==
    IF ~opens THEN u
    ELSE LET stopped == [u EXCEPT !.inProgress = FALSE, !.attempts = 0, !.window = FALSE,
                                  !.polling = FALSE]
         IN  IF creates THEN [stopped EXCEPT !.state = "CONNECTED"]
             ELSE [stopped EXCEPT !.unopened = TRUE]

\* A phone in its normal mode is asked to switch.  The timer stops for the query,
\* unless the query cannot be started.
Query(u, start) ==
    LET begun == [u EXCEPT !.attempts = @ + 1]
    IN  CASE start = "none" -> begun
          [] start = "throws" -> ArmWindow([GiveUp(begun) EXCEPT !.polling = TRUE])
          [] start = "runs" ->
                ArmWindow([begun EXCEPT !.inProgress = TRUE, !.asked = @ + 1, !.polling = FALSE,
                               !.watchdogs[begun.attempts] = @ + 1, !.queries = @ + 1])

\* One device in the loop of checkForConnectedDevices; over says that it has returned.
LookAt(at, d, choice) ==
    IF at.over \/ ~IsCandidate(d) THEN at
    ELSE IF d.accessory
    THEN [u |-> Open(at.u, choice.opens, choice.creates), over |-> TRUE]
    ELSE IF at.u.inProgress THEN [at EXCEPT !.over = TRUE]
    ELSE IF at.u.attempts >= MaxAoapAttempts THEN [u |-> ArmWindow(at.u), over |-> TRUE]
    ELSE IF choice.opens
    THEN [u |-> Query(at.u, choice.start), over |-> choice.start = "none"]
    ELSE at

Choice == [opens: BOOLEAN, creates: BOOLEAN, start: {"none", "throws", "runs"}]

\* The loop of checkForConnectedDevices over the devices in this order.
LookThrough(u, order, choices) ==
    LET n == Cardinality(u.attached)
        at[i \in 0..n] == IF i = 0 THEN [u |-> u, over |-> FALSE]
                           ELSE LookAt(at[i - 1], order[i], choices[order[i]])
    IN  at[n].u

\* checkForConnectedDevices, with the devices in any order.
Scan(u) ==
    IF u.state # "SEARCHING" THEN {u}
    ELSE {LookThrough(u, order, choices) :
              order \in SetToSeqs(u.attached), choices \in [u.attached -> Choice]}

-----------------------------------------------------------------------------
(* Searching.                                                              *)

\* startSearching and startUSBHubDetection.
StartUsbSearch ==
    /\ usb.state = "DISCONNECTED"
    /\ usb' = [usb EXCEPT !.state = "SEARCHING", !.hub = TRUE, !.polling = TRUE,
                          !.scans = TRUE, !.unopened = FALSE]

CanQuery == usb.queries < MaxQueries

\* The detection timer, or a single scan.
TimedScan ==
    CanQuery /\ (usb.polling \/ usb.scans) /\ usb' \in Scan([usb EXCEPT !.scans = FALSE])

\* The promise of the hub, kept by a device that was attached.  The lists of vendors
\* are not asked; if the accessory cannot be opened the timer is started again.
HubFindsDevice ==
    /\ usb.hub /\ usb.state = "SEARCHING"
    /\ LET kept == [usb EXCEPT !.hub = FALSE]
       IN  \E d \in usb.attached, creates \in BOOLEAN :
               LET u == IF d.accessory THEN Open(kept, TRUE, creates) ELSE kept
               IN  usb' = IF u.state = "CONNECTED" THEN u
                          ELSE [u EXCEPT !.polling = TRUE, !.scans = TRUE,
                                         !.unopened = usb.unopened]

HubFails == usb.hub /\ usb.state = "SEARCHING" /\ usb' = [usb EXCEPT !.hub = FALSE]

ResumeOver ==
    /\ usb.resume
    /\ usb' = [usb EXCEPT !.resume = FALSE, !.polling = @ \/ usb.state = "SEARCHING"]

\* mutant: a phone that was asked too often is not looked for again
Resume_WhileAttempts(u) ==
    IF u.state = "SEARCHING" /\ u.attempts < MaxAoapAttempts THEN [u EXCEPT !.resume = TRUE] ELSE u

\* The detection timer starts again two seconds after a query that was answered.
Resume(u) == IF u.state = "SEARCHING" THEN [u EXCEPT !.resume = TRUE] ELSE u

\* The answer of a query, the current one or one that was given up before it: both end
\* the query that is in progress.
QuerySucceeds ==
    /\ usb.asked > 0
    /\ usb' = Resume([GiveUp(usb) EXCEPT !.asked = @ - 1, !.attempts = 0, !.window = FALSE])

QueryFails ==
    usb.asked > 0 /\ usb' = Resume(ArmWindow([GiveUp(usb) EXCEPT !.asked = @ - 1]))

\* The watchdog of an attempt.  It knows its query by the number of the attempt.
QueryTimesOut ==
    \E n \in 1..MaxAoapAttempts :
        /\ usb.watchdogs[n] > 0
        /\ LET u == [usb EXCEPT !.watchdogs[n] = @ - 1]
           IN  usb' = IF u.inProgress /\ u.attempts = n /\ u.state = "SEARCHING"
                      THEN [ArmWindow(GiveUp(u)) EXCEPT !.polling = TRUE] ELSE u

WindowOver == usb.window /\ usb' = [usb EXCEPT !.window = FALSE, !.attempts = 0]

-----------------------------------------------------------------------------
(* The end of a search or a connection.                                    *)

\* disconnect, which leaves the search as it is.
Dropped == usb.state = "CONNECTED" /\ usb' = [usb EXCEPT !.state = "DISCONNECTED"]

\* A recovery, or the end of the service, clears what the search has left; if the stack
\* is torn down the answers are lost.
Recovered ==
    \E asked \in {usb.asked, 0} :
        usb' = [GiveUp(usb) EXCEPT !.state = "DISCONNECTED", !.polling = FALSE,
                                   !.hub = FALSE, !.attempts = 0, !.asked = asked]

\* stopSearching
SearchStopped ==
    /\ usb.state = "SEARCHING"
    /\ usb' = [usb EXCEPT !.state = "DISCONNECTED", !.polling = FALSE, !.hub = FALSE]

Plugged ==
    \E attached \in SUBSET {Phone, Accessory, Drive} :
        /\ attached # usb.attached /\ ~({Phone, Accessory} \subseteq attached)
        /\ usb' = [usb EXCEPT !.attached = attached]

UsbInit ==
    usb = [state |-> "DISCONNECTED", attached |-> {}, hub |-> FALSE, polling |-> FALSE,
           scans |-> FALSE, resume |-> FALSE, inProgress |-> FALSE, attempts |-> 0,
           asked |-> 0, watchdogs |-> [n \in 1..MaxAoapAttempts |-> 0], window |-> FALSE,
           unopened |-> FALSE, queries |-> 0]

UsbNext ==
    \/ StartUsbSearch \/ TimedScan \/ HubFindsDevice \/ HubFails \/ ResumeOver
    \/ QuerySucceeds \/ QueryFails \/ QueryTimesOut \/ WindowOver
    \/ Dropped \/ Recovered \/ SearchStopped \/ Plugged

UsbSpec == UsbInit /\ [][UsbNext]_usb

-----------------------------------------------------------------------------
(* Properties.                                                             *)

UsbTypeOK == usb \in Usb

\* A search goes on: it polls, will poll, or waits for the answer to a query, except
\* after an accessory that could not be opened.  The timer is stopped and started in
\* many places, some of them by a query that was given up long ago; a search that
\* nothing moves would find no phone any more.
SearchGoesOn ==
    usb.state = "SEARCHING" =>
        usb.polling \/ usb.resume \/ usb.unopened \/ (usb.inProgress /\ usb.asked > 0)
=============================================================================
