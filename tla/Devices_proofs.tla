--------------------------- MODULE Devices_proofs ---------------------------
(***************************************************************************)
(* Proofs about the parts around the connection: the search for a phone    *)
(* over USB, the audio of a phone, the processes of extensions, and the    *)
(* settings that bound decoding and heat.                                  *)
(*                                                                         *)
(* Each part has a predicate on its record (SearchOK, AudioOK, ManagerOK,  *)
(* Good) that is inductive, one lemma per operator that keeps it, and one  *)
(* for the step.  A scan is a recursion over the devices; that it keeps    *)
(* the invariant is shown by the least device at which it would not.       *)
(***************************************************************************)
EXTENDS DeviceScan, AudioPath, ExtensionProcesses, AndroidAutoSettings,
        FiniteSetTheorems, WellFoundedInduction, TLAPS

\* Among some naturals there is a least one.
LEMMA LeastOfNaturals ==
  ASSUME NEW S \in SUBSET Nat, S # {}
  PROVE  \E x \in S : \A y \in S : x <= y
<1>1. PICK x \in S : \A y \in S : ~(<<y, x>> \in OpToRel(<, Nat))
  <2> DEFINE R == OpToRel(<, Nat)
  <2>1. IsWellFoundedOn(R, Nat)
    BY NatLessThanWellFounded
  <2> HIDE DEF R
  <2>2. \E x \in S : \A y \in S : ~(<<y, x>> \in R)
    BY <2>1, WFMin
  <2> QED BY <2>2 DEF R
<1>2. ASSUME NEW y \in S PROVE x <= y
  <2>1. ~(<<y, x>> \in {ss \in Nat \X Nat : ss[1] < ss[2]})
    BY <1>1 DEF OpToRel
  <2>2. x \in Nat /\ y \in Nat
    OBVIOUS
  <2>3. ~(y < x)
    BY <2>1, <2>2
  <2> QED BY <2>2, <2>3
<1> QED BY <1>2

-----------------------------------------------------------------------------
(* DeviceScan.                                                             *)

\* The parts of SearchGoesOn.
GoesOn(u) ==
  u.state = "SEARCHING" =>
      u.polling \/ u.resume \/ u.unopened \/ (u.inProgress /\ u.asked > 0)

\* The invariant of a search: no more answers and watchdogs are outstanding than there
\* were queries.
SearchOK(u) ==
  /\ u \in Usb /\ GoesOn(u)
  /\ u.asked <= u.queries
  /\ \A n \in 1..MaxAoapAttempts : u.watchdogs[n] <= u.queries

SearchInv == SearchOK(usb)

\* The loop of a scan: it asks one phone at most.
LoopOK(at) ==
  /\ at \in [u: Usb, over: BOOLEAN] /\ SearchOK(at.u)
  /\ at.over \/ at.u.inProgress \/ at.u.queries < MaxQueries

LEMMA ArmWindowOK ==
  ASSUME NEW u, SearchOK(u)
  PROVE  /\ SearchOK(ArmWindow(u))
         /\ ArmWindow(u).queries = u.queries /\ ArmWindow(u).inProgress = u.inProgress
BY DEF SearchOK, ArmWindow, GoesOn, Usb

\* An accessory that is opened ends the search, unless it could not be opened.
LEMMA OpenOK ==
  ASSUME NEW u, SearchOK(u), NEW opens \in BOOLEAN, NEW creates \in BOOLEAN
  PROVE  SearchOK(Open(u, opens, creates))
<1>1. 0 \in 0..MaxAoapAttempts
  BY DeviceScanAssumption
<1> QED BY <1>1 DEF SearchOK, Open, GoesOn, Usb

\* A query that runs is waited for; one that does not start leaves the timer on.
LEMMA QueryOK ==
  ASSUME NEW u, SearchOK(u), NEW start \in {"none", "throws", "runs"},
         u.attempts < MaxAoapAttempts, u.queries < MaxQueries
  PROVE  /\ SearchOK(Query(u, start))
         /\ Query(u, start).inProgress \/ Query(u, start).queries < MaxQueries
<1> DEFINE n == u.attempts + 1
           begun == [u EXCEPT !.attempts = @ + 1]
<1>0. /\ u \in Usb /\ u.attempts \in Nat /\ u.queries \in Nat /\ u.asked \in Nat
      /\ u.watchdogs \in [1..MaxAoapAttempts -> 0..MaxQueries]
      /\ MaxAoapAttempts \in Nat /\ MaxQueries \in Nat
  BY DeviceScanAssumption DEF SearchOK, Usb
<1>1. n \in 1..MaxAoapAttempts /\ n \in 0..MaxAoapAttempts
  BY <1>0
<1>2. begun \in Usb /\ begun.attempts = n
  BY <1>0, <1>1 DEF Usb
<1>3. SearchOK(begun) /\ begun.queries = u.queries
  BY <1>0, <1>2 DEF SearchOK, GoesOn, Usb
<1>4. CASE start = "none"
  BY <1>3, <1>4 DEF Query
<1>5. CASE start = "throws"
  <2> DEFINE kept == [GiveUp(begun) EXCEPT !.polling = TRUE]
  <2>1. SearchOK(kept) /\ kept.queries = u.queries
    BY <1>3 DEF SearchOK, GoesOn, GiveUp, Usb
  <2>2. Query(u, start) = ArmWindow(kept)
    BY <1>5 DEF Query
  <2> HIDE DEF kept
  <2> QED BY <2>1, <2>2, ArmWindowOK
<1>6. CASE start = "runs"
  <2> DEFINE running == [begun EXCEPT !.inProgress = TRUE, !.asked = @ + 1, !.polling = FALSE,
                             !.watchdogs[begun.attempts] = @ + 1, !.queries = @ + 1]
  <2>1. u.asked + 1 \in 0..MaxQueries /\ u.queries + 1 \in 0..MaxQueries
          /\ u.watchdogs[n] + 1 \in 0..MaxQueries
    <3>1. u.asked <= u.queries
      BY DEF SearchOK
    <3>2. u.watchdogs[n] \in 0..MaxQueries /\ u.watchdogs[n] <= u.queries
      BY <1>0, <1>1 DEF SearchOK
    <3>3. \A k, m \in Nat : k <= m /\ m < MaxQueries => k + 1 \in 0..MaxQueries
      BY <1>0
    <3>4. u.watchdogs[n] \in Nat /\ u.asked \in Nat /\ u.queries \in Nat
            /\ u.watchdogs[n] <= u.queries /\ u.asked <= u.queries /\ u.queries <= u.queries
      BY <1>0, <3>1, <3>2
    <3> HIDE DEF n, begun, running
    <3> QED BY <3>3, <3>4
  <2>2. /\ running.watchdogs = [u.watchdogs EXCEPT ![n] = @ + 1]
        /\ running.asked = u.asked + 1 /\ running.queries = u.queries + 1
        /\ running.inProgress /\ running.state = u.state
    BY <1>2, <1>0 DEF Usb
  <2>3. running \in Usb
    <3>1. [u.watchdogs EXCEPT ![n] = @ + 1] \in [1..MaxAoapAttempts -> 0..MaxQueries]
      BY <1>0, <1>1, <2>1
    <3> QED BY <1>2, <1>3, <2>1, <3>1 DEF Usb
  <2> HIDE DEF running
  <2>4. ASSUME NEW m \in 1..MaxAoapAttempts PROVE running.watchdogs[m] <= running.queries
    <3>1. u.watchdogs[m] \in 0..MaxQueries /\ u.watchdogs[m] <= u.queries
      BY <1>0 DEF SearchOK
    <3>2. running.watchdogs[m] = IF m = n THEN u.watchdogs[m] + 1 ELSE u.watchdogs[m]
      BY <1>0, <1>1, <2>2
    <3> HIDE DEF n, begun
    <3> QED BY <1>0, <2>2, <3>1, <3>2
  <2>5. running.asked <= running.queries /\ running.asked > 0
    BY <1>0, <2>2 DEF SearchOK
  <2>6. SearchOK(running)
    BY <2>2, <2>3, <2>4, <2>5 DEF SearchOK, GoesOn
  <2>7. Query(u, start) = ArmWindow(running)
    BY <1>6 DEF Query, running
  <2> QED BY <2>2, <2>6, <2>7, ArmWindowOK
<1> QED BY <1>4, <1>5, <1>6

\* One device of the loop.
LEMMA LookAtOK ==
  ASSUME NEW at, LoopOK(at), NEW d, NEW choice \in Choice
  PROVE  LoopOK(LookAt(at, d, choice))
<1>0. /\ choice.opens \in BOOLEAN /\ choice.creates \in BOOLEAN
      /\ choice.start \in {"none", "throws", "runs"}
      /\ at = [u |-> at.u, over |-> at.over] /\ SearchOK(at.u) /\ at.u \in Usb
  BY DEF Choice, LoopOK, SearchOK
<1>1. ASSUME NEW u, SearchOK(u) PROVE LoopOK([u |-> u, over |-> TRUE])
  BY <1>1 DEF LoopOK, SearchOK
<1>2. CASE at.over \/ ~IsCandidate(d)
  BY <1>2 DEF LookAt
<1>3. CASE ~at.over /\ IsCandidate(d) /\ d.accessory
  BY <1>0, <1>1, <1>3, OpenOK DEF LookAt
<1>4. CASE ~at.over /\ IsCandidate(d) /\ ~d.accessory /\ at.u.inProgress
  <2>1. LookAt(at, d, choice) = [u |-> at.u, over |-> TRUE]
    BY <1>0, <1>4 DEF LookAt
  <2> QED BY <1>0, <1>1, <2>1
<1>5. CASE /\ ~at.over /\ IsCandidate(d) /\ ~d.accessory /\ ~at.u.inProgress
           /\ at.u.attempts >= MaxAoapAttempts
  BY <1>0, <1>1, <1>5, ArmWindowOK DEF LookAt
<1>6. CASE /\ ~at.over /\ IsCandidate(d) /\ ~d.accessory /\ ~at.u.inProgress
           /\ ~(at.u.attempts >= MaxAoapAttempts)
  <2>1. at.u.attempts < MaxAoapAttempts /\ at.u.queries < MaxQueries
    BY <1>0, <1>6, DeviceScanAssumption DEF LoopOK, Usb
  <2>2. CASE choice.opens
    <3>1. LookAt(at, d, choice) =
            [u |-> Query(at.u, choice.start), over |-> choice.start = "none"]
      BY <1>6, <2>2 DEF LookAt
    <3>2. /\ SearchOK(Query(at.u, choice.start))
          /\ Query(at.u, choice.start).inProgress \/ Query(at.u, choice.start).queries < MaxQueries
      BY <1>0, <2>1, QueryOK
    <3> QED BY <3>1, <3>2 DEF LoopOK, SearchOK
  <2>3. CASE ~choice.opens
    BY <1>6, <2>3 DEF LookAt
  <2> QED BY <2>2, <2>3
<1> QED BY <1>2, <1>3, <1>4, <1>5, <1>6

\* The recursion of LookThrough, to the k-th device.
Seen(at, k, u, order, choices) ==
  at = [i \in 0..k |-> IF i = 0 THEN [u |-> u, over |-> FALSE]
                       ELSE LookAt(at[i - 1], order[i], choices[order[i]])]

\* It has a solution to any length.
LEMMA SeenExists ==
  ASSUME NEW u, NEW order, NEW choices
  PROVE  \A k \in Nat : \E at : Seen(at, k, u, order, choices)
<1> DEFINE T == {k \in Nat : ~\E at : Seen(at, k, u, order, choices)}
           Step(h, i) == IF i = 0 THEN [u |-> u, over |-> FALSE]
                         ELSE LookAt(h[i - 1], order[i], choices[order[i]])
<1>1. SUFFICES ASSUME T # {} PROVE FALSE
  OBVIOUS
<1>2. PICK k \in T : \A j \in T : k <= j
  <2>1. T \in SUBSET Nat
    OBVIOUS
  <2> HIDE DEF T
  <2> QED BY <1>1, <2>1, LeastOfNaturals
<1>3. k \in Nat /\ ~\E at : Seen(at, k, u, order, choices)
  BY <1>2
<1>4. k # 0
  <2>1. SUFFICES ASSUME k = 0 PROVE FALSE
    OBVIOUS
  <2> DEFINE f == [i \in 0..0 |-> [u |-> u, over |-> FALSE]]
  <2>2. Seen(f, 0, u, order, choices)
    <3>1. \A i \in 0..0 : i = 0
      OBVIOUS
    <3> QED BY <3>1 DEF Seen
  <2> QED BY <1>3, <2>1, <2>2
<1>5. k - 1 \in Nat /\ k - 1 \notin T
  BY <1>2, <1>3, <1>4
<1>6. PICK f : Seen(f, k - 1, u, order, choices)
  BY <1>5
<1> DEFINE g == [i \in 0..k |-> Step(f, i)]
<1>7. \A i \in 0..k - 1 : f[i] = Step(f, i)
  BY <1>6 DEF Seen
<1>8. \A i \in 0..k : i # 0 => g[i - 1] = f[i - 1]
  <2>1. SUFFICES ASSUME NEW i \in 0..k, i # 0 PROVE g[i - 1] = f[i - 1]
    OBVIOUS
  <2>2. i - 1 \in 0..k /\ i - 1 \in 0..k - 1
    BY <1>3, <2>1
  <2>3. g[i - 1] = Step(f, i - 1)
    <3> HIDE DEF Step
    <3> QED BY <2>2
  <2> QED BY <2>2, <2>3, <1>7
<1>9. g = [i \in 0..k |-> Step(g, i)]
  <2>1. \A i \in 0..k : Step(f, i) = Step(g, i)
    <3> HIDE DEF g
    <3> QED BY <1>8
  <2> HIDE DEF Step
  <2> QED BY <2>1
<1>10. Seen(g, k, u, order, choices)
  BY <1>9 DEF Seen
<1> QED BY <1>3, <1>10

\* What is attached can be counted.
LEMMA AttachedFinite ==
  ASSUME NEW s \in SUBSET {Phone, Accessory, Drive}
  PROVE  Cardinality(s) \in Nat
<1>1. IsFiniteSet({Phone}) /\ IsFiniteSet({Phone} \cup {Accessory})
  BY FS_EmptySet, FS_AddElement, FS_Singleton
<1>2. IsFiniteSet(({Phone} \cup {Accessory}) \cup {Drive})
  BY <1>1, FS_AddElement
<1>3. ({Phone} \cup {Accessory}) \cup {Drive} = {Phone, Accessory, Drive}
  OBVIOUS
<1>4. IsFiniteSet(s)
  BY <1>2, <1>3, FS_Subset
<1> QED BY <1>4, FS_CardinalityType

\* A whole scan, whatever the devices, their order and what comes of each.
LEMMA ScanOK ==
  ASSUME NEW u, SearchOK(u), u.queries < MaxQueries, NEW v \in Scan(u)
  PROVE  SearchOK(v)
<1>1. CASE u.state # "SEARCHING"
  BY <1>1 DEF Scan
<1>2. CASE u.state = "SEARCHING"
  <2>1. PICK order \in SetToSeqs(u.attached), choices \in [u.attached -> Choice] :
          v = LookThrough(u, order, choices)
    BY <1>2 DEF Scan
  <2> DEFINE n == Cardinality(u.attached)
             at == CHOOSE f : Seen(f, n, u, order, choices)
             Bad == {k \in 0..n : ~LoopOK(at[k])}
  <2>2. n \in Nat /\ order \in [1..n -> u.attached]
    BY <2>1, AttachedFinite DEF SetToSeqs, SearchOK, Usb
  <2>3. v = at[n].u
    BY <2>1 DEF LookThrough, Seen
  <2>4. Seen(at, n, u, order, choices)
    <3> HIDE DEF n
    <3> QED BY <2>2, SeenExists
  <2> HIDE DEF at
  <2>5. SUFFICES ASSUME Bad # {} PROVE FALSE
    BY <2>2, <2>3 DEF LoopOK
  <2>6. PICK k \in Bad : \A j \in Bad : k <= j
    <3>1. Bad \in SUBSET Nat
      OBVIOUS
    <3> HIDE DEF Bad
    <3> QED BY <2>5, <3>1, LeastOfNaturals
  <2>7. k \in 0..n /\ ~LoopOK(at[k])
    BY <2>6
  <2> HIDE DEF n
  <2>8. at[k] = IF k = 0 THEN [u |-> u, over |-> FALSE]
                ELSE LookAt(at[k - 1], order[k], choices[order[k]])
    BY <2>4, <2>7 DEF Seen
  <2>9. k # 0
    <3>1. LoopOK([u |-> u, over |-> FALSE])
      BY DEF LoopOK, SearchOK
    <3> QED BY <2>7, <2>8, <3>1
  <2>10. k - 1 \in 0..n /\ k \in 1..n
    BY <2>2, <2>7, <2>9
  <2>11. LoopOK(at[k - 1])
    BY <2>2, <2>6, <2>7, <2>10
  <2>12. choices[order[k]] \in Choice
    BY <2>2, <2>10
  <2>13. LoopOK(LookAt(at[k - 1], order[k], choices[order[k]]))
    BY <2>11, <2>12, LookAtOK
  <2> QED BY <2>7, <2>8, <2>9, <2>13
<1> QED BY <1>1, <1>2

LEMMA SearchStep == SearchInv /\ [UsbNext]_usb => SearchInv'
<1> SUFFICES ASSUME SearchOK(usb), UsbNext PROVE SearchOK(usb')
  BY DEF SearchInv
<1>0. /\ usb \in Usb /\ 0 \in 0..MaxAoapAttempts /\ 0 \in 0..MaxQueries
      /\ MaxAoapAttempts \in Nat /\ MaxQueries \in Nat
      /\ usb.asked \in 0..MaxQueries /\ usb.queries \in 0..MaxQueries
      /\ usb.watchdogs \in [1..MaxAoapAttempts -> 0..MaxQueries]
  BY DeviceScanAssumption DEF SearchOK, Usb
<1>1. CASE StartUsbSearch
  BY <1>1 DEF StartUsbSearch, SearchOK, GoesOn, Usb
<1>2. CASE TimedScan
  <2> DEFINE u == [usb EXCEPT !.scans = FALSE]
  <2>1. SearchOK(u) /\ u.queries < MaxQueries
    BY <1>2 DEF TimedScan, CanQuery, SearchOK, GoesOn, Usb
  <2>2. usb' \in Scan(u)
    BY <1>2 DEF TimedScan
  <2> HIDE DEF u
  <2> QED BY <2>1, <2>2, ScanOK
<1>3. CASE HubFindsDevice
  <2> DEFINE kept == [usb EXCEPT !.hub = FALSE]
  <2>1. SearchOK(kept)
    BY DEF SearchOK, GoesOn, Usb
  <2>2. PICK d \in usb.attached, creates \in BOOLEAN :
          LET u == IF d.accessory THEN Open(kept, TRUE, creates) ELSE kept
          IN  usb' = IF u.state = "CONNECTED" THEN u
                     ELSE [u EXCEPT !.polling = TRUE, !.scans = TRUE, !.unopened = usb.unopened]
    BY <1>3 DEF HubFindsDevice
  <2> DEFINE u == IF d.accessory THEN Open(kept, TRUE, creates) ELSE kept
  <2>3. SearchOK(u)
    BY <2>1, OpenOK
  <2> HIDE DEF u
  <2>4. SearchOK([u EXCEPT !.polling = TRUE, !.scans = TRUE, !.unopened = usb.unopened])
    BY <1>0, <2>3 DEF SearchOK, GoesOn, Usb
  <2>5. usb' \in {u, [u EXCEPT !.polling = TRUE, !.scans = TRUE, !.unopened = usb.unopened]}
    BY <2>2 DEF u
  <2> QED BY <2>3, <2>4, <2>5
<1>4. CASE HubFails
  BY <1>4 DEF HubFails, SearchOK, GoesOn, Usb
<1>5. CASE ResumeOver
  BY <1>5 DEF ResumeOver, SearchOK, GoesOn, Usb
<1>6. ASSUME usb.asked > 0
      PROVE  /\ usb.asked - 1 \in 0..MaxQueries /\ usb.asked - 1 <= usb.queries
  BY <1>0, <1>6 DEF SearchOK
<1>7. CASE QuerySucceeds
  BY <1>0, <1>6, <1>7 DEF QuerySucceeds, Resume, GiveUp, SearchOK, GoesOn, Usb
<1>8. CASE QueryFails
  BY <1>0, <1>6, <1>8 DEF QueryFails, Resume, ArmWindow, GiveUp, SearchOK, GoesOn, Usb
<1>9. CASE QueryTimesOut
  <2>1. PICK n \in 1..MaxAoapAttempts :
          /\ usb.watchdogs[n] > 0
          /\ LET u == [usb EXCEPT !.watchdogs[n] = @ - 1]
             IN  usb' = IF u.inProgress /\ u.attempts = n /\ u.state = "SEARCHING"
                        THEN [ArmWindow(GiveUp(u)) EXCEPT !.polling = TRUE] ELSE u
    BY <1>9 DEF QueryTimesOut
  <2> DEFINE u == [usb EXCEPT !.watchdogs[n] = @ - 1]
  <2>2. usb.watchdogs[n] - 1 \in 0..MaxQueries /\ usb.watchdogs[n] - 1 <= usb.queries
    BY <1>0, <2>1 DEF SearchOK
  <2>3. [usb.watchdogs EXCEPT ![n] = @ - 1] \in [1..MaxAoapAttempts -> 0..MaxQueries]
    BY <1>0, <2>2
  <2>4. u \in Usb /\ u.watchdogs = [usb.watchdogs EXCEPT ![n] = @ - 1]
    BY <1>0, <2>3 DEF Usb
  <2>5. \A m \in 1..MaxAoapAttempts : u.watchdogs[m] <= usb.queries
    BY <1>0, <2>2, <2>4 DEF SearchOK
  <2>6. SearchOK(u)
    BY <1>0, <2>4, <2>5 DEF SearchOK, GoesOn, Usb
  <2>7. usb' \in {u, [ArmWindow(GiveUp(u)) EXCEPT !.polling = TRUE]}
    BY <2>1
  <2> HIDE DEF u
  <2>8. SearchOK([ArmWindow(GiveUp(u)) EXCEPT !.polling = TRUE])
    BY <2>6 DEF ArmWindow, GiveUp, SearchOK, GoesOn, Usb
  <2> QED BY <2>6, <2>7, <2>8
<1>10. CASE WindowOver
  BY <1>0, <1>10 DEF WindowOver, SearchOK, GoesOn, Usb
<1>11. CASE Dropped
  BY <1>11 DEF Dropped, SearchOK, GoesOn, Usb
<1>12. CASE Recovered
  <2>1. PICK asked \in {usb.asked, 0} :
          usb' = [GiveUp(usb) EXCEPT !.state = "DISCONNECTED", !.polling = FALSE,
                                     !.hub = FALSE, !.attempts = 0, !.asked = asked]
    BY <1>12 DEF Recovered
  <2>2. asked \in 0..MaxQueries /\ asked <= usb.queries
    BY <1>0 DEF SearchOK
  <2> QED BY <1>0, <2>1, <2>2 DEF GiveUp, SearchOK, GoesOn, Usb
<1>13. CASE SearchStopped
  BY <1>13 DEF SearchStopped, SearchOK, GoesOn, Usb
<1>14. CASE Plugged
  BY <1>14 DEF Plugged, SearchOK, GoesOn, Usb
<1> QED BY <1>1, <1>2, <1>3, <1>4, <1>5, <1>7, <1>8, <1>9, <1>10, <1>11, <1>12, <1>13, <1>14
        DEF UsbNext

LEMMA SearchStart == UsbInit => SearchInv
<1> SUFFICES ASSUME UsbInit PROVE SearchOK(usb)
  BY DEF SearchInv
<1>1. [n \in 1..MaxAoapAttempts |-> 0] \in [1..MaxAoapAttempts -> 0..MaxQueries]
  BY DeviceScanAssumption
<1> QED BY <1>1, DeviceScanAssumption DEF UsbInit, SearchOK, GoesOn, Usb

\* The types of a search hold, for any lists of vendors and any number of attempts.
THEOREM SearchTypes == UsbSpec => []UsbTypeOK
<1>1. SearchInv => UsbTypeOK
  BY DEF SearchInv, SearchOK, UsbTypeOK
<1> QED BY SearchStart, SearchStep, <1>1, PTL DEF UsbSpec

\* A search goes on whatever devices checkForConnectedDevices finds and in whatever order
\* queries are answered, fail and time out, unless an accessory could not be opened.
THEOREM SearchIsAlive == UsbSpec => []SearchGoesOn
<1>1. SearchInv => SearchGoesOn
  BY DEF SearchInv, SearchOK, GoesOn, SearchGoesOn
<1> QED BY SearchStart, SearchStep, <1>1, PTL DEF UsbSpec

-----------------------------------------------------------------------------
(* AudioPath.                                                              *)

\* The invariant of the audio path: without a mixer nothing is buffered, and what is
\* buffered has been left by a buffer that ended inside a frame (m_channels, buffer).
AudioOK(a) ==
  /\ a \in Audio
  /\ ~a.mixer => a.buffer = NoData
  /\ ~a.ragged => a.buffer = NoData

AudioInv == AudioOK(audio)

\* The least of some naturals is one of them (std::min over the buffers).
LEMMA MinOfNaturals ==
  ASSUME NEW S \in SUBSET Nat, S # {}
  PROVE  Min(S) \in S /\ \A n \in S : Min(S) <= n
<1>1. \E n \in S : \A m \in S : n <= m
  BY LeastOfNaturals
<1> QED BY <1>1 DEF Min

\* Whole frames of a length (mixed, in mixBuffers).
Whole(n) == (n \div Frame) * Frame

LEMMA WholeFrames ==
  ASSUME NEW n \in Nat
  PROVE  Whole(n) \in 0..n /\ (n % Frame = 0 => Whole(n) = n)
BY DEF Whole, Frame

\* Mixing takes no more from a stream than it has.
LEMMA MixTyped ==
  ASSUME NEW a \in Audio
  PROVE  /\ MixBuffers(a) \in Audio
         /\ \E buffer \in [Stream -> 0..MaxBuffered], active \in SUBSET Stream :
                MixBuffers(a) = [a EXCEPT !.buffer = buffer, !.active = active]
<1> DEFINE full == {s \in a.active : a.buffer[s] > 0}
           lengths == {a.buffer[s] : s \in full}
           mixed == (Min(lengths) \div Frame) * Frame
           taken == {s \in a.active : a.buffer[s] >= mixed}
           left == [s \in Stream |-> IF s \in taken THEN a.buffer[s] - mixed ELSE a.buffer[s]]
           active == {s \in a.active : s \in taken => left[s] > 0}
<1>1. a.buffer \in [Stream -> 0..MaxBuffered] /\ a.active \in SUBSET Stream
  BY DEF Audio
<1>2. CASE full = {}
  <2>1. MixBuffers(a) = a
    BY <1>2 DEF MixBuffers
  <2>2. a = [a EXCEPT !.buffer = a.buffer, !.active = a.active]
    BY DEF Audio
  <2> QED BY <1>1, <2>1, <2>2
<1>3. CASE full # {}
  <2>1. lengths \in SUBSET Nat /\ lengths # {}
    BY <1>1, <1>3, AudioAssumption
  <2>2. Min(lengths) \in Nat
    <3> HIDE DEF lengths
    <3> QED BY <2>1, MinOfNaturals
  <2>3. mixed \in Nat
    <3> HIDE DEF lengths
    <3> QED BY <2>2 DEF Frame
  <2> HIDE DEF mixed
  <2>4. left \in [Stream -> 0..MaxBuffered]
    BY <1>1, <2>3, AudioAssumption
  <2>5. active \in SUBSET Stream
    BY <1>1
  <2>6. MixBuffers(a) = a \/ MixBuffers(a) = [a EXCEPT !.buffer = left, !.active = active]
    BY DEF MixBuffers, mixed
  <2>7. a = [a EXCEPT !.buffer = a.buffer, !.active = a.active]
    BY DEF Audio
  <2> HIDE DEF left, active
  <2>8. [a EXCEPT !.buffer = left, !.active = active] \in Audio
    BY <2>4, <2>5 DEF Audio
  <2> QED BY <1>1, <2>4, <2>5, <2>6, <2>7, <2>8
<1> QED BY <1>2, <1>3

\* Whole frames that come to empty buffers are mixed at once.
LEMMA MixEmpties ==
  ASSUME NEW a \in Audio, NEW s \in a.active, NEW n \in 1..MaxBuffered, n % Frame = 0,
         a.buffer = [NoData EXCEPT ![s] = n]
  PROVE  MixBuffers(a).buffer = NoData
<1> DEFINE full == {t \in a.active : a.buffer[t] > 0}
           lengths == {a.buffer[t] : t \in full}
           mixed == (Min(lengths) \div Frame) * Frame
           taken == {t \in a.active : a.buffer[t] >= mixed}
           left == [t \in Stream |-> IF t \in taken THEN a.buffer[t] - mixed ELSE a.buffer[t]]
<1>1. a.active \in SUBSET Stream /\ n \in Nat /\ n > 0
  BY AudioAssumption DEF Audio
<1>2. \A t \in Stream : a.buffer[t] = IF t = s THEN n ELSE 0
  BY <1>1 DEF NoData
<1>3. full = {s}
  BY <1>1, <1>2
<1>4. lengths = {n}
  BY <1>1, <1>2, <1>3
<1>5. Min(lengths) = n
  <2> HIDE DEF lengths
  <2>1. lengths \in SUBSET Nat /\ lengths # {}
    BY <1>1, <1>4
  <2> QED BY <1>4, <2>1, MinOfNaturals
<1>6. mixed = n
  <2> HIDE DEF lengths
  <2> QED BY <1>1, <1>5, WholeFrames DEF Whole
<1> HIDE DEF mixed
<1>7. left = NoData
  BY <1>1, <1>2, <1>6 DEF NoData
<1>8. MixBuffers(a).buffer = left
  BY <1>1, <1>3, <1>6 DEF MixBuffers, mixed, Audio
<1> QED BY <1>7, <1>8

\* Routing a buffer leaves the mixer as it is.
LEMMA RoutedTyped ==
  ASSUME NEW a \in Audio, NEW s \in Stream
  PROVE  LET r == RouteToVehicle(a, s)
         IN  /\ r \in Audio
             /\ r.mixer = a.mixer /\ r.buffer = a.buffer
             /\ r.active = a.active /\ r.ragged = a.ragged
BY DEF RouteToVehicle, RouteAudioFrame, EnsureReady, Audio

LEMMA AudioDataOK ==
  ASSUME AudioOK(audio), NEW s \in Stream, AudioData(s)
  PROVE  AudioOK(audio')
<1>1. PICK n \in 1..MaxBuffered : /\ s # "media" => n % Frame = 0
                                  /\ audio.buffer[s] + n <= MaxBuffered
                                  /\ audio' = MixAudioData(RouteToVehicle(audio, s), s, n)
  BY DEF AudioData
<1> DEFINE r == RouteToVehicle(audio, s)
           b == [r EXCEPT !.buffer[s] = @ + n, !.active = @ \cup {s},
                          !.ragged = @ \/ n % Frame # 0]
<1>2. /\ r \in Audio /\ r.mixer = audio.mixer /\ r.buffer = audio.buffer
      /\ r.active = audio.active /\ r.ragged = audio.ragged
  BY RoutedTyped DEF AudioOK
<1> HIDE DEF r
<1>3. CASE ~r.mixer
  <2>1. audio' = r
    BY <1>1, <1>3 DEF MixAudioData, r
  <2> QED BY <1>2, <2>1 DEF AudioOK
<1>4. CASE r.mixer
  <2>1. audio' = MixBuffers(b)
    BY <1>1, <1>4 DEF MixAudioData, r
  <2>2. b \in Audio
    <3>1. n \in Nat /\ r.buffer \in [Stream -> 0..MaxBuffered] /\ r.buffer[s] + n <= MaxBuffered
      BY <1>1, <1>2, AudioAssumption DEF Audio
    <3>2. r.buffer[s] + n \in 0..MaxBuffered
      BY <3>1, AudioAssumption
    <3>3. [r.buffer EXCEPT ![s] = @ + n] \in [Stream -> 0..MaxBuffered]
      BY <3>1, <3>2
    <3> QED BY <1>2, <3>3 DEF Audio
  <2>3. b.mixer /\ b.active = r.active \cup {s} /\ b.buffer = [r.buffer EXCEPT ![s] = @ + n]
          /\ b.ragged = (r.ragged \/ n % Frame # 0)
    BY <1>2, <1>4 DEF Audio
  <2> HIDE DEF b
  <2>4. audio' \in Audio /\ audio'.mixer /\ audio'.ragged = b.ragged
    <3>1. PICK buffer, active : MixBuffers(b) = [b EXCEPT !.buffer = buffer, !.active = active]
      BY <2>2, MixTyped
    <3> QED BY <2>1, <2>2, <2>3, <3>1, MixTyped DEF Audio
  <2>5. CASE b.ragged
    BY <2>4, <2>5 DEF AudioOK
  <2>6. CASE ~b.ragged
    <3>1. n % Frame = 0 /\ ~audio.ragged
      BY <1>2, <2>3, <2>6
    <3>2. r.buffer = NoData
      BY <1>2, <3>1 DEF AudioOK
    <3>3. b.buffer = [NoData EXCEPT ![s] = n]
      BY <2>3, <3>2, AudioAssumption DEF NoData
    <3>4. audio'.buffer = NoData
      BY <2>1, <2>2, <2>3, <3>1, <3>3, MixEmpties
    <3> QED BY <2>4, <3>4 DEF AudioOK
  <2> QED BY <2>5, <2>6
<1> QED BY <1>3, <1>4

LEMMA AudioStep ==
  ASSUME AudioOK(audio), AudioNext
  PROVE  AudioOK(audio')
<1>0. NoData \in [Stream -> 0..MaxBuffered]
  BY AudioAssumption DEF NoData
<1>1. ASSUME NEW s \in Stream, AudioData(s) PROVE AudioOK(audio')
  BY <1>1, AudioDataOK
<1>2. CASE MixerMade
  BY <1>2 DEF MixerMade, AudioOK, Audio
<1>3. CASE MixerGone
  BY <1>0, <1>3 DEF MixerGone, AudioOK, Audio
<1>4. CASE GuidanceStartsOrStops
  BY <1>4 DEF GuidanceStartsOrStops, AudioOK, Audio
<1>5. CASE DaemonComesOrGoes
  BY <1>5 DEF DaemonComesOrGoes, AudioOK, Audio
<1>6. CASE RetryIntervalOver
  BY <1>6 DEF RetryIntervalOver, AudioOK, Audio
<1> QED BY <1>1, <1>2, <1>3, <1>4, <1>5, <1>6 DEF AudioNext

LEMMA AudioStart == AudioInit => AudioOK(audio)
<1>1. NoData \in [Stream -> 0..MaxBuffered]
  BY AudioAssumption DEF NoData
<1> QED BY <1>1 DEF AudioInit, AudioOK, Audio, EnsureReady

\* The types of the audio path hold, for buffers of any length.
THEOREM AudioTypes == AudioSpec => []AudioTypeOK
<1>1. AudioInit => AudioInv
  BY AudioStart DEF AudioInv
<1>2. AudioInv /\ [AudioNext]_audio => AudioInv'
  BY AudioStep DEF AudioInv
<1>3. AudioInv => AudioTypeOK
  BY DEF AudioInv, AudioOK, AudioTypeOK
<1> QED BY <1>1, <1>2, <1>3, PTL DEF AudioSpec

\* Whole frames are mixed when they come, for any order of the streams and any length of
\* the buffers: nothing waits in mixAudioData for another stream.
THEOREM AudioHeardAtOnce == AudioSpec => []HeardAtOnce
<1>1. AudioInit => AudioInv
  BY AudioStart DEF AudioInv
<1>2. AudioInv /\ [AudioNext]_audio => AudioInv'
  BY AudioStep DEF AudioInv
<1>3. AudioInv => HeardAtOnce
  BY DEF AudioInv, AudioOK, HeardAtOnce
<1> QED BY <1>1, <1>2, <1>3, PTL DEF AudioSpec

-----------------------------------------------------------------------------
(* ExtensionProcesses.                                                     *)

OwnOf(e, x) == {p \in Process : e.owner[p] = x}

\* The two maps of an extension agree (the parts of RunningIsRecorded).
Recorded(e, x) ==
  /\ x \in e.running => x \in e.installed
  /\ OwnOf(e, x) = IF x \in e.running THEN {e.processes[x]} ELSE {}
  /\ (e.processes[x] # 0) <=> (x \in e.running)

\* The invariant of the manager.  Even an extension that was forgotten has no
\* process that does not know it, and processes are not known before they start.
ManagerOK(e) ==
  /\ e \in Extensions
  /\ \A p \in Process : e.owner[p] # "none" => p <= e.started
  /\ \A x \in Extension : e.processes[x] # 0 => e.owner[e.processes[x]] = x
  /\ \A x \in e.running : e.processes[x] # 0
  /\ \A x \in Extension \ e.forgotten : Recorded(e, x)

ManagerInv == ManagerOK(exts)

\* A core that starts knows of no process.
LEMMA FreshCoreOK ==
  ASSUME NEW e, ManagerOK(e), NEW f \in FreshCore(e)
  PROVE  ManagerOK(f) /\ f.running = {}
<1>1. PICK found \in SUBSET e.installed :
        f = [e EXCEPT !.installed = found, !.running = {},
                      !.processes = [x \in Extension |-> 0],
                      !.owner = [p \in Process |-> "none"], !.forgotten = {}]
  BY DEF FreshCore
<1>2. /\ f.processes = [x \in Extension |-> 0] /\ f.owner = [p \in Process |-> "none"]
      /\ f.running = {} /\ f.forgotten = {} /\ f.started = e.started
  BY <1>1 DEF ManagerOK, Extensions
<1>3. f \in Extensions
  <2>1. [x \in Extension |-> 0] \in [Extension -> 0..MaxProcesses]
    BY ExtensionAssumption
  <2>2. [p \in Process |-> "none"] \in [Process -> Extension \cup {"none"}]
    OBVIOUS
  <2>3. found \in SUBSET Extension
    BY DEF ManagerOK, Extensions
  <2> QED BY <1>1, <2>1, <2>2, <2>3 DEF ManagerOK, Extensions
<1>4. \A x \in Extension : OwnOf(f, x) = {}
  BY <1>2, ExtensionAssumption DEF OwnOf
<1> QED BY <1>2, <1>3, <1>4 DEF ManagerOK, Recorded

\* The processes of the operating system are no business of the invariant.
LEMMA AliveOK ==
  ASSUME NEW e, ManagerOK(e), NEW alive \in SUBSET Process
  PROVE  ManagerOK([e EXCEPT !.alive = alive])
BY DEF ManagerOK, Extensions, Recorded, OwnOf

\* The end of a process that is known is recorded in both maps.
LEMMA FinishedOK ==
  ASSUME NEW e, ManagerOK(e), NEW p \in Process, e.owner[p] # "none"
  PROVE  /\ ManagerOK(OnProcessFinished(e, p))
         /\ e.owner[p] \notin OnProcessFinished(e, p).running
<1> DEFINE x == e.owner[p]
           r == e.processes[x]
           f == OnProcessFinished(e, p)
           gone == {p, r}
<1>1. x \in Extension /\ r \in 0..MaxProcesses
  BY DEF ManagerOK, Extensions
<1>2. /\ f.running = e.running \ {x} /\ f.processes = [e.processes EXCEPT ![x] = 0]
      /\ f.owner = [q \in Process |-> IF q \in gone THEN "none" ELSE e.owner[q]]
      /\ f.installed = e.installed /\ f.forgotten = e.forgotten /\ f.started = e.started
      /\ f.alive = e.alive \ {r}
  BY DEF OnProcessFinished, ManagerOK, Extensions
<1>3. f \in Extensions
  <2>1. [e.processes EXCEPT ![x] = 0] \in [Extension -> 0..MaxProcesses]
    BY <1>1, ExtensionAssumption DEF ManagerOK, Extensions
  <2>2. [q \in Process |-> IF q \in gone THEN "none" ELSE e.owner[q]]
          \in [Process -> Extension \cup {"none"}]
    BY DEF ManagerOK, Extensions
  <2>3. e.running \ {x} \in SUBSET Extension /\ e.alive \ {r} \in SUBSET Process
    BY DEF ManagerOK, Extensions
  <2>4. f = [e EXCEPT !.running = @ \ {x}, !.processes = [@ EXCEPT ![x] = 0],
                      !.alive = @ \ {r},
                      !.owner = [q \in Process |-> IF q \in gone THEN "none" ELSE @[q]]]
    BY DEF OnProcessFinished, ManagerOK, Extensions
  <2> HIDE DEF x, r, gone, f
  <2> QED BY <2>1, <2>2, <2>3, <2>4 DEF ManagerOK, Extensions
<1>4. r # 0 => e.owner[r] = x
  BY <1>1 DEF ManagerOK
<1> HIDE DEF f
<1>5. \A q \in Process : f.owner[q] # "none" => q <= f.started
  BY <1>2 DEF ManagerOK
<1>6. ASSUME NEW y \in Extension, y # x PROVE OwnOf(f, y) = OwnOf(e, y)
  <2>1. \A q \in Process : q \in gone => e.owner[q] = x
    BY <1>4, ExtensionAssumption DEF Process
  <2>2. \A q \in Process : f.owner[q] = y <=> e.owner[q] = y
    BY <1>2, <1>6, <2>1, ExtensionAssumption
  <2> QED BY <2>2 DEF OwnOf
<1>7. ASSUME NEW y \in Extension, f.processes[y] # 0 PROVE f.owner[f.processes[y]] = y
  <2>1. y # x /\ f.processes[y] = e.processes[y]
    BY <1>1, <1>2, <1>7 DEF ManagerOK, Extensions
  <2>2. e.processes[y] \in Process /\ e.owner[e.processes[y]] = y
    BY <1>7, <2>1, ExtensionAssumption DEF ManagerOK, Extensions, Process
  <2>3. e.processes[y] \in OwnOf(f, y)
    BY <1>6, <2>1, <2>2 DEF OwnOf
  <2> QED BY <2>1, <2>3 DEF OwnOf
<1>8. \A y \in f.running : f.processes[y] # 0
  BY <1>1, <1>2 DEF ManagerOK, Extensions
<1>9. ASSUME NEW y \in Extension \ f.forgotten PROVE Recorded(f, y)
  <2>1. Recorded(e, y)
    BY <1>2, <1>9 DEF ManagerOK
  <2>2. CASE y # x
    <3>1. f.processes[y] = e.processes[y] /\ (y \in f.running <=> y \in e.running)
      BY <1>1, <1>2, <2>2 DEF ManagerOK, Extensions
    <3> QED BY <1>2, <1>6, <2>1, <2>2, <3>1 DEF Recorded
  <2>3. CASE y = x
    <3>1. p \in OwnOf(e, x)
      BY DEF OwnOf
    <3>2. OwnOf(e, x) = {p} /\ r = p
      BY <2>1, <2>3, <3>1 DEF Recorded
    <3>3. OwnOf(f, x) = {}
      BY <1>1, <1>2, <3>2, ExtensionAssumption DEF OwnOf
    <3>4. f.processes[x] = 0 /\ x \notin f.running
      BY <1>1, <1>2 DEF ManagerOK, Extensions
    <3> QED BY <2>3, <3>3, <3>4 DEF Recorded
  <2> QED BY <2>2, <2>3
<1> QED BY <1>2, <1>3, <1>5, <1>7, <1>8, <1>9 DEF ManagerOK, f

\* Of an extension that is forgotten nothing else changes.
LEMMA ForgottenOK ==
  ASSUME NEW e, ManagerOK(e), NEW x \in Extension
  PROVE  ManagerOK(Forgotten(e, x)) /\ x \notin Forgotten(e, x).running
<1> DEFINE f == Forgotten(e, x)
<1>1. /\ f.installed = e.installed /\ f.running = e.running \ {x}
      /\ f.processes = e.processes /\ f.owner = e.owner /\ f.started = e.started
      /\ f.forgotten = IF x \in e.running THEN e.forgotten \cup {x} ELSE e.forgotten
  BY DEF Forgotten, ManagerOK, Extensions
<1>2. f \in Extensions
  BY DEF Forgotten, ManagerOK, Extensions
<1> HIDE DEF f
<1>3. ASSUME NEW y \in Extension \ f.forgotten PROVE Recorded(f, y)
  <2>1. Recorded(e, y) /\ (y \in f.running <=> y \in e.running)
    BY <1>1, <1>3 DEF ManagerOK
  <2> QED BY <1>1, <2>1 DEF Recorded, OwnOf
<1>4. ManagerOK(f) /\ x \notin f.running
  BY <1>1, <1>2, <1>3 DEF ManagerOK
<1> QED BY <1>4 DEF f

LEMMA ToldOK ==
  ASSUME NEW e, ManagerOK(e), NEW p \in Process, e.owner[p] # "none", NEW f \in Told(e, p)
  PROVE  ManagerOK(f) /\ e.owner[p] \notin f.running
BY FinishedOK, FreshCoreOK DEF Told

\* An extension that was stopped does not run.
LEMMA StopOK ==
  ASSUME NEW e, ManagerOK(e), NEW x \in Extension, NEW f \in Stop(e, x)
  PROVE  ManagerOK(f) /\ x \notin f.running
<1>1. CASE x \notin e.running
  BY <1>1 DEF Stop
<1>2. CASE x \in e.running
  <2> DEFINE p == e.processes[x]
             g == [e EXCEPT !.alive = @ \ {p}]
  <2>1. p \in Process /\ e.owner[p] = x
    BY <1>2, ExtensionAssumption DEF ManagerOK, Extensions, Process
  <2>2. ManagerOK(g) /\ g.owner = e.owner
    <3>1. e.alive \ {p} \in SUBSET Process
      BY DEF ManagerOK, Extensions
    <3> QED BY <3>1, AliveOK DEF ManagerOK, Extensions
  <2>3. f \in Told(g, p) \/ f = Forgotten(e, x)
    BY <1>2 DEF Stop
  <2> HIDE DEF g, p
  <2> QED BY <2>1, <2>2, <2>3, ToldOK, ForgottenOK, ExtensionAssumption
<1> QED BY <1>1, <1>2

\* A process that starts is recorded in both maps.
LEMMA StartedOK ==
  ASSUME NEW e, ManagerOK(e), NEW x \in Extension, CanStart(e, x)
  PROVE  ManagerOK(Started(e, x))
<1> DEFINE p == e.started + 1
           f == Started(e, x)
<1>1. p \in Process /\ e.started \in Nat /\ x \in e.installed /\ x \notin e.running
  BY ExtensionAssumption DEF CanStart, ManagerOK, Extensions, Process
<1>2. /\ f.running = e.running \cup {x} /\ f.processes = [e.processes EXCEPT ![x] = p]
      /\ f.owner = [e.owner EXCEPT ![p] = x] /\ f.started = p
      /\ f.installed = e.installed /\ f.forgotten = e.forgotten
  BY DEF Started, ManagerOK, Extensions
<1>3. f \in Extensions
  <2>1. p \in 0..MaxProcesses
    BY <1>1 DEF Process
  <2>2. [e.processes EXCEPT ![x] = p] \in [Extension -> 0..MaxProcesses]
    BY <2>1 DEF ManagerOK, Extensions
  <2>3. [e.owner EXCEPT ![p] = x] \in [Process -> Extension \cup {"none"}]
    BY <1>1 DEF ManagerOK, Extensions
  <2>4. e.running \cup {x} \in SUBSET Extension /\ e.alive \cup {p} \in SUBSET Process
    BY <1>1 DEF ManagerOK, Extensions
  <2>5. f = [e EXCEPT !.running = @ \cup {x}, !.processes = [@ EXCEPT ![x] = p],
                      !.owner = [@ EXCEPT ![p] = x], !.alive = @ \cup {p}, !.started = p]
    BY DEF Started, ManagerOK, Extensions
  <2> HIDE DEF p, f
  <2> QED BY <2>1, <2>2, <2>3, <2>4, <2>5 DEF ManagerOK, Extensions
<1>4. e.owner[p] = "none"
  BY <1>1 DEF ManagerOK, Process
<1>5. /\ e.owner \in [Process -> Extension \cup {"none"}]
      /\ e.processes \in [Extension -> 0..MaxProcesses]
  BY DEF ManagerOK, Extensions
<1>6. p # 0
  BY <1>1
<1> HIDE DEF f, p
<1>7. \A q \in Process : f.owner[q] # "none" => q <= f.started
  BY <1>1, <1>2, <1>5, ExtensionAssumption DEF ManagerOK, Process, p
<1>8. ASSUME NEW y \in Extension, y # x PROVE OwnOf(f, y) = OwnOf(e, y)
  BY <1>1, <1>2, <1>4, <1>5, <1>8, ExtensionAssumption DEF OwnOf
<1>9. ASSUME NEW y \in Extension, f.processes[y] # 0 PROVE f.owner[f.processes[y]] = y
  <2>1. CASE y = x
    BY <1>1, <1>2, <1>5, <2>1
  <2>2. CASE y # x
    <3>1. f.processes[y] = e.processes[y] /\ e.processes[y] \in Process
      BY <1>2, <1>5, <1>9, <2>2, ExtensionAssumption DEF Process
    <3>2. e.processes[y] \in OwnOf(e, y)
      BY <1>9, <3>1 DEF ManagerOK, OwnOf
    <3>3. e.processes[y] \in OwnOf(f, y)
      BY <1>8, <2>2, <3>2
    <3> QED BY <3>1, <3>3 DEF OwnOf
  <2> QED BY <2>1, <2>2
<1>10. \A y \in f.running : f.processes[y] # 0
  BY <1>2, <1>5, <1>6 DEF ManagerOK, Extensions
<1>11. ASSUME NEW y \in Extension \ f.forgotten PROVE Recorded(f, y)
  <2>1. Recorded(e, y)
    BY <1>2, <1>11 DEF ManagerOK
  <2>2. CASE y # x
    <3>1. f.processes[y] = e.processes[y] /\ (y \in f.running <=> y \in e.running)
      BY <1>2, <1>5, <2>2
    <3> QED BY <1>2, <1>8, <2>1, <2>2, <3>1 DEF Recorded
  <2>3. CASE y = x
    <3>1. OwnOf(e, x) = {}
      BY <1>1, <2>1, <2>3 DEF Recorded
    <3>2. OwnOf(f, x) = {p}
      BY <1>1, <1>2, <1>5, <3>1 DEF OwnOf
    <3> QED BY <1>1, <1>2, <1>5, <1>6, <2>3, <3>2 DEF Recorded
  <2> QED BY <2>2, <2>3
<1> QED BY <1>3, <1>7, <1>9, <1>10, <1>11 DEF ManagerOK, f

\* What every operation on an extension keeps.
LEMMA OperationOK ==
  ASSUME ManagerOK(exts), NEW x \in Extension,
         Install(x) \/ Start(x) \/ StopExtension(x) \/ RestartExtension(x) \/ Uninstall(x)
  PROVE  ManagerOK(exts')
<1>1. CASE Install(x)
  <2> DEFINE f == Forgotten(exts, x)
  <2>1. exts' = [f EXCEPT !.installed = @ \cup {x}]
    BY <1>1 DEF Install
  <2>2. ManagerOK(f)
    BY ForgottenOK
  <2> HIDE DEF f
  <2> QED BY <2>1, <2>2 DEF ManagerOK, Extensions, Recorded, OwnOf
<1>2. CASE Start(x)
  BY <1>2, StartedOK DEF Start
<1>3. CASE StopExtension(x)
  BY <1>3, StopOK DEF StopExtension
<1>4. CASE RestartExtension(x)
  <2>1. PICK e \in Stop(exts, x) : exts' = e \/ (CanStart(e, x) /\ exts' = Started(e, x))
    BY <1>4 DEF RestartExtension
  <2>2. ManagerOK(e)
    BY StopOK
  <2> QED BY <2>1, <2>2, StartedOK
<1>5. CASE Uninstall(x)
  <2>1. PICK e \in Stop(exts, x) : exts' \in {e, [e EXCEPT !.installed = @ \ {x}]}
    BY <1>5 DEF Uninstall
  <2>2. ManagerOK(e) /\ x \notin e.running
    BY StopOK
  <2>3. ManagerOK([e EXCEPT !.installed = @ \ {x}])
    BY <2>2 DEF ManagerOK, Extensions, Recorded, OwnOf
  <2> QED BY <2>1, <2>2, <2>3
<1> QED BY <1>1, <1>2, <1>3, <1>4, <1>5

LEMMA ManagerStep == ManagerInv /\ [ExtensionNext]_exts => ManagerInv'
<1> SUFFICES ASSUME ManagerOK(exts), ExtensionNext PROVE ManagerOK(exts')
  BY DEF ManagerInv
<1>1. CASE ProcessEnds
  <2>1. PICK p \in exts.alive : exts' = [exts EXCEPT !.alive = @ \ {p}]
    BY <1>1 DEF ProcessEnds
  <2>2. exts.alive \ {p} \in SUBSET Process
    BY DEF ManagerOK, Extensions
  <2> QED BY <2>1, <2>2, AliveOK
<1>2. CASE HearOfEnd
  BY <1>2, ToldOK DEF HearOfEnd
<1>3. CASE CoreRestarts
  <2>1. PICK alive \in SUBSET exts.alive : exts' \in FreshCore([exts EXCEPT !.alive = alive])
    BY <1>3 DEF CoreRestarts
  <2>2. alive \in SUBSET Process
    BY DEF ManagerOK, Extensions
  <2> QED BY <2>1, <2>2, AliveOK, FreshCoreOK
<1> QED BY <1>1, <1>2, <1>3, OperationOK DEF ExtensionNext

LEMMA ManagerStart == ExtensionInit => ManagerInv
<1> SUFFICES ASSUME ExtensionInit PROVE ManagerOK(exts)
  BY DEF ManagerInv
<1>1. exts \in Extensions
  BY ExtensionAssumption DEF ExtensionInit, Extensions
<1>2. \A x \in Extension : OwnOf(exts, x) = {}
  <2>1. \A p \in Process : exts.owner[p] = "none"
    BY DEF ExtensionInit
  <2> QED BY <2>1, ExtensionAssumption DEF OwnOf
<1> QED BY <1>1, <1>2 DEF ExtensionInit, ManagerOK, Recorded

\* The types of the extension manager hold, for any set of extensions.
THEOREM ExtensionTypes == ExtensionSpec => []ExtensionTypeOK
<1>1. ManagerInv => ExtensionTypeOK
  BY DEF ManagerInv, ManagerOK, ExtensionTypeOK
<1> QED BY ManagerStart, ManagerStep, <1>1, PTL DEF ExtensionSpec

\* Whatever dies, is updated or restarted meanwhile: an extension marked as running has
\* the one process that both maps of ExtensionManager record for it, and no other has one,
\* except for those whose record an update replaced while they ran.
THEOREM ProcessesAreRecorded == ExtensionSpec => []RunningIsRecorded
<1>1. ManagerInv => RunningIsRecorded
  BY DEF ManagerInv, ManagerOK, RunningIsRecorded, Recorded, OwnOf
<1> QED BY ManagerStart, ManagerStep, <1>1, PTL DEF ExtensionSpec

-----------------------------------------------------------------------------
(* AndroidAutoSettings.                                                    *)

\* The least and the greatest of two numbers (std::min, std::max).
LEMMA MinOfTwo ==
  ASSUME NEW a \in Int, NEW b \in Int
  PROVE  Min({a, b}) = IF a <= b THEN a ELSE b
<1> DEFINE m == IF a <= b THEN a ELSE b
<1>1. m \in {a, b} /\ \A y \in {a, b} : m <= y
  OBVIOUS
<1>2. \A x \in {a, b} : (\A y \in {a, b} : x <= y) => x = m
  OBVIOUS
<1> QED BY <1>1, <1>2 DEF Min

LEMMA MaxOfTwo ==
  ASSUME NEW a \in Int, NEW b \in Int
  PROVE  Max({a, b}) = IF a >= b THEN a ELSE b
<1> DEFINE m == IF a >= b THEN a ELSE b
<1>1. m \in {a, b} /\ \A y \in {a, b} : m >= y
  OBVIOUS
<1>2. \A x \in {a, b} : (\A y \in {a, b} : x >= y) => x = m
  OBVIOUS
<1> QED BY <1>1, <1>2 DEF Max

\* A clamped value lies between its bounds.
LEMMA Clamped ==
  ASSUME NEW v \in Int, NEW lo \in Int, NEW hi \in Int, lo <= hi
  PROVE  Clamp(v, lo, hi) \in lo..hi
BY DEF Clamp

\* A key, given or not, resolves to a value between its bounds.
LEMMA Resolved ==
  ASSUME NEW values \in SUBSET Int, NEW given \in Given(values),
         NEW lo \in Int, NEW hi \in Int, NEW default \in lo..hi
  PROVE  Resolve(given, default, lo, hi) \in lo..hi
<1>1. given = <<>> \/ Head(given) \in Int
  <2>1. CASE given = <<>>
    BY <2>1
  <2>2. CASE \E v \in values : given = <<v>>
    BY <2>2
  <2>3. CASE \E v \in values, w \in values : given = <<v, w>>
    BY <2>3
  <2> QED BY <2>1, <2>2, <2>3 DEF Given
<1>2. lo <= hi /\ default \in Int
  OBVIOUS
<1> QED BY <1>1, <1>2, Clamped DEF Resolve

\* What the repaired groups of keys satisfy (the parts of SettingsConsistent).
CapsOrdered(c) == c.floor < c.soft /\ (c.soft < c.hard \/ (c.soft = 12 /\ c.hard = 12))
DepthOrdered(d) == d.least <= d.nominal /\ d.nominal <= d.most

\* The repairs of the frame limits do not undo one another.
LEMMA FrameLimits ==
  ASSUME NEW a \in Given(Frames), NEW b \in Given(Frames), NEW c \in Given(Frames)
  PROVE  CapsOrdered(Caps(a, b, c)) /\ DepthOrdered(Depth(a, b, c))
<1> USE SettingsAssumption
<1>1. CapsOrdered(Caps(a, b, c))
  <2> DEFINE s == Resolve(a, 3, 1, 12)
             h == Resolve(b, 6, 1, 12)
             f == Resolve(c, 2, 0, 10)
  <2>1. s \in 1..12 /\ h \in 1..12 /\ f \in 0..10
    BY Resolved
  <2> HIDE DEF s, h, f
  <2>2. Min({12, s + 1}) = (IF 12 <= s + 1 THEN 12 ELSE s + 1)
    BY <2>1, MinOfTwo
  <2>3. Max({0, s - 1}) = (IF 0 >= s - 1 THEN 0 ELSE s - 1)
    BY <2>1, MaxOfTwo
  <2>4. Caps(a, b, c) = [soft |-> s, hard |-> IF s >= h THEN Min({12, s + 1}) ELSE h,
                         floor |-> IF f >= s THEN Max({0, s - 1}) ELSE f]
    BY DEF Caps, s, h, f
  <2> QED BY <2>1, <2>2, <2>3, <2>4 DEF CapsOrdered
<1>2. DepthOrdered(Depth(a, b, c))
  <2> DEFINE n == Resolve(a, 2, 1, 8)
             x == Resolve(b, 1, 1, 8)
             y == Resolve(c, 4, 1, 12)
  <2>1. n \in 1..8 /\ x \in 1..8 /\ y \in 1..12
    BY Resolved
  <2> HIDE DEF n, x, y
  <2>2. /\ Min({x, y}) = (IF x <= y THEN x ELSE y)
        /\ Max({x, y}) = (IF x >= y THEN x ELSE y)
    BY <2>1, MinOfTwo, MaxOfTwo
  <2>3. Clamp(n, Min({x, y}), Max({x, y})) \in Min({x, y})..Max({x, y})
    <3>1. n \in Int /\ Min({x, y}) \in Int /\ Max({x, y}) \in Int /\ Min({x, y}) <= Max({x, y})
      BY <2>1, <2>2
    <3> QED BY <3>1, Clamped
  <2>4. Depth(a, b, c) = [least |-> Min({x, y}), most |-> Max({x, y}),
                          nominal |-> Clamp(n, Min({x, y}), Max({x, y}))]
    BY DEF Depth, n, x, y
  <2> QED BY <2>2, <2>3, <2>4 DEF DepthOrdered
<1> QED BY <1>1, <1>2

\* A step of throttling is not larger than the most there may be.
LEMMA ThrottleLimits ==
  ASSUME NEW a \in Given(Percents), NEW b \in Given(Percents)
  PROVE  Throttle(a, b).step <= Throttle(a, b).most
<1> DEFINE s == Resolve(a, 10, 1, 90)
           m == Resolve(b, 70, 1, 95)
<1>1. s \in 1..90 /\ m \in 1..95
  BY Resolved, SettingsAssumption
<1> HIDE DEF s, m
<1>2. Min({s, m}) = (IF s <= m THEN s ELSE m)
  BY <1>1, MinOfTwo
<1>3. Throttle(a, b) = [step |-> Min({s, m}), most |-> m]
  BY DEF Throttle, s, m
<1> QED BY <1>1, <1>2, <1>3

\* Heat that has triggered a level can clear it.
LEMMA ThermalLimits ==
  ASSUME NEW a \in Given(Degrees), NEW b \in Given(Degrees)
  PROVE  Thermal(a, b).clear < Thermal(a, b).trigger
<1> DEFINE t == Resolve(a, 75, 45, 95)
           c == Resolve(b, 72, 40, 90)
<1>1. t \in 45..95 /\ c \in 40..90
  BY Resolved, SettingsAssumption
<1> HIDE DEF t, c
<1>2. Max({40, t - 3}) = (IF 40 >= t - 3 THEN 40 ELSE t - 3)
  BY <1>1, MaxOfTwo
<1>3. Thermal(a, b) = [trigger |-> t, clear |-> IF c >= t THEN Max({40, t - 3}) ELSE c]
  BY DEF Thermal, t, c
<1> QED BY <1>1, <1>2, <1>3

\* The defaults are what nothing at all is resolved to.
LEMMA DefaultsConsistent ==
  /\ CapsOrdered(Defaults.caps) /\ DepthOrdered(Defaults.depth)
  /\ Defaults.throttle.step <= Defaults.throttle.most
  /\ Defaults.thermal.clear < Defaults.thermal.trigger
<1>1. \A values : <<>> \in Given(values)
  BY DEF Given
<1> QED BY <1>1, FrameLimits, ThrottleLimits, ThermalLimits DEF Defaults

\* Whatever is configured, the limits that are compared with one another keep their
\* order (resolveDecodeControlConfig, resolveThermalControlConfig).
THEOREM SettingsAreConsistent == SettingsSpec => []SettingsConsistent
<1> DEFINE Good(s) == /\ CapsOrdered(s.caps) /\ DepthOrdered(s.depth)
                      /\ s.throttle.step <= s.throttle.most
                      /\ s.thermal.clear < s.thermal.trigger
<1>1. Good(settings) <=> SettingsConsistent
  BY DEF SettingsConsistent, CapsOrdered, DepthOrdered
<1>2. SettingsInit => Good(settings)
  BY DefaultsConsistent DEF SettingsInit
<1>3. Good(settings) /\ [SettingsNext]_settings => Good(settings)'
  <2> SUFFICES ASSUME Good(settings), [SettingsNext]_settings
               PROVE  Good(settings')
    OBVIOUS
  <2>0. \E d, e, f, g : Defaults = [caps |-> d, depth |-> e, throttle |-> f, thermal |-> g]
    BY DEF Defaults
  <2>1. CASE settings = Defaults /\ ConfigureFrames
    BY <2>0, <2>1, DefaultsConsistent, FrameLimits DEF ConfigureFrames
  <2>2. CASE settings = Defaults /\ ConfigureThrottle
    BY <2>0, <2>2, DefaultsConsistent, ThrottleLimits DEF ConfigureThrottle
  <2>3. CASE settings = Defaults /\ ConfigureThermal
    BY <2>0, <2>3, DefaultsConsistent, ThermalLimits DEF ConfigureThermal
  <2>4. CASE UNCHANGED settings
    BY <2>4
  <2> QED BY <2>1, <2>2, <2>3, <2>4 DEF SettingsNext
<1> HIDE DEF Good
<1> QED BY <1>1, <1>2, <1>3, PTL DEF SettingsSpec
=============================================================================
