-------------------------- MODULE Wireless_proofs --------------------------
(***************************************************************************)
(* Proofs about Bluetooth and WiFi: that a discovery has a timer to end    *)
(* it, and that an instance of WiFiHAL knows the hotspot it has left in    *)
(* NetworkManager.                                                         *)
(*                                                                         *)
(* The inductive invariants are DiscoveryOK and HotspotOK.  The second     *)
(* adds to the property that the ids of profiles are told apart, so that   *)
(* deleting one deletes no other.                                          *)
(***************************************************************************)
EXTENDS BluetoothScan, WirelessHotspot, TLAPS

-----------------------------------------------------------------------------
(* BluetoothScan.                                                          *)

\* The invariant: BlueZ searches only with a timer, unless a stop was missed.
Timed(s) == s.radio => s.missed \/ (s.timer /\ s.cached # 0)
DiscoveryOK(s) == s \in Bluetooth /\ Timed(s)

DiscoveryInv == DiscoveryOK(scan)

\* What a discovery is, for BlueZ and the timer.
SameDiscovery(s, t) ==
  /\ t.radio = s.radio /\ t.missed = s.missed /\ t.timer = s.timer /\ t.cached = s.cached

LEMMA SameIsTimed ==
  ASSUME NEW s, DiscoveryOK(s), NEW t \in Bluetooth, SameDiscovery(s, t)
  PROVE  DiscoveryOK(t)
BY DEF DiscoveryOK, Timed, SameDiscovery

\* The values that a manager begins with are values of its fields.
LEMMA ScanValues ==
  /\ 0 \in 0..MaxManagers /\ 0 \in 0..MaxReplies
  /\ {} \in SUBSET Device /\ "none" \in Device \cup {"none"}
BY ScanAssumption

\* A manager that is made.
LEMMA NewManagerOK ==
  ASSUME NEW s \in Bluetooth, s.made < MaxManagers
  PROVE  /\ NewManager(s) \in Bluetooth /\ SameDiscovery(s, NewManager(s))
         /\ NewManager(s).manager # 0
<1>1. s.made + 1 \in 0..MaxManagers /\ s.made + 1 # 0
  BY ScanAssumption DEF Bluetooth
<1> DEFINE m == s.made + 1
<1>2. NewManager(s) =
        [s EXCEPT !.manager = m, !.made = m, !.subscribed = s.adapter,
                  !.discovering = FALSE, !.replies = 0, !.listed = {}, !.asked = {},
                  !.connectedDevice = "none", !.news = FALSE]
  BY DEF NewManager
<1> HIDE DEF m
<1>3. m \in 0..MaxManagers /\ m # 0
  BY <1>1 DEF m
<1>4. NewManager(s) \in Bluetooth
  BY <1>2, <1>3, ScanValues DEF Bluetooth
<1>5. SameDiscovery(s, NewManager(s)) /\ NewManager(s).manager = m
  BY <1>2 DEF SameDiscovery, Bluetooth
<1> QED BY <1>3, <1>4, <1>5

\* A command finds a manager, and a discovery as it was.
LEMMA ForCommandOK ==
  ASSUME DiscoveryOK(scan), NEW s \in ForCommand
  PROVE  DiscoveryOK(s) /\ s.manager # 0
<1>1. CASE scan.manager # 0
  BY <1>1 DEF ForCommand
<1>2. CASE scan.manager = 0
  <2>1. scan.made < MaxManagers /\ s = NewManager(scan) /\ scan \in Bluetooth
    BY <1>2 DEF ForCommand, DiscoveryOK
  <2> QED BY <2>1, NewManagerOK, SameIsTimed
<1> QED BY <1>1, <1>2

LEMMA UpdateDeviceListOK ==
  ASSUME NEW s, DiscoveryOK(s)
  PROVE  DiscoveryOK(UpdateDeviceList(s))
BY DEF DiscoveryOK, Timed, UpdateDeviceList, Bluetooth

\* After a stop BlueZ does not search, or has missed it.
LEMMA StopDiscoveryOK ==
  ASSUME NEW s \in Bluetooth, NEW t \in StopDiscovery(s)
  PROVE  DiscoveryOK(t)
<1>1. CASE t = [s EXCEPT !.missed = s.radio]
  BY <1>1 DEF DiscoveryOK, Timed, Bluetooth
<1>2. CASE t = [s EXCEPT !.radio = FALSE, !.discovering = FALSE]
  BY <1>2 DEF DiscoveryOK, Timed, Bluetooth
<1> QED BY <1>1, <1>2 DEF StopDiscovery

LEMMA ScanRequestOK ==
  ASSUME DiscoveryOK(scan), ScanRequest
  PROVE  DiscoveryOK(scan')
<1>1. PICK s \in ForCommand :
        /\ s.replies < MaxReplies
        /\ scan' = IF s.adapter
                   THEN [s EXCEPT !.replies = @ + 1, !.radio = TRUE, !.missed = FALSE,
                                  !.cached = s.manager, !.timer = TRUE]
                   ELSE s
  BY DEF ScanRequest
<1>2. DiscoveryOK(s) /\ s.manager # 0 /\ s \in Bluetooth
  BY ForCommandOK DEF DiscoveryOK
<1>3. s.replies + 1 \in 0..MaxReplies
  BY <1>1, <1>2, ScanAssumption DEF Bluetooth
<1> QED BY <1>1, <1>2, <1>3 DEF DiscoveryOK, Timed, Bluetooth

LEMMA ScanTimeoutOK ==
  ASSUME DiscoveryOK(scan), ScanTimeout
  PROVE  DiscoveryOK(scan')
<1> DEFINE s == [scan EXCEPT !.timer = FALSE, !.cached = 0]
<1>1. scan \in Bluetooth /\ s \in Bluetooth
  BY ScanValues DEF DiscoveryOK, Bluetooth
<1>2. CASE scan' \in StopDiscovery(s)
  BY <1>1, <1>2, StopDiscoveryOK
<1>3. CASE scan' = [s EXCEPT !.missed = s.radio]
  <2> HIDE DEF s
  <2> QED BY <1>1, <1>3 DEF DiscoveryOK, Timed, Bluetooth
<1>4. CASE scan.cached # 0 /\ scan' = Crash
  <2> DEFINE none == [scan EXCEPT !.made = 0]
  <2>1. none \in Bluetooth /\ none.made < MaxManagers
    BY <1>1, <1>4, ScanAssumption DEF Bluetooth
  <2>2. NewManager(none) \in Bluetooth
    BY <2>1, NewManagerOK
  <2>3. scan' = [NewManager(none) EXCEPT !.cached = 0, !.timer = FALSE, !.radio = FALSE,
                                         !.missed = FALSE]
    BY <1>4 DEF Crash
  <2> HIDE DEF none
  <2> DEFINE m == NewManager(none)
  <2> HIDE DEF m
  <2>4. scan' = [m EXCEPT !.cached = 0, !.timer = FALSE, !.radio = FALSE, !.missed = FALSE]
          /\ m \in Bluetooth
    BY <2>2, <2>3 DEF m
  <2>5. scan' \in Bluetooth /\ scan'.radio = FALSE
    BY <2>4, ScanValues DEF Bluetooth
  <2> QED BY <2>5 DEF DiscoveryOK, Timed
<1> QED BY <1>2, <1>3, <1>4 DEF ScanTimeout

\* The devices are no business of the discovery.
LEMMA DevicesOK ==
  ASSUME DiscoveryOK(scan), NEW d \in Device,
         ConnectDevice(d) \/ ConnectReply(d) \/ DisconnectDevice(d)
  PROVE  DiscoveryOK(scan')
<1>1. CASE ConnectDevice(d)
  <2>1. PICK s \in ForCommand : scan' = [s EXCEPT !.asked = @ \cup {d}]
    BY <1>1 DEF ConnectDevice
  <2>2. DiscoveryOK(s)
    BY ForCommandOK
  <2> QED BY <2>1, <2>2 DEF DiscoveryOK, Timed, Bluetooth
<1>2. CASE ConnectReply(d)
  <2> DEFINE s == [scan EXCEPT !.asked = @ \ {d}]
             t == [s EXCEPT !.connectedDevice = d]
  <2>1. DiscoveryOK(s)
    BY DEF DiscoveryOK, Timed, Bluetooth
  <2>2. scan' \in {s, UpdateDeviceList(t)}
    BY <1>2 DEF ConnectReply
  <2> HIDE DEF s
  <2>3. DiscoveryOK(t)
    BY <2>1 DEF DiscoveryOK, Timed, Bluetooth
  <2> QED BY <2>1, <2>2, <2>3, UpdateDeviceListOK
<1>3. CASE DisconnectDevice(d)
  <2>1. PICK s \in ForCommand :
          scan' = [s EXCEPT !.connectedDevice = IF @ = d THEN "none" ELSE @]
    BY <1>3 DEF DisconnectDevice
  <2>2. DiscoveryOK(s)
    BY ForCommandOK
  <2> QED BY <2>1, <2>2 DEF DiscoveryOK, Timed, Bluetooth
<1> QED BY <1>1, <1>2, <1>3

LEMMA DiscoveryStep == DiscoveryInv /\ [ScanNext]_scan => DiscoveryInv'
<1> SUFFICES ASSUME DiscoveryOK(scan), ScanNext PROVE DiscoveryOK(scan')
  BY DEF DiscoveryInv
<1>0. scan \in Bluetooth
  BY DEF DiscoveryOK
<1>1. CASE StopService
  <2>1. NoManager(scan) \in Bluetooth /\ SameDiscovery(scan, NoManager(scan))
    <3>1. NoManager(scan) \in Bluetooth
      BY <1>0, ScanValues DEF NoManager, Bluetooth
    <3>2. SameDiscovery(scan, NoManager(scan))
      BY <1>0 DEF NoManager, SameDiscovery, Bluetooth
    <3> QED BY <3>1, <3>2
  <2> QED BY <1>1, <2>1, SameIsTimed DEF StopService
<1>2. CASE RestartService
  BY <1>0, <1>2, NewManagerOK, SameIsTimed DEF RestartService
<1>3. CASE StartReply
  <2>1. PICK discovering \in {scan.discovering, TRUE} :
          scan' = [scan EXCEPT !.replies = @ - 1, !.discovering = discovering]
    BY <1>3 DEF StartReply
  <2>2. scan.replies - 1 \in 0..MaxReplies
    BY <1>0, <1>3, ScanAssumption DEF StartReply, Bluetooth
  <2>3. scan' \in Bluetooth /\ SameDiscovery(scan, scan')
    BY <1>0, <2>1, <2>2 DEF SameDiscovery, Bluetooth
  <2> QED BY <2>3, SameIsTimed
<1>4. CASE ScanStop
  <2>1. PICK s \in ForCommand : scan' \in StopDiscovery([s EXCEPT !.timer = FALSE, !.cached = 0])
    BY <1>4 DEF ScanStop
  <2>2. s \in Bluetooth
    BY ForCommandOK DEF DiscoveryOK
  <2>3. [s EXCEPT !.timer = FALSE, !.cached = 0] \in Bluetooth
    BY <2>2, ScanValues DEF Bluetooth
  <2> QED BY <2>1, <2>3, StopDiscoveryOK
<1>5. CASE Pair \/ Unpair
  BY <1>5, ForCommandOK, UpdateDeviceListOK DEF Pair, Unpair
<1>6. CASE News
  BY <1>6, UpdateDeviceListOK DEF News
<1>7. CASE DeviceComesOrGoes
  <2>1. PICK known \in SUBSET Device : scan' = Tell([scan EXCEPT !.known = known])
    BY <1>7 DEF DeviceComesOrGoes
  <2>2. scan' \in Bluetooth /\ SameDiscovery(scan, scan')
    BY <1>0, <2>1 DEF Tell, SameDiscovery, Bluetooth
  <2> QED BY <2>2, SameIsTimed
<1>8. CASE AdapterLost
  BY <1>0, <1>8 DEF AdapterLost, Tell, DiscoveryOK, Timed, Bluetooth
<1>9. CASE AdapterBack
  BY <1>0, <1>9 DEF AdapterBack, DiscoveryOK, Timed, Bluetooth
<1> QED BY <1>1, <1>2, <1>3, <1>4, <1>5, <1>6, <1>7, <1>8, <1>9, ScanRequestOK, ScanTimeoutOK,
           DevicesOK DEF ScanNext

LEMMA DiscoveryStart == ScanInit => DiscoveryInv
BY ScanAssumption DEF ScanInit, DiscoveryInv, DiscoveryOK, Timed, Bluetooth

\* The types of Bluetooth hold, for any devices and any number of instances.
THEOREM ScanTypes == ScanSpec => []ScanTypeOK
<1>1. DiscoveryInv => ScanTypeOK
  BY DEF DiscoveryInv, DiscoveryOK, ScanTypeOK
<1> QED BY DiscoveryStart, DiscoveryStep, <1>1, PTL DEF ScanSpec

\* A discovery of BlueZ has a timer to end it (m_scanTimeoutTimer) and a manager to call
\* (m_cachedBluetoothManager), or a stop was missed: whatever replies come late, whatever
\* dies and whoever else restarts the service or stops the scan.
THEOREM DiscoveriesAreTimed == ScanSpec => []DiscoveryIsTimed
<1>1. DiscoveryInv => DiscoveryIsTimed
  BY DEF DiscoveryInv, DiscoveryOK, Timed, DiscoveryIsTimed
<1> QED BY DiscoveryStart, DiscoveryStep, <1>1, PTL DEF ScanSpec

-----------------------------------------------------------------------------
(* WirelessHotspot.                                                        *)

\* Profiles are told apart by their ids.
Distinct(w) ==
  /\ \A p \in w.profiles : p.id <= w.added /\ p.by <= w.hal
  /\ \A p, q \in w.profiles : p.id = q.id => p = q

\* The invariant: the hotspots of the instance there is are those it knows of, but for
\* those whose Delete went astray.
Known(w) ==
  {p.id : p \in HotspotsOf(w, w.hal)} \ w.astray = {w.hotspot} \ ({0} \cup w.astray)
HotspotOK(w) == w \in WiFi /\ Distinct(w) /\ Known(w)

HotspotInv == HotspotOK(wifi)

\* What is said of the fields of WiFiHAL and the Android Auto service besides.
SameProfiles(v, w) ==
  /\ w.profiles = v.profiles /\ w.added = v.added /\ w.hal = v.hal /\ w.hotspot = v.hotspot
  /\ w.astray = v.astray

LEMMA SameProfilesOK ==
  ASSUME NEW v, HotspotOK(v), NEW w \in WiFi, SameProfiles(v, w)
  PROVE  HotspotOK(w)
BY DEF HotspotOK, Distinct, Known, HotspotsOf, SameProfiles

\* Whether a profile is added and known is a matter of each.
LEMMA KnownBy ==
  ASSUME NEW w \in WiFi
  PROVE  Known(w) <=>
           /\ \A p \in w.profiles : p.mode = "hotspot" /\ p.by = w.hal =>
                                       p.id \in w.astray \cup {w.hotspot}
           /\ w.hotspot # 0 /\ w.hotspot \notin w.astray =>
                \E p \in w.profiles : p.mode = "hotspot" /\ p.by = w.hal /\ p.id = w.hotspot
<1>1. \A p \in w.profiles : p.id # 0
  BY HotspotAssumption DEF WiFi, Profile
<1> QED BY <1>1 DEF Known, HotspotsOf

\* A profile of a client is added.
LEMMA AddClientOK ==
  ASSUME NEW w, HotspotOK(w), w.added < MaxProfiles
  PROVE  HotspotOK(Add(w, "client")) /\ Add(w, "client").added \in 1..MaxProfiles
<1> DEFINE p == [id |-> w.added + 1, by |-> w.hal, mode |-> "client"]
           a == Add(w, "client")
<1>1. w \in WiFi /\ w.added \in Nat /\ w.added + 1 \in 1..MaxProfiles /\ p \in Profile
  BY HotspotAssumption DEF HotspotOK, WiFi, Profile
<1>2. /\ a \in WiFi /\ a.added = w.added + 1 /\ a.profiles = w.profiles \cup {p}
      /\ a.hal = w.hal /\ a.hotspot = w.hotspot /\ a.astray = w.astray
  <2>1. a = [w EXCEPT !.added = w.added + 1, !.profiles = w.profiles \cup {p}]
    BY <1>1 DEF Add, WiFi
  <2>2. w.added + 1 \in 0..MaxProfiles /\ w.profiles \cup {p} \in SUBSET Profile
    BY <1>1 DEF WiFi
  <2> HIDE DEF a, p
  <2> QED BY <1>1, <2>1, <2>2 DEF WiFi
<1>3. p.id = w.added + 1 /\ p.by = w.hal /\ p.mode = "client"
  OBVIOUS
<1> HIDE DEF a, p
<1>4. w.profiles \subseteq Profile /\ w.hal \in Nat
  BY <1>1, HotspotAssumption DEF WiFi
<1>5. Distinct(a)
  <2>1. \A q \in w.profiles : q.id \in Nat /\ q.by \in Nat /\ q.id <= w.added /\ q.by <= w.hal
    BY <1>4, HotspotAssumption DEF HotspotOK, Distinct, Profile
  <2> QED BY <1>1, <1>2, <1>3, <1>4, <2>1 DEF HotspotOK, Distinct
<1>6. Known(a)
  BY <1>1, <1>2, <1>3, KnownBy DEF HotspotOK
<1> QED BY <1>1, <1>2, <1>5, <1>6 DEF HotspotOK, a

\* A profile of a hotspot is added, where none is known.
LEMMA AddHotspotOK ==
  ASSUME NEW w, HotspotOK(w), w.added < MaxProfiles, w.hotspot = 0
  PROVE  LET a == Add(w, "hotspot")
         IN  /\ a \in WiFi /\ Distinct(a) /\ a.added \in 1..MaxProfiles /\ a.hal = w.hal
             /\ a.hotspot = 0
             /\ \A q \in a.profiles : q.mode = "hotspot" /\ q.by = a.hal =>
                                         q.id \in a.astray \cup {a.added}
             /\ \E q \in a.profiles : q.mode = "hotspot" /\ q.by = a.hal /\ q.id = a.added
<1> DEFINE p == [id |-> w.added + 1, by |-> w.hal, mode |-> "hotspot"]
           a == Add(w, "hotspot")
<1>1. w \in WiFi /\ w.added \in Nat /\ w.added + 1 \in 1..MaxProfiles /\ p \in Profile
  BY HotspotAssumption DEF HotspotOK, WiFi, Profile
<1>2. /\ a \in WiFi /\ a.added = w.added + 1 /\ a.profiles = w.profiles \cup {p}
      /\ a.hal = w.hal /\ a.hotspot = w.hotspot /\ a.astray = w.astray
  <2>1. a = [w EXCEPT !.added = w.added + 1, !.profiles = w.profiles \cup {p}]
    BY <1>1 DEF Add, WiFi
  <2>2. w.added + 1 \in 0..MaxProfiles /\ w.profiles \cup {p} \in SUBSET Profile
    BY <1>1 DEF WiFi
  <2> HIDE DEF a, p
  <2> QED BY <1>1, <2>1, <2>2 DEF WiFi
<1>3. p.id = w.added + 1 /\ p.by = w.hal /\ p.mode = "hotspot"
  OBVIOUS
<1> HIDE DEF a, p
<1>4. w.profiles \subseteq Profile /\ w.hal \in Nat
  BY <1>1, HotspotAssumption DEF WiFi
<1>5. Distinct(a)
  <2>1. \A q \in w.profiles : q.id \in Nat /\ q.by \in Nat /\ q.id <= w.added /\ q.by <= w.hal
    BY <1>4, HotspotAssumption DEF HotspotOK, Distinct, Profile
  <2> QED BY <1>1, <1>2, <1>3, <1>4, <2>1 DEF HotspotOK, Distinct
<1>6. \A q \in w.profiles : q.mode = "hotspot" /\ q.by = w.hal => q.id \in w.astray
  <2>1. \A q \in w.profiles : q.id # 0
    BY <1>4 DEF Profile
  <2> QED BY <1>1, <2>1, KnownBy DEF HotspotOK
<1> QED BY <1>1, <1>2, <1>3, <1>5, <1>6 DEF a

\* Deleting a profile keeps the others apart, and leaves it only astray.
LEMMA DeleteForm ==
  ASSUME NEW w \in WiFi, Distinct(w), NEW id \in 1..MaxProfiles, NEW d \in Delete(w, id)
  PROVE  /\ d \in WiFi /\ Distinct(d)
         /\ d.profiles \subseteq w.profiles
         /\ \A p \in w.profiles \ d.profiles : p.id = id
         /\ \A p \in d.profiles : p.id = id => id \in d.astray
         /\ w.astray \subseteq d.astray /\ d.astray \subseteq w.astray \cup {id}
         /\ d.hal = w.hal /\ d.added = w.added /\ d.hotspot = w.hotspot
<1> DEFINE profiles == {p \in w.profiles : p.id # id}
<1>1. PICK left \in SUBSET w.profiles, active \in 0..MaxProfiles, astray \in SUBSET (1..MaxProfiles) :
        /\ d = [w EXCEPT !.profiles = left, !.active = active, !.astray = astray]
        /\ \/ left = profiles /\ astray = w.astray
           \/ left = w.profiles /\ astray = w.astray \cup {id}
  <2>1. w.active \in 0..MaxProfiles /\ 0 \in 0..MaxProfiles /\ profiles \in SUBSET w.profiles
          /\ w.astray \in SUBSET (1..MaxProfiles)
          /\ w.astray \cup {id} \in SUBSET (1..MaxProfiles)
    BY HotspotAssumption DEF WiFi
  <2> HIDE DEF profiles
  <2>2. CASE d = Deleted(w, id)
    <3>1. d = [w EXCEPT !.profiles = profiles, !.active = IF w.active = id THEN 0 ELSE w.active,
                        !.astray = w.astray]
      BY <2>2 DEF Deleted, WiFi, profiles
    <3> QED BY <2>1, <3>1
  <2>3. CASE d = [w EXCEPT !.astray = @ \cup {id}]
    <3>1. d = [w EXCEPT !.profiles = w.profiles, !.active = w.active,
                        !.astray = w.astray \cup {id}]
      BY <2>3 DEF WiFi
    <3> QED BY <2>1, <3>1
  <2>4. CASE d = [w EXCEPT !.astray = @ \cup {id}, !.active = IF @ = id THEN 0 ELSE @]
    <3>1. d = [w EXCEPT !.profiles = w.profiles, !.active = IF w.active = id THEN 0 ELSE w.active,
                        !.astray = w.astray \cup {id}]
      BY <2>4 DEF WiFi
    <3> QED BY <2>1, <3>1
  <2> QED BY <2>2, <2>3, <2>4 DEF Delete
<1>2. left \in SUBSET Profile
  BY DEF WiFi
<1>3. /\ d \in WiFi /\ d.profiles = left /\ d.astray = astray
      /\ d.hal = w.hal /\ d.added = w.added /\ d.hotspot = w.hotspot
  BY <1>1, <1>2 DEF WiFi
<1>4. Distinct(d)
  BY <1>3 DEF Distinct
<1> QED BY <1>1, <1>3, <1>4

\* A hotspot that is stopped is gone from NetworkManager or astray, and forgotten.
LEMMA StopHotspotOK ==
  ASSUME NEW w, HotspotOK(w), NEW s \in StopHotspot(w)
  PROVE  HotspotOK(s) /\ s.hotspot = 0 /\ s.added = w.added
<1>1. CASE w.hotspot = 0
  BY <1>1 DEF StopHotspot
<1>2. CASE w.hotspot # 0
  <2>1. PICK d \in Delete(w, w.hotspot) : s = [d EXCEPT !.hotspot = 0]
    BY <1>2 DEF StopHotspot
  <2>2. w \in WiFi /\ Distinct(w) /\ w.hotspot \in 1..MaxProfiles
    BY <1>2, HotspotAssumption DEF HotspotOK, WiFi
  <2>3. /\ d \in WiFi /\ Distinct(d) /\ d.profiles \subseteq w.profiles
        /\ \A p \in d.profiles : p.id = w.hotspot => w.hotspot \in d.astray
        /\ w.astray \subseteq d.astray /\ d.hal = w.hal /\ d.added = w.added
    BY <2>2, DeleteForm
  <2>4. /\ s \in WiFi /\ s.profiles = d.profiles /\ s.hal = d.hal /\ s.added = d.added
        /\ s.hotspot = 0 /\ s.astray = d.astray
    BY <2>1, <2>3, HotspotAssumption DEF WiFi
  <2>5. \A p \in s.profiles : p.mode = "hotspot" /\ p.by = s.hal => p.id \in s.astray
    BY <2>2, <2>3, <2>4, KnownBy DEF HotspotOK
  <2>6. Known(s)
    BY <2>4, <2>5, KnownBy
  <2> QED BY <2>3, <2>4, <2>6 DEF HotspotOK, Distinct
<1> QED BY <1>1, <1>2

\* Whatever a start of the hotspot leaves.
LEMMA StartHotspotOK ==
  ASSUME NEW w, HotspotOK(w), w.added < MaxProfiles, NEW v \in StartHotspot(w)
  PROVE  HotspotOK(v)
<1>1. CASE v = w
  BY <1>1
<1>2. CASE \E stopped \in StopHotspot(w) :
            v \in {stopped} \cup Delete(WithHotspot(stopped), stopped.added + 1)
                           \cup {HotspotUp(WithHotspot(stopped))}
  <2>1. PICK stopped \in StopHotspot(w) :
          v \in {stopped} \cup Delete(WithHotspot(stopped), stopped.added + 1)
                         \cup {HotspotUp(WithHotspot(stopped))}
    BY <1>2
  <2>2. HotspotOK(stopped) /\ stopped.hotspot = 0 /\ stopped.added < MaxProfiles
    BY StopHotspotOK
  <2> DEFINE with == WithHotspot(stopped)
  <2>3. /\ with \in WiFi /\ Distinct(with) /\ with.added \in 1..MaxProfiles /\ with.hotspot = 0
        /\ \A q \in with.profiles : q.mode = "hotspot" /\ q.by = with.hal =>
                                       q.id \in with.astray \cup {with.added}
        /\ \E q \in with.profiles : q.mode = "hotspot" /\ q.by = with.hal /\ q.id = with.added
    BY <2>2, AddHotspotOK DEF WithHotspot
  <2>4. with.added = stopped.added + 1
    BY <2>2 DEF WithHotspot, Add, HotspotOK, WiFi
  <2> HIDE DEF with
  <2>5. CASE v = stopped
    BY <2>2, <2>5
  <2>6. CASE v \in Delete(with, with.added)
    <3>1. /\ v \in WiFi /\ Distinct(v) /\ v.profiles \subseteq with.profiles
          /\ \A p \in v.profiles : p.id = with.added => with.added \in v.astray
          /\ with.astray \subseteq v.astray /\ v.hal = with.hal /\ v.hotspot = 0
      BY <2>3, <2>6, DeleteForm
    <3>2. \A p \in v.profiles : p.mode = "hotspot" /\ p.by = v.hal => p.id \in v.astray
      BY <2>3, <3>1
    <3>3. Known(v)
      BY <3>1, <3>2, KnownBy
    <3> QED BY <3>1, <3>3 DEF HotspotOK
  <2>7. CASE v = HotspotUp(with)
    <3>1. /\ v \in WiFi /\ v.profiles = with.profiles /\ v.hal = with.hal
          /\ v.added = with.added /\ v.hotspot = with.added /\ v.astray = with.astray
      BY <2>3, <2>7, HotspotAssumption DEF HotspotUp, WiFi
    <3>2. Known(v)
      BY <2>3, <3>1, KnownBy
    <3> QED BY <2>3, <3>1, <3>2 DEF HotspotOK, Distinct
  <2> QED BY <2>1, <2>4, <2>5, <2>6, <2>7 DEF with
<1> QED BY <1>1, <1>2 DEF StartHotspot

LEMMA WirelessSearchOK ==
  ASSUME HotspotOK(wifi), WirelessSearch
  PROVE  HotspotOK(wifi')
<1>1. PICK w \in StartHotspot(wifi) : wifi' \in {w, [w EXCEPT !.host = "own"]}
  BY DEF WirelessSearch
<1>2. HotspotOK(w) /\ w \in WiFi
  BY StartHotspotOK DEF WirelessSearch, HotspotOK
<1>3. [w EXCEPT !.host = "own"] \in WiFi /\ SameProfiles(w, [w EXCEPT !.host = "own"])
  BY <1>2 DEF WiFi, SameProfiles
<1> QED BY <1>1, <1>2, <1>3, SameProfilesOK

LEMMA NetworksOK ==
  ASSUME HotspotOK(wifi),
         ConnectToNetwork \/ LeaveNetwork \/ ForgetNetwork \/ ConnectionLost
  PROVE  HotspotOK(wifi')
<1>0. wifi \in WiFi /\ 0 \in 0..MaxProfiles
  BY HotspotAssumption DEF HotspotOK
<1>1. CASE ConnectToNetwork
  <2> DEFINE a == Add(wifi, "client")
             c == [a EXCEPT !.active = a.added, !.connectedSSID = "network"]
  <2>1. HotspotOK(a) /\ a.added \in 1..MaxProfiles /\ a \in WiFi
    BY <1>1, AddClientOK DEF ConnectToNetwork, HotspotOK
  <2>2. wifi' \in {a, c}
    BY <1>1 DEF ConnectToNetwork
  <2> HIDE DEF a
  <2>3. c \in WiFi /\ SameProfiles(a, c)
    BY <2>1, HotspotAssumption DEF WiFi, SameProfiles
  <2> HIDE DEF c
  <2> QED BY <2>1, <2>2, <2>3, SameProfilesOK
<1>2. CASE LeaveNetwork \/ ConnectionLost
  <2>1. wifi' = [wifi EXCEPT !.active = 0, !.connectedSSID = "none"]
    BY <1>2 DEF LeaveNetwork, ConnectionLost
  <2>2. wifi' \in WiFi /\ SameProfiles(wifi, wifi')
    BY <1>0, <2>1 DEF WiFi, SameProfiles
  <2> QED BY <2>2, SameProfilesOK
<1>3. CASE ForgetNetwork
  <2>0. PICK mode \in {"hotspot", "client"} :
          \E gone \in SUBSET {p.id : p \in {q \in wifi.profiles : q.mode = mode}} :
            wifi' = [wifi EXCEPT !.profiles = {p \in @ : p.id \notin gone},
                                 !.active = IF @ \in gone THEN 0 ELSE @,
                                 !.astray = IF mode = "hotspot" THEN @ \cup gone ELSE @]
    BY <1>3 DEF ForgetNetwork
  <2>1. PICK gone \in SUBSET {p.id : p \in {q \in wifi.profiles : q.mode = mode}} :
          wifi' = [wifi EXCEPT !.profiles = {p \in @ : p.id \notin gone},
                               !.active = IF @ \in gone THEN 0 ELSE @,
                               !.astray = IF mode = "hotspot" THEN @ \cup gone ELSE @]
    BY <2>0
  <2>2. gone \in SUBSET (1..MaxProfiles) /\ wifi.profiles \subseteq Profile
    BY <1>0 DEF WiFi, Profile
  <2> DEFINE left == {p \in wifi.profiles : p.id \notin gone}
             active == IF wifi.active \in gone THEN 0 ELSE wifi.active
             astray == IF mode = "hotspot" THEN wifi.astray \cup gone ELSE wifi.astray
  <2>3. wifi' = [wifi EXCEPT !.profiles = left, !.active = active, !.astray = astray]
    BY <1>0, <2>1 DEF WiFi
  <2>4. left \in SUBSET Profile /\ active \in 0..MaxProfiles /\ astray \in SUBSET (1..MaxProfiles)
    BY <1>0, <2>2 DEF WiFi
  <2>5. left \subseteq wifi.profiles /\ wifi.astray \subseteq astray
    OBVIOUS
  <2>6. \A p \in wifi.profiles \ left : p.mode = "hotspot" => p.id \in astray
    <3>1. CASE mode = "hotspot"
      BY <3>1
    <3>2. CASE mode = "client"
      <4>1. \A p \in wifi.profiles : p.id \in gone => p.mode = "client"
        BY <3>2 DEF HotspotOK, Distinct
      <4> QED BY <4>1
    <3> QED BY <3>1, <3>2
  <2> HIDE DEF left, active, astray
  <2>7. /\ wifi' \in WiFi /\ wifi'.profiles = left /\ wifi'.astray = astray
        /\ wifi'.hal = wifi.hal /\ wifi'.added = wifi.added /\ wifi'.hotspot = wifi.hotspot
    BY <1>0, <2>3, <2>4 DEF WiFi
  <2>8. Distinct(wifi')
    BY <2>5, <2>7 DEF HotspotOK, Distinct
  <2>9. Known(wifi')
    <3>1. \A p \in left : p.mode = "hotspot" /\ p.by = wifi.hal => p.id \in astray \cup {wifi.hotspot}
      BY <1>0, <2>5, KnownBy DEF HotspotOK
    <3>2. ASSUME wifi.hotspot # 0, wifi.hotspot \notin astray
          PROVE  \E p \in left : p.mode = "hotspot" /\ p.by = wifi.hal /\ p.id = wifi.hotspot
      <4>1. PICK p \in wifi.profiles : p.mode = "hotspot" /\ p.by = wifi.hal /\ p.id = wifi.hotspot
        BY <1>0, <2>5, <3>2, KnownBy DEF HotspotOK
      <4> QED BY <2>6, <3>2, <4>1
    <3> QED BY <2>7, <3>1, <3>2, KnownBy
  <2> QED BY <2>7, <2>8, <2>9 DEF HotspotOK
<1> QED BY <1>1, <1>2, <1>3

\* A new instance has no hotspot.
LEMMA RestartWiFiOK ==
  ASSUME HotspotOK(wifi), RestartWiFi
  PROVE  HotspotOK(wifi')
<1>1. wifi \in WiFi /\ wifi.hal + 1 \in 1..MaxHals /\ wifi.hal \in Nat
        /\ wifi.profiles \subseteq Profile
  BY HotspotAssumption DEF HotspotOK, RestartWiFi, WiFi
<1>2. /\ wifi' \in WiFi /\ wifi'.profiles = wifi.profiles /\ wifi'.hal = wifi.hal + 1
      /\ wifi'.added = wifi.added /\ wifi'.hotspot = 0 /\ wifi'.astray = wifi.astray
  <2>1. wifi' = [wifi EXCEPT !.hal = wifi.hal + 1, !.hotspot = 0, !.connectedSSID = "none",
                             !.scanning = FALSE, !.scans = 0]
    BY <1>1 DEF RestartWiFi, WiFi
  <2>2. 0 \in 0..MaxProfiles /\ 0 \in 0..MaxScans
    BY HotspotAssumption
  <2> QED BY <1>1, <2>1, <2>2 DEF WiFi
<1>3. \A p \in wifi.profiles : p.by \in Nat /\ p.by <= wifi.hal
  BY <1>1, HotspotAssumption DEF HotspotOK, Distinct, Profile
<1>4. Distinct(wifi')
  BY <1>1, <1>2, <1>3 DEF HotspotOK, Distinct
<1>5. Known(wifi')
  <2>1. \A p \in wifi'.profiles : p.by # wifi'.hal
    BY <1>1, <1>2, <1>3
  <2> QED BY <1>2, <2>1, KnownBy
<1> QED BY <1>2, <1>4, <1>5 DEF HotspotOK

LEMMA HotspotStep == HotspotInv /\ [HotspotNext]_wifi => HotspotInv'
<1> SUFFICES ASSUME HotspotOK(wifi), HotspotNext PROVE HotspotOK(wifi')
  BY DEF HotspotInv
<1>0. wifi \in WiFi
  BY DEF HotspotOK
<1>1. CASE HotspotStopped
  BY <1>1, StopHotspotOK DEF HotspotStopped
<1>2. CASE StartScan \/ ScanOver
  <2>1. PICK scanning \in BOOLEAN, scans \in 0..MaxScans :
          wifi' = [wifi EXCEPT !.scanning = scanning, !.scans = scans]
    <3>1. CASE StartScan
      <4>1. wifi.scans + 1 \in 0..MaxScans
        BY <1>0, <3>1, HotspotAssumption DEF StartScan, WiFi
      <4> QED BY <3>1, <4>1 DEF StartScan
    <3>2. CASE ScanOver
      <4>1. wifi.scans - 1 \in 0..MaxScans
        BY <1>0, <3>2, HotspotAssumption DEF ScanOver, WiFi
      <4> QED BY <3>2, <4>1 DEF ScanOver
    <3> QED BY <1>2, <3>1, <3>2
  <2>2. wifi' \in WiFi /\ SameProfiles(wifi, wifi')
    BY <1>0, <2>1 DEF WiFi, SameProfiles
  <2> QED BY <2>2, SameProfilesOK
<1>3. CASE RestartSearcher
  <2>1. wifi' \in WiFi /\ SameProfiles(wifi, wifi')
    <3>1. PICK host \in {"none", "phone"} :
            wifi' = [wifi EXCEPT !.searcher = wifi.hal, !.host = host]
      BY <1>3 DEF RestartSearcher
    <3>2. host \in {"none", "own", "phone"}
      OBVIOUS
    <3> QED BY <1>0, <3>1, <3>2 DEF WiFi, SameProfiles
  <2> QED BY <2>1, SameProfilesOK
<1> QED BY <1>1, <1>2, <1>3, WirelessSearchOK, NetworksOK, RestartWiFiOK DEF HotspotNext

LEMMA HotspotStart == HotspotInit => HotspotInv
<1> SUFFICES ASSUME HotspotInit PROVE HotspotOK(wifi)
  BY DEF HotspotInv
<1>1. wifi \in WiFi
  BY HotspotAssumption DEF HotspotInit, WiFi
<1>2. wifi.profiles = {} /\ wifi.hotspot = 0
  BY DEF HotspotInit
<1> QED BY <1>1, <1>2, KnownBy DEF HotspotOK, Distinct

\* The types of WiFi hold, for any number of instances and profiles.
THEOREM HotspotTypes == HotspotSpec => []HotspotTypeOK
<1>1. HotspotInv => HotspotTypeOK
  BY DEF HotspotInv, HotspotOK, HotspotTypeOK
<1> QED BY HotspotStart, HotspotStep, <1>1, PTL DEF HotspotSpec

\* An instance of WiFiHAL knows the one hotspot profile it has left in NetworkManager
\* (hotspotConnectionPath), in whatever order calls fail, networks are forgotten and
\* connections are lost: but for profiles whose Delete failed, and hotspots that were
\* deleted by their name.
THEOREM HotspotsStayKnown == HotspotSpec => []HotspotsAreKnown
<1>1. HotspotInv => HotspotsAreKnown
  BY DEF HotspotInv, HotspotOK, Known, HotspotsAreKnown
<1> QED BY HotspotStart, HotspotStep, <1>1, PTL DEF HotspotSpec
============================================================================
