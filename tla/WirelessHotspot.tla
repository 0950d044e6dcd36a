--------------------------- MODULE WirelessHotspot ---------------------------
(***************************************************************************)
(* WiFi, as the wireless mode of Android Auto uses it: the hotspot that a  *)
(* search starts, the connection profiles this leaves in NetworkManager,   *)
(* and the host the search then listens for or connects to.                *)
(*                                                                         *)
(* profiles and active are NetworkManager's: the profiles added by the     *)
(* core, with the instance of WiFiHAL that added them, and which of them   *)
(* is active.  astray is history: the profiles that stayed because their   *)
(* Delete failed or could not be called, and the hotspots that went        *)
(* because somebody forgot the network of their name.  The other fields    *)
(* are those of WiFiHAL and of the Android Auto service.  Networks and     *)
(* scans are offered by the manager to others.                             *)
(***************************************************************************)
EXTENDS Naturals, FiniteSets

CONSTANTS
    MaxHals,        \* bound: instances of WiFiHAL
    MaxProfiles,    \* bound: profiles added
    MaxScans        \* bound: scan timers at a time

ASSUME HotspotAssumption == MaxHals \in Nat \ {0} /\ MaxProfiles \in Nat /\ MaxScans \in Nat

VARIABLE wifi

Profile == [id: 1..MaxProfiles, by: 1..MaxHals, mode: {"hotspot", "client"}]

WiFi ==
    [hal: 1..MaxHals,
     searcher: 1..MaxHals,              \* the instance the Android Auto service holds
     hotspot: 0..MaxProfiles,           \* hotspotConnectionPath and -ActivePath, 0 is none
     connectedSSID: {"none", "hotspot", "network"},
     scanning: BOOLEAN, scans: 0..MaxScans,
     host: {"none", "own", "phone"},    \* m_wirelessHost
     profiles: SUBSET Profile, active: 0..MaxProfiles, added: 0..MaxProfiles,
     astray: SUBSET (1..MaxProfiles)]

HotspotsOf(w, hal) == {p \in w.profiles : p.mode = "hotspot" /\ p.by = hal}

-----------------------------------------------------------------------------
(* NetworkManager.                                                         *)

\* AddConnection
Add(w, mode) ==
    [w EXCEPT !.added = @ + 1,
              !.profiles = @ \cup {[id |-> w.added + 1, by |-> w.hal, mode |-> mode]}]

\* Delete as NetworkManager does it, which ends the connection as well.
Deleted(w, id) ==
    [w EXCEPT !.profiles = {p \in @ : p.id # id}, !.active = IF @ = id THEN 0 ELSE @]

\* DeactivateConnection and Delete, as they are called: nobody looks whether they succeed.
Delete(w, id) ==
    {Deleted(w, id), [w EXCEPT !.astray = @ \cup {id}],
     [w EXCEPT !.astray = @ \cup {id}, !.active = IF @ = id THEN 0 ELSE @]}

-----------------------------------------------------------------------------
(* The hotspot.                                                            *)

\* mutant: a hotspot that is not active any more is only forgotten
StopHotspot_ActiveOnly(w) ==
    {[v EXCEPT !.hotspot = 0] :
        v \in IF w.hotspot # 0 /\ w.active = w.hotspot THEN Delete(w, w.hotspot) ELSE {w}}

\* stopHotspot forgets the hotspot, whether it could delete it or not.
StopHotspot(w) ==
    IF w.hotspot = 0 THEN {w} ELSE {[v EXCEPT !.hotspot = 0] : v \in Delete(w, w.hotspot)}

\* The new hotspot of startHotspot, if AddConnection takes it.
WithHotspot(w) == Add(w, "hotspot")

HotspotUp(w) ==
    [w EXCEPT !.hotspot = w.added, !.active = w.added, !.connectedSSID = "hotspot"]

\* startHotspot: what it can leave.  Without device, SSID or NetworkManager nothing
\* happens.  The old hotspot is given up even if the new one is refused: for its password,
\* by AddConnection or by ActivateConnection, after which the new profile is deleted.
StartHotspot(w) ==
    {w} \cup UNION {
        {stopped} \cup Delete(WithHotspot(stopped), stopped.added + 1)
                  \cup {HotspotUp(WithHotspot(stopped))} : stopped \in StopHotspot(w)}

\* startSearching in wireless mode.  A hotspot replaces the configured host by the address
\* of this device, if both can be asked for; only without a host is a phone waited for.
WirelessSearch ==
    /\ wifi.added < MaxProfiles
    /\ wifi.searcher = wifi.hal
    /\ \E w \in StartHotspot(wifi) :
           wifi' \in {w} \cup IF w.hotspot # 0 THEN {[w EXCEPT !.host = "own"]} ELSE {}

\* stopHotspot, by another user of the manager.
HotspotStopped == wifi.hotspot # 0 /\ wifi' \in StopHotspot(wifi)

-----------------------------------------------------------------------------
(* Networks.                                                               *)

\* connectToNetwork; when ActivateConnection fails the profile stays.
ConnectToNetwork ==
    /\ wifi.added < MaxProfiles
    /\ LET with == Add(wifi, "client")
       IN  wifi' \in {with, [with EXCEPT !.active = with.added, !.connectedSSID = "network"]}

LeaveNetwork == wifi' = [wifi EXCEPT !.active = 0, !.connectedSSID = "none"]

\* forgetNetwork deletes every profile with the name, whoever added it, as far as its calls
\* succeed.  Hotspots have a name, too, and the one that is known is deleted unnoticed.
ForgetNetwork ==
    \E mode \in {"hotspot", "client"} :
        \E gone \in SUBSET {p.id : p \in {q \in wifi.profiles : q.mode = mode}} :
            wifi' = [wifi EXCEPT !.profiles = {p \in @ : p.id \notin gone},
                                 !.active = IF @ \in gone THEN 0 ELSE @,
                                 !.astray = IF mode = "hotspot" THEN @ \cup gone ELSE @]

\* onDevicePropertiesChanged, when NetworkManager gives a connection up.
ConnectionLost ==
    /\ wifi.active # 0
    /\ wifi' = [wifi EXCEPT !.active = 0, !.connectedSSID = "none"]

\* startScan
StartScan ==
    wifi.scans < MaxScans /\ wifi' = [wifi EXCEPT !.scanning = TRUE, !.scans = @ + 1]

\* The timer of any scan ends them all.
ScanOver == wifi.scans > 0 /\ wifi' = [wifi EXCEPT !.scanning = FALSE, !.scans = @ - 1]

-----------------------------------------------------------------------------
(* Services.                                                               *)

\* The WiFi service is replaced; WiFiHAL leaves its hotspot as it is.
RestartWiFi ==
    /\ wifi.hal < MaxHals
    /\ wifi' = [wifi EXCEPT !.hal = @ + 1, !.hotspot = 0, !.connectedSSID = "none",
                            !.scanning = FALSE, !.scans = 0]

\* The Android Auto service is replaced: it is given the manager there is now, and
\* reads its host from the configuration.
RestartSearcher ==
    \E host \in {"none", "phone"} :
        wifi' = [wifi EXCEPT !.searcher = wifi.hal, !.host = host]

HotspotInit ==
    \E host \in {"none", "phone"} :
        wifi = [hal |-> 1, searcher |-> 1, hotspot |-> 0, connectedSSID |-> "none",
                scanning |-> FALSE, scans |-> 0, host |-> host, profiles |-> {},
                active |-> 0, added |-> 0, astray |-> {}]

HotspotNext ==
    \/ WirelessSearch \/ HotspotStopped \/ ConnectToNetwork \/ LeaveNetwork \/ ForgetNetwork
    \/ ConnectionLost \/ StartScan \/ ScanOver \/ RestartWiFi \/ RestartSearcher

HotspotSpec == HotspotInit /\ [][HotspotNext]_wifi

-----------------------------------------------------------------------------
(* Properties.                                                             *)

HotspotTypeOK == wifi \in WiFi

\* In whatever order searches fail, calls go wrong and connections are lost, an instance
\* leaves no hotspot profile behind that it does not know, unless the call that was to
\* delete it failed, and records none that is gone, unless it was forgotten by its name.
HotspotsAreKnown ==
    {p.id : p \in HotspotsOf(wifi, wifi.hal)} \ wifi.astray = {wifi.hotspot} \ ({0} \cup wifi.astray)
=============================================================================
