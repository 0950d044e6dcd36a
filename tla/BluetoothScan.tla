---------------------------- MODULE BluetoothScan ----------------------------
(***************************************************************************)
(* Bluetooth, as the UI commands it over the WebSocket server: discovery   *)
(* with its timeout, and the devices that are paired and connected.  The   *)
(* server starts the service when there is none and keeps a raw pointer to *)
(* its manager for the timeout; the manager forwards to BluetoothHAL,      *)
(* whose calls to BlueZ are not waited for.                                *)
(*                                                                         *)
(* BlueZ handles calls in the order they are sent, so that radio, what     *)
(* BlueZ does for the core, changes with the call and only its reply is    *)
(* late.  missed is history: a stop has not reached BlueZ.                 *)
(***************************************************************************)
EXTENDS Naturals

CONSTANTS
    Device,         \* devices in reach
    MaxManagers,    \* bound: instances of the service
    MaxReplies      \* bound: replies to StartDiscovery outstanding

ASSUME ScanAssumption == MaxManagers \in Nat /\ MaxReplies \in Nat /\ "none" \notin Device

VARIABLE scan

Bluetooth ==
    [manager: 0..MaxManagers, made: 0..MaxManagers,   \* the instance, 0 is none
     subscribed: BOOLEAN,                    \* there was an adapter when it was made
     discovering: BOOLEAN, replies: 0..MaxReplies,
     listed: SUBSET Device,                  \* d->devices
     asked: SUBSET Device,                   \* Connect calls without a reply
     connectedDevice: Device \cup {"none"},
     cached: 0..MaxManagers,                 \* m_cachedBluetoothManager
     timer: BOOLEAN,                         \* m_scanTimeoutTimer
     adapter: BOOLEAN, known: SUBSET Device, radio: BOOLEAN, news: BOOLEAN,   \* of BlueZ
     missed: BOOLEAN]

-----------------------------------------------------------------------------
(* The service.                                                            *)

\* BluetoothHAL subscribes to BlueZ only if it finds an adapter when it is made.
NewManager(s) ==
    [s EXCEPT !.manager = s.made + 1, !.made = s.made + 1, !.subscribed = s.adapter,
              !.discovering = FALSE, !.replies = 0, !.listed = {}, !.asked = {},
              !.connectedDevice = "none", !.news = FALSE]

NoManager(s) ==
    [s EXCEPT !.manager = 0, !.discovering = FALSE, !.replies = 0, !.listed = {}, !.asked = {},
              !.connectedDevice = "none", !.news = FALSE]

StopService == scan.manager # 0 /\ scan' = NoManager(scan)

RestartService == scan.made < MaxManagers /\ scan' = NewManager(scan)

\* What a Bluetooth command finds: the manager there is, or one started for it.
ForCommand ==
    IF scan.manager # 0 THEN {scan}
    ELSE IF scan.made < MaxManagers THEN {NewManager(scan)} ELSE {}

\* updateDeviceList asks BlueZ at once.
UpdateDeviceList(s) == [s EXCEPT !.listed = s.known, !.news = FALSE]

-----------------------------------------------------------------------------
(* Discovery.                                                              *)

\* mutant: a discovery that is under way keeps the timer it has
ScanRequest_KeepsTimer ==
    \E s \in ForCommand :
        /\ s.replies < MaxReplies
        /\ scan' = IF s.adapter
                   THEN [s EXCEPT !.replies = @ + 1, !.radio = TRUE, !.missed = FALSE,
                                  !.cached = s.manager, !.timer = @ \/ ~s.discovering]
                   ELSE s

\* bluetooth/scan/request: StartDiscovery is sent, and taken for a success.
ScanRequest ==
    \E s \in ForCommand :
        /\ s.replies < MaxReplies
        /\ scan' = IF s.adapter
                   THEN [s EXCEPT !.replies = @ + 1, !.radio = TRUE, !.missed = FALSE,
                                  !.cached = s.manager, !.timer = TRUE]
                   ELSE s

\* The reply to StartDiscovery, which fails if a discovery was under way.
StartReply ==
    /\ scan.replies > 0
    /\ \E discovering \in {scan.discovering, TRUE} :
           scan' = [scan EXCEPT !.replies = @ - 1, !.discovering = discovering]

\* stopDiscovery, which BlueZ answers if there is an adapter and it is not too slow.
StopDiscovery(s) ==
    {[s EXCEPT !.missed = s.radio]}
      \cup IF s.adapter THEN {[s EXCEPT !.radio = FALSE, !.discovering = FALSE]} ELSE {}

\* bluetooth/scan/stop gives up timer and manager whether the stop succeeds or not.
ScanStop ==
    \E s \in ForCommand : scan' \in StopDiscovery([s EXCEPT !.timer = FALSE, !.cached = 0])

\* The core dies and is started again; BlueZ drops what it did for it.
Crash ==
    [NewManager([scan EXCEPT !.made = 0]) EXCEPT
        !.cached = 0, !.timer = FALSE, !.radio = FALSE, !.missed = FALSE]

\* onScanTimeout.  A manager that was deleted since is called all the same: the process
\* dies, or nothing happens, or the manager in its place is called.
ScanTimeout ==
    /\ scan.timer
    /\ LET s == [scan EXCEPT !.timer = FALSE, !.cached = 0]
       IN  \/ scan.cached \in {0, scan.manager} /\ scan' \in StopDiscovery(s)
           \/ scan.cached \notin {0, scan.manager} /\
                 \/ scan' = Crash
                 \/ scan' = [s EXCEPT !.missed = s.radio]
                 \/ scan.manager # 0 /\ scan' \in StopDiscovery(s)

-----------------------------------------------------------------------------
(* Devices.                                                                *)

\* bluetooth/pair, whose reply makes the HAL read the list again.
Pair == \E s \in ForCommand : scan' = UpdateDeviceList(s) \/ scan' = s

\* bluetooth/unpair: the list is read before BlueZ has removed the device.
Unpair == \E s \in ForCommand : s.adapter /\ scan' = UpdateDeviceList(s)

ConnectDevice(d) ==
    \E s \in ForCommand : s.adapter /\ scan' = [s EXCEPT !.asked = @ \cup {d}]

ConnectReply(d) ==
    /\ d \in scan.asked
    /\ LET s == [scan EXCEPT !.asked = @ \ {d}]
       IN  scan' \in {s, UpdateDeviceList([s EXCEPT !.connectedDevice = d])}

DisconnectDevice(d) ==
    \E s \in ForCommand :
        s.adapter /\ scan' = [s EXCEPT !.connectedDevice = IF @ = d THEN "none" ELSE @]

\* onInterfacesAdded, onInterfacesRemoved
News == scan.news /\ scan' = UpdateDeviceList(scan)

-----------------------------------------------------------------------------
(* BlueZ and the adapter.                                                  *)

Tell(s) == [s EXCEPT !.news = s.manager # 0 /\ s.subscribed]

DeviceComesOrGoes ==
    /\ scan.adapter
    /\ \E known \in SUBSET Device : known # scan.known /\ scan' = Tell([scan EXCEPT !.known = known])

AdapterLost ==
    /\ scan.adapter
    /\ scan' = Tell([scan EXCEPT !.adapter = FALSE, !.radio = FALSE, !.known = {}])

AdapterBack == ~scan.adapter /\ scan' = [scan EXCEPT !.adapter = TRUE]

ScanInit ==
    \E adapter \in BOOLEAN :
        scan = [manager |-> 0, made |-> 0, subscribed |-> FALSE, discovering |-> FALSE,
                replies |-> 0, listed |-> {}, asked |-> {}, connectedDevice |-> "none",
                cached |-> 0, timer |-> FALSE, adapter |-> adapter, known |-> {},
                radio |-> FALSE, news |-> FALSE, missed |-> FALSE]

ScanNext ==
    \/ StopService \/ RestartService
    \/ ScanRequest \/ StartReply \/ ScanStop \/ ScanTimeout
    \/ Pair \/ Unpair \/ News
    \/ \E d \in Device : ConnectDevice(d) \/ ConnectReply(d) \/ DisconnectDevice(d)
    \/ DeviceComesOrGoes \/ AdapterLost \/ AdapterBack

ScanSpec == ScanInit /\ [][ScanNext]_scan

-----------------------------------------------------------------------------
(* Properties.                                                             *)

ScanTypeOK == scan \in Bluetooth

\* BlueZ searches for the core only while the scan timer runs to end it with a
\* manager to call, whatever replies come late, unless a stop has not reached BlueZ.
DiscoveryIsTimed == scan.radio => scan.missed \/ (scan.timer /\ scan.cached # 0)
=============================================================================
