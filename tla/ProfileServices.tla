-------------------------- MODULE ProfileServices ---------------------------
(***************************************************************************)
(* The services of the active host profile: ProfileManager (module         *)
(* ProfileStore), whose signals make ServiceManager reload or restart      *)
(* services, the service commands of the API, and the process that may die *)
(* at any moment, also while the profiles are being saved.                 *)
(*                                                                         *)
(* An edit of the profiles runs to its end in one event: the change, the   *)
(* signal with what the service manager does about it, the save.  The      *)
(* services that start may fail to, and so may the save of either file,    *)
(* of which nobody hears.                                                  *)
(*                                                                         *)
(*   aa        m_androidAutoService: "none", "mock" or "real"              *)
(*   heard     the WebSocket server is connected to its signals            *)
(*   pipeline  m_mediaPipeline exists                                      *)
(*   wifi      m_wifiManager exists                                        *)
(*   bt        m_bluetoothManager exists                                   *)
(***************************************************************************)
EXTENDS ProfileStore

CONSTANT DefaultDevices   \* the devices of the default host profile

ASSUME DefaultAssumption == DefaultDevices \in Lists

VARIABLES
  store,        \* the profiles
  core,         \* the services
  unannounced   \* history: the devices of the active profile were replaced
                \* without a signal, and the services not reloaded since

vars == <<store, core, unannounced>>

Core ==
  [aa : {"none", "mock", "real"}, heard : BOOLEAN, pipeline : BOOLEAN, wifi : BOOLEAN,
   bt : BOOLEAN]

Idle ==
  [aa |-> "none", heard |-> FALSE, pipeline |-> FALSE, wifi |-> FALSE, bt |-> FALSE]

\* The process does not run yet, and there are no files.
Init ==
  /\ store = [up |-> FALSE, host |-> EmptyBook, vehicle |-> EmptyBook,
              hostFile |-> [exists |-> FALSE, profiles |-> NoProfiles],
              vehicleFile |-> [exists |-> FALSE, profiles |-> NoProfiles],
              unsaved |-> {}]
  /\ core = Idle
  /\ unannounced = FALSE

\* getActiveHostProfile().devices: none when no profile is active.
ActiveDevices(s) ==
  IF s.host.active \in DOMAIN s.host.profiles THEN s.host.profiles[s.host.active].devices
  ELSE <<>>

-----------------------------------------------------------------------------
(* Starting and stopping one service *)

Service == {"AndroidAuto", "WiFi", "Bluetooth"}

\* The media pipeline goes with the service.
StopAA(c) == [c EXCEPT !.aa = "none", !.heard = FALSE, !.pipeline = FALSE]

StopWiFi(c) == [c EXCEPT !.wifi = FALSE]

StopBluetooth(c) == [c EXCEPT !.bt = FALSE]

StopAll_NotAA(c) == StopBluetooth(StopWiFi(c))   \* mutant

StopAll(c) == StopBluetooth(StopWiFi(StopAA(c)))

IsFor(d, service) == d.type = service \/ d.name = service

\* The factory asks the profile, not the device, whether to mock: the first
\* Android Auto device decides.
Created(devices) ==
  LET found == {i \in DOMAIN devices : IsFor(devices[i], "AndroidAuto")}
      first == CHOOSE i \in found : \A other \in found : i <= other
  IN  IF found = {} \/ devices[first].useMock THEN "mock" ELSE "real"

StartAA_PipelineFirst(c, d, devices) ==   \* mutant: the old instance is stopped too late
  LET c1 == [c EXCEPT !.pipeline = @ \/ ~d.useMock]
      c2 == IF c.aa # "none" THEN StopAA(c1) ELSE c1
  IN  {[c2 EXCEPT !.aa = Created(devices)]}

\* startAndroidAutoService: the pipeline may not start, a real service may not
\* initialise; a pipeline started for it is kept.
StartAA(c, d, devices) ==
  LET stopped == IF c.aa # "none" THEN StopAA(c) ELSE c
      ready == [stopped EXCEPT !.pipeline = @ \/ ~d.useMock]
  IN  {[ready EXCEPT !.aa = Created(devices)]}
      \union (IF Created(devices) = "real" THEN {ready} ELSE {})
      \union (IF ready # stopped THEN {stopped} ELSE {})

StartWiFi(c) == {[StopWiFi(c) EXCEPT !.wifi = ok] : ok \in BOOLEAN}

StartBluetooth(c) == {[StopBluetooth(c) EXCEPT !.bt = ok] : ok \in BOOLEAN}

StartDevice(c, d, devices) ==
  CASE IsFor(d, "AndroidAuto") -> StartAA(c, d, devices)
    [] IsFor(d, "WiFi") /\ ~IsFor(d, "AndroidAuto") -> StartWiFi(c)
    [] IsFor(d, "Bluetooth") /\ ~IsFor(d, "AndroidAuto") /\ ~IsFor(d, "WiFi") -> StartBluetooth(c)
    [] OTHER -> {c}

-----------------------------------------------------------------------------
(* The operations of the service manager *)

\* startAllServices
StartAll(c, devices) ==
  LET after[i \in 0..Len(devices)] ==
        IF i = 0 THEN {c}
        ELSE IF devices[i].enabled
        THEN UNION {StartDevice(r, devices[i], devices) : r \in after[i - 1]}
        ELSE after[i - 1]
  IN  after[Len(devices)]

Reload(c, devices) == StartAll(StopAll(c), devices)

\* startService: the first device with that name or type; a Bluetooth service is
\* started without one.
StartService(c, devices, name) ==
  LET found == {i \in DOMAIN devices : name \in {devices[i].name, devices[i].type}}
      first == CHOOSE i \in found : \A other \in found : i <= other
  IN  IF found # {}
      THEN IF devices[first].enabled THEN StartDevice(c, devices[first], devices) ELSE {c}
      ELSE IF name = "Bluetooth" THEN StartBluetooth(c) ELSE {c}

\* stopService
StopService(c, name) ==
  CASE name = "AndroidAuto" -> StopAA(c)
    [] name = "WiFi" -> StopWiFi(c)
    [] name = "Bluetooth" -> StopBluetooth(c)
    [] OTHER -> c

RestartService(c, devices, name) == StartService(StopService(c, name), devices, name)

-----------------------------------------------------------------------------
(* The process *)

Down == core' = Idle /\ unannounced' = FALSE

\* The services are started, and then the WebSocket server connects itself to
\* the Android Auto service there is.
Runs(s) ==
  /\ store' = s
  /\ core' \in {[c EXCEPT !.heard = c.aa # "none"] : c \in StartAll(Idle, ActiveDevices(s))}
  /\ unannounced' = FALSE

Boot ==
  /\ ~store.up
  /\ IF NothingFound(store)
     THEN \E h \in HostIds, v \in VehicleIds :
            LET s == Defaults(store, h, v, DefaultDevices)
            IN  \/ \E t \in Saved(s) : Runs(Reloaded(t))
                \/ store' \in Torn(s) /\ Down
     ELSE Runs(Reloaded(Found(store)))

Crash == store.up /\ store' = Dead(store) /\ Down

\* The process ends in order: the profile manager saves once more.
Quit ==
  /\ store.up
  /\ store' \in {Dead(s) : s \in Saved(store)} \union Torn(store)
  /\ Down

\* An edit that leaves the profiles s and the services as one of cores.
Edit(s, cores, replaced) ==
  \/ store' \in Saved(s) /\ core' \in cores /\ unannounced' = replaced
  \/ store' \in Torn(s) /\ Down

-----------------------------------------------------------------------------
(* Edits of the host profiles *)

Exists(id) == store.up /\ id \in DOMAIN store.host.profiles

\* hostProfileChanged: the services are reloaded, whichever profile it is.
Announced(s) == Edit(s, Reload(core, ActiveDevices(s)), FALSE)

\* No signal is sent.
Silent(s) == Edit(s, {core}, unannounced \/ ActiveDevices(s) # ActiveDevices(store))

CreateHostProfile ==
  /\ store.up
  /\ \E id \in HostIds, p \in Profile : Silent([store EXCEPT !.host = Written(@, id, p)])

UpdateHostProfile ==
  \E id \in HostIds, p \in Profile :
    Exists(id) /\ Announced([store EXCEPT !.host = Written(@, id, p)])

DeleteHostProfile ==
  \E id \in HostIds : Exists(id) /\ Silent([store EXCEPT !.host = DeleteProfile(@, id)])

SetActiveHostProfile ==
  \E id \in HostIds : Exists(id) /\ Announced([store EXCEPT !.host = SetActive(@, id)])

\* deviceConfigChanged: the service of that name is restarted if the profile is
\* the active one.
DevicesChanged(id, devices, name) ==
  LET s == [store EXCEPT !.host.profiles[id].devices = devices]
  IN  /\ devices \in Lists
      /\ Edit(s, IF store.host.active = id THEN RestartService(core, ActiveDevices(s), name)
                 ELSE {core},
              unannounced)

DevicesOf(id) == store.host.profiles[id].devices

Known(devices) == {devices[i] : i \in DOMAIN devices}

AddDevice ==
  \E id \in HostIds, d \in UNION {Known(l) : l \in Lists} :
    Exists(id) /\ DevicesChanged(id, Append(DevicesOf(id), d), d.name)

\* A name that no device has may still be a service's, which is restarted.
RemoveDevice ==
  \E id \in HostIds : Exists(id) /\
    \E name \in Service \union {d.name : d \in Known(DevicesOf(id))} :
      DevicesChanged(id, Without(DevicesOf(id), name), name)

SetDeviceEnabled ==
  \E id \in HostIds, on \in BOOLEAN : Exists(id) /\ \E d \in Known(DevicesOf(id)) :
    LET first == FirstNamed(DevicesOf(id), d.name)
    IN  DevicesChanged(id, [DevicesOf(id) EXCEPT ![first].enabled = on], d.name)

SetDeviceUseMock ==
  \E id \in HostIds, on \in BOOLEAN : Exists(id) /\ \E d \in Known(DevicesOf(id)) :
    LET first == FirstNamed(DevicesOf(id), d.name)
    IN  DevicesChanged(id, [DevicesOf(id) EXCEPT ![first].useMock = on], d.name)

-----------------------------------------------------------------------------
(* Edits of the vehicle profiles, whose signal has no listener *)

VehicleExists(id) == store.up /\ id \in DOMAIN store.vehicle.profiles

VehicleEdit(b) == Silent([store EXCEPT !.vehicle = b])

WriteVehicleProfile ==
  /\ store.up
  /\ \E id \in VehicleIds, flag \in BOOLEAN :
       VehicleEdit(Written(store.vehicle, id, [flag |-> flag, devices |-> <<>>]))

DeleteVehicleProfile ==
  \E id \in VehicleIds : VehicleExists(id) /\ VehicleEdit(DeleteProfile(store.vehicle, id))

SetActiveVehicleProfile ==
  \E id \in VehicleIds : VehicleExists(id) /\ VehicleEdit(SetActive(store.vehicle, id))

-----------------------------------------------------------------------------
(* Service commands of the API *)

Command(cores) == store.up /\ core' \in cores /\ UNCHANGED <<store, unannounced>>

ReloadServices ==
  /\ store.up
  /\ core' \in Reload(core, ActiveDevices(store))
  /\ unannounced' = FALSE /\ UNCHANGED store

\* Names that mean something; any other does nothing.
Name == Service \union {d.name : d \in Known(ActiveDevices(store))}

Start == \E name \in Name : Command(StartService(core, ActiveDevices(store), name))

Stop == \E name \in Name : Command({StopService(core, name)})

Restart == \E name \in Name : Command(RestartService(core, ActiveDevices(store), name))

Edits ==
  \/ CreateHostProfile \/ UpdateHostProfile \/ DeleteHostProfile \/ SetActiveHostProfile
  \/ AddDevice \/ RemoveDevice \/ SetDeviceEnabled \/ SetDeviceUseMock
  \/ WriteVehicleProfile \/ DeleteVehicleProfile \/ SetActiveVehicleProfile

Commands == ReloadServices \/ Start \/ Stop \/ Restart

Next == Boot \/ Crash \/ Quit \/ Edits \/ Commands

Spec == Init /\ [][Next]_vars

-----------------------------------------------------------------------------
(* Properties *)

\* Type invariant.
TypeOK == store \in Store /\ core \in Core /\ unannounced \in BOOLEAN

\* An active id names a profile: through deletions of the active profile,
\* replacements, crashes while saving, and what is loaded again after them.
ActiveExists ==
  \A b \in {store.host, store.vehicle} : b.active \in DOMAIN b.profiles \union {None}

\* Between two events a crash loses no more than the last save could not write:
\* every file it did write holds its book, whichever files earlier saves left as
\* they were or truncated, and whatever the two loads of a start made of those.
FilesCurrent ==
  store.up =>
    /\ "host" \notin store.unsaved => store.hostFile.profiles = store.host.profiles
    /\ "vehicle" \notin store.unsaved => store.vehicleFile.profiles = store.vehicle.profiles

Wants(service) == \E d \in Known(ActiveDevices(store)) : d.enabled /\ IsFor(d, service)

\* Unless the active profile was replaced silently, a running service is one the
\* profile enables (or the Bluetooth service the API starts when the profile has
\* none): whatever is edited, in whichever profile, signalled and restarted.
RunningIsConfigured ==
  ~unannounced =>
    /\ core.aa # "none" => Wants("AndroidAuto")
    /\ core.wifi => Wants("WiFi")
    /\ core.bt => Wants("Bluetooth")
                  \/ ~\E d \in Known(ActiveDevices(store)) : IsFor(d, "Bluetooth")

\* A real Android Auto service has a media pipeline: stopping the one deletes the
\* other, a restart does both in turn, and a failed start leaves one behind.
RealHasPipeline == core.aa = "real" => core.pipeline

\* The UI hears of the Android Auto service that runs, however often services
\* are started and reloaded ("Allows dynamic service management from UI without
\* requiring application restart").
ServiceIsHeard == core.aa # "none" => core.heard
=============================================================================
