---------------------------- MODULE ProfileStore ----------------------------
(***************************************************************************)
(* ProfileManager: the host and the vehicle profiles, which of each is     *)
(* active, and the two files they are saved in.                            *)
(*                                                                         *)
(* Host and vehicle profiles are kept alike, in a book: the profiles by    *)
(* id, and the active id, `None' when empty.  Ids stand for their strings, *)
(* in the order the map sorts them.  Of a profile the model keeps its      *)
(* isActive flag and its devices (none, for a vehicle).                    *)
(*                                                                         *)
(* A file holds the profiles of one book.  It is truncated before it is    *)
(* written, so a process that dies in between leaves it empty; what is     *)
(* left of a half-written array does not parse and counts as empty too.    *)
(* Whether a file could be opened and written whole is not looked at: a    *)
(* save may leave one, or both, as it was or truncated.                    *)
(***************************************************************************)
EXTENDS Integers, Sequences

CONSTANTS
  Hosts, Vehicles,  \* bound: how many ids there are for each kind of profile
  Lists,            \* bound: the device lists a profile may have
  Unsafe            \* bound: a save may fail while the host profiles, also in the file, are of these

HostIds == 1..Hosts

VehicleIds == 1..Vehicles

None == 0

\* A device is found by its name; its type, or else its name, says what it is.
Device == [name : STRING, type : STRING, enabled : BOOLEAN, useMock : BOOLEAN]

ASSUME IdAssumption == Hosts \in Nat /\ Vehicles \in Nat
ASSUME ListAssumption == <<>> \in Lists /\ Lists \subseteq Seq(Device)

Profile == [flag : BOOLEAN, devices : Lists]

ASSUME UnsafeAssumption == Unsafe \subseteq Profile

Profiles(ids) == UNION {[s -> Profile] : s \in SUBSET ids}

Book(ids) == [profiles : Profiles(ids), active : ids \union {None}]

File(ids) == [exists : BOOLEAN, profiles : Profiles(ids)]

Store ==
  [up : BOOLEAN, host : Book(HostIds), vehicle : Book(VehicleIds),
   hostFile : File(HostIds), vehicleFile : File(VehicleIds),
   unsaved : SUBSET {"host", "vehicle"}]   \* history: files the last save did not write

-----------------------------------------------------------------------------
(* Books *)

NoProfiles == [id \in {} |-> None]

EmptyBook == [profiles |-> NoProfiles, active |-> None]

FirstKey(profiles) == CHOOSE id \in DOMAIN profiles : \A other \in DOMAIN profiles : id <= other

Put(profiles, id, p) ==
  [i \in DOMAIN profiles \union {id} |-> IF i = id THEN p ELSE profiles[i]]

\* createHostProfile, createVehicleProfile: a profile of the same id is replaced.
\* updateHostProfile, updateVehicleProfile: of a profile that exists.
Written(b, id, p) == [b EXCEPT !.profiles = Put(@, id, p)]

DeleteProfile_NextKey(b, id) ==   \* mutant: the next id is taken to exist
  [profiles |-> [i \in DOMAIN b.profiles \ {id} |-> b.profiles[i]],
   active |-> IF b.active = id THEN id + 1 ELSE b.active]

DeleteProfile_KeepsActive(b, id) ==   \* mutant
  [b EXCEPT !.profiles = [i \in DOMAIN @ \ {id} |-> @[i]]]

\* deleteHostProfile, deleteVehicleProfile: the first profile left succeeds an
\* active one, without its flag.
DeleteProfile(b, id) ==
  LET left == [i \in DOMAIN b.profiles \ {id} |-> b.profiles[i]]
  IN  [profiles |-> left,
       active |-> IF b.active # id THEN b.active
                  ELSE IF DOMAIN left = {} THEN None ELSE FirstKey(left)]

\* setActiveHostProfile, setActiveVehicleProfile
SetActive(b, id) ==
  [profiles |-> [i \in DOMAIN b.profiles |->
                   CASE i = id -> [b.profiles[i] EXCEPT !.flag = TRUE]
                     [] i = b.active /\ i # id -> [b.profiles[i] EXCEPT !.flag = FALSE]
                     [] OTHER -> b.profiles[i]],
   active |-> id]

\* loadProfiles, of one file: into the profiles already there; the last one
\* flagged becomes active.
Loaded(b, file) ==
  LET flagged == {id \in DOMAIN file.profiles : file.profiles[id].flag}
  IN  [profiles |-> [i \in DOMAIN b.profiles \union DOMAIN file.profiles |->
                       IF i \in DOMAIN file.profiles THEN file.profiles[i] ELSE b.profiles[i]],
       active |-> IF flagged = {} THEN b.active
                  ELSE CHOOSE id \in flagged : \A other \in flagged : other <= id]

-----------------------------------------------------------------------------
(* Devices of a profile *)

\* The first device of a name is the one that is found.
FirstNamed(devices, name) ==
  CHOOSE i \in DOMAIN devices :
    devices[i].name = name /\ \A other \in 1..i - 1 : devices[other].name # name

Without(devices, name) ==
  LET left[i \in 0..Len(devices)] ==
        IF i = 0 THEN <<>>
        ELSE IF devices[i].name = name THEN left[i - 1] ELSE Append(left[i - 1], devices[i])
  IN  left[Len(devices)]

-----------------------------------------------------------------------------
(* Files *)

Truncated == [exists |-> TRUE, profiles |-> NoProfiles]

Whole(profiles) == [exists |-> TRUE, profiles |-> profiles]

\* The files that a save of this store may fail to write.
Refusable(s) ==
  IF \A profiles \in {s.host.profiles, s.hostFile.profiles} :
       \A id \in DOMAIN profiles : profiles[id] \in Unsafe
  THEN {"host", "vehicle"} ELSE {}

\* A file that is to hold these profiles: one that does not open stays as it is, a
\* short write does not parse.
Left(file, profiles, which, refused) ==
  IF which \in refused THEN {file, Truncated} ELSE {Whole(profiles)}

LeftFiles(s, refused) ==
  Left(s.hostFile, s.host.profiles, "host", refused)
    \X Left(s.vehicleFile, s.vehicle.profiles, "vehicle", refused)

Saved_HostOnly(s) ==   \* mutant
  {[s EXCEPT !.hostFile = Whole(s.host.profiles), !.unsaved = {}]}

\* saveProfiles: what could not be saved is ignored, the caller is told it was.
Saved(s) ==
  UNION {{[s EXCEPT !.hostFile = f[1], !.vehicleFile = f[2], !.unsaved = refused]
            : f \in LeftFiles(s, refused)} : refused \in SUBSET Refusable(s)}

\* The process is gone; what it saved is left.
Dead(s) ==
  [s EXCEPT !.up = FALSE, !.host = EmptyBook, !.vehicle = EmptyBook, !.unsaved = {}]

\* It dies while it saves, first the host profiles and then the vehicle profiles.
HostFilesLeft(s) ==
  UNION {Left(s.hostFile, s.host.profiles, "host", refused) : refused \in SUBSET Refusable(s)}

Torn(s) ==
  {Dead([s EXCEPT !.hostFile = Truncated])}
    \union {Dead([s EXCEPT !.hostFile = f[1], !.vehicleFile = f[2]])
              : f \in HostFilesLeft(s) \X {s.vehicleFile, Truncated}}

-----------------------------------------------------------------------------
(* Start *)

\* What the constructor finds.
Found(s) ==
  [s EXCEPT !.up = TRUE, !.host = Loaded(EmptyBook, s.hostFile),
            !.vehicle = Loaded(EmptyBook, s.vehicleFile)]

NothingFound(s) == DOMAIN Found(s).host.profiles = {} /\ DOMAIN Found(s).vehicle.profiles = {}

\* initializeDefaultProfiles, with ids drawn anew.
Defaults(s, hostId, vehicleId, devices) ==
  [Found(s) EXCEPT
     !.host = [profiles |-> Put(NoProfiles, hostId, [flag |-> TRUE, devices |-> devices]),
               active |-> hostId],
     !.vehicle = [profiles |-> Put(NoProfiles, vehicleId, [flag |-> TRUE, devices |-> <<>>]),
                  active |-> vehicleId]]

\* The core loads the files once more before it starts the services.
Reloaded(s) ==
  [s EXCEPT !.host = Loaded(@, s.hostFile), !.vehicle = Loaded(@, s.vehicleFile)]
=============================================================================
