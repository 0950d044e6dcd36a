----------------------- MODULE ProfileServices_proofs -----------------------
(***************************************************************************)
(* Proofs about ProfileServices, for any number of profiles and any set of *)
(* device lists.                                                           *)
(*                                                                         *)
(* `Sound' says of the profiles that they are well typed, that an active   *)
(* id names a profile and that the files of a running process are current, *)
(* but for those the last save could not write.  One lemma per operation   *)
(* on a book shows that the book stays well formed; a save leaves each     *)
(* file current or marked, dying empties the books.                        *)
(*                                                                         *)
(* Starting all services is a recursion over the devices.  That it keeps a *)
(* set of cores is shown for any such set, by the least device at which it *)
(* would not.                                                              *)
(*                                                                         *)
(* `Fits' says that the services are ones the active profile enables.  The *)
(* cores that `Fit' a list are closed under what that list can start; when *)
(* the list changes, the service of the name that changed is stopped       *)
(* first, and the devices of other names are the same before and after.    *)
(***************************************************************************)
EXTENDS ProfileServices, TLAPS, WellFoundedInduction

BookOK(b, ids) == b \in Book(ids) /\ b.active \in DOMAIN b.profiles \union {None}

MemoryOK(s) == s \in Store /\ BookOK(s.host, HostIds) /\ BookOK(s.vehicle, VehicleIds)

Current(s) ==
  s.up => /\ "host" \notin s.unsaved => s.hostFile.profiles = s.host.profiles
          /\ "vehicle" \notin s.unsaved => s.vehicleFile.profiles = s.vehicle.profiles

Sound(s) == MemoryOK(s) /\ Current(s)

IInv(I) == Sound(store) /\ core \in I /\ unannounced \in BOOLEAN

-----------------------------------------------------------------------------
(* Numbers and books *)

\* Among the ids of a set there is a least and a greatest.
LEMMA LeastExists ==
  ASSUME NEW S \in SUBSET Nat, S # {}
  PROVE  \E x \in S : \A y \in S : x <= y
<1>1. PICK x \in S : \A y \in S : ~(<<y, x>> \in OpToRel(<, Nat))
  <2>1. IsWellFoundedOn(OpToRel(<, Nat), Nat) BY NatLessThanWellFounded
  <2> DEFINE R == OpToRel(<, Nat)
  <2> HIDE DEF R
  <2>2. \E x \in S : \A y \in S : ~(<<y, x>> \in R) BY <2>1, WFMin DEF R
  <2> QED BY <2>2 DEF R
<1>2. ASSUME NEW y \in S PROVE x <= y
  <2>1. ~(<<y, x>> \in {ss \in Nat \X Nat : ss[1] < ss[2]}) BY <1>1 DEF OpToRel
  <2>2. x \in Nat /\ y \in Nat OBVIOUS
  <2>3. ~(y < x) BY <2>1, <2>2
  <2> QED BY <2>2, <2>3
<1> QED BY <1>2

LEMMA GreatestExists ==
  ASSUME NEW n \in Nat, NEW S \in SUBSET (1..n), S # {}
  PROVE  \E x \in S : \A y \in S : y <= x
<1> DEFINE T == {k \in Nat : \E x \in S : x = n - k}
<1>1. ASSUME NEW x \in S PROVE n - x \in T
  <2>1. x \in Int /\ n - x \in Nat /\ x = n - (n - x) OBVIOUS
  <2> QED BY <2>1
<1>2. T \in SUBSET Nat /\ T # {} BY <1>1
<1>3. PICK t \in T : \A u \in T : t <= u
  <2> HIDE DEF T
  <2> QED BY <1>2, LeastExists
<1>4. t \in Nat /\ \E x \in S : x = n - t BY <1>3
<1>5. PICK x \in S : x = n - t BY <1>4
<1>6. ASSUME NEW y \in S PROVE y <= x
  <2>1. t <= n - y BY <1>1, <1>3
  <2>2. y \in Int /\ x \in Int OBVIOUS
  <2> QED BY <2>1, <2>2, <1>4, <1>5
<1> QED BY <1>6

\* The ids are 1..n for the number n of host or of vehicle profiles.
IdSets == {HostIds, VehicleIds}

LEMMA IdsAreRanges ==
  ASSUME NEW ids \in IdSets
  PROVE  \E n \in Nat : ids = 1..n
BY IdAssumption DEF IdSets, HostIds, VehicleIds

\* A map over ids whose values are profiles is a map of profiles.
LEMMA MapIsProfiles ==
  ASSUME NEW ids, NEW s \in SUBSET ids, NEW m, m \in [s -> Profile]
  PROVE  m \in Profiles(ids) /\ DOMAIN m = s
BY DEF Profiles

\* And the other way round.
LEMMA ProfilesIsMap ==
  ASSUME NEW ids, NEW m \in Profiles(ids)
  PROVE  DOMAIN m \in SUBSET ids /\ m \in [DOMAIN m -> Profile]
BY DEF Profiles

LEMMA NoProfilesOK ==
  ASSUME NEW ids
  PROVE  NoProfiles \in Profiles(ids) /\ DOMAIN NoProfiles = {} /\ BookOK(EmptyBook, ids)
<1>1. NoProfiles \in [{} -> Profile] BY DEF NoProfiles
<1>2. NoProfiles \in Profiles(ids) /\ DOMAIN NoProfiles = {} BY <1>1, MapIsProfiles
<1> QED BY <1>2 DEF EmptyBook, BookOK, Book

LEMMA PutOK ==
  ASSUME NEW ids, NEW m \in Profiles(ids), NEW id \in ids, NEW p \in Profile
  PROVE  Put(m, id, p) \in Profiles(ids)
<1> DEFINE s == DOMAIN m \union {id}
<1>1. s \in SUBSET ids /\ m \in [DOMAIN m -> Profile] BY ProfilesIsMap
<1>2. Put(m, id, p) \in [s -> Profile] BY <1>1 DEF Put
<1> QED BY <1>1, <1>2, MapIsProfiles

\* Every operation on a book leaves it well formed.
LEMMA WrittenOK ==
  ASSUME NEW ids, NEW b, BookOK(b, ids), NEW id \in ids, NEW p \in Profile
  PROVE  BookOK(Written(b, id, p), ids)
<1>1. PICK m : m = b.profiles OBVIOUS
<1>2. m \in Profiles(ids) BY <1>1 DEF BookOK, Book
<1>3. PICK n : n = Put(m, id, p) OBVIOUS
<1>4. n \in Profiles(ids) BY <1>2, <1>3, PutOK
<1>5. DOMAIN n = DOMAIN m \union {id} BY <1>3 DEF Put
<1>6. Written(b, id, p) = [profiles |-> n, active |-> b.active]
  BY <1>1, <1>3 DEF BookOK, Book, Written
<1> QED BY <1>1, <1>4, <1>5, <1>6 DEF BookOK, Book

LEMMA DeleteOK ==
  ASSUME NEW ids \in IdSets, NEW b, BookOK(b, ids), NEW id \in ids
  PROVE  BookOK(DeleteProfile(b, id), ids)
<1> DEFINE left == [i \in DOMAIN b.profiles \ {id} |-> b.profiles[i]]
           s == DOMAIN b.profiles \ {id}
<1>1. b.profiles \in Profiles(ids) BY DEF BookOK, Book
<1>2. s \in SUBSET ids /\ b.profiles \in [DOMAIN b.profiles -> Profile] BY <1>1, ProfilesIsMap
<1>3. left \in [s -> Profile] BY <1>2
<1>4. left \in Profiles(ids) /\ DOMAIN left = s BY <1>2, <1>3, MapIsProfiles, SMTT(60)
<1>5. s # {} => FirstKey(left) \in s
  <2>1. SUFFICES ASSUME s # {} PROVE FirstKey(left) \in s OBVIOUS
  <2>2. s \in SUBSET Nat BY <1>2, IdsAreRanges
  <2>3. \E x \in s : \A y \in s : x <= y BY <2>1, <2>2, LeastExists
  <2> QED BY <2>3, <1>4 DEF FirstKey
<1> DEFINE act == IF b.active # id THEN b.active ELSE IF s = {} THEN None ELSE FirstKey(left)
<1>6. DeleteProfile(b, id) = [profiles |-> left, active |-> act]
  BY <1>4 DEF DeleteProfile
<1>7. act \in s \union {None} BY <1>5 DEF BookOK
<1> HIDE DEF left, act, s
<1>8. act \in ids \union {None} BY <1>2, <1>7
<1> QED BY <1>4, <1>6, <1>7, <1>8 DEF BookOK, Book

LEMMA SetActiveOK ==
  ASSUME NEW ids, NEW b, BookOK(b, ids), NEW id \in DOMAIN b.profiles
  PROVE  BookOK(SetActive(b, id), ids)
<1> DEFINE s == DOMAIN b.profiles
           m == SetActive(b, id).profiles
<1>1. b.profiles \in Profiles(ids) BY DEF BookOK, Book
<1>2. s \in SUBSET ids /\ b.profiles \in [s -> Profile] BY <1>1, ProfilesIsMap
<1>3. \A i \in s, f \in BOOLEAN : [b.profiles[i] EXCEPT !.flag = f] \in Profile
  BY <1>2 DEF Profile
<1>4. m \in [s -> Profile] BY <1>2, <1>3 DEF SetActive
<1>5. m \in Profiles(ids) /\ DOMAIN m = s BY <1>2, <1>4, MapIsProfiles
<1>6. SetActive(b, id) = [profiles |-> m, active |-> id] BY DEF SetActive
<1> HIDE DEF m
<1> QED BY <1>2, <1>5, <1>6 DEF BookOK, Book

LEMMA LoadedOK ==
  ASSUME NEW ids \in IdSets, NEW b, BookOK(b, ids), NEW file \in File(ids)
  PROVE  /\ BookOK(Loaded(b, file), ids)
         /\ DOMAIN b.profiles \subseteq DOMAIN file.profiles
              => Loaded(b, file).profiles = file.profiles
<1> DEFINE s == DOMAIN b.profiles \union DOMAIN file.profiles
           m == Loaded(b, file).profiles
           flagged == {id \in DOMAIN file.profiles : file.profiles[id].flag}
           last == CHOOSE id \in flagged : \A other \in flagged : other <= id
           act == IF flagged = {} THEN b.active ELSE last
<1>1. b.profiles \in Profiles(ids) /\ file.profiles \in Profiles(ids)
  BY DEF BookOK, Book, File
<1>2. /\ DOMAIN b.profiles \in SUBSET ids /\ b.profiles \in [DOMAIN b.profiles -> Profile]
      /\ DOMAIN file.profiles \in SUBSET ids /\ file.profiles \in [DOMAIN file.profiles -> Profile]
  BY <1>1, ProfilesIsMap
<1>3. m = [i \in s |-> IF i \in DOMAIN file.profiles THEN file.profiles[i] ELSE b.profiles[i]]
  BY DEF Loaded
<1>4. s \in SUBSET ids /\ m \in [s -> Profile] BY <1>2, <1>3
<1>5. m \in Profiles(ids) /\ DOMAIN m = s BY <1>4, MapIsProfiles
<1>6. flagged # {} => last \in flagged
  <2>1. SUFFICES ASSUME flagged # {} PROVE last \in flagged OBVIOUS
  <2>2. PICK n \in Nat : ids = 1..n BY IdsAreRanges
  <2>3. flagged \in SUBSET (1..n) BY <1>2, <2>2
  <2> HIDE DEF flagged
  <2>4. \E x \in flagged : \A y \in flagged : y <= x BY <2>1, <2>3, GreatestExists
  <2> QED BY <2>4
<1>7. Loaded(b, file) = [profiles |-> m, active |-> act] BY DEF Loaded
<1>8. act \in s \union {None} BY <1>6 DEF BookOK
<1>9. DOMAIN b.profiles \subseteq DOMAIN file.profiles => m = file.profiles
  <2>1. SUFFICES ASSUME DOMAIN b.profiles \subseteq DOMAIN file.profiles PROVE m = file.profiles
    OBVIOUS
  <2>2. s = DOMAIN file.profiles BY <2>1
  <2> QED BY <2>2, <1>2, <1>3
<1> HIDE DEF m, act, s
<1> QED BY <1>4, <1>5, <1>7, <1>8, <1>9 DEF BookOK, Book

-----------------------------------------------------------------------------
(* The store *)

LEMMA HostOK ==
  ASSUME NEW s, MemoryOK(s), NEW b, BookOK(b, HostIds)
  PROVE  MemoryOK([s EXCEPT !.host = b])
BY DEF MemoryOK, Store, BookOK

LEMMA VehicleOK ==
  ASSUME NEW s, MemoryOK(s), NEW b, BookOK(b, VehicleIds)
  PROVE  MemoryOK([s EXCEPT !.vehicle = b])
BY DEF MemoryOK, Store, BookOK

\* What a save leaves of a file is a file, and whole unless it was refused.
LEMMA LeftOK ==
  ASSUME NEW ids, NEW file \in File(ids), NEW profiles \in Profiles(ids),
         NEW which, NEW refused, NEW f \in Left(file, profiles, which, refused)
  PROVE  f \in File(ids) /\ (which \notin refused => f.profiles = profiles)
<1>1. Truncated \in File(ids) BY NoProfilesOK DEF Truncated, File
<1>2. Whole(profiles) \in File(ids) /\ Whole(profiles).profiles = profiles BY DEF Whole, File
<1> QED BY <1>1, <1>2 DEF Left

\* A save leaves memory alone, and each file current unless it was refused.
LEMMA SavedSound ==
  ASSUME NEW s, MemoryOK(s), NEW t \in Saved(s)
  PROVE  Sound(t) /\ t.up = s.up /\ t.host = s.host
<1>1. /\ s \in Store /\ s.hostFile \in File(HostIds) /\ s.vehicleFile \in File(VehicleIds)
      /\ s.host.profiles \in Profiles(HostIds) /\ s.vehicle.profiles \in Profiles(VehicleIds)
  BY DEF MemoryOK, Store, BookOK, Book
<1>2. PICK refused \in SUBSET Refusable(s) : \E f \in LeftFiles(s, refused) :
        t = [s EXCEPT !.hostFile = f[1], !.vehicleFile = f[2], !.unsaved = refused]
  BY DEF Saved
<1>3. PICK f \in LeftFiles(s, refused) :
        t = [s EXCEPT !.hostFile = f[1], !.vehicleFile = f[2], !.unsaved = refused]
  BY <1>2
<1>4. /\ f[1] \in Left(s.hostFile, s.host.profiles, "host", refused)
      /\ f[2] \in Left(s.vehicleFile, s.vehicle.profiles, "vehicle", refused)
  BY DEF LeftFiles
<1>5. f[1] \in File(HostIds) /\ ("host" \notin refused => f[1].profiles = s.host.profiles)
  BY <1>1, <1>4, LeftOK
<1>6. f[2] \in File(VehicleIds) /\ ("vehicle" \notin refused => f[2].profiles = s.vehicle.profiles)
  BY <1>1, <1>4, LeftOK
<1>7. refused \in SUBSET {"host", "vehicle"} BY <1>2 DEF Refusable
<1>8. t \in Store BY <1>1, <1>3, <1>5, <1>6, <1>7 DEF Store
<1>9. /\ t.up = s.up /\ t.host = s.host /\ t.vehicle = s.vehicle
      /\ t.hostFile = f[1] /\ t.vehicleFile = f[2] /\ t.unsaved = refused
  BY <1>1, <1>3 DEF Store
<1> QED BY <1>5, <1>6, <1>8, <1>9 DEF Sound, Current, MemoryOK

\* A dead process has no books, so its files need not be current.
LEMMA DeadSound ==
  ASSUME NEW s \in Store
  PROVE  Sound(Dead(s))
<1>1. BookOK(EmptyBook, HostIds) /\ BookOK(EmptyBook, VehicleIds) BY NoProfilesOK
<1>2. EmptyBook \in Book(HostIds) /\ EmptyBook \in Book(VehicleIds) BY <1>1 DEF BookOK
<1>3. Dead(s) \in Store BY <1>2 DEF Dead, Store
<1>4. Dead(s).up = FALSE /\ Dead(s).host = EmptyBook /\ Dead(s).vehicle = EmptyBook
  BY DEF Dead, Store
<1> QED BY <1>1, <1>3, <1>4 DEF Sound, MemoryOK, Current

LEMMA TornSound ==
  ASSUME NEW s, MemoryOK(s), NEW t \in Torn(s)
  PROVE  Sound(t)
<1>1. /\ s \in Store /\ s.hostFile \in File(HostIds) /\ s.vehicleFile \in File(VehicleIds)
      /\ s.host.profiles \in Profiles(HostIds)
  BY DEF MemoryOK, Store, BookOK, Book
<1>2. Truncated \in File(HostIds) /\ Truncated \in File(VehicleIds)
  BY NoProfilesOK DEF Truncated, File
<1>3. HostFilesLeft(s) \subseteq File(HostIds) BY <1>1, LeftOK DEF HostFilesLeft
<1>4. CASE t = Dead([s EXCEPT !.hostFile = Truncated])
  <2>1. [s EXCEPT !.hostFile = Truncated] \in Store BY <1>1, <1>2 DEF Store
  <2> QED BY <1>4, <2>1, DeadSound
<1>5. CASE \E f \in HostFilesLeft(s) \X {s.vehicleFile, Truncated} :
             t = Dead([s EXCEPT !.hostFile = f[1], !.vehicleFile = f[2]])
  <2>1. PICK f \in HostFilesLeft(s) \X {s.vehicleFile, Truncated} :
          t = Dead([s EXCEPT !.hostFile = f[1], !.vehicleFile = f[2]])
    BY <1>5
  <2>2. f[1] \in File(HostIds) /\ f[2] \in File(VehicleIds) BY <1>1, <1>2, <1>3
  <2>3. [s EXCEPT !.hostFile = f[1], !.vehicleFile = f[2]] \in Store BY <1>1, <2>2 DEF Store
  <2> QED BY <2>1, <2>3, DeadSound
<1> QED BY <1>4, <1>5 DEF Torn

\* What a file holds is found, and found again when it is loaded once more.
LEMMA FoundSound ==
  ASSUME NEW s \in Store
  PROVE  Sound(Found(s))
<1> DEFINE h == Loaded(EmptyBook, s.hostFile)
           v == Loaded(EmptyBook, s.vehicleFile)
<1>1. /\ BookOK(EmptyBook, HostIds) /\ BookOK(EmptyBook, VehicleIds)
      /\ DOMAIN EmptyBook.profiles = {}
  BY NoProfilesOK DEF EmptyBook
<1>2. s.hostFile \in File(HostIds) /\ s.vehicleFile \in File(VehicleIds) BY DEF Store
<1>3. BookOK(h, HostIds) /\ h.profiles = s.hostFile.profiles
  BY <1>1, <1>2, LoadedOK DEF IdSets
<1>4. BookOK(v, VehicleIds) /\ v.profiles = s.vehicleFile.profiles
  BY <1>1, <1>2, LoadedOK DEF IdSets
<1>5. Found(s) = [s EXCEPT !.up = TRUE, !.host = h, !.vehicle = v] BY DEF Found
<1> HIDE DEF h, v
<1>6. h \in Book(HostIds) /\ v \in Book(VehicleIds) BY <1>3, <1>4 DEF BookOK
<1>7. Found(s) \in Store BY <1>5, <1>6 DEF Store
<1>8. /\ Found(s).host = h /\ Found(s).vehicle = v
      /\ Found(s).hostFile = s.hostFile /\ Found(s).vehicleFile = s.vehicleFile
  BY <1>5 DEF Store
<1> QED BY <1>3, <1>4, <1>7, <1>8 DEF Sound, MemoryOK, Current

LEMMA ReloadedSound ==
  ASSUME NEW s, Sound(s), s.up
  PROVE  Sound(Reloaded(s))
<1> DEFINE h == Loaded(s.host, s.hostFile)
           v == Loaded(s.vehicle, s.vehicleFile)
<1>1. /\ BookOK(s.host, HostIds) /\ BookOK(s.vehicle, VehicleIds) /\ s \in Store
      /\ "host" \notin s.unsaved => s.hostFile.profiles = s.host.profiles
      /\ "vehicle" \notin s.unsaved => s.vehicleFile.profiles = s.vehicle.profiles
  BY DEF Sound, MemoryOK, Current
<1>2. s.hostFile \in File(HostIds) /\ s.vehicleFile \in File(VehicleIds) BY <1>1 DEF Store
<1>3. /\ BookOK(h, HostIds)
      /\ s.hostFile.profiles = s.host.profiles => h.profiles = s.hostFile.profiles
  BY <1>1, <1>2, LoadedOK DEF IdSets
<1>4. /\ BookOK(v, VehicleIds)
      /\ s.vehicleFile.profiles = s.vehicle.profiles => v.profiles = s.vehicleFile.profiles
  BY <1>1, <1>2, LoadedOK DEF IdSets
<1>5. Reloaded(s) = [s EXCEPT !.host = h, !.vehicle = v] BY <1>1 DEF Reloaded, Store
<1> HIDE DEF h, v
<1>6. h \in Book(HostIds) /\ v \in Book(VehicleIds) BY <1>3, <1>4 DEF BookOK
<1>7. Reloaded(s) \in Store BY <1>1, <1>5, <1>6 DEF Store
<1>8. /\ Reloaded(s).host = h /\ Reloaded(s).vehicle = v /\ Reloaded(s).unsaved = s.unsaved
      /\ Reloaded(s).hostFile = s.hostFile /\ Reloaded(s).vehicleFile = s.vehicleFile
  BY <1>1, <1>5 DEF Store
<1> QED BY <1>1, <1>3, <1>4, <1>7, <1>8 DEF Sound, MemoryOK, Current

\* A book of one profile, which is active.
LEMMA DefaultsOK ==
  ASSUME NEW s \in Store, NEW i \in HostIds, NEW j \in VehicleIds
  PROVE  MemoryOK(Defaults(s, i, j, DefaultDevices)) /\ Defaults(s, i, j, DefaultDevices).up
<1> DEFINE p == [flag |-> TRUE, devices |-> DefaultDevices]
           q == [flag |-> TRUE, devices |-> <<>>]
           m == Put(NoProfiles, i, p)
           n == Put(NoProfiles, j, q)
<1>1. p \in Profile /\ q \in Profile BY DefaultAssumption, ListAssumption DEF Profile
<1>2. m \in Profiles(HostIds) /\ i \in DOMAIN m
  <2>1. m \in Profiles(HostIds) BY <1>1, NoProfilesOK, PutOK
  <2> QED BY <2>1 DEF Put
<1>3. n \in Profiles(VehicleIds) /\ j \in DOMAIN n
  <2>1. n \in Profiles(VehicleIds) BY <1>1, NoProfilesOK, PutOK
  <2> QED BY <2>1 DEF Put
<1>4. Defaults(s, i, j, DefaultDevices) =
        [Found(s) EXCEPT !.host = [profiles |-> m, active |-> i],
                         !.vehicle = [profiles |-> n, active |-> j]]
  BY DEF Defaults
<1> HIDE DEF m, n
<1>5. /\ BookOK([profiles |-> m, active |-> i], HostIds)
      /\ BookOK([profiles |-> n, active |-> j], VehicleIds)
  BY <1>2, <1>3 DEF BookOK, Book
<1>6. MemoryOK(Found(s)) BY FoundSound DEF Sound
<1>7. Found(s).up BY DEF Found, Store
<1> HIDE DEF p, q
<1> QED BY <1>4, <1>5, <1>6, <1>7 DEF MemoryOK, Store, BookOK

\* The devices of the active profile are a list of the model.
LEMMA ActiveDevicesOK ==
  ASSUME NEW s, MemoryOK(s)
  PROVE  ActiveDevices(s) \in Lists
<1>1. s.host.profiles \in Profiles(HostIds) BY DEF MemoryOK, BookOK, Book
<1>2. s.host.profiles \in [DOMAIN s.host.profiles -> Profile] BY <1>1, ProfilesIsMap
<1> QED BY <1>2, ListAssumption DEF ActiveDevices, Profile

-----------------------------------------------------------------------------
(* The services *)

\* A set of cores that no start or stop of a service leaves.
Closed(I) ==
  /\ I \subseteq Core /\ Idle \in I
  /\ \A c \in I : /\ StopAA(c) \in I /\ StopWiFi(c) \in I /\ StopBluetooth(c) \in I
                  /\ [c EXCEPT !.heard = c.aa # "none"] \in I
                  /\ StartBluetooth(c) \subseteq I
  /\ \A c \in I, devices \in Lists : \A i \in DOMAIN devices :
       StartDevice(c, devices[i], devices) \subseteq I

\* A set that the starts these devices allow do not leave: only enabled devices are
\* started, and the Bluetooth service without a device only if there is none.
ClosedFor(I, devices) ==
  /\ I \subseteq Core /\ Idle \in I
  /\ \A c \in I : /\ StopAA(c) \in I /\ StopWiFi(c) \in I /\ StopBluetooth(c) \in I
                  /\ [c EXCEPT !.heard = c.aa # "none"] \in I
                  /\ (\A i \in DOMAIN devices : ~IsFor(devices[i], "Bluetooth")) =>
                       StartBluetooth(c) \subseteq I
                  /\ \A i \in DOMAIN devices :
                       devices[i].enabled => StartDevice(c, devices[i], devices) \subseteq I

LEMMA ClosedForEach ==
  ASSUME NEW I, Closed(I)
  PROVE  \A devices \in Lists : ClosedFor(I, devices)
BY DEF Closed, ClosedFor

\* What the i-th device makes of the cores S.
Served(devices, S, i) ==
  IF devices[i].enabled THEN UNION {StartDevice(r, devices[i], devices) : r \in S} ELSE S

\* The recursion of StartAll, to the k-th device.
Run(after, k, c, devices) ==
  after = [i \in 0..k |-> IF i = 0 THEN {c} ELSE Served(devices, after[i - 1], i)]

\* It has a solution to any length.
LEMMA RunExists ==
  ASSUME NEW c, NEW devices
  PROVE  \A k \in Nat : \E after : Run(after, k, c, devices)
<1> DEFINE T == {k \in Nat : ~\E after : Run(after, k, c, devices)}
<1>1. SUFFICES ASSUME T # {} PROVE FALSE OBVIOUS
<1>2. PICK k \in T : \A j \in T : k <= j
  <2>1. T \in SUBSET Nat OBVIOUS
  <2> HIDE DEF T
  <2> QED BY <1>1, <2>1, LeastExists
<1>3. k \in Nat /\ ~\E after : Run(after, k, c, devices) BY <1>2
<1>4. k # 0
  <2>1. SUFFICES ASSUME k = 0 PROVE FALSE OBVIOUS
  <2> DEFINE f == [i \in 0..0 |-> {c}]
  <2>2. Run(f, 0, c, devices)
    <3>1. \A i \in 0..0 : i = 0 OBVIOUS
    <3> QED BY <3>1 DEF Run
  <2> QED BY <1>3, <2>1, <2>2
<1>5. k - 1 \in Nat /\ k - 1 \notin T BY <1>2, <1>3, <1>4
<1>6. PICK f : Run(f, k - 1, c, devices) BY <1>5
<1> DEFINE Next_(h, i) == IF i = 0 THEN {c} ELSE Served(devices, h[i - 1], i)
           g == [i \in 0..k |-> Next_(f, i)]
<1>7. \A i \in 0..k - 1 : f[i] = Next_(f, i) BY <1>6 DEF Run
<1>8. \A i \in 0..k : i # 0 => g[i - 1] = f[i - 1]
  <2>1. SUFFICES ASSUME NEW i \in 0..k, i # 0 PROVE g[i - 1] = f[i - 1] OBVIOUS
  <2>2. i - 1 \in 0..k /\ i - 1 \in 0..k - 1 BY <1>3, <2>1
  <2>3. g[i - 1] = Next_(f, i - 1)
    <3> HIDE DEF Next_
    <3> QED BY <2>2
  <2> QED BY <2>2, <2>3, <1>7
<1>9. g = [i \in 0..k |-> Next_(g, i)]
  <2>1. \A i \in 0..k : Next_(f, i) = Next_(g, i)
    <3> HIDE DEF g
    <3> QED BY <1>8
  <2> HIDE DEF Next_
  <2> QED BY <2>1
<1>10. Run(g, k, c, devices) BY <1>9 DEF Run
<1> QED BY <1>3, <1>10

\* So starting all services stays within a closed set.
LEMMA StartAllIn ==
  ASSUME NEW I, NEW devices \in Lists, ClosedFor(I, devices), NEW c \in I
  PROVE  StartAll(c, devices) \subseteq I
<1> DEFINE n == Len(devices)
           after == CHOOSE f : Run(f, n, c, devices)
           Bad == {k \in 0..n : ~(after[k] \subseteq I)}
<1>1. n \in Nat /\ DOMAIN devices = 1..n BY ListAssumption
<1>2. StartAll(c, devices) = after[n] BY DEF StartAll, Run, Served
<1>3. Run(after, n, c, devices)
  <2> HIDE DEF n
  <2> QED BY <1>1, RunExists
<1> HIDE DEF after
<1>4. SUFFICES ASSUME Bad # {} PROVE FALSE
  <2>1. n \in 0..n BY <1>1
  <2> QED BY <1>2, <2>1
<1>5. PICK k \in Bad : \A j \in Bad : k <= j
  <2>1. Bad \in SUBSET Nat OBVIOUS
  <2> HIDE DEF Bad
  <2> QED BY <1>4, <2>1, LeastExists
<1>6. k \in 0..n /\ ~(after[k] \subseteq I) BY <1>5
<1>7. after[k] = IF k = 0 THEN {c} ELSE Served(devices, after[k - 1], k) BY <1>3, <1>6 DEF Run
<1>8. k # 0 BY <1>6, <1>7
<1>9. k - 1 \in 0..n /\ k \in DOMAIN devices BY <1>1, <1>6, <1>8
<1>10. after[k - 1] \subseteq I BY <1>5, <1>6, <1>9
<1>11. devices[k].enabled =>
          \A r \in after[k - 1] : StartDevice(r, devices[k], devices) \subseteq I
  BY <1>9, <1>10 DEF ClosedFor
<1>12. Served(devices, after[k - 1], k) \subseteq I BY <1>10, <1>11 DEF Served
<1> QED BY <1>6, <1>7, <1>8, <1>12

LEMMA ReloadIn ==
  ASSUME NEW I, NEW devices \in Lists, ClosedFor(I, devices), NEW c \in I
  PROVE  Reload(c, devices) \subseteq I
<1>1. StopAll(c) \in I BY DEF ClosedFor, StopAll
<1> QED BY <1>1, StartAllIn DEF Reload

LEMMA StartServiceIn ==
  ASSUME NEW I, NEW devices \in Lists, ClosedFor(I, devices), NEW c \in I, NEW name
  PROVE  StartService(c, devices, name) \subseteq I
<1> DEFINE found == {i \in DOMAIN devices : name \in {devices[i].name, devices[i].type}}
           first == CHOOSE i \in found : \A other \in found : i <= other
<1>1. found # {} => first \in found
  <2>1. SUFFICES ASSUME found # {} PROVE first \in found OBVIOUS
  <2>2. found \in SUBSET Nat BY ListAssumption
  <2> HIDE DEF found
  <2>3. \E i \in found : \A other \in found : i <= other BY <2>1, <2>2, LeastExists
  <2> QED BY <2>3
<1>2. found # {} /\ devices[first].enabled =>
        StartDevice(c, devices[first], devices) \subseteq I
  <2>1. SUFFICES ASSUME found # {}, devices[first].enabled
                 PROVE  StartDevice(c, devices[first], devices) \subseteq I
    OBVIOUS
  <2>2. first \in DOMAIN devices BY <1>1, <2>1
  <2> HIDE DEF first
  <2> QED BY <2>1, <2>2 DEF ClosedFor
<1>3. found = {} /\ name = "Bluetooth" => StartBluetooth(c) \subseteq I
  BY DEF ClosedFor, IsFor
<1>4. StartService(c, devices, name) =
        IF found # {}
        THEN IF devices[first].enabled THEN StartDevice(c, devices[first], devices) ELSE {c}
        ELSE IF name = "Bluetooth" THEN StartBluetooth(c) ELSE {c}
  BY DEF StartService
<1> HIDE DEF found, first
<1> QED BY <1>2, <1>3, <1>4

LEMMA StopServiceIn ==
  ASSUME NEW I, NEW devices, ClosedFor(I, devices), NEW c \in I, NEW name
  PROVE  StopService(c, name) \in I
BY DEF ClosedFor, StopService

LEMMA RestartServiceIn ==
  ASSUME NEW I, NEW devices \in Lists, ClosedFor(I, devices), NEW c \in I, NEW name
  PROVE  RestartService(c, devices, name) \subseteq I
BY StopServiceIn, StartServiceIn DEF RestartService

\* What a start of the Android Auto service leaves, from well typed cores.
LEMMA StartAAIn ==
  ASSUME NEW c \in Core, NEW d \in Device, NEW devices
  PROVE  \A r \in StartAA(c, d, devices) :
           /\ r \in Core
           /\ r.aa \in {"none", Created(devices)}
           /\ r.aa # "none" => (~d.useMock => r.pipeline)
           /\ r.wifi = c.wifi /\ r.bt = c.bt
<1> DEFINE stopped == IF c.aa # "none" THEN StopAA(c) ELSE c
           ready == [stopped EXCEPT !.pipeline = @ \/ ~d.useMock]
           cr == Created(devices)
<1>1. cr \in {"mock", "real"} BY DEF Created
<1>2. stopped \in Core /\ stopped.aa = "none" /\ stopped.wifi = c.wifi /\ stopped.bt = c.bt
  BY DEF StopAA, Core
<1>3. StartAA(c, d, devices) \subseteq
        {[ready EXCEPT !.aa = cr], ready, stopped}
  BY DEF StartAA
<1> HIDE DEF stopped, cr
<1>4. d.useMock \in BOOLEAN BY DEF Device
<1>5. /\ ready \in Core /\ ready.aa = "none" /\ (~d.useMock => ready.pipeline)
      /\ ready.wifi = c.wifi /\ ready.bt = c.bt
  BY <1>2, <1>4 DEF Core
<1> HIDE DEF ready
<1>6. LET r == [ready EXCEPT !.aa = cr]
      IN  /\ r \in Core /\ r.aa = cr /\ (~d.useMock => r.pipeline)
          /\ r.wifi = c.wifi /\ r.bt = c.bt
  BY <1>1, <1>5 DEF Core
<1> QED BY <1>2, <1>3, <1>5, <1>6 DEF cr

\* Starting a service that is not Android Auto leaves that one alone.
LEMMA StartOtherIn ==
  ASSUME NEW c \in Core
  PROVE  \A r \in StartWiFi(c) \union StartBluetooth(c) \union {c} :
           r \in Core /\ r.aa = c.aa /\ r.pipeline = c.pipeline
<1>1. \A ok \in BOOLEAN : LET r == [StopWiFi(c) EXCEPT !.wifi = ok]
                          IN  r \in Core /\ r.aa = c.aa /\ r.pipeline = c.pipeline
  BY DEF StopWiFi, Core
<1>2. \A ok \in BOOLEAN : LET r == [StopBluetooth(c) EXCEPT !.bt = ok]
                          IN  r \in Core /\ r.aa = c.aa /\ r.pipeline = c.pipeline
  BY DEF StopBluetooth, Core
<1> QED BY <1>1, <1>2 DEF StartWiFi, StartBluetooth

LEMMA StartDeviceIs ==
  ASSUME NEW c, NEW d, NEW devices
  PROVE  /\ IsFor(d, "AndroidAuto") => StartDevice(c, d, devices) = StartAA(c, d, devices)
         /\ ~IsFor(d, "AndroidAuto") =>
              StartDevice(c, d, devices) \subseteq StartWiFi(c) \union StartBluetooth(c) \union {c}
BY DEF StartDevice

\* The devices of a list are devices.
LEMMA DevicesAre ==
  ASSUME NEW devices \in Lists, NEW i \in DOMAIN devices
  PROVE  devices[i] \in Device
BY ListAssumption

\* All cores are closed.
LEMMA CoreClosed == Closed(Core)
<1>1. Idle \in Core BY DEF Idle, Core
<1>2. ASSUME NEW c \in Core
      PROVE  /\ StopAA(c) \in Core /\ StopWiFi(c) \in Core /\ StopBluetooth(c) \in Core
             /\ [c EXCEPT !.heard = c.aa # "none"] \in Core
  BY DEF StopAA, StopWiFi, StopBluetooth, Core
<1>3. ASSUME NEW c \in Core PROVE StartBluetooth(c) \subseteq Core BY StartOtherIn
<1>4. ASSUME NEW c \in Core, NEW devices \in Lists, NEW i \in DOMAIN devices
      PROVE  StartDevice(c, devices[i], devices) \subseteq Core
  <2>1. devices[i] \in Device BY DevicesAre
  <2> QED BY <2>1, StartAAIn, StartOtherIn, StartDeviceIs
<1> QED BY <1>1, <1>2, <1>3, <1>4 DEF Closed

\* The Android Auto devices of a list agree whether to mock.
OneMode ==
  \A devices \in Lists : \A i, j \in DOMAIN devices :
    IsFor(devices[i], "AndroidAuto") /\ IsFor(devices[j], "AndroidAuto") =>
      devices[i].useMock = devices[j].useMock

Piped == {c \in Core : c.aa = "real" => c.pipeline}

\* Then so are the cores in which a real service has a pipeline.
LEMMA PipedClosed ==
  ASSUME OneMode
  PROVE  Closed(Piped)
<1>1. Piped \subseteq Core /\ Idle \in Piped BY DEF Piped, Idle, Core
<1>2. ASSUME NEW c \in Piped
      PROVE  /\ StopAA(c) \in Piped /\ StopWiFi(c) \in Piped /\ StopBluetooth(c) \in Piped
             /\ [c EXCEPT !.heard = c.aa # "none"] \in Piped
  BY DEF StopAA, StopWiFi, StopBluetooth, Core, Piped
<1>3. ASSUME NEW c \in Piped
      PROVE  StartWiFi(c) \union StartBluetooth(c) \union {c} \subseteq Piped
  BY StartOtherIn DEF Piped
<1>4. ASSUME NEW c \in Piped, NEW devices \in Lists, NEW i \in DOMAIN devices,
             IsFor(devices[i], "AndroidAuto")
      PROVE  StartAA(c, devices[i], devices) \subseteq Piped
  <2>1. devices[i] \in Device /\ c \in Core BY DevicesAre DEF Piped
  <2>2. Created(devices) = "real" => ~devices[i].useMock
    <3> DEFINE found == {k \in DOMAIN devices : IsFor(devices[k], "AndroidAuto")}
               first == CHOOSE k \in found : \A other \in found : k <= other
    <3>1. i \in found /\ found \in SUBSET Nat BY <1>4, ListAssumption
    <3> HIDE DEF found
    <3>2. \E k \in found : \A other \in found : k <= other BY <3>1, LeastExists
    <3>3. first \in found BY <3>2
    <3> HIDE DEF first
    <3>4. first \in DOMAIN devices /\ IsFor(devices[first], "AndroidAuto") BY <3>3 DEF found
    <3>5. devices[first].useMock = devices[i].useMock BY <1>4, <3>4 DEF OneMode
    <3>6. Created(devices) = "real" => ~devices[first].useMock
      <4>1. Created(devices) = IF found = {} \/ devices[first].useMock THEN "mock" ELSE "real"
        BY DEF Created, found, first
      <4> QED BY <4>1
    <3> QED BY <3>5, <3>6
  <2> QED BY <2>1, <2>2, StartAAIn DEF Piped
<1>5. ASSUME NEW c \in Piped, NEW devices \in Lists, NEW i \in DOMAIN devices
      PROVE  StartDevice(c, devices[i], devices) \subseteq Piped
  BY <1>3, <1>4, <1>5, StartDeviceIs
<1> QED BY <1>1, <1>2, <1>3, <1>5 DEF Closed

-----------------------------------------------------------------------------
(* The services that run are wanted *)

\* A device is named after its service, as initializeDefaultProfiles names all of them.
NamedAfterService ==
  \A devices \in Lists : \A i \in DOMAIN devices : \A service \in Service :
    IsFor(devices[i], service) => devices[i].name = service

Wanted(devices, service) == \E d \in Known(devices) : d.enabled /\ IsFor(d, service)

\* The cores that a profile with these devices may have.
Fit(devices) ==
  {c \in Core :
     /\ c.aa # "none" => Wanted(devices, "AndroidAuto")
     /\ c.wifi => Wanted(devices, "WiFi")
     /\ c.bt => Wanted(devices, "Bluetooth")
                \/ ~\E d \in Known(devices) : IsFor(d, "Bluetooth")}

\* What a start of the WiFi or the Bluetooth service leaves of the others.
LEMMA StartRadioIn ==
  ASSUME NEW c \in Core
  PROVE  /\ \A r \in StartWiFi(c) : r \in Core /\ r.aa = c.aa /\ r.bt = c.bt
         /\ \A r \in StartBluetooth(c) : r \in Core /\ r.aa = c.aa /\ r.wifi = c.wifi
<1>1. \A ok \in BOOLEAN : LET r == [StopWiFi(c) EXCEPT !.wifi = ok]
                          IN  r \in Core /\ r.aa = c.aa /\ r.bt = c.bt
  BY DEF StopWiFi, Core
<1>2. \A ok \in BOOLEAN : LET r == [StopBluetooth(c) EXCEPT !.bt = ok]
                          IN  r \in Core /\ r.aa = c.aa /\ r.wifi = c.wifi
  BY DEF StopBluetooth, Core
<1> QED BY <1>1, <1>2 DEF StartWiFi, StartBluetooth

LEMMA FitClosed ==
  ASSUME NEW devices \in Lists
  PROVE  ClosedFor(Fit(devices), devices)
<1>1. Fit(devices) \subseteq Core /\ Idle \in Fit(devices) BY DEF Fit, Idle, Core
<1>2. ASSUME NEW c \in Fit(devices)
      PROVE  /\ StopAA(c) \in Fit(devices) /\ StopWiFi(c) \in Fit(devices)
             /\ StopBluetooth(c) \in Fit(devices)
             /\ [c EXCEPT !.heard = c.aa # "none"] \in Fit(devices)
  BY DEF StopAA, StopWiFi, StopBluetooth, Core, Fit
<1>3. ASSUME NEW c \in Fit(devices), \A i \in DOMAIN devices : ~IsFor(devices[i], "Bluetooth")
      PROVE  StartBluetooth(c) \subseteq Fit(devices)
  BY <1>3, StartRadioIn DEF Fit, Known
<1>4. ASSUME NEW c \in Fit(devices), NEW i \in DOMAIN devices, devices[i].enabled
      PROVE  StartDevice(c, devices[i], devices) \subseteq Fit(devices)
  <2> DEFINE d == devices[i]
  <2>1. c \in Core /\ d \in Device /\ d \in Known(devices) /\ d.enabled
    BY <1>4, DevicesAre DEF Fit, Known
  <2> HIDE DEF d
  <2>2. ASSUME IsFor(d, "AndroidAuto") PROVE StartAA(c, d, devices) \subseteq Fit(devices)
    BY <2>1, <2>2, StartAAIn DEF Fit, Wanted
  <2>3. ASSUME IsFor(d, "WiFi") PROVE StartWiFi(c) \subseteq Fit(devices)
    BY <2>1, <2>3, StartRadioIn DEF Fit, Wanted
  <2>4. ASSUME IsFor(d, "Bluetooth") PROVE StartBluetooth(c) \subseteq Fit(devices)
    BY <2>1, <2>4, StartRadioIn DEF Fit, Wanted
  <2>5. StartDevice(c, d, devices) \subseteq Fit(devices)
    BY <2>2, <2>3, <2>4 DEF StartDevice
  <2> QED BY <2>5 DEF d
<1> QED BY <1>1, <1>2, <1>3, <1>4 DEF ClosedFor

\* Two lists have the same devices, those of one name excepted.
Agree(devices, others, name) ==
  \A d : d.name # name => (d \in Known(devices) <=> d \in Known(others))

\* So a service that a device of that name may have been for is the one that is stopped.
LEMMA StoppedFits ==
  ASSUME NamedAfterService, NEW devices \in Lists, NEW others \in Lists, NEW name,
         Agree(devices, others, name), NEW c \in Fit(devices)
  PROVE  StopService(c, name) \in Fit(others)
<1> DEFINE r == StopService(c, name)
<1>1. ClosedFor(Fit(devices), devices) BY FitClosed
<1>2. r \in Fit(devices) BY <1>1, StopServiceIn
<1>3. /\ name = "AndroidAuto" => r.aa = "none"
      /\ name = "WiFi" => ~r.wifi
      /\ name = "Bluetooth" => ~r.bt
  BY DEF StopService, StopAA, StopWiFi, StopBluetooth, Fit, Core
<1>4. ASSUME NEW service \in Service, service # name
      PROVE  /\ Wanted(devices, service) => Wanted(others, service)
             /\ (\E d \in Known(others) : IsFor(d, service)) =>
                  \E d \in Known(devices) : IsFor(d, service)
  <2>1. \A d \in Known(devices) \union Known(others) : IsFor(d, service) => d.name = service
    BY DEF NamedAfterService, Known
  <2> QED BY <1>4, <2>1 DEF Agree, Wanted
<1> HIDE DEF r
<1>5. {"AndroidAuto", "WiFi", "Bluetooth"} \subseteq Service BY DEF Service
<1>6. r \in Fit(others)
  <2>1. r.aa # "none" => Wanted(others, "AndroidAuto") BY <1>2, <1>3, <1>4, <1>5 DEF Fit
  <2>2. r.wifi => Wanted(others, "WiFi") BY <1>2, <1>3, <1>4, <1>5 DEF Fit
  <2>3. r.bt => Wanted(others, "Bluetooth") \/ ~\E d \in Known(others) : IsFor(d, "Bluetooth")
    BY <1>2, <1>3, <1>4, <1>5 DEF Fit
  <2>4. r \in Core BY <1>2 DEF Fit
  <2> QED BY <2>1, <2>2, <2>3, <2>4 DEF Fit
<1> QED BY <1>6 DEF r

-----------------------------------------------------------------------------
(* Edits of a list: the devices of other names stay as they are *)

\* What becomes of the devices l, the i-th included, when those of a name go.
Spared(l, left, i, name) == IF l[i].name = name THEN left ELSE Append(left, l[i])

\* The recursion of Without, to the k-th device.
Sparing(left, k, l, name) ==
  left = [i \in 0..k |-> IF i = 0 THEN <<>> ELSE Spared(l, left[i - 1], i, name)]

\* It has a solution to any length.
LEMMA SparingExists ==
  ASSUME NEW l, NEW name
  PROVE  \A k \in Nat : \E left : Sparing(left, k, l, name)
<1> DEFINE T == {k \in Nat : ~\E left : Sparing(left, k, l, name)}
<1>1. SUFFICES ASSUME T # {} PROVE FALSE OBVIOUS
<1>2. PICK k \in T : \A j \in T : k <= j
  <2>1. T \in SUBSET Nat OBVIOUS
  <2> HIDE DEF T
  <2> QED BY <1>1, <2>1, LeastExists
<1>3. k \in Nat /\ ~\E left : Sparing(left, k, l, name) BY <1>2
<1>4. k # 0
  <2>1. SUFFICES ASSUME k = 0 PROVE FALSE OBVIOUS
  <2> DEFINE f == [i \in 0..0 |-> <<>>]
  <2>2. Sparing(f, 0, l, name)
    <3>1. \A i \in 0..0 : i = 0 OBVIOUS
    <3> QED BY <3>1 DEF Sparing
  <2> QED BY <1>3, <2>1, <2>2
<1>5. k - 1 \in Nat /\ k - 1 \notin T BY <1>2, <1>3, <1>4
<1>6. PICK f : Sparing(f, k - 1, l, name) BY <1>5
<1> DEFINE Next_(h, i) == IF i = 0 THEN <<>> ELSE Spared(l, h[i - 1], i, name)
           g == [i \in 0..k |-> Next_(f, i)]
<1>7. \A i \in 0..k - 1 : f[i] = Next_(f, i) BY <1>6 DEF Sparing
<1>8. \A i \in 0..k : i # 0 => g[i - 1] = f[i - 1]
  <2>1. SUFFICES ASSUME NEW i \in 0..k, i # 0 PROVE g[i - 1] = f[i - 1] OBVIOUS
  <2>2. i - 1 \in 0..k /\ i - 1 \in 0..k - 1 BY <1>3, <2>1
  <2>3. g[i - 1] = Next_(f, i - 1)
    <3> HIDE DEF Next_
    <3> QED BY <2>2
  <2> QED BY <2>2, <2>3, <1>7
<1>9. g = [i \in 0..k |-> Next_(g, i)]
  <2>1. \A i \in 0..k : Next_(f, i) = Next_(g, i)
    <3> HIDE DEF g
    <3> QED BY <1>8
  <2> HIDE DEF Next_
  <2> QED BY <2>1
<1>10. Sparing(g, k, l, name) BY <1>9 DEF Sparing
<1> QED BY <1>3, <1>10

LEMMA KnownOfAppend ==
  ASSUME NEW l \in Seq(Device), NEW d \in Device
  PROVE  Known(Append(l, d)) = Known(l) \union {d}
<1> DEFINE m == Append(l, d)
<1>1. DOMAIN l = 1..Len(l) /\ Len(l) \in Nat /\ DOMAIN m = 1..Len(l) + 1 OBVIOUS
<1>2. m[Len(l) + 1] = d /\ \A i \in 1..Len(l) : m[i] = l[i] BY <1>1
<1>3. DOMAIN m = DOMAIN l \union {Len(l) + 1} BY <1>1
<1> HIDE DEF m
<1>4. Known(m) = Known(l) \union {d} BY <1>1, <1>2, <1>3 DEF Known
<1> QED BY <1>4 DEF m

\* removeDeviceFromHostProfile spares the devices of other names.
LEMMA WithoutAgrees ==
  ASSUME NEW l \in Lists, NEW name
  PROVE  Agree(l, Without(l, name), name)
<1> DEFINE n == Len(l)
           left == CHOOSE f : Sparing(f, n, l, name)
           Right(k) == /\ left[k] \in Seq(Device)
                       /\ \A d : d.name # name =>
                            (d \in Known(left[k]) <=> \E i \in 1..k : d = l[i])
           Bad == {k \in 0..n : ~Right(k)}
<1>1. n \in Nat /\ DOMAIN l = 1..n BY ListAssumption
<1>2. Without(l, name) = left[n] BY DEF Without, Sparing, Spared
<1>3. Sparing(left, n, l, name)
  <2> HIDE DEF n
  <2> QED BY <1>1, SparingExists
<1> HIDE DEF left
<1>4. SUFFICES ASSUME Bad # {} PROVE FALSE
  <2>1. n \in 0..n BY <1>1
  <2>2. Bad = {} => Right(n) BY <2>1
  <2>3. Right(n) => Agree(l, left[n], name) BY <1>1 DEF Agree, Known
  <2> QED BY <1>2, <2>2, <2>3
<1>5. PICK k \in Bad : \A j \in Bad : k <= j
  <2>1. Bad \in SUBSET Nat OBVIOUS
  <2> HIDE DEF Bad
  <2> QED BY <1>4, <2>1, LeastExists
<1>6. k \in 0..n /\ ~Right(k) BY <1>5
<1>7. left[k] = IF k = 0 THEN <<>> ELSE Spared(l, left[k - 1], k, name)
  BY <1>3, <1>6 DEF Sparing
<1>8. k # 0 BY <1>6, <1>7 DEF Known
<1>9. k - 1 \in 0..n /\ k \in DOMAIN l /\ k \in Nat BY <1>1, <1>6, <1>8
<1>10. Right(k - 1) BY <1>5, <1>6, <1>9
<1>11. l[k] \in Device BY <1>9, DevicesAre
<1>12. \A d : (\E i \in 1..k : d = l[i]) <=> (\E i \in 1..k - 1 : d = l[i]) \/ d = l[k]
  <2>1. 1..k = 1..k - 1 \union {k} BY <1>8, <1>9
  <2> QED BY <2>1
<1>13. left[k] = Spared(l, left[k - 1], k, name) BY <1>7, <1>8
<1>14. CASE l[k].name = name BY <1>6, <1>10, <1>12, <1>13, <1>14 DEF Spared
<1>15. CASE l[k].name # name
  <2>1. left[k] = Append(left[k - 1], l[k]) BY <1>13, <1>15 DEF Spared
  <2>2. left[k] \in Seq(Device) BY <1>10, <1>11, <2>1
  <2>3. Known(left[k]) = Known(left[k - 1]) \union {l[k]}
    BY <1>10, <1>11, <2>1, KnownOfAppend
  <2> QED BY <1>6, <1>10, <1>12, <2>2, <2>3
<1> QED BY <1>14, <1>15

\* addDeviceToHostProfile
LEMMA AppendAgrees ==
  ASSUME NEW l \in Lists, NEW d \in Device
  PROVE  Agree(l, Append(l, d), d.name)
BY ListAssumption, KnownOfAppend DEF Agree

\* setDeviceEnabled, setDeviceUseMock: of the first device of a name.
LEMMA ChangeAgrees ==
  ASSUME NEW l \in Lists, NEW d \in Known(l), NEW new, new.name = d.name
  PROVE  LET first == FirstNamed(l, d.name)
         IN  first \in DOMAIN l /\ l[first].name = d.name
             /\ Agree(l, [l EXCEPT ![first] = new], d.name)
<1> DEFINE named == {i \in DOMAIN l : l[i].name = d.name}
           first == FirstNamed(l, d.name)
<1>1. named \in SUBSET Nat /\ named # {} /\ DOMAIN l = 1..Len(l) /\ Len(l) \in Nat
  BY ListAssumption DEF Known
<1>2. PICK i \in named : \A j \in named : i <= j
  <2> HIDE DEF named
  <2> QED BY <1>1, LeastExists
<1>3. \A other \in 1..i - 1 : l[other].name # d.name
  <2>1. SUFFICES ASSUME NEW other \in 1..i - 1, l[other].name = d.name PROVE FALSE OBVIOUS
  <2>2. i \in Nat /\ other \in DOMAIN l /\ other < i BY <1>1, <1>2
  <2>3. other \in named BY <2>1, <2>2
  <2> QED BY <1>2, <2>2, <2>3
<1>4. first \in DOMAIN l /\ l[first].name = d.name BY <1>2, <1>3 DEF FirstNamed
<1> HIDE DEF first
<1>5. Agree(l, [l EXCEPT ![first] = new], d.name) BY <1>4 DEF Agree, Known
<1> QED BY <1>4, <1>5 DEF first

-----------------------------------------------------------------------------
(* The steps *)

LEMMA InitIInv ==
  ASSUME NEW I, Closed(I), Init
  PROVE  IInv(I)
<1>1. BookOK(EmptyBook, HostIds) /\ BookOK(EmptyBook, VehicleIds) BY NoProfilesOK
<1>2. Sound(store)
  <2>1. EmptyBook \in Book(HostIds) /\ EmptyBook \in Book(VehicleIds) BY <1>1 DEF BookOK
  <2>2. store \in Store BY <2>1, NoProfilesOK DEF Init, Store, File
  <2>3. ~store.up /\ store.host = EmptyBook /\ store.vehicle = EmptyBook BY DEF Init
  <2> QED BY <1>1, <2>2, <2>3 DEF Sound, MemoryOK, Current
<1> QED BY <1>2 DEF IInv, Init, Closed

LEMMA DownIInv ==
  ASSUME NEW I, Closed(I), Down, Sound(store')
  PROVE  IInv(I)'
BY DEF Down, IInv, Closed, Sound, MemoryOK, Current

LEMMA RunsIInv ==
  ASSUME NEW I, Closed(I), NEW s, Sound(s), Runs(s)
  PROVE  IInv(I)'
<1>1. MemoryOK(s) /\ ActiveDevices(s) \in Lists BY ActiveDevicesOK DEF Sound
<1>2. StartAll(Idle, ActiveDevices(s)) \subseteq I BY <1>1, StartAllIn, ClosedForEach DEF Closed
<1>3. core' \in I BY <1>2 DEF Runs, Closed
<1> QED BY <1>3 DEF Runs, IInv, Sound, MemoryOK, Current

LEMMA EditIInv ==
  ASSUME NEW I, Closed(I), NEW s, MemoryOK(s), NEW cores, cores \subseteq I,
         NEW replaced \in BOOLEAN, Edit(s, cores, replaced)
  PROVE  IInv(I)'
<1>1. CASE store' \in Saved(s) /\ core' \in cores /\ unannounced' = replaced
  BY <1>1, SavedSound DEF IInv, Sound, MemoryOK, Current
<1>2. CASE store' \in Torn(s) /\ Down
  <2>1. Sound(store') BY <1>2, TornSound
  <2> QED BY <1>2, <2>1, DownIInv
<1> QED BY <1>1, <1>2 DEF Edit

LEMMA AnnouncedIInv ==
  ASSUME NEW I, Closed(I), IInv(I), NEW s, MemoryOK(s), Announced(s)
  PROVE  IInv(I)'
<1>1. ActiveDevices(s) \in Lists BY ActiveDevicesOK
<1>2. Reload(core, ActiveDevices(s)) \subseteq I BY <1>1, ReloadIn, ClosedForEach DEF IInv
<1> QED BY <1>2, EditIInv DEF Announced

LEMMA SilentIInv ==
  ASSUME NEW I, Closed(I), IInv(I), NEW s, MemoryOK(s), Silent(s)
  PROVE  IInv(I)'
<1>1. {core} \subseteq I BY DEF IInv
<1> DEFINE replaced == unannounced \/ ActiveDevices(s) # ActiveDevices(store)
<1>2. replaced \in BOOLEAN OBVIOUS
<1>3. Edit(s, {core}, replaced) BY DEF Silent
<1> HIDE DEF replaced
<1> QED BY <1>1, <1>2, <1>3, EditIInv

LEMMA DevicesPut ==
  ASSUME MemoryOK(store), NEW id \in DOMAIN store.host.profiles, NEW devices \in Lists
  PROVE  LET s == [store EXCEPT !.host.profiles[id].devices = devices]
         IN  /\ MemoryOK(s)
             /\ ActiveDevices(store) \in Lists
             /\ ActiveDevices(s) = IF store.host.active = id THEN devices ELSE ActiveDevices(store)
             /\ store.host.active = id => ActiveDevices(store) = DevicesOf(id)
<1> DEFINE s == [store EXCEPT !.host.profiles[id].devices = devices]
           p == [store.host.profiles[id] EXCEPT !.devices = devices]
           m == [store.host.profiles EXCEPT ![id] = p]
           b == [store.host EXCEPT !.profiles = m]
<1>1. /\ store.host.profiles \in Profiles(HostIds) /\ BookOK(store.host, HostIds)
      /\ store \in Store /\ store.host \in Book(HostIds)
  BY DEF MemoryOK, BookOK, Book
<1>2. store.host.profiles \in [DOMAIN store.host.profiles -> Profile] BY <1>1, ProfilesIsMap
<1>3. p \in Profile /\ p.devices = devices BY <1>2 DEF Profile
<1>4. m \in Profiles(HostIds) /\ DOMAIN m = DOMAIN store.host.profiles
  <2> HIDE DEF p
  <2>1. m \in [DOMAIN store.host.profiles -> Profile] BY <1>2, <1>3
  <2>2. DOMAIN store.host.profiles \in SUBSET HostIds BY <1>1, ProfilesIsMap
  <2> HIDE DEF m
  <2> QED BY <2>1, <2>2, MapIsProfiles
<1>5. m[id] = p /\ \A other \in DOMAIN m : other # id => m[other] = store.host.profiles[other]
  <2> HIDE DEF p
  <2> QED OBVIOUS
<1>6. BookOK(b, HostIds) /\ b.active = store.host.active /\ b.profiles = m
  <2> HIDE DEF m
  <2> QED BY <1>1, <1>4 DEF BookOK, Book
<1>7. s = [store EXCEPT !.host = b] OBVIOUS
<1> HIDE DEF s, b, m, p
<1>8. MemoryOK(s) BY <1>6, <1>7, HostOK
<1>9. s.host = b BY <1>1, <1>7 DEF Store
<1>10. ActiveDevices(s) = IF store.host.active = id THEN devices ELSE ActiveDevices(store)
  BY <1>3, <1>4, <1>5, <1>6, <1>9 DEF ActiveDevices
<1>11. store.host.active = id => ActiveDevices(store) = DevicesOf(id)
  BY DEF ActiveDevices, DevicesOf
<1> QED BY <1>8, <1>10, <1>11, ActiveDevicesOK DEF s

LEMMA DevicesChangedIInv ==
  ASSUME NEW I, Closed(I), IInv(I), NEW id \in DOMAIN store.host.profiles, NEW devices, NEW name,
         DevicesChanged(id, devices, name)
  PROVE  IInv(I)'
<1> DEFINE s == [store EXCEPT !.host.profiles[id].devices = devices]
           cores == IF store.host.active = id THEN RestartService(core, ActiveDevices(s), name)
                    ELSE {core}
<1>1. MemoryOK(store) /\ core \in I /\ unannounced \in BOOLEAN BY DEF IInv, Sound
<1>2. devices \in Lists /\ Edit(s, cores, unannounced) BY DEF DevicesChanged
<1>3. MemoryOK(s) BY <1>1, <1>2, DevicesPut
<1> HIDE DEF s
<1>4. ActiveDevices(s) \in Lists BY <1>3, ActiveDevicesOK
<1>5. cores \subseteq I BY <1>1, <1>4, RestartServiceIn, ClosedForEach
<1> HIDE DEF cores
<1> QED BY <1>1, <1>2, <1>3, <1>5, EditIInv

\* The core starts its services on sound profiles, or dies with sound files.
LEMMA BootOutcome ==
  ASSUME store \in Store, Boot
  PROVE  (\E s : Sound(s) /\ Runs(s)) \/ (Sound(store') /\ Down)
<1>1. store \in Store OBVIOUS
<1>2. CASE NothingFound(store)
  <2>1. PICK h \in HostIds, v \in VehicleIds :
          LET s == Defaults(store, h, v, DefaultDevices)
          IN  \/ \E t \in Saved(s) : Runs(Reloaded(t))
              \/ store' \in Torn(s) /\ Down
    BY <1>2 DEF Boot
  <2> DEFINE s == Defaults(store, h, v, DefaultDevices)
  <2>2. MemoryOK(s) /\ s.up BY <1>1, DefaultsOK
  <2> HIDE DEF s
  <2>3. CASE \E t \in Saved(s) : Runs(Reloaded(t))
    <3>1. PICK t \in Saved(s) : Runs(Reloaded(t)) BY <2>3
    <3>2. Sound(t) /\ t.up BY <2>2, SavedSound
    <3>3. Sound(Reloaded(t)) BY <3>2, ReloadedSound
    <3> QED BY <3>1, <3>3
  <2>4. CASE store' \in Torn(s) /\ Down
    <3>1. Sound(store') BY <2>2, <2>4, TornSound
    <3> QED BY <2>4, <3>1
  <2> QED BY <2>1, <2>3, <2>4 DEF s
<1>3. CASE ~NothingFound(store)
  <2>1. Runs(Reloaded(Found(store))) BY <1>3 DEF Boot
  <2>2. Sound(Found(store)) BY <1>1, FoundSound
  <2>3. Found(store).up BY <1>1 DEF Found, Store
  <2>4. Sound(Reloaded(Found(store))) BY <2>2, <2>3, ReloadedSound
  <2> QED BY <2>1, <2>4
<1> QED BY <1>2, <1>3

LEMMA BootIInv ==
  ASSUME NEW I, Closed(I), IInv(I), Boot
  PROVE  IInv(I)'
<1>1. store \in Store BY DEF IInv, Sound, MemoryOK
<1> QED BY <1>1, BootOutcome, RunsIInv, DownIInv

LEMMA CrashIInv ==
  ASSUME NEW I, Closed(I), IInv(I), Crash
  PROVE  IInv(I)'
<1>1. store \in Store BY DEF IInv, Sound, MemoryOK
<1>2. Sound(store') BY <1>1, DeadSound DEF Crash
<1> QED BY <1>2, DownIInv DEF Crash

LEMMA QuitIInv ==
  ASSUME NEW I, Closed(I), IInv(I), Quit
  PROVE  IInv(I)'
<1>1. MemoryOK(store) BY DEF IInv, Sound
<1>2. ASSUME NEW s \in Saved(store) PROVE Sound(Dead(s))
  <2>1. s \in Store BY <1>1, SavedSound DEF Sound, MemoryOK
  <2> QED BY <2>1, DeadSound
<1>3. \A t \in Torn(store) : Sound(t) BY <1>1, TornSound
<1>4. Sound(store') BY <1>2, <1>3 DEF Quit
<1> QED BY <1>4, DownIInv DEF Quit

\* Edits of the host and of the vehicle profiles as a whole.
ProfileEdits ==
  \/ CreateHostProfile \/ UpdateHostProfile \/ DeleteHostProfile \/ SetActiveHostProfile
  \/ WriteVehicleProfile \/ DeleteVehicleProfile \/ SetActiveVehicleProfile

LEMMA ProfileEditOutcome ==
  ASSUME MemoryOK(store), ProfileEdits
  PROVE  \E s : MemoryOK(s) /\ (Silent(s) \/ Announced(s))
<1>1. MemoryOK(store) OBVIOUS
<1>2. BookOK(store.host, HostIds) /\ BookOK(store.vehicle, VehicleIds) BY <1>1 DEF MemoryOK
<1>3. /\ DOMAIN store.host.profiles \subseteq HostIds
      /\ DOMAIN store.vehicle.profiles \subseteq VehicleIds
  BY <1>2, ProfilesIsMap DEF BookOK, Book
<1>4. CASE CreateHostProfile
  <2>1. PICK id \in HostIds, p \in Profile :
          Silent([store EXCEPT !.host = Written(store.host, id, p)])
    BY <1>4 DEF CreateHostProfile
  <2>2. BookOK(Written(store.host, id, p), HostIds) BY <1>2, WrittenOK
  <2> QED BY <1>1, <2>1, <2>2, HostOK
<1>5. CASE UpdateHostProfile
  <2>1. PICK id \in HostIds, p \in Profile :
          Announced([store EXCEPT !.host = Written(store.host, id, p)])
    BY <1>5 DEF UpdateHostProfile
  <2>2. BookOK(Written(store.host, id, p), HostIds) BY <1>2, WrittenOK
  <2> QED BY <1>1, <2>1, <2>2, HostOK
<1>6. CASE DeleteHostProfile
  <2>1. PICK id \in HostIds : Silent([store EXCEPT !.host = DeleteProfile(store.host, id)])
    BY <1>6 DEF DeleteHostProfile
  <2>2. BookOK(DeleteProfile(store.host, id), HostIds) BY <1>2, DeleteOK DEF IdSets
  <2> QED BY <1>1, <2>1, <2>2, HostOK
<1>7. CASE SetActiveHostProfile
  <2>1. PICK id \in DOMAIN store.host.profiles :
          Announced([store EXCEPT !.host = SetActive(store.host, id)])
    BY <1>7 DEF SetActiveHostProfile, Exists
  <2>2. BookOK(SetActive(store.host, id), HostIds) BY <1>2, SetActiveOK
  <2> QED BY <1>1, <2>1, <2>2, HostOK
<1>8. CASE WriteVehicleProfile
  <2>1. PICK id \in VehicleIds, flag \in BOOLEAN :
          VehicleEdit(Written(store.vehicle, id, [flag |-> flag, devices |-> <<>>]))
    BY <1>8 DEF WriteVehicleProfile
  <2>2. [flag |-> flag, devices |-> <<>>] \in Profile BY ListAssumption DEF Profile
  <2>3. PICK p \in Profile : VehicleEdit(Written(store.vehicle, id, p)) BY <2>1, <2>2
  <2>4. BookOK(Written(store.vehicle, id, p), VehicleIds) BY <1>2, WrittenOK
  <2> QED BY <1>1, <2>3, <2>4, VehicleOK DEF VehicleEdit
<1>9. CASE DeleteVehicleProfile
  <2>1. PICK id \in VehicleIds : VehicleEdit(DeleteProfile(store.vehicle, id))
    BY <1>9 DEF DeleteVehicleProfile
  <2>2. BookOK(DeleteProfile(store.vehicle, id), VehicleIds) BY <1>2, DeleteOK DEF IdSets
  <2> QED BY <1>1, <2>1, <2>2, VehicleOK DEF VehicleEdit
<1>10. CASE SetActiveVehicleProfile
  <2>1. PICK id \in DOMAIN store.vehicle.profiles : VehicleEdit(SetActive(store.vehicle, id))
    BY <1>10 DEF SetActiveVehicleProfile, VehicleExists
  <2>2. BookOK(SetActive(store.vehicle, id), VehicleIds) BY <1>2, SetActiveOK
  <2> QED BY <1>1, <2>1, <2>2, VehicleOK DEF VehicleEdit
<1> QED BY <1>4, <1>5, <1>6, <1>7, <1>8, <1>9, <1>10 DEF ProfileEdits

LEMMA ProfileEditIInv ==
  ASSUME NEW I, Closed(I), IInv(I), ProfileEdits
  PROVE  IInv(I)'
<1>1. MemoryOK(store) BY DEF IInv, Sound
<1> QED BY <1>1, ProfileEditOutcome, SilentIInv, AnnouncedIInv

\* Edits of the devices of a host profile.
LEMMA DeviceEditIInv ==
  ASSUME NEW I, Closed(I), IInv(I),
         AddDevice \/ RemoveDevice \/ SetDeviceEnabled \/ SetDeviceUseMock
  PROVE  IInv(I)'
<1>1. \E id \in DOMAIN store.host.profiles : \E devices, name : DevicesChanged(id, devices, name)
  BY DEF AddDevice, RemoveDevice, SetDeviceEnabled, SetDeviceUseMock, Exists
<1> QED BY <1>1, DevicesChangedIInv

LEMMA CommandIInv ==
  ASSUME NEW I, Closed(I), IInv(I), Commands
  PROVE  IInv(I)'
<1>1. ActiveDevices(store) \in Lists /\ core \in I BY ActiveDevicesOK DEF IInv, Sound
<1>2. core' \in I /\ store' = store /\ unannounced' \in BOOLEAN
  <2>0. ClosedFor(I, ActiveDevices(store)) BY <1>1, ClosedForEach
  <2>1. CASE ReloadServices BY <1>1, <2>0, <2>1, ReloadIn DEF ReloadServices
  <2>2. CASE Start BY <1>1, <2>0, <2>2, StartServiceIn DEF Start, Command, IInv
  <2>3. CASE Stop BY <1>1, <2>0, <2>3, StopServiceIn DEF Stop, Command, IInv
  <2>4. CASE Restart BY <1>1, <2>0, <2>4, RestartServiceIn DEF Restart, Command, IInv
  <2> QED BY <2>1, <2>2, <2>3, <2>4 DEF Commands
<1> QED BY <1>2 DEF IInv, Sound, MemoryOK, Current

LEMMA NextIInv ==
  ASSUME NEW I, Closed(I), IInv(I), [Next]_vars
  PROVE  IInv(I)'
<1>1. CASE Boot BY <1>1, BootIInv
<1>2. CASE Crash BY <1>2, CrashIInv
<1>3. CASE Edits BY <1>3, ProfileEditIInv, DeviceEditIInv DEF Edits, ProfileEdits
<1>4. CASE Commands BY <1>4, CommandIInv
<1>5. CASE Quit BY <1>5, QuitIInv
<1>6. CASE UNCHANGED vars BY <1>6 DEF vars, IInv, Sound, MemoryOK, Current
<1> QED BY <1>1, <1>2, <1>3, <1>4, <1>5, <1>6 DEF Next

-----------------------------------------------------------------------------
(* The steps, and what is configured *)

Fits == ~unannounced => core \in Fit(ActiveDevices(store))

LEMMA IdleFits ==
  ASSUME NEW devices
  PROVE  /\ Idle \in Fit(devices)
         /\ \A c \in Core : StopAll(c) \in Fit(devices)
<1>1. Idle \in Fit(devices) BY DEF Fit, Idle, Core
<1>2. ASSUME NEW c \in Core
      PROVE  /\ StopAll(c) \in Core
             /\ StopAll(c).aa = "none" /\ ~StopAll(c).wifi /\ ~StopAll(c).bt
  BY DEF StopAll, StopAA, StopWiFi, StopBluetooth, Core
<1> QED BY <1>1, <1>2 DEF Fit

LEMMA SavedActive ==
  ASSUME NEW s, MemoryOK(s), NEW t \in Saved(s)
  PROVE  ActiveDevices(t) = ActiveDevices(s)
BY SavedSound DEF ActiveDevices

LEMMA DownFits ==
  ASSUME Down
  PROVE  Fits'
BY IdleFits DEF Down, Fits

LEMMA RunsFits ==
  ASSUME NEW s, MemoryOK(s), Runs(s)
  PROVE  Fits'
<1> DEFINE l == ActiveDevices(s)
<1>1. l \in Lists BY ActiveDevicesOK
<1> HIDE DEF l
<1>2. ClosedFor(Fit(l), l) BY <1>1, FitClosed
<1>3. StartAll(Idle, l) \subseteq Fit(l) BY <1>1, <1>2, StartAllIn, IdleFits
<1>4. core' \in Fit(l) BY <1>2, <1>3 DEF Runs, ClosedFor, l
<1> QED BY <1>4 DEF Runs, Fits, l

LEMMA EditFits ==
  ASSUME NEW s, MemoryOK(s), NEW cores, NEW replaced, Edit(s, cores, replaced),
         ~replaced => cores \subseteq Fit(ActiveDevices(s))
  PROVE  Fits'
<1>1. CASE store' \in Saved(s) /\ core' \in cores /\ unannounced' = replaced
  BY <1>1, SavedActive DEF Fits
<1>2. CASE store' \in Torn(s) /\ Down BY <1>2, DownFits
<1> QED BY <1>1, <1>2 DEF Edit

\* A signal about a profile reloads the services for the devices there are now.
LEMMA ReloadFits ==
  ASSUME core \in Core, NEW l \in Lists
  PROVE  Reload(core, l) \subseteq Fit(l)
<1>1. ClosedFor(Fit(l), l) BY FitClosed
<1>2. StopAll(core) \in Fit(l) BY IdleFits
<1> QED BY <1>1, <1>2, StartAllIn DEF Reload

LEMMA AnnouncedFits ==
  ASSUME core \in Core, NEW s, MemoryOK(s), Announced(s)
  PROVE  Fits'
<1>1. Reload(core, ActiveDevices(s)) \subseteq Fit(ActiveDevices(s))
  BY ActiveDevicesOK, ReloadFits
<1> QED BY <1>1, EditFits DEF Announced

\* Without a signal the services stay, for devices that stay or unannounced.
LEMMA SilentFits ==
  ASSUME Fits, NEW s, MemoryOK(s), Silent(s)
  PROVE  Fits'
<1> DEFINE replaced == unannounced \/ ActiveDevices(s) # ActiveDevices(store)
<1>1. Edit(s, {core}, replaced) BY DEF Silent
<1>2. ~replaced => {core} \subseteq Fit(ActiveDevices(s)) BY DEF Fits
<1> HIDE DEF replaced
<1> QED BY <1>1, <1>2, EditFits

\* A signal about a device restarts the service of its name for the devices there are now.
LEMMA DevicesChangedFits ==
  ASSUME NamedAfterService, MemoryOK(store), Fits,
         NEW id \in DOMAIN store.host.profiles, NEW devices, NEW name,
         Agree(DevicesOf(id), devices, name), DevicesChanged(id, devices, name)
  PROVE  Fits'
<1> DEFINE s == [store EXCEPT !.host.profiles[id].devices = devices]
           old == ActiveDevices(store)
           new == ActiveDevices(s)
           cores == IF store.host.active = id THEN RestartService(core, new, name) ELSE {core}
<1>1. devices \in Lists /\ Edit(s, cores, unannounced) BY DEF DevicesChanged
<1>2. /\ MemoryOK(s) /\ old \in Lists
      /\ new = IF store.host.active = id THEN devices ELSE old
      /\ store.host.active = id => old = DevicesOf(id)
  BY <1>1, DevicesPut
<1> HIDE DEF s, old, new
<1>3. ASSUME ~unannounced, store.host.active = id
      PROVE  RestartService(core, new, name) \subseteq Fit(new)
  <2>1. core \in Fit(old) BY <1>3 DEF Fits, old
  <2>2. StopService(core, name) \in Fit(new) BY <1>1, <1>2, <1>3, <2>1, StoppedFits
  <2>3. new \in Lists /\ ClosedFor(Fit(new), new) BY <1>1, <1>2, <1>3, FitClosed
  <2> QED BY <2>2, <2>3, StartServiceIn DEF RestartService
<1>4. ~unannounced => cores \subseteq Fit(new) BY <1>2, <1>3 DEF Fits, old
<1> HIDE DEF cores
<1> QED BY <1>1, <1>2, <1>4, EditFits DEF new

\* Each edit of the devices of a profile tells the name whose devices it changed.
LEMMA DeviceEditOutcome ==
  ASSUME MemoryOK(store), AddDevice \/ RemoveDevice \/ SetDeviceEnabled \/ SetDeviceUseMock
  PROVE  \E id \in DOMAIN store.host.profiles : \E devices, name :
           Agree(DevicesOf(id), devices, name) /\ DevicesChanged(id, devices, name)
<1>1. ASSUME NEW id \in DOMAIN store.host.profiles PROVE DevicesOf(id) \in Lists
  <2>1. store.host.profiles \in Profiles(HostIds) BY DEF MemoryOK, BookOK, Book
  <2>2. store.host.profiles \in [DOMAIN store.host.profiles -> Profile] BY <2>1, ProfilesIsMap
  <2> QED BY <2>2 DEF DevicesOf, Profile
<1>2. CASE AddDevice
  <2>1. PICK id \in DOMAIN store.host.profiles, d \in UNION {Known(l) : l \in Lists} :
          DevicesChanged(id, Append(DevicesOf(id), d), d.name)
    BY <1>2 DEF AddDevice, Exists
  <2>2. d \in Device BY DevicesAre DEF Known
  <2> QED BY <1>1, <2>1, <2>2, AppendAgrees
<1>3. CASE RemoveDevice
  <2>1. PICK id \in DOMAIN store.host.profiles :
          \E name : DevicesChanged(id, Without(DevicesOf(id), name), name)
    BY <1>3 DEF RemoveDevice, Exists
  <2> QED BY <1>1, <2>1, WithoutAgrees
<1>4. CASE SetDeviceEnabled
  <2>0. PICK id \in DOMAIN store.host.profiles :
          \E on \in BOOLEAN, d \in Known(DevicesOf(id)) :
            LET first == FirstNamed(DevicesOf(id), d.name)
            IN  DevicesChanged(id, [DevicesOf(id) EXCEPT ![first].enabled = on], d.name)
    BY <1>4 DEF SetDeviceEnabled, Exists
  <2>1. PICK on \in BOOLEAN, d \in Known(DevicesOf(id)) :
          LET first == FirstNamed(DevicesOf(id), d.name)
          IN  DevicesChanged(id, [DevicesOf(id) EXCEPT ![first].enabled = on], d.name)
    BY <2>0
  <2> DEFINE l == DevicesOf(id)
             first == FirstNamed(l, d.name)
             new == [l[first] EXCEPT !.enabled = on]
  <2>2. first \in DOMAIN l /\ l[first].name = d.name
    <3> HIDE DEF l
    <3> QED BY <1>1, <2>1, ChangeAgrees DEF l
  <2>3. l[first] \in Device BY <1>1, <2>2, DevicesAre
  <2> HIDE DEF first
  <2>4. new.name = d.name BY <2>2, <2>3 DEF Device
  <2> HIDE DEF l, new
  <2>5. Agree(l, [l EXCEPT ![first] = new], d.name)
    BY <1>1, <2>1, <2>4, ChangeAgrees DEF l, first
  <2>6. DevicesChanged(id, [l EXCEPT ![first] = new], d.name) BY <2>1 DEF l, first, new
  <2> QED BY <2>5, <2>6 DEF l
<1>5. CASE SetDeviceUseMock
  <2>0. PICK id \in DOMAIN store.host.profiles :
          \E on \in BOOLEAN, d \in Known(DevicesOf(id)) :
            LET first == FirstNamed(DevicesOf(id), d.name)
            IN  DevicesChanged(id, [DevicesOf(id) EXCEPT ![first].useMock = on], d.name)
    BY <1>5 DEF SetDeviceUseMock, Exists
  <2>1. PICK on \in BOOLEAN, d \in Known(DevicesOf(id)) :
          LET first == FirstNamed(DevicesOf(id), d.name)
          IN  DevicesChanged(id, [DevicesOf(id) EXCEPT ![first].useMock = on], d.name)
    BY <2>0
  <2> DEFINE l == DevicesOf(id)
             first == FirstNamed(l, d.name)
             new == [l[first] EXCEPT !.useMock = on]
  <2>2. first \in DOMAIN l /\ l[first].name = d.name
    <3> HIDE DEF l
    <3> QED BY <1>1, <2>1, ChangeAgrees DEF l
  <2>3. l[first] \in Device BY <1>1, <2>2, DevicesAre
  <2> HIDE DEF first
  <2>4. new.name = d.name BY <2>2, <2>3 DEF Device
  <2> HIDE DEF l, new
  <2>5. Agree(l, [l EXCEPT ![first] = new], d.name)
    BY <1>1, <2>1, <2>4, ChangeAgrees DEF l, first
  <2>6. DevicesChanged(id, [l EXCEPT ![first] = new], d.name) BY <2>1 DEF l, first, new
  <2> QED BY <2>5, <2>6 DEF l
<1> QED BY <1>2, <1>3, <1>4, <1>5

LEMMA CommandFits ==
  ASSUME MemoryOK(store), core \in Core, Fits, Commands
  PROVE  Fits'
<1> DEFINE l == ActiveDevices(store)
<1>1. l \in Lists BY ActiveDevicesOK
<1> HIDE DEF l
<1>2. ClosedFor(Fit(l), l) BY <1>1, FitClosed
<1>3. CASE ReloadServices
  BY <1>1, <1>3, ReloadFits DEF ReloadServices, Fits, l
<1>4. CASE Start \/ Stop \/ Restart
  <2>1. PICK name : Command(StartService(core, l, name)) \/ Command({StopService(core, name)})
                    \/ Command(RestartService(core, l, name))
    BY <1>4 DEF Start, Stop, Restart, l
  <2>2. core \in Fit(l) =>
          StartService(core, l, name) \union {StopService(core, name)}
            \union RestartService(core, l, name) \subseteq Fit(l)
    BY <1>1, <1>2, StartServiceIn, StopServiceIn, RestartServiceIn
  <2> QED BY <2>1, <2>2 DEF Command, Fits, l
<1> QED BY <1>3, <1>4 DEF Commands

LEMMA NextFits ==
  ASSUME NamedAfterService, IInv(Core), Fits, [Next]_vars
  PROVE  Fits'
<1>1. MemoryOK(store) /\ core \in Core /\ store \in Store BY DEF IInv, Sound, MemoryOK
<1>2. CASE Boot BY <1>1, <1>2, BootOutcome, RunsFits, DownFits DEF Sound
<1>3. CASE Crash \/ Quit BY <1>3, DownFits DEF Crash, Quit
<1>4. CASE Edits
  <2>1. CASE ProfileEdits BY <1>1, <2>1, ProfileEditOutcome, SilentFits, AnnouncedFits
  <2>2. CASE AddDevice \/ RemoveDevice \/ SetDeviceEnabled \/ SetDeviceUseMock
    BY <1>1, <2>2, DeviceEditOutcome, DevicesChangedFits
  <2> QED BY <1>4, <2>1, <2>2 DEF Edits, ProfileEdits
<1>5. CASE Commands BY <1>1, <1>5, CommandFits
<1>6. CASE UNCHANGED vars BY <1>6 DEF vars, Fits, ActiveDevices
<1> QED BY <1>2, <1>3, <1>4, <1>5, <1>6 DEF Next

-----------------------------------------------------------------------------
(* The theorems *)

\* Whatever is edited, and wherever the process dies, profiles and services are
\* well typed.
THEOREM TypeCorrect == Spec => []TypeOK
<1>1. Init => IInv(Core) BY CoreClosed, InitIInv
<1>2. IInv(Core) /\ [Next]_vars => IInv(Core)' BY CoreClosed, NextIInv
<1>3. IInv(Core) => TypeOK BY DEF IInv, TypeOK, Sound, MemoryOK
<1> QED BY <1>1, <1>2, <1>3, PTL DEF Spec

\* An active id names a profile, of any number of profiles: deleteHostProfile,
\* the crashes within saveProfiles and loadProfiles never leave it dangling.
THEOREM ActiveProfileExists == Spec => []ActiveExists
<1>1. Init => IInv(Core) BY CoreClosed, InitIInv
<1>2. IInv(Core) /\ [Next]_vars => IInv(Core)' BY CoreClosed, NextIInv
<1>3. IInv(Core) => ActiveExists BY DEF IInv, ActiveExists, Sound, MemoryOK, BookOK
<1> QED BY <1>1, <1>2, <1>3, PTL DEF Spec

\* Between two events the files of a running process hold both books, but for those
\* the last saveProfiles could not write: every edit ends in saveProfiles, and the
\* second loadProfiles gives a file that was written nothing to change.
THEOREM FilesAreCurrent == Spec => []FilesCurrent
<1>1. Init => IInv(Core) BY CoreClosed, InitIInv
<1>2. IInv(Core) /\ [Next]_vars => IInv(Core)' BY CoreClosed, NextIInv
<1>3. IInv(Core) => FilesCurrent BY DEF IInv, FilesCurrent, Sound, Current
<1> QED BY <1>1, <1>2, <1>3, PTL DEF Spec

\* A real Android Auto service has a media pipeline, provided the Android Auto
\* devices of a profile agree whether to mock: startAndroidAutoService asks its
\* own device for the pipeline, the factory asks the first.
THEOREM RealServiceHasPipeline == OneMode => (Spec => []RealHasPipeline)
<1> SUFFICES ASSUME OneMode PROVE Spec => []RealHasPipeline OBVIOUS
<1>1. Init => IInv(Piped) BY PipedClosed, InitIInv
<1>2. IInv(Piped) /\ [Next]_vars => IInv(Piped)' BY PipedClosed, NextIInv
<1>3. IInv(Piped) => RealHasPipeline BY DEF IInv, RealHasPipeline, Piped
<1> QED BY <1>1, <1>2, <1>3, PTL DEF Spec

\* A running service is one the active profile enables, provided devices are named
\* after their services, as the default ones are: a changed device restarts the
\* service of its name, deviceConfigChanged gives no more than the name.
THEOREM RunningServicesAreConfigured == NamedAfterService => (Spec => []RunningIsConfigured)
<1> SUFFICES ASSUME NamedAfterService PROVE Spec => []RunningIsConfigured OBVIOUS
<1>1. Init => IInv(Core) /\ Fits
  BY CoreClosed, InitIInv, IdleFits DEF Init, Fits
<1>2. IInv(Core) /\ Fits /\ [Next]_vars => IInv(Core)' /\ Fits'
  BY CoreClosed, NextIInv, NextFits
<1>3. IInv(Core) /\ Fits => RunningIsConfigured
  BY DEF Fits, Fit, RunningIsConfigured, Wants, Wanted
<1> QED BY <1>1, <1>2, <1>3, PTL DEF Spec
=============================================================================
