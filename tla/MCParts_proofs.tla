--------------------------- MODULE MCParts_proofs ---------------------------
(***************************************************************************)
(* What is proved of each part alone holds where the parts are put next to *)
(* one another: a behaviour of PartsSpec is one of every part.             *)
(***************************************************************************)
EXTENDS MCParts, ControlBringUp_proofs, Api_proofs, Wireless_proofs, Devices_proofs

partsVars == <<part, control, ren, api, scan, wifi, usb, settings, audio, exts>>

\* A step of the parts is a step of one of them and stutters for the others.
LEMMA PartsMove ==
  ASSUME [PartsNext]_partsVars
  PROVE  /\ part' = part /\ [Next]_vars /\ [RenNext]_ren /\ [ApiNext]_api
         /\ [ScanNext]_scan /\ [HotspotNext]_wifi /\ [UsbNext]_usb
         /\ [SettingsNext]_settings /\ [AudioNext]_audio /\ [ExtensionNext]_exts
<1>1. CASE PartsNext
  BY <1>1 DEF PartsNext, vars
<1>2. CASE UNCHANGED partsVars
  BY <1>2 DEF partsVars, vars
<1> QED BY <1>1, <1>2

\* The parts, put next to one another, each behave as their own specification says.
THEOREM PartsBehave ==
  PartsSpec => /\ Spec /\ RenSpec /\ ApiSpec /\ ScanSpec /\ HotspotSpec /\ UsbSpec
               /\ SettingsSpec /\ AudioSpec /\ ExtensionSpec
               /\ [](part \in Parts)
<1>1. PartsInit => /\ Init /\ RenInit /\ ApiInit /\ ScanInit /\ HotspotInit /\ UsbInit
                   /\ SettingsInit /\ AudioInit /\ ExtensionInit /\ part \in Parts
  BY DEF PartsInit
<1>2. [PartsNext]_partsVars =>
         /\ [Next]_vars /\ [RenNext]_ren /\ [ApiNext]_api
         /\ [ScanNext]_scan /\ [HotspotNext]_wifi /\ [UsbNext]_usb
         /\ [SettingsNext]_settings /\ [AudioNext]_audio /\ [ExtensionNext]_exts
  BY PartsMove
<1>3. part \in Parts /\ [PartsNext]_partsVars => (part \in Parts)'
  BY PartsMove
<1>4. PartsSpec => PartsInit /\ [][PartsNext]_partsVars
  BY PTL DEF PartsSpec, partsVars
<1> QED BY <1>1, <1>2, <1>3, <1>4, PTL
        DEF Spec, RenSpec, ApiSpec, ScanSpec, HotspotSpec, UsbSpec, SettingsSpec,
            AudioSpec, ExtensionSpec

\* The types of all parts hold, for every size of every part.
THEOREM PartsTypes == PartsSpec => []PartsTypeOK
BY PartsBehave, RenegotiationTypes, ApiTypes, ScanTypes, HotspotTypes, SearchTypes,
   AudioTypes, ExtensionTypes, PTL DEF PartsTypeOK

\* So do the safety properties of all parts: what no interleaving of a part's own events
\* can break, no part breaks for another.
THEOREM PartsAreSafe ==
  PartsSpec => /\ []TypeOK /\ []AwaitingIsWatched /\ []WatchdogIsOwn
               /\ []CopiesAreCurrent /\ ConnectedIsSpared
               /\ []SubscribersKnowState /\ []FramesDecodable
               /\ []DiscoveryIsTimed /\ []HotspotsAreKnown
               /\ []SearchGoesOn /\ []SettingsConsistent
               /\ []HeardAtOnce /\ []RunningIsRecorded
BY PartsBehave, BringUpTypeCorrect, WaitIsWatched, WatchdogsAreOwn, CopiesStayCurrent,
   ConnectionsAreSpared, SubscribersAreTold, FramesAreDecodable, DiscoveriesAreTimed,
   HotspotsStayKnown, SearchIsAlive, SettingsAreConsistent, AudioHeardAtOnce,
   ProcessesAreRecorded, PTL
=============================================================================
