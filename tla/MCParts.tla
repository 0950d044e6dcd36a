------------------------------ MODULE MCParts ------------------------------
(***************************************************************************)
(* The components that share no state with the connection, the sessions    *)
(* and the profiles, checked in one run.  They share none with one another *)
(* either: each behaviour moves one of them (part) and leaves the others   *)
(* in one initial state, so that what is checked is each of them alone.    *)
(***************************************************************************)
EXTENDS ControlBringUp, Renegotiation, ApiClients, BluetoothScan, WirelessHotspot,
        DeviceScan, AndroidAutoSettings, AudioPath, ExtensionProcesses

VARIABLE part

Parts == {"control", "ren", "api", "scan", "wifi", "usb", "settings", "audio", "exts"}

\* Values around the bounds of the settings, and outside of all of them.
MCFrames == {0, 1, 2, 7, 8, 9, 11, 12, 13}
MCPercents == {0, 1, 50, 90, 94, 95, 96}
MCDegrees == {0, 40, 44, 45, 46, 47, 48, 60, 90, 95, 100}

PartsInit ==
    /\ part \in Parts
    /\ Init /\ RenInit /\ ApiInit /\ ScanInit /\ HotspotInit /\ UsbInit
    /\ SettingsInit /\ AudioInit /\ ExtensionInit
    /\ part # "scan" => ~scan.adapter
    /\ part # "wifi" => wifi.host = "none"
    /\ part # "audio" => ~audio.daemon
    /\ part # "exts" => exts.installed = {}

PartsNext ==
    /\ UNCHANGED part
    /\ \/ /\ part = "control" /\ Next
          /\ UNCHANGED <<ren, api, scan, wifi, usb, settings, audio, exts>>
       \/ /\ part = "ren" /\ RenNext
          /\ UNCHANGED <<control, api, scan, wifi, usb, settings, audio, exts>>
       \/ /\ part = "api" /\ ApiNext
          /\ UNCHANGED <<control, ren, scan, wifi, usb, settings, audio, exts>>
       \/ /\ part = "scan" /\ ScanNext
          /\ UNCHANGED <<control, ren, api, wifi, usb, settings, audio, exts>>
       \/ /\ part = "wifi" /\ HotspotNext
          /\ UNCHANGED <<control, ren, api, scan, usb, settings, audio, exts>>
       \/ /\ part = "usb" /\ UsbNext
          /\ UNCHANGED <<control, ren, api, scan, wifi, settings, audio, exts>>
       \/ /\ part = "settings" /\ SettingsNext
          /\ UNCHANGED <<control, ren, api, scan, wifi, usb, audio, exts>>
       \/ /\ part = "audio" /\ AudioNext
          /\ UNCHANGED <<control, ren, api, scan, wifi, usb, settings, exts>>
       \/ /\ part = "exts" /\ ExtensionNext
          /\ UNCHANGED <<control, ren, api, scan, wifi, usb, settings, audio>>

\* The event loop runs the timers it was given: the watchdogs of the handshake and the
\* relaunch of a renegotiation.
PartsSpec ==
    /\ PartsInit
    /\ [][PartsNext]_<<part, control, ren, api, scan, wifi, usb, settings, audio, exts>>
    /\ WF_control(WatchdogExpires) /\ WF_ren(RelaunchOver)

\* The types of all parts; that of control is TypeOK.
PartsTypeOK ==
    /\ part \in Parts
    /\ RenTypeOK /\ ApiTypeOK /\ ScanTypeOK /\ HotspotTypeOK /\ UsbTypeOK
    /\ AudioTypeOK /\ ExtensionTypeOK
=============================================================================
