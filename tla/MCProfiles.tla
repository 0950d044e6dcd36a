----------------------------- MODULE MCProfiles -----------------------------
(* An instance of ProfileServices for TLC. *)
EXTENDS ProfileServices

Dev(service, on, mock) == [name |-> service, type |-> service, enabled |-> on, useMock |-> mock]

MCDefault ==
  <<Dev("AndroidAuto", TRUE, FALSE), Dev("Bluetooth", TRUE, FALSE), Dev("WiFi", TRUE, FALSE)>>

\* No devices, the default ones, and what one edit makes of them.
MCLists ==
  {<<>>, MCDefault, [MCDefault EXCEPT ![1].enabled = FALSE],
   [MCDefault EXCEPT ![1].useMock = TRUE], Without(MCDefault, "WiFi")}

\* Saves may fail while no profile has a device and each is flagged: enough for files
\* that differ from what is in memory by their profiles.
MCUnsafe == {[flag |-> TRUE, devices |-> <<>>]}
=============================================================================
