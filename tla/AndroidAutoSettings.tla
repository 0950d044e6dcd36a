------------------------ MODULE AndroidAutoSettings ------------------------
(***************************************************************************)
(* The settings that bound decoding and heat, as configureTransport        *)
(* resolves them from a device's settings and the configuration of the     *)
(* core.  Each key is looked up in three places and clamped on its own;    *)
(* then the keys that depend on one another are repaired in a fixed order. *)
(*                                                                         *)
(* A key's values in the three places are the sequence of those that parse *)
(* as numbers, the device's first.                                         *)
(***************************************************************************)
EXTENDS Integers, Sequences, FiniteSetsExt

CONSTANTS
    Frames, Percents, Degrees    \* values that a configuration may give

ASSUME SettingsAssumption ==
    Frames \subseteq Int /\ Percents \subseteq Int /\ Degrees \subseteq Int

VARIABLE settings

\* What a key is given: nothing, or one value or two in order of precedence.
Given(values) == {<<>>} \cup {<<v>> : v \in values} \cup {<<v, w>> : v \in values, w \in values}

Clamp(value, lo, hi) == IF value < lo THEN lo ELSE IF value > hi THEN hi ELSE value

\* resolveBoundedIntSetting
Resolve(given, default, lo, hi) == IF given = <<>> THEN default ELSE Clamp(Head(given), lo, hi)

-----------------------------------------------------------------------------
(* The groups of keys that depend on one another.                          *)

\* mutant: the floor is compared before the caps are repaired
Caps_FloorFirst(soft, hard, floor) ==
    LET s == Resolve(soft, 3, 1, 12)
        h == Resolve(hard, 6, 1, 12)
        f == Resolve(floor, 2, 0, 10)
    IN  [soft |-> IF s >= h THEN Clamp(h - 1, 1, 12) ELSE s, hard |-> h,
         floor |-> IF f >= s THEN Clamp(s - 1, 0, 10) ELSE f]

\* The hard cap is raised above the soft cap, as far as it goes, and the floor of the
\* hysteresis lowered below it.
Caps(soft, hard, floor) ==
    LET s == Resolve(soft, 3, 1, 12)
        h == Resolve(hard, 6, 1, 12)
        f == Resolve(floor, 2, 0, 10)
    IN  [soft |-> s, hard |-> IF s >= h THEN Min({12, s + 1}) ELSE h,
         floor |-> IF f >= s THEN Max({0, s - 1}) ELSE f]

\* Depths in the wrong order are exchanged; the nominal one is moved between them.
Depth(nominal, least, most) ==
    LET a == Resolve(least, 1, 1, 8)
        b == Resolve(most, 4, 1, 12)
    IN  [least |-> Min({a, b}), most |-> Max({a, b}),
         nominal |-> Clamp(Resolve(nominal, 2, 1, 8), Min({a, b}), Max({a, b}))]

Throttle(step, most) ==
    LET m == Resolve(most, 70, 1, 95)
    IN  [step |-> Min({Resolve(step, 10, 1, 90), m}), most |-> m]

\* resolveThermalControlConfig
Thermal(trigger, clear) ==
    LET t == Resolve(trigger, 75, 45, 95)
        c == Resolve(clear, 72, 40, 90)
    IN  [trigger |-> t, clear |-> IF c >= t THEN Max({40, t - 3}) ELSE c]

-----------------------------------------------------------------------------
(* configureTransport.  A configuration gives the keys of one group; the   *)
(* groups are resolved each on its own.                                    *)

Defaults ==
    [caps |-> Caps(<<>>, <<>>, <<>>), depth |-> Depth(<<>>, <<>>, <<>>),
     throttle |-> Throttle(<<>>, <<>>), thermal |-> Thermal(<<>>, <<>>)]

ConfigureFrames ==
    \E a \in Given(Frames), b \in Given(Frames), c \in Given(Frames) :
        \/ settings' = [Defaults EXCEPT !.caps = Caps(a, b, c)]
        \/ settings' = [Defaults EXCEPT !.depth = Depth(a, b, c)]

ConfigureThrottle ==
    \E a \in Given(Percents), b \in Given(Percents) :
        settings' = [Defaults EXCEPT !.throttle = Throttle(a, b)]

ConfigureThermal ==
    \E a \in Given(Degrees), b \in Given(Degrees) :
        settings' = [Defaults EXCEPT !.thermal = Thermal(a, b)]

\* A service is made with the defaults and configured before it searches.
SettingsInit == settings = Defaults

SettingsNext ==
    settings = Defaults /\ (ConfigureFrames \/ ConfigureThrottle \/ ConfigureThermal)

SettingsSpec == SettingsInit /\ [][SettingsNext]_settings

-----------------------------------------------------------------------------
(* Properties.                                                             *)

\* Whatever is configured, alone or together, the limits that are compared with one
\* another keep their order: a backlog can fall below the soft cap, the soft cap comes
\* before the hard one (but for the highest, where they meet), a depth lies between
\* its bounds, and heat that has triggered a level can clear it.
SettingsConsistent ==
    LET caps == settings.caps
        depth == settings.depth
    IN  /\ caps.floor < caps.soft
        /\ caps.soft < caps.hard \/ (caps.soft = 12 /\ caps.hard = 12)
        /\ depth.least <= depth.nominal /\ depth.nominal <= depth.most
        /\ settings.throttle.step <= settings.throttle.most
        /\ settings.thermal.clear < settings.thermal.trigger
=============================================================================
