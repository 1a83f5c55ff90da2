--------------------------- MODULE VehicleConfig ---------------------------
(***************************************************************************)
(* The property configurations of the vehicle HAL and the checks that      *)
(* VehicleHalManager makes against them before a call changes anything     *)
(* (automotive/vehicle/2.0/default/common/src/VehicleHalManager.cpp).      *)
(***************************************************************************)
EXTENDS Integers

CONSTANTS
    Prop,       \* the properties that have a configuration
    Config,     \* of each of them: changeMode, read, write, minSampleRate, maxSampleRate
    Second      \* clock ticks in a second

\* A continuous property declares its rates (types.hal: "Must be defined for
\* VehiclePropertyChangeMode::CONTINUOUS"), and none is faster than the clock.
ASSUME ConfigAssumption ==
    /\ Second \in Nat \ {0}
    /\ Config \in [Prop -> [changeMode : {"STATIC", "ON_CHANGE", "CONTINUOUS"},
                            read : BOOLEAN, write : BOOLEAN,
                            minSampleRate : 0..Second, maxSampleRate : 0..Second]]
    /\ \A p \in Prop : Config[p].changeMode = "CONTINUOUS" =>
           1 <= Config[p].minSampleRate /\ Config[p].minSampleRate <= Config[p].maxSampleRate

SubscribeFlags == {"EVENTS_FROM_CAR", "EVENTS_FROM_ANDROID"}

\* hertzToNanoseconds, in ticks.
HertzToInterval(rate) == Second \div rate

IsContinuousProperty(p) == Config[p].changeMode = "CONTINUOUS"

\* Mutant: the maximum rate is not enforced.
CheckMinSampleRate(p, rate) ==
    IF Config[p].changeMode = "ON_CHANGE" THEN 0
    ELSE IF rate < Config[p].minSampleRate THEN Config[p].minSampleRate
    ELSE rate

CheckSampleRate(p, rate) ==
    IF Config[p].changeMode = "ON_CHANGE" THEN 0
    ELSE IF rate > Config[p].maxSampleRate THEN Config[p].maxSampleRate
    ELSE IF rate < Config[p].minSampleRate THEN Config[p].minSampleRate
    ELSE rate

IsSubscribable(p, flags) ==
    /\ flags # {}
    /\ "EVENTS_FROM_CAR" \in flags => Config[p].read
    /\ Config[p].changeMode # "STATIC"

CheckWritePermission(p) == Config[p].write
=============================================================================
