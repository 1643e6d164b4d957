---------------------------- MODULE EngineWeapons ----------------------------
(***************************************************************************)
(* A weapon and its shots (gpk_engine/gpk_weapon.h over llc/gpk_particle). *)
(* A shot is one entry in each of eight arrays that must stay aligned; the *)
(* arrays lose entries while they are walked, the last one taking the      *)
(* place of the one removed.  Times are whole ticks, a position is how far *)
(* its shot has gone, in ticks; which shot an entry belongs to stands for  *)
(* the rest of its data.                                                   *)
(***************************************************************************)
EXTENDS Integers, Sequences, FiniteSets

CONSTANTS
    ShotLifetime,    \* Shot.Lifetime
    ShotParticles,   \* the values of Shot.ParticleCount
    DelayLimit,      \* Trigger.Delay.Limit
    OverheatLimit,   \* Trigger.Overheat.Limit
    OverheatPerShot, \* Trigger.OverheatPerShot
    ShotsFrames,     \* bound: the updates
    ShotsTicks       \* bound: the ticks of one update

ASSUME ShotsAssumption ==
    /\ {ShotLifetime, ShotsFrames, ShotsTicks} \subseteq Nat \ {0}
    /\ {DelayLimit, OverheatLimit, OverheatPerShot} \cup ShotParticles \subseteq Nat

VARIABLES
    shots,        \* the arrays of SShots and of its SParticles3, by name
    shotsDelay,   \* Trigger.Delay.Value
    shotsHeat,    \* Trigger.Overheat.Value
    shotsCooling, \* Trigger.CoolingDown
    shotsFired,   \* history: the shots ever fired
    shotsClock    \* history: the ticks and the updates so far

shotsVars == <<shots, shotsDelay, shotsHeat, shotsCooling, shotsFired, shotsClock>>

ShotTags == {"Direction", "Speed", "Brightness", "DistanceToTargets"}
ShotPlaces == {"Position", "PositionPrev", "PositionDraw"}
ShotColumns == ShotTags \cup ShotPlaces \cup {"Lifetime"}

ShotsInit ==
    /\ shots = [c \in ShotColumns |-> <<>>]
    /\ shotsDelay = 0 /\ shotsHeat = 0 /\ shotsCooling = FALSE
    /\ shotsFired = {}
    /\ shotsClock = [ticks |-> 0, frames |-> 0]

----------------------------------------------------------------------------
\* SShots

ShotsRemoveUnordered(s, i) ==
    SubSeq(s, 1, i - 1) \o SubSeq(s, Len(s), IF i = Len(s) THEN 0 ELSE Len(s)) \o SubSeq(s, i + 1, Len(s) - 1)

BugShotsRemove(columns, i) ==
    [c \in ShotColumns |-> IF c = "Brightness" THEN columns[c] ELSE ShotsRemoveUnordered(columns[c], i)]
ShotsRemove(columns, i) == [c \in ShotColumns |-> ShotsRemoveUnordered(columns[c], i)]

ShotsSpawn(columns, shot) ==
    [c \in ShotColumns |-> Append(columns[c],
        CASE c \in ShotTags   -> shot
          [] c \in ShotPlaces -> [of |-> shot, gone |-> 0]
          [] OTHER            -> ShotLifetime)]

\* IntegrateSpeed moves every particle, the previous places kept.
ShotsMove(columns, dt) ==
    [columns EXCEPT !["PositionPrev"] = columns["Position"],
                    !["Position"] = [i \in DOMAIN @ |-> [@[i] EXCEPT !.gone = @ + dt]]]

\* The walk from entry i on; the removal of entry i leaves i to be looked at again.
ShotsAgeOne(columns, dt, i) == [columns EXCEPT !["Lifetime"][i] = @ - dt]
BugShotsAdvance(columns, i) == i + 1
ShotsAdvance(columns, i) == IF columns["Lifetime"][i] > 0 THEN i + 1 ELSE i
RECURSIVE ShotsAge(_, _, _)
ShotsAge(columns, dt, i) ==
    IF i > Len(columns["Position"]) THEN columns
    ELSE LET aged == ShotsAgeOne(columns, dt, i)
             kept == IF aged["Lifetime"][i] > 0 THEN aged ELSE ShotsRemove(aged, i)
         IN  ShotsAge(kept, dt, ShotsAdvance(aged, i))

\* SShots::Update with SWeaponTrigger::Update.  Cooling ends at an update that finds no heat left.
ShotsUpdate(dt) ==
    /\ shotsClock.frames < ShotsFrames
    /\ shots' = ShotsAge(ShotsMove(shots, dt), dt, 1)
    /\ shotsDelay' = shotsDelay + dt
    /\ IF shotsHeat <= 0 /\ shotsCooling
       THEN shotsCooling' = FALSE /\ shotsHeat' = 0
       ELSE shotsHeat' = shotsHeat - dt /\ UNCHANGED shotsCooling
    /\ shotsClock' = [ticks |-> shotsClock.ticks + dt, frames |-> shotsClock.frames + 1]
    /\ UNCHANGED shotsFired

----------------------------------------------------------------------------
\* SWeaponTrigger and SWeapon

\* The time left, negative when a cooling weapon has lost its heat before an update saw it.
ShotsBusy ==
    LET delay == DelayLimit - shotsDelay
    IN  CASE shotsCooling -> IF delay > shotsHeat THEN delay ELSE shotsHeat
          [] ~shotsCooling /\ delay > 0 -> delay
          [] OTHER -> 0

\* Shoot: one particle is spawned even when the count is 0.
RECURSIVE ShotsSpawnAll(_, _, _)
ShotsSpawnAll(columns, volley, n) ==
    IF n = 0 THEN columns
    ELSE ShotsSpawnAll(ShotsSpawn(columns, [volley EXCEPT !.n = @ + n]), volley, n - 1)

ShotsFire(count) ==
    LET spawned == IF count = 0 THEN 1 ELSE count
        volley  == [n |-> Cardinality(shotsFired), at |-> shotsClock.ticks]
    IN  /\ shots' = ShotsSpawnAll(shots, volley, spawned)
        /\ shotsFired' = shotsFired \cup {[volley EXCEPT !.n = @ + k] : k \in 1..spawned}
        /\ shotsDelay' = 0
        /\ shotsHeat' = shotsHeat + OverheatPerShot
        /\ shotsCooling' = (shotsCooling \/ shotsHeat' >= OverheatLimit)
        /\ UNCHANGED shotsClock
ShotsShoot(count) == ShotsBusy = 0 /\ ShotsFire(count)

\* Save, and Load of what it wrote, which reads the previous places where the drawn ones are.
ShotsSaveLoad ==
    /\ shots' = [shots EXCEPT !["PositionPrev"] = shots["PositionDraw"],
                              !["PositionDraw"] = shots["PositionPrev"]]
    /\ UNCHANGED <<shotsDelay, shotsHeat, shotsCooling, shotsFired, shotsClock>>

ShotsNext ==
    \/ \E dt \in 1..ShotsTicks : ShotsUpdate(dt)
    \/ \E count \in ShotParticles : ShotsShoot(count)
    \/ ShotsSaveLoad

----------------------------------------------------------------------------
\* Properties

ShotsTypeOK ==
    /\ DOMAIN shots = ShotColumns
    /\ \A c \in ShotTags : \A i \in DOMAIN shots[c] : shots[c][i] \in shotsFired
    /\ \A c \in ShotPlaces : \A i \in DOMAIN shots[c] :
           shots[c][i].of \in shotsFired /\ shots[c][i].gone \in Nat
    /\ shotsDelay \in Nat /\ shotsHeat \in Int /\ shotsCooling \in BOOLEAN

\* The shots in flight are those fired less than a lifetime ago, each once, and the arrays agree
\* on them: at one index every array is about one shot, which has gone for the life it has lost.
ShotsLiveTheirTime ==
    LET flying == DOMAIN shots["Position"]
        shot(i) == shots["Position"][i].of
    IN  /\ {shot(i) : i \in flying} = {s \in shotsFired : shotsClock.ticks - s.at < ShotLifetime}
        /\ \A i, j \in flying : shot(i) = shot(j) => i = j
        /\ \A c \in ShotColumns : DOMAIN shots[c] = flying
        /\ \A i \in flying :
               /\ \A c \in ShotTags : shots[c][i] = shot(i)
               /\ \A c \in ShotPlaces : shots[c][i].of = shot(i)
               /\ shots["Position"][i].gone = ShotLifetime - shots["Lifetime"][i]
               /\ shots["Lifetime"][i] = ShotLifetime - (shotsClock.ticks - shot(i).at)

\* Volleys are as far apart as the delay of the trigger, and a weapon never gets hotter than one
\* volley can make one that was below its limit: at the limit it cools before it fires again.
ShotsRest ==
    /\ \A s, t \in shotsFired : s.at < t.at => t.at - s.at >= DelayLimit
    /\ shotsHeat < OverheatLimit + OverheatPerShot
    /\ shotsHeat >= OverheatLimit => shotsCooling
=============================================================================
