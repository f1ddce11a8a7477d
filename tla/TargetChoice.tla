---------------------------- MODULE TargetChoice ----------------------------
(* Where a guest is restored to: build_plan takes the first ticked storage the *)
(* whole guest fits on (choose_target_storage), else packs disk by disk, first *)
(* into the free space and then into the capacities (plan_distribution), and   *)
(* the drain looks once more for room before it starts the run (_fits_disk,    *)
(* _fits_ram).  In between other guests take and free space.                   *)
EXTENDS Naturals, Sequences, SequencesExt, FiniteSetsExt

CONSTANTS
    Storages,         \* number of ticked storages, in the operator's order
    MaxSpace,         \* bound on sizes
    MaxDisks,         \* bound on the guest's disks
    Reserve           \* RAM the host keeps

ASSUME TargetAssumption ==
    Storages \in Nat \ {0} /\ MaxSpace \in Nat /\ MaxDisks \in Nat /\ Reserve \in Nat

VARIABLES
    total, avail,     \* storage -> capacity and free space
    listed,           \* storages whose space the host told
    disks,            \* sizes of the guest's disks, largest first
    needed,           \* size of the snapshot, 0 if unknown
    at,               \* where build_plan is
    placed, next,     \* pack_disks: storages of the first disks, and the next to try
    target,           \* storage -> what the plan puts there
    verdict           \* what becomes of the run

targetVars == <<total, avail, listed, disks, needed, at, placed, next, target, verdict>>
guestVars == <<total, listed, disks, needed>>

Ticked == 1 .. Storages
Nothing == [s \in Ticked |-> 0]

SumOf(S, size(_)) == MapThenSumSet(size, S)
Whole == SumOf(DOMAIN disks, LAMBDA i : disks[i])

TargetInputs ==
    /\ total \in [Ticked -> 1 .. MaxSpace] /\ avail \in {a \in [Ticked -> 0 .. MaxSpace] :
                                                          \A s \in Ticked : a[s] <= total[s]}
    /\ listed \in {Ticked, {}, {1}}
    /\ disks \in {d \in BoundedSeq(1 .. MaxSpace - 1, MaxDisks) :
                    \A i \in 1 .. Len(d) - 1 : d[i] >= d[i + 1]}
    /\ needed \in {0, Whole}

TargetStart ==
    /\ at = "single" /\ placed = <<>> /\ next = 1 /\ target = Nothing /\ verdict = "none"

TargetInit == TargetInputs /\ TargetStart

First(S) == IF S = {} THEN 1 ELSE Min(S)
Onto(s) == [Nothing EXCEPT ![s] = needed]

-----------------------------------------------------------------------------

\* choose_target_storage: the first with room now; else, if one is large enough or
\* of unknown capacity, the first of all, for a later pass.
ChooseTarget ==
    LET room == {s \in listed : avail[s] >= needed}
        large == {s \in Ticked : s \notin listed \/ total[s] >= needed}
    IN  /\ at = "single"
        /\ IF needed = 0 \/ large # {} \/ room # {}
             THEN at' = "check" /\ target' = Onto(IF needed = 0 THEN 1 ELSE First(room))
             ELSE at' = "avail" /\ UNCHANGED target
        /\ UNCHANGED <<guestVars, avail, placed, next, verdict>>

\* Larger than every storage, and nothing known of the disks.
DisksUnknown ==
    /\ at = "avail" /\ disks = <<>> /\ at' = "end" /\ verdict' = "refused"
    /\ UNCHANGED <<guestVars, avail, placed, next, target>>

Space == IF at = "avail" THEN avail ELSE total
Left(s) == Space[s] - SumOf({i \in DOMAIN placed : placed[i] = s}, LAMBDA i : disks[i])

PlaceHere ==
    /\ placed' = Append(placed, next) /\ next' = 1
    /\ UNCHANGED <<guestVars, avail, at, target, verdict>>

PlaceNext == next' = next + 1 /\ UNCHANGED <<guestVars, avail, at, placed, target, verdict>>

\* The last disk is taken back and tried on the storage after.
TakeBack ==
    /\ placed' = Front(placed) /\ next' = Last(placed) + 1
    /\ UNCHANGED <<guestVars, avail, at, target, verdict>>

\* The free space does not do: the capacities, and else the run is refused.
GiveUp ==
    /\ placed' = <<>> /\ next' = 1
    /\ IF at = "avail" THEN at' = "total" /\ UNCHANGED verdict ELSE at' = "end" /\ verdict' = "refused"
    /\ UNCHANGED <<guestVars, avail, target>>

\* Mutant: what was placed stays.
NoPlaceGreedy == GiveUp

\* place(i) found no storage for a disk.
NoPlace == IF placed = <<>> THEN GiveUp ELSE TakeBack

Packing == at \in {"avail", "total"} /\ disks # <<>>

\* One step of pack_disks' search.
Pack ==
    /\ Packing /\ Len(placed) < Len(disks)
    /\ IF next > Storages THEN NoPlace
       ELSE IF Left(next) >= disks[Len(placed) + 1] THEN PlaceHere ELSE PlaceNext

\* All disks are placed: in the free space for good, in the capacities for a later
\* pass, whose plan names the first storage.
Packed ==
    /\ Packing /\ Len(placed) = Len(disks)
    /\ at' = "check"
    /\ target' = IF at = "total" THEN Onto(1)
                 ELSE [s \in Ticked |-> SumOf({i \in DOMAIN placed : placed[i] = s}, LAMBDA i : disks[i])]
    /\ UNCHANGED <<guestVars, avail, placed, next, verdict>>

\* Another guest is written, or deleted, on a storage.
SpaceChanges ==
    /\ at = "check" /\ \E s \in Ticked, a \in 0 .. MaxSpace : a <= total[s] /\ avail' = [avail EXCEPT ![s] = a]
    /\ at' = "look" /\ UNCHANGED <<guestVars, placed, next, target, verdict>>

\* fits_disk: a fifth more than needed; unknown and zero are taken for enough.
FitsDisk(s) == s \notin listed \/ avail[s] = 0 \/ avail[s] * 5 >= target[s] * 6

\* _fits_disk, _fits_ram: the run starts, or waits for a later pass.
Check ==
    /\ at \in {"check", "look"} /\ at' = "end"
    /\ \E ramFree \in 0 .. 2 * Reserve, ram \in 0 .. Reserve :
         verdict' = IF /\ \A s \in Ticked : target[s] > 0 => FitsDisk(s)
                       /\ ram = 0 \/ ramFree >= Reserve + ram
                      THEN "started" ELSE "waits"
    /\ UNCHANGED <<guestVars, avail, placed, next, target>>

TargetNext == ChooseTarget \/ DisksUnknown \/ Pack \/ Packed \/ SpaceChanges \/ Check
TargetSpec == TargetInit /\ [][TargetNext]_targetVars

-----------------------------------------------------------------------------
(* Properties.                                                                 *)

\* A run is refused only if its disks go on the storages in no arrangement, however
\* empty they become (pack_disks: "always finds a packing when one exists").
RefusedOnlyIfImpossible ==
    verdict = "refused" /\ disks # <<>> =>
        ~\E f \in [DOMAIN disks -> Ticked] : \A s \in Ticked :
            total[s] >= SumOf({i \in DOMAIN disks : f[i] = s}, LAMBDA i : disks[i])

\* A run starts only where each storage it writes to has the room with a margin,
\* whatever other guests took since the plan was made - except on a storage that is
\* unknown or reported as having no byte left, which count as enough (fits_disk).
StartedHasRoom ==
    verdict = "started" => \A s \in listed : target[s] > 0 /\ avail[s] > 0 => avail[s] > target[s]

\* The queue neither gives up a restore that could be done nor starts one that
\* runs out of space (build_plan, drain).
TargetSound == RefusedOnlyIfImpossible /\ StartedHasRoom
=============================================================================
