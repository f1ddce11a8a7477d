----------------------------- MODULE DiskRestore -----------------------------
(* The restore of a guest that fits no single storage, _restore_distributed:   *)
(* for each disk of the plan a volume is allocated and a detached pbs-restore  *)
(* fills it, which leaves its exit code in a file named after VMID and disk;   *)
(* then the guest's config is written.  Whatever goes wrong frees the volumes. *)
EXTENDS Naturals

CONSTANTS
    Disks,        \* number of disks in the plan; they are restored in its order
    Leftover,     \* an earlier restore with this VMID may have left its exit codes
    MaxFaults     \* bound on SSH commands that fail

ASSUME DiskAssumption == Disks \in Nat \ {0} /\ Leftover \in BOOLEAN /\ MaxFaults \in Nat

VARIABLES
    at,          \* where the worker is: <<step, disk>>
    volume,      \* disk -> its volume exists on the storage
    allocated,   \* disks whose volume the worker has noted
    copy,        \* disk -> its pbs-restore: "none", "running", "ok", "failed", "killed"
    rc,          \* disk -> exit code in the side file: "none", "0", "1"
    config,      \* the guest's config is written
    stale,       \* exit codes there were before this restore
    faults, stopAsked, result

diskVars == <<at, volume, allocated, copy, rc, config, stale, faults, stopAsked, result>>

Plan == 1 .. Disks

DiskInit ==
    /\ at = <<"alloc", 1>> /\ volume = [d \in Plan |-> FALSE] /\ allocated = {}
    /\ copy = [d \in Plan |-> "none"] /\ config = FALSE
    /\ stale \in (IF Leftover THEN SUBSET Plan ELSE {{}})
    /\ rc = [d \in Plan |-> IF d \in stale THEN "0" ELSE "none"]
    /\ faults = 0 /\ stopAsked = FALSE /\ result = ""

At(what, d) == at = <<what, d>>
Onward(d) == IF d = Disks THEN <<"config", d>> ELSE <<"alloc", d + 1>>

Rollback(why) == at' = <<"rollback", 0>> /\ result' = why

-----------------------------------------------------------------------------

\* A disk begins: the cancel is looked at, then pvesm alloc.
AllocDisk(d) ==
    /\ At("alloc", d)
    /\ \/ stopAsked /\ Rollback("cancelled") /\ UNCHANGED <<volume, allocated>>
       \/ ~stopAsked /\ Rollback("failed") /\ UNCHANGED <<volume, allocated>>
       \/ /\ ~stopAsked
          /\ volume' = [volume EXCEPT ![d] = TRUE] /\ allocated' = allocated \cup {d}
          /\ at' = <<"kick", d>> /\ UNCHANGED result
    /\ UNCHANGED <<copy, rc, config, stale, faults, stopAsked>>

\* pvesm path, the env file, and pbs-restore in the background.
KickDisk(d) ==
    /\ At("kick", d)
    /\ copy' = [copy EXCEPT ![d] = "running"] /\ at' = <<"watch", d>>
    /\ UNCHANGED <<volume, allocated, rc, config, stale, faults, stopAsked, result>>

\* Mutant: the exit code is not looked at, only that there is one.
WatchAnyCode(d) ==
    /\ At("watch", d) /\ ~stopAsked /\ rc[d] # "none"
    /\ at' = Onward(d)
    /\ UNCHANGED <<volume, allocated, copy, rc, config, stale, faults, stopAsked, result>>

\* One pass finds an exit code: on to the next disk, or the failure.
WatchDisk(d) ==
    /\ At("watch", d) /\ ~stopAsked /\ rc[d] # "none"
    /\ IF rc[d] = "0" THEN at' = Onward(d) /\ UNCHANGED result ELSE Rollback("failed")
    /\ UNCHANGED <<volume, allocated, copy, rc, config, stale, faults, stopAsked>>

\* A cancel kills the process, which then writes no exit code.
StopDisk(d) ==
    /\ At("watch", d) /\ stopAsked
    /\ copy' = [copy EXCEPT ![d] = IF @ = "running" THEN "killed" ELSE @]
    /\ Rollback("cancelled")
    /\ UNCHANGED <<volume, allocated, rc, config, stale, faults, stopAsked>>

\* _write_distributed_config; the cancel is not looked at again.
WriteConfig ==
    /\ At("config", Disks)
    /\ config' = TRUE /\ at' = <<"end", 0>> /\ result' = "restored"
    /\ UNCHANGED <<volume, allocated, copy, rc, stale, faults, stopAsked>>

\* An SSH command of any of these fails; what it should have done may have happened,
\* and the volume an alloc made is then not noted.
CommandFails ==
    /\ at[1] \in {"alloc", "kick", "watch", "config"} /\ faults < MaxFaults
    /\ faults' = faults + 1 /\ Rollback("failed")
    /\ \/ UNCHANGED <<volume, copy, config>>
       \/ at[1] = "alloc" /\ volume' = [volume EXCEPT ![at[2]] = TRUE] /\ UNCHANGED <<copy, config>>
       \/ at[1] = "kick" /\ copy' = [copy EXCEPT ![at[2]] = "running"] /\ UNCHANGED <<volume, config>>
       \/ at[1] = "config" /\ config' = TRUE /\ UNCHANGED <<volume, copy>>
    /\ UNCHANGED <<allocated, rc, stale, stopAsked>>

\* pvesm free of every noted volume, each failure ignored.
FreeVolumes ==
    /\ at[1] = "rollback"
    /\ \E stuck \in SUBSET {d \in allocated : copy[d] = "running"} :
         volume' = [d \in Plan |-> volume[d] /\ d \notin allocated \ stuck]
    /\ at' = <<"end", 0>>
    /\ UNCHANGED <<allocated, copy, rc, config, stale, faults, stopAsked, result>>

DiskWorker == WriteConfig \/ CommandFails \/ FreeVolumes
          \/ \E d \in Plan : AllocDisk(d) \/ KickDisk(d) \/ WatchDisk(d) \/ StopDisk(d)

\* pbs-restore ends on the host and leaves its exit code.
CopyEnds(d) ==
    /\ copy[d] = "running"
    /\ \E ok \in BOOLEAN :
         /\ copy' = [copy EXCEPT ![d] = IF ok THEN "ok" ELSE "failed"]
         /\ rc' = [rc EXCEPT ![d] = IF ok THEN "0" ELSE "1"]
    /\ UNCHANGED <<at, volume, allocated, config, stale, faults, stopAsked, result>>

AskStop ==
    /\ ~stopAsked /\ stopAsked' = TRUE
    /\ UNCHANGED <<at, volume, allocated, copy, rc, config, stale, faults, result>>

DiskNext == DiskWorker \/ AskStop \/ \E d \in Plan : CopyEnds(d)
DiskSpec == DiskInit /\ [][DiskNext]_diskVars

-----------------------------------------------------------------------------
(* Properties.                                                                 *)

Ended == at[1] = "end"

\* A restore that failed or was cancelled without a failing command leaves no volume
\* and no process on the host (_restore_distributed: "leaves no stray volumes").
RollbackClean ==
    Ended /\ result # "restored" /\ faults = 0 /\ stale = {} =>
        \A d \in Plan : ~volume[d] /\ copy[d] # "running"

\* On a host without exit codes of an earlier restore the config names only disks
\* that are copied completely.
CopiesComplete == result = "restored" /\ stale = {} => \A d \in Plan : volume[d] /\ copy[d] = "ok"

\* The distributed restore does all or leaves nothing.
AllOrNothing == RollbackClean /\ CopiesComplete
=============================================================================
