-------------------------- MODULE RestoreAllocCheck --------------------------
(* The allocator against its registry: environments are allocated, parked      *)
(* (helper and management address freed), given a fresh helper for a re-test   *)
(* and released in any order, each step reading the registry it changes.  What *)
(* the rows then promise is what allocate promises when nobody allocates       *)
(* between its reading and its caller's writing; RestoreQueue has the callers. *)
EXTENDS RestoreAlloc, Sequences

VARIABLE owned     \* the environments of the running and held rows

\* allocate() for a new run, which then names its environment.
Acquire == ~Exhausted(owned) /\ owned' = owned \cup {Allocation(owned)}

\* update_run(helper_vmid=None, mgmt_ip=None)
Park(e) == owned' = (owned \ {e}) \cup {[e EXCEPT !.helper_vmid = Unset, !.mgmt_ip = Unset]}

\* reprovision_and_retest: a fresh helper and address for a parked environment.
Retest(e) ==
    /\ e.helper_vmid = Unset /\ ~Exhausted(owned)
    /\ owned' = (owned \ {e}) \cup
                  {[e EXCEPT !.helper_vmid = Allocation(owned).helper_vmid,
                             !.mgmt_ip = Allocation(owned).mgmt_ip]}

Release(e) == owned' = owned \ {e}

AllocInit == owned = {}

AllocNext == Acquire \/ \E e \in owned : Park(e) \/ Retest(e) \/ Release(e)

AllocSpec == AllocInit /\ [][AllocNext]_owned

-----------------------------------------------------------------------------
(* Properties.                                                                 *)

\* What allocate's loops do: walk each range upwards past the values in use.
Walk(from, used) ==
    LET walk[n \in Nat] == IF n < from THEN <<>>
                           ELSE IF n \in used THEN walk[n - 1] ELSE Append(walk[n - 1], n)
    IN  walk
Unused(from, to, used) == Walk(from, used)[to]

\* allocate takes the first two free VMIDs and the first free tag and address of
\* a walk over each range, and gives up exactly when one of the walks falls short
\* (_two_lowest_free, _lowest_free, ip_range).
WalkAgrees ==
    LET ids == Unused(VmidFrom, VmidTo, InUseVmids(owned))
        tags == Unused(VlanFrom, VlanTo, InUseTags(owned))
        ips == Unused(IpFrom, IpTo, InUseIps(owned))
    IN  IF Len(ids) < 2 \/ Len(tags) < 1 \/ Len(ips) < 1
          THEN Exhausted(owned)
          ELSE /\ ~Exhausted(owned)
               /\ Allocation(owned) = [restore_vmid |-> ids[1], helper_vmid |-> ids[2],
                                       vlan_tag |-> tags[1], mgmt_ip |-> ips[1]]

\* No two environments share a VMID, a tag or an address, and none names one guest
\* twice, however allocations, re-tests and releases alternate.
Disjoint ==
    /\ \A e \in owned : e.restore_vmid # e.helper_vmid
    /\ \A e, f \in owned : e # f =>
         /\ {e.restore_vmid, e.helper_vmid} \cap {f.restore_vmid, f.helper_vmid} \subseteq {Unset}
         /\ e.vlan_tag # f.vlan_tag
         /\ e.mgmt_ip = f.mgmt_ip => e.mgmt_ip = Unset

\* What is handed out is what a walk of the ranges finds, and nobody else's.
AllocatesRight == WalkAgrees /\ Disjoint
=============================================================================
