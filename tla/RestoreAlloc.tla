---------------------------- MODULE RestoreAlloc ----------------------------
(* The allocator of a restore environment (restore_alloc.py): two VMIDs, one   *)
(* sandbox VLAN tag and one static management address, each the lowest value   *)
(* of a configured range that no running or held run row holds.  There is no   *)
(* reservation table: the rows are the in-use registry, so a value is taken    *)
(* from the moment a row names it and free again when no live row does.        *)
(*                                                                             *)
(* An IPv4 address is its integer value, as ip_range treats it; SQL NULL in a  *)
(* row's column is Unset, a value no range holds.                              *)
EXTENDS Integers

CONSTANTS VmidFrom, VmidTo, VlanFrom, VlanTo, IpFrom, IpTo

ASSUME RangesAssumption ==
    /\ VmidFrom \in Nat \ {0} /\ VmidTo \in Nat
    /\ VlanFrom \in Nat \ {0} /\ VlanTo \in Nat
    /\ IpFrom \in Nat \ {0} /\ IpTo \in Nat

Unset == 0

\* The resource columns of a restore_runs row, and of an Allocation.
Env == [restore_vmid : Nat, helper_vmid : Nat, vlan_tag : Nat, mgmt_ip : Nat]

NoEnv == [restore_vmid |-> Unset, helper_vmid |-> Unset, vlan_tag |-> Unset, mgmt_ip |-> Unset]

InUseVmids(owned) == (UNION {{e.restore_vmid, e.helper_vmid} : e \in owned}) \ {Unset}
InUseTags(owned)  == {e.vlan_tag : e \in owned} \ {Unset}
InUseIps(owned)   == {e.mgmt_ip : e \in owned} \ {Unset}

FreeVmids(owned) == (VmidFrom .. VmidTo) \ InUseVmids(owned)
FreeTags(owned)  == (VlanFrom .. VlanTo) \ InUseTags(owned)
FreeIps(owned)   == (IpFrom .. IpTo) \ InUseIps(owned)

\* Mutant: the search does not start at the bottom of the range.
Highest(S) == CHOOSE x \in S : \A y \in S : y <= x

Lowest(S) == CHOOSE x \in S : \A y \in S : x <= y

\* allocate() returns None, the caller waits: fewer than two VMIDs are free, or no
\* tag, or no address.
Exhausted(owned) ==
    \/ \A v \in FreeVmids(owned) : FreeVmids(owned) = {v}
    \/ FreeTags(owned) = {}
    \/ FreeIps(owned) = {}

\* allocate() returns an Allocation.
Allocation(owned) ==
    LET first == Lowest(FreeVmids(owned))
    IN  [restore_vmid |-> first,
         helper_vmid  |-> Lowest(FreeVmids(owned) \ {first}),
         vlan_tag     |-> Lowest(FreeTags(owned)),
         mgmt_ip      |-> Lowest(FreeIps(owned))]
=============================================================================
