------------------------ MODULE RestoreAllocTheorems ------------------------
(* Facts about the allocator, for every choice of the ranges: what it hands    *)
(* out lies in the ranges and is named by no live row.                         *)
EXTENDS RestoreAlloc, WellFoundedInduction, TLAPS

\* The lowest element of a nonempty set of naturals exists: the CHOOSE of Lowest
\* (_lowest_free's first hit) names a member below all others.
LEMMA LowestIsLeast ==
  ASSUME NEW S, S \subseteq Nat, S # {}
  PROVE  Lowest(S) \in S /\ \A y \in S : Lowest(S) <= y
<1>1. PICK x \in S : \A y \in S : ~(<<y, x>> \in OpToRel(<, Nat))
  BY WFMin, NatLessThanWellFounded
<1>2. \A y \in S : x <= y
  <2> SUFFICES ASSUME NEW y \in S, ~(x <= y) PROVE FALSE
    OBVIOUS
  <2>1. x \in Nat /\ y \in Nat /\ y < x
    BY SMT
  <2>2. <<y, x>> \in OpToRel(<, Nat)
    BY <2>1 DEF OpToRel
  <2> QED BY <1>1, <2>2
<1> QED BY <1>2 DEF Lowest

\* The values still free lie in their configured ranges of naturals.
LEMMA FreeInRange ==
  ASSUME NEW owned
  PROVE  /\ FreeVmids(owned) \subseteq VmidFrom .. VmidTo /\ FreeVmids(owned) \subseteq Nat \ {0}
         /\ FreeTags(owned) \subseteq VlanFrom .. VlanTo /\ FreeTags(owned) \subseteq Nat \ {0}
         /\ FreeIps(owned) \subseteq IpFrom .. IpTo /\ FreeIps(owned) \subseteq Nat \ {0}
  BY RangesAssumption, SMT DEF FreeVmids, FreeTags, FreeIps

\* What allocate returns is an environment inside the configured ranges, with two
\* different guests, and none of its values is in use by a live row: allocate never
\* hands out what the registry names (restore_alloc.allocate).
THEOREM AllocationFresh ==
  ASSUME NEW owned, ~Exhausted(owned)
  PROVE  /\ Allocation(owned) \in Env
         /\ Allocation(owned).restore_vmid \in FreeVmids(owned)
         /\ Allocation(owned).helper_vmid \in FreeVmids(owned)
         /\ Allocation(owned).restore_vmid # Allocation(owned).helper_vmid
         /\ Allocation(owned).vlan_tag \in FreeTags(owned)
         /\ Allocation(owned).mgmt_ip \in FreeIps(owned)
<1> DEFINE ids == FreeVmids(owned)
           first == Lowest(ids)
<1>1. ids \subseteq Nat /\ FreeTags(owned) \subseteq Nat /\ FreeIps(owned) \subseteq Nat
  BY FreeInRange
<1>2. ids # {} /\ ids \ {first} # {} /\ FreeTags(owned) # {} /\ FreeIps(owned) # {}
  BY DEF Exhausted
<1>3. first \in ids
  BY <1>1, <1>2, LowestIsLeast
<1>4. Lowest(ids \ {first}) \in ids \ {first}
  BY <1>1, <1>2, LowestIsLeast
<1>5. Lowest(FreeTags(owned)) \in FreeTags(owned) /\ Lowest(FreeIps(owned)) \in FreeIps(owned)
  BY <1>1, <1>2, LowestIsLeast
<1>6. Allocation(owned) = [restore_vmid |-> first, helper_vmid |-> Lowest(ids \ {first}),
                           vlan_tag |-> Lowest(FreeTags(owned)), mgmt_ip |-> Lowest(FreeIps(owned))]
  BY DEF Allocation
<1> HIDE DEF ids, first
<1>7. /\ Allocation(owned).restore_vmid = first
      /\ Allocation(owned).helper_vmid = Lowest(ids \ {first})
      /\ Allocation(owned).vlan_tag = Lowest(FreeTags(owned))
      /\ Allocation(owned).mgmt_ip = Lowest(FreeIps(owned))
  BY <1>6
<1>8. Allocation(owned) \in Env
  <2>1. /\ first \in Nat /\ Lowest(ids \ {first}) \in Nat
        /\ Lowest(FreeTags(owned)) \in Nat /\ Lowest(FreeIps(owned)) \in Nat
    BY <1>1, <1>3, <1>4, <1>5
  <2> QED BY <2>1, <1>6 DEF Env
<1> QED BY <1>3, <1>4, <1>5, <1>7, <1>8 DEF ids
=============================================================================
