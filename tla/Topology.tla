------------------------------ MODULE Topology ------------------------------
(* Where a cluster's backups go (pbs_topology.py): build_topology follows the  *)
(* data from the storages PVE backs up to along the sync jobs, namespace by    *)
(* namespace, and _layers puts the datastores it reaches into columns: a first *)
(* search finds the jobs that close a cycle, the longest path over the others  *)
(* is the column.  Each step of the loops is an action; what the jobs are is   *)
(* chosen at the start.  A datastore is a number; the first two are of one     *)
(* server, the others of another.                                              *)
EXTENDS Naturals, Sequences, SequencesExt, FiniteSets, FiniteSetsExt, Functions

CONSTANTS
    MaxStores,        \* bound on the datastores
    Names,            \* names of namespace levels
    MaxNsDepth,       \* _MAX_NS_DEPTH
    NsJobs, MaxJobs   \* bound on the sync jobs, where some or none name a namespace

ASSUME TopologyAssumption == MaxStores \in Nat \ {0, 1} /\ MaxNsDepth \in Nat \ {0} /\ NsJobs \in Nat /\ MaxJobs \in Nat

VARIABLES
    targets,          \* storages of PVE: datastore -> its namespace and guests
    jobs,             \* the sync jobs in the order PBS listed them
    unlimited,        \* servers with a connection of the cluster and no namespace
    doing,            \* "primary", "own", "cycles", "columns", "drawn"
    queue, visited,   \* (datastore, namespace) still to follow, and ever queued
    reached,          \* datastores in the diagram
    involved,         \* servers of those the targets lead to
    drawn,            \* indices of the jobs in it, in the order they were met
    looked,           \* jobs gone through by the loop that runs
    path, done, back, \* the search: its stack, what it has left, edges that close a cycle
    layer,            \* datastore -> column
    round, changed    \* rounds of _layers over the jobs, and whether this one pushed

walkVars == <<queue, visited, reached, involved, drawn>>
searchVars == <<path, done, back>>
columnVars == <<layer, round, changed>>
inputs == <<targets, jobs, unlimited>>
topologyVars == <<inputs, doing, looked, walkVars, searchVars, columnVars>>

Stores == 1 .. MaxStores
ServerOf(s) == IF s <= 2 THEN "A" ELSE "B"
RootNs == <<>>
Namespaces == {RootNs} \cup {<<n>> : n \in Names}
Job(S) == [src : Stores, sns : S, dst : Stores, dns : S]

\* PVE uses the first storage, and may use a second one as much or more, or only
\* know it; the jobs are few, but their order is any.
TopologyInputs ==
    \/ /\ jobs \in BoundedSeq(Job(Namespaces), NsJobs) /\ unlimited = {"A", "B"}
       /\ \E n \in Namespaces : targets = [t \in {1} |-> [ns |-> n, vms |-> 2]]
    \/ /\ \E k \in 0 .. MaxJobs : \E J \in kSubset(k, Job({RootNs})) : jobs \in SetToSeqs(J)
       /\ unlimited \in {{}, {"B"}}
       /\ \E s \in {1, 2}, v \in {0, 2, 3} :
            targets = [t \in {1, s} |-> [ns |-> RootNs, vms |-> IF t = 1 THEN 2 ELSE v]]

TopologyStart ==
    /\ doing = "primary" /\ queue = <<>> /\ visited = {} /\ reached = {} /\ involved = {}
    /\ drawn = <<>> /\ looked = 0 /\ path = <<>> /\ done = {} /\ back = {}
    /\ layer = <<>> /\ round = 0 /\ changed = FALSE

TopologyInit == TopologyInputs /\ TopologyStart

-----------------------------------------------------------------------------
(* The walk.                                                                   *)

\* Mutant: a job that copies a part of the data is not followed.
MapNsWhole(d, j) ==
    IF IsPrefix(j.sns, d) THEN {j.dns \o SubSeq(d, Len(j.sns) + 1, Len(d))} ELSE {}

\* _map_ns: the namespace the data lands in, in a set, or none.
MapNs(d, j) ==
    IF IsPrefix(j.sns, d) THEN {j.dns \o SubSeq(d, Len(j.sns) + 1, Len(d))}
    ELSE IF IsPrefix(d, j.sns) THEN {j.dns} ELSE {}

\* A storage no backup job writes to holds copies at most, unless no job is known.
Used == {s \in DOMAIN targets : targets[s].vms > 0 \/ \A t \in DOMAIN targets : targets[t].vms = 0}

\* Datastores of the cluster's PBS that take no part in the flow.
Aside == {s \in Stores : ServerOf(s) \in unlimited \ involved}

Reach(s, ns) ==
    /\ reached' = reached \cup {s}
    /\ IF <<s, ns>> \in visited \/ Len(ns) > MaxNsDepth THEN UNCHANGED <<visited, queue>>
       ELSE visited' = visited \cup {<<s, ns>>} /\ queue' = Append(queue, <<s, ns>>)

Primary ==
    /\ doing = "primary"
    /\ \E s \in Used \ reached : /\ \A t \in Used \ reached : s <= t
                                 /\ Reach(s, targets[s].ns)
    /\ UNCHANGED <<inputs, doing, looked, involved, drawn, searchVars, columnVars>>

OwnStore ==
    /\ doing = "own"
    /\ \E s \in Aside \ reached : (\A t \in Aside \ reached : s <= t) /\ Reach(s, RootNs)
    /\ UNCHANGED <<inputs, doing, looked, involved, drawn, searchVars, columnVars>>

\* walk() begins once everything to start from is reached.
Walks ==
    \/ doing = "primary" /\ Used \subseteq reached
    \/ doing = "own" /\ Aside \subseteq reached

\* The next job, seen from the datastore at the head of the queue.
Follow ==
    /\ Walks /\ queue # <<>> /\ looked < Len(jobs) /\ looked' = looked + 1
    /\ LET i == looked + 1
           landed == MapNs(Head(queue)[2], jobs[i])
       IN  IF jobs[i].src = Head(queue)[1] /\ landed # {}
             THEN /\ \E ns \in landed : Reach(jobs[i].dst, ns)
                  /\ drawn' = IF i \in ToSet(drawn) THEN drawn ELSE Append(drawn, i)
             ELSE UNCHANGED <<queue, visited, reached, drawn>>
    /\ UNCHANGED <<inputs, doing, involved, searchVars, columnVars>>

Followed ==
    /\ Walks /\ queue # <<>> /\ looked = Len(jobs)
    /\ looked' = 0 /\ queue' = Tail(queue)
    /\ UNCHANGED <<inputs, doing, visited, reached, involved, drawn, searchVars, columnVars>>

OwnStores ==
    /\ doing = "primary" /\ Walks /\ queue = <<>>
    /\ doing' = "own" /\ involved' = {ServerOf(s) : s \in reached}
    /\ UNCHANGED <<inputs, looked, queue, visited, reached, drawn, searchVars, columnVars>>

-----------------------------------------------------------------------------
(* The columns: _layers.                                                       *)

\* The edges of a datastore, as positions in what is drawn.
Out(s) == {k \in DOMAIN drawn : jobs[drawn[k]].src = s}
Vms(s) == IF s \in Used THEN targets[s].vms ELSE 0

\* Mutant: in the order of their names.
BeforeByName(s, t) == s < t

\* roots: the targets, those of most guests first, and then what is left.
Before(s, t) ==
    \/ s \in Used /\ t \notin Used
    \/ (s \in Used <=> t \in Used) /\ (Vms(s) > Vms(t) \/ (Vms(s) = Vms(t) /\ s < t))

SearchCycles ==
    /\ doing = "own" /\ Walks /\ queue = <<>> /\ doing' = "cycles"
    /\ UNCHANGED <<inputs, looked, walkVars, searchVars, columnVars>>

Entered(s) == [node |-> s, rest |-> Out(s)]
OnPath == {p.node : p \in ToSet(path)}

EnterRoot ==
    /\ doing = "cycles" /\ path = <<>>
    /\ \E s \in reached \ done : /\ \A t \in (reached \ done) \ {s} : Before(s, t)
                                 /\ path' = <<Entered(s)>>
    /\ UNCHANGED <<inputs, doing, looked, walkVars, done, back, columnVars>>

Leave ==
    /\ doing = "cycles" /\ path # <<>> /\ Last(path).rest = {}
    /\ path' = Front(path) /\ done' = done \cup {Last(path).node}
    /\ UNCHANGED <<inputs, doing, looked, walkVars, back, columnVars>>

\* The next edge of the datastore on top of the stack.
SearchOn ==
    /\ doing = "cycles" /\ path # <<>> /\ Last(path).rest # {}
    /\ LET rest == Last(path).rest
           i == drawn[Min(rest)]
           dst == jobs[i].dst
           after == [path EXCEPT ![Len(path)].rest = rest \ {Min(rest)}]
       IN  /\ back' = IF dst \in OnPath THEN back \cup {i} ELSE back
           /\ path' = IF dst \in OnPath \cup done THEN after ELSE Append(after, Entered(dst))
    /\ UNCHANGED <<inputs, doing, looked, walkVars, done, columnVars>>

FirstColumn ==
    /\ doing = "cycles" /\ path = <<>> /\ reached \subseteq done
    /\ doing' = "columns" /\ looked' = 0
    /\ layer' = [s \in reached |-> 1] /\ round' = 1 /\ changed' = FALSE
    /\ UNCHANGED <<inputs, walkVars, searchVars>>

\* An edge that closes no cycle pushes its target on.
Push ==
    /\ doing = "columns" /\ looked < Len(drawn) /\ looked' = looked + 1
    /\ LET i == drawn[looked + 1]
           beyond == layer[jobs[i].src] + 1
       IN  IF i \notin back /\ layer[jobs[i].dst] < beyond
             THEN layer' = [layer EXCEPT ![jobs[i].dst] = beyond] /\ changed' = TRUE
             ELSE UNCHANGED <<layer, changed>>
    /\ UNCHANGED <<inputs, doing, round, walkVars, searchVars>>

RoundEnds ==
    /\ doing = "columns" /\ looked = Len(drawn)
    /\ IF ~changed \/ round = Cardinality(reached) THEN doing' = "drawn" /\ UNCHANGED <<looked, round, changed>>
       ELSE doing' = doing /\ looked' = 0 /\ round' = round + 1 /\ changed' = FALSE
    /\ UNCHANGED <<inputs, walkVars, searchVars, layer>>

TopologyNext == Primary \/ OwnStore \/ Follow \/ Followed \/ OwnStores \/ SearchCycles
                \/ EnterRoot \/ Leave \/ SearchOn \/ FirstColumn \/ Push \/ RoundEnds

TopologySpec == TopologyInit /\ [][TopologyNext]_topologyVars

-----------------------------------------------------------------------------
(* Properties.                                                                 *)

\* Reference: where single backups lie, followed one by one through the jobs, five in
\* a row at most; a job takes what is in its source namespace or below.
Groups == BoundedSeq(Names, MaxNsDepth)
Takes(i, p) == jobs[i].src = p[1] /\ IsPrefix(jobs[i].sns, p[2])
Moved(i, p) == <<jobs[i].dst, jobs[i].dns \o SubSeq(p[2], Len(jobs[i].sns) + 1, Len(p[2]))>>
Carried(S) == S \cup {p \in {Moved(k[1], k[2]) : k \in {k \in (DOMAIN jobs) \X S : Takes(k[1], k[2])}} :
                        Len(p[2]) <= MaxNsDepth}
Spread(S) == Carried(Carried(Carried(Carried(Carried(S)))))
Written == {p \in Used \X Groups : IsPrefix(targets[p[1]].ns, p[2])}
Lying == Spread(Written \cup (Aside \X Groups))

\* No job is missing that takes on a backup PVE writes below one of its targets, or
\* one in a datastore shown besides, because jobs run in a circle, copy a part of a
\* namespace or move it elsewhere (build_topology, _map_ns).
NoneMissing ==
    doing = "drawn" => \A i \in DOMAIN jobs : (\E p \in Lying : Takes(i, p)) => i \in ToSet(drawn)

\* No job is shown that has nothing to take on, and no datastore besides of a server
\* that backups come to (build_topology: "PBS that take no part in the flow").
NoneInvented ==
    doing = "drawn" => /\ \A i \in ToSet(drawn) : \E p \in Lying : Takes(i, p)
                       /\ Aside = {s \in Stores : /\ ServerOf(s) \in unlimited
                                                  /\ \A p \in Spread(Written) : ServerOf(p[1]) # ServerOf(s)}

\* The diagram has the jobs that a walk of the backups themselves would find.
WalkFollowsData == NoneMissing /\ NoneInvented

\* The jobs of S lead from one datastore to another, over some or none.
Leads(a, b, S) ==
    \E n \in 1 .. MaxStores : \E p \in [1 .. n -> Stores] :
        /\ p[1] = a /\ p[n] = b
        /\ \A k \in 1 .. n - 1 : \E j \in S : jobs[j].src = p[k] /\ jobs[j].dst = p[k + 1]

\* A line drawn backwards closes a circle of sync jobs: nothing else is taken out of
\* the order of the columns (_layers, back).
BackClosesCycle ==
    doing = "drawn" => \A i \in back : Leads(jobs[i].dst, jobs[i].src, ToSet(drawn))

\* Without the lines drawn backwards every copy stands in a later column than its
\* source, through any number of jobs (_layers: "longest path on the DAG").
LayersAscend ==
    doing = "drawn" => \A i \in ToSet(drawn) \ back : layer[jobs[i].src] < layer[jobs[i].dst]

\* The target with most guests stands before every datastore it backs up with
\* mutually, whichever was met first (_layers: the roots' order).
MainTargetFirst ==
    doing = "drawn" => \A i, k \in ToSet(drawn) :
        /\ jobs[i].src = jobs[k].dst /\ jobs[i].dst = jobs[k].src /\ jobs[i].src # jobs[i].dst
        /\ \A t \in Stores \ {jobs[i].src} : Vms(jobs[i].src) > Vms(t)
        => layer[jobs[i].src] < layer[jobs[i].dst]

\* The diagram reads from left to right: each copy stands after its source, but for
\* lines that close a circle, and these begin at the main target (_layers).
ColumnsInOrder == BackClosesCycle /\ LayersAscend /\ MainTargetFirst
=============================================================================
