----------------------------- MODULE HelperSetup -----------------------------
(* How the helper container of a test restore comes up (restore_server.py):    *)
(* the isolated bridge, the addresses of its two legs, the template that is    *)
(* uploaded on demand, the agent inside.  execute sets it up before it pays    *)
(* for the restore; after a restart of the app, or of the host meanwhile,      *)
(* resume builds only what is gone.  Every call to the host can fail.          *)
(* Addresses have four bits.                                                   *)
EXTENDS Naturals, FiniteSets, FiniteSetsExt

CONSTANTS
    MgmtAddresses,        \* addresses of the management range
    MaxImages,            \* bound on versions of the app, each with its own image
    MaxRestartsOfApp, MaxMishaps

ASSUME HelperAssumption ==
    /\ MgmtAddresses \subseteq 1 .. 10 /\ MgmtAddresses # {}
    /\ MaxImages \in Nat /\ MaxRestartsOfApp \in Nat /\ MaxMishaps \in Nat

VARIABLES
    net,                  \* settings of the management leg, and the guest's address if known
    bridge,               \* the sandbox bridge: in the host's configuration, up
    image, templates,     \* the app's image; the templates on the host: image, and whole or not
    helperCt, restored,   \* the helper and the restored VM on the host
    setup,                \* where the run's thread is
    uploading,            \* its upload: none, running, done or broken
    resumed,              \* the thread is resume_run's
    spoiled,              \* history: something the run cannot make up for
    appRestarts, mishaps

setupVars == <<net, bridge, image, templates, helperCt, restored, setup, uploading, resumed,
               spoiled, appRestarts, mishaps>>
guestsOnHost == <<helperCt, restored>>
history == <<appRestarts, mishaps>>

None == 16                \* no address, no gateway
Subnet(a, p) == {b \in 0 .. 15 : b \div 2^(4 - p) = a \div 2^(4 - p)}

\* hosts() of ipaddress: without network and broadcast address where there are more
\* than two.
UsableHosts(S) == IF Cardinality(S) <= 2 THEN S ELSE S \ {Min(S), Max(S)}

Fallback == 12 .. 15      \* SANDBOX_FALLBACK_CIDR: not in use anywhere else

HelperInputs ==
    /\ net \in [ip : MgmtAddresses, prefix : {1, 2}, gateway : {None} \cup MgmtAddresses,
                guest : {None} \cup MgmtAddresses, guestPrefix : {1, 2, 3, 4}]
    /\ net.gateway # net.ip /\ net.gateway \in Subnet(net.ip, net.prefix) \cup {None}
    /\ net.guest = None => net.guestPrefix = 4
    /\ bridge \in [configured : BOOLEAN, up : {FALSE}]
    /\ templates \in {{}, {[image |-> 0, whole |-> TRUE]}}

HelperStart ==
    /\ image = 1 /\ helperCt = "none" /\ restored = "none" /\ setup = "bridge"
    /\ uploading = "none" /\ resumed = FALSE /\ spoiled = FALSE
    /\ appRestarts = 0 /\ mishaps = 0

HelperInit == HelperInputs /\ HelperStart

Mishap == mishaps < MaxMishaps /\ mishaps' = mishaps + 1

-----------------------------------------------------------------------------
(* Addresses.                                                                  *)

\* sandbox_host_ip: the lowest host of the guest's subnet that is not the guest.
sandbox_host_ip ==
    LET others == UsableHosts(Subnet(net.guest, net.guestPrefix)) \ {net.guest}
    IN  IF others = {} THEN net.guest + 1 ELSE Min(others)

\* _sandbox_alloc, sandbox_fallback_addrs.
SandboxIp == IF net.guest = None THEN Max(UsableHosts(Fallback)) ELSE sandbox_host_ip
SandboxNet == IF net.guest = None THEN Fallback ELSE Subnet(SandboxIp, net.guestPrefix)
MgmtNet == Subnet(net.ip, net.prefix)

\* Mutant: the sandbox leg always has the guest's prefix.
SandboxLegGuests == SandboxNet

\* helper_legs: where the guest's subnet is the management subnet the sandbox leg
\* connects to nothing but its own address.
SandboxLeg == IF SandboxNet = MgmtNet THEN {SandboxIp} ELSE SandboxNet

\* The app reaches the agent unless the sandbox leg draws the answers, or holds an
\* address the management leg needs.
Reachable == SandboxLeg \cap (MgmtNet \ {SandboxIp}) = {} /\ SandboxIp \notin {net.ip, net.gateway}

-----------------------------------------------------------------------------
(* The run's thread.                                                           *)

\* An exception: execute ends the run and takes down what it made, and so does
\* resume_run.
RunFails ==
    /\ Mishap /\ setup \notin {"over", "probing"}
    /\ setup' = "over" /\ helperCt' = "none" /\ restored' = "none" /\ uploading' = "none"
    /\ UNCHANGED <<net, bridge, image, templates, resumed, spoiled, appRestarts>>

\* ensure_sandbox_bridge: the configuration if it can be written, and up now; a
\* resume goes on without.
EnsureBridge ==
    /\ setup = "bridge" /\ setup' = IF resumed THEN "look" ELSE "template"
    /\ \/ bridge' = [configured |-> TRUE, up |-> TRUE] /\ UNCHANGED <<mishaps, spoiled>>
       \/ Mishap /\ bridge' = [bridge EXCEPT !.up = TRUE] /\ UNCHANGED spoiled
       \/ resumed /\ Mishap /\ spoiled' = (spoiled \/ ~bridge.up) /\ UNCHANGED bridge
    /\ UNCHANGED <<net, image, templates, guestsOnHost, uploading, resumed, appRestarts>>

\* resume_run builds the helper only if it is gone.
ResumeLooks ==
    /\ setup = "look" /\ setup' = IF helperCt = "none" THEN "template" ELSE "network"
    /\ UNCHANGED <<net, bridge, image, templates, guestsOnHost, uploading, resumed, spoiled, history>>

Current == {t \in templates : t.image = image}

\* ensure_helper_template: the template of this image, or its upload is started.
LookForTemplate ==
    /\ setup = "template"
    /\ IF Current # {} THEN setup' = "prune" /\ UNCHANGED <<templates, uploading>>
       ELSE /\ setup' = "wait" /\ uploading' = "running"
            /\ templates' = templates \cup {[image |-> image, whole |-> FALSE]}
    /\ UNCHANGED <<net, bridge, image, guestsOnHost, resumed, spoiled, history>>

\* The upload's task on the host, which goes on without the app.
UploadEnds ==
    /\ \E t \in {t \in templates : ~t.whole}, how \in {"done", "broken"} :
         /\ IF how = "done" THEN UNCHANGED mishaps ELSE Mishap
         /\ templates' = (templates \ {t}) \cup IF how = "done" THEN {[t EXCEPT !.whole = TRUE]} ELSE {}
         /\ uploading' = IF uploading = "running" /\ t.image = image THEN how ELSE uploading
    /\ UNCHANGED <<net, bridge, image, guestsOnHost, setup, resumed, spoiled, appRestarts>>

\* _wait_task: until it has stopped; after two minutes it just goes on.
WaitTask ==
    /\ setup = "wait"
    /\ \/ uploading = "done" /\ setup' = "prune" /\ UNCHANGED <<spoiled, mishaps>>
       \/ uploading = "running" /\ Mishap /\ setup' = "prune" /\ spoiled' = TRUE
    /\ UNCHANGED <<net, bridge, image, templates, guestsOnHost, uploading, resumed, appRestarts>>

\* The upload failed: RestoreTaskError.
UploadBroken ==
    /\ setup = "wait" /\ uploading = "broken"
    /\ setup' = "over" /\ helperCt' = "none" /\ restored' = "none" /\ uploading' = "none"
    /\ UNCHANGED <<net, bridge, image, templates, resumed, spoiled, history>>

\* _prune_helper_templates: the ones of other images, as far as they can be deleted.
PruneTemplates ==
    /\ setup = "prune" /\ setup' = "create"
    /\ \/ templates' = Current /\ UNCHANGED mishaps
       \/ Mishap /\ UNCHANGED templates
    /\ UNCHANGED <<net, bridge, image, guestsOnHost, uploading, resumed, spoiled, appRestarts>>

\* provision_helper: the container from the template, and its start.
CreateHelper ==
    /\ setup = "create" /\ \E t \in Current : t.whole
    /\ helperCt = "none" /\ helperCt' = "made" /\ setup' = "start"
    /\ UNCHANGED <<net, bridge, image, templates, restored, uploading, resumed, spoiled, history>>

StartHelper ==
    /\ setup = "start" /\ bridge.up
    /\ helperCt' = "started" /\ setup' = "agent"
    /\ UNCHANGED <<net, bridge, image, templates, restored, uploading, resumed, spoiled, history>>

\* _agent_wait_healthy, and dnsmasq for the sandbox leg.
AgentAnswers ==
    /\ setup = "agent" /\ Reachable
    /\ helperCt' = "serving" /\ setup' = IF resumed THEN "network" ELSE "restoring"
    /\ UNCHANGED <<net, bridge, image, templates, restored, uploading, resumed, spoiled, history>>

\* What a helper cannot be made, started or reached from ends the run.
SetupFails ==
    /\ \/ setup = "create" /\ (\A t \in Current : ~t.whole)
       \/ setup = "start" /\ ~bridge.up
       \/ setup = "agent" /\ ~Reachable
    /\ setup' = "over" /\ helperCt' = "none" /\ restored' = "none"
    /\ UNCHANGED <<net, bridge, image, templates, uploading, resumed, spoiled, history>>

\* The restore, a task of the host, which goes on without the app.
Restored ==
    /\ setup = "restoring" /\ restored' = "stopped" /\ setup' = "network"
    /\ UNCHANGED <<net, bridge, image, templates, helperCt, uploading, resumed, spoiled, history>>

\* rewrite_nics and start, unless the VM runs already.
BootRestored ==
    /\ setup = "network" /\ setup' = "probing" /\ restored' = "running"
    /\ UNCHANGED <<net, bridge, image, templates, helperCt, uploading, resumed, spoiled, history>>

ProbeOver ==
    /\ setup = "probing" /\ setup' = "over" /\ helperCt' = "none" /\ restored' = "none"
    /\ UNCHANGED <<net, bridge, image, templates, uploading, resumed, spoiled, history>>

\* The app ends, perhaps for a newer version, and maybe the host restarts or someone
\* deletes the helper before it is back.  Without a VM the run is over.
AppRestarts ==
    /\ appRestarts < MaxRestartsOfApp /\ appRestarts' = appRestarts + 1 /\ setup # "over"
    /\ image' \in {image, image + 1} \cap (1 .. MaxImages)
    /\ restored' \in IF setup = "restoring" THEN {"stopped"} ELSE {restored}
    /\ IF restored' = "none" THEN setup' = "over" /\ helperCt' = "none" /\ UNCHANGED <<spoiled, mishaps, bridge>>
       ELSE /\ setup' = "bridge"
            /\ \/ UNCHANGED <<helperCt, bridge, mishaps>>
               \/ Mishap /\ helperCt' = "none" /\ UNCHANGED bridge
               \/ /\ Mishap /\ bridge' = [bridge EXCEPT !.up = bridge.configured]
                  /\ helperCt' = IF helperCt = "none" THEN "none" ELSE "made"
            /\ spoiled' = (spoiled \/ helperCt' \in {"made", "started"})
    /\ uploading' = "none" /\ resumed' = TRUE
    /\ UNCHANGED <<net, templates>>

HelperNext ==
    \/ EnsureBridge \/ ResumeLooks \/ LookForTemplate \/ UploadEnds \/ WaitTask \/ UploadBroken
    \/ PruneTemplates \/ CreateHelper \/ StartHelper \/ AgentAnswers \/ SetupFails
    \/ Restored \/ BootRestored \/ ProbeOver \/ RunFails \/ AppRestarts

HelperSpec == HelperInit /\ [][HelperNext]_setupVars

-----------------------------------------------------------------------------
(* Properties.                                                                 *)

\* Whatever was interrupted, a guest is probed on a bridge that is up and through a
\* helper that serves its leg - unless the restart hit a resume while it built the
\* helper, or the host was restarted too: resume_run asks only whether the helper is
\* there (execute, resume_run).
ProbedThroughHelper == setup = "probing" /\ ~spoiled => helperCt = "serving" /\ bridge.up

\* A helper that was started is reached, whichever addresses the operator chose for
\* guests - if the guest's subnet lies beside the management subnet, or is the same
\* and its first free address is no other's (_sandbox_alloc, helper_legs).
StartedIsReached ==
    setup = "agent" /\ (\/ SandboxNet \cap MgmtNet = {}
                        \/ SandboxNet = MgmtNet /\ SandboxIp \notin {net.ip, net.gateway})
        => Reachable

\* The container is made from a template that is all there, if the thread that makes
\* it has waited for the upload as long as it takes; only one that a thread before a
\* restart left unfinished is taken for whole (ensure_helper_template).
MadeFromWhole ==
    setup = "create" /\ uploading # "none" /\ ~spoiled => \E t \in Current : t.whole

\* A probe goes through a helper that works: made from a whole template, reached by
\* the app, and on its leg of a bridge that is up.
HelperServes == ProbedThroughHelper /\ StartedIsReached /\ MadeFromWhole
=============================================================================
