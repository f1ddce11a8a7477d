------------------------------ MODULE Decisions ------------------------------
(***************************************************************************)
(* What is worked out from the stored data: which VM is due for a test     *)
(* (DueClock), the storage its guest goes to (TargetChoice), how the       *)
(* scratch host is reached (HostSettings), what the jobs and rules of a    *)
(* cluster say of a guest (BackupJobs), how it is judged (Governance) and  *)
(* the diagram of copies (Topology).  A behaviour is one of one part,      *)
(* chosen at the start; the others rest.                                   *)
(***************************************************************************)
EXTENDS DueClock, TargetChoice, HostSettings, BackupJobs, Governance, Topology

VARIABLE part

\* What a part may begin with is chosen only where it is the one that runs.
DecideInit ==
  /\ part \in {"due", "target", "settings", "jobs", "guest", "diagram"}
  /\ enabled \in (IF part = "due" THEN [VMs -> BOOLEAN] ELSE {[v \in VMs |-> FALSE]})
  /\ \/ part = "target" /\ TargetInputs
     \/ part # "target" /\ total = [s \in Ticked |-> 1] /\ avail = total
                        /\ listed = {} /\ disks = <<>> /\ needed = 0
  /\ \/ part = "jobs" /\ JobsInputs
     \/ part # "jobs" /\ backupJobs = <<>> /\ rules = <<>> /\ groups = {}
  /\ \/ part = "guest"
     \/ part # "guest" /\ policy = "daily" /\ required = FALSE
  /\ \/ part = "diagram" /\ TopologyInputs
     \/ part # "diagram" /\ targets = <<>> /\ jobs = <<>> /\ unlimited = {}
  /\ Init /\ TargetStart /\ SettingsInit /\ JobsStart /\ JudgeInit /\ TopologyStart

DuePart == part = "due" /\ Next
           /\ UNCHANGED <<part, targetVars, settingsVars, scheduleVars, judgedVars, topologyVars>>
TargetPart == part = "target" /\ TargetNext
              /\ UNCHANGED <<part, vars, settingsVars, scheduleVars, judgedVars, topologyVars>>
SettingsPart == part = "settings" /\ SettingsNext
                /\ UNCHANGED <<part, vars, targetVars, scheduleVars, judgedVars, topologyVars>>
JobsPart == part = "jobs" /\ JobsNext
            /\ UNCHANGED <<part, vars, targetVars, settingsVars, judgedVars, topologyVars>>
GuestPart == part = "guest" /\ JudgeNext
             /\ UNCHANGED <<part, vars, targetVars, settingsVars, scheduleVars, topologyVars>>
DiagramPart == part = "diagram" /\ TopologyNext
               /\ UNCHANGED <<part, vars, targetVars, settingsVars, scheduleVars, judgedVars>>

DecideNext == DuePart \/ TargetPart \/ SettingsPart \/ JobsPart \/ GuestPart \/ DiagramPart

\* The fairness of DueClock; a part that rests owes nothing.
DecideFairness == WF_vars(part = "due" /\ SlotStep) /\ \A v \in VMs : SF_vars(Enqueue(v))

DecideSpec == DecideInit /\ DecideFairness
  /\ [][DecideNext]_<<part, vars, targetVars, settingsVars, scheduleVars, judgedVars, topologyVars>>
=============================================================================
