------------------------------- MODULE MachineMC -------------------------------
(***************************************************************************)
(* A small instance of a running machine: its deployments and boots, the   *)
(* convergence of its applications, the state kuma says it is in.  The     *)
(* components share no state: a behaviour is one component's, the others   *)
(* stay where they start, and fairness is asked of the one that runs.      *)
(***************************************************************************)
EXTENDS Deployment, Converge, Status

VARIABLE which
machineVars == <<which, deploymentVars, convergeVars, statusVars>>

one(S) == CHOOSE x \in S : TRUE
\* One initial state of each component, for it to stay in.
DeploymentStill == native = TRUE /\ DeploymentInit
ConvergeStill == declared = one(Lists) /\ ConvergeInit
StatusStill ==
    /\ text = Missing /\ machine = "kuma" /\ kuma = one(Versions) /\ booted = one(Image)
    /\ StatusInit                           \* in sync with what it carries

MachineInit ==
    \/ which = "deployment" /\ DeploymentInit /\ ConvergeStill /\ StatusStill
    \/ which = "converge" /\ ConvergeInit /\ DeploymentStill /\ StatusStill
    \/ which = "status" /\ StatusInit /\ DeploymentStill /\ ConvergeStill

MachineNext ==
    /\ which' = which
    /\ \/ which = "deployment" /\ DeploymentNext /\ UNCHANGED <<convergeVars, statusVars>>
       \/ which = "converge" /\ ConvergeNext /\ UNCHANGED <<deploymentVars, statusVars>>
       \/ which = "status" /\ StatusNext /\ UNCHANGED <<deploymentVars, convergeVars>>

\* DeploymentFairSpec, ConvergeFairSpec and StatusFairSpec, each where it runs.
MachineFairSpec ==
    /\ MachineInit /\ [][MachineNext]_machineVars
    /\ WF_deploymentVars(which = "deployment" /\ BootGoesOn)
    /\ \A u \in Units : WF_convergeVars(which = "converge" /\ GoesOn(u))
    /\ \A u \in Daily : WF_convergeVars(which = "converge" /\ TimerFires(u))
    /\ WF_statusVars(which = "status" /\ Advised)
    /\ WF_statusVars(which = "status" /\ build_ends)
    /\ WF_statusVars(which = "status" /\ converged)

-----------------------------------------------------------------------------
AppLists == {{"a"}, {"b"}, {"a", "b"}}

(* Every component's state stays in its types.                               *)
MachineTypeOK == DeploymentTypeOK /\ ConvergeTypeOK /\ StatusTypeOK
=============================================================================
