-------------------------- MODULE ReleaseProtocol --------------------------
(***************************************************************************)
(* What a BatchRelease promises to those who watch its status and own the  *)
(* Deployment: which phase may follow which, when a step may be left, and  *)
(* that the Deployment is held (paused, with the control info) before its  *)
(* pods are moved and given back before the release is called Completed.   *)
(* ReleaseLifecycle implements it reconcile by reconcile, BatchRollout     *)
(* implements its step machine pod by pod.                                 *)
(*                                                                         *)
(* It says nothing of caches, failed calls, crashes or who wakes whom.     *)
(* Two weaknesses of the code are part of the promise, so that it is one   *)
(* the code keeps: a user's continuation may be lost (Forgotten), and a    *)
(* release may start over at any time (Prepare, Reset).                    *)
(***************************************************************************)
EXTENDS Naturals

VARIABLES
  phase, \* Status.Phase
  idx,   \* Status.CurrentStepIndex
  state, \* Status.CurrentStepState
  held   \* is the Deployment paused and marked as under release?

vars == <<phase, idx, state, held>>

Rolling == {"RollingUpdate", "RollingBack"}

Init ==
  /\ phase = ""
  /\ idx = 0
  /\ state = ""
  /\ held = FALSE

(* A status write that began before a user continued the step undoes it.   *)
Forgotten == IF state = "Completed" THEN {"Completed", "Blocking"} ELSE {state}

(***************************************************************************)
(* Taking the Deployment                                                   *)
(***************************************************************************)
(* A release is new, or has a new template.                                *)
Prepare ==
  /\ phase' = "Initial"
  /\ idx' = idx
  /\ state' \in Forgotten
  /\ held' = held

(* An attempt to take the Deployment forgets how far the last release got. *)
Reset ==
  /\ phase \in {"Initial", "RollingUpdate", "Completed"}
  /\ idx' = 0
  /\ state' = ""
  /\ UNCHANGED <<phase, held>>

Hold ==
  /\ phase \in {"Initial", "Completed"}
  /\ held' = TRUE
  /\ UNCHANGED <<phase, idx, state>>

(* Batches only begin on a Deployment that is held: forward from Initial,  *)
(* back from a release under way or completed.                             *)
Begin ==
  /\ held
  /\ \/ phase = "Initial" /\ phase' = "RollingUpdate"
     \/ phase \in {"RollingUpdate", "Completed"} /\ phase' = "RollingBack"
  /\ idx' = 0
  /\ state' = ""
  /\ held' = held

(***************************************************************************)
(* The step machine                                                        *)
(***************************************************************************)
StepTo(from, to) ==
  /\ phase \in Rolling
  /\ state \in from
  /\ state' = to
  /\ UNCHANGED <<phase, idx, held>>

Start  == StepTo({"", "Initial"}, "Upgrade")
Ready  == StepTo({"Upgrade"}, "Blocking")
Rescale == StepTo({"", "Initial", "Upgrade", "Blocking", "Completed"}, "Initial")

(* A user continues a step, or the last one goes on by itself; what the    *)
(* status says of a step stays there when the phase is over.               *)
Continue ==
  /\ state = "Blocking"
  /\ state' = "Completed"
  /\ UNCHANGED <<phase, idx, held>>

Forget ==
  /\ state' \in Forgotten
  /\ UNCHANGED <<phase, idx, held>>

(* One step further, and only from a step that was continued.              *)
Advance ==
  /\ phase \in Rolling
  /\ state = "Completed"
  /\ idx' = idx + 1
  /\ state' = "Initial"
  /\ UNCHANGED <<phase, held>>

Finish ==
  /\ phase \in Rolling
  /\ state = "Completed"
  /\ phase' = "Finalizing"
  /\ UNCHANGED <<idx, state, held>>

StepMachine == Start \/ Ready \/ Rescale \/ Continue \/ Forget \/ Advance \/ Finish

(***************************************************************************)
(* Giving it back                                                          *)
(***************************************************************************)
GiveBack ==
  /\ phase = "Finalizing"
  /\ held' = FALSE
  /\ UNCHANGED <<phase, idx, state>>

Complete ==
  /\ phase = "Finalizing"
  /\ ~held
  /\ phase' = "Completed"
  /\ UNCHANGED <<idx, state, held>>

Next ==
  \/ Prepare \/ Reset \/ Hold \/ Begin
  \/ StepMachine
  \/ GiveBack \/ Complete

Spec == Init /\ [][Next]_vars
=============================================================================
