----------------------------- MODULE MCSettles -----------------------------
(***************************************************************************)
(* What must happen in the end: one run for the waits of the managed       *)
(* control, of the native executor, of captures and of content stress.     *)
(* The components do not share a variable: a behaviour exercises one of    *)
(* them, the one in focus, under the fairness of that component.           *)
(***************************************************************************)
EXTENDS ManagedConsequential, NativeExecutor, Capture, ContentStress

VARIABLE focus   \* the component that runs in this behaviour

CONSTANTS a1, a2

TwoActions == {a1, a2}

MCInit ==
  /\ focus \in {"managed", "native", "capture", "stress"}
  /\ Init
  /\ NativeInit
  /\ CaptureInit
  /\ StressInit

MCvars == <<focus, vars, nativeVars, capVars, stressVars>>

MCNext ==
  \/ /\ focus = "managed" /\ Next
     /\ UNCHANGED <<focus, nativeVars, capVars, stressVars>>
  \/ /\ focus = "native" /\ NativeNext
     /\ UNCHANGED <<focus, vars, capVars, stressVars>>
  \/ /\ focus = "capture" /\ CaptureNext
     /\ UNCHANGED <<focus, vars, nativeVars, stressVars>>
  \/ /\ focus = "stress" /\ StressNext
     /\ UNCHANGED <<focus, vars, nativeVars, capVars>>

\* FairSpec, NativeFairness, CaptureFairness and StressFairness, of the
\* component in focus: the others could not take the steps they are owed.
MCFairness ==
  /\ WF_vars(focus = "managed" /\ Handlers)
  /\ \A i \in Surfaces : WF_vars(focus = "managed" /\ Worker(i))
  /\ \A a \in Actions : WF_vars(focus = "managed" /\ Reconcile(a))
  /\ WF_nativeVars(focus = "native" /\ NativeWorkerStep)
  /\ \A r \in NativeRequests : WF_nativeVars(focus = "native" /\ native_lease_passes(r))
  /\ \A t \in CaptureTxns : WF_capVars(focus = "capture" /\ CaptureOwes(t))
  /\ WF_stressVars(focus = "stress" /\ StressStep)

MCFairSpec == MCInit /\ [][MCNext]_MCvars /\ MCFairness

\* Every capture lets go of the gate and every content-stress command ends,
\* whether or not the page runs what it is sent or answers.
PageWorkEnds == CapturesEnd /\ StressEnds
=============================================================================
