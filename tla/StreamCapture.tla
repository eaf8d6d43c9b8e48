---------------------------- MODULE StreamCapture ----------------------------
(***************************************************************************)
(* Managed stream capture (crates/xlog-cuda/src/cuda_graph.rs): threads    *)
(* that record a stream into a graph, threads that submit work to streams  *)
(* which may or may not be recorded, those that need the driver for        *)
(* themselves, and the retirements that wait for all captures to end.  The *)
(* registry is one mutex; no step that calls the driver for long holds it. *)
(* The driver is modelled as the code uses it: every capture has a new     *)
(* identity, and what a thread enqueues on a stream lands in the capture   *)
(* the stream is in at that moment, or on the stream itself.               *)
(***************************************************************************)
EXTENDS Naturals, FiniteSets

CONSTANTS
  Capturers,   \* threads that capture
  Submitters,  \* threads that submit
  Streams,
  MaxCaptures, \* bound: captures that begin
  MaxFaults,   \* bound: submissions and driver calls that fail, but for the last
               \* EndCapture of a guard
  None

ASSUME CaptureAssumption ==
  /\ MaxCaptures \in Nat /\ MaxFaults \in Nat
  /\ None \notin Streams
  /\ IsFiniteSet(Submitters)

VARIABLES
  active,     \* StreamCaptureRegistry.active: the streams reserved for a capture
  entry,      \* StreamCaptureRegistry.modules
  executing,  \* CaptureExecutingSubmissions.count of every entry
  exclusions, \* StreamCaptureRegistry.capture_exclusions
  retiring,   \* StreamCaptureRegistry.retiring
  failed,     \* the captures whose owners are marked failed
  step,       \* where a capturing thread is
  on,         \* its stream
  id,         \* its capture
  stage,      \* where a submitting thread is
  target,     \* its StreamSubmissionPhase
  capture,    \* driver: the capture a stream is in, 0 for none
  broken,     \* driver: the captures it has invalidated
  begun,      \* how many captures have begun
  faults,
  spoilt,     \* the captures with a failed submission, for the properties only
  graphs      \* the captures whose graph was handed out

registryVars  == <<active, entry, exclusions, retiring>>
capturerVars  == <<step, on, id>>
submitterVars == <<stage, target>>
driverVars    == <<capture, broken, begun>>
outcomeVars   == <<faults, failed, spoilt, graphs>>
vars == <<registryVars, executing, capturerVars, submitterVars, driverVars, outcomeVars>>

Ids == 1..MaxCaptures
Steps == {"idle", "leased", "capturing", "finish", "waiting", "ended", "retry",
          "waitingAgain", "dropped", "giveBack", "stuck"}
Stages == {"idle", "phase", "pinned", "submitting", "failing", "settled"}
Phases == [kind : {"ordinary", "exclusive"}, stream : Streams, id : {0}]
          \cup [kind : {"captured"}, stream : Streams, id : Ids]

\* A submission that was admitted and has not returned.
Executing(p) == stage[p] \notin {"idle", "phase"}
Captured(p)  == stage[p] # "idle" /\ target[p].kind = "captured"

TypeOK ==
  /\ active \subseteq Streams
  /\ entry \in [Ids -> {"none", "open", "closing"}]
  /\ executing \in [Ids -> Nat]
  /\ exclusions \in Nat
  /\ retiring \in BOOLEAN
  /\ step \in [Capturers -> Steps]
  /\ on \in [Capturers -> Streams \cup {None}]
  /\ id \in [Capturers -> Ids \cup {0}]
  /\ stage \in [Submitters -> Stages]
  /\ target \in [Submitters -> Phases \cup {None}]
  /\ \A p \in Submitters : stage[p] # "idle" => target[p] \in Phases
  /\ capture \in [Streams -> Ids \cup {0}]
  /\ begun \in 0..MaxCaptures
  /\ faults \in 0..MaxFaults
  /\ failed \cup broken \cup spoilt \cup graphs \subseteq Ids

Init ==
  /\ active = {} /\ entry = [i \in Ids |-> "none"] /\ exclusions = 0 /\ retiring = FALSE
  /\ executing = [i \in Ids |-> 0]
  /\ step = [c \in Capturers |-> "idle"]
  /\ on = [c \in Capturers |-> None]
  /\ id = [c \in Capturers |-> 0]
  /\ stage = [p \in Submitters |-> "idle"]
  /\ target = [p \in Submitters |-> None]
  /\ capture = [s \in Streams |-> 0] /\ broken = {} /\ begun = 0
  /\ faults = 0 /\ failed = {} /\ spoilt = {} /\ graphs = {}

Fault == faults < MaxFaults /\ faults' = faults + 1
Go(c, next) == step' = [step EXCEPT ![c] = next]

-----------------------------------------------------------------------------
\* A capturing thread.

\* try_acquire_stream_capture_key; when it is refused nothing changes.
Lease(c, s) ==
  /\ step[c] = "idle" /\ begun < MaxCaptures
  /\ ~ retiring /\ exclusions = 0 /\ s \notin active
  /\ active' = active \cup {s}
  /\ on' = [on EXCEPT ![c] = s]
  /\ Go(c, "leased")
  /\ UNCHANGED <<entry, exclusions, retiring, executing, id, submitterVars, driverVars, outcomeVars>>

\* Mutant: the lease excludes ordinary work from now on.
LeaseSuffices == TRUE

\* An ordinary phase may have been acquired since.
NoOrdinary == exclusions = 0

\* begin: the capture is registered under the mutex that covers its begin.
Begin(c) ==
  /\ step[c] = "leased" /\ NoOrdinary /\ begun < MaxCaptures
  /\ begun' = begun + 1
  /\ capture' = [capture EXCEPT ![on[c]] = begun + 1]
  /\ id' = [id EXCEPT ![c] = begun + 1]
  /\ entry' = [entry EXCEPT ![begun + 1] = "open"]
  /\ Go(c, "capturing")
  /\ UNCHANGED <<active, exclusions, retiring, executing, on, submitterVars, broken, outcomeVars>>

\* The driver began, but does not tell which capture: it is not registered,
\* and ends when the guard is dropped.
BeginUnregistered(c) ==
  /\ step[c] = "leased" /\ NoOrdinary /\ begun < MaxCaptures /\ Fault
  /\ begun' = begun + 1
  /\ capture' = [capture EXCEPT ![on[c]] = begun + 1]
  /\ id' = [id EXCEPT ![c] = begun + 1]
  /\ Go(c, "retry")
  /\ UNCHANGED <<registryVars, executing, on, submitterVars, broken, failed, spoilt, graphs>>

BeginRefused(c) ==
  /\ step[c] = "leased"
  /\ IF NoOrdinary THEN Fault ELSE UNCHANGED faults
  /\ Go(c, "giveBack")
  /\ UNCHANGED <<registryVars, executing, on, id, submitterVars, driverVars, failed, spoilt, graphs>>

\* The recording closure returns, fails, or unwinds.
Recorded(c) ==
  /\ step[c] = "capturing"
  /\ Go(c, "finish")
  /\ UNCHANGED <<registryVars, executing, on, id, submitterVars, driverVars, outcomeVars>>

RecordFails(c) ==
  /\ step[c] = "capturing" /\ Fault
  /\ failed' = failed \cup {id[c]}
  /\ spoilt' = spoilt \cup {id[c]}
  /\ \E next \in {"finish", "retry"} : Go(c, next)
  /\ UNCHANGED <<registryVars, executing, on, id, submitterVars, driverVars, graphs>>

\* close_submission_admission, in finish or in the drop of the guard.
Close(c) ==
  /\ step[c] \in {"finish", "retry"}
  /\ entry' = [entry EXCEPT ![id[c]] = IF @ = "open" THEN "closing" ELSE @]
  /\ Go(c, IF step[c] = "finish" THEN "waiting" ELSE "waitingAgain")
  /\ UNCHANGED <<active, exclusions, retiring, executing, on, id, submitterVars, driverVars, outcomeVars>>

\* Mutant: EndCapture waits for the threads that hold a phase of the capture.
QuietOfPhases(c) == \A p \in Submitters : Captured(p) => target[p].id # id[c]

\* wait_until_idle.
Quiet(c) == entry[id[c]] = "none" \/ executing[id[c]] = 0

DriverEnds(c) == capture' = [capture EXCEPT ![on[c]] = 0]

\* The capture ends, with a graph only if it is intact; in the drop of the
\* guard the graph is destroyed.
EndCapture(c) ==
  /\ step[c] \in {"waiting", "waitingAgain"} /\ Quiet(c)
  /\ DriverEnds(c)
  /\ \/ /\ step[c] = "waiting" /\ id[c] \notin broken
        /\ Go(c, "ended")
        /\ UNCHANGED faults
     \/ /\ IF step[c] = "waiting" /\ id[c] \notin broken THEN Fault ELSE UNCHANGED faults
        /\ Go(c, "dropped")
  /\ UNCHANGED <<registryVars, executing, on, id, submitterVars, broken, begun, failed, spoilt, graphs>>

\* Mutant: a guard that cannot end its capture gives the key back.
GiveUp(c) == IF step[c] = "waiting" THEN "retry" ELSE "giveBack"
AfterUnknown(c) == IF step[c] = "waiting" THEN "retry" ELSE "stuck"

\* Neither EndCapture nor the query tells that the capture is over, which it
\* may be: the drop of the guard tries once more, then keeps the key for ever.
EndUnknown(c) ==
  /\ step[c] \in {"waiting", "waitingAgain"} /\ Quiet(c)
  /\ IF step[c] = "waiting" THEN Fault ELSE UNCHANGED faults
  /\ DriverEnds(c) \/ UNCHANGED capture
  /\ Go(c, AfterUnknown(c))
  /\ UNCHANGED <<registryVars, executing, on, id, submitterVars, broken, begun, failed, spoilt, graphs>>

\* Mutant: a failed submission is not looked for.
AnyOutcome(c) == TRUE
Intact(c) == id[c] \notin failed

\* complete_driver_capture, and what finish returns then.
Complete(c) ==
  /\ step[c] \in {"ended", "dropped"}
  /\ entry' = [entry EXCEPT ![id[c]] = "none"]
  /\ graphs' = IF step[c] = "ended" /\ Intact(c) THEN graphs \cup {id[c]} ELSE graphs
  /\ Go(c, "giveBack")
  /\ UNCHANGED <<active, exclusions, retiring, executing, on, id, submitterVars, driverVars, faults, failed, spoilt>>

\* release_stream_capture_key.
GiveBack(c) ==
  /\ step[c] = "giveBack"
  /\ active' = active \ {on[c]}
  /\ on' = [on EXCEPT ![c] = None]
  /\ id' = [id EXCEPT ![c] = 0]
  /\ Go(c, "idle")
  /\ UNCHANGED <<entry, exclusions, retiring, executing, submitterVars, driverVars, outcomeVars>>

-----------------------------------------------------------------------------
\* A submitting thread.

Admit(p, phase, next) ==
  /\ stage' = [stage EXCEPT ![p] = next]
  /\ target' = [target EXCEPT ![p] = phase]

Move(p, next) == stage' = [stage EXCEPT ![p] = next] /\ UNCHANGED target

\* acquire_stream_submission_phase: the stream is asked under the registry
\* mutex.  A stream in an unknown or closing capture is refused.
AcquireOrdinary(p, s) ==
  /\ stage[p] = "idle" /\ capture[s] = 0
  /\ exclusions' = exclusions + 1
  /\ Admit(p, [kind |-> "ordinary", stream |-> s, id |-> 0], "phase")
  /\ UNCHANGED <<active, entry, retiring, executing, capturerVars, driverVars, outcomeVars>>

AcquireCaptured(p, s) ==
  /\ stage[p] = "idle" /\ capture[s] # 0 /\ capture[s] \notin broken
  /\ entry[capture[s]] = "open"
  /\ Admit(p, [kind |-> "captured", stream |-> s, id |-> capture[s]], "phase")
  /\ UNCHANGED <<registryVars, executing, capturerVars, driverVars, outcomeVars>>

\* reserve_capture_exclusion, for a module load (with any stream) or in
\* reserve_uncaptured_stream, whose query of the stream then finds no capture:
\* see CaptureKeyed.
AcquireExclusive(p, s) ==
  /\ stage[p] = "idle" /\ active = {}
  /\ exclusions' = exclusions + 1
  /\ Admit(p, [kind |-> "exclusive", stream |-> s, id |-> 0], "phase")
  /\ UNCHANGED <<active, entry, retiring, executing, capturerVars, driverVars, outcomeVars>>

\* pin: a captured phase must find its own capture still open.
Pin(p) ==
  /\ stage[p] = "phase"
  /\ IF Captured(p)
     THEN /\ entry[target[p].id] = "open"
          /\ executing' = [executing EXCEPT ![target[p].id] = @ + 1]
     ELSE UNCHANGED executing
  /\ Move(p, "pinned")
  /\ UNCHANGED <<registryVars, capturerVars, driverVars, outcomeVars>>

\* One submission of a capture at a time (CapturedOwners.submission).
EnterGate(p) ==
  /\ stage[p] = "pinned"
  /\ Captured(p) =>
       \A q \in Submitters :
         stage[q] \in {"submitting", "failing"} /\ Captured(q) => target[q].id # target[p].id
  /\ Move(p, "submitting")
  /\ UNCHANGED <<registryVars, executing, capturerVars, driverVars, outcomeVars>>

\* The enqueue; in an invalidated capture it cannot succeed.
Enqueue(p) ==
  /\ stage[p] = "submitting" /\ target[p].id \notin broken
  /\ Move(p, "settled")
  /\ UNCHANGED <<registryVars, executing, capturerVars, driverVars, outcomeVars>>

\* It fails before the driver, or in the driver, which may invalidate the
\* capture.
EnqueueFails(p) ==
  /\ stage[p] = "submitting"
  /\ IF target[p].id \in broken THEN UNCHANGED faults ELSE Fault
  /\ IF Captured(p)
     THEN /\ spoilt' = spoilt \cup {target[p].id}
          /\ broken' \in {broken, broken \cup {target[p].id}}
     ELSE UNCHANGED <<spoilt, broken>>
  /\ Move(p, "failing")
  /\ UNCHANGED <<registryVars, executing, capturerVars, capture, begun, failed, graphs>>

\* capture_outcome: a failed or unwound submission marks the owners.
Outcome(p) ==
  /\ stage[p] = "failing"
  /\ failed' = IF Captured(p) THEN failed \cup {target[p].id} ELSE failed
  /\ Move(p, "settled")
  /\ UNCHANGED <<registryVars, executing, capturerVars, driverVars, faults, spoilt, graphs>>

Unpin(p) ==
  /\ stage[p] = "settled"
  /\ executing' = IF Captured(p) THEN [executing EXCEPT ![target[p].id] = @ - 1]
                  ELSE executing
  /\ Move(p, "phase")
  /\ UNCHANGED <<registryVars, capturerVars, driverVars, outcomeVars>>

DropPhase(p) ==
  /\ stage[p] = "phase"
  /\ exclusions' = IF Captured(p) THEN exclusions ELSE exclusions - 1
  /\ Admit(p, None, "idle")
  /\ UNCHANGED <<active, entry, retiring, executing, capturerVars, driverVars, outcomeVars>>

-----------------------------------------------------------------------------
\* drain_capture_retirements, by whichever thread starts it.
Drain ==
  /\ active = {} /\ ~ retiring
  /\ retiring' = TRUE
  /\ UNCHANGED <<active, entry, exclusions, executing, capturerVars, submitterVars, driverVars, outcomeVars>>

Drained ==
  /\ retiring
  /\ retiring' = FALSE
  /\ UNCHANGED <<active, entry, exclusions, executing, capturerVars, submitterVars, driverVars, outcomeVars>>

CapturerStep(c) ==
  \/ \E s \in Streams : Lease(c, s)
  \/ Begin(c) \/ BeginUnregistered(c) \/ BeginRefused(c)
  \/ Recorded(c) \/ RecordFails(c)
  \/ Close(c) \/ EndCapture(c) \/ EndUnknown(c) \/ Complete(c) \/ GiveBack(c)

\* What a thread does once its submission was admitted.
Submission(p) == EnterGate(p) \/ Enqueue(p) \/ EnqueueFails(p) \/ Outcome(p) \/ Unpin(p)

SubmitterStep(p) ==
  \/ \E s \in Streams : AcquireOrdinary(p, s) \/ AcquireCaptured(p, s) \/ AcquireExclusive(p, s)
  \/ Pin(p) \/ Submission(p) \/ DropPhase(p)

Next ==
  \/ \E c \in Capturers : CapturerStep(c)
  \/ \E p \in Submitters : SubmitterStep(p)
  \/ Drain \/ Drained

Spec == Init /\ [][Next]_vars

\* Admitted submissions return, and a thread that ends a capture goes on.
FairSpec ==
  /\ Spec
  /\ \A p \in Submitters : WF_vars(Submission(p))
  /\ \A c \in Capturers : WF_vars(Close(c) \/ EndCapture(c) \/ EndUnknown(c) \/ Complete(c) \/ GiveBack(c))

-----------------------------------------------------------------------------

\* What an admission found stays so until the work is in the driver: ordinary
\* work never lands in a capture, that of a capture in no other capture and
\* not on the stream, and nothing is captured while a thread has the driver
\* for itself (from_capture_info, pin, begin, wait_until_idle).
AdmissionsHold ==
  \A p \in Submitters :
    /\ stage[p] # "idle" /\ target[p].kind = "ordinary" => capture[target[p].stream] = 0
    /\ stage[p] # "idle" /\ target[p].kind = "exclusive" => \A s \in Streams : capture[s] = 0
    /\ Captured(p) /\ Executing(p) => capture[target[p].stream] = target[p].id

\* A graph that is handed out had no failed submission, noticed or not, and
\* nothing is still being added to it (capture_outcome, finish).
GraphWhole ==
  \A i \in graphs :
    /\ i \notin spoilt
    /\ \A p \in Submitters : Executing(p) => target[p].id # i

\* A stream the driver may still be capturing keeps its reservation, also when
\* nobody knows how its capture ended, and no retirement runs meanwhile
\* (complete_driver_capture, the drops of the lease and of the guard).
CaptureKeyed ==
  \A s \in Streams : capture[s] # 0 => s \in active /\ ~ retiring

\* Whoever ends a capture gets past the submissions that were admitted before,
\* failed ones included, and either gives the stream back or keeps it because
\* the driver would not tell (close_submission_admission, wait_until_idle).
FinishReturns ==
  \A c \in Capturers : step[c] = "finish" ~> step[c] \in {"idle", "stuck"}
=============================================================================
