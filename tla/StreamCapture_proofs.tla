-------------------------- MODULE StreamCapture_proofs --------------------------
(***************************************************************************)
(* Proofs about StreamCapture, for any number of threads, streams,         *)
(* captures and faults.                                                    *)
(***************************************************************************)
EXTENDS StreamCapture, FiniteSetTheorems, TLAPS

\* The steps of a thread whose capture has certainly not ended, those in which
\* the driver may still be capturing its stream, and those in which it is not.
Recording == {"capturing", "finish", "retry"}
Live      == Recording \cup {"waiting", "waitingAgain", "stuck"}
Ending    == {"ended", "dropped"}

\* A reservation belongs to one thread, and so does a capture.
Reserved ==
  /\ retiring => active = {}
  /\ \A c \in Capturers :
       /\ step[c] = "idle" => on[c] = None
       /\ step[c] # "idle" => on[c] \in active
       /\ step[c] \in {"idle", "leased"} => id[c] = 0
       /\ step[c] \in Live \cup Ending => id[c] # 0
       /\ id[c] <= begun
  /\ \A c, d \in Capturers : (on[c] # None /\ on[c] = on[d]) => c = d
  /\ \A c, d \in Capturers : (id[c] # 0 /\ id[c] = id[d]) => c = d

\* What the driver captures, somebody has begun and not ended; a capture that
\* admits work is the one its stream is in.
Captures ==
  /\ \A s \in Streams : capture[s] # 0 =>
       \E c \in Capturers : on[c] = s /\ id[c] = capture[s] /\ step[c] \in Live
  /\ \A i \in Ids : entry[i] # "none" => i <= begun
  /\ \A i \in Ids : entry[i] = "open" =>
       \E c \in Capturers : id[c] = i /\ step[c] \in Recording /\ capture[on[c]] = i

Pinned(i) == {p \in Submitters : Captured(p) /\ Executing(p) /\ target[p].id = i}
Excluding == {p \in Submitters : stage[p] # "idle" /\ ~ Captured(p)}

\* The counts of the registry are those of the threads.
Counts ==
  /\ exclusions = Cardinality(Excluding)
  /\ \A i \in Ids : executing[i] = Cardinality(Pinned(i))

\* A captured phase names a capture and its stream; while it is pinned the
\* capture is registered and not over.
Phased ==
  /\ \A p \in Submitters, c \in Capturers :
       Captured(p) /\ id[c] = target[p].id => on[c] = target[p].stream
  /\ \A p \in Submitters : Captured(p) => target[p].id <= begun
  /\ \A p \in Submitters : Captured(p) /\ Executing(p) => entry[target[p].id] # "none"
  /\ \A c \in Capturers : step[c] \in Ending => Pinned(id[c]) = {}

\* A failed submission is noticed before it returns.
Noticed ==
  \A i \in spoilt : \/ i \in failed
                    \/ \E p \in Submitters : stage[p] = "failing" /\ Captured(p) /\ target[p].id = i

\* A graph that was handed out is out of reach.
Handed ==
  \A i \in graphs :
    /\ i <= begun /\ entry[i] = "none" /\ i \notin spoilt
    /\ \A c \in Capturers : id[c] = i => step[c] = "giveBack"

IInv == /\ TypeOK /\ Reserved /\ Captures /\ Counts /\ Phased /\ Noticed /\ Handed
        /\ AdmissionsHold

USE CaptureAssumption DEF registryVars, capturerVars, submitterVars, driverVars, outcomeVars

-----------------------------------------------------------------------------
LEMMA InitHolds == Init => IInv
<1> SUFFICES ASSUME Init PROVE IInv
  OBVIOUS
<1>1. TypeOK
  <2>1. failed \cup broken \cup spoilt \cup graphs \subseteq Ids /\ begun \in 0..MaxCaptures
        /\ faults \in 0..MaxFaults
    BY DEF Init
  <2> QED
    BY <2>1 DEF Init, TypeOK, Steps, Stages
<1>2. Excluding = {} /\ \A i \in Ids : Pinned(i) = {}
  BY DEF Init, Excluding, Pinned, Captured
<1>3. Counts
  BY <1>2, FS_EmptySet DEF Counts, Init
<1> QED
  BY <1>1, <1>2, <1>3
     DEF IInv, Init, Reserved, Captures, Phased, Noticed, Handed, AdmissionsHold, Captured, Ids,
         Live, Recording, Ending

\* What a capturing thread leaves alone.
LEMMA CapturerFrame ==
  ASSUME NEW c \in Capturers, CapturerStep(c)
  PROVE  UNCHANGED <<exclusions, executing, retiring, stage, target, broken>>
BY DEF CapturerStep, Lease, Begin, BeginUnregistered, BeginRefused, Recorded, RecordFails, Close,
       EndCapture, EndUnknown, Complete, GiveBack

\* What a submitting thread leaves alone.
LEMMA SubmitterFrame ==
  ASSUME NEW p \in Submitters, SubmitterStep(p)
  PROVE  UNCHANGED <<active, entry, retiring, step, on, id, capture, begun, graphs>>
BY DEF SubmitterStep, Submission, AcquireOrdinary, AcquireCaptured, AcquireExclusive, Pin, EnterGate,
       Enqueue, EnqueueFails, Outcome, Unpin, DropPhase

-----------------------------------------------------------------------------
(* Types.                                                                  *)

LEMMA CapturerTypes ==
  ASSUME TypeOK, Reserved, NEW c \in Capturers, CapturerStep(c)
  PROVE  TypeOK'
<1> USE DEF TypeOK, Steps, Go, Fault
<1>1. ASSUME NEW s \in Streams, Lease(c, s) PROVE TypeOK'
  BY <1>1 DEF Lease
<1>2. CASE Begin(c)
  <2>1. begun + 1 \in Ids /\ begun + 1 \in 0..MaxCaptures
    BY <1>2 DEF Begin, Ids
  <2>2. faults' \in 0..MaxFaults
    BY <1>2 DEF Begin
  <2> QED BY <1>2, <2>1, <2>2 DEF Begin
<1>3. CASE BeginUnregistered(c)
  <2>1. begun + 1 \in Ids /\ begun + 1 \in 0..MaxCaptures
    BY <1>3 DEF BeginUnregistered, Ids
  <2>2. faults' \in 0..MaxFaults
    BY <1>3 DEF BeginUnregistered
  <2> QED BY <1>3, <2>1, <2>2 DEF BeginUnregistered
<1>4. CASE BeginRefused(c)
  BY <1>4 DEF BeginRefused
<1>5. CASE Recorded(c)
  BY <1>5 DEF Recorded
<1>6. CASE RecordFails(c)
  BY <1>6 DEF RecordFails, Reserved, Live, Recording
<1>7. CASE Close(c)
  BY <1>7 DEF Close
<1>8. CASE EndCapture(c)
  <2>1. faults' \in 0..MaxFaults
    BY <1>8 DEF EndCapture
  <2>2. step' \in [Capturers -> Steps]
    BY <1>8 DEF EndCapture
  <2> QED BY <1>8, <2>1, <2>2 DEF EndCapture, DriverEnds
<1>9. CASE EndUnknown(c)
  BY <1>9 DEF EndUnknown, DriverEnds, AfterUnknown
<1>10. CASE Complete(c)
  BY <1>10 DEF Complete, Reserved, Ending
<1>11. CASE GiveBack(c)
  BY <1>11 DEF GiveBack
<1> QED
  BY <1>1, <1>2, <1>3, <1>4, <1>5, <1>6, <1>7, <1>8, <1>9, <1>10, <1>11 DEF CapturerStep

LEMMA CountsPositive ==
  ASSUME TypeOK, Counts, NEW p \in Submitters
  PROVE  /\ stage[p] # "idle" /\ ~ Captured(p) => exclusions > 0
         /\ Captured(p) /\ Executing(p) => executing[target[p].id] > 0
<1>1. IsFiniteSet(Excluding) /\ \A i : IsFiniteSet(Pinned(i))
  BY FS_Subset DEF Excluding, Pinned
<1>2. p \in Excluding => Cardinality(Excluding) # 0
  BY <1>1, FS_EmptySet
<1>3. ASSUME NEW i, p \in Pinned(i) PROVE Cardinality(Pinned(i)) # 0
  BY <1>1, <1>3, FS_EmptySet
<1>4. Captured(p) => target[p].id \in Ids
  BY DEF TypeOK, Captured, Phases
<1>5. exclusions \in Nat /\ \A i \in Ids : executing[i] \in Nat
  BY DEF TypeOK
<1>6. stage[p] # "idle" /\ ~ Captured(p) => p \in Excluding
  BY DEF Excluding
<1>7. Captured(p) /\ Executing(p) => p \in Pinned(target[p].id)
  BY DEF Pinned
<1> QED
  BY <1>2, <1>3, <1>4, <1>5, <1>6, <1>7 DEF Counts

LEMMA SubmitterTypes ==
  ASSUME TypeOK, Counts, NEW p \in Submitters, SubmitterStep(p)
  PROVE  TypeOK'
<1> USE DEF TypeOK, Stages, Phases, Admit, Move, Fault
<1>1. ASSUME NEW s \in Streams, AcquireOrdinary(p, s) PROVE TypeOK'
  BY <1>1 DEF AcquireOrdinary
<1>2. ASSUME NEW s \in Streams, AcquireCaptured(p, s) PROVE TypeOK'
  BY <1>2 DEF AcquireCaptured
<1>3. ASSUME NEW s \in Streams, AcquireExclusive(p, s) PROVE TypeOK'
  BY <1>3 DEF AcquireExclusive
<1>4. CASE Pin(p)
  <2>1. Captured(p) => target[p].id \in Ids
    BY DEF Captured
  <2>2. executing' \in [Ids -> Nat]
    BY <1>4, <2>1 DEF Pin
  <2> QED BY <1>4, <2>2 DEF Pin
<1>5. CASE EnterGate(p)
  BY <1>5 DEF EnterGate
<1>6. CASE Enqueue(p)
  BY <1>6 DEF Enqueue
<1>7. CASE EnqueueFails(p)
  <2>1. faults' \in 0..MaxFaults
    BY <1>7 DEF EnqueueFails
  <2>2. broken' \subseteq Ids /\ spoilt' \subseteq Ids
    BY <1>7 DEF EnqueueFails, Captured
  <2> QED BY <1>7, <2>1, <2>2 DEF EnqueueFails
<1>8. CASE Outcome(p)
  BY <1>8 DEF Outcome, Captured
<1>9. CASE Unpin(p)
  <2>1. Captured(p) => /\ target[p].id \in Ids
                       /\ executing[target[p].id] \in Nat /\ executing[target[p].id] > 0
    BY <1>9, CountsPositive DEF Unpin, Captured, Executing
  <2>2. executing' \in [Ids -> Nat]
    BY <1>9, <2>1 DEF Unpin
  <2> QED BY <1>9, <2>2 DEF Unpin
<1>10. CASE DropPhase(p)
  BY <1>10, CountsPositive DEF DropPhase, Captured
<1> QED
  BY <1>1, <1>2, <1>3, <1>4, <1>5, <1>6, <1>7, <1>8, <1>9, <1>10 DEF SubmitterStep, Submission

-----------------------------------------------------------------------------
(* Reservations.                                                           *)

\* The identity of a capture that begins is new.
LEMMA Fresh ==
  ASSUME TypeOK, Reserved, Captures, begun < MaxCaptures
  PROVE  /\ begun + 1 \in Ids /\ begun \in Nat
         /\ \A d \in Capturers : id[d] \in Nat /\ id[d] < begun + 1 /\ id[d] # begun + 1
         /\ entry[begun + 1] = "none"
<1>1. begun + 1 \in Ids /\ begun \in Nat /\ begun < begun + 1 /\ ~ (begun + 1 <= begun)
  BY DEF TypeOK, Ids
<1>2. entry[begun + 1] = "none"
  BY <1>1 DEF Captures
<1>3. \A d \in Capturers : id[d] \in Nat /\ id[d] <= begun
  BY DEF TypeOK, Reserved, Ids
<1> QED
  BY <1>1, <1>2, <1>3

LEMMA CapturerReserved ==
  ASSUME TypeOK, Reserved, Captures, NEW c \in Capturers, CapturerStep(c)
  PROVE  Reserved'
<1> USE DEF TypeOK, Reserved, Live, Recording, Ending, Go
<1>1. ASSUME NEW s \in Streams, Lease(c, s) PROVE Reserved'
  BY <1>1 DEF Lease
<1>2. CASE Begin(c)
  BY <1>2, Fresh DEF Begin
<1>3. CASE BeginUnregistered(c)
  BY <1>3, Fresh DEF BeginUnregistered
<1>4. CASE BeginRefused(c)
  BY <1>4 DEF BeginRefused
<1>5. CASE Recorded(c)
  BY <1>5 DEF Recorded
<1>6. CASE RecordFails(c)
  BY <1>6 DEF RecordFails
<1>7. CASE Close(c)
  BY <1>7 DEF Close
<1>8. CASE EndCapture(c)
  BY <1>8 DEF EndCapture
<1>9. CASE EndUnknown(c)
  BY <1>9 DEF EndUnknown, AfterUnknown
<1>10. CASE Complete(c)
  BY <1>10 DEF Complete
<1>11. CASE GiveBack(c)
  BY <1>11 DEF GiveBack
<1> QED
  BY <1>1, <1>2, <1>3, <1>4, <1>5, <1>6, <1>7, <1>8, <1>9, <1>10, <1>11 DEF CapturerStep

LEMMA OthersReserved ==
  ASSUME Reserved, \/ \E p \in Submitters : SubmitterStep(p)
                   \/ Drain \/ Drained \/ UNCHANGED vars
  PROVE  Reserved'
<1>1. UNCHANGED <<active, step, on, id, begun>> /\ (retiring' => retiring \/ active = {})
  BY SubmitterFrame DEF Drain, Drained, vars
<1> QED
  BY <1>1 DEF Reserved

-----------------------------------------------------------------------------
(* What the driver captures.                                               *)

LEMMA BeginCaptures ==
  ASSUME TypeOK, Reserved, Captures, NEW c \in Capturers, Begin(c) \/ BeginUnregistered(c)
  PROVE  Captures'
<1> DEFINE new == begun + 1
<1>1. /\ begun' = new
      /\ capture' = [capture EXCEPT ![on[c]] = new]
      /\ id' = [id EXCEPT ![c] = new]
      /\ \/ entry' = [entry EXCEPT ![new] = "open"] /\ step' = [step EXCEPT ![c] = "capturing"]
         \/ entry' = entry /\ step' = [step EXCEPT ![c] = "retry"]
      /\ on' = on
      /\ step[c] = "leased"
  BY DEF Begin, BeginUnregistered, Go
<1>2. new \in Ids /\ begun \in Nat /\ entry[new] = "none"
      /\ \A d \in Capturers : id[d] # new
  BY Fresh DEF Begin, BeginUnregistered
<1>3. on[c] \in Streams
  BY <1>1 DEF TypeOK, Reserved
<1>4. step'[c] \in Recording /\ step'[c] \in Live /\ step[c] \notin Live
  BY <1>1 DEF TypeOK, Recording, Live
<1>5. \A d \in Capturers : d # c =>
        /\ on'[d] = on[d] /\ id'[d] = id[d] /\ step'[d] = step[d]
        /\ on[d] # None => on[d] # on[c]
  BY <1>1, <1>3 DEF TypeOK, Reserved
<1>6. capture'[on'[c]] = new /\ id'[c] = new
  BY <1>1, <1>3 DEF TypeOK
<1> HIDE DEF new
<1>7. ASSUME NEW s \in Streams, capture'[s] # 0
      PROVE  \E d \in Capturers : on'[d] = s /\ id'[d] = capture'[s] /\ step'[d] \in Live
  <2>1. CASE s = on[c]
    BY <2>1, <1>1, <1>4, <1>6
  <2>2. CASE s # on[c]
    <3>1. capture'[s] = capture[s]
      BY <2>2, <1>1 DEF TypeOK
    <3>2. PICK d \in Capturers : on[d] = s /\ id[d] = capture[s] /\ step[d] \in Live
      BY <1>7, <3>1 DEF Captures
    <3>3. d # c
      BY <3>2, <1>4
    <3> QED BY <3>1, <3>2, <3>3, <1>5
  <2> QED BY <2>1, <2>2
<1>8. ASSUME NEW i \in Ids, entry'[i] # "none"
      PROVE  i <= begun'
  BY <1>8, <1>1 DEF TypeOK, Captures, Ids, new
<1>9. ASSUME NEW i \in Ids, entry'[i] = "open"
      PROVE  \E d \in Capturers : id'[d] = i /\ step'[d] \in Recording /\ capture'[on'[d]] = i
  <2>1. CASE i = new
    BY <2>1, <1>4, <1>6
  <2>2. CASE i # new
    <3>1. entry[i] = "open"
      BY <1>9, <2>2, <1>1 DEF TypeOK
    <3>2. PICK d \in Capturers : id[d] = i /\ step[d] \in Recording /\ capture[on[d]] = i
      BY <3>1 DEF Captures
    <3>3. d # c /\ on[d] \in Streams
      BY <3>2, <1>4 DEF Recording, Live, Reserved, TypeOK
    <3>4. on[d] # on[c]
      BY <3>3, <1>5 DEF TypeOK
    <3>5. capture'[on'[d]] = capture[on[d]]
      BY <3>3, <3>4, <1>1 DEF TypeOK
    <3> QED BY <3>2, <3>3, <3>5, <1>5
  <2> QED BY <2>1, <2>2
<1> QED
  BY <1>7, <1>8, <1>9 DEF Captures

LEMMA CapturerCaptures ==
  ASSUME TypeOK, Reserved, Captures, NEW c \in Capturers, CapturerStep(c)
  PROVE  Captures'
<1> USE DEF TypeOK, Reserved, Captures, Live, Recording, Ending, Go
<1>1. ASSUME NEW s \in Streams, Lease(c, s) PROVE Captures'
  BY <1>1 DEF Lease
<1>2. CASE Begin(c)
  BY <1>2, BeginCaptures
<1>3. CASE BeginUnregistered(c)
  BY <1>3, BeginCaptures
<1>4. CASE BeginRefused(c)
  BY <1>4 DEF BeginRefused
<1>5. CASE Recorded(c)
  BY <1>5 DEF Recorded
<1>6. CASE RecordFails(c)
  BY <1>6 DEF RecordFails
<1>7. CASE Close(c)
  BY <1>7 DEF Close
<1>8. CASE EndCapture(c)
  BY <1>8 DEF EndCapture, DriverEnds
<1>9. CASE EndUnknown(c)
  BY <1>9 DEF EndUnknown, AfterUnknown, DriverEnds
<1>10. CASE Complete(c)
  BY <1>10 DEF Complete
<1>11. CASE GiveBack(c)
  BY <1>11 DEF GiveBack
<1> QED
  BY <1>1, <1>2, <1>3, <1>4, <1>5, <1>6, <1>7, <1>8, <1>9, <1>10, <1>11 DEF CapturerStep

LEMMA OthersCaptures ==
  ASSUME Captures, \/ \E p \in Submitters : SubmitterStep(p)
                   \/ Drain \/ Drained \/ UNCHANGED vars
  PROVE  Captures'
<1>1. UNCHANGED <<entry, step, on, id, capture, begun>>
  BY SubmitterFrame DEF Drain, Drained, vars
<1> QED
  BY <1>1 DEF Captures

-----------------------------------------------------------------------------
(* Counts.                                                                 *)

LEMMA FiniteCounts ==
  /\ IsFiniteSet(Excluding)
  /\ \A i : IsFiniteSet(Pinned(i))
BY FS_Subset DEF Excluding, Pinned

\* Threads that go from one place inside an admission to another.
LEMMA SameCounts ==
  ASSUME Counts, UNCHANGED <<exclusions, executing>>,
         \A q \in Submitters :
           /\ (stage'[q] = "idle") = (stage[q] = "idle")
           /\ (stage'[q] \in {"idle", "phase"}) = (stage[q] \in {"idle", "phase"})
           /\ stage[q] # "idle" => target'[q] = target[q]
  PROVE  Counts'
<1>1. Excluding' = Excluding
  BY DEF Excluding, Captured
<1>2. \A i : Pinned(i)' = Pinned(i)
  BY DEF Pinned, Captured, Executing
<1> QED
  BY <1>1, <1>2 DEF Counts

\* A thread that is not admitted becomes so, or the other way round.
LEMMA ExclusionCounts ==
  ASSUME TypeOK, Counts, NEW p \in Submitters, executing' = executing,
         \A q \in Submitters \ {p} : stage'[q] = stage[q] /\ target'[q] = target[q],
         \/ /\ stage[p] = "idle" /\ stage'[p] = "phase" /\ target'[p].kind # "captured"
            /\ exclusions' = exclusions + 1
         \/ /\ stage[p] = "phase" /\ target[p].kind # "captured" /\ stage'[p] = "idle"
            /\ exclusions' = exclusions - 1
         \/ /\ stage[p] = "idle" /\ stage'[p] = "phase" /\ target'[p].kind = "captured"
            /\ exclusions' = exclusions
         \/ /\ stage[p] = "phase" /\ target[p].kind = "captured" /\ stage'[p] = "idle"
            /\ exclusions' = exclusions
  PROVE  Counts'
<1>1. \A i : Pinned(i)' = Pinned(i)
  BY DEF Pinned, Captured, Executing
<1>2. exclusions' = Cardinality(Excluding)'
  <2>1. CASE stage[p] = "idle" /\ stage'[p] = "phase" /\ target'[p].kind # "captured"
    <3>1. Excluding' = Excluding \cup {p} /\ p \notin Excluding
      BY <2>1 DEF Excluding, Captured
    <3> QED BY <2>1, <3>1, FiniteCounts, FS_AddElement DEF Counts
  <2>2. CASE stage[p] = "phase" /\ target[p].kind # "captured" /\ stage'[p] = "idle"
    <3>1. Excluding' = Excluding \ {p} /\ p \in Excluding
      BY <2>2 DEF Excluding, Captured
    <3> QED BY <2>2, <3>1, FiniteCounts, FS_RemoveElement DEF Counts
  <2>3. CASE exclusions' = exclusions /\ ~ (stage[p] = "phase" /\ target[p].kind # "captured")
             /\ ~ (stage'[p] = "phase" /\ target'[p].kind # "captured")
    <3>1. Excluding' = Excluding
      BY <2>3 DEF Excluding, Captured
    <3> QED BY <2>3, <3>1 DEF Counts
  <2> QED BY <2>1, <2>2, <2>3
<1> QED
  BY <1>1, <1>2 DEF Counts

\* A captured thread is pinned, or unpinned.
LEMMA PinCounts ==
  ASSUME TypeOK, Counts, NEW p \in Submitters, Captured(p), UNCHANGED <<exclusions, target>>,
         \A q \in Submitters \ {p} : stage'[q] = stage[q],
         \/ /\ stage[p] = "phase" /\ stage'[p] = "pinned"
            /\ executing' = [executing EXCEPT ![target[p].id] = @ + 1]
         \/ /\ stage[p] = "settled" /\ stage'[p] = "phase"
            /\ executing' = [executing EXCEPT ![target[p].id] = @ - 1]
  PROVE  Counts'
<1>1. Excluding' = Excluding
  BY DEF Excluding, Captured
<1>2. ASSUME NEW i \in Ids PROVE executing'[i] = Cardinality(Pinned(i))'
  <2>1. CASE i # target[p].id
    <3>1. Pinned(i)' = Pinned(i)
      BY <2>1 DEF Pinned, Captured, Executing
    <3> QED BY <2>1, <3>1 DEF Counts, TypeOK
  <2>2. CASE i = target[p].id /\ stage'[p] = "pinned"
    <3>1. Pinned(i)' = Pinned(i) \cup {p} /\ p \notin Pinned(i)
      BY <2>2 DEF Pinned, Captured, Executing
    <3>2. executing'[i] = executing[i] + 1
      BY <2>2 DEF TypeOK
    <3> QED BY <3>1, <3>2, FiniteCounts, FS_AddElement DEF Counts
  <2>3. CASE i = target[p].id /\ stage'[p] = "phase"
    <3>1. Pinned(i)' = Pinned(i) \ {p} /\ p \in Pinned(i)
      BY <2>3 DEF Pinned, Captured, Executing
    <3>2. executing'[i] = executing[i] - 1
      BY <2>3 DEF TypeOK
    <3> QED BY <3>1, <3>2, FiniteCounts, FS_RemoveElement DEF Counts
  <2> QED BY <2>1, <2>2, <2>3
<1> QED
  BY <1>1, <1>2 DEF Counts

LEMMA SubmitterCounts ==
  ASSUME TypeOK, Counts, NEW p \in Submitters, SubmitterStep(p)
  PROVE  Counts'
<1> USE DEF TypeOK, Admit, Move
<1>1. ASSUME NEW s \in Streams,
             AcquireOrdinary(p, s) \/ AcquireCaptured(p, s) \/ AcquireExclusive(p, s)
      PROVE  Counts'
  BY <1>1, ExclusionCounts DEF AcquireOrdinary, AcquireCaptured, AcquireExclusive
<1>2. CASE Pin(p)
  <2>1. CASE Captured(p)
    BY <1>2, <2>1, PinCounts DEF Pin
  <2>2. CASE ~ Captured(p)
    <3>1. Excluding' = Excluding
      BY <1>2, <2>2 DEF Pin, Excluding, Captured
    <3>2. \A i : Pinned(i)' = Pinned(i)
      BY <1>2, <2>2 DEF Pin, Pinned, Captured, Executing
    <3> QED BY <1>2, <2>2, <3>1, <3>2 DEF Pin, Counts
  <2> QED BY <2>1, <2>2
<1>3. CASE EnterGate(p) \/ Enqueue(p) \/ EnqueueFails(p) \/ Outcome(p)
  BY <1>3, SameCounts DEF EnterGate, Enqueue, EnqueueFails, Outcome
<1>4. CASE Unpin(p)
  <2>1. CASE Captured(p)
    BY <1>4, <2>1, PinCounts DEF Unpin
  <2>2. CASE ~ Captured(p)
    <3>1. Excluding' = Excluding
      BY <1>4, <2>2 DEF Unpin, Excluding, Captured
    <3>2. \A i : Pinned(i)' = Pinned(i)
      BY <1>4, <2>2 DEF Unpin, Pinned, Captured, Executing
    <3> QED BY <1>4, <2>2, <3>1, <3>2 DEF Unpin, Counts
  <2> QED BY <2>1, <2>2
<1>5. CASE DropPhase(p)
  BY <1>5, ExclusionCounts DEF DropPhase, Captured
<1> QED
  BY <1>1, <1>2, <1>3, <1>4, <1>5 DEF SubmitterStep, Submission

LEMMA OthersCounts ==
  ASSUME Counts, UNCHANGED <<exclusions, executing, stage, target>>
  PROVE  Counts'
BY SameCounts

-----------------------------------------------------------------------------
(* Phases.                                                                 *)

\* A thread that may end its capture waits for nobody: no submission is left.
LEMMA QuietEnds ==
  ASSUME TypeOK, Reserved, Counts, Phased, NEW c \in Capturers,
         step[c] \in Live, Quiet(c)
  PROVE  Pinned(id[c]) = {}
<1>1. id[c] \in Ids
  BY DEF TypeOK, Reserved, Live, Recording
<1>2. CASE entry[id[c]] = "none"
  BY <1>2 DEF Phased, Pinned
<1>3. CASE executing[id[c]] = 0
  BY <1>1, <1>3, FiniteCounts, FS_EmptySet DEF Counts
<1> QED
  BY <1>2, <1>3 DEF Quiet

LEMMA CapturerPhased ==
  ASSUME TypeOK, Reserved, Captures, Counts, Phased, NEW c \in Capturers, CapturerStep(c)
  PROVE  Phased'
<1>1. UNCHANGED <<stage, target>> /\ \A i : Pinned(i)' = Pinned(i)
  BY CapturerFrame DEF Pinned, Captured, Executing
<1>2. \A p \in Submitters : Captured(p) =>
        target[p].id \in Ids /\ target[p].id # 0 /\ target[p].id <= begun
  BY DEF TypeOK, Phases, Captured, Phased, Ids
<1> USE <1>1, <1>2 DEF TypeOK, Reserved, Phased, Captured, Executing, Live, Recording, Ending, Go
<1>3. ASSUME NEW s \in Streams, Lease(c, s) PROVE Phased'
  BY <1>3 DEF Lease
<1>4. CASE Begin(c)
  BY <1>4, Fresh DEF Begin, Ids
<1>5. CASE BeginUnregistered(c)
  BY <1>5, Fresh DEF BeginUnregistered, Ids
<1>6. CASE BeginRefused(c)
  BY <1>6 DEF BeginRefused
<1>7. CASE Recorded(c)
  BY <1>7 DEF Recorded
<1>8. CASE RecordFails(c)
  BY <1>8 DEF RecordFails
<1>9. CASE Close(c)
  BY <1>9 DEF Close
<1>10. CASE EndCapture(c)
  BY <1>10, QuietEnds DEF EndCapture
<1>11. CASE EndUnknown(c)
  BY <1>11 DEF EndUnknown, AfterUnknown
<1>12. CASE Complete(c)
  BY <1>12 DEF Complete, Pinned
<1>13. CASE GiveBack(c)
  BY <1>13 DEF GiveBack
<1> QED
  BY <1>3, <1>4, <1>5, <1>6, <1>7, <1>8, <1>9, <1>10, <1>11, <1>12, <1>13 DEF CapturerStep

LEMMA SubmitterPhased ==
  ASSUME TypeOK, Reserved, Captures, Phased, NEW p \in Submitters, SubmitterStep(p)
  PROVE  Phased'
<1>1. UNCHANGED <<entry, step, on, id, begun>>
  BY SubmitterFrame
<1> USE <1>1 DEF TypeOK, Phased, Captured, Executing, Pinned, Admit, Move
<1>2. ASSUME NEW s \in Streams, AcquireOrdinary(p, s) \/ AcquireExclusive(p, s) PROVE Phased'
  BY <1>2 DEF AcquireOrdinary, AcquireExclusive
<1>3. ASSUME NEW s \in Streams, AcquireCaptured(p, s) PROVE Phased'
  <2>1. PICK c \in Capturers : on[c] = s /\ id[c] = capture[s] /\ step[c] \in Live
    BY <1>3 DEF AcquireCaptured, Captures
  <2>2. \A d \in Capturers : id[d] = capture[s] => on[d] = s
    BY <1>3, <2>1 DEF AcquireCaptured, Reserved
  <2>3. capture[s] <= begun
    BY <2>1 DEF Reserved
  <2> QED BY <1>3, <2>2, <2>3 DEF AcquireCaptured
<1>4. CASE Pin(p)
  <2>1. CASE Captured(p)
    <3>1. entry[target[p].id] = "open" /\ target[p].id \in Ids
      BY <1>4, <2>1 DEF Pin, Phases
    <3>2. PICK c \in Capturers : id[c] = target[p].id /\ step[c] \in Recording
      BY <3>1 DEF Captures
    <3>3. \A d \in Capturers : id[d] = target[p].id => step[d] \notin Ending
      BY <3>1, <3>2 DEF Reserved, Ids, Recording, Ending
    <3> QED BY <1>4, <2>1, <3>1, <3>3 DEF Pin
  <2>2. CASE ~ Captured(p)
    BY <1>4, <2>2 DEF Pin
  <2> QED BY <2>1, <2>2
<1>5. CASE EnterGate(p) \/ Enqueue(p) \/ EnqueueFails(p) \/ Outcome(p)
  BY <1>5 DEF EnterGate, Enqueue, EnqueueFails, Outcome
<1>6. CASE Unpin(p)
  BY <1>6 DEF Unpin
<1>7. CASE DropPhase(p)
  BY <1>7 DEF DropPhase
<1> QED
  BY <1>2, <1>3, <1>4, <1>5, <1>6, <1>7 DEF SubmitterStep, Submission

LEMMA OthersPhased ==
  ASSUME Phased, UNCHANGED <<entry, step, on, id, begun, stage, target>>
  PROVE  Phased'
BY DEF Phased, Captured, Executing, Pinned

-----------------------------------------------------------------------------
(* Failed submissions and graphs.                                          *)

LEMMA CapturerNoticed ==
  ASSUME Noticed, NEW c \in Capturers, CapturerStep(c)
  PROVE  Noticed'
<1>1. (spoilt' = spoilt /\ failed' = failed) \/ RecordFails(c)
  BY DEF CapturerStep, Lease, Begin, BeginUnregistered, BeginRefused, Recorded, Close,
         EndCapture, EndUnknown, Complete, GiveBack
<1>2. RecordFails(c) => spoilt' = spoilt \cup {id[c]} /\ failed' = failed \cup {id[c]}
  BY DEF RecordFails
<1> QED
  BY <1>1, <1>2, CapturerFrame DEF Noticed, Captured

LEMMA SubmitterNoticed ==
  ASSUME TypeOK, Noticed, NEW p \in Submitters, SubmitterStep(p)
  PROVE  Noticed'
<1> USE DEF TypeOK, Noticed, Captured, Admit, Move
<1>1. ASSUME NEW s \in Streams,
             AcquireOrdinary(p, s) \/ AcquireCaptured(p, s) \/ AcquireExclusive(p, s)
      PROVE  Noticed'
  BY <1>1 DEF AcquireOrdinary, AcquireCaptured, AcquireExclusive
<1>2. CASE Pin(p) \/ EnterGate(p) \/ Enqueue(p) \/ Unpin(p) \/ DropPhase(p)
  BY <1>2 DEF Pin, EnterGate, Enqueue, Unpin, DropPhase
<1>3. CASE EnqueueFails(p)
  BY <1>3 DEF EnqueueFails
<1>4. CASE Outcome(p)
  BY <1>4 DEF Outcome
<1> QED
  BY <1>1, <1>2, <1>3, <1>4 DEF SubmitterStep, Submission

LEMMA CapturerHanded ==
  ASSUME TypeOK, Reserved, Captures, Phased, Noticed, Handed,
         NEW c \in Capturers, CapturerStep(c)
  PROVE  Handed'
<1> USE DEF TypeOK, Reserved, Handed, Live, Recording, Ending, Go
<1>1. ASSUME NEW s \in Streams, Lease(c, s) PROVE Handed'
  BY <1>1 DEF Lease, Ids
<1>2. CASE Begin(c)
  <2>1. \A i \in graphs : i <= begun /\ i <= begun + 1 /\ i # begun + 1
    BY <1>2, Fresh DEF Begin, Ids
  <2> QED BY <1>2, <2>1 DEF Begin
<1>3. CASE BeginUnregistered(c)
  <2>1. \A i \in graphs : i <= begun /\ i <= begun + 1 /\ i # begun + 1
    BY <1>3, Fresh DEF BeginUnregistered, Ids
  <2> QED BY <1>3, <2>1 DEF BeginUnregistered
<1>4. CASE BeginRefused(c)
  BY <1>4 DEF BeginRefused
<1>5. CASE Recorded(c)
  BY <1>5 DEF Recorded
<1>6. CASE RecordFails(c)
  BY <1>6 DEF RecordFails
<1>7. CASE Close(c)
  BY <1>7 DEF Close
<1>8. CASE EndCapture(c)
  BY <1>8 DEF EndCapture
<1>9. CASE EndUnknown(c)
  BY <1>9 DEF EndUnknown, AfterUnknown
<1>10. CASE Complete(c)
  <2>1. id[c] \in Ids /\ id[c] <= begun
    BY <1>10 DEF Complete
  <2>2. Pinned(id[c]) = {}
    BY <1>10 DEF Complete, Phased
  <2>3. id[c] \in spoilt => id[c] \in failed
    BY <2>2 DEF Noticed, Pinned, Executing
  <2>4. \A d \in Capturers : id[d] = id[c] => d = c
    BY <2>1 DEF Ids
  <2> QED BY <1>10, <2>1, <2>3, <2>4 DEF Complete, Intact
<1>11. CASE GiveBack(c)
  BY <1>11 DEF GiveBack, Ids
<1> QED
  BY <1>1, <1>2, <1>3, <1>4, <1>5, <1>6, <1>7, <1>8, <1>9, <1>10, <1>11 DEF CapturerStep

LEMMA SubmitterHanded ==
  ASSUME Phased, Handed, NEW p \in Submitters, SubmitterStep(p)
  PROVE  Handed'
<1>1. UNCHANGED <<entry, step, id, begun, graphs>>
  BY SubmitterFrame
<1>2. spoilt' = spoilt \/ EnqueueFails(p)
  BY DEF SubmitterStep, Submission, AcquireOrdinary, AcquireCaptured, AcquireExclusive, Pin, EnterGate,
         Enqueue, Outcome, Unpin, DropPhase
<1>3. ASSUME EnqueueFails(p), spoilt' # spoilt
      PROVE  spoilt' = spoilt \cup {target[p].id} /\ entry[target[p].id] # "none"
  BY <1>3 DEF EnqueueFails, Phased, Captured, Executing
<1> QED
  BY <1>1, <1>2, <1>3 DEF Handed

-----------------------------------------------------------------------------
(* Admissions.                                                             *)

\* A thread holds nothing of a stream that is about to be captured.
LEMMA BeginAdmits ==
  ASSUME TypeOK, Reserved, Captures, Counts, AdmissionsHold, NEW c \in Capturers,
         step[c] = "leased", exclusions = 0
  PROVE  \A p \in Submitters :
           /\ stage[p] # "idle" => Captured(p)
           /\ Captured(p) /\ Executing(p) => target[p].stream # on[c]
<1>1. \A p \in Submitters : stage[p] # "idle" => Captured(p)
  BY FiniteCounts, FS_EmptySet DEF Counts, Excluding
<1>2. ASSUME NEW p \in Submitters, Captured(p), Executing(p), target[p].stream = on[c]
      PROVE  FALSE
  <2>1. target[p] \in Phases /\ target[p].kind = "captured"
    BY <1>2 DEF TypeOK, Captured
  <2>2. target[p].id \in Ids /\ target[p].stream \in Streams
    BY <2>1 DEF Phases
  <2>3. capture[on[c]] # 0 /\ on[c] \in Streams
    BY <1>2, <2>2 DEF AdmissionsHold, Ids
  <2>4. PICK d \in Capturers : on[d] = on[c] /\ step[d] \in Live
    BY <2>3 DEF Captures
  <2>5. d = c
    BY <2>3, <2>4 DEF Reserved, TypeOK
  <2> QED BY <2>4, <2>5 DEF Live, Recording
<1> QED
  BY <1>1, <1>2

\* Nothing is being added to a capture that ends.
LEMMA EndAdmits ==
  ASSUME TypeOK, Reserved, Captures, Counts, Phased, AdmissionsHold, NEW c \in Capturers,
         step[c] \in Live, Quiet(c)
  PROVE  \A p \in Submitters : Captured(p) /\ Executing(p) => target[p].stream # on[c]
<1>1. ASSUME NEW p \in Submitters, Captured(p), Executing(p), target[p].stream = on[c]
      PROVE  FALSE
  <2>1. target[p] \in Phases /\ target[p].kind = "captured"
    BY <1>1 DEF TypeOK, Captured
  <2>2. target[p].id \in Ids /\ target[p].stream \in Streams
    BY <2>1 DEF Phases
  <2>3. capture[on[c]] = target[p].id /\ capture[on[c]] # 0 /\ on[c] \in Streams
    BY <1>1, <2>2 DEF AdmissionsHold, Ids
  <2>4. PICK d \in Capturers : on[d] = on[c] /\ id[d] = capture[on[c]]
    BY <2>3 DEF Captures
  <2>5. id[c] = target[p].id
    BY <2>3, <2>4 DEF Reserved, TypeOK
  <2> QED BY <1>1, <2>5, QuietEnds DEF Pinned
<1> QED
  BY <1>1

LEMMA CapturerAdmits ==
  ASSUME TypeOK, Reserved, Captures, Counts, Phased, AdmissionsHold,
         NEW c \in Capturers, CapturerStep(c)
  PROVE  AdmissionsHold'
<1>1. UNCHANGED <<stage, target>>
  BY CapturerFrame
<1>2. CASE capture' = capture
  BY <1>1, <1>2 DEF AdmissionsHold, Captured, Executing
<1>3. CASE capture' # capture /\ (Begin(c) \/ BeginUnregistered(c))
  <2>1. /\ capture' = [capture EXCEPT ![on[c]] = begun + 1]
        /\ step[c] = "leased" /\ exclusions = 0
    BY <1>3 DEF Begin, BeginUnregistered, NoOrdinary
  <2>2. \A p \in Submitters :
          /\ stage[p] # "idle" => target[p].kind = "captured"
          /\ Captured(p) /\ Executing(p) => target[p].stream # on[c]
    BY <2>1, BeginAdmits DEF Captured
  <2>3. \A p \in Submitters : Captured(p) => target[p].stream \in Streams
    BY DEF TypeOK, Phases, Captured
  <2> QED BY <1>1, <2>1, <2>2, <2>3 DEF AdmissionsHold, Captured, Executing, TypeOK
<1>4. CASE capture' # capture /\ (EndCapture(c) \/ EndUnknown(c))
  <2>1. /\ capture' = [capture EXCEPT ![on[c]] = 0]
        /\ step[c] \in Live /\ Quiet(c)
    BY <1>4 DEF EndCapture, EndUnknown, DriverEnds, Live
  <2>2. \A p \in Submitters : Captured(p) /\ Executing(p) => target[p].stream # on[c]
    BY <2>1, EndAdmits
  <2>3. \A p \in Submitters : stage[p] # "idle" => target[p].stream \in Streams
    BY DEF TypeOK, Phases
  <2> QED BY <1>1, <2>1, <2>2, <2>3 DEF AdmissionsHold, Captured, Executing, TypeOK
<1>5. capture' = capture \/ Begin(c) \/ BeginUnregistered(c) \/ EndCapture(c) \/ EndUnknown(c)
  BY DEF CapturerStep, Lease, BeginRefused, Recorded, RecordFails, Close, Complete, GiveBack
<1> QED
  BY <1>2, <1>3, <1>4, <1>5

LEMMA SubmitterAdmits ==
  ASSUME TypeOK, Reserved, Captures, Phased, AdmissionsHold, NEW p \in Submitters, SubmitterStep(p)
  PROVE  AdmissionsHold'
<1>1. capture' = capture
  BY SubmitterFrame
<1> USE <1>1 DEF TypeOK, AdmissionsHold, Captured, Executing, Admit, Move
<1>2. ASSUME NEW s \in Streams, AcquireOrdinary(p, s) \/ AcquireCaptured(p, s) PROVE AdmissionsHold'
  BY <1>2 DEF AcquireOrdinary, AcquireCaptured
<1>3. ASSUME NEW s \in Streams, AcquireExclusive(p, s) PROVE AdmissionsHold'
  <2>1. \A x \in Streams : capture[x] = 0
    BY <1>3 DEF AcquireExclusive, Captures, Reserved, Live, Recording
  <2> QED BY <1>3, <2>1 DEF AcquireExclusive
<1>4. CASE Pin(p)
  <2>1. ASSUME Captured(p) PROVE capture[target[p].stream] = target[p].id
    <3>1. entry[target[p].id] = "open" /\ target[p].id \in Ids
      BY <1>4, <2>1 DEF Pin, Phases
    <3>2. PICK c \in Capturers : id[c] = target[p].id /\ capture[on[c]] = target[p].id
      BY <3>1 DEF Captures
    <3> QED BY <2>1, <3>2 DEF Phased
  <2> QED BY <1>4, <2>1 DEF Pin
<1>5. CASE EnterGate(p) \/ Enqueue(p) \/ EnqueueFails(p) \/ Outcome(p) \/ Unpin(p) \/ DropPhase(p)
  BY <1>5 DEF EnterGate, Enqueue, EnqueueFails, Outcome, Unpin, DropPhase
<1> QED
  BY <1>2, <1>3, <1>4, <1>5 DEF SubmitterStep, Submission

-----------------------------------------------------------------------------
LEMMA StepKeeps == IInv /\ [Next]_vars => IInv'
<1> SUFFICES ASSUME IInv, [Next]_vars PROVE IInv'
  OBVIOUS
<1> USE DEF IInv
<1>1. ASSUME NEW c \in Capturers, CapturerStep(c) PROVE IInv'
  BY <1>1, CapturerTypes, CapturerReserved, CapturerCaptures, CapturerFrame, OthersCounts,
     CapturerPhased, CapturerNoticed, CapturerHanded, CapturerAdmits
<1>2. ASSUME NEW p \in Submitters, SubmitterStep(p) PROVE IInv'
  BY <1>2, SubmitterTypes, OthersReserved, OthersCaptures, SubmitterCounts, SubmitterPhased,
     SubmitterNoticed, SubmitterHanded, SubmitterAdmits
<1>3. CASE Drain \/ Drained \/ UNCHANGED vars
  <2>1. UNCHANGED <<active, entry, exclusions, executing, capturerVars, submitterVars, driverVars,
                    outcomeVars>> /\ (retiring' \in BOOLEAN \/ retiring' = retiring)
    BY <1>3 DEF Drain, Drained, vars
  <2>2. TypeOK'
    BY <2>1 DEF TypeOK
  <2>3. Noticed' /\ Handed' /\ AdmissionsHold'
    BY <2>1 DEF Noticed, Handed, AdmissionsHold, Captured, Executing
  <2> QED BY <1>3, <2>1, <2>2, <2>3, OthersReserved, OthersCaptures, OthersCounts, OthersPhased
<1> QED
  BY <1>1, <1>2, <1>3 DEF Next

\* The inductive invariant holds in every reachable state of the registry and
\* the threads (cuda_graph.rs).
THEOREM Invariant == Spec => []IInv
BY InitHolds, StepKeeps, PTL DEF Spec

\* No count is ever negative, for any number of threads and captures
\* (StreamCaptureRegistry, CaptureExecutingSubmissions).
THEOREM TypeCorrect == Spec => []TypeOK
<1>1. IInv => TypeOK
  BY DEF IInv
<1> QED BY <1>1, Invariant, PTL

\* Work lands where its admission found the stream, whatever other threads
\* begin, end, or fail to end meanwhile (from_capture_info, pin, begin,
\* wait_until_idle).
THEOREM WorkLandsWhereAdmitted == Spec => []AdmissionsHold
<1>1. IInv => AdmissionsHold
  BY DEF IInv
<1> QED BY <1>1, Invariant, PTL

\* No graph that lost a submission is handed out, and none that is still being
\* added to (capture_outcome, finish).
THEOREM GraphsAreWhole == Spec => []GraphWhole
<1>1. IInv => GraphWhole
  BY DEF IInv, TypeOK, GraphWhole, Handed, Phased, Captured, Executing, Phases, Ids
<1> QED BY <1>1, Invariant, PTL

\* A stream that may still be captured is reserved, and no retirement runs
\* (complete_driver_capture, drain_capture_retirements).
THEOREM CapturesAreKeyed == Spec => []CaptureKeyed
<1>1. IInv => CaptureKeyed
  BY DEF IInv, CaptureKeyed, Captures, Reserved, Live, Recording
<1> QED BY <1>1, Invariant, PTL
=============================================================================
