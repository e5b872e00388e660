------------------------ MODULE CheckpointStore_proofs ------------------------
(***************************************************************************)
(* Proofs about CheckpointStore, for every set of steps and digests, every *)
(* keep_last and with or without directory fsyncs: the directory is always *)
(* one a resume accepts, and the store implements CheckpointPromise.       *)
(***************************************************************************)
EXTENDS CheckpointStore, TLAPS

\* Nothing incomplete is ever visible, in either view of the directory.
NothingTorn ==
  /\ \A f \in File : files[f] \in {"absent", "synced"}
  /\ \A f \in File : durableFiles[f] \in {"absent", "synced"}
  /\ \A s \in Slot : slots[s].sync \in {"absent", "synced"}
  /\ \A s \in Slot : durableSlots[s].sync \in {"absent", "synced"}

\* A step file that is safe in both views (the durable one, where it exists).
Safe(f) ==
  /\ f \in File
  /\ files[f] = "synced"
  /\ FsyncsDirectories => durableFiles[f] = "synced"

\* Whichever of the two pointers a crash leaves, its step file is there.
PointersSafe ==
  /\ slots["latest"].sync = "synced" => Safe(slots["latest"].data)
  /\ durableSlots["latest"].sync = "synced" =>
       FsyncsDirectories /\ Safe(durableSlots["latest"].data)

\* What the write in progress has established so far.
JobInv ==
  /\ pc \in Working => job.data \in File
  /\ pc = "replace" => tmp = "synced"
  /\ pc \in Working /\ job.slot = "latest" => Safe(job.data)
  /\ pc = "fsyncdir" => /\ job.slot = "step" => files[job.data] = "synced"
                        /\ job.slot = "latest" =>
                             slots["latest"] = [data |-> job.data, sync |-> "synced"]
  /\ pc = "prune" =>
       /\ job.slot = "latest"
       /\ job.data \notin doomed
       /\ slots["latest"] = [data |-> job.data, sync |-> "synced"]
       /\ FsyncsDirectories => durableSlots["latest"] = slots["latest"]

IInv ==
  /\ TypeOK
  /\ NothingTorn
  /\ PointersSafe
  /\ JobInv
  /\ pc # "refused"

USE StepsAssumption, NoFileIsNotAFile, NamedAssumption, FsyncAssumption

\* An empty directory.
LEMMA InitIInv == Init => IInv
<1> SUFFICES ASSUME Init PROVE IInv
  OBVIOUS
<1>1. TypeOK
  <2>2. Nothing \in Content /\ NoJob \in Job
    BY DEF Nothing, Content, Sync, NoJob, Job
  <2>3. QED
    BY <2>2 DEF Init, TypeOK, Sync
<1>2. NothingTorn /\ PointersSafe
  BY DEF Init, NothingTorn, PointersSafe, Nothing, Slot
<1>3. JobInv /\ pc # "refused"
  BY DEF Init, JobInv, Working
<1>4. QED
  BY <1>1, <1>2, <1>3 DEF IInv

\* The step of a file is a positive number.
LEMMA FileStep == \A f \in File : f.step \in Nat
  BY DEF File

\* One case per file operation, failure or crash.
LEMMA StepIInv == IInv /\ [Next]_vars => IInv'
<1> SUFFICES ASSUME IInv, [Next]_vars PROVE IInv'
  OBVIOUS
<1> USE DEF IInv
<1>1. ASSUME NEW f \in File, BeginSaveStep(f) PROVE IInv'
  BY <1>1, FileStep DEF BeginSaveStep, diskVars, TypeOK, NothingTorn, PointersSafe, JobInv,
     Safe, Job, Working
<1>2. ASSUME NEW f \in File, NEW n \in Named, BeginSaveNamed(n, f) PROVE IInv'
  BY <1>2, FileStep DEF BeginSaveNamed, diskVars, TypeOK, NothingTorn, PointersSafe, JobInv,
     Safe, Job, Working, Slot
<1>3. ASSUME MakeTemp PROVE IInv'
  BY <1>3 DEF MakeTemp, diskVars, TypeOK, NothingTorn, PointersSafe, JobInv, Safe, Working, Sync
<1>4. ASSUME WriteTemp PROVE IInv'
  BY <1>4 DEF WriteTemp, diskVars, TypeOK, NothingTorn, PointersSafe, JobInv, Safe, Working, Sync
<1>5. ASSUME FsyncTemp PROVE IInv'
  BY <1>5 DEF FsyncTemp, diskVars, TypeOK, NothingTorn, PointersSafe, JobInv, Safe, Working, Sync
<1>6. ASSUME Replace PROVE IInv'
  <2>1. job.data \in File /\ tmp = "synced" /\ pc' = "fsyncdir" /\ job' = job
    BY <1>6 DEF Replace, JobInv, Working
  <2>2. CASE job.slot = "step"
    <3>1. /\ files' = [files EXCEPT ![job.data] = "synced"]
          /\ staler' \in SUBSET (File \X File)
          /\ UNCHANGED <<slots, durableFiles, durableSlots>>
      BY <1>6, <2>1, <2>2 DEF Replace, TypeOK, Slot, SameStep
    <3>2. TypeOK'
      BY <1>6, <2>1, <3>1 DEF Replace, TypeOK, Sync, Working
    <3>3. \A f \in File : Safe(f) => Safe(f)'
      BY <2>1, <3>1 DEF Safe, TypeOK
    <3>4. NothingTorn' /\ PointersSafe'
      BY <2>1, <3>1, <3>3 DEF NothingTorn, PointersSafe, TypeOK, Safe
    <3>5. JobInv'
      BY <2>1, <2>2, <3>1 DEF JobInv, Working, TypeOK
    <3>6. QED
      BY <2>1, <3>2, <3>4, <3>5
  <2>3. CASE job.slot \in Slot
    <3>1. /\ slots' = [slots EXCEPT ![job.slot] = [data |-> job.data, sync |-> "synced"]]
          /\ UNCHANGED <<files, staler, durableFiles, durableSlots>>
      BY <1>6, <2>1, <2>3 DEF Replace, Slot
    <3>2. TypeOK'
      BY <1>6, <2>1, <3>1 DEF Replace, TypeOK, Sync, Working, Content
    <3>3. NothingTorn'
      BY <2>1, <2>3, <3>1 DEF NothingTorn, TypeOK
    <3>4. job.slot = "latest" => Safe(job.data)
      BY <1>6 DEF JobInv, Replace, Working
    <3>5. PointersSafe'
      BY <2>1, <2>3, <3>1, <3>4 DEF PointersSafe, TypeOK, Safe
    <3>6. JobInv'
      BY <2>1, <2>3, <3>1, <3>4 DEF JobInv, Working, TypeOK, Safe, Slot
    <3>7. QED
      BY <2>1, <3>2, <3>3, <3>5, <3>6
  <2>4. QED
    BY <1>6, <2>2, <2>3 DEF Replace
<1>7. ASSUME FsyncDirectory PROVE IInv'
  <2> USE <1>7 DEF FsyncDirectory
  <2>1. UNCHANGED <<files, slots, staler, tmp, step>>
    OBVIOUS
  <2>2. job.data \in File
    BY DEF JobInv, Working
  <2>3. \A f \in File : Safe(f) => Safe(f)'
    BY DEF Safe
  <2>4. Prunable(job.data) \in SUBSET (File \ {job.data})
    BY DEF Prunable, Present
  <2>5. TypeOK'
    BY <2>2, <2>4 DEF TypeOK, Job, NoJob, Slot, Working
  <2>6. NothingTorn'
    BY DEF NothingTorn
  <2>7. PointersSafe'
    BY <2>3 DEF PointersSafe, TypeOK, Safe
  <2>8. JobInv'
    BY <2>2, <2>4 DEF JobInv, Working, TypeOK, Safe, Job, NoJob, Slot
  <2>9. QED
    BY <2>5, <2>6, <2>7, <2>8
<1>8. ASSUME Unlink PROVE IInv'
  <2>1. PICK f \in doomed : /\ files' = [files EXCEPT ![f] = "absent"]
                            /\ doomed' = doomed \ {f}
    BY <1>8 DEF Unlink
  <2>2. /\ pc = "prune"
        /\ UNCHANGED <<durableFiles, slots, durableSlots, staler, pc, job, tmp, step>>
    BY <1>8 DEF Unlink
  <2>3. f \in File /\ f # job.data
    BY <2>2 DEF JobInv, TypeOK
  <2>4. \A g \in File : g # f /\ Safe(g) => Safe(g)'
    BY <2>1, <2>2 DEF Safe, TypeOK
  <2>5. TypeOK'
    BY <2>1, <2>2, <2>3 DEF TypeOK, Sync
  <2>6. NothingTorn'
    BY <2>1, <2>2 DEF NothingTorn, TypeOK
  <2>7. PointersSafe'
    BY <2>2, <2>3, <2>4 DEF PointersSafe, JobInv, TypeOK, Safe
  <2>8. JobInv'
    BY <2>1, <2>2, <2>3, <2>4 DEF JobInv, Working
  <2>9. QED
    BY <2>2, <2>5, <2>6, <2>7, <2>8
<1>9. ASSUME SaveStepReturns PROVE IInv'
  BY <1>9 DEF SaveStepReturns, diskVars, TypeOK, NothingTorn, PointersSafe, JobInv, Safe,
     Working, NoJob, Job
<1>10. ASSUME SaveRaises PROVE IInv'
  BY <1>10 DEF SaveRaises, diskVars, TypeOK, NothingTorn, PointersSafe, JobInv, Safe,
     Working, NoJob, Job, Sync
<1>11. ASSUME Kill PROVE IInv'
  BY <1>11 DEF Kill, TypeOK, NothingTorn, PointersSafe, JobInv, Safe, Working, NoJob, Job, Sync
<1>12. ASSUME PowerLoss PROVE IInv'
  <2>1. PICK lostFiles \in SUBSET {f \in File : files[f] # durableFiles[f]},
             lostSlots \in SUBSET {s \in Slot : slots[s] # durableSlots[s]},
             medium \in {"synced", "torn"} :
           /\ files' = [f \in File |-> IF f \in lostFiles THEN durableFiles[f]
                                       ELSE Landed(files[f], medium)]
           /\ slots' = [s \in Slot |-> IF s \in lostSlots THEN durableSlots[s]
                                       ELSE [slots[s] EXCEPT !.sync = Landed(@, medium)]]
    BY <1>12 DEF PowerLoss
  <2>2. /\ FsyncsDirectories
        /\ durableFiles' = files'
        /\ durableSlots' = slots'
        /\ tmp' = "absent" /\ doomed' = {} /\ job' = NoJob /\ step' = 0 /\ pc' = "down"
        /\ UNCHANGED staler
    BY <1>12 DEF PowerLoss, TypeOK
  <2>3. \A f \in File : files'[f] \in {files[f], durableFiles[f]}
    BY <2>1 DEF NothingTorn, Landed
  <2>4. \A s \in Slot : slots'[s] \in {slots[s], durableSlots[s]}
    <3> SUFFICES ASSUME NEW s \in Slot, s \notin lostSlots PROVE slots'[s] = slots[s]
      BY <2>1
    <3>1. Landed(slots[s].sync, medium) = slots[s].sync
      BY DEF NothingTorn, Landed
    <3>2. slots[s] \in Content
      BY DEF TypeOK
    <3>3. QED
      BY <2>1, <3>1, <3>2 DEF Content
  <2>5. files' \in [File -> Sync] /\ slots' \in [Slot -> Content]
    BY <2>1, <2>3, <2>4 DEF TypeOK
  <2>6. TypeOK'
    BY <2>2, <2>5 DEF TypeOK, Job, NoJob, Sync
  <2>7. NothingTorn'
    BY <2>2, <2>3, <2>4 DEF NothingTorn
  <2>8. \A f \in File : Safe(f) => Safe(f)'
    BY <2>2, <2>3 DEF Safe
  <2>9. PointersSafe'
    BY <2>2, <2>4, <2>8 DEF PointersSafe, Slot, Safe
  <2>10. JobInv'
    BY <2>2 DEF JobInv, Working
  <2>11. QED
    BY <2>2, <2>6, <2>7, <2>9, <2>10
<1>13. ASSUME Resume PROVE IInv'
  <2>1. UNCHANGED <<files, durableFiles, slots, durableSlots, staler, job, tmp, doomed>>
    BY <1>13 DEF Resume, diskVars
  <2>2. ~ Damaged
    BY DEF Damaged, NothingTorn, PointersSafe, Safe, Pointed, Whole, Slot
  <2>3. pc' = "idle" /\ step' \in Nat
    <3>1. slots["latest"].sync # "absent" => Pointed \in File
      BY DEF NothingTorn, PointersSafe, Safe, Pointed, Slot
    <3>2. QED
      BY <1>13, <2>2, <3>1, FileStep DEF Resume, TypeOK
  <2>4. QED
    BY <2>1, <2>3 DEF TypeOK, NothingTorn, PointersSafe, Safe, JobInv, Working
<1>14. ASSUME UNCHANGED vars PROVE IInv'
  BY <1>14 DEF vars, TypeOK, NothingTorn, PointersSafe, JobInv, Safe
<1>15. QED
  BY <1>1, <1>2, <1>3, <1>4, <1>5, <1>6, <1>7, <1>8, <1>9, <1>10, <1>11, <1>12, <1>13, <1>14
     DEF Next

\* Every reachable directory satisfies the inductive invariant.
THEOREM Invariance == Spec => []IInv
  BY InitIInv, StepIInv, PTL DEF Spec

\* The variables keep their types (TypeOK), for every instance.
THEOREM TypeCorrect == Spec => []TypeOK
<1>1. IInv => TypeOK
  BY DEF IInv
<1>2. QED
  BY <1>1, Invariance, PTL

\* latest.json always names a complete step checkpoint, whatever calls failed and
\* whenever the process or the machine stopped, so a resume is never refused.
THEOREM PointerAlwaysLoads == Spec => []PointerLoads
<1>1. IInv => PointerLoads
  BY DEF IInv, PointerLoads, Damaged, NothingTorn, PointersSafe, Safe, Pointed, Whole, Slot
<1>2. QED
  BY <1>1, Invariance, PTL

\* best_val.pt, crash.pt and final.pt are never half-written.
THEOREM NamedAlwaysWhole == Spec => []NamedNeverTorn
<1>1. IInv => NamedNeverTorn
  BY DEF IInv, NamedNeverTorn, NothingTorn, Slot
<1>2. QED
  BY <1>1, Invariance, PTL

\* What save_step returned for survives a power loss.
THEOREM ReturnedIsDurable == Spec => ReturnedSaveIsDurable
<1>1. IInv /\ [Next]_vars =>
        [SaveStepReturns /\ FsyncsDirectories =>
           /\ durableSlots["latest"] = [data |-> job.data, sync |-> "synced"]
           /\ durableFiles[job.data] = "synced"]_vars
  BY DEF IInv, SaveStepReturns, JobInv, Working, Safe
<1>2. QED
  BY <1>1, Invariance, PTL DEF Spec, ReturnedSaveIsDurable

\* The store implements CheckpointPromise: a resume finds one complete checkpoint
\* or none, a save replaces it in one step, and a settled one is never lost.
THEOREM Implements == Spec => KeepsPromise
<1>1. Init => Promise!Init
  BY DEF Init, Promise!Init, Loads, Nothing, Slot
<1>2. IInv /\ IInv' /\ [Next]_vars => [Promise!Next]_(Promise!promiseVars)
  <2> SUFFICES ASSUME IInv, IInv', [Next]_vars
               PROVE [Promise!Next]_(Promise!promiseVars)
    OBVIOUS
  <2> DEFINE L == Loads(slots["latest"], files)
             S == Loads(durableSlots["latest"], durableFiles)
  <2>1. L = IF slots["latest"].sync = "absent" THEN NoFile ELSE slots["latest"].data
    BY DEF IInv, NothingTorn, PointersSafe, Safe, Loads, Whole, Slot
  <2>2. S = IF durableSlots["latest"].sync = "absent" THEN NoFile
            ELSE durableSlots["latest"].data
    BY DEF IInv, NothingTorn, PointersSafe, Safe, Loads, Whole, Slot
  <2>3. L' = IF slots'["latest"].sync = "absent" THEN NoFile ELSE slots'["latest"].data
    BY DEF IInv, NothingTorn, PointersSafe, Safe, Loads, Whole, Slot
  <2>4. S' = IF durableSlots'["latest"].sync = "absent" THEN NoFile
             ELSE durableSlots'["latest"].data
    BY DEF IInv, NothingTorn, PointersSafe, Safe, Loads, Whole, Slot
  <2> HIDE DEF L, S
  <2>5. ASSUME UNCHANGED <<slots, durableSlots>> PROVE UNCHANGED <<L, S>>
    BY <2>1, <2>2, <2>3, <2>4, <2>5
  <2>6. ASSUME Replace PROVE UNCHANGED <<L, S>> \/ (L' \in File /\ S' = S)
    <3>1. job.data \in File /\ UNCHANGED durableSlots
      BY <2>6 DEF IInv, JobInv, Replace, Working
    <3>2. S' = S
      BY <2>2, <2>4, <3>1
    <3>3. CASE slots' = slots
      BY <2>1, <2>3, <3>2, <3>3
    <3>4. CASE slots' = [slots EXCEPT ![job.slot] = [data |-> job.data, sync |-> tmp]]
      BY <2>1, <2>3, <2>6, <3>1, <3>2, <3>4 DEF IInv, TypeOK, JobInv, Replace, Slot
    <3>5. QED
      BY <2>6, <3>3, <3>4 DEF Replace
  <2>7. ASSUME FsyncDirectory PROVE UNCHANGED <<L, S>> \/ (L' = L /\ S' = L)
    BY <2>1, <2>2, <2>3, <2>4, <2>7 DEF FsyncDirectory
  <2>8. ASSUME PowerLoss PROVE L' \in {L, S} /\ S' = L'
    <3>1. PICK lostSlots \in SUBSET {s \in Slot : slots[s] # durableSlots[s]}, medium \in {"synced", "torn"} :
            slots' = [s \in Slot |-> IF s \in lostSlots THEN durableSlots[s]
                                     ELSE [slots[s] EXCEPT !.sync = Landed(@, medium)]]
      BY <2>8 DEF PowerLoss
    <3>2. slots["latest"] \in Content /\ "latest" \in Slot
      BY DEF IInv, TypeOK, Slot
    <3>3. Landed(slots["latest"].sync, medium) = slots["latest"].sync
      BY <3>2 DEF IInv, NothingTorn, Landed
    <3>4. slots'["latest"] \in {slots["latest"], durableSlots["latest"]}
      BY <3>1, <3>2, <3>3 DEF Content
    <3>5. durableSlots' = slots'
      BY <2>8 DEF PowerLoss
    <3>6. QED
      BY <2>1, <2>2, <2>3, <2>4, <3>4, <3>5
  <2>9. CASE Next
    <3>1. UNCHANGED <<slots, durableSlots>> \/ Replace \/ FsyncDirectory \/ PowerLoss
      BY <2>9 DEF Next, BeginSaveStep, BeginSaveNamed, MakeTemp, WriteTemp, FsyncTemp, Unlink,
         SaveStepReturns, SaveRaises, Kill, Resume, diskVars
    <3>2. UNCHANGED <<L, S>> \/ (L' \in File /\ S' = S) \/ (L' = L /\ S' = L)
            \/ (L' \in {L, S} /\ S' = L')
      BY <2>5, <2>6, <2>7, <2>8, <3>1
    <3>3. QED
      BY <3>2 DEF Promise!Next, Promise!Publish, Promise!PublishOf, Promise!Settle, Promise!PowerLoss,
         Promise!promiseVars, L, S
  <2>10. CASE UNCHANGED vars
    BY <2>5, <2>10 DEF vars, Promise!promiseVars, L, S
  <2>11. QED
    BY <2>9, <2>10
<1>3. QED
  BY <1>1, <1>2, Invariance, PTL DEF Spec, KeepsPromise, Promise!Spec
=============================================================================
