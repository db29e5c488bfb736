------------------------- MODULE DirectUploadProofs -------------------------
(***************************************************************************)
(* Proofs about DirectUpload for any sets of sessions, processes and       *)
(* contents and any bounds.  IInv is shown inductive part by part, one     *)
(* lemma per part with one step per operation; the theorems follow from it.*)
(***************************************************************************)
EXTENDS DirectUpload, FiniteSetTheorems, TLAPS

\* A busy process has a session.
LEMMA OnSession ==
    ASSUME ProcInv, NEW p \in Procs, pc[p] # "idle"
    PROVE  on[p] \in Sessions
BY DEF ProcInv

\* Every operation keeps the type invariant.
LEMMA TypeOKStep ==
    ASSUME TypeOK, ProcInv, Next
    PROVE  TypeOK'
<1>. USE DEF TypeOK, Statuses, Admitted, ActiveMultipart, Finalizing, Terminal,
      Expirable, Steps, CompletionSteps, TaskSteps, OpenMulti, AllPayloads,
      Fault, Death, Goto, Start, Stop, AbortMulti, rowVars, storeVars,
      dataVars, procVars, envVars
<1>1. ASSUME NEW p \in Procs, ClaimCompletion(p) PROVE TypeOK'
  BY <1>1 DEF ClaimCompletion, Claimable
<1>2. ASSUME NEW p \in Procs, ProviderComplete(p) PROVE TypeOK'
  BY <1>2 DEF ProviderComplete
<1>3. ASSUME NEW p \in Procs, HeadUpload(p) PROVE TypeOK'
  BY <1>3 DEF HeadUpload
<1>4. ASSUME NEW p \in Procs, RestoreUploading(p) PROVE TypeOK'
  BY <1>4 DEF RestoreUploading, Restorable
<1>5. ASSUME NEW p \in Procs, RecordCompletion(p) PROVE TypeOK'
  <2>1. on[p] \in Sessions BY <1>5, OnSession DEF RecordCompletion
  <2>2. /\ \/ status' = [status EXCEPT ![on[p]] = "verifying"]
           \/ status' = [status EXCEPT ![on[p]] = "failed"]
           \/ status' = status
        /\ pending' = [pending EXCEPT ![on[p]] = FALSE] \/ pending' = pending
        /\ Goto(p, "begin") \/ Stop(p)
    BY ONLY <1>5 DEF RecordCompletion
  <2>3. status' \in [Sessions -> Statuses] BY <2>1, <2>2
  <2>4. pending' \in [Sessions -> BOOLEAN] BY <2>1, <2>2
  <2>5. pc' \in [Procs -> Steps] /\ on' \in [Procs -> Sessions \union {None}] BY <2>2
  <2>. QED BY <1>5, <2>3, <2>4, <2>5 DEF RecordCompletion
<1>6. ASSUME NEW p \in Procs, Fail(p) PROVE TypeOK'
  BY <1>6 DEF Fail, Failable
<1>7. ASSUME NEW p \in Procs, Begin(p) PROVE TypeOK'
  BY <1>7 DEF Begin
<1>8. ASSUME NEW p \in Procs, ClaimLease(p) PROVE TypeOK'
  BY <1>8 DEF ClaimLease, LeaseFree
<1>9. ASSUME NEW p \in Procs, Verify(p) PROVE TypeOK'
  BY <1>9 DEF Verify, IdentityHolds
<1>10. ASSUME NEW p \in Procs, RecordVerified(p) PROVE TypeOK'
  <2>1. on[p] \in Sessions BY <1>10, OnSession DEF RecordVerified
  <2>2. /\ status' = [status EXCEPT ![on[p]] = "analyzing"] \/ status' = status
        /\ hashed' = [hashed EXCEPT ![on[p]] = TRUE] \/ hashed' = hashed
        /\ lease' = [lease EXCEPT ![on[p]] = "held"] \/ lease' = lease
        /\ Goto(p, "materialize") \/ Stop(p)
    BY ONLY <1>10 DEF RecordVerified
  <2>3. status' \in [Sessions -> Statuses] BY <2>1, <2>2
  <2>4. lease' \in [Sessions -> {"unset", "held", "lapsed"}] BY <2>1, <2>2
  <2>5. hashed' \in [Sessions -> BOOLEAN] BY <2>1, <2>2
  <2>6. pc' \in [Procs -> Steps] /\ on' \in [Procs -> Sessions \union {None}] BY <2>2
  <2>. QED BY <1>10, <2>3, <2>4, <2>5, <2>6 DEF RecordVerified
<1>11. ASSUME NEW p \in Procs, Snapshot(p) PROVE TypeOK'
  BY <1>11 DEF Snapshot
<1>12. ASSUME NEW p \in Procs, Materialize(p) PROVE TypeOK'
  BY <1>12 DEF Materialize
<1>13. ASSUME NEW p \in Procs, Reserve(p) PROVE TypeOK'
  BY <1>13 DEF Reserve, Duplicates
<1>14. ASSUME NEW p \in Procs, Inspect(p) PROVE TypeOK'
  BY <1>14 DEF Inspect
<1>15. ASSUME NEW p \in Procs, SaveJob(p) PROVE TypeOK'
  BY <1>15 DEF SaveJob
<1>16. ASSUME NEW p \in Procs, Finish(p) PROVE TypeOK'
  <2>1. on[p] \in Sessions BY <1>16, OnSession DEF Finish
  <2>2. /\ status' = [status EXCEPT ![on[p]] = "completed"] \/ status' = status
        /\ result' = [result EXCEPT ![on[p]] = idem[on[p]]] \/ result' = result
        /\ pending' = [pending EXCEPT ![on[p]] = TRUE] \/ pending' = pending
        /\ Goto(p, "cleanup") \/ Stop(p)
    BY ONLY <1>16 DEF Finish
  <2>3. status' \in [Sessions -> Statuses] BY <2>1, <2>2
  <2>4. result' \in [Sessions -> Sessions \union {None}] BY <2>1, <2>2
  <2>5. pending' \in [Sessions -> BOOLEAN] BY <2>1, <2>2
  <2>6. pc' \in [Procs -> Steps] /\ on' \in [Procs -> Sessions \union {None}] BY <2>2
  <2>. QED BY <1>16, <2>3, <2>4, <2>5, <2>6 DEF Finish
<1>17. ASSUME NEW p \in Procs, Abort(p) PROVE TypeOK'
  <2>1. on[p] \in Sessions BY <1>17, OnSession DEF Abort
  <2>2. /\ status' = [status EXCEPT ![on[p]] = "aborted"] \/ status' = status
        /\ cleaned' = [cleaned EXCEPT ![on[p]] = TRUE] \/ cleaned' = cleaned
        /\ AbortMulti({on[p]}) \/ multi' = multi
        /\ Fault \/ Death \/ UNCHANGED envVars
    BY ONLY <1>17 DEF Abort
  <2>3. status' \in [Sessions -> Statuses] BY <2>1, <2>2
  <2>4. cleaned' \in [Sessions -> BOOLEAN] BY <2>1, <2>2
  <2>5. multi' \in [Sessions -> {"none", "closed"} \union OpenMulti] BY <2>1, <2>2
  <2>6. faults' \in Nat /\ crashes' \in Nat BY <2>1, <2>2
  <2>. QED BY <1>17, <2>3, <2>4, <2>5, <2>6 DEF Abort
<1>18. ASSUME NEW p \in Procs, Crash(p) PROVE TypeOK'
  BY <1>18 DEF Crash
<1>19. ASSUME NEW p \in Procs, NEW s \in Sessions, Cleanup(p, s) PROVE TypeOK'
  <2>1. status' \in [Sessions -> Statuses]
    BY <1>19 DEF Cleanup
  <2>2. pending' \in [Sessions -> BOOLEAN]
    BY <1>19 DEF Cleanup
  <2>3. store' \in [Sessions -> {"absent"} \union AllPayloads]
    BY <1>19 DEF Cleanup
  <2>4. faults' \in Nat /\ crashes' \in Nat
    BY <1>19 DEF Cleanup
  <2>. QED BY <1>19, <2>1, <2>2, <2>3, <2>4 DEF Cleanup
<1>20. ASSUME NEW p \in Procs, NEW s \in Sessions, RequestAbort(p, s) PROVE TypeOK'
  BY <1>20 DEF RequestAbort
<1>21. ASSUME NEW p \in Procs, NEW s \in Sessions, RequestComplete(p, s) PROVE TypeOK'
  BY <1>21 DEF RequestComplete, ExpireNeeded
<1>22. ASSUME NEW p \in Procs, NEW s \in Sessions, Poll(p, s) PROVE TypeOK'
  BY <1>22 DEF Poll
<1>23. ASSUME NEW s \in Sessions, Initiate(s) PROVE TypeOK'
  BY <1>23 DEF Initiate, Reconcilable
<1>24. ASSUME NEW s \in Sessions, InitiateRolledBack(s) PROVE TypeOK'
  BY <1>24 DEF InitiateRolledBack, Reconcilable
<1>25. ASSUME NEW s \in Sessions, Expire(s) PROVE TypeOK'
  BY <1>25 DEF Expire, ExpireNeeded
<1>26. ASSUME NEW s \in Sessions, AbortLost(s) PROVE TypeOK'
  BY <1>26 DEF AbortLost, ExpireNeeded
<1>27. ASSUME NEW s \in Sessions, CreatePartUrls(s) PROVE TypeOK'
  BY <1>27 DEF CreatePartUrls, ExpireNeeded
<1>28. ASSUME NEW s \in Sessions, ReconcileScript(s) PROVE TypeOK'
  BY <1>28 DEF ReconcileScript, ExpireNeeded
<1>29. ASSUME NEW s \in Sessions, PutParts(s) PROVE TypeOK'
  BY <1>29, ConstantsAssumption DEF PutParts
<1>30. ASSUME NEW s \in Sessions, LeaseLapses(s) PROVE TypeOK'
  BY <1>30 DEF LeaseLapses
<1>31. ASSUME NEW s \in Sessions, TimeToLiveEnds(s) PROVE TypeOK'
  BY <1>31 DEF TimeToLiveEnds
<1>32. \A p \in Procs : pc[p] # "idle" => on[p] \in Sessions
  BY OnSession
<1>. QED BY <1>32, <1>1, <1>2, <1>3, <1>4, <1>5, <1>6, <1>7, <1>8, <1>9, <1>10, <1>11,
      <1>12, <1>13, <1>14, <1>15, <1>16, <1>17, <1>18, <1>19, <1>20, <1>21,
      <1>22, <1>23, <1>24, <1>25, <1>26, <1>27, <1>28, <1>29, <1>30, <1>31,
      Next
      DEF Next, ProcStep, RequestStep, SessionStep

\* Every operation respects the claims the processes rely on.
LEMMA ProcInvStep ==
    ASSUME TypeOK, ProcInv, ResultInv, Next
    PROVE  ProcInv'
<1>. USE DEF TypeOK, Statuses, Admitted, ActiveMultipart, Finalizing, Terminal,
      Expirable, Steps, CompletionSteps, TaskSteps, OpenMulti, AllPayloads,
      Fault, Death, Goto, Start, Stop, AbortMulti, rowVars, storeVars,
      dataVars, procVars, envVars, ProcInv, CompletionExclusive
<1>1. ASSUME NEW p \in Procs, ClaimCompletion(p) PROVE ProcInv'
  BY <1>1 DEF ClaimCompletion, Claimable
<1>2. ASSUME NEW p \in Procs, ProviderComplete(p) PROVE ProcInv'
  BY <1>2 DEF ProviderComplete
<1>3. ASSUME NEW p \in Procs, HeadUpload(p) PROVE ProcInv'
  BY <1>3 DEF HeadUpload
<1>4. ASSUME NEW p \in Procs, RestoreUploading(p) PROVE ProcInv'
  BY <1>4 DEF RestoreUploading, Restorable
<1>5. ASSUME NEW p \in Procs, RecordCompletion(p) PROVE ProcInv'
  BY <1>5 DEF RecordCompletion
<1>6. ASSUME NEW p \in Procs, Fail(p) PROVE ProcInv'
  BY <1>6 DEF Fail, Failable
<1>7. ASSUME NEW p \in Procs, Begin(p) PROVE ProcInv'
  BY <1>7 DEF Begin
<1>8. ASSUME NEW p \in Procs, ClaimLease(p) PROVE ProcInv'
  BY <1>8 DEF ClaimLease, LeaseFree
<1>9. ASSUME NEW p \in Procs, Verify(p) PROVE ProcInv'
  BY <1>9 DEF Verify, IdentityHolds
<1>10. ASSUME NEW p \in Procs, RecordVerified(p) PROVE ProcInv'
  BY <1>10 DEF RecordVerified
<1>11. ASSUME NEW p \in Procs, Snapshot(p) PROVE ProcInv'
  BY <1>11 DEF Snapshot
<1>12. ASSUME NEW p \in Procs, Materialize(p) PROVE ProcInv'
  BY <1>12 DEF Materialize
<1>13. ASSUME NEW p \in Procs, Reserve(p) PROVE ProcInv'
  BY <1>13 DEF Reserve, Duplicates
<1>14. ASSUME NEW p \in Procs, Inspect(p) PROVE ProcInv'
  BY <1>14 DEF Inspect
<1>15. ASSUME NEW p \in Procs, SaveJob(p) PROVE ProcInv'
  BY <1>15 DEF SaveJob
<1>16. ASSUME NEW p \in Procs, Finish(p) PROVE ProcInv'
  BY <1>16 DEF Finish, IsDuplicate
<1>17. ASSUME NEW p \in Procs, Abort(p) PROVE ProcInv'
  BY <1>17 DEF Abort
<1>18. ASSUME NEW p \in Procs, Crash(p) PROVE ProcInv'
  BY <1>18 DEF Crash
<1>19. ASSUME NEW p \in Procs, NEW s \in Sessions, Cleanup(p, s) PROVE ProcInv'
  BY <1>19 DEF Cleanup, CleanupAllowed, ResultInv
<1>20. ASSUME NEW p \in Procs, NEW s \in Sessions, RequestAbort(p, s) PROVE ProcInv'
  BY <1>20 DEF RequestAbort
<1>21. ASSUME NEW p \in Procs, NEW s \in Sessions, RequestComplete(p, s) PROVE ProcInv'
  BY <1>21 DEF RequestComplete, ExpireNeeded
<1>22. ASSUME NEW p \in Procs, NEW s \in Sessions, Poll(p, s) PROVE ProcInv'
  BY <1>22 DEF Poll
<1>23. ASSUME NEW s \in Sessions, Initiate(s) PROVE ProcInv'
  BY <1>23 DEF Initiate, Reconcilable
<1>24. ASSUME NEW s \in Sessions, InitiateRolledBack(s) PROVE ProcInv'
  BY <1>24 DEF InitiateRolledBack, Reconcilable
<1>25. ASSUME NEW s \in Sessions, Expire(s) PROVE ProcInv'
  BY <1>25 DEF Expire, ExpireNeeded
<1>26. ASSUME NEW s \in Sessions, AbortLost(s) PROVE ProcInv'
  BY <1>26 DEF AbortLost, ExpireNeeded
<1>27. ASSUME NEW s \in Sessions, CreatePartUrls(s) PROVE ProcInv'
  BY <1>27 DEF CreatePartUrls, ExpireNeeded
<1>28. ASSUME NEW s \in Sessions, ReconcileScript(s) PROVE ProcInv'
  BY <1>28 DEF ReconcileScript, ExpireNeeded
<1>29. ASSUME NEW s \in Sessions, PutParts(s) PROVE ProcInv'
  BY <1>29 DEF PutParts
<1>30. ASSUME NEW s \in Sessions, LeaseLapses(s) PROVE ProcInv'
  BY <1>30 DEF LeaseLapses
<1>31. ASSUME NEW s \in Sessions, TimeToLiveEnds(s) PROVE ProcInv'
  BY <1>31 DEF TimeToLiveEnds
<1>. QED BY <1>1, <1>2, <1>3, <1>4, <1>5, <1>6, <1>7, <1>8, <1>9, <1>10, <1>11,
      <1>12, <1>13, <1>14, <1>15, <1>16, <1>17, <1>18, <1>19, <1>20, <1>21,
      <1>22, <1>23, <1>24, <1>25, <1>26, <1>27, <1>28, <1>29, <1>30, <1>31,
      Next
      DEF Next, ProcStep, RequestStep, SessionStep

\* Verification is recorded before anything relies on it, and stays true.
LEMMA RowInvStep ==
    ASSUME TypeOK, ProcInv, RowInv, ResultInv, Next
    PROVE  RowInv'
<1>. USE DEF TypeOK, Statuses, Admitted, ActiveMultipart, Finalizing, Terminal,
      Expirable, Steps, CompletionSteps, TaskSteps, OpenMulti, AllPayloads,
      Fault, Death, Goto, Start, Stop, AbortMulti, rowVars, storeVars,
      dataVars, procVars, envVars, ProcInv, CompletionExclusive, RowInv,
      ResultInv, HashedSteps, Sourced
<1>1. ASSUME NEW p \in Procs, ClaimCompletion(p) PROVE RowInv'
  BY <1>1 DEF ClaimCompletion, Claimable
<1>2. ASSUME NEW p \in Procs, ProviderComplete(p) PROVE RowInv'
  BY <1>2 DEF ProviderComplete
<1>3. ASSUME NEW p \in Procs, HeadUpload(p) PROVE RowInv'
  BY <1>3 DEF HeadUpload
<1>4. ASSUME NEW p \in Procs, RestoreUploading(p) PROVE RowInv'
  BY <1>4 DEF RestoreUploading, Restorable
<1>5. ASSUME NEW p \in Procs, RecordCompletion(p) PROVE RowInv'
  BY <1>5 DEF RecordCompletion
<1>6. ASSUME NEW p \in Procs, Fail(p) PROVE RowInv'
  BY <1>6 DEF Fail, Failable
<1>7. ASSUME NEW p \in Procs, Begin(p) PROVE RowInv'
  BY <1>7 DEF Begin
<1>8. ASSUME NEW p \in Procs, ClaimLease(p) PROVE RowInv'
  BY <1>8 DEF ClaimLease, LeaseFree
<1>9. ASSUME NEW p \in Procs, Verify(p) PROVE RowInv'
  BY <1>9 DEF Verify, IdentityHolds
<1>10. ASSUME NEW p \in Procs, RecordVerified(p) PROVE RowInv'
  BY <1>10 DEF RecordVerified
<1>11. ASSUME NEW p \in Procs, Snapshot(p) PROVE RowInv'
  BY <1>11 DEF Snapshot
<1>12. ASSUME NEW p \in Procs, Materialize(p) PROVE RowInv'
  BY <1>12 DEF Materialize
<1>13. ASSUME NEW p \in Procs, Reserve(p) PROVE RowInv'
  <2>. DEFINE s == on[p]
  <2>1. s \in Sessions /\ hashed[s] BY <1>13 DEF Reserve
  <2>2. CASE idem[s] # None
    <3>1. UNCHANGED <<rowVars, storeVars, dataVars, on>> /\ pc' = [pc EXCEPT ![p] = "finish"]
      BY <1>13, <2>2 DEF Reserve
    <3>. QED BY <1>13, <2>1, <2>2, <3>1 DEF Reserve
  <2>3. CASE idem[s] = None
    <3>1. PICK t \in Sessions, step \in {"finish", "inspect"} :
             /\ idem' = [idem EXCEPT ![s] = t] /\ UNCHANGED <<rowVars, storeVars, on>>
             /\ pc' = [pc EXCEPT ![p] = step] /\ (step = "inspect" => t = s)
      BY <1>13, <2>1, <2>3 DEF Reserve, Duplicates
    <3>2. store[s] = "match" BY <2>1, <2>3
    <3>. QED BY <1>13, <2>1, <2>3, <3>1, <3>2, ConstantsAssumption DEF Reserve
  <2>. QED BY <2>2, <2>3
<1>14. ASSUME NEW p \in Procs, Inspect(p) PROVE RowInv'
  BY <1>14 DEF Inspect
<1>15. ASSUME NEW p \in Procs, SaveJob(p) PROVE RowInv'
  <2>1. UNCHANGED <<hashed, store, idem, status, on>> BY <1>15 DEF SaveJob
  <2>2. \E step \in {"fail", "finish"} : pc' = [pc EXCEPT ![p] = step]
    BY <1>15 DEF SaveJob
  <2>3. pc[p] \in {"save", "save_failed"} BY <1>15 DEF SaveJob
  <2>. QED BY <2>1, <2>2, <2>3, ConstantsAssumption
<1>16. ASSUME NEW p \in Procs, Finish(p) PROVE RowInv'
  BY <1>16 DEF Finish, IsDuplicate
<1>17. ASSUME NEW p \in Procs, Abort(p) PROVE RowInv'
  BY <1>17 DEF Abort
<1>18. ASSUME NEW p \in Procs, Crash(p) PROVE RowInv'
  BY <1>18 DEF Crash
<1>19. ASSUME NEW p \in Procs, NEW s \in Sessions, Cleanup(p, s) PROVE RowInv'
  BY <1>19 DEF Cleanup, CleanupAllowed
<1>20. ASSUME NEW p \in Procs, NEW s \in Sessions, RequestAbort(p, s) PROVE RowInv'
  BY <1>20 DEF RequestAbort
<1>21. ASSUME NEW p \in Procs, NEW s \in Sessions, RequestComplete(p, s) PROVE RowInv'
  BY <1>21 DEF RequestComplete, ExpireNeeded
<1>22. ASSUME NEW p \in Procs, NEW s \in Sessions, Poll(p, s) PROVE RowInv'
  BY <1>22 DEF Poll
<1>23. ASSUME NEW s \in Sessions, Initiate(s) PROVE RowInv'
  BY <1>23 DEF Initiate, Reconcilable
<1>24. ASSUME NEW s \in Sessions, InitiateRolledBack(s) PROVE RowInv'
  BY <1>24 DEF InitiateRolledBack, Reconcilable
<1>25. ASSUME NEW s \in Sessions, Expire(s) PROVE RowInv'
  BY <1>25 DEF Expire, ExpireNeeded
<1>26. ASSUME NEW s \in Sessions, AbortLost(s) PROVE RowInv'
  BY <1>26 DEF AbortLost, ExpireNeeded
<1>27. ASSUME NEW s \in Sessions, CreatePartUrls(s) PROVE RowInv'
  BY <1>27 DEF CreatePartUrls, ExpireNeeded
<1>28. ASSUME NEW s \in Sessions, ReconcileScript(s) PROVE RowInv'
  BY <1>28 DEF ReconcileScript, ExpireNeeded
<1>29. ASSUME NEW s \in Sessions, PutParts(s) PROVE RowInv'
  BY <1>29 DEF PutParts
<1>30. ASSUME NEW s \in Sessions, LeaseLapses(s) PROVE RowInv'
  BY <1>30 DEF LeaseLapses
<1>31. ASSUME NEW s \in Sessions, TimeToLiveEnds(s) PROVE RowInv'
  BY <1>31 DEF TimeToLiveEnds
<1>. QED BY <1>1, <1>2, <1>3, <1>4, <1>5, <1>6, <1>7, <1>8, <1>9, <1>10, <1>11,
      <1>12, <1>13, <1>14, <1>15, <1>16, <1>17, <1>18, <1>19, <1>20, <1>21,
      <1>22, <1>23, <1>24, <1>25, <1>26, <1>27, <1>28, <1>29, <1>30, <1>31,
      Next
      DEF Next, ProcStep, RequestStep, SessionStep

\* The idempotency record, the analysis and the result keep agreeing.
LEMMA ResultInvStep ==
    ASSUME TypeOK, ProcInv, RowInv, ResultInv, Next
    PROVE  ResultInv'
<1>. USE DEF TypeOK, Statuses, Admitted, ActiveMultipart, Finalizing, Terminal,
      Expirable, Steps, CompletionSteps, TaskSteps, OpenMulti, AllPayloads,
      Fault, Death, Goto, Start, Stop, AbortMulti, rowVars, storeVars,
      dataVars, procVars, envVars, ProcInv, CompletionExclusive, ResultInv
<1>1. ASSUME NEW p \in Procs, ClaimCompletion(p) PROVE ResultInv'
  BY <1>1 DEF ClaimCompletion, Claimable
<1>2. ASSUME NEW p \in Procs, ProviderComplete(p) PROVE ResultInv'
  BY <1>2 DEF ProviderComplete
<1>3. ASSUME NEW p \in Procs, HeadUpload(p) PROVE ResultInv'
  BY <1>3 DEF HeadUpload
<1>4. ASSUME NEW p \in Procs, RestoreUploading(p) PROVE ResultInv'
  BY <1>4 DEF RestoreUploading, Restorable
<1>5. ASSUME NEW p \in Procs, RecordCompletion(p) PROVE ResultInv'
  BY <1>5 DEF RecordCompletion
<1>6. ASSUME NEW p \in Procs, Fail(p) PROVE ResultInv'
  BY <1>6 DEF Fail, Failable
<1>7. ASSUME NEW p \in Procs, Begin(p) PROVE ResultInv'
  BY <1>7 DEF Begin
<1>8. ASSUME NEW p \in Procs, ClaimLease(p) PROVE ResultInv'
  BY <1>8 DEF ClaimLease, LeaseFree
<1>9. ASSUME NEW p \in Procs, Verify(p) PROVE ResultInv'
  BY <1>9 DEF Verify, IdentityHolds
<1>10. ASSUME NEW p \in Procs, RecordVerified(p) PROVE ResultInv'
  BY <1>10 DEF RecordVerified
<1>11. ASSUME NEW p \in Procs, Snapshot(p) PROVE ResultInv'
  BY <1>11 DEF Snapshot
<1>12. ASSUME NEW p \in Procs, Materialize(p) PROVE ResultInv'
  BY <1>12 DEF Materialize
<1>13. ASSUME NEW p \in Procs, Reserve(p) PROVE ResultInv'
  <2>. DEFINE s == on[p]
  <2>1. s \in Sessions /\ hashed[s] BY <1>13 DEF Reserve, RowInv, HashedSteps
  <2>2. CASE idem[s] # None
    BY <1>13, <2>2 DEF Reserve
  <2>3. CASE idem[s] = None
    <3>1. analysis[s] = "none" BY <2>1, <2>3, ConstantsAssumption
    <3>2. \A t \in Duplicates(s) : t # s BY <3>1 DEF Duplicates
    <3>3. PICK t \in Sessions :
             /\ idem' = [idem EXCEPT ![s] = t] /\ UNCHANGED <<rowVars, storeVars>>
             /\ \/ t # s /\ t \in Duplicates(s) /\ UNCHANGED analysis
                \/ t = s /\ analysis' = [analysis EXCEPT ![s] = "reserved"]
      BY <1>13, <2>1, <2>3, <3>2 DEF Reserve, Duplicates
    <3>4. store[s] = "match" BY <2>1, <2>3 DEF RowInv, Sourced
    <3>. QED BY <2>1, <2>3, <3>1, <3>3, <3>4, ConstantsAssumption DEF Duplicates
  <2>. QED BY <2>2, <2>3
<1>14. ASSUME NEW p \in Procs, Inspect(p) PROVE ResultInv'
  BY <1>14 DEF Inspect
<1>15. ASSUME NEW p \in Procs, SaveJob(p) PROVE ResultInv'
  <2>1. idem[on[p]] = on[p] /\ on[p] \in Sessions BY <1>15 DEF SaveJob, RowInv
  <2>2. \A s \in Sessions : analysis'[s] # "none" <=> analysis[s] # "none"
    BY <1>15, <2>1 DEF SaveJob
  <2>3. UNCHANGED <<status, pending, hashed, result, content, store, idem>>
    BY <1>15 DEF SaveJob
  <2>. QED BY <2>2, <2>3, ConstantsAssumption
<1>16. ASSUME NEW p \in Procs, Finish(p) PROVE ResultInv'
  BY <1>16 DEF Finish, IsDuplicate, RowInv
<1>17. ASSUME NEW p \in Procs, Abort(p) PROVE ResultInv'
  BY <1>17 DEF Abort
<1>18. ASSUME NEW p \in Procs, Crash(p) PROVE ResultInv'
  BY <1>18 DEF Crash
<1>19. ASSUME NEW p \in Procs, NEW s \in Sessions, Cleanup(p, s) PROVE ResultInv'
  BY <1>19 DEF Cleanup, CleanupAllowed
<1>20. ASSUME NEW p \in Procs, NEW s \in Sessions, RequestAbort(p, s) PROVE ResultInv'
  BY <1>20 DEF RequestAbort
<1>21. ASSUME NEW p \in Procs, NEW s \in Sessions, RequestComplete(p, s) PROVE ResultInv'
  BY <1>21 DEF RequestComplete, ExpireNeeded
<1>22. ASSUME NEW p \in Procs, NEW s \in Sessions, Poll(p, s) PROVE ResultInv'
  BY <1>22 DEF Poll
<1>23. ASSUME NEW s \in Sessions, Initiate(s) PROVE ResultInv'
  <2>1. ~hashed[s] /\ \A t \in Sessions : idem[t] # s
    BY <1>23, ConstantsAssumption DEF Initiate, RowInv
  <2>2. \A t \in Sessions : t # s => content'[t] = content[t]
    BY <1>23 DEF Initiate
  <2>3. ASSUME NEW t \in Sessions
        PROVE  \/ status'[t] = status[t]
               \/ /\ status[t] \in {"absent", "initiated", "uploading", "expired"}
                  /\ status'[t] \in {"initiated", "expired"}
    <3>1. CASE t = s BY <1>23, <3>1 DEF Initiate
    <3>2. CASE t # s BY <1>23, <3>2 DEF Initiate, Reconcilable
    <3>. QED BY <3>1, <3>2
  <2>4. UNCHANGED <<hashed, result, store, analysis, idem>>
    BY <1>23 DEF Initiate
  <2>5. \A t \in Sessions : pending'[t] => pending[t]
    BY <1>23 DEF Initiate
  <2>6. \A t \in Sessions : pending'[t] => status'[t] = status[t]
    BY <2>3, <2>5
  <2>. QED BY <2>1, <2>2, <2>3, <2>4, <2>5, <2>6, ConstantsAssumption
<1>24. ASSUME NEW s \in Sessions, InitiateRolledBack(s) PROVE ResultInv'
  BY <1>24 DEF InitiateRolledBack, Reconcilable
<1>25. ASSUME NEW s \in Sessions, Expire(s) PROVE ResultInv'
  BY <1>25 DEF Expire, ExpireNeeded
<1>26. ASSUME NEW s \in Sessions, AbortLost(s) PROVE ResultInv'
  BY <1>26 DEF AbortLost, ExpireNeeded
<1>27. ASSUME NEW s \in Sessions, CreatePartUrls(s) PROVE ResultInv'
  BY <1>27 DEF CreatePartUrls, ExpireNeeded
<1>28. ASSUME NEW s \in Sessions, ReconcileScript(s) PROVE ResultInv'
  BY <1>28 DEF ReconcileScript, ExpireNeeded
<1>29. ASSUME NEW s \in Sessions, PutParts(s) PROVE ResultInv'
  BY <1>29 DEF PutParts
<1>30. ASSUME NEW s \in Sessions, LeaseLapses(s) PROVE ResultInv'
  BY <1>30 DEF LeaseLapses
<1>31. ASSUME NEW s \in Sessions, TimeToLiveEnds(s) PROVE ResultInv'
  BY <1>31 DEF TimeToLiveEnds
<1>. QED BY <1>1, <1>2, <1>3, <1>4, <1>5, <1>6, <1>7, <1>8, <1>9, <1>10, <1>11,
      <1>12, <1>13, <1>14, <1>15, <1>16, <1>17, <1>18, <1>19, <1>20, <1>21,
      <1>22, <1>23, <1>24, <1>25, <1>26, <1>27, <1>28, <1>29, <1>30, <1>31,
      Next
      DEF Next, ProcStep, RequestStep, SessionStep

\* No unfinished multipart upload escapes admission.
LEMMA MultiInvStep ==
    ASSUME TypeOK, ProcInv, RowInv, ResultInv, MultiInv, Next
    PROVE  MultiInv'
<1>. USE DEF TypeOK, Statuses, Admitted, ActiveMultipart, Finalizing, Terminal,
      Expirable, Steps, CompletionSteps, TaskSteps, OpenMulti, AllPayloads,
      Fault, Death, Goto, Start, Stop, AbortMulti, rowVars, storeVars,
      dataVars, procVars, envVars, ProcInv, CompletionExclusive, MultiInv,
      ResultInv
<1>1. ASSUME NEW p \in Procs, ClaimCompletion(p) PROVE MultiInv'
  BY <1>1 DEF ClaimCompletion, Claimable
<1>2. ASSUME NEW p \in Procs, ProviderComplete(p) PROVE MultiInv'
  BY <1>2 DEF ProviderComplete
<1>3. ASSUME NEW p \in Procs, HeadUpload(p) PROVE MultiInv'
  BY <1>3 DEF HeadUpload
<1>4. ASSUME NEW p \in Procs, RestoreUploading(p) PROVE MultiInv'
  BY <1>4 DEF RestoreUploading, Restorable
<1>5. ASSUME NEW p \in Procs, RecordCompletion(p) PROVE MultiInv'
  <2>1. /\ on[p] \in Sessions /\ store[on[p]] # "absent" /\ multi[on[p]] = "closed"
        /\ pc[p] = "record_completion"
    BY <1>5 DEF RecordCompletion
  <2>2. UNCHANGED <<due, cleaned, multi, store>> BY <1>5 DEF RecordCompletion
  <2>3. \A t \in Sessions : t # on[p] => status'[t] = status[t]
    BY <1>5 DEF RecordCompletion
  <2>4. \A q \in Procs : pc'[q] \in {"head", "head_failed", "record_completion"}
           => pc'[q] = pc[q] /\ on'[q] = on[q]
    BY <1>5 DEF RecordCompletion
  <2>5. status'[on[p]] # "absent" \/ status'[on[p]] = status[on[p]]
    BY <1>5, <2>1 DEF RecordCompletion
  <2>. QED BY <2>1, <2>2, <2>3, <2>4, <2>5
<1>6. ASSUME NEW p \in Procs, Fail(p) PROVE MultiInv'
  BY <1>6 DEF Fail, Failable
<1>7. ASSUME NEW p \in Procs, Begin(p) PROVE MultiInv'
  BY <1>7 DEF Begin
<1>8. ASSUME NEW p \in Procs, ClaimLease(p) PROVE MultiInv'
  BY <1>8 DEF ClaimLease, LeaseFree
<1>9. ASSUME NEW p \in Procs, Verify(p) PROVE MultiInv'
  BY <1>9 DEF Verify, IdentityHolds
<1>10. ASSUME NEW p \in Procs, RecordVerified(p) PROVE MultiInv'
  BY <1>10 DEF RecordVerified
<1>11. ASSUME NEW p \in Procs, Snapshot(p) PROVE MultiInv'
  BY <1>11 DEF Snapshot
<1>12. ASSUME NEW p \in Procs, Materialize(p) PROVE MultiInv'
  BY <1>12 DEF Materialize
<1>13. ASSUME NEW p \in Procs, Reserve(p) PROVE MultiInv'
  BY <1>13 DEF Reserve, Duplicates
<1>14. ASSUME NEW p \in Procs, Inspect(p) PROVE MultiInv'
  BY <1>14 DEF Inspect
<1>15. ASSUME NEW p \in Procs, SaveJob(p) PROVE MultiInv'
  BY <1>15 DEF SaveJob
<1>16. ASSUME NEW p \in Procs, Finish(p) PROVE MultiInv'
  BY <1>16 DEF Finish, IsDuplicate
<1>17. ASSUME NEW p \in Procs, Abort(p) PROVE MultiInv'
  BY <1>17 DEF Abort
<1>18. ASSUME NEW p \in Procs, Crash(p) PROVE MultiInv'
  BY <1>18 DEF Crash
<1>19. ASSUME NEW p \in Procs, NEW s \in Sessions, Cleanup(p, s) PROVE MultiInv'
  BY <1>19 DEF Cleanup, CleanupAllowed
<1>20. ASSUME NEW p \in Procs, NEW s \in Sessions, RequestAbort(p, s) PROVE MultiInv'
  BY <1>20 DEF RequestAbort
<1>21. ASSUME NEW p \in Procs, NEW s \in Sessions, RequestComplete(p, s) PROVE MultiInv'
  BY <1>21 DEF RequestComplete, ExpireNeeded
<1>22. ASSUME NEW p \in Procs, NEW s \in Sessions, Poll(p, s) PROVE MultiInv'
  BY <1>22 DEF Poll
<1>23. ASSUME NEW s \in Sessions, Initiate(s) PROVE MultiInv'
  BY <1>23 DEF Initiate, Reconcilable
<1>24. ASSUME NEW s \in Sessions, InitiateRolledBack(s) PROVE MultiInv'
  BY <1>24 DEF InitiateRolledBack, Reconcilable
<1>25. ASSUME NEW s \in Sessions, Expire(s) PROVE MultiInv'
  BY <1>25 DEF Expire, ExpireNeeded
<1>26. ASSUME NEW s \in Sessions, AbortLost(s) PROVE MultiInv'
  BY <1>26 DEF AbortLost, ExpireNeeded
<1>27. ASSUME NEW s \in Sessions, CreatePartUrls(s) PROVE MultiInv'
  BY <1>27 DEF CreatePartUrls, ExpireNeeded
<1>28. ASSUME NEW s \in Sessions, ReconcileScript(s) PROVE MultiInv'
  BY <1>28 DEF ReconcileScript, ExpireNeeded
<1>29. ASSUME NEW s \in Sessions, PutParts(s) PROVE MultiInv'
  BY <1>29 DEF PutParts
<1>30. ASSUME NEW s \in Sessions, LeaseLapses(s) PROVE MultiInv'
  BY <1>30 DEF LeaseLapses
<1>31. ASSUME NEW s \in Sessions, TimeToLiveEnds(s) PROVE MultiInv'
  BY <1>31 DEF TimeToLiveEnds
<1>. QED BY <1>1, <1>2, <1>3, <1>4, <1>5, <1>6, <1>7, <1>8, <1>9, <1>10, <1>11,
      <1>12, <1>13, <1>14, <1>15, <1>16, <1>17, <1>18, <1>19, <1>20, <1>21,
      <1>22, <1>23, <1>24, <1>25, <1>26, <1>27, <1>28, <1>29, <1>30, <1>31,
      Next
      DEF Next, ProcStep, RequestStep, SessionStep

\* Only an explicit reanalysis analyses the same bytes twice.
LEMMA OneAnalysisStep ==
    ASSUME TypeOK, ProcInv, RowInv, ResultInv, OneAnalysisPerContent, Next
    PROVE  OneAnalysisPerContent'
<1>. USE DEF TypeOK, Statuses, Admitted, ActiveMultipart, Finalizing, Terminal,
      Expirable, Steps, CompletionSteps, TaskSteps, OpenMulti, AllPayloads,
      Fault, Death, Goto, Start, Stop, AbortMulti, rowVars, storeVars,
      dataVars, procVars, envVars, ProcInv, OneAnalysisPerContent
<1>1. ASSUME NEW p \in Procs, ClaimCompletion(p) PROVE OneAnalysisPerContent'
  BY <1>1 DEF ClaimCompletion, Claimable
<1>2. ASSUME NEW p \in Procs, ProviderComplete(p) PROVE OneAnalysisPerContent'
  BY <1>2 DEF ProviderComplete
<1>3. ASSUME NEW p \in Procs, HeadUpload(p) PROVE OneAnalysisPerContent'
  BY <1>3 DEF HeadUpload
<1>4. ASSUME NEW p \in Procs, RestoreUploading(p) PROVE OneAnalysisPerContent'
  BY <1>4 DEF RestoreUploading, Restorable
<1>5. ASSUME NEW p \in Procs, RecordCompletion(p) PROVE OneAnalysisPerContent'
  BY <1>5 DEF RecordCompletion
<1>6. ASSUME NEW p \in Procs, Fail(p) PROVE OneAnalysisPerContent'
  BY <1>6 DEF Fail, Failable
<1>7. ASSUME NEW p \in Procs, Begin(p) PROVE OneAnalysisPerContent'
  BY <1>7 DEF Begin
<1>8. ASSUME NEW p \in Procs, ClaimLease(p) PROVE OneAnalysisPerContent'
  BY <1>8 DEF ClaimLease, LeaseFree
<1>9. ASSUME NEW p \in Procs, Verify(p) PROVE OneAnalysisPerContent'
  BY <1>9 DEF Verify, IdentityHolds
<1>10. ASSUME NEW p \in Procs, RecordVerified(p) PROVE OneAnalysisPerContent'
  BY <1>10 DEF RecordVerified
<1>11. ASSUME NEW p \in Procs, Snapshot(p) PROVE OneAnalysisPerContent'
  BY <1>11 DEF Snapshot
<1>12. ASSUME NEW p \in Procs, Materialize(p) PROVE OneAnalysisPerContent'
  BY <1>12 DEF Materialize
<1>13. ASSUME NEW p \in Procs, Reserve(p) PROVE OneAnalysisPerContent'
  BY <1>13 DEF Reserve, Duplicates
<1>14. ASSUME NEW p \in Procs, Inspect(p) PROVE OneAnalysisPerContent'
  BY <1>14 DEF Inspect
<1>15. ASSUME NEW p \in Procs, SaveJob(p) PROVE OneAnalysisPerContent'
  <2>1. analysis[on[p]] # "none" /\ on[p] \in Sessions
    BY <1>15 DEF SaveJob, RowInv, ResultInv
  <2>2. \A s \in Sessions : analysis'[s] # "none" <=> analysis[s] # "none"
    BY <1>15, <2>1 DEF SaveJob
  <2>. QED BY <1>15, <2>2 DEF SaveJob
<1>16. ASSUME NEW p \in Procs, Finish(p) PROVE OneAnalysisPerContent'
  BY <1>16 DEF Finish, IsDuplicate
<1>17. ASSUME NEW p \in Procs, Abort(p) PROVE OneAnalysisPerContent'
  BY <1>17 DEF Abort
<1>18. ASSUME NEW p \in Procs, Crash(p) PROVE OneAnalysisPerContent'
  BY <1>18 DEF Crash
<1>19. ASSUME NEW p \in Procs, NEW s \in Sessions, Cleanup(p, s) PROVE OneAnalysisPerContent'
  BY <1>19 DEF Cleanup, CleanupAllowed
<1>20. ASSUME NEW p \in Procs, NEW s \in Sessions, RequestAbort(p, s) PROVE OneAnalysisPerContent'
  BY <1>20 DEF RequestAbort
<1>21. ASSUME NEW p \in Procs, NEW s \in Sessions, RequestComplete(p, s) PROVE OneAnalysisPerContent'
  BY <1>21 DEF RequestComplete, ExpireNeeded
<1>22. ASSUME NEW p \in Procs, NEW s \in Sessions, Poll(p, s) PROVE OneAnalysisPerContent'
  BY <1>22 DEF Poll
<1>23. ASSUME NEW s \in Sessions, Initiate(s) PROVE OneAnalysisPerContent'
  <2>1. analysis[s] = "none"
    BY <1>23, ConstantsAssumption DEF Initiate, RowInv, ResultInv
  <2>2. \A t \in Sessions : t # s => content'[t] = content[t] /\ again'[t] = again[t]
    BY <1>23 DEF Initiate
  <2>3. analysis' = analysis BY <1>23 DEF Initiate
  <2>. QED BY <2>1, <2>2, <2>3
<1>24. ASSUME NEW s \in Sessions, InitiateRolledBack(s) PROVE OneAnalysisPerContent'
  BY <1>24 DEF InitiateRolledBack, Reconcilable
<1>25. ASSUME NEW s \in Sessions, Expire(s) PROVE OneAnalysisPerContent'
  BY <1>25 DEF Expire, ExpireNeeded
<1>26. ASSUME NEW s \in Sessions, AbortLost(s) PROVE OneAnalysisPerContent'
  BY <1>26 DEF AbortLost, ExpireNeeded
<1>27. ASSUME NEW s \in Sessions, CreatePartUrls(s) PROVE OneAnalysisPerContent'
  BY <1>27 DEF CreatePartUrls, ExpireNeeded
<1>28. ASSUME NEW s \in Sessions, ReconcileScript(s) PROVE OneAnalysisPerContent'
  BY <1>28 DEF ReconcileScript, ExpireNeeded
<1>29. ASSUME NEW s \in Sessions, PutParts(s) PROVE OneAnalysisPerContent'
  BY <1>29 DEF PutParts
<1>30. ASSUME NEW s \in Sessions, LeaseLapses(s) PROVE OneAnalysisPerContent'
  BY <1>30 DEF LeaseLapses
<1>31. ASSUME NEW s \in Sessions, TimeToLiveEnds(s) PROVE OneAnalysisPerContent'
  BY <1>31 DEF TimeToLiveEnds
<1>. QED BY <1>1, <1>2, <1>3, <1>4, <1>5, <1>6, <1>7, <1>8, <1>9, <1>10, <1>11,
      <1>12, <1>13, <1>14, <1>15, <1>16, <1>17, <1>18, <1>19, <1>20, <1>21,
      <1>22, <1>23, <1>24, <1>25, <1>26, <1>27, <1>28, <1>29, <1>30, <1>31,
      Next
      DEF Next, ProcStep, RequestStep, SessionStep

-----------------------------------------------------------------------------
\* t does not come to be counted, nor does its multipart upload open.
NoNewHolder(t) ==
    /\ status'[t] \in ActiveMultipart \union Finalizing
           => status[t] \in ActiveMultipart \union Finalizing
    /\ multi'[t] \in OpenMulti => multi[t] \in OpenMulti

\* Only initiate adds to what the owner holds, or opens a multipart upload.
LEMMA OnlyInitiateAdmits ==
    ASSUME TypeOK, ProcInv, NEW t \in Sessions,
           Next, ~ \E s \in Sessions : Initiate(s)
    PROVE  NoNewHolder(t)
<1>. USE DEF NoNewHolder, TypeOK, ProcInv, CompletionExclusive, Admitted,
      ActiveMultipart, Finalizing, Expirable, CompletionSteps, TaskSteps,
      OpenMulti, AllPayloads, Goto, Start, Stop, AbortMulti, rowVars,
      storeVars, dataVars, procVars, envVars
<1>1. ASSUME NEW p \in Procs, ClaimCompletion(p) PROVE NoNewHolder(t)
  BY <1>1 DEF ClaimCompletion, Claimable
<1>2. ASSUME NEW p \in Procs, ProviderComplete(p) PROVE NoNewHolder(t)
  BY <1>2 DEF ProviderComplete
<1>3. ASSUME NEW p \in Procs, HeadUpload(p) PROVE NoNewHolder(t)
  BY <1>3 DEF HeadUpload
<1>4. ASSUME NEW p \in Procs, RestoreUploading(p) PROVE NoNewHolder(t)
  BY <1>4 DEF RestoreUploading, Restorable
<1>5. ASSUME NEW p \in Procs, RecordCompletion(p) PROVE NoNewHolder(t)
  BY <1>5 DEF RecordCompletion
<1>6. ASSUME NEW p \in Procs, Fail(p) PROVE NoNewHolder(t)
  BY <1>6 DEF Fail, Failable
<1>7. ASSUME NEW p \in Procs, Begin(p) PROVE NoNewHolder(t)
  BY <1>7 DEF Begin
<1>8. ASSUME NEW p \in Procs, ClaimLease(p) PROVE NoNewHolder(t)
  BY <1>8 DEF ClaimLease, LeaseFree
<1>9. ASSUME NEW p \in Procs, Verify(p) PROVE NoNewHolder(t)
  BY <1>9 DEF Verify, IdentityHolds
<1>10. ASSUME NEW p \in Procs, RecordVerified(p) PROVE NoNewHolder(t)
  BY <1>10 DEF RecordVerified
<1>11. ASSUME NEW p \in Procs, Snapshot(p) PROVE NoNewHolder(t)
  BY <1>11 DEF Snapshot
<1>12. ASSUME NEW p \in Procs, Materialize(p) PROVE NoNewHolder(t)
  BY <1>12 DEF Materialize
<1>13. ASSUME NEW p \in Procs, Reserve(p) PROVE NoNewHolder(t)
  BY <1>13 DEF Reserve, Duplicates
<1>14. ASSUME NEW p \in Procs, Inspect(p) PROVE NoNewHolder(t)
  BY <1>14 DEF Inspect
<1>15. ASSUME NEW p \in Procs, SaveJob(p) PROVE NoNewHolder(t)
  BY <1>15 DEF SaveJob
<1>16. ASSUME NEW p \in Procs, Finish(p) PROVE NoNewHolder(t)
  BY <1>16 DEF Finish, IsDuplicate
<1>17. ASSUME NEW p \in Procs, Abort(p) PROVE NoNewHolder(t)
  BY <1>17 DEF Abort
<1>18. ASSUME NEW p \in Procs, Crash(p) PROVE NoNewHolder(t)
  BY <1>18 DEF Crash
<1>19. ASSUME NEW p \in Procs, NEW s \in Sessions, Cleanup(p, s) PROVE NoNewHolder(t)
  BY <1>19 DEF Cleanup, CleanupAllowed
<1>20. ASSUME NEW p \in Procs, NEW s \in Sessions, RequestAbort(p, s) PROVE NoNewHolder(t)
  BY <1>20 DEF RequestAbort
<1>21. ASSUME NEW p \in Procs, NEW s \in Sessions, RequestComplete(p, s) PROVE NoNewHolder(t)
  BY <1>21 DEF RequestComplete, ExpireNeeded
<1>22. ASSUME NEW p \in Procs, NEW s \in Sessions, Poll(p, s) PROVE NoNewHolder(t)
  BY <1>22 DEF Poll
<1>23. ASSUME NEW s \in Sessions, InitiateRolledBack(s) PROVE NoNewHolder(t)
  BY <1>23 DEF InitiateRolledBack, Reconcilable
<1>24. ASSUME NEW s \in Sessions, Expire(s) PROVE NoNewHolder(t)
  BY <1>24 DEF Expire, ExpireNeeded
<1>25. ASSUME NEW s \in Sessions, AbortLost(s) PROVE NoNewHolder(t)
  BY <1>25 DEF AbortLost, ExpireNeeded
<1>26. ASSUME NEW s \in Sessions, CreatePartUrls(s) PROVE NoNewHolder(t)
  BY <1>26 DEF CreatePartUrls, ExpireNeeded
<1>27. ASSUME NEW s \in Sessions, ReconcileScript(s) PROVE NoNewHolder(t)
  BY <1>27 DEF ReconcileScript, ExpireNeeded
<1>28. ASSUME NEW s \in Sessions, PutParts(s) PROVE NoNewHolder(t)
  BY <1>28, ConstantsAssumption DEF PutParts
<1>29. ASSUME NEW s \in Sessions, LeaseLapses(s) PROVE NoNewHolder(t)
  BY <1>29 DEF LeaseLapses
<1>30. ASSUME NEW s \in Sessions, TimeToLiveEnds(s) PROVE NoNewHolder(t)
  BY <1>30 DEF TimeToLiveEnds
<1>. QED BY <1>1, <1>2, <1>3, <1>4, <1>5, <1>6, <1>7, <1>8, <1>9, <1>10, <1>11,
      <1>12, <1>13, <1>14, <1>15, <1>16, <1>17, <1>18, <1>19, <1>20, <1>21,
      <1>22, <1>23, <1>24, <1>25, <1>26, <1>27, <1>28, <1>29, <1>30
      DEF Next, ProcStep, RequestStep, SessionStep

\* Admission counts, reconciles and opens under the owner's lock.
LEMMA CapacityStep ==
    ASSUME IInv, Next
    PROVE  CapacityRespected' /\ ProviderCapacityRespected'
<1>. DEFINE Held == {s \in Sessions : status[s] \in ActiveMultipart \union Finalizing}
            Open == {s \in Sessions : multi[s] \in OpenMulti}
            Kept == ActiveExcept(Reconcilable)
<1>1. IsFiniteSet(Held) /\ IsFiniteSet(Open) /\ IsFiniteSet(Kept)
  BY ConstantsAssumption, FS_Subset DEF ActiveExcept
<1>2. CASE ~ \E s \in Sessions : Initiate(s)
  <2>1. Held' \subseteq Held /\ Open' \subseteq Open
    BY <1>2, OnlyInitiateAdmits DEF IInv, NoNewHolder
  <2>2. Cardinality(Held') <= Cardinality(Held) /\ Cardinality(Open') <= Cardinality(Open)
    BY <1>1, <2>1, FS_Subset
  <2>3. Cardinality(Held) <= MaxActive /\ Cardinality(Open) <= MaxActive
    BY DEF IInv, CapacityRespected, ProviderCapacityRespected
  <2>4. /\ Cardinality(Held) \in Nat /\ Cardinality(Open) \in Nat
        /\ Cardinality(Held') \in Nat /\ Cardinality(Open') \in Nat
    BY <1>1, <2>1, FS_Subset, FS_CardinalityType
  <2>. QED
    BY <2>2, <2>3, <2>4, ConstantsAssumption DEF CapacityRespected, ProviderCapacityRespected
<1>3. ASSUME NEW s \in Sessions, Initiate(s)
      PROVE  CapacityRespected' /\ ProviderCapacityRespected'
  <2>1. Held' \subseteq Kept \union {s}
    BY <1>3 DEF Initiate, Reconcilable, ActiveExcept, Admitted, ActiveMultipart,
                Finalizing, IInv, TypeOK
  <2>2. Open' \subseteq Kept \union {s}
    <3>1. SUFFICES ASSUME NEW t \in Sessions, t # s, multi'[t] \in OpenMulti PROVE t \in Kept
      OBVIOUS
    <3>2. t \notin Reconcilable /\ multi[t] \in OpenMulti
      BY <1>3, <3>1 DEF Initiate, OpenMulti, AllPayloads
    <3>3. status[t] \in Admitted
      BY <3>2 DEF Reconcilable, Expirable, Admitted, Finalizing, IInv, MultiInv
    <3>. QED BY <3>2, <3>3 DEF ActiveExcept
  <2>3. Cardinality(Kept) < MaxActive /\ Cardinality(Kept) \in Nat
    BY <1>1, <1>3, FS_CardinalityType DEF Initiate, HasCapacity
  <2>4. /\ IsFiniteSet(Kept \union {s})
        /\ Cardinality(Kept \union {s}) = IF s \in Kept THEN Cardinality(Kept)
                                          ELSE Cardinality(Kept) + 1
    BY <1>1, FS_AddElement, Zenon
  <2>5. Cardinality(Kept \union {s}) <= MaxActive /\ Cardinality(Kept \union {s}) \in Nat
    BY <2>3, <2>4, ConstantsAssumption
  <2>6. /\ Cardinality(Held') <= Cardinality(Kept \union {s})
        /\ Cardinality(Open') <= Cardinality(Kept \union {s})
    BY <2>1, <2>2, <2>4, FS_Subset
  <2>7. Cardinality(Held') \in Nat /\ Cardinality(Open') \in Nat
    BY <2>1, <2>2, <2>4, FS_Subset, FS_CardinalityType
  <2>. QED
    BY <2>5, <2>6, <2>7, ConstantsAssumption DEF CapacityRespected, ProviderCapacityRespected
<1>. QED BY <1>2, <1>3

-----------------------------------------------------------------------------
\* The invariant holds initially ...
LEMMA InitIInv == ASSUME Init PROVE IInv
<1>1. CapacityRespected /\ ProviderCapacityRespected
  <2>1. {s \in Sessions : status[s] \in ActiveMultipart \union Finalizing} = {}
    BY DEF Init, ActiveMultipart, Finalizing
  <2>2. {s \in Sessions : multi[s] \in OpenMulti} = {}
    BY DEF Init, OpenMulti, AllPayloads
  <2>. QED BY <2>1, <2>2, FS_EmptySet, ConstantsAssumption
           DEF CapacityRespected, ProviderCapacityRespected
<1>2. TypeOK
  BY DEF Init, TypeOK, Statuses, Steps, OpenMulti
<1>3. ProcInv /\ RowInv /\ ResultInv /\ MultiInv /\ OneAnalysisPerContent
  BY ConstantsAssumption
  DEF Init, ProcInv, CompletionExclusive, RowInv, ResultInv, MultiInv, OneAnalysisPerContent,
      CompletionSteps, TaskSteps, HashedSteps, OpenMulti, AllPayloads
<1>. QED BY <1>1, <1>2, <1>3 DEF IInv

\* ... and every step keeps it.
LEMMA NextIInv == ASSUME IInv, [Next]_vars PROVE IInv'
<1>1. CASE Next
  <2>. USE <1>1 DEF IInv
  <2>1. TypeOK' BY TypeOKStep
  <2>2. ProcInv' BY ProcInvStep
  <2>3. RowInv' BY RowInvStep
  <2>4. ResultInv' BY ResultInvStep
  <2>5. MultiInv' BY MultiInvStep
  <2>6. OneAnalysisPerContent' BY OneAnalysisStep
  <2>7. CapacityRespected' /\ ProviderCapacityRespected' BY CapacityStep
  <2>. QED BY <2>1, <2>2, <2>3, <2>4, <2>5, <2>6, <2>7
<1>2. CASE UNCHANGED vars
  BY <1>2 DEF vars, rowVars, storeVars, dataVars, procVars, envVars, IInv, TypeOK, ProcInv,
      CompletionExclusive, RowInv, Sourced, ResultInv, MultiInv, OneAnalysisPerContent,
      CapacityRespected, ProviderCapacityRespected
<1>. QED BY <1>1, <1>2

\* The invariant the other theorems rest on.
THEOREM Invariance == Spec => []IInv
BY InitIInv, NextIInv, PTL DEF Spec

\* Every reachable row, object and process is of its type.
THEOREM TypeCorrect == Spec => []TypeOK
<1>1. IInv => TypeOK BY DEF IInv
<1>. QED BY <1>1, Invariance, PTL

\* The owner's admission limit (initiate) holds for any number of sessions and
\* processes, and so does the number of unfinished multipart uploads.
THEOREM CapacityTheorem == Spec => [](CapacityRespected /\ ProviderCapacityRespected)
<1>1. IInv => CapacityRespected /\ ProviderCapacityRespected BY DEF IInv
<1>. QED BY <1>1, Invariance, PTL

\* One request at a time completes a session at the provider (complete).
THEOREM CompletionTheorem == Spec => []CompletionExclusive
<1>1. IInv => CompletionExclusive BY DEF IInv, ProcInv
<1>. QED BY <1>1, Invariance, PTL

\* Analyses are made of declared bytes that are still there (verify_and_analyze,
\* cleanup_duplicate).
THEOREM SourceTheorem == Spec => []AnalysedSourceIsDeclared
<1>1. IInv => AnalysedSourceIsDeclared
  <2>. SUFFICES ASSUME IInv, NEW s \in Sessions, analysis[s] # "none" PROVE store[s] = "match"
    BY DEF AnalysedSourceIsDeclared
  <2>1. idem[s] = s /\ hashed[s]
    BY ConstantsAssumption DEF IInv, ResultInv
  <2>. QED BY <2>1 DEF IInv, RowInv, Sourced
<1>. QED BY <1>1, Invariance, PTL

\* Duplicates converge on one analysis and are answered only once their copy is
\* deleted (reserve_analysis, cleanup_duplicate).
THEOREM DuplicateTheorem == Spec => [](OneAnalysisPerContent /\ DuplicateAnswered)
<1>1. IInv => OneAnalysisPerContent /\ DuplicateAnswered
  BY ConstantsAssumption DEF IInv, ResultInv, OneAnalysisPerContent, DuplicateAnswered
<1>. QED BY <1>1, Invariance, PTL

-----------------------------------------------------------------------------
\* The intent to delete the duplicate object of u is kept, or carried out.
Kept(u) == pending'[u] \/ (status'[u] = "completed" /\ store'[u] = "absent")

\* No operation drops the intent: those that clear failure_reason take sessions
\* that are not analysing, or find the intent and leave it.
LEMMA IntentStep ==
    ASSUME IInv, [Next]_vars, NEW u \in Sessions, pending[u]
    PROVE  Kept(u)
<1>. USE DEF TypeOK, Kept, rowVars, storeVars, dataVars
<1>0. TypeOK /\ status[u] = "analyzing" BY DEF IInv, ResultInv
<1>1. ASSUME NEW p \in Procs, ClaimCompletion(p) PROVE Kept(u)
  BY <1>0, <1>1 DEF ClaimCompletion, Claimable
<1>2. ASSUME NEW p \in Procs, ProviderComplete(p) PROVE Kept(u)
  BY <1>0, <1>2 DEF ProviderComplete
<1>3. ASSUME NEW p \in Procs, HeadUpload(p) PROVE Kept(u)
  BY <1>0, <1>3 DEF HeadUpload
<1>4. ASSUME NEW p \in Procs, RestoreUploading(p) PROVE Kept(u)
  BY <1>0, <1>4 DEF RestoreUploading, Restorable
<1>5. ASSUME NEW p \in Procs, RecordCompletion(p) PROVE Kept(u)
  BY <1>0, <1>5 DEF RecordCompletion
<1>6. ASSUME NEW p \in Procs, Fail(p) PROVE Kept(u)
  BY <1>0, <1>6 DEF Fail, Failable
<1>7. ASSUME NEW p \in Procs, Begin(p) PROVE Kept(u)
  BY <1>0, <1>7 DEF Begin
<1>8. ASSUME NEW p \in Procs, ClaimLease(p) PROVE Kept(u)
  BY <1>0, <1>8 DEF ClaimLease, LeaseFree
<1>9. ASSUME NEW p \in Procs, Verify(p) PROVE Kept(u)
  BY <1>0, <1>9 DEF Verify, IdentityHolds
<1>10. ASSUME NEW p \in Procs, RecordVerified(p) PROVE Kept(u)
  BY <1>0, <1>10 DEF RecordVerified
<1>11. ASSUME NEW p \in Procs, Snapshot(p) PROVE Kept(u)
  BY <1>0, <1>11 DEF Snapshot
<1>12. ASSUME NEW p \in Procs, Materialize(p) PROVE Kept(u)
  BY <1>0, <1>12 DEF Materialize
<1>13. ASSUME NEW p \in Procs, Reserve(p) PROVE Kept(u)
  BY <1>0, <1>13 DEF Reserve, Duplicates
<1>14. ASSUME NEW p \in Procs, Inspect(p) PROVE Kept(u)
  BY <1>0, <1>14 DEF Inspect
<1>15. ASSUME NEW p \in Procs, SaveJob(p) PROVE Kept(u)
  BY <1>0, <1>15 DEF SaveJob
<1>16. ASSUME NEW p \in Procs, Finish(p) PROVE Kept(u)
  BY <1>0, <1>16 DEF Finish, IsDuplicate
<1>17. ASSUME NEW p \in Procs, Abort(p) PROVE Kept(u)
  BY <1>0, <1>17 DEF Abort
<1>18. ASSUME NEW p \in Procs, Crash(p) PROVE Kept(u)
  BY <1>0, <1>18 DEF Crash
<1>19. ASSUME NEW p \in Procs, NEW s \in Sessions, Cleanup(p, s) PROVE Kept(u)
  BY <1>0, <1>19 DEF Cleanup, CleanupAllowed
<1>20. ASSUME NEW p \in Procs, NEW s \in Sessions, RequestAbort(p, s) PROVE Kept(u)
  BY <1>0, <1>20 DEF RequestAbort, Expirable, ActiveMultipart
<1>21. ASSUME NEW p \in Procs, NEW s \in Sessions, RequestComplete(p, s) PROVE Kept(u)
  BY <1>0, <1>21 DEF RequestComplete, ExpireNeeded
<1>22. ASSUME NEW p \in Procs, NEW s \in Sessions, Poll(p, s) PROVE Kept(u)
  BY <1>0, <1>22 DEF Poll
<1>23. ASSUME NEW s \in Sessions, Initiate(s) PROVE Kept(u)
  BY <1>0, <1>23 DEF Initiate, Reconcilable, Expirable, ActiveMultipart
<1>24. ASSUME NEW s \in Sessions, InitiateRolledBack(s) PROVE Kept(u)
  BY <1>0, <1>24 DEF InitiateRolledBack, Reconcilable
<1>25. ASSUME NEW s \in Sessions, Expire(s) PROVE Kept(u)
  BY <1>0, <1>25 DEF Expire, ExpireNeeded, Expirable, ActiveMultipart
<1>26. ASSUME NEW s \in Sessions, AbortLost(s) PROVE Kept(u)
  BY <1>0, <1>26 DEF AbortLost, ExpireNeeded
<1>27. ASSUME NEW s \in Sessions, CreatePartUrls(s) PROVE Kept(u)
  BY <1>0, <1>27 DEF CreatePartUrls, ExpireNeeded
<1>28. ASSUME NEW s \in Sessions, ReconcileScript(s) PROVE Kept(u)
  BY <1>0, <1>28 DEF ReconcileScript, ExpireNeeded, Expirable, ActiveMultipart
<1>29. ASSUME NEW s \in Sessions, PutParts(s) PROVE Kept(u)
  BY <1>0, <1>29 DEF PutParts
<1>30. ASSUME NEW s \in Sessions, LeaseLapses(s) PROVE Kept(u)
  BY <1>0, <1>30 DEF LeaseLapses
<1>31. ASSUME NEW s \in Sessions, TimeToLiveEnds(s) PROVE Kept(u)
  BY <1>0, <1>31 DEF TimeToLiveEnds
<1>32. CASE UNCHANGED vars BY <1>0, <1>32 DEF vars
<1>33. \A p \in Procs : pc[p] # "idle" => on[p] \in Sessions BY OnSession DEF IInv
<1>. HIDE DEF TypeOK, Kept
<1>. QED BY <1>1, <1>2, <1>3, <1>4, <1>5, <1>6, <1>7, <1>8, <1>9, <1>10, <1>11, <1>12, <1>13, <1>14, <1>15, <1>16, <1>17, <1>18, <1>19, <1>20, <1>21, <1>22, <1>23, <1>24, <1>25, <1>26, <1>27, <1>28, <1>29, <1>30, <1>31, <1>32, <1>33
  DEF Next, ProcStep, RequestStep, SessionStep

\* A recorded duplicate cleanup survives every failure, lapse and crash until it
\* is done (verify_and_analyze, _fail, cleanup_duplicate).
THEOREM CleanupTheorem == Spec => CleanupIntentDurable
<1>1. ASSUME IInv, [Next]_vars
      PROVE  \A s \in Sessions :
                pending[s] => pending'[s] \/ (status'[s] = "completed" /\ store'[s] = "absent")
  BY <1>1, IntentStep DEF Kept
<1>2. IInv /\ [Next]_vars =>
         [\A s \in Sessions :
             pending[s] => pending'[s] \/ (status'[s] = "completed" /\ store'[s] = "absent")]_vars
  BY <1>1
<1>. QED BY <1>2, Invariance, PTL DEF Spec, CleanupIntentDurable

-----------------------------------------------------------------------------
(* DirectUpload implements UploadPromise: the initial states map to the    *)
(* initial state and every step, from a state of IInv, to a step of the    *)
(* promise or to none.                                                     *)

\* What each status shows the owner.
LEMMA PhaseValues ==
    /\ PhaseOf("absent") = "none"
    /\ PhaseOf("initiated") = "open" /\ PhaseOf("uploading") = "open"
    /\ PhaseOf("completing") = "finalizing" /\ PhaseOf("verifying") = "finalizing"
    /\ PhaseOf("analyzing") = "finalizing"
    /\ PhaseOf("expired") = "withdrawn" /\ PhaseOf("aborted") = "withdrawn"
    /\ PhaseOf("failed") = "failed" /\ PhaseOf("completed") = "answered"
BY DEF PhaseOf, ActiveMultipart, Finalizing

\* Before any upload the owner sees nothing.
LEMMA PromisedInit == Init => Promise!PromiseInit
<1>. SUFFICES ASSUME Init PROVE Promise!PromiseInit OBVIOUS
<1>1. \A s \in Sessions : PhaseOf(status[s]) = "none" BY PhaseValues DEF Init
<1>2. \A s \in Sessions : status[s] # "completed" /\ analysis[s] = "none" BY DEF Init
<1>. QED BY <1>1, <1>2 DEF Promise!PromiseInit

\* A step that leaves phases, answers and the library alone.
LEMMA Unseen ==
    ASSUME \A t \in Sessions : PhaseOf(status'[t]) = PhaseOf(status[t]),
           \A t \in Sessions : status'[t] = "completed" <=> status[t] = "completed",
           \A t \in Sessions : status[t] = "completed" => result'[t] = result[t],
           \A t \in Sessions : analysis'[t] # "none" <=> analysis[t] # "none"
    PROVE  UNCHANGED Promise!pvars
<1>1. [t \in Sessions |-> PhaseOf(status[t])]' = [t \in Sessions |-> PhaseOf(status[t])]
  OBVIOUS
<1>2. [t \in Sessions |-> IF status[t] = "completed" THEN result[t] ELSE None]'
      = [t \in Sessions |-> IF status[t] = "completed" THEN result[t] ELSE None]
  OBVIOUS
<1>3. {t \in Sessions : analysis[t] # "none"}' = {t \in Sessions : analysis[t] # "none"}
  OBVIOUS
<1>. QED BY <1>1, <1>2, <1>3 DEF Promise!pvars

\* A step that changes the status of one session and completes none.
LEMMA Moved ==
    ASSUME TypeOK, NEW s \in Sessions, NEW st \in Statuses,
           status' = [status EXCEPT ![s] = st],
           st # "completed", status[s] # "completed",
           UNCHANGED <<analysis, result>>
    PROVE  Promise!Move(s, PhaseOf(status[s]), PhaseOf(st))
<1>1. \A t \in Sessions : status'[t] = IF t = s THEN st ELSE status[t]
  BY DEF TypeOK
<1>2. \A t \in Sessions :
         PhaseOf(status[t])' = IF t = s THEN PhaseOf(st) ELSE PhaseOf(status[t])
  BY <1>1
<1>3. [t \in Sessions |-> PhaseOf(status[t])]'
      = [[t \in Sessions |-> PhaseOf(status[t])] EXCEPT ![s] = PhaseOf(st)]
  BY <1>2
<1>4. [t \in Sessions |-> IF status[t] = "completed" THEN result[t] ELSE None]'
      = [t \in Sessions |-> IF status[t] = "completed" THEN result[t] ELSE None]
  BY <1>1
<1>5. [t \in Sessions |-> PhaseOf(status[t])][s] = PhaseOf(status[s]) OBVIOUS
<1>6. {t \in Sessions : analysis[t] # "none"}' = {t \in Sessions : analysis[t] # "none"}
  OBVIOUS
<1>. QED BY <1>3, <1>4, <1>5, <1>6, Zenon DEF Promise!Move

\* Statuses a session may go to, seen as a promised change of phase.
Follows(from, to) ==
    \/ from \in ActiveMultipart /\ to \in {"expired", "aborted", "completing"}
    \/ from = "completing" /\ to = "uploading"
    \/ from \in Finalizing /\ to = "failed"

\* Such a change is a step of the promise.
LEMMA MovedOn ==
    ASSUME TypeOK, NEW s \in Sessions, NEW st \in Statuses,
           status' = [status EXCEPT ![s] = st], Follows(status[s], st),
           UNCHANGED <<analysis, result>>
    PROVE  Promise!PromiseNext
<1>. USE DEF Follows, ActiveMultipart, Finalizing
<1>1. Promise!Move(s, PhaseOf(status[s]), PhaseOf(st)) BY Moved
<1>2. \/ PhaseOf(status[s]) = "open" /\ PhaseOf(st) = "withdrawn"
      \/ PhaseOf(status[s]) = "open" /\ PhaseOf(st) = "finalizing"
      \/ PhaseOf(status[s]) = "finalizing" /\ PhaseOf(st) = "open"
      \/ PhaseOf(status[s]) = "finalizing" /\ PhaseOf(st) = "failed"
  BY PhaseValues
<1>3. Promise!Withdraw(s) \/ Promise!Finalize(s) \/ Promise!Reopen(s) \/ Promise!Reject(s)
  BY <1>1, <1>2 DEF Promise!Withdraw, Promise!Finalize, Promise!Reopen, Promise!Reject
<1>. QED BY <1>3 DEF Promise!PromiseNext

\* A step that keeps what a session shows, though its status changes.
LEMMA MovedWithin ==
    ASSUME TypeOK, NEW s \in Sessions, NEW st \in Statuses,
           status' = [status EXCEPT ![s] = st], PhaseOf(status[s]) = PhaseOf(st),
           st # "completed", status[s] # "completed",
           UNCHANGED <<analysis, result>>
    PROVE  UNCHANGED Promise!pvars
<1>1. \A t \in Sessions : status'[t] = IF t = s THEN st ELSE status[t]
  BY DEF TypeOK
<1>2. \A t \in Sessions : PhaseOf(status'[t]) = PhaseOf(status[t]) BY <1>1
<1>. QED BY <1>1, <1>2, Unseen

\* Completing a session with an analysis that exists answers it.
LEMMA Answered ==
    ASSUME TypeOK, NEW s \in Sessions, NEW t \in Sessions,
           status[s] = "analyzing", analysis[t] # "none",
           status' = [status EXCEPT ![s] = "completed"], result'[s] = t,
           \A u \in Sessions : u # s => result'[u] = result[u],
           UNCHANGED analysis
    PROVE  Promise!PromiseNext
<1>1. \A u \in Sessions : status'[u] = IF u = s THEN "completed" ELSE status[u]
  BY DEF TypeOK
<1>2. [u \in Sessions |-> PhaseOf(status[u])]'
      = [[u \in Sessions |-> PhaseOf(status[u])] EXCEPT ![s] = "answered"]
  <2>1. \A u \in Sessions :
           PhaseOf(status[u])' = IF u = s THEN "answered" ELSE PhaseOf(status[u])
    BY <1>1, PhaseValues
  <2>. QED BY <2>1
<1>3. [u \in Sessions |-> IF status[u] = "completed" THEN result[u] ELSE None]'
      = [[u \in Sessions |-> IF status[u] = "completed" THEN result[u] ELSE None]
            EXCEPT ![s] = t]
  <2>1. \A u \in Sessions :
           (IF status[u] = "completed" THEN result[u] ELSE None)'
           = IF u = s THEN t ELSE IF status[u] = "completed" THEN result[u] ELSE None
    BY <1>1
  <2>. QED BY <2>1
<1>4. [u \in Sessions |-> PhaseOf(status[u])][s] = "finalizing" BY PhaseValues
<1>5. {u \in Sessions : analysis[u] # "none"}' = {u \in Sessions : analysis[u] # "none"}
  OBVIOUS
<1>6. t \in {u \in Sessions : analysis[u] # "none"} OBVIOUS
<1>7. Promise!Answer(s, t) BY <1>2, <1>3, <1>4, <1>5, <1>6, Zenon DEF Promise!Answer
<1>. QED BY <1>7 DEF Promise!PromiseNext

\* Reserving the analysis of a session publishes it.
LEMMA Published ==
    ASSUME TypeOK, NEW s \in Sessions, status[s] \in {"analyzing", "failed"},
           analysis[s] = "none", analysis' = [analysis EXCEPT ![s] = "reserved"],
           UNCHANGED <<status, result>>
    PROVE  Promise!PromiseNext
<1>1. [u \in Sessions |-> PhaseOf(status[u])]' = [u \in Sessions |-> PhaseOf(status[u])]
  OBVIOUS
<1>2. [u \in Sessions |-> IF status[u] = "completed" THEN result[u] ELSE None]'
      = [u \in Sessions |-> IF status[u] = "completed" THEN result[u] ELSE None]
  OBVIOUS
<1>3. {u \in Sessions : analysis[u] # "none"}'
      = {u \in Sessions : analysis[u] # "none"} \union {s}
  BY DEF TypeOK
<1>4. [u \in Sessions |-> PhaseOf(status[u])][s] \in {"finalizing", "failed"}
  BY PhaseValues
<1>5. s \notin {u \in Sessions : analysis[u] # "none"} OBVIOUS
<1>6. Promise!Publish(s) BY <1>1, <1>2, <1>3, <1>4, <1>5, Zenon DEF Promise!Publish
<1>. QED BY <1>6 DEF Promise!PromiseNext

\* The promise counts as the service does.
LEMMA SameCardinality == ASSUME NEW T PROVE Promise!Cardinality(T) = Cardinality(T)
BY Zenon DEF Cardinality, Promise!Cardinality

\* initiate admits one session and withdraws those it reconciles.
LEMMA Admitting ==
    ASSUME IInv, NEW s \in Sessions, Initiate(s)
    PROVE  Promise!PromiseNext
<1>. DEFINE W == Reconcilable
<1>. USE DEF IInv, TypeOK
<1>1. \A t \in Sessions : status'[t] = IF t = s THEN "initiated"
                                       ELSE IF t \in W THEN "expired" ELSE status[t]
  BY DEF Initiate
<1>2. \A w \in W : w \in Sessions /\ status[w] \in {"initiated", "uploading", "expired"}
  BY DEF Reconcilable, Expirable, ActiveMultipart
<1>3. status[s] = "absent" BY DEF Initiate
<1>4. \A w \in W : [u \in Sessions |-> PhaseOf(status[u])][w] \in {"open", "withdrawn"}
  BY <1>2, PhaseValues
<1>5. [u \in Sessions |-> PhaseOf(status[u])]'
      = [u \in Sessions |-> IF u = s THEN "open" ELSE IF u \in W THEN "withdrawn"
                            ELSE [v \in Sessions |-> PhaseOf(status[v])][u]]
  <2>1. \A u \in Sessions :
           PhaseOf(status[u])' = IF u = s THEN "open" ELSE IF u \in W THEN "withdrawn"
                                 ELSE [v \in Sessions |-> PhaseOf(status[v])][u]
    BY <1>1, PhaseValues
  <2>. HIDE DEF W
  <2>. QED BY <2>1
<1>6. [u \in Sessions |-> IF status[u] = "completed" THEN result[u] ELSE None]'
      = [u \in Sessions |-> IF status[u] = "completed" THEN result[u] ELSE None]
  <2>1. result' = result BY DEF Initiate
  <2>2. \A u \in Sessions : status'[u] = "completed" <=> status[u] = "completed"
    BY <1>1, <1>2, <1>3
  <2>. QED BY <2>1, <2>2
<1>7. {u \in Sessions : analysis[u] # "none"}' = {u \in Sessions : analysis[u] # "none"}
  BY DEF Initiate, dataVars
<1>8. [u \in Sessions |-> PhaseOf(status[u])][s] = "none" BY <1>3, PhaseValues
<1>9. Promise!Held(Sessions \ W) = ActiveExcept(W)
  <2>1. \A u \in Sessions : [v \in Sessions |-> PhaseOf(status[v])][u] \in {"open", "finalizing"}
           <=> status[u] \in Admitted
    BY PhaseValues DEF Statuses, Admitted, ActiveMultipart, Finalizing, Terminal
  <2>. HIDE DEF W
  <2>. QED BY <2>1 DEF Promise!Held, ActiveExcept
<1>10. Promise!Cardinality(Promise!Held(Sessions \ W)) < MaxActive
  <2>1. Cardinality(ActiveExcept(W)) < MaxActive BY DEF Initiate, HasCapacity
  <2>. HIDE DEF W, IInv, TypeOK
  <2>. QED BY <1>9, <2>1, SameCardinality
<1>11. W \in SUBSET Sessions BY <1>2
<1>12. Promise!Admit(s, W)
  <2>. HIDE DEF W, IInv, TypeOK
  <2>. QED BY <1>4, <1>5, <1>6, <1>7, <1>8, <1>10, Zenon DEF Promise!Admit
<1>. QED BY <1>11, <1>12 DEF Promise!PromiseNext

\* Every step of the service is a step of the promise, or unseen.
LEMMA PromisedStep ==
    ASSUME IInv, [Next]_vars
    PROVE  [Promise!PromiseNext]_(Promise!pvars)
<1>. USE DEF IInv, TypeOK, Statuses, Admitted, ActiveMultipart, Finalizing, Terminal,
      Expirable, rowVars, dataVars
<1>1. ASSUME NEW p \in Procs, ClaimCompletion(p) PROVE [Promise!PromiseNext]_(Promise!pvars)
  <2>1. UNCHANGED <<analysis, result>> BY <1>1 DEF ClaimCompletion, Claimable
  <2>2. on[p] \in Sessions BY <1>1, OnSession DEF ClaimCompletion
  <2>3. \/ /\ status' = [status EXCEPT ![on[p]] = "completing"]
            /\ \/ Follows(status[on[p]], "completing")
               \/ status[on[p]] # "completed" /\ PhaseOf(status[on[p]]) = PhaseOf("completing")
         \/ status' = status
    BY <1>1, <2>1, <2>2, PhaseValues DEF ClaimCompletion, Claimable, Follows, ProcInv, CompletionExclusive, CompletionSteps, TaskSteps
  <2>. QED BY <2>1, <2>1, <2>2, <2>3, MovedOn, MovedWithin, Unseen
<1>2. ASSUME NEW p \in Procs, ProviderComplete(p) PROVE [Promise!PromiseNext]_(Promise!pvars)
  <2>1. UNCHANGED <<status, result, analysis>> BY <1>2 DEF ProviderComplete
  <2>. QED BY <2>1, Unseen
<1>3. ASSUME NEW p \in Procs, HeadUpload(p) PROVE [Promise!PromiseNext]_(Promise!pvars)
  <2>1. UNCHANGED <<status, result, analysis>> BY <1>3 DEF HeadUpload
  <2>. QED BY <2>1, Unseen
<1>4. ASSUME NEW p \in Procs, RestoreUploading(p) PROVE [Promise!PromiseNext]_(Promise!pvars)
  <2>1. UNCHANGED <<analysis, result>> BY <1>4 DEF RestoreUploading, Restorable
  <2>2. on[p] \in Sessions BY <1>4, OnSession DEF RestoreUploading
  <2>3. \/ /\ status' = [status EXCEPT ![on[p]] = "uploading"]
            /\ \/ Follows(status[on[p]], "uploading")
               \/ status[on[p]] # "completed" /\ PhaseOf(status[on[p]]) = PhaseOf("uploading")
         \/ status' = status
    BY <1>4, <2>1, <2>2, PhaseValues DEF RestoreUploading, Restorable, Follows, ProcInv, CompletionExclusive, CompletionSteps, TaskSteps
  <2>. QED BY <2>1, <2>1, <2>2, <2>3, MovedOn, MovedWithin, Unseen
<1>5. ASSUME NEW p \in Procs, RecordCompletion(p) PROVE [Promise!PromiseNext]_(Promise!pvars)
  <2>1. UNCHANGED <<analysis, result>> BY <1>5 DEF RecordCompletion
  <2>2. on[p] \in Sessions BY <1>5, OnSession DEF RecordCompletion
  <2>3. \/ /\ status' = [status EXCEPT ![on[p]] = "verifying"]
            /\ \/ Follows(status[on[p]], "verifying")
               \/ status[on[p]] # "completed" /\ PhaseOf(status[on[p]]) = PhaseOf("verifying")
         \/ /\ status' = [status EXCEPT ![on[p]] = "failed"]
            /\ \/ Follows(status[on[p]], "failed")
               \/ status[on[p]] # "completed" /\ PhaseOf(status[on[p]]) = PhaseOf("failed")
         \/ status' = status
    BY <1>5, <2>1, <2>2, PhaseValues DEF RecordCompletion, Follows, ProcInv, CompletionExclusive, CompletionSteps, TaskSteps
  <2>. QED BY <2>1, <2>1, <2>2, <2>3, MovedOn, MovedWithin, Unseen
<1>6. ASSUME NEW p \in Procs, Fail(p) PROVE [Promise!PromiseNext]_(Promise!pvars)
  <2>1. UNCHANGED <<analysis, result>> BY <1>6 DEF Fail, Failable
  <2>2. on[p] \in Sessions BY <1>6, OnSession DEF Fail
  <2>3. \/ /\ status' = [status EXCEPT ![on[p]] = "failed"]
            /\ \/ Follows(status[on[p]], "failed")
               \/ status[on[p]] # "completed" /\ PhaseOf(status[on[p]]) = PhaseOf("failed")
         \/ status' = status
    BY <1>6, <2>1, <2>2, PhaseValues DEF Fail, Failable, Follows, ProcInv, CompletionExclusive, CompletionSteps, TaskSteps
  <2>. QED BY <2>1, <2>1, <2>2, <2>3, MovedOn, MovedWithin, Unseen
<1>7. ASSUME NEW p \in Procs, Begin(p) PROVE [Promise!PromiseNext]_(Promise!pvars)
  <2>1. UNCHANGED <<status, result, analysis>> BY <1>7 DEF Begin
  <2>. QED BY <2>1, Unseen
<1>8. ASSUME NEW p \in Procs, ClaimLease(p) PROVE [Promise!PromiseNext]_(Promise!pvars)
  <2>1. UNCHANGED <<status, result, analysis>> BY <1>8 DEF ClaimLease, LeaseFree
  <2>. QED BY <2>1, Unseen
<1>9. ASSUME NEW p \in Procs, Verify(p) PROVE [Promise!PromiseNext]_(Promise!pvars)
  <2>1. UNCHANGED <<status, result, analysis>> BY <1>9 DEF Verify, IdentityHolds
  <2>. QED BY <2>1, Unseen
<1>10. ASSUME NEW p \in Procs, RecordVerified(p) PROVE [Promise!PromiseNext]_(Promise!pvars)
  <2>1. UNCHANGED <<analysis, result>> BY <1>10 DEF RecordVerified
  <2>2. on[p] \in Sessions BY <1>10, OnSession DEF RecordVerified
  <2>3. \/ /\ status' = [status EXCEPT ![on[p]] = "analyzing"]
            /\ \/ Follows(status[on[p]], "analyzing")
               \/ status[on[p]] # "completed" /\ PhaseOf(status[on[p]]) = PhaseOf("analyzing")
         \/ status' = status
    BY <1>10, <2>1, <2>2, PhaseValues DEF RecordVerified, Follows, ProcInv, CompletionExclusive, CompletionSteps, TaskSteps
  <2>. QED BY <2>1, <2>1, <2>2, <2>3, MovedOn, MovedWithin, Unseen
<1>11. ASSUME NEW p \in Procs, Snapshot(p) PROVE [Promise!PromiseNext]_(Promise!pvars)
  <2>1. UNCHANGED <<status, result, analysis>> BY <1>11 DEF Snapshot
  <2>. QED BY <2>1, Unseen
<1>12. ASSUME NEW p \in Procs, Materialize(p) PROVE [Promise!PromiseNext]_(Promise!pvars)
  <2>1. UNCHANGED <<status, result, analysis>> BY <1>12 DEF Materialize
  <2>. QED BY <2>1, Unseen
<1>13. ASSUME NEW p \in Procs, Reserve(p) PROVE [Promise!PromiseNext]_(Promise!pvars)
  <2>1. on[p] \in Sessions /\ hashed[on[p]] BY <1>13 DEF Reserve, ProcInv, RowInv, HashedSteps
  <2>2. UNCHANGED <<status, result>> BY <1>13 DEF Reserve
  <2>3. CASE UNCHANGED analysis BY <2>2, <2>3, Unseen
  <2>4. CASE idem[on[p]] = None /\ analysis' = [analysis EXCEPT ![on[p]] = "reserved"]
    <3>1. analysis[on[p]] = "none" BY <2>1, <2>4, ConstantsAssumption DEF ResultInv
    <3>2. status[on[p]] \in {"analyzing", "failed"} BY <2>1, <2>4 DEF RowInv, ResultInv
    <3>. QED BY <2>1, <2>2, <2>4, <3>1, <3>2, Published
  <2>. QED BY <1>13, <2>3, <2>4 DEF Reserve
<1>14. ASSUME NEW p \in Procs, Inspect(p) PROVE [Promise!PromiseNext]_(Promise!pvars)
  <2>1. UNCHANGED <<status, result, analysis>> BY <1>14 DEF Inspect
  <2>. QED BY <2>1, Unseen
<1>15. ASSUME NEW p \in Procs, SaveJob(p) PROVE [Promise!PromiseNext]_(Promise!pvars)
  <2>1. on[p] \in Sessions /\ analysis[on[p]] # "none"
    BY <1>15 DEF SaveJob, ProcInv, RowInv, ResultInv
  <2>2. UNCHANGED <<status, result>> BY <1>15 DEF SaveJob
  <2>3. \A t \in Sessions : analysis'[t] # "none" <=> analysis[t] # "none"
    BY <1>15, <2>1 DEF SaveJob
  <2>. QED BY <2>2, <2>3, Unseen
<1>16. ASSUME NEW p \in Procs, Finish(p) PROVE [Promise!PromiseNext]_(Promise!pvars)
  <2>1. on[p] \in Sessions /\ idem[on[p]] # None
    BY <1>16 DEF Finish, ProcInv, RowInv
  <2>2. UNCHANGED analysis BY <1>16 DEF Finish
  <2>3. analysis[idem[on[p]]] # "none" /\ idem[on[p]] \in Sessions BY <2>1 DEF ResultInv
  <2>4. CASE UNCHANGED <<status, result>> BY <2>2, <2>4, Unseen
  <2>5. CASE /\ status[on[p]] = "analyzing" /\ UNCHANGED status
             /\ result' = [result EXCEPT ![on[p]] = idem[on[p]]]
    BY <2>1, <2>2, <2>5, Unseen
  <2>6. CASE /\ status[on[p]] = "analyzing" /\ status' = [status EXCEPT ![on[p]] = "completed"]
             /\ result' = [result EXCEPT ![on[p]] = idem[on[p]]]
    <3>1. result'[on[p]] = idem[on[p]] /\ \A u \in Sessions : u # on[p] => result'[u] = result[u]
      BY <2>1, <2>6
    <3>. QED BY <2>1, <2>2, <2>3, <2>6, <3>1, Answered
  <2>. QED BY <1>16, <2>4, <2>5, <2>6 DEF Finish
<1>17. ASSUME NEW p \in Procs, Abort(p) PROVE [Promise!PromiseNext]_(Promise!pvars)
  <2>1. UNCHANGED <<analysis, result>> BY <1>17 DEF Abort
  <2>2. on[p] \in Sessions BY <1>17, OnSession DEF Abort
  <2>3. \/ /\ status' = [status EXCEPT ![on[p]] = "aborted"]
            /\ \/ Follows(status[on[p]], "aborted")
               \/ status[on[p]] # "completed" /\ PhaseOf(status[on[p]]) = PhaseOf("aborted")
         \/ status' = status
    BY <1>17, <2>1, <2>2, PhaseValues DEF Abort, Follows, ProcInv, CompletionExclusive, CompletionSteps, TaskSteps
  <2>. QED BY <2>1, <2>1, <2>2, <2>3, MovedOn, MovedWithin, Unseen
<1>18. ASSUME NEW p \in Procs, Crash(p) PROVE [Promise!PromiseNext]_(Promise!pvars)
  <2>1. UNCHANGED <<status, result, analysis>> BY <1>18 DEF Crash
  <2>. QED BY <2>1, Unseen
<1>19. ASSUME NEW p \in Procs, NEW s \in Sessions, Cleanup(p, s) PROVE [Promise!PromiseNext]_(Promise!pvars)
  <2>1. UNCHANGED <<analysis, result>> BY <1>19 DEF Cleanup
  <2>2. CASE UNCHANGED status BY <2>1, <2>2, Unseen
  <2>3. CASE /\ CleanupAllowed(s) /\ status' = [status EXCEPT ![s] = "completed"]
    <3>1. status[s] = "analyzing" /\ result[s] \in Sessions /\ analysis[result[s]] # "none"
      BY <2>3 DEF CleanupAllowed, ResultInv
    <3>. QED BY <2>1, <2>3, <3>1, Answered
  <2>. QED BY <1>19, <2>2, <2>3 DEF Cleanup
<1>20. ASSUME NEW p \in Procs, NEW s \in Sessions, RequestAbort(p, s) PROVE [Promise!PromiseNext]_(Promise!pvars)
  <2>1. UNCHANGED <<analysis, result>> BY <1>20 DEF RequestAbort
  <2>2. \/ /\ status' = [status EXCEPT ![s] = "expired"]
            /\ \/ Follows(status[s], "expired")
               \/ status[s] # "completed" /\ PhaseOf(status[s]) = PhaseOf("expired")
    BY <1>20, <2>1, PhaseValues DEF RequestAbort, Follows, ProcInv, CompletionExclusive, CompletionSteps, TaskSteps
  <2>. QED BY <2>1, <2>1, <2>2, MovedOn, MovedWithin, Unseen
<1>21. ASSUME NEW p \in Procs, NEW s \in Sessions, RequestComplete(p, s) PROVE [Promise!PromiseNext]_(Promise!pvars)
  <2>1. UNCHANGED <<status, result, analysis>> BY <1>21 DEF RequestComplete, ExpireNeeded
  <2>. QED BY <2>1, Unseen
<1>22. ASSUME NEW p \in Procs, NEW s \in Sessions, Poll(p, s) PROVE [Promise!PromiseNext]_(Promise!pvars)
  <2>1. UNCHANGED <<status, result, analysis>> BY <1>22 DEF Poll
  <2>. QED BY <2>1, Unseen
<1>23. ASSUME NEW s \in Sessions, Initiate(s) PROVE [Promise!PromiseNext]_(Promise!pvars)
  BY <1>23, Admitting
<1>24. ASSUME NEW s \in Sessions, InitiateRolledBack(s) PROVE [Promise!PromiseNext]_(Promise!pvars)
  <2>1. UNCHANGED <<status, result, analysis>> BY <1>24 DEF InitiateRolledBack, Reconcilable
  <2>. QED BY <2>1, Unseen
<1>25. ASSUME NEW s \in Sessions, Expire(s) PROVE [Promise!PromiseNext]_(Promise!pvars)
  <2>1. UNCHANGED <<analysis, result>> BY <1>25 DEF Expire, ExpireNeeded
  <2>2. \/ /\ status' = [status EXCEPT ![s] = "expired"]
            /\ \/ Follows(status[s], "expired")
               \/ status[s] # "completed" /\ PhaseOf(status[s]) = PhaseOf("expired")
    BY <1>25, <2>1, PhaseValues DEF Expire, ExpireNeeded, Follows, ProcInv, CompletionExclusive, CompletionSteps, TaskSteps
  <2>. QED BY <2>1, <2>1, <2>2, MovedOn, MovedWithin, Unseen
<1>26. ASSUME NEW s \in Sessions, AbortLost(s) PROVE [Promise!PromiseNext]_(Promise!pvars)
  <2>1. UNCHANGED <<status, result, analysis>> BY <1>26 DEF AbortLost, ExpireNeeded
  <2>. QED BY <2>1, Unseen
<1>27. ASSUME NEW s \in Sessions, CreatePartUrls(s) PROVE [Promise!PromiseNext]_(Promise!pvars)
  <2>1. UNCHANGED <<analysis, result>> BY <1>27 DEF CreatePartUrls, ExpireNeeded
  <2>2. \/ /\ status' = [status EXCEPT ![s] = "uploading"]
            /\ \/ Follows(status[s], "uploading")
               \/ status[s] # "completed" /\ PhaseOf(status[s]) = PhaseOf("uploading")
    BY <1>27, <2>1, PhaseValues DEF CreatePartUrls, ExpireNeeded, Follows, ProcInv, CompletionExclusive, CompletionSteps, TaskSteps
  <2>. QED BY <2>1, <2>1, <2>2, MovedOn, MovedWithin, Unseen
<1>28. ASSUME NEW s \in Sessions, ReconcileScript(s) PROVE [Promise!PromiseNext]_(Promise!pvars)
  <2>1. UNCHANGED <<analysis, result>> BY <1>28 DEF ReconcileScript, ExpireNeeded
  <2>2. \/ /\ status' = [status EXCEPT ![s] = "aborted"]
            /\ \/ Follows(status[s], "aborted")
               \/ status[s] # "completed" /\ PhaseOf(status[s]) = PhaseOf("aborted")
    BY <1>28, <2>1, PhaseValues DEF ReconcileScript, ExpireNeeded, Follows, ProcInv, CompletionExclusive, CompletionSteps, TaskSteps
  <2>. QED BY <2>1, <2>1, <2>2, MovedOn, MovedWithin, Unseen
<1>29. ASSUME NEW s \in Sessions, PutParts(s) PROVE [Promise!PromiseNext]_(Promise!pvars)
  <2>1. UNCHANGED <<status, result, analysis>> BY <1>29 DEF PutParts
  <2>. QED BY <2>1, Unseen
<1>30. ASSUME NEW s \in Sessions, LeaseLapses(s) PROVE [Promise!PromiseNext]_(Promise!pvars)
  <2>1. UNCHANGED <<status, result, analysis>> BY <1>30 DEF LeaseLapses
  <2>. QED BY <2>1, Unseen
<1>31. ASSUME NEW s \in Sessions, TimeToLiveEnds(s) PROVE [Promise!PromiseNext]_(Promise!pvars)
  <2>1. UNCHANGED <<status, result, analysis>> BY <1>31 DEF TimeToLiveEnds
  <2>. QED BY <2>1, Unseen
<1>32. CASE UNCHANGED vars BY <1>32, Unseen DEF vars
<1>. HIDE DEF IInv, TypeOK
<1>33. \A p \in Procs : pc[p] # "idle" => on[p] \in Sessions BY OnSession DEF IInv
<1>. QED BY <1>1, <1>2, <1>3, <1>4, <1>5, <1>6, <1>7, <1>8, <1>9, <1>10, <1>11, <1>12, <1>13, <1>14, <1>15, <1>16, <1>17, <1>18, <1>19, <1>20, <1>21, <1>22, <1>23, <1>24, <1>25, <1>26, <1>27, <1>28, <1>29, <1>30, <1>31, <1>32, <1>33 DEF Next, ProcStep, RequestStep, SessionStep

\* The service keeps its promise to the owner (uploads.py as a whole).
THEOREM Refinement == Spec => KeepsPromise
<1>. HIDE DEF IInv
<1>. QED BY PromisedInit, PromisedStep, Invariance, PTL DEF Spec, KeepsPromise, Promise!PromiseSpec
=============================================================================
