-------------------------- MODULE MatchMediaProofs --------------------------
(***************************************************************************)
(* Proofs about MatchMedia for any processes, versions and bounds.          *)
(***************************************************************************)
EXTENDS MatchMedia, TLAPS

\* Bumping the row version keeps the type of the snapshots.
LEMMA Bumped == ASSUME NEW p \in Procs, Bump(p) PROVE fresh' \in [Procs -> BOOLEAN]
<1>1. \A q \in Procs : (q = p /\ fresh[q]) \in BOOLEAN OBVIOUS
<1>. QED BY <1>1, Zenon DEF Bump

\* Every step keeps the type invariant.
LEMMA TypeOKStep ==
    ASSUME TypeOK, SavingInv, [Next]_vars
    PROVE  TypeOK'
<1>. USE DEF TypeOK, Steps, Guarded, Erasing, Gone, Removed, Inspected, rowVars, procVars, envVars
<1>1. ASSUME NEW p \in Procs, StartCreate(p) PROVE TypeOK'
  BY <1>1 DEF StartCreate, Start, Objects, Recording
<1>2. ASSUME NEW p \in Procs, Reserve(p) PROVE TypeOK'
  BY <1>2 DEF Reserve, Goto
<1>3. ASSUME NEW p \in Procs, Inspect(p) PROVE TypeOK'
  BY <1>3 DEF Inspect, Goto, Objects
<1>4. ASSUME NEW p \in Procs, LockSave(p) PROVE TypeOK'
  BY <1>4 DEF LockSave, Goto, Take, Free
<1>5. ASSUME NEW p \in Procs, Settle(p) PROVE TypeOK'
  BY <1>5 DEF Settle, Goto
<1>6. ASSUME NEW p \in Procs, SaveCheck(p) PROVE TypeOK'
  BY <1>6 DEF SaveCheck, Goto, Savable
<1>7. ASSUME NEW p \in Procs, Put(p) PROVE TypeOK'
  BY <1>7 DEF Put, Goto, Fault, Objects
<1>8. ASSUME NEW p \in Procs, Persist(p) PROVE TypeOK'
  <2>1. want[p] # "none" BY <1>8 DEF Persist, SavingInv
  <2>2. NewPhase(p) \in {"uploaded", "rejected"} \union Inspected BY <2>1 DEF NewPhase
  <2>3. fresh' \in [Procs -> BOOLEAN] BY <1>8, Bumped DEF Persist
  <2>4. registry' \in [Objects -> {"none", "current", "retired", "deleted"}] BY <1>8 DEF Persist
  <2>5. ever' \subseteq Objects /\ todo' \in [Procs -> SUBSET Objects] BY <1>8 DEF Persist
  <2>6. pc' \in [Procs -> Steps] /\ op' = op /\ want' \in [Procs -> {"none", "rejected", "corrected"} \union Inspected] BY <1>8 DEF Persist, Goto
  <2>7. life' = life /\ upload' = upload /\ store' = store /\ local' = local /\ abandoned' = abandoned /\ mode' = mode /\ UNCHANGED envVars BY <1>8 DEF Persist
  <2>8. video' \in {"available", video} /\ keyed' \in {TRUE, keyed} /\ phase' \in {NewPhase(p), phase} /\ run' \in {"processing", "ended", run} BY <1>8 DEF Persist
  <2>9. video' \in {"none", "pending", "available"} \union Removed /\ keyed' \in BOOLEAN BY <2>8
  <2>10. phase' \in {"uploaded", "rejected"} \union Inspected BY <2>2, <2>8
  <2>11. run' \in {"none", "processing", "ended", "cancelled"} BY <2>8
  <2>. QED BY <2>3, <2>4, <2>5, <2>6, <2>7, <2>9, <2>10, <2>11
<1>9. ASSUME NEW p \in Procs, StartWork(p) PROVE TypeOK'
  BY <1>9 DEF StartWork, Start, Take, Free
<1>10. ASSUME NEW p \in Procs, StartRead(p) PROVE TypeOK'
  BY <1>10 DEF StartRead, Start, Take, Free
<1>11. ASSUME NEW p \in Procs, Load(p) PROVE TypeOK'
  <2>1. Retained \subseteq Objects BY DEF Retained, Current
  <2>2. todo' = todo \/ \E S \in SUBSET Objects : todo' = [todo EXCEPT ![p] = S] BY <1>11, <2>1 DEF Load
  <2>3. todo' \in [Procs -> SUBSET Objects] BY <2>2
  <2>4. fresh' \in [Procs -> BOOLEAN] BY <1>11 DEF Load
  <2>. QED BY <1>11, <2>3, <2>4 DEF Load, Goto
<1>12. ASSUME NEW p \in Procs, Download(p) PROVE TypeOK'
  BY <1>12 DEF Download, Goto, Fault
<1>13. ASSUME NEW p \in Procs, Compute(p) PROVE TypeOK'
  <2>1. Videos \subseteq Objects /\ Documents \subseteq Objects BY DEF Objects, Recording
  <2>. QED BY <1>13, <2>1 DEF Compute, Goto
<1>14. ASSUME NEW p \in Procs, StartPurge(p) PROVE TypeOK'
  BY <1>14 DEF StartPurge, Start, Take, Free
<1>15. ASSUME NEW p \in Procs, ClaimPurge(p) PROVE TypeOK'
  <2>1. PurgeManifest \subseteq Objects BY DEF PurgeManifest, Registered, Objects, Recording
  <2>2. fresh' \in [Procs -> BOOLEAN] BY <1>15, Bumped DEF ClaimPurge
  <2>. QED BY <1>15, <2>1, <2>2 DEF ClaimPurge, Goto, Purgeable
<1>16. ASSUME NEW p \in Procs, Erase(p) PROVE TypeOK'
  BY <1>16 DEF Erase, Goto, Fault, Class
<1>17. ASSUME NEW p \in Procs, Sweep(p) PROVE TypeOK'
  BY <1>17 DEF Sweep, Goto, Fault
<1>18. ASSUME NEW p \in Procs, FinalizePurge(p) PROVE TypeOK'
  BY <1>18 DEF FinalizePurge, Goto, Bump
<1>19. ASSUME NEW p \in Procs, StartRelease(p) PROVE TypeOK'
  BY <1>19 DEF StartRelease, Start, Take, Free
<1>20. ASSUME NEW p \in Procs, ClaimRelease(p) PROVE TypeOK'
  <2>1. ReleaseManifest \subseteq Objects BY DEF ReleaseManifest, Registered, Objects, Recording
  <2>. QED BY <1>20, <2>1 DEF ClaimRelease, Goto, Releasable, Intent
<1>21. ASSUME NEW p \in Procs, FinalizeRelease(p) PROVE TypeOK'
  BY <1>21 DEF FinalizeRelease, Goto
<1>22. ASSUME NEW p \in Procs, Unlock(p) PROVE TypeOK'
  BY <1>22 DEF Unlock, Goto
<1>23. ASSUME NEW p \in Procs, Close(p) PROVE TypeOK'
  BY <1>23 DEF Close, End
<1>24. ASSUME NEW p \in Procs, Crash(p) PROVE TypeOK'
  BY <1>24 DEF Crash, End
<1>25. ASSUME NEW p \in Procs, DropLock(p) PROVE TypeOK'
  BY <1>25 DEF DropLock
<1>26. CASE SettleElsewhere BY <1>26 DEF SettleElsewhere
<1>27. CASE UNCHANGED vars BY <1>27 DEF vars
<1>. HIDE DEF TypeOK, Steps, Guarded, Erasing, Gone, Removed, Inspected
<1>. QED BY <1>1, <1>2, <1>3, <1>4, <1>5, <1>6, <1>7, <1>8, <1>9, <1>10, <1>11, <1>12, <1>13, <1>14, <1>15, <1>16, <1>17, <1>18, <1>19, <1>20, <1>21, <1>22, <1>23, <1>24, <1>25, <1>26, <1>27 DEF Next, Create, Save, Use, Delete, Leave

\* The intent to erase is committed first and stays.
LEMMA ErasingStep ==
    ASSUME TypeOK, ErasingInv, [Next]_vars
    PROVE  ErasingInv'
<1>. USE DEF TypeOK, ErasingInv, Steps, Guarded, Erasing, Gone, Removed, rowVars, procVars, envVars
<1>1. ASSUME NEW p \in Procs, StartCreate(p) PROVE ErasingInv'
  BY <1>1 DEF StartCreate, Start
<1>2. ASSUME NEW p \in Procs, Reserve(p) PROVE ErasingInv'
  BY <1>2 DEF Reserve, Goto
<1>3. ASSUME NEW p \in Procs, Inspect(p) PROVE ErasingInv'
  BY <1>3 DEF Inspect, Goto
<1>4. ASSUME NEW p \in Procs, LockSave(p) PROVE ErasingInv'
  BY <1>4 DEF LockSave, Goto, Take, Free
<1>5. ASSUME NEW p \in Procs, Settle(p) PROVE ErasingInv'
  BY <1>5 DEF Settle, Goto
<1>6. ASSUME NEW p \in Procs, SaveCheck(p) PROVE ErasingInv'
  BY <1>6 DEF SaveCheck, Goto, Savable
<1>7. ASSUME NEW p \in Procs, Put(p) PROVE ErasingInv'
  BY <1>7 DEF Put, Goto, Fault
<1>8. ASSUME NEW p \in Procs, Persist(p) PROVE ErasingInv'
  BY <1>8 DEF Persist, Goto, Bump, Persistable, NewPhase
<1>9. ASSUME NEW p \in Procs, StartWork(p) PROVE ErasingInv'
  BY <1>9 DEF StartWork, Start, Take, Free
<1>10. ASSUME NEW p \in Procs, StartRead(p) PROVE ErasingInv'
  BY <1>10 DEF StartRead, Start, Take, Free
<1>11. ASSUME NEW p \in Procs, Load(p) PROVE ErasingInv'
  BY <1>11 DEF Load, Goto, Loadable
<1>12. ASSUME NEW p \in Procs, Download(p) PROVE ErasingInv'
  BY <1>12 DEF Download, Goto, Fault
<1>13. ASSUME NEW p \in Procs, Compute(p) PROVE ErasingInv'
  BY <1>13 DEF Compute, Goto
<1>14. ASSUME NEW p \in Procs, StartPurge(p) PROVE ErasingInv'
  BY <1>14 DEF StartPurge, Start, Take, Free
<1>15. ASSUME NEW p \in Procs, ClaimPurge(p) PROVE ErasingInv'
  BY <1>15 DEF ClaimPurge, Goto, Bump, Purgeable
<1>16. ASSUME NEW p \in Procs, Erase(p) PROVE ErasingInv'
  BY <1>16 DEF Erase, Goto, Fault
<1>17. ASSUME NEW p \in Procs, Sweep(p) PROVE ErasingInv'
  BY <1>17 DEF Sweep, Goto, Fault
<1>18. ASSUME NEW p \in Procs, FinalizePurge(p) PROVE ErasingInv'
  BY <1>18 DEF FinalizePurge, Goto, Bump
<1>19. ASSUME NEW p \in Procs, StartRelease(p) PROVE ErasingInv'
  BY <1>19 DEF StartRelease, Start, Take, Free
<1>20. ASSUME NEW p \in Procs, ClaimRelease(p) PROVE ErasingInv'
  BY <1>20 DEF ClaimRelease, Goto, Releasable, Intent, ReleaseManifest, Recording
<1>21. ASSUME NEW p \in Procs, FinalizeRelease(p) PROVE ErasingInv'
  BY <1>21 DEF FinalizeRelease, Goto
<1>22. ASSUME NEW p \in Procs, Unlock(p) PROVE ErasingInv'
  BY <1>22 DEF Unlock, Goto
<1>23. ASSUME NEW p \in Procs, Close(p) PROVE ErasingInv'
  BY <1>23 DEF Close, End
<1>24. ASSUME NEW p \in Procs, Crash(p) PROVE ErasingInv'
  BY <1>24 DEF Crash, End
<1>25. ASSUME NEW p \in Procs, DropLock(p) PROVE ErasingInv'
  BY <1>25 DEF DropLock
<1>26. CASE SettleElsewhere BY <1>26 DEF SettleElsewhere
<1>27. CASE UNCHANGED vars BY <1>27 DEF vars
<1>. HIDE DEF TypeOK, ErasingInv, Steps, Guarded, Erasing, Gone, Removed
<1>. QED BY <1>1, <1>2, <1>3, <1>4, <1>5, <1>6, <1>7, <1>8, <1>9, <1>10, <1>11, <1>12, <1>13, <1>14, <1>15, <1>16, <1>17, <1>18, <1>19, <1>20, <1>21, <1>22, <1>23, <1>24, <1>25, <1>26, <1>27 DEF Next, Create, Save, Use, Delete, Leave

\* What a save has put is erased only where its persist must fail.
LEMMA SavingStep ==
    ASSUME TypeOK, ErasingInv, SavingInv, [Next]_vars
    PROVE  SavingInv'
<1>. USE DEF TypeOK, ErasingInv, SavingInv, Steps, Guarded, Erasing, Gone, Removed, rowVars, procVars, envVars
<1>1. ASSUME NEW p \in Procs, StartCreate(p) PROVE SavingInv'
  BY <1>1 DEF StartCreate, Start
<1>2. ASSUME NEW p \in Procs, Reserve(p) PROVE SavingInv'
  BY <1>2 DEF Reserve, Goto
<1>3. ASSUME NEW p \in Procs, Inspect(p) PROVE SavingInv'
  BY <1>3 DEF Inspect, Goto
<1>4. ASSUME NEW p \in Procs, LockSave(p) PROVE SavingInv'
  BY <1>4 DEF LockSave, Goto, Take, Free
<1>5. ASSUME NEW p \in Procs, Settle(p) PROVE SavingInv'
  BY <1>5 DEF Settle, Goto
<1>6. ASSUME NEW p \in Procs, SaveCheck(p) PROVE SavingInv'
  BY <1>6 DEF SaveCheck, Goto, Savable
<1>7. ASSUME NEW p \in Procs, Put(p) PROVE SavingInv'
  BY <1>7 DEF Put, Goto, Fault
<1>8. ASSUME NEW p \in Procs, Persist(p) PROVE SavingInv'
  BY <1>8 DEF Persist, Goto, Bump, Persistable, NewPhase
<1>9. ASSUME NEW p \in Procs, StartWork(p) PROVE SavingInv'
  BY <1>9 DEF StartWork, Start, Take, Free
<1>10. ASSUME NEW p \in Procs, StartRead(p) PROVE SavingInv'
  BY <1>10 DEF StartRead, Start, Take, Free
<1>11. ASSUME NEW p \in Procs, Load(p) PROVE SavingInv'
  BY <1>11 DEF Load, Goto, Loadable
<1>12. ASSUME NEW p \in Procs, Download(p) PROVE SavingInv'
  BY <1>12 DEF Download, Goto, Fault
<1>13. ASSUME NEW p \in Procs, Compute(p) PROVE SavingInv'
  BY <1>13 DEF Compute, Goto
<1>14. ASSUME NEW p \in Procs, StartPurge(p) PROVE SavingInv'
  BY <1>14 DEF StartPurge, Start, Take, Free
<1>15. ASSUME NEW p \in Procs, ClaimPurge(p) PROVE SavingInv'
  BY <1>15 DEF ClaimPurge, Goto, Bump, Purgeable
<1>16. ASSUME NEW p \in Procs, Erase(p) PROVE SavingInv'
  BY <1>16 DEF Erase, Goto, Fault
<1>17. ASSUME NEW p \in Procs, Sweep(p) PROVE SavingInv'
  BY <1>17 DEF Sweep, Goto, Fault
<1>18. ASSUME NEW p \in Procs, FinalizePurge(p) PROVE SavingInv'
  BY <1>18 DEF FinalizePurge, Goto, Bump
<1>19. ASSUME NEW p \in Procs, StartRelease(p) PROVE SavingInv'
  BY <1>19 DEF StartRelease, Start, Take, Free
<1>20. ASSUME NEW p \in Procs, ClaimRelease(p) PROVE SavingInv'
  BY <1>20 DEF ClaimRelease, Goto, Releasable, Intent
<1>21. ASSUME NEW p \in Procs, FinalizeRelease(p) PROVE SavingInv'
  BY <1>21 DEF FinalizeRelease, Goto
<1>22. ASSUME NEW p \in Procs, Unlock(p) PROVE SavingInv'
  BY <1>22 DEF Unlock, Goto
<1>23. ASSUME NEW p \in Procs, Close(p) PROVE SavingInv'
  BY <1>23 DEF Close, End
<1>24. ASSUME NEW p \in Procs, Crash(p) PROVE SavingInv'
  BY <1>24 DEF Crash, End
<1>25. ASSUME NEW p \in Procs, DropLock(p) PROVE SavingInv'
  BY <1>25 DEF DropLock
<1>26. CASE SettleElsewhere BY <1>26 DEF SettleElsewhere
<1>27. CASE UNCHANGED vars BY <1>27 DEF vars
<1>. HIDE DEF TypeOK, ErasingInv, SavingInv, Steps, Guarded, Erasing, Gone, Removed
<1>. QED BY <1>1, <1>2, <1>3, <1>4, <1>5, <1>6, <1>7, <1>8, <1>9, <1>10, <1>11, <1>12, <1>13, <1>14, <1>15, <1>16, <1>17, <1>18, <1>19, <1>20, <1>21, <1>22, <1>23, <1>24, <1>25, <1>26, <1>27 DEF Next, Create, Save, Use, Delete, Leave

\* Rows before the analysis exists and after its tombstone.
LEMMA RowStep ==
    ASSUME TypeOK, ErasingInv, RowInv, [Next]_vars
    PROVE  RowInv'
<1>. USE DEF TypeOK, ErasingInv, RowInv, Current, Erasing, Gone, Removed, rowVars, procVars, envVars
<1>1. ASSUME NEW p \in Procs, StartCreate(p) PROVE RowInv'
  BY <1>1 DEF StartCreate, Start
<1>2. ASSUME NEW p \in Procs, Reserve(p) PROVE RowInv'
  BY <1>2 DEF Reserve, Goto
<1>3. ASSUME NEW p \in Procs, Inspect(p) PROVE RowInv'
  BY <1>3 DEF Inspect, Goto
<1>4. ASSUME NEW p \in Procs, LockSave(p) PROVE RowInv'
  BY <1>4 DEF LockSave, Goto, Take, Free
<1>5. ASSUME NEW p \in Procs, Settle(p) PROVE RowInv'
  BY <1>5 DEF Settle, Goto
<1>6. ASSUME NEW p \in Procs, SaveCheck(p) PROVE RowInv'
  BY <1>6 DEF SaveCheck, Goto, Savable
<1>7. ASSUME NEW p \in Procs, Put(p) PROVE RowInv'
  BY <1>7 DEF Put, Goto, Fault
<1>8. ASSUME NEW p \in Procs, Persist(p) PROVE RowInv'
  BY <1>8 DEF Persist, Goto, Bump, Persistable, NewPhase
<1>9. ASSUME NEW p \in Procs, StartWork(p) PROVE RowInv'
  BY <1>9 DEF StartWork, Start, Take, Free
<1>10. ASSUME NEW p \in Procs, StartRead(p) PROVE RowInv'
  BY <1>10 DEF StartRead, Start, Take, Free
<1>11. ASSUME NEW p \in Procs, Load(p) PROVE RowInv'
  BY <1>11 DEF Load, Goto, Loadable
<1>12. ASSUME NEW p \in Procs, Download(p) PROVE RowInv'
  BY <1>12 DEF Download, Goto, Fault
<1>13. ASSUME NEW p \in Procs, Compute(p) PROVE RowInv'
  BY <1>13 DEF Compute, Goto
<1>14. ASSUME NEW p \in Procs, StartPurge(p) PROVE RowInv'
  BY <1>14 DEF StartPurge, Start, Take, Free
<1>15. ASSUME NEW p \in Procs, ClaimPurge(p) PROVE RowInv'
  BY <1>15 DEF ClaimPurge, Goto, Bump, Purgeable
<1>16. ASSUME NEW p \in Procs, Erase(p) PROVE RowInv'
  BY <1>16 DEF Erase, Goto, Fault
<1>17. ASSUME NEW p \in Procs, Sweep(p) PROVE RowInv'
  BY <1>17 DEF Sweep, Goto, Fault
<1>18. ASSUME NEW p \in Procs, FinalizePurge(p) PROVE RowInv'
  BY <1>18 DEF FinalizePurge, Goto, Bump
<1>19. ASSUME NEW p \in Procs, StartRelease(p) PROVE RowInv'
  BY <1>19 DEF StartRelease, Start, Take, Free
<1>20. ASSUME NEW p \in Procs, ClaimRelease(p) PROVE RowInv'
  BY <1>20 DEF ClaimRelease, Goto, Releasable, Intent
<1>21. ASSUME NEW p \in Procs, FinalizeRelease(p) PROVE RowInv'
  BY <1>21 DEF FinalizeRelease, Goto
<1>22. ASSUME NEW p \in Procs, Unlock(p) PROVE RowInv'
  BY <1>22 DEF Unlock, Goto
<1>23. ASSUME NEW p \in Procs, Close(p) PROVE RowInv'
  BY <1>23 DEF Close, End
<1>24. ASSUME NEW p \in Procs, Crash(p) PROVE RowInv'
  BY <1>24 DEF Crash, End
<1>25. ASSUME NEW p \in Procs, DropLock(p) PROVE RowInv'
  BY <1>25 DEF DropLock
<1>26. CASE SettleElsewhere BY <1>26 DEF SettleElsewhere
<1>27. CASE UNCHANGED vars BY <1>27 DEF vars
<1>. HIDE DEF TypeOK, ErasingInv, RowInv, Current, Erasing, Gone, Removed
<1>. QED BY <1>1, <1>2, <1>3, <1>4, <1>5, <1>6, <1>7, <1>8, <1>9, <1>10, <1>11, <1>12, <1>13, <1>14, <1>15, <1>16, <1>17, <1>18, <1>19, <1>20, <1>21, <1>22, <1>23, <1>24, <1>25, <1>26, <1>27 DEF Next, Create, Save, Use, Delete, Leave

\* What is offered stays at the provider.
LEMMA OfferedStep ==
    ASSUME TypeOK, ErasingInv, SavingInv, RowInv, OfferedBytesExist, [Next]_vars
    PROVE  OfferedBytesExist'
<1>. USE DEF TypeOK, ErasingInv, SavingInv, RowInv, OfferedBytesExist, Offered, Retained, Current, Erasing, Gone, Removed, rowVars, procVars, envVars
<1>1. ASSUME NEW p \in Procs, StartCreate(p) PROVE OfferedBytesExist'
  BY <1>1 DEF StartCreate, Start
<1>2. ASSUME NEW p \in Procs, Reserve(p) PROVE OfferedBytesExist'
  BY <1>2 DEF Reserve, Goto
<1>3. ASSUME NEW p \in Procs, Inspect(p) PROVE OfferedBytesExist'
  BY <1>3 DEF Inspect, Goto
<1>4. ASSUME NEW p \in Procs, LockSave(p) PROVE OfferedBytesExist'
  BY <1>4 DEF LockSave, Goto, Take, Free
<1>5. ASSUME NEW p \in Procs, Settle(p) PROVE OfferedBytesExist'
  BY <1>5 DEF Settle, Goto
<1>6. ASSUME NEW p \in Procs, SaveCheck(p) PROVE OfferedBytesExist'
  BY <1>6 DEF SaveCheck, Goto, Savable
<1>7. ASSUME NEW p \in Procs, Put(p) PROVE OfferedBytesExist'
  BY <1>7 DEF Put, Goto, Fault
<1>8. ASSUME NEW p \in Procs, Persist(p) PROVE OfferedBytesExist'
  BY <1>8 DEF Persist, Goto, Bump, Persistable, NewPhase
<1>9. ASSUME NEW p \in Procs, StartWork(p) PROVE OfferedBytesExist'
  BY <1>9 DEF StartWork, Start, Take, Free
<1>10. ASSUME NEW p \in Procs, StartRead(p) PROVE OfferedBytesExist'
  BY <1>10 DEF StartRead, Start, Take, Free
<1>11. ASSUME NEW p \in Procs, Load(p) PROVE OfferedBytesExist'
  BY <1>11 DEF Load, Goto, Loadable
<1>12. ASSUME NEW p \in Procs, Download(p) PROVE OfferedBytesExist'
  BY <1>12 DEF Download, Goto, Fault
<1>13. ASSUME NEW p \in Procs, Compute(p) PROVE OfferedBytesExist'
  BY <1>13 DEF Compute, Goto
<1>14. ASSUME NEW p \in Procs, StartPurge(p) PROVE OfferedBytesExist'
  BY <1>14 DEF StartPurge, Start, Take, Free
<1>15. ASSUME NEW p \in Procs, ClaimPurge(p) PROVE OfferedBytesExist'
  BY <1>15 DEF ClaimPurge, Goto, Bump, Purgeable
<1>16. ASSUME NEW p \in Procs, Erase(p) PROVE OfferedBytesExist'
  BY <1>16 DEF Erase, Goto, Fault
<1>17. ASSUME NEW p \in Procs, Sweep(p) PROVE OfferedBytesExist'
  BY <1>17 DEF Sweep, Goto, Fault
<1>18. ASSUME NEW p \in Procs, FinalizePurge(p) PROVE OfferedBytesExist'
  BY <1>18 DEF FinalizePurge, Goto, Bump
<1>19. ASSUME NEW p \in Procs, StartRelease(p) PROVE OfferedBytesExist'
  BY <1>19 DEF StartRelease, Start, Take, Free
<1>20. ASSUME NEW p \in Procs, ClaimRelease(p) PROVE OfferedBytesExist'
  BY <1>20 DEF ClaimRelease, Goto, Releasable, Intent
<1>21. ASSUME NEW p \in Procs, FinalizeRelease(p) PROVE OfferedBytesExist'
  BY <1>21 DEF FinalizeRelease, Goto
<1>22. ASSUME NEW p \in Procs, Unlock(p) PROVE OfferedBytesExist'
  BY <1>22 DEF Unlock, Goto
<1>23. ASSUME NEW p \in Procs, Close(p) PROVE OfferedBytesExist'
  BY <1>23 DEF Close, End
<1>24. ASSUME NEW p \in Procs, Crash(p) PROVE OfferedBytesExist'
  BY <1>24 DEF Crash, End
<1>25. ASSUME NEW p \in Procs, DropLock(p) PROVE OfferedBytesExist'
  BY <1>25 DEF DropLock
<1>26. CASE SettleElsewhere BY <1>26 DEF SettleElsewhere
<1>27. CASE UNCHANGED vars BY <1>27 DEF vars
<1>. HIDE DEF TypeOK, ErasingInv, SavingInv, RowInv, OfferedBytesExist, Offered, Retained, Current, Erasing, Gone, Removed
<1>. QED BY <1>1, <1>2, <1>3, <1>4, <1>5, <1>6, <1>7, <1>8, <1>9, <1>10, <1>11, <1>12, <1>13, <1>14, <1>15, <1>16, <1>17, <1>18, <1>19, <1>20, <1>21, <1>22, <1>23, <1>24, <1>25, <1>26, <1>27 DEF Next, Create, Save, Use, Delete, Leave

\* IInv holds in every reachable state.
THEOREM Invariance == Spec => []IInv
<1>1. ASSUME Init PROVE IInv
  <2>. USE <1>1 DEF Init
  <2>1. TypeOK BY DEF TypeOK, Steps, Objects, Recording
  <2>2. ErasingInv /\ SavingInv BY DEF ErasingInv, SavingInv, Erasing
  <2>3. RowInv /\ OfferedBytesExist BY DEF RowInv, OfferedBytesExist, Offered, Current, Gone
  <2>. QED BY <2>1, <2>2, <2>3 DEF IInv
<1>2. ASSUME IInv, [Next]_vars PROVE IInv'
  BY <1>2, TypeOKStep, ErasingStep, SavingStep, RowStep, OfferedStep DEF IInv
<1>. QED BY <1>1, <1>2, PTL DEF Spec

\* Every variable keeps its type.
THEOREM TypeCorrect == Spec => []TypeOK
BY Invariance, PTL DEF IInv

\* What a live match offers has its bytes (save_job, persist_job and both
\* deletions together).
THEOREM OfferedTheorem == Spec => []OfferedBytesExist
BY Invariance, PTL DEF IInv

\* No step takes a deletion back.
LEMMA TombstoneStep ==
    ASSUME TypeOK, ErasingInv, RowInv, life \in Gone, [Next]_vars
    PROVE  NothingReturns
<1>. USE DEF TypeOK, ErasingInv, RowInv, NothingReturns, Gone, Removed, Erasing, rowVars, procVars, envVars
<1>1. ASSUME NEW p \in Procs, StartCreate(p) PROVE NothingReturns
  BY <1>1 DEF StartCreate, Start
<1>2. ASSUME NEW p \in Procs, Reserve(p) PROVE NothingReturns
  BY <1>2 DEF Reserve, Goto
<1>3. ASSUME NEW p \in Procs, Inspect(p) PROVE NothingReturns
  BY <1>3 DEF Inspect, Goto
<1>4. ASSUME NEW p \in Procs, LockSave(p) PROVE NothingReturns
  BY <1>4 DEF LockSave, Goto, Take, Free
<1>5. ASSUME NEW p \in Procs, Settle(p) PROVE NothingReturns
  BY <1>5 DEF Settle, Goto
<1>6. ASSUME NEW p \in Procs, SaveCheck(p) PROVE NothingReturns
  BY <1>6 DEF SaveCheck, Goto, Savable
<1>7. ASSUME NEW p \in Procs, Put(p) PROVE NothingReturns
  BY <1>7 DEF Put, Goto, Fault
<1>8. ASSUME NEW p \in Procs, Persist(p) PROVE NothingReturns
  BY <1>8 DEF Persist, Goto, Bump, Persistable, NewPhase
<1>9. ASSUME NEW p \in Procs, StartWork(p) PROVE NothingReturns
  BY <1>9 DEF StartWork, Start, Take, Free
<1>10. ASSUME NEW p \in Procs, StartRead(p) PROVE NothingReturns
  BY <1>10 DEF StartRead, Start, Take, Free
<1>11. ASSUME NEW p \in Procs, Load(p) PROVE NothingReturns
  BY <1>11 DEF Load, Goto, Loadable
<1>12. ASSUME NEW p \in Procs, Download(p) PROVE NothingReturns
  BY <1>12 DEF Download, Goto, Fault
<1>13. ASSUME NEW p \in Procs, Compute(p) PROVE NothingReturns
  BY <1>13 DEF Compute, Goto
<1>14. ASSUME NEW p \in Procs, StartPurge(p) PROVE NothingReturns
  BY <1>14 DEF StartPurge, Start, Take, Free
<1>15. ASSUME NEW p \in Procs, ClaimPurge(p) PROVE NothingReturns
  BY <1>15 DEF ClaimPurge, Goto, Bump, Purgeable
<1>16. ASSUME NEW p \in Procs, Erase(p) PROVE NothingReturns
  BY <1>16 DEF Erase, Goto, Fault
<1>17. ASSUME NEW p \in Procs, Sweep(p) PROVE NothingReturns
  BY <1>17 DEF Sweep, Goto, Fault
<1>18. ASSUME NEW p \in Procs, FinalizePurge(p) PROVE NothingReturns
  BY <1>18 DEF FinalizePurge, Goto, Bump
<1>19. ASSUME NEW p \in Procs, StartRelease(p) PROVE NothingReturns
  BY <1>19 DEF StartRelease, Start, Take, Free
<1>20. ASSUME NEW p \in Procs, ClaimRelease(p) PROVE NothingReturns
  BY <1>20 DEF ClaimRelease, Goto, Releasable, Intent
<1>21. ASSUME NEW p \in Procs, FinalizeRelease(p) PROVE NothingReturns
  BY <1>21 DEF FinalizeRelease, Goto
<1>22. ASSUME NEW p \in Procs, Unlock(p) PROVE NothingReturns
  BY <1>22 DEF Unlock, Goto
<1>23. ASSUME NEW p \in Procs, Close(p) PROVE NothingReturns
  BY <1>23 DEF Close, End
<1>24. ASSUME NEW p \in Procs, Crash(p) PROVE NothingReturns
  BY <1>24 DEF Crash, End
<1>25. ASSUME NEW p \in Procs, DropLock(p) PROVE NothingReturns
  BY <1>25 DEF DropLock
<1>26. CASE SettleElsewhere BY <1>26 DEF SettleElsewhere
<1>27. CASE UNCHANGED vars BY <1>27 DEF vars
<1>. HIDE DEF TypeOK, ErasingInv, RowInv, NothingReturns, Gone, Removed, Erasing
<1>. QED BY <1>1, <1>2, <1>3, <1>4, <1>5, <1>6, <1>7, <1>8, <1>9, <1>10, <1>11, <1>12, <1>13, <1>14, <1>15, <1>16, <1>17, <1>18, <1>19, <1>20, <1>21, <1>22, <1>23, <1>24, <1>25, <1>26, <1>27 DEF Next, Create, Save, Use, Delete, Leave

\* A committed deletion is final (match_lifecycle.py, persist_job).
THEOREM TombstoneTheorem == Spec => TombstoneIsFinal
<1>1. ASSUME IInv, [Next]_vars PROVE [(life \in Gone) => NothingReturns]_vars
  BY <1>1, TombstoneStep DEF IInv
<1>. QED BY <1>1, Invariance, PTL DEF Spec, TombstoneIsFinal


\* The promise sees the rows and the provider only.
LEMMA Unseen ==
    ASSUME UNCHANGED <<life, video, registry, store>>
    PROVE  UNCHANGED Promise!promiseVars
BY DEF Promise!promiseVars, Offered, Retained, Current

\* Every step is one the promise allows, or is not seen.
LEMMA PromisedStep ==
    ASSUME IInv, [Next]_vars
    PROVE  [Promise!Next]_(Promise!promiseVars)
<1>. DEFINE Kept == [Promise!Next]_(Promise!promiseVars)
<1>. USE DEF rowVars, procVars, envVars
<1>1. ASSUME NEW p \in Procs, Reserve(p) PROVE Kept
  <2>1. Offered = {} /\ Offered' = {} BY <1>1 DEF IInv, RowInv, Reserve, Offered, Retained, Current, Gone, Removed
  <2>. QED BY <1>1, <2>1 DEF Reserve, Gone, Promise!promiseVars
<1>2. ASSUME NEW p \in Procs, Put(p) PROVE Kept
  <2>1. UNCHANGED <<life, video, registry>> BY <1>2 DEF Put
  <2>2. Offered' = Offered /\ (life \in Gone)' = (life \in Gone) BY <2>1 DEF Offered, Retained, Current
  <2>3. CASE UNCHANGED store BY <2>1, <2>3, Unseen
  <2>4. CASE \E o \in Objects : store' = store \union {o}
    BY <2>2, <2>4 DEF Promise!Next, Promise!Keep
  <2>5. local[p] \subseteq Objects BY DEF IInv, TypeOK
  <2>. QED BY <1>2, <2>3, <2>4, <2>5 DEF Put
<1>3. ASSUME NEW p \in Procs, Persist(p) PROVE Kept
  <2>1. CASE ~Persistable(p)
    <3>. UNCHANGED <<life, video, registry, store>> BY <1>3, <2>1 DEF Persist
    <3>. QED BY Unseen
  <2>2. CASE Persistable(p)
    <3>1. UNCHANGED <<life, store>> /\ life = "live" BY <1>3, <2>2 DEF Persist, Persistable
    <3>2. Offered' \subseteq Objects BY DEF Offered, Retained, Current
    <3>3. todo[p] \subseteq store BY <1>3, <2>2 DEF IInv, SavingInv, Persist, Persistable
    <3>4. Offered \subseteq store /\ Offered = Current
      BY <2>2, <3>1 DEF IInv, OfferedBytesExist, Offered, Retained, Persistable
    <3>5. Current' \subseteq Current \union todo[p] BY <1>3, <2>2 DEF Persist, Current
    <3>6. Offered' \subseteq Current' BY DEF Offered, Retained
    <3>7. Promise!Offer(Offered') BY <3>1, <3>3, <3>4, <3>5, <3>6 DEF Promise!Offer, Gone
    <3>. QED BY <3>2, <3>7 DEF Promise!Next
  <2>. QED BY <2>1, <2>2
<1>4. ASSUME NEW p \in Procs, ClaimPurge(p) PROVE Kept
  <2>1. CASE ~Purgeable
    BY <1>4, <2>1, Unseen DEF ClaimPurge
  <2>2. CASE Purgeable
    <3>1. life' \in Gone /\ Offered' = {} /\ UNCHANGED store BY <1>4, <2>2 DEF ClaimPurge, Offered, Gone
    <3>2. Promise!CloseMatch BY <3>1 DEF Promise!CloseMatch
    <3>. QED BY <3>2 DEF Promise!Next
  <2>. QED BY <2>1, <2>2
<1>5. ASSUME NEW p \in Procs, Erase(p) PROVE Kept
  <2>1. UNCHANGED <<life, video, registry>> BY <1>5 DEF Erase
  <2>2. Offered' = Offered /\ (life \in Gone)' = (life \in Gone) BY <2>1 DEF Offered, Retained, Current
  <2>3. CASE UNCHANGED store BY <2>1, <2>3, Unseen
  <2>4. ASSUME NEW o \in todo[p], store' = store \ {o} PROVE Kept
    <3>1. o \in Objects BY DEF IInv, TypeOK
    <3>2. o \notin Offered BY <1>5 DEF IInv, ErasingInv, Erasing, Erase, Offered, Retained, Gone
    <3>3. Promise!Destroy(o) BY <2>2, <2>4, <3>2 DEF Promise!Destroy
    <3>. QED BY <3>1, <3>3 DEF Promise!Next
  <2>. QED BY <1>5, <2>3, <2>4 DEF Erase
<1>6. ASSUME NEW p \in Procs, FinalizePurge(p) PROVE Kept
  <2>1. life \in Gone /\ life' \in Gone /\ UNCHANGED store BY <1>6 DEF IInv, ErasingInv, Erasing, FinalizePurge, Gone
  <2>2. Offered = {} /\ Offered' = {} BY <2>1 DEF Offered, Gone
  <2>. QED BY <2>1, <2>2 DEF Promise!promiseVars
<1>7. ASSUME NEW p \in Procs, ClaimRelease(p) PROVE Kept
  <2>1. CASE ~Releasable BY <1>7, <2>1, Unseen DEF ClaimRelease
  <2>2. CASE Releasable
    <3>1. UNCHANGED <<life, registry, store>> /\ video' = "deleting" BY <1>7, <2>2 DEF ClaimRelease, Intent
    <3>2. Offered' = Offered \ Recording BY <3>1 DEF Offered, Retained, Current, Removed
    <3>3. Promise!Withdraw(Recording) BY <3>1, <3>2 DEF Promise!Withdraw
    <3>. QED BY <3>3 DEF Promise!Next, Objects
  <2>. QED BY <2>1, <2>2
<1>8. ASSUME NEW p \in Procs, FinalizeRelease(p) PROVE Kept
  <2>1. UNCHANGED <<life, store>> /\ video' \in Removed BY <1>8 DEF FinalizeRelease, Removed
  <2>2. life = "live" => video \in Removed BY <1>8 DEF IInv, ErasingInv, Erasing, FinalizeRelease, Gone
  <2>3. Current' \ Recording = Current \ Recording BY <1>8 DEF FinalizeRelease, Current, Registered, Objects
  <2>4. Offered' = Offered BY <2>1, <2>2, <2>3 DEF Offered, Retained
  <2>. QED BY <2>1, <2>4 DEF Promise!promiseVars
<1>9. ASSUME NEW p \in Procs,
              \/ StartCreate(p) \/ Inspect(p) \/ LockSave(p) \/ Settle(p) \/ SaveCheck(p)
              \/ StartWork(p) \/ StartRead(p) \/ Load(p) \/ Download(p) \/ Compute(p)
              \/ StartPurge(p) \/ Sweep(p) \/ StartRelease(p) \/ Unlock(p) \/ Close(p)
              \/ Crash(p) \/ DropLock(p)
       PROVE  Kept
  <2>1. UNCHANGED <<life, video, registry, store>>
    BY <1>9 DEF StartCreate, Inspect, LockSave, Settle, SaveCheck, StartWork, StartRead, Load, Download, Compute, StartPurge, Sweep, StartRelease, Unlock, Close, Crash, DropLock
  <2>. QED BY <2>1, Unseen
<1>10. CASE SettleElsewhere BY <1>10, Unseen DEF SettleElsewhere
<1>11. CASE UNCHANGED vars BY <1>11, Unseen DEF vars
<1>. QED BY <1>1, <1>2, <1>3, <1>4, <1>5, <1>6, <1>7, <1>8, <1>9, <1>10, <1>11 DEF Next, Create, Save, Use, Delete, Leave

\* The code keeps the promise of RetentionPromise.
THEOREM RetentionRefinement == Spec => KeepsRetentionPromise
<1>1. ASSUME Init PROVE Promise!Init
  BY <1>1 DEF Init, Promise!Init, Offered, Gone, Objects, Recording
<1>. QED BY <1>1, PromisedStep, Invariance, PTL DEF Spec, KeepsRetentionPromise, Promise!Spec

-----------------------------------------------------------------------------
(* Deletions erase everything they report erased, for any processes,       *)
(* versions, failures and deaths, as long as no connection loses the media *)
(* lock.                                                                   *)

\* A lock that is lost is counted for ever.
LEMMA DropsGrow ==
    ASSUME TypeOK, [Next]_vars, drops' = 0
    PROVE  drops = 0 /\ \A p \in Procs : ~DropLock(p)
BY DEF TypeOK, Next, Create, Save, Use, Delete, Leave, vars, envVars, DropLock, Fault,
       StartCreate, Reserve, Inspect, LockSave, Settle, SettleElsewhere, SaveCheck, Put,
       Persist, StartWork, StartRead, Load, Download, Compute, StartPurge, ClaimPurge,
       Erase, Sweep, FinalizePurge, StartRelease, ClaimRelease, FinalizeRelease,
       Unlock, Close, Crash

\* A save that passed its check may rely on it.
LEMMA Held ==
    ASSUME CheckedInv, NEW p \in Procs, pc[p] \in {"put", "persist", "compute"}
    PROVE  life = "live" /\ video \notin Removed
BY DEF CheckedInv

\* The media lock excludes, from its taking to its release.
LEMMA LockStep ==
    ASSUME TypeOK, drops = 0, drops' = 0, LockInv, [Next]_vars
    PROVE  LockInv'
<1>. USE DEF LockInv, Guarded, Erasing, Steps, TypeOK, rowVars, procVars, envVars
<1>1. ASSUME NEW p \in Procs, StartCreate(p) PROVE LockInv'
  BY <1>1 DEF StartCreate, Start
<1>2. ASSUME NEW p \in Procs, Reserve(p) PROVE LockInv'
  BY <1>2 DEF Reserve, Goto
<1>3. ASSUME NEW p \in Procs, Inspect(p) PROVE LockInv'
  BY <1>3 DEF Inspect, Goto
<1>4. ASSUME NEW p \in Procs, LockSave(p) PROVE LockInv'
  BY <1>4 DEF LockSave, Goto, Take, Free
<1>5. ASSUME NEW p \in Procs, Settle(p) PROVE LockInv'
  BY <1>5 DEF Settle, Goto
<1>6. ASSUME NEW p \in Procs, SaveCheck(p) PROVE LockInv'
  BY <1>6 DEF SaveCheck, Goto, Savable
<1>7. ASSUME NEW p \in Procs, Put(p) PROVE LockInv'
  BY <1>7 DEF Put, Goto, Fault
<1>8. ASSUME NEW p \in Procs, Persist(p) PROVE LockInv'
  BY <1>8 DEF Persist, Goto, Bump, Persistable, NewPhase
<1>9. ASSUME NEW p \in Procs, StartWork(p) PROVE LockInv'
  BY <1>9 DEF StartWork, Start, Take, Free
<1>10. ASSUME NEW p \in Procs, StartRead(p) PROVE LockInv'
  BY <1>10 DEF StartRead, Start, Take, Free
<1>11. ASSUME NEW p \in Procs, Load(p) PROVE LockInv'
  BY <1>11 DEF Load, Goto, Loadable
<1>12. ASSUME NEW p \in Procs, Download(p) PROVE LockInv'
  BY <1>12 DEF Download, Goto, Fault
<1>13. ASSUME NEW p \in Procs, Compute(p) PROVE LockInv'
  BY <1>13 DEF Compute, Goto
<1>14. ASSUME NEW p \in Procs, StartPurge(p) PROVE LockInv'
  BY <1>14 DEF StartPurge, Start, Take, Free
<1>15. ASSUME NEW p \in Procs, ClaimPurge(p) PROVE LockInv'
  BY <1>15 DEF ClaimPurge, Goto, Bump, Purgeable
<1>16. ASSUME NEW p \in Procs, Erase(p) PROVE LockInv'
  BY <1>16 DEF Erase, Goto, Fault
<1>17. ASSUME NEW p \in Procs, Sweep(p) PROVE LockInv'
  BY <1>17 DEF Sweep, Goto, Fault
<1>18. ASSUME NEW p \in Procs, FinalizePurge(p) PROVE LockInv'
  BY <1>18 DEF FinalizePurge, Goto, Bump
<1>19. ASSUME NEW p \in Procs, StartRelease(p) PROVE LockInv'
  BY <1>19 DEF StartRelease, Start, Take, Free
<1>20. ASSUME NEW p \in Procs, ClaimRelease(p) PROVE LockInv'
  BY <1>20 DEF ClaimRelease, Goto, Releasable, Intent
<1>21. ASSUME NEW p \in Procs, FinalizeRelease(p) PROVE LockInv'
  BY <1>21 DEF FinalizeRelease, Goto
<1>22. ASSUME NEW p \in Procs, Unlock(p) PROVE LockInv'
  BY <1>22 DEF Unlock, Goto
<1>23. ASSUME NEW p \in Procs, Close(p) PROVE LockInv'
  BY <1>23 DEF Close, End
<1>24. ASSUME NEW p \in Procs, Crash(p) PROVE LockInv'
  BY <1>24 DEF Crash, End
<1>25. ASSUME NEW p \in Procs, DropLock(p) PROVE LockInv'
  BY <1>25, DropsGrow
<1>26. CASE SettleElsewhere BY <1>26 DEF SettleElsewhere
<1>27. CASE UNCHANGED vars BY <1>27 DEF vars
<1>. HIDE DEF LockInv, Guarded, Erasing, Steps, TypeOK
<1>. QED BY <1>1, <1>2, <1>3, <1>4, <1>5, <1>6, <1>7, <1>8, <1>9, <1>10, <1>11, <1>12, <1>13, <1>14, <1>15, <1>16, <1>17, <1>18, <1>19, <1>20, <1>21, <1>22, <1>23, <1>24, <1>25, <1>26, <1>27 DEF Next, Create, Save, Use, Delete, Leave

\* What was checked under the lock stays so.
LEMMA CheckedStep ==
    ASSUME TypeOK, drops = 0, drops' = 0, ErasingInv, LockInv, CheckedInv, [Next]_vars
    PROVE  CheckedInv'
<1>. USE DEF ErasingInv, LockInv, CheckedInv, Gone, Removed, Guarded, Erasing, Steps, TypeOK, rowVars, procVars, envVars
<1>1. ASSUME NEW p \in Procs, StartCreate(p) PROVE CheckedInv'
  BY <1>1 DEF StartCreate, Start
<1>2. ASSUME NEW p \in Procs, Reserve(p) PROVE CheckedInv'
  BY <1>2 DEF Reserve, Goto
<1>3. ASSUME NEW p \in Procs, Inspect(p) PROVE CheckedInv'
  BY <1>3 DEF Inspect, Goto
<1>4. ASSUME NEW p \in Procs, LockSave(p) PROVE CheckedInv'
  BY <1>4 DEF LockSave, Goto, Take, Free
<1>5. ASSUME NEW p \in Procs, Settle(p) PROVE CheckedInv'
  BY <1>5 DEF Settle, Goto
<1>6. ASSUME NEW p \in Procs, SaveCheck(p) PROVE CheckedInv'
  BY <1>6 DEF SaveCheck, Goto, Savable
<1>7. ASSUME NEW p \in Procs, Put(p) PROVE CheckedInv'
  BY <1>7 DEF Put, Goto, Fault
<1>8. ASSUME NEW p \in Procs, Persist(p) PROVE CheckedInv'
  BY <1>8 DEF Persist, Goto, Bump, Persistable, NewPhase
<1>9. ASSUME NEW p \in Procs, StartWork(p) PROVE CheckedInv'
  BY <1>9 DEF StartWork, Start, Take, Free
<1>10. ASSUME NEW p \in Procs, StartRead(p) PROVE CheckedInv'
  BY <1>10 DEF StartRead, Start, Take, Free
<1>11. ASSUME NEW p \in Procs, Load(p) PROVE CheckedInv'
  <2>1. \A S \in {Retained} \union (IF op[p] = "read" THEN {{o} : o \in Retained} ELSE {}) : S \subseteq Retained OBVIOUS
  <2>2. todo' = todo \/ \E S \in SUBSET Retained : todo' = [todo EXCEPT ![p] = S] BY <1>11, <2>1 DEF Load
  <2>3. video \in Removed => Retained \intersect Recording = {} BY DEF Retained
  <2>4. pc'[p] = "download" => todo'[p] \subseteq Retained /\ life = "live" /\ (op[p] = "work" => video \notin Removed)
    <3>1. CASE ~Loadable(p) BY <1>11, <3>1 DEF Load, Goto
    <3>2. CASE Loadable(p)
      <4>1. PICK S \in SUBSET Retained : todo' = [todo EXCEPT ![p] = S] BY <1>11, <2>1, <3>2 DEF Load
      <4>. QED BY <4>1, <3>2 DEF Loadable
    <3>. QED BY <3>1, <3>2
  <2>5. \A q \in Procs \ {p} : todo'[q] = todo[q] /\ pc'[q] = pc[q] BY <1>11 DEF Load, Goto
  <2>. QED BY <1>11, <2>3, <2>4, <2>5 DEF Load, Goto
<1>12. ASSUME NEW p \in Procs, Download(p) PROVE CheckedInv'
  BY <1>12 DEF Download, Goto, Fault
<1>13. ASSUME NEW p \in Procs, Compute(p) PROVE CheckedInv'
  BY <1>13 DEF Compute, Goto
<1>14. ASSUME NEW p \in Procs, StartPurge(p) PROVE CheckedInv'
  BY <1>14 DEF StartPurge, Start, Take, Free
<1>15. ASSUME NEW p \in Procs, ClaimPurge(p) PROVE CheckedInv'
  BY <1>15 DEF ClaimPurge, Goto, Bump, Purgeable
<1>16. ASSUME NEW p \in Procs, Erase(p) PROVE CheckedInv'
  BY <1>16 DEF Erase, Goto, Fault
<1>17. ASSUME NEW p \in Procs, Sweep(p) PROVE CheckedInv'
  BY <1>17 DEF Sweep, Goto, Fault
<1>18. ASSUME NEW p \in Procs, FinalizePurge(p) PROVE CheckedInv'
  BY <1>18 DEF FinalizePurge, Goto, Bump
<1>19. ASSUME NEW p \in Procs, StartRelease(p) PROVE CheckedInv'
  BY <1>19 DEF StartRelease, Start, Take, Free
<1>20. ASSUME NEW p \in Procs, ClaimRelease(p) PROVE CheckedInv'
  BY <1>20 DEF ClaimRelease, Goto, Releasable, Intent
<1>21. ASSUME NEW p \in Procs, FinalizeRelease(p) PROVE CheckedInv'
  BY <1>21 DEF FinalizeRelease, Goto
<1>22. ASSUME NEW p \in Procs, Unlock(p) PROVE CheckedInv'
  BY <1>22 DEF Unlock, Goto
<1>23. ASSUME NEW p \in Procs, Close(p) PROVE CheckedInv'
  BY <1>23 DEF Close, End
<1>24. ASSUME NEW p \in Procs, Crash(p) PROVE CheckedInv'
  BY <1>24 DEF Crash, End
<1>25. ASSUME NEW p \in Procs, DropLock(p) PROVE CheckedInv'
  BY <1>25, DropsGrow
<1>26. CASE SettleElsewhere BY <1>26 DEF SettleElsewhere
<1>27. CASE UNCHANGED vars BY <1>27 DEF vars
<1>. HIDE DEF ErasingInv, LockInv, CheckedInv, Gone, Removed, Guarded, Erasing, Steps, TypeOK
<1>. QED BY <1>1, <1>2, <1>3, <1>4, <1>5, <1>6, <1>7, <1>8, <1>9, <1>10, <1>11, <1>12, <1>13, <1>14, <1>15, <1>16, <1>17, <1>18, <1>19, <1>20, <1>21, <1>22, <1>23, <1>24, <1>25, <1>26, <1>27 DEF Next, Create, Save, Use, Delete, Leave

\* A manifest lists all that is left to erase.
LEMMA ManifestStep ==
    ASSUME TypeOK, drops = 0, drops' = 0, ErasingInv, LockInv, CheckedInv, ManifestInv, [Next]_vars
    PROVE  ManifestInv'
<1>. USE DEF ErasingInv, LockInv, CheckedInv, ManifestInv, Doomed, NoCopies, Registered, Gone, Removed, Guarded, Erasing, Steps, TypeOK, rowVars, procVars, envVars
<1>1. ASSUME NEW p \in Procs, StartCreate(p) PROVE ManifestInv'
  BY <1>1 DEF StartCreate, Start
<1>2. ASSUME NEW p \in Procs, Reserve(p) PROVE ManifestInv'
  BY <1>2 DEF Reserve, Goto
<1>3. ASSUME NEW p \in Procs, Inspect(p) PROVE ManifestInv'
  <2>1. Documents \intersect Recording = {} BY MediaAssumption DEF Recording
  <2>2. \A q \in Procs : local'[q] \intersect Recording = local[q] \intersect Recording BY <1>3, <2>1 DEF Inspect
  <2>. QED BY <1>3, <2>2 DEF Inspect, Goto
<1>4. ASSUME NEW p \in Procs, LockSave(p) PROVE ManifestInv'
  BY <1>4 DEF LockSave, Goto, Take, Free
<1>5. ASSUME NEW p \in Procs, Settle(p) PROVE ManifestInv'
  BY <1>5 DEF Settle, Goto
<1>6. ASSUME NEW p \in Procs, SaveCheck(p) PROVE ManifestInv'
  BY <1>6 DEF SaveCheck, Goto, Savable
<1>7. ASSUME NEW p \in Procs, Put(p) PROVE ManifestInv'
  BY <1>7 DEF Put, Goto, Fault
<1>8. ASSUME NEW p \in Procs, Persist(p) PROVE ManifestInv'
  BY <1>8 DEF Persist, Goto, Bump, Persistable, NewPhase
<1>9. ASSUME NEW p \in Procs, StartWork(p) PROVE ManifestInv'
  BY <1>9 DEF StartWork, Start, Take, Free
<1>10. ASSUME NEW p \in Procs, StartRead(p) PROVE ManifestInv'
  BY <1>10 DEF StartRead, Start, Take, Free
<1>11. ASSUME NEW p \in Procs, Load(p) PROVE ManifestInv'
  BY <1>11 DEF Load, Goto, Loadable
<1>12. ASSUME NEW p \in Procs, Download(p) PROVE ManifestInv'
  BY <1>12 DEF Download, Goto, Fault
<1>13. ASSUME NEW p \in Procs, Compute(p) PROVE ManifestInv'
  BY <1>13 DEF Compute, Goto
<1>14. ASSUME NEW p \in Procs, StartPurge(p) PROVE ManifestInv'
  BY <1>14 DEF StartPurge, Start, Take, Free
<1>15. ASSUME NEW p \in Procs, ClaimPurge(p) PROVE ManifestInv'
  BY <1>15 DEF ClaimPurge, Goto, Bump, Purgeable, PurgeManifest
<1>16. ASSUME NEW p \in Procs, Erase(p) PROVE ManifestInv'
  BY <1>16 DEF Erase, Goto, Fault
<1>17. ASSUME NEW p \in Procs, Sweep(p) PROVE ManifestInv'
  BY <1>17 DEF Sweep, Goto, Fault, Swept, Recording, Objects
<1>18. ASSUME NEW p \in Procs, FinalizePurge(p) PROVE ManifestInv'
  BY <1>18 DEF FinalizePurge, Goto, Bump
<1>19. ASSUME NEW p \in Procs, StartRelease(p) PROVE ManifestInv'
  BY <1>19 DEF StartRelease, Start, Take, Free
<1>20. ASSUME NEW p \in Procs, ClaimRelease(p) PROVE ManifestInv'
  BY <1>20 DEF ClaimRelease, Goto, Releasable, Intent, ReleaseManifest, Recording
<1>21. ASSUME NEW p \in Procs, FinalizeRelease(p) PROVE ManifestInv'
  BY <1>21 DEF FinalizeRelease, Goto
<1>22. ASSUME NEW p \in Procs, Unlock(p) PROVE ManifestInv'
  BY <1>22 DEF Unlock, Goto
<1>23. ASSUME NEW p \in Procs, Close(p) PROVE ManifestInv'
  BY <1>23 DEF Close, End
<1>24. ASSUME NEW p \in Procs, Crash(p) PROVE ManifestInv'
  BY <1>24 DEF Crash, End
<1>25. ASSUME NEW p \in Procs, DropLock(p) PROVE ManifestInv'
  BY <1>25, DropsGrow
<1>26. CASE SettleElsewhere BY <1>26 DEF SettleElsewhere
<1>27. CASE UNCHANGED vars BY <1>27 DEF vars
<1>. HIDE DEF ErasingInv, LockInv, CheckedInv, ManifestInv, Doomed, NoCopies, Registered, Gone, Removed, Guarded, Erasing, Steps, TypeOK
<1>. QED BY <1>1, <1>2, <1>3, <1>4, <1>5, <1>6, <1>7, <1>8, <1>9, <1>10, <1>11, <1>12, <1>13, <1>14, <1>15, <1>16, <1>17, <1>18, <1>19, <1>20, <1>21, <1>22, <1>23, <1>24, <1>25, <1>26, <1>27 DEF Next, Create, Save, Use, Delete, Leave

\* Nothing of a deleted recording returns.
LEMMA RecordingStep ==
    ASSUME TypeOK, drops = 0, drops' = 0, ErasingInv, LockInv, CheckedInv, ManifestInv, RecordingDeletedEverywhere, [Next]_vars
    PROVE  RecordingDeletedEverywhere'
<1>. USE DEF ErasingInv, LockInv, CheckedInv, ManifestInv, RecordingDeletedEverywhere, Doomed, NoCopies, Recording, Gone, Removed, Guarded, Erasing, Steps, TypeOK, rowVars, procVars, envVars
<1>1. ASSUME NEW p \in Procs, StartCreate(p) PROVE RecordingDeletedEverywhere'
  BY <1>1 DEF StartCreate, Start
<1>2. ASSUME NEW p \in Procs, Reserve(p) PROVE RecordingDeletedEverywhere'
  BY <1>2 DEF Reserve, Goto
<1>3. ASSUME NEW p \in Procs, Inspect(p) PROVE RecordingDeletedEverywhere'
  <2>1. Documents \intersect Recording = {} BY MediaAssumption DEF Recording
  <2>2. \A q \in Procs : local'[q] \intersect Recording = local[q] \intersect Recording BY <1>3, <2>1 DEF Inspect
  <2>. QED BY <1>3, <2>2 DEF Inspect, Goto
<1>4. ASSUME NEW p \in Procs, LockSave(p) PROVE RecordingDeletedEverywhere'
  BY <1>4 DEF LockSave, Goto, Take, Free
<1>5. ASSUME NEW p \in Procs, Settle(p) PROVE RecordingDeletedEverywhere'
  BY <1>5 DEF Settle, Goto
<1>6. ASSUME NEW p \in Procs, SaveCheck(p) PROVE RecordingDeletedEverywhere'
  BY <1>6 DEF SaveCheck, Goto, Savable
<1>7. ASSUME NEW p \in Procs, Put(p) PROVE RecordingDeletedEverywhere'
  <2>1. pc[p] = "put" /\ UNCHANGED <<life, video>> BY ONLY <1>7 DEF Put, rowVars
  <2>2. life = "live" /\ video \notin Removed BY <2>1, Held
  <2>. QED BY <2>1, <2>2
<1>8. ASSUME NEW p \in Procs, Persist(p) PROVE RecordingDeletedEverywhere'
  BY <1>8 DEF Persist, Goto, Bump, Persistable, NewPhase
<1>9. ASSUME NEW p \in Procs, StartWork(p) PROVE RecordingDeletedEverywhere'
  BY <1>9 DEF StartWork, Start, Take, Free
<1>10. ASSUME NEW p \in Procs, StartRead(p) PROVE RecordingDeletedEverywhere'
  BY <1>10 DEF StartRead, Start, Take, Free
<1>11. ASSUME NEW p \in Procs, Load(p) PROVE RecordingDeletedEverywhere'
  BY <1>11 DEF Load, Goto, Loadable
<1>12. ASSUME NEW p \in Procs, Download(p) PROVE RecordingDeletedEverywhere'
  BY <1>12 DEF Download, Goto, Fault
<1>13. ASSUME NEW p \in Procs, Compute(p) PROVE RecordingDeletedEverywhere'
  <2>1. pc[p] = "compute" /\ UNCHANGED <<life, video>> BY ONLY <1>13 DEF Compute, rowVars
  <2>2. life = "live" /\ video \notin Removed BY <2>1, Held
  <2>. QED BY <2>1, <2>2
<1>14. ASSUME NEW p \in Procs, StartPurge(p) PROVE RecordingDeletedEverywhere'
  BY <1>14 DEF StartPurge, Start, Take, Free
<1>15. ASSUME NEW p \in Procs, ClaimPurge(p) PROVE RecordingDeletedEverywhere'
  BY <1>15 DEF ClaimPurge, Goto, Bump, Purgeable
<1>16. ASSUME NEW p \in Procs, Erase(p) PROVE RecordingDeletedEverywhere'
  BY <1>16 DEF Erase, Goto, Fault
<1>17. ASSUME NEW p \in Procs, Sweep(p) PROVE RecordingDeletedEverywhere'
  BY <1>17 DEF Sweep, Goto, Fault
<1>18. ASSUME NEW p \in Procs, FinalizePurge(p) PROVE RecordingDeletedEverywhere'
  BY <1>18 DEF FinalizePurge, Goto, Bump
<1>19. ASSUME NEW p \in Procs, StartRelease(p) PROVE RecordingDeletedEverywhere'
  BY <1>19 DEF StartRelease, Start, Take, Free
<1>20. ASSUME NEW p \in Procs, ClaimRelease(p) PROVE RecordingDeletedEverywhere'
  BY <1>20 DEF ClaimRelease, Goto, Releasable, Intent
<1>21. ASSUME NEW p \in Procs, FinalizeRelease(p) PROVE RecordingDeletedEverywhere'
  BY <1>21 DEF FinalizeRelease, Goto
<1>22. ASSUME NEW p \in Procs, Unlock(p) PROVE RecordingDeletedEverywhere'
  BY <1>22 DEF Unlock, Goto
<1>23. ASSUME NEW p \in Procs, Close(p) PROVE RecordingDeletedEverywhere'
  BY <1>23 DEF Close, End
<1>24. ASSUME NEW p \in Procs, Crash(p) PROVE RecordingDeletedEverywhere'
  BY <1>24 DEF Crash, End
<1>25. ASSUME NEW p \in Procs, DropLock(p) PROVE RecordingDeletedEverywhere'
  BY <1>25, DropsGrow
<1>26. CASE SettleElsewhere BY <1>26 DEF SettleElsewhere
<1>27. CASE UNCHANGED vars BY <1>27 DEF vars
<1>. HIDE DEF ErasingInv, LockInv, CheckedInv, ManifestInv, RecordingDeletedEverywhere, Doomed, NoCopies, Recording, Gone, Removed, Guarded, Erasing, Steps, TypeOK
<1>. QED BY <1>1, <1>2, <1>3, <1>4, <1>5, <1>6, <1>7, <1>8, <1>9, <1>10, <1>11, <1>12, <1>13, <1>14, <1>15, <1>16, <1>17, <1>18, <1>19, <1>20, <1>21, <1>22, <1>23, <1>24, <1>25, <1>26, <1>27 DEF Next, Create, Save, Use, Delete, Leave

\* Nothing of a deleted match returns to the provider.
LEMMA PurgeStep ==
    ASSUME TypeOK, drops = 0, drops' = 0, ErasingInv, LockInv, CheckedInv, ManifestInv, PurgeIsComplete, [Next]_vars
    PROVE  PurgeIsComplete'
<1>. USE DEF ErasingInv, LockInv, CheckedInv, ManifestInv, PurgeIsComplete, Gone, Guarded, Erasing, Steps, TypeOK, rowVars, procVars, envVars
<1>1. ASSUME NEW p \in Procs, StartCreate(p) PROVE PurgeIsComplete'
  BY <1>1 DEF StartCreate, Start
<1>2. ASSUME NEW p \in Procs, Reserve(p) PROVE PurgeIsComplete'
  BY <1>2 DEF Reserve, Goto
<1>3. ASSUME NEW p \in Procs, Inspect(p) PROVE PurgeIsComplete'
  BY <1>3 DEF Inspect, Goto
<1>4. ASSUME NEW p \in Procs, LockSave(p) PROVE PurgeIsComplete'
  BY <1>4 DEF LockSave, Goto, Take, Free
<1>5. ASSUME NEW p \in Procs, Settle(p) PROVE PurgeIsComplete'
  BY <1>5 DEF Settle, Goto
<1>6. ASSUME NEW p \in Procs, SaveCheck(p) PROVE PurgeIsComplete'
  BY <1>6 DEF SaveCheck, Goto, Savable
<1>7. ASSUME NEW p \in Procs, Put(p) PROVE PurgeIsComplete'
  <2>1. pc[p] = "put" /\ UNCHANGED <<life, video>> BY ONLY <1>7 DEF Put, rowVars
  <2>2. life = "live" /\ video \notin Removed BY <2>1, Held
  <2>. QED BY <2>1, <2>2
<1>8. ASSUME NEW p \in Procs, Persist(p) PROVE PurgeIsComplete'
  BY <1>8 DEF Persist, Goto, Bump, Persistable, NewPhase
<1>9. ASSUME NEW p \in Procs, StartWork(p) PROVE PurgeIsComplete'
  BY <1>9 DEF StartWork, Start, Take, Free
<1>10. ASSUME NEW p \in Procs, StartRead(p) PROVE PurgeIsComplete'
  BY <1>10 DEF StartRead, Start, Take, Free
<1>11. ASSUME NEW p \in Procs, Load(p) PROVE PurgeIsComplete'
  BY <1>11 DEF Load, Goto, Loadable
<1>12. ASSUME NEW p \in Procs, Download(p) PROVE PurgeIsComplete'
  BY <1>12 DEF Download, Goto, Fault
<1>13. ASSUME NEW p \in Procs, Compute(p) PROVE PurgeIsComplete'
  BY <1>13 DEF Compute, Goto
<1>14. ASSUME NEW p \in Procs, StartPurge(p) PROVE PurgeIsComplete'
  BY <1>14 DEF StartPurge, Start, Take, Free
<1>15. ASSUME NEW p \in Procs, ClaimPurge(p) PROVE PurgeIsComplete'
  BY <1>15 DEF ClaimPurge, Goto, Bump, Purgeable
<1>16. ASSUME NEW p \in Procs, Erase(p) PROVE PurgeIsComplete'
  BY <1>16 DEF Erase, Goto, Fault
<1>17. ASSUME NEW p \in Procs, Sweep(p) PROVE PurgeIsComplete'
  BY <1>17 DEF Sweep, Goto, Fault
<1>18. ASSUME NEW p \in Procs, FinalizePurge(p) PROVE PurgeIsComplete'
  BY <1>18 DEF FinalizePurge, Goto, Bump
<1>19. ASSUME NEW p \in Procs, StartRelease(p) PROVE PurgeIsComplete'
  BY <1>19 DEF StartRelease, Start, Take, Free
<1>20. ASSUME NEW p \in Procs, ClaimRelease(p) PROVE PurgeIsComplete'
  BY <1>20 DEF ClaimRelease, Goto, Releasable, Intent
<1>21. ASSUME NEW p \in Procs, FinalizeRelease(p) PROVE PurgeIsComplete'
  BY <1>21 DEF FinalizeRelease, Goto
<1>22. ASSUME NEW p \in Procs, Unlock(p) PROVE PurgeIsComplete'
  BY <1>22 DEF Unlock, Goto
<1>23. ASSUME NEW p \in Procs, Close(p) PROVE PurgeIsComplete'
  BY <1>23 DEF Close, End
<1>24. ASSUME NEW p \in Procs, Crash(p) PROVE PurgeIsComplete'
  BY <1>24 DEF Crash, End
<1>25. ASSUME NEW p \in Procs, DropLock(p) PROVE PurgeIsComplete'
  BY <1>25, DropsGrow
<1>26. CASE SettleElsewhere BY <1>26 DEF SettleElsewhere
<1>27. CASE UNCHANGED vars BY <1>27 DEF vars
<1>. HIDE DEF ErasingInv, LockInv, CheckedInv, ManifestInv, PurgeIsComplete, Gone, Guarded, Erasing, Steps, TypeOK
<1>. QED BY <1>1, <1>2, <1>3, <1>4, <1>5, <1>6, <1>7, <1>8, <1>9, <1>10, <1>11, <1>12, <1>13, <1>14, <1>15, <1>16, <1>17, <1>18, <1>19, <1>20, <1>21, <1>22, <1>23, <1>24, <1>25, <1>26, <1>27 DEF Next, Create, Save, Use, Delete, Leave

\* ErasureInv holds in every reachable state.
LEMMA ErasureInvariance == Spec => []ErasureInv
<1>1. ASSUME Init PROVE ErasureInv
  BY <1>1 DEF Init, ErasureInv, LockInv, CheckedInv, ManifestInv, RecordingDeletedEverywhere,
     PurgeIsComplete, Guarded, Erasing
<1>2. ASSUME IInv, ErasureInv, [Next]_vars PROVE ErasureInv'
  <2>. SUFFICES ASSUME drops' = 0
       PROVE  (LockInv /\ CheckedInv /\ ManifestInv /\ RecordingDeletedEverywhere /\ PurgeIsComplete)'
    BY DEF ErasureInv
  <2>1. drops = 0 BY <1>2, DropsGrow DEF IInv
  <2>2. LockInv /\ CheckedInv /\ ManifestInv /\ RecordingDeletedEverywhere /\ PurgeIsComplete
    BY <1>2, <2>1 DEF ErasureInv
  <2>. QED BY <1>2, <2>1, <2>2, LockStep, CheckedStep, ManifestStep, RecordingStep, PurgeStep DEF IInv
<1>. QED BY <1>1, <1>2, Invariance, PTL DEF Spec

\* A recording reported deleted is gone everywhere (source_media.py).
THEOREM RecordingTheorem == Spec => []RecordingDeletedEverywhere
<1>1. ErasureInv => RecordingDeletedEverywhere BY DEF ErasureInv, RecordingDeletedEverywhere
<1>. QED BY <1>1, ErasureInvariance, PTL

\* A match reported deleted left nothing registered at the provider
\* (match_lifecycle.py).
THEOREM PurgeTheorem == Spec => []PurgeIsComplete
<1>1. ErasureInv => PurgeIsComplete BY DEF ErasureInv, PurgeIsComplete
<1>. QED BY <1>1, ErasureInvariance, PTL
=============================================================================
