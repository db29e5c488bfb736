---------------------------- MODULE AnalysisProofs ----------------------------
(***************************************************************************)
(* Proofs about the work on one analysis, for any processes, keys, workers, *)
(* requests, players and sizes.                                            *)
(***************************************************************************)
EXTENDS AnalysisWork, FiniteSetTheorems, SequenceTheorems, TLAPS

-----------------------------------------------------------------------------
(* The attempts of the ball stage.                                          *)

\* A worker at work has an attempt.
BallJobs == \A w \in Workers : ballPc[w] # "idle" => ballJob[w].attempt \in DOMAIN attempts

\* Evidence of an attempt that is still active was not retired yet.
ActiveOffered ==
    \A a \in outputs : attempts[a].state \in Ball!Active => a \in current

BallInv ==
    /\ Ball!TypeOK /\ BallJobs
    /\ Ball!RerunFollows /\ ActiveOffered /\ Ball!CompletedEvidenceKept

LEMMA BallInit == ASSUME Ball!Init, WellFormed PROVE BallInv
<1>. USE DEF Ball!Init, WellFormed, Ball!StageAssumption
<1>1. Ball!TypeOK BY DEF Ball!TypeOK, Ball!NoJob
<1>. QED BY <1>1 DEF BallInv, BallJobs, Ball!RerunFollows, ActiveOffered, Ball!CompletedEvidenceKept

\* The attempts are rows in order, and only the last may be active.
LEMMA BallRows ==
    ASSUME BallInv
    PROVE  /\ Len(attempts) \in Nat /\ DOMAIN attempts = 1..Len(attempts)
           /\ attempts \in [1..Len(attempts) -> Ball!Attempt]
           /\ \A a \in DOMAIN attempts : attempts[a].state \in Ball!Active => a = Len(attempts)
           /\ \A a \in DOMAIN attempts : /\ attempts[a].state \in Ball!Active \union Ball!Ended
                                         /\ attempts[a].version \in Nat \ {0}
<1>1. attempts \in Seq(Ball!Attempt) BY DEF BallInv, Ball!TypeOK
<1>2. /\ Len(attempts) \in Nat /\ DOMAIN attempts = 1..Len(attempts)
      /\ attempts \in [1..Len(attempts) -> Ball!Attempt]
  BY <1>1, LenProperties
<1>3. \A a \in DOMAIN attempts : attempts[a].state \in Ball!Active => a = Len(attempts)
  BY <1>2 DEF BallInv, Ball!RerunFollows, Ball!Active, Ball!Ended
<1>4. \A a \in DOMAIN attempts : /\ attempts[a].state \in Ball!Active \union Ball!Ended
                                 /\ attempts[a].version \in Nat \ {0}
  BY <1>2 DEF Ball!Attempt
<1>. QED BY <1>2, <1>3, <1>4

\* What a step does to the rows: a new attempt, one that ends, or the deletion.
BallMove ==
    \/ UNCHANGED <<attempts, current>> /\ outputs' = outputs
    \/ \E a \in DOMAIN attempts :
          outputs' = outputs \union {a} /\ current' = current \union {a} /\ UNCHANGED attempts
    \/ /\ Ball!ActiveAttempts = {} /\ Len(attempts) < MaxAttempts
       /\ attempts' = Append(attempts, [state |-> "processing", version |-> 1])
       /\ UNCHANGED <<outputs, current>>
    \/ \E a \in DOMAIN attempts, new \in Ball!Ended \union {"processing"} :
          /\ Ball!Transition(a, attempts[a].version, new)
          /\ new = "completed" => a \in outputs
          /\ UNCHANGED outputs
    \/ /\ attempts' = [a \in DOMAIN attempts |-> IF a \in Ball!ActiveAttempts
                          THEN [attempts[a] EXCEPT !.state = "cancelled"] ELSE attempts[a]]
       /\ UNCHANGED <<outputs, current>>

LEMMA BallMoves ==
    ASSUME BallInv, [Ball!Next]_ballVars
    PROVE  BallMove
<1>. USE DEF BallMove, Ball!Mine
<1>1. ASSUME NEW w \in Workers, Ball!Start(w) PROVE BallMove BY <1>1 DEF Ball!Start
<1>2. ASSUME NEW w \in Workers, Ball!Run(w) PROVE BallMove BY <1>2 DEF Ball!Run
<1>3. ASSUME NEW w \in Workers, Ball!RegisterRead(w) PROVE BallMove BY <1>3 DEF Ball!RegisterRead
<1>4. ASSUME NEW w \in Workers, Ball!Register(w) PROVE BallMove
  BY <1>4 DEF Ball!Register, BallInv, BallJobs
<1>5. ASSUME NEW w \in Workers, Ball!Complete(w) PROVE BallMove
  BY <1>5 DEF Ball!Complete, BallInv, BallJobs, Ball!Transition, Ball!Permitted, Ball!Ended
<1>6. ASSUME NEW w \in Workers, Ball!Fail(w) PROVE BallMove
  BY <1>6 DEF Ball!Fail, BallInv, BallJobs, Ball!Transition, Ball!Permitted, Ball!Ended
<1>7. ASSUME NEW w \in Workers, Ball!Die(w) PROVE BallMove BY <1>7 DEF Ball!Die
<1>8. CASE Ball!Retire BY <1>8 DEF Ball!Retire, Ball!Ended
<1>9. CASE Ball!Delete BY <1>9 DEF Ball!Delete
<1>10. CASE UNCHANGED ballVars BY <1>10 DEF ballVars
<1>. QED BY <1>1, <1>2, <1>3, <1>4, <1>5, <1>6, <1>7, <1>8, <1>9, <1>10 DEF Ball!Next

\* A transition ends an attempt, or takes up a queued one.
LEMMA Permission ==
    ASSUME BallInv, NEW a \in DOMAIN attempts, NEW new, Ball!Permitted(a, attempts[a].version, new)
    PROVE  /\ attempts[a].state \in Ball!Active /\ a = Len(attempts)
           /\ new \in Ball!Ended \union {"processing"}
<1>1. attempts[a].state \in Ball!Active \union Ball!Ended BY BallRows
<1>2. attempts[a].state \in Ball!Active /\ new \in Ball!Ended \union {"processing"}
  BY <1>1 DEF Ball!Permitted, Ball!Allowed, Ball!Active, Ball!Ended
<1>. QED BY <1>2, BallRows

LEMMA BallRowsStep ==
    ASSUME WellFormed, BallInv, BallMove
    PROVE  /\ attempts' \in Seq(Ball!Attempt) /\ Len(attempts') <= MaxAttempts
           /\ outputs' \subseteq DOMAIN attempts' /\ current' \subseteq DOMAIN attempts'
           /\ DOMAIN attempts \subseteq DOMAIN attempts'
           /\ Ball!RerunFollows' /\ ActiveOffered' /\ Ball!CompletedEvidenceKept'
           /\ \A a \in DOMAIN attempts : attempts[a].state \in Ball!Ended => attempts'[a].state = attempts[a].state
<1>. USE DEF Ball!RerunFollows, ActiveOffered, Ball!CompletedEvidenceKept
<1>1. /\ attempts \in Seq(Ball!Attempt) /\ Len(attempts) <= MaxAttempts
      /\ outputs \subseteq DOMAIN attempts /\ current \subseteq DOMAIN attempts
      /\ Ball!RerunFollows /\ ActiveOffered /\ Ball!CompletedEvidenceKept
  BY DEF BallInv, Ball!TypeOK
<1>2. /\ Len(attempts) \in Nat /\ DOMAIN attempts = 1..Len(attempts)
      /\ \A a \in DOMAIN attempts : attempts[a].state \in Ball!Active => a = Len(attempts)
      /\ \A a \in DOMAIN attempts : /\ attempts[a].state \in Ball!Active \union Ball!Ended
                                    /\ attempts[a].version \in Nat \ {0}
  BY BallRows
<1>3. CASE UNCHANGED <<attempts, current>> /\ outputs' = outputs BY <1>1, <1>3
<1>4. CASE \E a \in DOMAIN attempts :
              outputs' = outputs \union {a} /\ current' = current \union {a} /\ UNCHANGED attempts
  BY <1>1, <1>4
<1>5. CASE /\ Ball!ActiveAttempts = {} /\ Len(attempts) < MaxAttempts
           /\ attempts' = Append(attempts, [state |-> "processing", version |-> 1])
           /\ UNCHANGED <<outputs, current>>
  <2>1. [state |-> "processing", version |-> 1] \in Ball!Attempt BY DEF Ball!Attempt, Ball!Active
  <2>2. /\ attempts' \in Seq(Ball!Attempt) /\ Len(attempts') = Len(attempts) + 1
        /\ DOMAIN attempts' = 1..(Len(attempts) + 1)
        /\ \A a \in DOMAIN attempts : attempts'[a] = attempts[a]
    BY <1>1, <1>2, <1>5, <2>1
  <2>3. \A a \in DOMAIN attempts : attempts[a].state \in Ball!Ended
    BY <1>2, <1>5 DEF Ball!ActiveAttempts
  <2>4. outputs' = outputs /\ current' = current /\ DOMAIN attempts \subseteq DOMAIN attempts'
    BY <1>2, <1>5, <2>2
  <2>5. Ball!RerunFollows' BY <1>2, <2>2, <2>3
  <2>6. ActiveOffered' BY <1>1, <2>2, <2>4
  <2>7. Ball!CompletedEvidenceKept' BY <1>1, <2>2, <2>4
  <2>8. Len(attempts') <= MaxAttempts
    BY <1>2, <1>5, <2>2, WellFormed DEF WellFormed, Ball!StageAssumption
  <2>. QED BY <1>1, <2>2, <2>4, <2>5, <2>6, <2>7, <2>8
<1>6. ASSUME NEW a \in DOMAIN attempts, NEW new \in Ball!Ended \union {"processing"},
             Ball!Transition(a, attempts[a].version, new), new = "completed" => a \in outputs,
             UNCHANGED outputs
      PROVE  /\ attempts' \in Seq(Ball!Attempt) /\ Len(attempts') <= MaxAttempts
             /\ outputs' \subseteq DOMAIN attempts' /\ current' \subseteq DOMAIN attempts'
             /\ DOMAIN attempts \subseteq DOMAIN attempts'
             /\ Ball!RerunFollows' /\ ActiveOffered' /\ Ball!CompletedEvidenceKept'
             /\ \A b \in DOMAIN attempts : attempts[b].state \in Ball!Ended => attempts'[b].state = attempts[b].state
  <2>1. attempts[a].state \in Ball!Active /\ a = Len(attempts) BY <1>6, Permission DEF Ball!Transition
  <2>2. [state |-> new, version |-> attempts[a].version + 1] \in Ball!Attempt
    BY <1>2 DEF Ball!Attempt, Ball!Active
  <2>3. /\ attempts' \in Seq(Ball!Attempt) /\ Len(attempts') = Len(attempts)
        /\ DOMAIN attempts' = 1..Len(attempts)
        /\ attempts'[a].state = new
        /\ \A b \in DOMAIN attempts \ {a} : attempts'[b] = attempts[b]
    BY <1>1, <1>2, <1>6, <2>2, ExceptSeq DEF Ball!Transition
  <2>4. \A b \in DOMAIN attempts \ {a} : attempts[b].state \in Ball!Ended BY <1>2, <2>1
  <2>5. CASE new = "completed"
    <3>1. current' = current \intersect {a} BY <1>6, <2>5 DEF Ball!Transition, Ball!Promoted
    <3>2. a \in current' BY <1>1, <1>6, <2>1, <2>5, <3>1
    <3>. QED BY <1>1, <1>2, <1>6, <2>1, <2>3, <2>4, <2>5, <3>1, <3>2 DEF Ball!Active, Ball!Ended
  <2>6. CASE new # "completed"
    <3>1. current' = current BY <1>6, <2>6 DEF Ball!Transition
    <3>. QED BY <1>1, <1>2, <1>6, <2>1, <2>3, <2>4, <2>6, <3>1 DEF Ball!Active, Ball!Ended
  <2>. QED BY <2>5, <2>6
<1>7. CASE /\ attempts' = [a \in DOMAIN attempts |-> IF a \in Ball!ActiveAttempts
                              THEN [attempts[a] EXCEPT !.state = "cancelled"] ELSE attempts[a]]
           /\ UNCHANGED <<outputs, current>>
  <2>1. \A a \in DOMAIN attempts : /\ attempts'[a] \in Ball!Attempt
                                   /\ attempts'[a] = attempts[a] \/ (attempts[a].state \in Ball!Active /\ attempts'[a].state = "cancelled")
    <3>1. attempts \in [DOMAIN attempts -> Ball!Attempt] BY BallRows
    <3>. QED BY <1>7, <3>1 DEF Ball!ActiveAttempts, Ball!Attempt, Ball!Ended
  <2>2. attempts' \in [1..Len(attempts) -> Ball!Attempt] BY <1>2, <1>7, <2>1
  <2>3. attempts' \in Seq(Ball!Attempt) /\ Len(attempts') = Len(attempts) /\ DOMAIN attempts' = DOMAIN attempts
    BY <1>2, <2>2
  <2>4. outputs' = outputs /\ current' = current BY <1>7
  <2>5. \A a \in DOMAIN attempts : attempts[a].state \in Ball!Ended => attempts'[a].state = attempts[a].state
    BY <2>1 DEF Ball!Active, Ball!Ended
  <2>6. Ball!RerunFollows' BY <1>1, <1>2, <2>3, <2>5
  <2>7. ActiveOffered' BY <1>1, <2>1, <2>3, <2>4 DEF Ball!Active
  <2>8. Ball!CompletedEvidenceKept'
    <3>1. \A a \in DOMAIN attempts : attempts'[a].state = "completed" <=> attempts[a].state = "completed"
      BY <2>1, <2>5 DEF Ball!Active, Ball!Ended
    <3>. QED BY <1>1, <2>3, <2>4, <3>1
  <2>. QED BY <1>1, <1>2, <2>3, <2>4, <2>5, <2>6, <2>7, <2>8
<1>. QED BY <1>3, <1>4, <1>5, <1>6, <1>7 DEF BallMove

\* The match, the workers and what each of them was given.
LEMMA BallWorkersStep ==
    ASSUME WellFormed, BallInv, [Ball!Next]_ballVars
    PROVE  /\ ballLive' \in BOOLEAN
           /\ ballPc' \in [Workers -> {"idle", "run", "register", "complete", "fail"}]
           /\ ballJob' \in [Workers -> [attempt : 0..MaxAttempts, version : Nat]]
           /\ BallJobs'
<1>. DEFINE WorkersStep ==
        /\ ballLive' \in BOOLEAN
        /\ ballPc' \in [Workers -> {"idle", "run", "register", "complete", "fail"}]
        /\ ballJob' \in [Workers -> [attempt : 0..MaxAttempts, version : Nat]]
        /\ BallJobs'
<1>1. /\ ballLive \in BOOLEAN /\ BallJobs
      /\ ballPc \in [Workers -> {"idle", "run", "register", "complete", "fail"}]
      /\ ballJob \in [Workers -> [attempt : 0..MaxAttempts, version : Nat]]
  BY DEF BallInv, Ball!TypeOK
<1>2. /\ Len(attempts) \in Nat /\ DOMAIN attempts = 1..Len(attempts) /\ attempts \in Seq(Ball!Attempt)
  BY BallRows DEF BallInv, Ball!TypeOK
<1>3. DOMAIN attempts \subseteq DOMAIN attempts' BY BallMoves, BallRowsStep
<1>4. MaxAttempts \in Nat \ {0} BY DEF WellFormed, Ball!StageAssumption
<1>5. ASSUME NEW w \in Workers, Ball!Goto(w, "run") \/ Ball!Goto(w, "register")
                \/ Ball!Goto(w, "complete") \/ Ball!Goto(w, "fail"),
             ballPc[w] # "idle", ballLive' = ballLive
      PROVE  WorkersStep
  BY <1>1, <1>3, <1>5 DEF Ball!Goto, BallJobs
<1>6. ASSUME NEW w \in Workers, Ball!Return(w), ballLive' = ballLive PROVE WorkersStep
  <2>1. Ball!NoJob \in [attempt : 0..MaxAttempts, version : Nat] BY <1>4 DEF Ball!NoJob
  <2>. QED BY <1>1, <1>3, <1>6, <2>1 DEF Ball!Return, BallJobs
<1>7. ASSUME UNCHANGED <<ballPc, ballJob>>, ballLive' \in BOOLEAN PROVE WorkersStep
  BY <1>1, <1>3, <1>7 DEF BallJobs
<1>8. ASSUME NEW w \in Workers, Ball!Start(w) PROVE WorkersStep
  <2>1. Len(attempts) + 1 \in 0..MaxAttempts BY <1>2, <1>4, <1>8 DEF Ball!Start, BallInv, Ball!TypeOK
  <2>2. [attempt |-> Len(attempts) + 1, version |-> 1] \in [attempt : 0..MaxAttempts, version : Nat] BY <2>1
  <2>3. Len(attempts) + 1 \in DOMAIN attempts'
    <3>1. [state |-> "processing", version |-> 1] \in Ball!Attempt BY DEF Ball!Attempt, Ball!Active
    <3>. QED BY <1>2, <1>8, <3>1 DEF Ball!Start
  <2>. QED BY <1>1, <1>3, <1>8, <2>2, <2>3 DEF Ball!Start, BallJobs
<1>9. ASSUME NEW w \in Workers, Ball!Run(w) PROVE WorkersStep BY <1>5, <1>9 DEF Ball!Run
<1>10. ASSUME NEW w \in Workers, Ball!RegisterRead(w) PROVE WorkersStep BY <1>5, <1>10 DEF Ball!RegisterRead
<1>11. ASSUME NEW w \in Workers, Ball!Register(w) PROVE WorkersStep BY <1>1, <1>5, <1>7, <1>11 DEF Ball!Register
<1>12. ASSUME NEW w \in Workers, Ball!Complete(w) PROVE WorkersStep BY <1>5, <1>6, <1>12 DEF Ball!Complete
<1>13. ASSUME NEW w \in Workers, Ball!Fail(w) PROVE WorkersStep BY <1>6, <1>13 DEF Ball!Fail
<1>14. ASSUME NEW w \in Workers, Ball!Die(w) PROVE WorkersStep BY <1>6, <1>14 DEF Ball!Die
<1>15. CASE Ball!Retire BY <1>1, <1>7, <1>15 DEF Ball!Retire
<1>16. CASE Ball!Delete BY <1>7, <1>16 DEF Ball!Delete
<1>17. CASE UNCHANGED ballVars BY <1>1, <1>7, <1>17 DEF ballVars
<1>. QED
  BY <1>8, <1>9, <1>10, <1>11, <1>12, <1>13, <1>14, <1>15, <1>16, <1>17 DEF Ball!Next

LEMMA BallStep ==
    ASSUME WellFormed, BallInv, [Ball!Next]_ballVars
    PROVE  BallInv'
<1>1. BallMove BY BallMoves
<1>. QED BY <1>1, BallRowsStep, BallWorkersStep DEF BallInv, Ball!TypeOK

LEMMA BallCompose == [Next]_vars => [Ball!Next]_ballVars
  BY DEF Next, vars, ballVars

LEMMA BallInvariance == Spec => []BallInv
<1>1. Init => BallInv BY BallInit, WellFormed DEF Init
<1>2. BallInv /\ [Next]_vars => BallInv' BY BallStep, BallCompose, WellFormed
<1>. QED BY <1>1, <1>2, PTL DEF Spec

\* An attempt that ended keeps its outcome, whoever ends it and in any order.
THEOREM AttemptsTheorem == Spec => AttemptsEndOnce
<1>1. BallInv /\ [Next]_vars => [ \A a \in DOMAIN attempts : attempts[a].state \in Ball!Ended =>
            /\ a \in DOMAIN attempts' /\ attempts'[a].state = attempts[a].state ]_ballVars
  BY BallCompose, BallMoves, BallRowsStep, WellFormed
<1>. QED BY <1>1, BallInvariance, PTL DEF Spec, AttemptsEndOnce, Ball!AttemptsEndOnce, Ball!vars, ballVars

-----------------------------------------------------------------------------
(* The runs of the analysis.                                                *)

\* A key that was answered is bound to the one run that it was answered with.
KeysBound ==
    \A k \in Keys, f \in Fingerprints : answers[<<k, f>>] # {} =>
        idem[k].run # 0 /\ idem[k].fingerprint = f /\ answers[<<k, f>>] = {idem[k].run}

\* A transition goes from the state it read to one that may follow; it holds
\* the run it updated, alone, in that state.
TransitionsSound ==
    \A p \in Procs :
        /\ held[p] # 0 => pc[p] = "commit"
        /\ pc[p] = "commit" => held[p] = call[p].run /\ runs[held[p]].state = call[p].was
        /\ pc[p] \in {"transition", "commit"} =>
              call[p].run \in DOMAIN runs /\ call[p].new \in Runs!Allowed[call[p].was]
        /\ \A q \in Procs : held[p] # 0 /\ held[q] = held[p] => q = p

RunsInv ==
    /\ Runs!TypeOK /\ Len(runs) > 0
    /\ Runs!AttemptsFollow /\ (~live => Runs!ActiveRuns = {})
    /\ KeysBound /\ TransitionsSound

LEMMA NoCallType == WellFormed => Runs!NoCall \in Runs!Call /\ Runs!NoRecord \in Runs!Record
<1>. SUFFICES ASSUME WellFormed PROVE Runs!NoCall \in Runs!Call /\ Runs!NoRecord \in Runs!Record OBVIOUS
<1>1. /\ (CHOOSE k \in Keys : TRUE) \in Keys /\ (CHOOSE f \in Fingerprints : TRUE) \in Fingerprints
      /\ 0 \in 0..MaxRuns
  BY DEF WellFormed, Runs!RunsAssumption
<1>. QED BY <1>1 DEF Runs!NoCall, Runs!Asked, Runs!Call, Runs!NoRecord, Runs!Record, Runs!Active

LEMMA RunsInit == ASSUME Runs!Init, WellFormed PROVE RunsInv
<1>. USE DEF Runs!Init, WellFormed, Runs!RunsAssumption
<1>1. <<[state |-> "processing", version |-> 1]>> \in Seq(Runs!Run) BY DEF Runs!Run, Runs!Active
<1>2. Len(runs) = 1 OBVIOUS
<1>3. Runs!TypeOK BY <1>1, <1>2, NoCallType DEF Runs!TypeOK, Runs!Statuses
<1>. QED BY <1>2, <1>3 DEF RunsInv, Runs!AttemptsFollow, KeysBound, TransitionsSound

\* The runs are rows in order, and only the last may be active.
LEMMA RunRows ==
    ASSUME RunsInv
    PROVE  /\ Len(runs) \in Nat \ {0} /\ DOMAIN runs = 1..Len(runs) /\ Len(runs) \in DOMAIN runs
           /\ runs \in [1..Len(runs) -> Runs!Run]
           /\ \A r \in DOMAIN runs : /\ runs[r].state \in Runs!Active \union Runs!Ended
                                     /\ runs[r].version \in Nat \ {0}
                                     /\ runs[r].state \in Runs!Active => r = Len(runs)
           /\ Runs!ActiveOrLatest = Len(runs)
<1>1. runs \in Seq(Runs!Run) /\ Len(runs) > 0 BY DEF RunsInv, Runs!TypeOK
<1>2. /\ Len(runs) \in Nat \ {0} /\ DOMAIN runs = 1..Len(runs) /\ Len(runs) \in DOMAIN runs
      /\ runs \in [1..Len(runs) -> Runs!Run]
  BY <1>1, LenProperties
<1>3. \A r \in DOMAIN runs : /\ runs[r].state \in Runs!Active \union Runs!Ended
                             /\ runs[r].version \in Nat \ {0}
  BY <1>2 DEF Runs!Run
<1>4. \A r \in DOMAIN runs : runs[r].state \in Runs!Active => r = Len(runs)
  BY <1>2 DEF RunsInv, Runs!AttemptsFollow, Runs!Active, Runs!Ended
<1>5. Runs!ActiveOrLatest = Len(runs) BY <1>4 DEF Runs!ActiveOrLatest, Runs!ActiveRuns
<1>. QED BY <1>2, <1>3, <1>4, <1>5

\* What a step does to the last run, by its new state; the others stay.
RunMove ==
    \/ UNCHANGED <<runs, live, promoted>>
    \/ /\ live /\ UNCHANGED <<live, promoted>> /\ Runs!ActiveRuns = {}
       /\ \E s \in Runs!Active : Runs!InsertRun(s)
    \/ /\ live /\ UNCHANGED live /\ runs[Len(runs)].state \in Runs!Active
       /\ \E new \in Runs!Ended \union {"processing"} :
             /\ Runs!EndRun(Len(runs), new)
             /\ promoted' = IF new = "completed" THEN Len(runs) ELSE promoted
    \/ /\ live /\ live' = FALSE /\ UNCHANGED promoted
       /\ runs' = [r \in DOMAIN runs |-> IF r \in Runs!ActiveRuns
                                         THEN [runs[r] EXCEPT !.state = "cancelled"] ELSE runs[r]]

\* A run that is being updated is active, so it is the last one and the match lives.
LEMMA Updating ==
    ASSUME RunsInv, NEW p \in Procs, pc[p] = "commit"
    PROVE  /\ held[p] = Len(runs) /\ call[p].run = Len(runs) /\ live
           /\ runs[Len(runs)].state \in Runs!Active
           /\ call[p].new \in Runs!Ended \union {"processing"}
<1>1. /\ held[p] = call[p].run /\ runs[held[p]].state = call[p].was /\ call[p].run \in DOMAIN runs
      /\ call[p].new \in Runs!Allowed[call[p].was]
  BY DEF RunsInv, TransitionsSound
<1>2. call[p].was \in Runs!Active /\ call[p].new \in Runs!Ended \union {"processing"}
  <2>1. call[p].was \in Runs!Active \union Runs!Ended BY <1>1, RunRows
  <2>. QED BY <1>1, <2>1 DEF Runs!Allowed, Runs!Active, Runs!Ended
<1>3. held[p] = Len(runs) BY <1>1, <1>2, RunRows
<1>. QED BY <1>1, <1>2, <1>3 DEF RunsInv, Runs!ActiveRuns

LEMMA RunMoves ==
    ASSUME RunsInv, [Runs!Next]_runVars
    PROVE  RunMove
<1>. USE DEF RunMove, Runs!analysisVars
<1>1. ASSUME NEW p \in Procs, NEW k \in Keys, NEW f \in Fingerprints, Runs!StartLookup(p, k, f) PROVE RunMove
  BY <1>1 DEF Runs!StartLookup, Runs!Resolve
<1>2. ASSUME NEW p \in Procs, Runs!StartInsert(p) PROVE RunMove
  BY <1>2 DEF Runs!StartInsert, Runs!Admitted, Runs!OneActive
<1>3. ASSUME NEW p \in Procs, Runs!StartFallback(p) PROVE RunMove
  BY <1>3 DEF Runs!StartFallback, Runs!Resolve
<1>4. ASSUME NEW p \in Procs, NEW r \in DOMAIN runs, NEW new, Runs!TransitionRead(p, r, new) PROVE RunMove
  BY <1>4 DEF Runs!TransitionRead
<1>5. ASSUME NEW p \in Procs, Runs!TransitionUpdate(p) PROVE RunMove BY <1>5 DEF Runs!TransitionUpdate
<1>6. ASSUME NEW p \in Procs, Runs!TransitionCommit(p) PROVE RunMove
  BY <1>6, Updating DEF Runs!TransitionCommit
<1>7. ASSUME NEW p \in Procs, Runs!RollBack(p) PROVE RunMove BY <1>7 DEF Runs!RollBack
<1>8. ASSUME NEW p \in Procs, Runs!SaveLoad(p) PROVE RunMove BY <1>8 DEF Runs!SaveLoad
<1>9. ASSUME NEW p \in Procs, Runs!SaveRefused(p) PROVE RunMove BY <1>9 DEF Runs!SaveRefused
<1>10. ASSUME NEW p \in Procs, NEW status \in Runs!Statuses, Runs!Save(p, status) PROVE RunMove
  <2>1. Runs!ActiveOrLatest = Len(runs) BY RunRows
  <2>2. CASE status = "processing" /\ runs[Len(runs)].state \notin Runs!Active /\ Runs!InsertRun("processing")
             /\ UNCHANGED promoted
    <3>1. Runs!ActiveRuns = {} BY <2>2, RunRows DEF Runs!ActiveRuns
    <3>. QED BY <1>10, <2>2, <3>1 DEF Runs!Save, Runs!Active
  <2>3. CASE status \in {"completed", "failed"} /\ Runs!Ends(Len(runs)) /\ Runs!EndRun(Len(runs), status)
             /\ promoted' = IF status = "completed" THEN Len(runs) ELSE promoted
    BY <1>10, <2>3 DEF Runs!Save, Runs!Ends, Runs!Ended
  <2>4. CASE UNCHANGED <<runs, promoted>> BY <1>10, <2>4 DEF Runs!Save
  <2>. QED BY <1>10, <2>1, <2>2, <2>3, <2>4 DEF Runs!Save
<1>11. CASE Runs!Delete BY <1>11 DEF Runs!Delete
<1>12. CASE UNCHANGED runVars BY <1>12 DEF runVars
<1>. QED
  BY <1>1, <1>2, <1>3, <1>4, <1>5, <1>6, <1>7, <1>8, <1>9, <1>10, <1>11, <1>12 DEF Runs!Next

LEMMA AppendIs ==
    ASSUME NEW S, NEW s \in Seq(S), NEW e \in S
    PROVE  Append(s, e) = [i \in 1..(Len(s) + 1) |-> IF i = Len(s) + 1 THEN e ELSE s[i]]
<1>. DEFINE t == Append(s, e)
<1>1. /\ t \in Seq(S) /\ Len(t) = Len(s) + 1
      /\ \A i \in 1..Len(s) : t[i] = s[i]
      /\ t[Len(s) + 1] = e
  BY AppendProperties
<1>2. Len(s) \in Nat BY LenProperties
<1>3. t \in [1..Len(t) -> S] BY <1>1, LenProperties
<1>. HIDE DEF t
<1>4. t = [i \in 1..(Len(s) + 1) |-> t[i]] BY <1>1, <1>3
<1>5. \A i \in 1..(Len(s) + 1) : t[i] = IF i = Len(s) + 1 THEN e ELSE s[i] BY <1>1, <1>2
<1>6. t = [i \in 1..(Len(s) + 1) |-> IF i = Len(s) + 1 THEN e ELSE s[i]] BY <1>4, <1>5
<1>. QED BY <1>6 DEF t

LEMMA BelowLast ==
    ASSUME NEW m \in Nat \ {0}
    PROVE  /\ m - 1 \in Nat /\ m \in 1..m
           /\ \A r \in 1..m : r # m => r \in 1..(m - 1)
           /\ \A r \in 1..(m - 1) : r \in 1..m /\ r # m
OBVIOUS

LEMMA RunRowsStep ==
    ASSUME WellFormed, RunsInv, RunMove
    PROVE  /\ runs' \in Seq(Runs!Run) /\ Len(runs') <= MaxRuns /\ Len(runs') > 0
           /\ live' \in BOOLEAN /\ promoted' \in 0..MaxRuns
           /\ DOMAIN runs \subseteq DOMAIN runs'
           /\ Runs!AttemptsFollow' /\ (~live' => Runs!ActiveRuns' = {})
           /\ [Runs!Promise!Next]_(Runs!Promise!promiseVars)
<1>. DEFINE n == Len(runs)
            on == runs[n].state \in Runs!Active
            outcomes == [r \in 1..(n - (IF on THEN 1 ELSE 0)) |-> runs[r].state]
            Rows == /\ runs' \in Seq(Runs!Run) /\ Len(runs') <= MaxRuns /\ Len(runs') > 0
                    /\ live' \in BOOLEAN /\ promoted' \in 0..MaxRuns
                    /\ DOMAIN runs \subseteq DOMAIN runs'
                    /\ Runs!AttemptsFollow' /\ (~live' => Runs!ActiveRuns' = {})
            Promised == [Runs!Promise!Next]_(Runs!Promise!promiseVars)
<1>1. /\ runs \in Seq(Runs!Run) /\ n <= MaxRuns /\ live \in BOOLEAN /\ promoted \in 0..MaxRuns
      /\ Runs!AttemptsFollow /\ (~live => Runs!ActiveRuns = {}) /\ MaxRuns \in Nat
  BY DEF RunsInv, Runs!TypeOK, WellFormed, Runs!RunsAssumption
<1>2. /\ n \in Nat \ {0} /\ DOMAIN runs = 1..n /\ n \in DOMAIN runs
      /\ runs \in [1..n -> Runs!Run]
      /\ \A r \in DOMAIN runs : /\ runs[r].state \in Runs!Active \union Runs!Ended
                                /\ runs[r].version \in Nat \ {0}
                                /\ runs[r].state \in Runs!Active => r = n
  BY RunRows
<1>0. /\ n - 1 \in Nat /\ \A r \in 1..n : r # n => r \in 1..(n - 1)
      /\ \A r \in 1..(n - 1) : r \in 1..n /\ r # n
  BY <1>2, BelowLast
<1>3. CASE UNCHANGED <<runs, live, promoted>>
  <2>1. Rows BY <1>1, <1>2, <1>3 DEF Runs!AttemptsFollow, Runs!ActiveRuns
  <2>2. Promised BY <1>3 DEF Runs!Promise!promiseVars
  <2>. QED BY <2>1, <2>2
<1>4. ASSUME live, UNCHANGED <<live, promoted>>, Runs!ActiveRuns = {},
             NEW s \in Runs!Active, Runs!InsertRun(s)
      PROVE  Rows /\ Promised
  <2>1. [state |-> s, version |-> 1] \in Runs!Run BY DEF Runs!Run
  <2>2. /\ runs' \in Seq(Runs!Run) /\ Len(runs') = n + 1 /\ DOMAIN runs' = 1..(n + 1)
        /\ \A r \in 1..n : runs'[r] = runs[r]
        /\ runs'[n + 1].state = s
    BY <1>1, <1>2, <1>4, <2>1 DEF Runs!InsertRun
  <2>3. \A r \in 1..n : runs[r].state \in Runs!Ended BY <1>2, <1>4 DEF Runs!ActiveRuns
  <2>4. Rows
    <3>1. n + 1 <= MaxRuns BY <1>1, <1>2, <1>4 DEF Runs!InsertRun
    <3>2. Runs!AttemptsFollow' BY <1>2, <2>2, <2>3 DEF Runs!AttemptsFollow
    <3>. QED BY <1>1, <1>2, <1>4, <2>2, <3>1, <3>2
  <2>5. ~on /\ on' BY <1>2, <1>4, <2>2, <2>3 DEF Runs!Active, Runs!Ended
  <2>6. outcomes' = outcomes BY <1>2, <2>2, <2>5
  <2>7. Runs!Promise!Start BY <1>4, <2>5, <2>6 DEF Runs!Promise!Start
  <2>. QED BY <2>4, <2>7 DEF Runs!Promise!Next
<1>5. ASSUME live, UNCHANGED live, runs[Len(runs)].state \in Runs!Active,
             NEW new \in Runs!Ended \union {"processing"}, Runs!EndRun(Len(runs), new),
             promoted' = IF new = "completed" THEN Len(runs) ELSE promoted
      PROVE  Rows /\ Promised
  <2>1. [state |-> new, version |-> runs[n].version + 1] \in Runs!Run
    BY <1>2 DEF Runs!Run, Runs!Active
  <2>2. /\ runs' \in Seq(Runs!Run) /\ Len(runs') = n /\ DOMAIN runs' = 1..n
        /\ runs'[n].state = new
        /\ \A r \in 1..(n - 1) : runs'[r] = runs[r]
    <3>1. runs' = [runs EXCEPT ![n] = [state |-> new, version |-> runs[n].version + 1]]
      BY <1>5 DEF Runs!EndRun
    <3>2. runs' \in Seq(Runs!Run) /\ Len(runs') = n /\ DOMAIN runs' = DOMAIN runs
      BY <1>1, <1>2, <2>1, <3>1, ExceptSeq, LenProperties
    <3>3. runs'[n].state = new BY <1>2, <3>1
    <3>4. \A r \in 1..(n - 1) : r \in DOMAIN runs /\ r # n BY <1>0, <1>2
    <3>5. \A r \in 1..(n - 1) : runs'[r] = runs[r] BY <3>1, <3>4
    <3>. QED BY <1>2, <3>2, <3>3, <3>5
  <2>3. \A r \in 1..(n - 1) : r \in 1..n /\ runs[r].state \in Runs!Ended BY <1>2
  <2>4. Rows
    <3>1. Runs!AttemptsFollow' BY <1>2, <2>2, <2>3 DEF Runs!AttemptsFollow
    <3>2. promoted' \in 0..MaxRuns BY <1>1, <1>2, <1>5
    <3>. QED BY <1>1, <1>2, <1>5, <2>2, <3>1, <3>2
  <2>5. CASE new = "processing"
    <3>1. on /\ on' BY <1>5, <2>2, <2>5 DEF Runs!Active
    <3>2. outcomes' = outcomes
      <4>1. outcomes' = [r \in 1..(n - 1) |-> runs'[r].state] BY <2>2, <3>1
      <4>2. outcomes = [r \in 1..(n - 1) |-> runs[r].state] BY <3>1
      <4>. QED BY <2>2, <4>1, <4>2
    <3>3. UNCHANGED <<promoted, live>> BY <1>5, <2>5
    <3>. QED BY <2>4, <3>1, <3>2, <3>3 DEF Runs!Promise!promiseVars
  <2>6. CASE new \in Runs!Ended
    <3>1. on /\ ~on' BY <1>5, <2>2, <2>6 DEF Runs!Active, Runs!Ended
    <3>2. Len(outcomes) = n - 1 /\ outcomes \in Seq(Runs!Ended)
      <4>1. outcomes = [r \in 1..(n - 1) |-> runs[r].state] BY <3>1
      <4>2. outcomes \in [1..(n - 1) -> Runs!Ended] BY <2>3, <4>1
      <4>3. n - 1 \in Nat BY <1>2
      <4>. QED BY <4>2, <4>3
    <3>3. outcomes' = [r \in 1..n |-> runs'[r].state]
      <4>1. outcomes' = [r \in 1..(n - 0) |-> runs'[r].state] BY <2>2, <3>1
      <4>. QED BY <1>2, <4>1
    <3>4. outcomes' = Append(outcomes, new)
      <4>1. Append(outcomes, new) = [r \in 1..n |-> IF r = n THEN new ELSE runs[r].state]
        <5>1. outcomes = [r \in 1..(n - 1) |-> runs[r].state] BY <3>1
        <5>2. Append(outcomes, new) =
                [r \in 1..(Len(outcomes) + 1) |-> IF r = Len(outcomes) + 1 THEN new ELSE outcomes[r]]
          <6>. HIDE DEF outcomes
          <6>. QED BY <2>6, <3>2, AppendIs
        <5>3. Len(outcomes) + 1 = n BY <1>0, <3>2
        <5>5. \A r \in 1..n : r # n => outcomes[r] = runs[r].state BY <5>1, <1>0
        <5>. QED BY <5>2, <5>3, <5>5
      <4>2. \A r \in 1..n : runs'[r].state = IF r = n THEN new ELSE runs[r].state
        BY <1>0, <2>2
      <4>. QED BY <3>3, <4>1, <4>2
    <3>5. promoted' = IF new = "completed" THEN Len(outcomes) + 1 ELSE promoted BY <1>2, <1>5, <3>2
    <3>6. on /\ on' = FALSE /\ (~live)' = (~live) BY <1>5, <3>1
    <3>7. Runs!Promise!End(new) BY <3>4, <3>5, <3>6 DEF Runs!Promise!End
    <3>. QED BY <2>4, <2>6, <3>7 DEF Runs!Promise!Next, Runs!Ended
  <2>. QED BY <2>5, <2>6
<1>6. ASSUME live, live' = FALSE, UNCHANGED promoted,
             runs' = [r \in DOMAIN runs |-> IF r \in Runs!ActiveRuns
                                         THEN [runs[r] EXCEPT !.state = "cancelled"] ELSE runs[r]]
      PROVE  Rows /\ Promised
  <2>1. \A r \in 1..n : /\ runs'[r] \in Runs!Run
                        /\ runs'[r].state = IF runs[r].state \in Runs!Active THEN "cancelled" ELSE runs[r].state
    BY <1>2, <1>6 DEF Runs!ActiveRuns, Runs!Run, Runs!Ended
  <2>2. runs' \in [1..n -> Runs!Run] BY <1>2, <1>6, <2>1
  <2>3. runs' \in Seq(Runs!Run) /\ Len(runs') = n /\ DOMAIN runs' = 1..n BY <1>2, <2>2
  <2>4. \A r \in 1..n : runs'[r].state \in Runs!Ended BY <1>2, <2>1 DEF Runs!Ended
  <2>5. Rows
    <3>1. Runs!ActiveRuns' = {} BY <2>3, <2>4 DEF Runs!ActiveRuns, Runs!Active, Runs!Ended
    <3>2. Runs!AttemptsFollow' BY <1>2, <2>3, <2>4 DEF Runs!AttemptsFollow
    <3>3. Len(runs') <= MaxRuns /\ Len(runs') > 0 BY <1>1, <1>2, <2>3
    <3>4. live' \in BOOLEAN /\ promoted' \in 0..MaxRuns BY <1>1, <1>6
    <3>. QED BY <1>2, <2>3, <3>1, <3>2, <3>3, <3>4
  <2>6. ~on' BY <1>2, <2>3, <2>4 DEF Runs!Active, Runs!Ended
  <2>7. outcomes' = [r \in 1..n |-> runs'[r].state] BY <2>3, <2>6
  <2>8. outcomes' = IF on THEN Append(outcomes, "cancelled") ELSE outcomes
    <3>1. CASE on
      <4>1. Len(outcomes) = n - 1 BY <1>2, <3>1
      <4>2. Append(outcomes, "cancelled") = [r \in 1..n |-> IF r = n THEN "cancelled" ELSE runs[r].state]
        <5>1. outcomes = [r \in 1..(n - 1) |-> runs[r].state] BY <3>1
        <5>2. outcomes \in [1..(n - 1) -> Runs!Ended \union Runs!Active]
          <6>1. \A r \in 1..(n - 1) : runs[r].state \in Runs!Active \union Runs!Ended BY <1>0, <1>2
          <6>. QED BY <5>1, <6>1
        <5>3. outcomes \in Seq(Runs!Ended \union Runs!Active) BY <1>0, <5>2
        <5>4. Append(outcomes, "cancelled") =
                [r \in 1..(Len(outcomes) + 1) |-> IF r = Len(outcomes) + 1 THEN "cancelled" ELSE outcomes[r]]
          <6>1. "cancelled" \in Runs!Ended \union Runs!Active BY DEF Runs!Ended
          <6>. HIDE DEF outcomes
          <6>. QED BY <5>3, <6>1, AppendIs
        <5>5. Len(outcomes) + 1 = n BY <1>0, <4>1
        <5>7. \A r \in 1..n : r # n => outcomes[r] = runs[r].state BY <1>0, <5>1
        <5>. QED BY <5>4, <5>5, <5>7
      <4>3. \A r \in 1..n : runs'[r].state = IF r = n THEN "cancelled" ELSE runs[r].state
        BY <1>2, <2>1, <3>1
      <4>. QED BY <2>7, <3>1, <4>2, <4>3
    <3>2. CASE ~on
      <4>1. \A r \in 1..n : runs'[r].state = runs[r].state BY <1>2, <2>1, <3>2
      <4>. QED BY <1>2, <2>7, <3>2, <4>1
    <3>. QED BY <3>1, <3>2
  <2>9. Runs!Promise!Delete BY <1>6, <2>6, <2>8 DEF Runs!Promise!Delete
  <2>. QED BY <2>5, <2>9 DEF Runs!Promise!Next
<1>. QED BY <1>3, <1>4, <1>5, <1>6 DEF RunMove

\* What a step does to the keys: nothing, a repeated answer, or a new record.
KeyMove ==
    \/ UNCHANGED <<idem, answers>>
    \/ \E k \in Keys, f \in Fingerprints :
          \/ /\ idem[k].run # 0 /\ idem[k].fingerprint = f
             /\ UNCHANGED idem /\ Runs!Answered(k, f, idem[k].run)
          \/ /\ idem[k].run = 0
             /\ \E r \in DOMAIN runs' : idem' = Runs!Bound(k, f, r) /\ Runs!Answered(k, f, r)

LEMMA KeyMoves ==
    ASSUME RunsInv, [Runs!Next]_runVars
    PROVE  KeyMove
<1>. USE DEF KeyMove
<1>0. \A p \in Procs : call[p].key \in Keys /\ call[p].fingerprint \in Fingerprints
  BY DEF RunsInv, Runs!TypeOK, Runs!Call
<1>1. ASSUME NEW k \in Keys, NEW f \in Fingerprints, NEW p \in Procs, Runs!Resolve(p, k, f) PROVE KeyMove
  BY <1>1 DEF Runs!Resolve
<1>2. ASSUME NEW p \in Procs, NEW k \in Keys, NEW f \in Fingerprints, Runs!StartLookup(p, k, f) PROVE KeyMove
  BY <1>1, <1>2 DEF Runs!StartLookup
<1>3. ASSUME NEW p \in Procs, Runs!StartInsert(p) PROVE KeyMove
  <2>. DEFINE k == call[p].key  f == call[p].fingerprint
  <2>1. CASE UNCHANGED <<idem, answers>> BY <2>1
  <2>2. CASE /\ idem[k].run = 0
             /\ \E s \in Runs!Active : Runs!InsertRun(s)
             /\ idem' = [idem EXCEPT ![k] = [run |-> Len(runs) + 1, fingerprint |-> f]]
             /\ Runs!Answered(k, f, Len(runs) + 1)
    <3>1. PICK s \in Runs!Active : Runs!InsertRun(s) BY <2>2
    <3>2. [state |-> s, version |-> 1] \in Runs!Run BY DEF Runs!Run
    <3>3. Len(runs) + 1 \in DOMAIN runs'
      <4>1. runs' \in Seq(Runs!Run) /\ Len(runs') = Len(runs) + 1
        BY <3>1, <3>2, AppendProperties DEF Runs!InsertRun, RunsInv, Runs!TypeOK
      <4>. QED BY <4>1, RunRows, LenProperties
    <3>4. idem' = Runs!Bound(k, f, Len(runs) + 1) BY <2>2 DEF Runs!Bound
    <3>. QED BY <1>0, <2>2, <3>3, <3>4
  <2>. QED BY <1>3, <2>1, <2>2 DEF Runs!StartInsert
<1>4. ASSUME NEW p \in Procs, Runs!StartFallback(p) PROVE KeyMove
  <2>. DEFINE k == call[p].key  f == call[p].fingerprint
  <2>1. CASE Runs!Resolve(p, k, f) BY <1>0, <1>1, <2>1
  <2>2. CASE /\ idem[k].run = 0 /\ UNCHANGED runs
             /\ idem' = Runs!Bound(k, f, Runs!ActiveOrLatest) /\ Runs!Answered(k, f, Runs!ActiveOrLatest)
    <3>1. Runs!ActiveOrLatest \in DOMAIN runs' BY <2>2, RunRows
    <3>. QED BY <1>0, <2>2, <3>1
  <2>3. CASE UNCHANGED <<idem, answers>> BY <2>3
  <2>. QED BY <1>4, <2>1, <2>2, <2>3 DEF Runs!StartFallback
<1>5. ASSUME NEW p \in Procs, NEW r \in DOMAIN runs, NEW new, Runs!TransitionRead(p, r, new) PROVE KeyMove
  BY <1>5 DEF Runs!TransitionRead
<1>6. ASSUME NEW p \in Procs, Runs!TransitionUpdate(p) PROVE KeyMove BY <1>6 DEF Runs!TransitionUpdate
<1>7. ASSUME NEW p \in Procs, Runs!TransitionCommit(p) PROVE KeyMove BY <1>7 DEF Runs!TransitionCommit
<1>8. ASSUME NEW p \in Procs, Runs!RollBack(p) PROVE KeyMove BY <1>8 DEF Runs!RollBack
<1>9. ASSUME NEW p \in Procs, Runs!SaveLoad(p) PROVE KeyMove BY <1>9 DEF Runs!SaveLoad
<1>10. ASSUME NEW p \in Procs, Runs!SaveRefused(p) PROVE KeyMove BY <1>10 DEF Runs!SaveRefused
<1>11. ASSUME NEW p \in Procs, NEW status \in Runs!Statuses, Runs!Save(p, status) PROVE KeyMove
  BY <1>11 DEF Runs!Save
<1>12. CASE Runs!Delete BY <1>12 DEF Runs!Delete
<1>13. CASE UNCHANGED runVars BY <1>13 DEF runVars
<1>. QED
  BY <1>2, <1>3, <1>4, <1>5, <1>6, <1>7, <1>8, <1>9, <1>10, <1>11, <1>12, <1>13 DEF Runs!Next

LEMMA KeysStep ==
    ASSUME WellFormed, RunsInv, KeyMove, DOMAIN runs' \subseteq 1..MaxRuns
    PROVE  /\ idem' \in [Keys -> Runs!Record]
           /\ answers' \in [Keys \X Fingerprints -> SUBSET (1..MaxRuns)]
           /\ KeysBound'
<1>1. /\ idem \in [Keys -> Runs!Record] /\ KeysBound
      /\ answers \in [Keys \X Fingerprints -> SUBSET (1..MaxRuns)]
  BY DEF RunsInv, Runs!TypeOK
<1>2. CASE UNCHANGED <<idem, answers>> BY <1>1, <1>2 DEF KeysBound
<1>3. ASSUME NEW k \in Keys, NEW f \in Fingerprints, idem[k].run # 0, idem[k].fingerprint = f,
             UNCHANGED idem, Runs!Answered(k, f, idem[k].run)
      PROVE  /\ idem' \in [Keys -> Runs!Record]
             /\ answers' \in [Keys \X Fingerprints -> SUBSET (1..MaxRuns)] /\ KeysBound'
  <2>1. idem[k].run \in 1..MaxRuns
    <3>1. idem[k].run \in 0..MaxRuns /\ MaxRuns \in Nat
      BY <1>1 DEF Runs!Record, WellFormed, Runs!RunsAssumption
    <3>. QED BY <1>3, <3>1
  <2>2. answers' = [answers EXCEPT ![<<k, f>>] = answers[<<k, f>>] \union {idem[k].run}]
    BY <1>3 DEF Runs!Answered
  <2>3. answers' \in [Keys \X Fingerprints -> SUBSET (1..MaxRuns)] BY <1>1, <2>1, <2>2
  <2>4. \A l \in Keys, g \in Fingerprints : answers'[<<l, g>>] =
            IF l = k /\ g = f THEN answers[<<k, f>>] \union {idem[k].run} ELSE answers[<<l, g>>]
    BY <1>1, <2>2
  <2>5. ASSUME NEW l \in Keys, NEW g \in Fingerprints, answers'[<<l, g>>] # {}
        PROVE  idem'[l].run # 0 /\ idem'[l].fingerprint = g /\ answers'[<<l, g>>] = {idem'[l].run}
    <3>1. answers[<<l, g>>] # {} => /\ idem[l].run # 0 /\ idem[l].fingerprint = g
                                    /\ answers[<<l, g>>] = {idem[l].run}
      BY <1>1 DEF KeysBound
    <3>2. CASE l = k /\ g = f
      <4>1. answers'[<<l, g>>] = answers[<<l, g>>] \union {idem[l].run} BY <2>4, <3>2
      <4>. QED BY <1>3, <3>1, <3>2, <4>1
    <3>3. CASE ~(l = k /\ g = f)
      <4>1. answers'[<<l, g>>] = answers[<<l, g>>] BY <2>4, <3>3
      <4>. QED BY <1>3, <2>5, <3>1, <4>1
    <3>. QED BY <3>2, <3>3
  <2>. QED BY <1>1, <1>3, <2>3, <2>5 DEF KeysBound
<1>4. ASSUME NEW k \in Keys, NEW f \in Fingerprints, idem[k].run = 0, NEW r \in DOMAIN runs',
             idem' = Runs!Bound(k, f, r), Runs!Answered(k, f, r)
      PROVE  /\ idem' \in [Keys -> Runs!Record]
             /\ answers' \in [Keys \X Fingerprints -> SUBSET (1..MaxRuns)] /\ KeysBound'
  <2>1. r \in 1..MaxRuns /\ r # 0 /\ r \in 0..MaxRuns
    BY DEF WellFormed, Runs!RunsAssumption
  <2>2. answers' = [answers EXCEPT ![<<k, f>>] = answers[<<k, f>>] \union {r}]
    BY <1>4 DEF Runs!Answered
  <2>3. answers' \in [Keys \X Fingerprints -> SUBSET (1..MaxRuns)] BY <1>1, <2>1, <2>2
  <2>4. \A l \in Keys, g \in Fingerprints : answers'[<<l, g>>] =
            IF l = k /\ g = f THEN answers[<<k, f>>] \union {r} ELSE answers[<<l, g>>]
    BY <1>1, <2>2
  <2>5. idem' = [idem EXCEPT ![k] = [run |-> r, fingerprint |-> f]] BY <1>4 DEF Runs!Bound
  <2>6. idem' \in [Keys -> Runs!Record] BY <1>1, <2>1, <2>5 DEF Runs!Record
  <2>7. \A g \in Fingerprints : answers[<<k, g>>] = {} BY <1>1, <1>4 DEF KeysBound
  <2>8. ASSUME NEW l \in Keys, NEW g \in Fingerprints, answers'[<<l, g>>] # {}
        PROVE  idem'[l].run # 0 /\ idem'[l].fingerprint = g /\ answers'[<<l, g>>] = {idem'[l].run}
    <3>1. CASE l = k
      <4>1. idem'[l] = [run |-> r, fingerprint |-> f] BY <1>1, <2>5, <3>1
      <4>2. g = f BY <2>4, <2>7, <2>8, <3>1
      <4>3. answers'[<<l, g>>] = {r} BY <2>4, <2>7, <3>1, <4>2
      <4>. QED BY <2>1, <4>1, <4>2, <4>3
    <3>2. CASE l # k
      <4>1. idem'[l] = idem[l] /\ answers'[<<l, g>>] = answers[<<l, g>>] BY <1>1, <2>4, <2>5, <3>2
      <4>. QED BY <1>1, <2>8, <4>1 DEF KeysBound
    <3>. QED BY <3>1, <3>2
  <2>. QED BY <2>3, <2>6, <2>8 DEF KeysBound
<1>. QED BY <1>2, <1>3, <1>4 DEF KeyMove

\* What a step does to the processes: one goes on, and a run that is held
\* afterwards keeps its state.
ProcMove ==
    /\ \A q \in Procs : held'[q] # 0 => runs'[held'[q]].state = runs[held'[q]].state
    /\ \/ UNCHANGED <<pc, call, held>>
       \/ \E p \in Procs :
             \/ Runs!Return(p)
             \/ \E c \in Runs!Call, step \in {"start", "fallback", "save"} :
                   pc[p] # "commit" /\ Runs!Keep(p, step, c)
             \/ \E c \in Runs!Call :
                   /\ c.run \in DOMAIN runs /\ c.new \in Runs!Allowed[c.was]
                   /\ pc[p] = "idle" /\ Runs!Keep(p, "transition", c)
             \/ /\ pc[p] = "transition" /\ ~Runs!Locked(call[p].run) /\ Runs!Matches(call[p])
                /\ pc' = [pc EXCEPT ![p] = "commit"] /\ held' = [held EXCEPT ![p] = call[p].run]
                /\ UNCHANGED call

\* Without a held run there is nothing to keep; a held run is the last one.
LEMMA HeldRuns ==
    ASSUME RunsInv, NEW q \in Procs, held[q] # 0
    PROVE  held[q] = Len(runs) /\ Runs!Locked(Len(runs)) /\ runs[Len(runs)].state \in Runs!Active
BY Updating DEF RunsInv, TransitionsSound, Runs!Locked

LEMMA ProcMoves ==
    ASSUME WellFormed, RunsInv, [Runs!Next]_runVars
    PROVE  ProcMove
<1>. DEFINE Kept == \A q \in Procs : held'[q] # 0 => runs'[held'[q]].state = runs[held'[q]].state
<1>0. /\ \A p \in Procs : call[p] \in Runs!Call /\ pc[p] \in {"idle", "start", "fallback", "transition", "commit", "save"}
      /\ held \in [Procs -> 0..MaxRuns] /\ version \in Nat /\ MaxRuns \in Nat
      /\ runs \in Seq(Runs!Run) /\ Len(runs) <= MaxRuns
  BY DEF RunsInv, Runs!TypeOK, WellFormed, Runs!RunsAssumption
<1>1. UNCHANGED runs => Kept OBVIOUS
<1>2. ASSUME NEW p \in Procs, Runs!Return(p), ~Runs!Locked(Len(runs)) \/ held[p] = Len(runs)
      PROVE  Kept
  <2>1. SUFFICES ASSUME NEW q \in Procs, held'[q] # 0 PROVE FALSE OBVIOUS
  <2>2. q # p /\ held'[q] = held[q] BY <1>0, <1>2, <2>1 DEF Runs!Return
  <2>3. held[q] = Len(runs) /\ Runs!Locked(Len(runs)) BY <2>1, <2>2, HeldRuns
  <2>4. held[p] = Len(runs) /\ held[p] # 0 BY <1>2, <2>1, <2>2, <2>3
  <2>. QED BY <2>2, <2>3, <2>4 DEF RunsInv, TransitionsSound
<1>3. ASSUME NEW p \in Procs, Runs!Return(p), UNCHANGED runs PROVE ProcMove
  BY <1>1, <1>3 DEF ProcMove
<1>4. ASSUME NEW p \in Procs, Runs!Return(p), ~Runs!Locked(Len(runs)) \/ held[p] = Len(runs) PROVE ProcMove
  BY <1>2, <1>4 DEF ProcMove
<1>5. ASSUME NEW p \in Procs, NEW k \in Keys, NEW f \in Fingerprints, Runs!StartLookup(p, k, f) PROVE ProcMove
  <2>1. CASE Runs!Resolve(p, k, f) BY <1>3, <2>1 DEF Runs!Resolve
  <2>2. CASE Runs!Keep(p, "start", Runs!Asked(k, f)) /\ UNCHANGED runs
    <3>1. Runs!Asked(k, f) \in Runs!Call BY <1>0 DEF Runs!Call, Runs!Active, Runs!Asked
    <3>. QED BY <1>1, <1>5, <2>2, <3>1 DEF ProcMove, Runs!StartLookup
  <2>. QED BY <1>5, <2>1, <2>2 DEF Runs!StartLookup
<1>6. ASSUME NEW p \in Procs, Runs!StartInsert(p) PROVE ProcMove
  <2>1. CASE Runs!Return(p) /\ UNCHANGED runs BY <1>3, <2>1
  <2>2. CASE Runs!Return(p) /\ ~Runs!Locked(Len(runs)) BY <1>4, <2>2
  <2>3. CASE Runs!Keep(p, "fallback", call[p]) /\ UNCHANGED runs
    BY <1>0, <1>1, <1>6, <2>3 DEF ProcMove, Runs!StartInsert
  <2>. QED BY <1>6, <2>1, <2>2, <2>3 DEF Runs!StartInsert
<1>7. ASSUME NEW p \in Procs, Runs!StartFallback(p) PROVE ProcMove
  BY <1>3, <1>7 DEF Runs!StartFallback, Runs!Resolve
<1>8. ASSUME NEW p \in Procs, NEW r \in DOMAIN runs, NEW new \in Runs!Ended \union {"processing"},
             Runs!TransitionRead(p, r, new)
      PROVE  ProcMove
  <2>1. PICK v \in 1..runs[r].version :
            Runs!Keep(p, "transition", [key |-> Runs!NoCall.key, fingerprint |-> Runs!NoCall.fingerprint,
                                        run |-> r, was |-> runs[r].state, version |-> v, new |-> new])
    BY <1>8 DEF Runs!TransitionRead
  <2>. DEFINE c == [key |-> Runs!NoCall.key, fingerprint |-> Runs!NoCall.fingerprint,
                    run |-> r, was |-> runs[r].state, version |-> v, new |-> new]
  <2>3. /\ Runs!NoCall.key \in Keys /\ Runs!NoCall.fingerprint \in Fingerprints
        /\ r \in 0..MaxRuns /\ runs[r].state \in Runs!Active \union Runs!Ended /\ v \in Nat
        /\ new \in Runs!Active \union Runs!Ended
    <3>1. Runs!NoCall.key \in Keys /\ Runs!NoCall.fingerprint \in Fingerprints
      BY NoCallType DEF Runs!Call
    <3>2. r \in 0..MaxRuns BY <1>0, RunRows
    <3>3. runs[r].state \in Runs!Active \union Runs!Ended /\ v \in Nat BY RunRows
    <3>. QED BY <3>1, <3>2, <3>3 DEF Runs!Active
  <2>4. c \in Runs!Call /\ c.run = r /\ c.was = runs[r].state /\ c.new = new
    BY <2>3 DEF Runs!Call
  <2>. HIDE DEF c
  <2>5. Runs!Keep(p, "transition", c) BY <2>1 DEF c
  <2>. QED BY <1>1, <1>8, <2>4, <2>5 DEF ProcMove, Runs!TransitionRead
<1>9. ASSUME NEW p \in Procs, Runs!TransitionUpdate(p) PROVE ProcMove
  BY <1>1, <1>3, <1>9 DEF Runs!TransitionUpdate, ProcMove
<1>10. ASSUME NEW p \in Procs, Runs!TransitionCommit(p) PROVE ProcMove
  BY <1>4, <1>10, Updating DEF Runs!TransitionCommit
<1>11. ASSUME NEW p \in Procs, Runs!RollBack(p) PROVE ProcMove BY <1>3, <1>11 DEF Runs!RollBack
<1>12. ASSUME NEW p \in Procs, Runs!SaveLoad(p) PROVE ProcMove
  <2>1. [Runs!NoCall EXCEPT !.version = version] \in Runs!Call
    BY <1>0, NoCallType DEF Runs!Call
  <2>. QED BY <1>1, <1>12, <2>1 DEF ProcMove, Runs!SaveLoad
<1>13. ASSUME NEW p \in Procs, Runs!SaveRefused(p) PROVE ProcMove BY <1>3, <1>13 DEF Runs!SaveRefused
<1>14. ASSUME NEW p \in Procs, NEW status \in Runs!Statuses, Runs!Save(p, status) PROVE ProcMove
  BY <1>4, <1>14, RunRows DEF Runs!Save
<1>15. CASE Runs!Delete
  <2>1. \A q \in Procs : held'[q] = 0
    BY <1>0, <1>15, HeldRuns, RunRows DEF Runs!Delete
  <2>. QED BY <1>15, <2>1 DEF ProcMove, Runs!Delete
<1>16. CASE UNCHANGED runVars BY <1>1, <1>16 DEF runVars, ProcMove
<1>. QED
  BY <1>5, <1>6, <1>7, <1>8, <1>9, <1>10, <1>11, <1>12, <1>13, <1>14, <1>15, <1>16 DEF Runs!Next

LEMMA ProcsStep ==
    ASSUME WellFormed, RunsInv, ProcMove, DOMAIN runs \subseteq DOMAIN runs'
    PROVE  /\ pc' \in [Procs -> {"idle", "start", "fallback", "transition", "commit", "save"}]
           /\ call' \in [Procs -> Runs!Call] /\ held' \in [Procs -> 0..MaxRuns]
           /\ TransitionsSound'
<1>. DEFINE Types == /\ pc' \in [Procs -> {"idle", "start", "fallback", "transition", "commit", "save"}]
                     /\ call' \in [Procs -> Runs!Call] /\ held' \in [Procs -> 0..MaxRuns]
            Sound(p, l) == /\ held'[p] # 0 => pc'[p] = "commit"
                           /\ pc'[p] = "commit" => held'[p] = call'[p].run /\ l = call'[p].was
                           /\ pc'[p] \in {"transition", "commit"} =>
                                 call'[p].run \in DOMAIN runs /\ call'[p].new \in Runs!Allowed[call'[p].was]
                           /\ \A q \in Procs : held'[p] # 0 /\ held'[q] = held'[p] => q = p
<1>0. /\ pc \in [Procs -> {"idle", "start", "fallback", "transition", "commit", "save"}]
      /\ call \in [Procs -> Runs!Call] /\ held \in [Procs -> 0..MaxRuns]
      /\ MaxRuns \in Nat /\ Len(runs) <= MaxRuns
  BY DEF RunsInv, Runs!TypeOK, WellFormed, Runs!RunsAssumption
<1>1. \A p \in Procs :
        /\ held[p] # 0 => pc[p] = "commit"
        /\ pc[p] = "commit" => held[p] = call[p].run /\ runs[held[p]].state = call[p].was
        /\ pc[p] \in {"transition", "commit"} =>
              call[p].run \in DOMAIN runs /\ call[p].new \in Runs!Allowed[call[p].was]
        /\ \A q \in Procs : held[p] # 0 /\ held[q] = held[p] => q = p
  BY DEF RunsInv, TransitionsSound
<1>2. DOMAIN runs = 1..Len(runs) /\ Len(runs) \in Nat \ {0} BY RunRows
<1>3. Types /\ \A p \in Procs : Sound(p, runs[held'[p]].state)
  <2>1. CASE UNCHANGED <<pc, call, held>> BY <1>0, <1>1, <2>1
  <2>2. ASSUME NEW p \in Procs, Runs!Return(p) PROVE Types /\ \A q \in Procs : Sound(q, runs[held'[q]].state)
    <3>1. /\ pc' = [pc EXCEPT ![p] = "idle"] /\ call' = [call EXCEPT ![p] = Runs!NoCall]
          /\ held' = [held EXCEPT ![p] = 0]
      BY <2>2 DEF Runs!Return
    <3>. QED BY <1>0, <1>1, <3>1, NoCallType
  <2>3. ASSUME NEW p \in Procs, NEW c \in Runs!Call, NEW step \in {"start", "fallback", "save"},
               pc[p] # "commit", Runs!Keep(p, step, c)
        PROVE  Types /\ \A q \in Procs : Sound(q, runs[held'[q]].state)
    <3>1. /\ pc' = [pc EXCEPT ![p] = step] /\ call' = [call EXCEPT ![p] = c] /\ held' = held
      BY <2>3 DEF Runs!Keep
    <3>. QED BY <1>0, <1>1, <2>3, <3>1
  <2>4. ASSUME NEW p \in Procs, NEW c \in Runs!Call, c.run \in DOMAIN runs, c.new \in Runs!Allowed[c.was],
               pc[p] = "idle", Runs!Keep(p, "transition", c)
        PROVE  Types /\ \A q \in Procs : Sound(q, runs[held'[q]].state)
    <3>1. /\ pc' = [pc EXCEPT ![p] = "transition"] /\ call' = [call EXCEPT ![p] = c] /\ held' = held
      BY <2>4 DEF Runs!Keep
    <3>. QED BY <1>0, <1>1, <2>4, <3>1
  <2>5. ASSUME NEW p \in Procs, pc[p] = "transition", ~Runs!Locked(call[p].run), Runs!Matches(call[p]),
               pc' = [pc EXCEPT ![p] = "commit"], held' = [held EXCEPT ![p] = call[p].run], UNCHANGED call
        PROVE  Types /\ \A q \in Procs : Sound(q, runs[held'[q]].state)
    <3>1. call[p].run \in DOMAIN runs /\ runs[call[p].run].state = call[p].was
      BY <1>1, <2>5 DEF Runs!Matches
    <3>2. \A q \in Procs : held[q] # call[p].run BY <2>5 DEF Runs!Locked
    <3>3. call[p].run \in 0..MaxRuns BY <1>0, <1>2, <3>1
    <3>4. Types BY <1>0, <2>5, <3>3
    <3>5. \A q \in Procs : /\ held'[q] = IF q = p THEN call[p].run ELSE held[q]
                           /\ pc'[q] = IF q = p THEN "commit" ELSE pc[q]
      BY <1>0, <2>5
    <3>6. \A q \in Procs : Sound(q, runs[held'[q]].state) BY <1>1, <2>5, <3>1, <3>2, <3>5
    <3>. QED BY <3>4, <3>6
  <2>. QED BY <2>1, <2>2, <2>3, <2>4, <2>5 DEF ProcMove
<1>4. TransitionsSound'
  <2>1. \A p \in Procs : pc'[p] = "commit" => held'[p] # 0 BY <1>2, <1>3
  <2>2. \A p \in Procs : held'[p] # 0 => runs'[held'[p]].state = runs[held'[p]].state BY DEF ProcMove
  <2>. QED BY <1>3, <2>1, <2>2 DEF TransitionsSound
<1>. QED BY <1>3, <1>4

\* The columns of the analysis take the states of its runs and of the job.
LEMMA ColumnsStep ==
    ASSUME WellFormed, RunsInv, [Runs!Next]_runVars
    PROVE  state' \in Runs!Statuses \union Runs!Ended \union Runs!Active /\ version' \in Nat
<1>. DEFINE Columns == state' \in Runs!Statuses \union Runs!Ended \union Runs!Active /\ version' \in Nat
<1>0. state \in Runs!Statuses \union Runs!Ended \union Runs!Active /\ version \in Nat
  BY DEF RunsInv, Runs!TypeOK
<1>1. UNCHANGED <<state, version>> => Columns BY <1>0
<1>2. ASSUME NEW s \in Runs!Statuses \union Runs!Ended \union Runs!Active, state' = s,
             version' = version + 1
      PROVE  Columns
  BY <1>0, <1>2
<1>. USE DEF Runs!analysisVars
<1>3. ASSUME NEW p \in Procs, NEW k \in Keys, NEW f \in Fingerprints, Runs!StartLookup(p, k, f) PROVE Columns
  BY <1>1, <1>3 DEF Runs!StartLookup, Runs!Resolve
<1>4. ASSUME NEW p \in Procs, Runs!StartInsert(p) PROVE Columns
  BY <1>1, <1>2, <1>4 DEF Runs!StartInsert, Runs!Statuses
<1>5. ASSUME NEW p \in Procs, Runs!StartFallback(p) PROVE Columns
  BY <1>1, <1>5 DEF Runs!StartFallback, Runs!Resolve
<1>6. ASSUME NEW p \in Procs, NEW r \in DOMAIN runs, NEW new, Runs!TransitionRead(p, r, new) PROVE Columns
  BY <1>1, <1>6 DEF Runs!TransitionRead
<1>7. ASSUME NEW p \in Procs, Runs!TransitionUpdate(p) PROVE Columns BY <1>1, <1>7 DEF Runs!TransitionUpdate
<1>8. ASSUME NEW p \in Procs, Runs!TransitionCommit(p) PROVE Columns
  <2>1. call[p].new \in Runs!Statuses \union Runs!Ended \union Runs!Active
    BY <1>8, Updating DEF Runs!TransitionCommit, Runs!Active
  <2>. QED BY <1>1, <1>2, <1>8, <2>1 DEF Runs!TransitionCommit
<1>9. ASSUME NEW p \in Procs, Runs!RollBack(p) PROVE Columns BY <1>1, <1>9 DEF Runs!RollBack
<1>10. ASSUME NEW p \in Procs, Runs!SaveLoad(p) PROVE Columns BY <1>1, <1>10 DEF Runs!SaveLoad
<1>11. ASSUME NEW p \in Procs, Runs!SaveRefused(p) PROVE Columns BY <1>1, <1>11 DEF Runs!SaveRefused
<1>12. ASSUME NEW p \in Procs, NEW status \in Runs!Statuses, Runs!Save(p, status) PROVE Columns
  BY <1>2, <1>12 DEF Runs!Save
<1>13. CASE Runs!Delete BY <1>0, <1>13 DEF Runs!Delete
<1>14. CASE UNCHANGED runVars BY <1>1, <1>14 DEF runVars
<1>. QED
  BY <1>3, <1>4, <1>5, <1>6, <1>7, <1>8, <1>9, <1>10, <1>11, <1>12, <1>13, <1>14 DEF Runs!Next

LEMMA RunsStep ==
    ASSUME WellFormed, RunsInv, [Runs!Next]_runVars
    PROVE  RunsInv'
<1>1. /\ runs' \in Seq(Runs!Run) /\ Len(runs') <= MaxRuns /\ Len(runs') > 0
      /\ live' \in BOOLEAN /\ promoted' \in 0..MaxRuns
      /\ DOMAIN runs \subseteq DOMAIN runs'
      /\ Runs!AttemptsFollow' /\ (~live' => Runs!ActiveRuns' = {})
  BY RunMoves, RunRowsStep
<1>2. DOMAIN runs' \subseteq 1..MaxRuns
  <2>1. DOMAIN runs' = 1..Len(runs') /\ Len(runs') \in Nat BY <1>1, LenProperties
  <2>. QED BY <1>1, <2>1 DEF WellFormed, Runs!RunsAssumption
<1>3. /\ idem' \in [Keys -> Runs!Record]
      /\ answers' \in [Keys \X Fingerprints -> SUBSET (1..MaxRuns)] /\ KeysBound'
  BY <1>2, KeyMoves, KeysStep
<1>4. /\ pc' \in [Procs -> {"idle", "start", "fallback", "transition", "commit", "save"}]
      /\ call' \in [Procs -> Runs!Call] /\ held' \in [Procs -> 0..MaxRuns] /\ TransitionsSound'
  BY <1>1, ProcMoves, ProcsStep
<1>. QED BY <1>1, <1>3, <1>4, ColumnsStep DEF RunsInv, Runs!TypeOK

LEMMA RunsCompose == [Next]_vars => [Runs!Next]_runVars
  BY DEF Next, vars, runVars

LEMMA RunsInvariance == Spec => []RunsInv
<1>1. Init => RunsInv BY RunsInit, WellFormed DEF Init
<1>2. RunsInv /\ [Next]_vars => RunsInv' BY RunsStep, RunsCompose, WellFormed
<1>. QED BY <1>1, <1>2, PTL DEF Spec

\* One run at a time, ended runs never change, the result is the last run that
\* completed, and a deleted match runs nothing (start_run, transition_run,
\* persist_job, the claim of a deletion).
THEOREM RunRefinement == Spec => KeepsRunPromise
<1>1. Init => Runs!Promise!Init
  <2>1. ASSUME Runs!Init PROVE Runs!Promise!Init
    <3>1. Len(runs) = 1 /\ runs[1].state = "processing" /\ promoted = 0 /\ live = TRUE BY <2>1 DEF Runs!Init
    <3>2. runs[Len(runs)].state \in Runs!Active BY <3>1 DEF Runs!Active
    <3>3. [r \in 1..(Len(runs) - (IF runs[Len(runs)].state \in Runs!Active THEN 1 ELSE 0)) |-> runs[r].state]
            = << >>
      BY <3>1, <3>2
    <3>. QED BY <3>1, <3>2, <3>3 DEF Runs!Promise!Init
  <2>. QED BY <2>1 DEF Init
<1>2. RunsInv /\ [Next]_vars => [Runs!Promise!Next]_(Runs!Promise!promiseVars)
  BY RunsCompose, RunMoves, RunRowsStep, WellFormed
<1>. QED BY <1>1, <1>2, RunsInvariance, PTL DEF Spec, KeepsRunPromise, Runs!KeepsRunPromise, Runs!Promise!Spec

\* A key names one run, and no attempt of a run or of the ball stage overlaps
\* the one it follows.
THEOREM AttemptsFollowTheorem == Spec => []AttemptsFollow
<1>1. RunsInv => Runs!TypeOK /\ Runs!KeyNamesOneRun /\ Runs!AttemptsFollow
  <2>1. ASSUME RunsInv, NEW k \in Keys, NEW f \in Fingerprints, NEW g \in Fingerprints,
               answers[<<k, f>>] # {}, answers[<<k, g>>] # {}
        PROVE  f = g /\ \A r, s \in answers[<<k, f>>] : r = s
    BY <2>1 DEF RunsInv, KeysBound
  <2>. QED BY <2>1 DEF RunsInv, Runs!KeyNamesOneRun
<1>2. BallInv => Ball!TypeOK /\ Ball!RerunFollows /\ Ball!CompletedEvidenceKept BY DEF BallInv
<1>. QED BY <1>1, <1>2, RunsInvariance, BallInvariance, PTL DEF AttemptsFollow

-----------------------------------------------------------------------------
(* Sums of finite functions, counted unit by unit.                          *)

LEMMA SameCardinality ==
    /\ \A T : Disk!IsFiniteSet(T) <=> IsFiniteSet(T)
    /\ \A T : Disk!Cardinality(T) = Cardinality(T)
<1>1. \A T : Disk!IsFiniteSet(T) <=> IsFiniteSet(T) BY DEF Disk!IsFiniteSet, IsFiniteSet
<1>2. \A T : Disk!Cardinality(T) = Cardinality(T) BY DEF Disk!Cardinality, Cardinality
<1>. QED BY <1>1, <1>2

LEMMA UnitsAre ==
    ASSUME NEW f
    PROVE  \A u : u \in Disk!Units(f) <=> \E x \in DOMAIN f : \E i \in 1..f[x] : u = <<x, i>>
BY DEF Disk!Units

\* The units of one element.
LEMMA RowUnits ==
    ASSUME NEW x, NEW n \in Nat
    PROVE  IsFiniteSet({x} \X (1..n)) /\ Cardinality({x} \X (1..n)) = n
<1>1. IsFiniteSet(1..n) /\ Cardinality(1..n) = n
  <2>1. IsFiniteSet(1..n) /\ Cardinality(1..n) = IF 1 > n THEN 0 ELSE n - 1 + 1 BY FS_Interval
  <2>. QED BY <2>1
<1>2. IsFiniteSet({x}) /\ Cardinality({x}) = 1 BY FS_Singleton
<1>3. IsFiniteSet({x} \X (1..n)) /\ Cardinality({x} \X (1..n)) = 1 * n
  BY <1>1, <1>2, FS_Product
<1>. QED BY <1>3

LEMMA FiniteUnits ==
    ASSUME NEW D, IsFiniteSet(D), NEW f \in [D -> Nat]
    PROVE  /\ IsFiniteSet(Disk!Units(f))
           /\ Disk!Total(f) = Cardinality(Disk!Units(f)) /\ Disk!Total(f) \in Nat
<1>. DEFINE rows == {{x} \X (1..f[x]) : x \in D}
            row == [x \in D |-> {x} \X (1..f[x])]
<1>1. row \in Surjection(D, rows) BY DEF Surjection
<1>2. IsFiniteSet(rows)
  <2>. HIDE DEF row, rows
  <2>. QED BY <1>1, FS_Surjection
<1>3. \A T \in rows : IsFiniteSet(T)
  <2>1. ASSUME NEW x \in D PROVE IsFiniteSet({x} \X (1..f[x]))
    <3>1. f[x] \in Nat OBVIOUS
    <3>. QED BY <3>1, RowUnits
  <2>. QED BY <2>1
<1>4. IsFiniteSet(UNION rows)
  <2>. HIDE DEF rows
  <2>. QED BY <1>2, <1>3, FS_UNION
<1>5. Disk!Units(f) = UNION rows BY DEF Disk!Units
<1>6. IsFiniteSet(Disk!Units(f)) BY <1>4, <1>5
<1>. QED BY <1>6, FS_CardinalityType, SameCardinality DEF Disk!Total

\* A sum over two disjoint parts.
LEMMA SplitTotal ==
    ASSUME NEW D, IsFiniteSet(D), NEW f \in [D -> Nat], NEW S \in SUBSET D
    PROVE  Disk!Total(f) = Disk!Total([x \in S |-> f[x]]) + Disk!Total([x \in D \ S |-> f[x]])
<1>. DEFINE g == [x \in S |-> f[x]]
            h == [x \in D \ S |-> f[x]]
<1>1. IsFiniteSet(S) /\ IsFiniteSet(D \ S) BY FS_Subset
<1>2. g \in [S -> Nat] /\ h \in [D \ S -> Nat] OBVIOUS
<1>3. Disk!Units(f) = Disk!Units(g) \union Disk!Units(h)
  <2>1. \A u : u \in Disk!Units(g) <=> \E x \in S : \E i \in 1..f[x] : u = <<x, i>> BY UnitsAre
  <2>2. \A u : u \in Disk!Units(h) <=> \E x \in D \ S : \E i \in 1..f[x] : u = <<x, i>> BY UnitsAre
  <2>3. \A u : u \in Disk!Units(f) <=> \E x \in D : \E i \in 1..f[x] : u = <<x, i>> BY UnitsAre
  <2>. HIDE DEF g, h
  <2>. QED BY <2>1, <2>2, <2>3
<1>4. Disk!Units(g) \intersect Disk!Units(h) = {} BY UnitsAre
<1>. HIDE DEF g, h
<1>5. /\ IsFiniteSet(Disk!Units(g)) /\ Disk!Total(g) = Cardinality(Disk!Units(g)) /\ Disk!Total(g) \in Nat
      /\ IsFiniteSet(Disk!Units(h)) /\ Disk!Total(h) = Cardinality(Disk!Units(h)) /\ Disk!Total(h) \in Nat
  BY <1>1, <1>2, FiniteUnits
<1>6. Cardinality(Disk!Units(g) \intersect Disk!Units(h)) = 0 BY <1>4, FS_EmptySet
<1>7. Cardinality(Disk!Units(f)) = Disk!Total(g) + Disk!Total(h) - 0
  BY <1>3, <1>5, <1>6, FS_Union
<1>8. Disk!Total(f) = Cardinality(Disk!Units(f)) BY FiniteUnits
<1>9. Disk!Total(f) = Disk!Total(g) + Disk!Total(h) BY <1>5, <1>7, <1>8
<1>. QED BY <1>9 DEF g, h

LEMMA SingleTotal ==
    ASSUME NEW x, NEW f, DOMAIN f = {x}, f[x] \in Nat
    PROVE  Disk!Total(f) = f[x]
<1>1. Disk!Units(f) = {x} \X (1..f[x]) BY UnitsAre
<1>. QED BY <1>1, RowUnits, SameCardinality DEF Disk!Total

\* The sum after one element changed or was added.
LEMMA UpdateTotal ==
    ASSUME NEW D, IsFiniteSet(D), NEW f \in [D -> Nat], NEW x, NEW g \in [D \union {x} -> Nat],
           \A y \in D \ {x} : g[y] = f[y]
    PROVE  Disk!Total(g) = Disk!Total(f) + g[x] - (IF x \in D THEN f[x] ELSE 0)
<1>. DEFINE E == D \union {x}
            rest == [y \in D \ {x} |-> f[y]]
<1>1. IsFiniteSet(E) /\ IsFiniteSet(D \ {x}) BY FS_AddElement, FS_RemoveElement
<1>2. Disk!Total(rest) \in Nat
  <2>1. rest \in [D \ {x} -> Nat] OBVIOUS
  <2>. HIDE DEF rest
  <2>. QED BY <1>1, <2>1, FiniteUnits
<1>3. Disk!Total(g) = g[x] + Disk!Total(rest)
  <2>1. {x} \in SUBSET E /\ E \ {x} = D \ {x} OBVIOUS
  <2>2. Disk!Total(g) = Disk!Total([y \in {x} |-> g[y]]) + Disk!Total([y \in E \ {x} |-> g[y]])
    <3>. HIDE DEF E
    <3>1. g \in [E -> Nat] BY DEF E
    <3>. QED BY <1>1, <2>1, <3>1, SplitTotal
  <2>3. [y \in E \ {x} |-> g[y]] = rest BY <2>1
  <2>4. Disk!Total([y \in {x} |-> g[y]]) = g[x]
    <3>. DEFINE one == [y \in {x} |-> g[y]]
    <3>1. DOMAIN one = {x} /\ one[x] = g[x] /\ one[x] \in Nat OBVIOUS
    <3>. HIDE DEF one
    <3>2. Disk!Total(one) = g[x] BY <3>1, SingleTotal
    <3>. QED BY <3>2 DEF one
  <2>. QED BY <2>2, <2>3, <2>4
<1>4. CASE x \in D
  <2>1. Disk!Total(f) = Disk!Total([y \in {x} |-> f[y]]) + Disk!Total(rest)
    BY <1>4, SplitTotal
  <2>2. Disk!Total([y \in {x} |-> f[y]]) = f[x]
    <3>. DEFINE one == [y \in {x} |-> f[y]]
    <3>1. DOMAIN one = {x} /\ one[x] = f[x] /\ one[x] \in Nat BY <1>4
    <3>. HIDE DEF one
    <3>2. Disk!Total(one) = f[x] BY <3>1, SingleTotal
    <3>. QED BY <3>2 DEF one
  <2>3. f[x] \in Nat /\ g[x] \in Nat BY <1>4
  <2>. HIDE DEF rest
  <2>. QED BY <1>2, <1>3, <1>4, <2>1, <2>2, <2>3
<1>5. CASE x \notin D
  <2>1. rest = f BY <1>5
  <2>2. g[x] \in Nat OBVIOUS
  <2>. HIDE DEF rest
  <2>. QED BY <1>2, <1>3, <1>5, <2>1, <2>2
<1>. QED BY <1>4, <1>5

LEMMA ZeroTotal ==
    ASSUME NEW f, \A x \in DOMAIN f : f[x] = 0
    PROVE  Disk!Total(f) = 0
<1>1. Disk!Units(f) = {} BY UnitsAre
<1>. QED BY <1>1, FS_EmptySet, SameCardinality DEF Disk!Total

\* A sum is at most another, when each element is below an element of its own.
LEMMA BackedTotal ==
    ASSUME NEW D, IsFiniteSet(D), NEW f \in [D -> Nat], NEW E, IsFiniteSet(E), NEW g \in [E -> Nat],
           NEW b \in [D -> E], \A x, y \in D : b[x] = b[y] => x = y,
           \A x \in D : f[x] <= g[b[x]]
    PROVE  Disk!Total(f) <= Disk!Total(g)
<1>. DEFINE into == [u \in Disk!Units(f) |-> <<b[u[1]], u[2]>>]
<1>1. ASSUME NEW u \in Disk!Units(f)
      PROVE  /\ u[1] \in D /\ u[2] \in 1..f[u[1]] /\ u = <<u[1], u[2]>>
             /\ <<b[u[1]], u[2]>> \in Disk!Units(g)
  <2>1. PICK x \in D : \E i \in 1..f[x] : u = <<x, i>> BY UnitsAre
  <2>2. PICK i \in 1..f[x] : u = <<x, i>> BY <2>1
  <2>3. b[x] \in E /\ f[x] \in Nat /\ g[b[x]] \in Nat /\ f[x] <= g[b[x]] OBVIOUS
  <2>4. i \in 1..g[b[x]] BY <2>3
  <2>5. DOMAIN g = E OBVIOUS
  <2>6. <<b[x], i>> \in Disk!Units(g) BY <2>3, <2>4, <2>5, UnitsAre
  <2>. QED BY <2>2, <2>6
<1>2. into \in [Disk!Units(f) -> Disk!Units(g)] BY <1>1
<1>3. ASSUME NEW u \in Disk!Units(f), NEW v \in Disk!Units(f), into[u] = into[v] PROVE u = v
  <2>1. b[u[1]] = b[v[1]] /\ u[2] = v[2] BY <1>3
  <2>2. u[1] = v[1] BY <1>1, <2>1
  <2>. QED BY <1>1, <2>1, <2>2
<1>4. into \in Injection(Disk!Units(f), Disk!Units(g))
  <2>. HIDE DEF into
  <2>. QED BY <1>2, <1>3 DEF Injection, IsInjective
<1>. HIDE DEF into
<1>5. Cardinality(Disk!Units(f)) <= Cardinality(Disk!Units(g))
  BY <1>4, FiniteUnits, FS_Injection
<1>. QED BY <1>5, FiniteUnits

-----------------------------------------------------------------------------
(* The volume of the workspaces.                                            *)

\* What a request was admitted for and has yet to write is backed by one of its
\* reservations, until it releases it; a deleted workspace expects no bytes.
Backed ==
    /\ \A r \in Requests : planned[r] = 0
          \/ \E k \in Disk!Kinds : <<r, k>> \in DOMAIN kept /\ planned[r] <= kept[<<r, k>>]
    /\ \A r \in Requests : phase[r] = "removed" => planned[r] = 0

DiskInv ==
    /\ Disk!TypeOK /\ Disk!CountersMatchHeld /\ Disk!LimitsKept
    /\ Disk!ReadsBounded /\ Disk!HardStopKept /\ Backed

Slots == Disk!Kinds \ Disk!ReadKinds

LEMMA DiskSizes ==
    ASSUME WellFormed
    PROVE  /\ DiskSize \in Nat /\ HardStop \in Nat /\ MaxActive \in Nat /\ MaxReads \in Nat
           /\ ReadLimit \in Nat /\ MaxSize \in Nat /\ UploadReserve \in Nat
           /\ MaxUpload \in 1..UploadReserve /\ HardStop < DiskSize
           /\ IsFiniteSet(Requests) /\ IsFiniteSet(Requests \X Disk!Kinds)
<1>1. IsFiniteSet(Requests) BY SameCardinality DEF WellFormed, Disk!SizesFit
<1>2. IsFiniteSet(Disk!Kinds)
  <2>1. IsFiniteSet({"read"}) BY FS_Singleton
  <2>2. IsFiniteSet({"read"} \union {"diagnostic"}) BY <2>1, FS_AddElement
  <2>3. IsFiniteSet({"read"} \union {"diagnostic"} \union {"work"}) BY <2>2, FS_AddElement
  <2>4. IsFiniteSet({"read"} \union {"diagnostic"} \union {"work"} \union {"upload"})
    BY <2>3, FS_AddElement
  <2>5. Disk!Kinds = {"read"} \union {"diagnostic"} \union {"work"} \union {"upload"}
    BY DEF Disk!Kinds, Disk!ReadKinds
  <2>. QED BY <2>4, <2>5
<1>3. IsFiniteSet(Requests \X Disk!Kinds) BY <1>1, <1>2, FS_Product
<1>. QED BY <1>1, <1>3 DEF WellFormed, Disk!SizesFit

LEMMA DiskSums ==
    ASSUME WellFormed, DiskInv
    PROVE  /\ IsFiniteSet(DOMAIN kept) /\ \A K : IsFiniteSet(Disk!Holding(K))
           /\ Disk!Total(kept) \in Nat /\ Disk!Total(planned) \in Nat /\ Disk!Total(written) \in Nat
           /\ Disk!Total(planned) <= Disk!Total(kept)
<1>1. /\ kept \in [DOMAIN kept -> Nat] /\ DOMAIN kept \subseteq Requests \X Disk!Kinds
      /\ planned \in [Requests -> Nat] /\ written \in [Requests -> Nat]
  BY DEF DiskInv, Disk!TypeOK
<1>2. IsFiniteSet(DOMAIN kept) /\ IsFiniteSet(Requests) BY <1>1, DiskSizes, FS_Subset
<1>3. ASSUME NEW K PROVE IsFiniteSet(Disk!Holding(K))
  BY <1>2, FS_Subset DEF Disk!Holding
<1>4. Disk!Total(kept) \in Nat /\ Disk!Total(planned) \in Nat /\ Disk!Total(written) \in Nat
  BY <1>1, <1>2, FiniteUnits
<1>5. Disk!Total(planned) <= Disk!Total(kept)
  <2>. DEFINE D == {r \in Requests : planned[r] # 0}
              f == [r \in D |-> planned[r]]
              rest == [r \in Requests \ D |-> planned[r]]
              Kind(r) == CHOOSE k \in Disk!Kinds : <<r, k>> \in DOMAIN kept /\ planned[r] <= kept[<<r, k>>]
              b == [r \in D |-> <<r, Kind(r)>>]
  <2>1. Disk!Total(planned) = Disk!Total(f) + Disk!Total(rest) BY <1>1, <1>2, SplitTotal
  <2>2. Disk!Total(rest) = 0
    <3>1. \A r \in DOMAIN rest : rest[r] = 0 OBVIOUS
    <3>. HIDE DEF rest
    <3>. QED BY <3>1, ZeroTotal
  <2>3. IsFiniteSet(D) BY <1>2, FS_Subset
  <2>4. f \in [D -> Nat] BY <1>1
  <2>5. \A r \in D : <<r, Kind(r)>> \in DOMAIN kept /\ planned[r] <= kept[<<r, Kind(r)>>]
    BY DEF DiskInv, Backed
  <2>6. b \in [D -> DOMAIN kept] BY <2>5
  <2>7. \A x, y \in D : b[x] = b[y] => x = y OBVIOUS
  <2>8. \A x \in D : f[x] <= kept[b[x]] BY <2>5
  <2>9. Disk!Total(f) <= Disk!Total(kept)
    <3>. HIDE DEF D, f, b
    <3>. QED BY <1>1, <1>2, <2>3, <2>4, <2>6, <2>7, <2>8, BackedTotal
  <2>10. Disk!Total(f) \in Nat
    <3>. HIDE DEF D, f
    <3>. QED BY <2>3, <2>4, FiniteUnits
  <2>. HIDE DEF f, rest
  <2>. QED BY <1>4, <2>1, <2>2, <2>9, <2>10
<1>. QED BY <1>2, <1>3, <1>4, <1>5

LEMMA DiskInit == ASSUME WellFormed, Disk!Init PROVE DiskInv
<1>. USE DEF Disk!Init, Disk!NothingHeld
<1>1. DOMAIN kept = {} OBVIOUS
<1>2. Disk!TypeOK BY DEF Disk!TypeOK
<1>3. Disk!Total(kept) = 0 /\ Disk!Total(planned) = 0 /\ Disk!Total(written) = 0
  <2>1. DOMAIN planned = Requests /\ DOMAIN written = Requests OBVIOUS
  <2>2. \A r \in Requests : planned[r] = 0 /\ written[r] = 0 OBVIOUS
  <2>3. Disk!Total(kept) = 0 BY <1>1, ZeroTotal
  <2>4. Disk!Total(planned) = 0 BY <2>1, <2>2, ZeroTotal
  <2>5. Disk!Total(written) = 0 BY <2>1, <2>2, ZeroTotal
  <2>. QED BY <2>3, <2>4, <2>5
<1>4. \A K : Disk!Cardinality(Disk!Holding(K)) = 0
  BY <1>1, FS_EmptySet, SameCardinality DEF Disk!Holding
<1>5. Disk!CountersMatchHeld BY <1>3, <1>4 DEF Disk!CountersMatchHeld
<1>6. Disk!LimitsKept BY <1>4, DiskSizes DEF Disk!LimitsKept
<1>7. Disk!HardStopKept BY <1>3, DiskSizes DEF Disk!HardStopKept, Disk!Free
<1>. QED BY <1>1, <1>2, <1>5, <1>6, <1>7 DEF DiskInv, Disk!ReadsBounded, Disk!Holds, Backed

\* A request reserves n bytes of a kind for size bytes it will write.
DiskGrow(r, k, n, size) ==
    /\ planned[r] = 0 /\ phase[r] = "open" /\ size <= n /\ k \in Disk!Kinds
    /\ (size = 0 /\ n = 0) \/ Disk!Fits(n)
    /\ Disk!WithinReadLimit(r, k, n)
    /\ reserved' = reserved + n
    /\ \/ Disk!Holds(r, k) /\ UNCHANGED <<active, reads>>
       \/ /\ ~Disk!Holds(r, k) /\ ~Disk!AtLimit(k)
          /\ active' = IF k \in Disk!ReadKinds THEN active ELSE active + 1
          /\ reads' = IF k \in Disk!ReadKinds THEN reads + 1 ELSE reads
    /\ kept' = Disk!Granted(r, k, n)
    /\ planned' = [planned EXCEPT ![r] = size]
    /\ UNCHANGED <<phase, written, leftover>>

LEMMA DiskGrowStep ==
    ASSUME WellFormed, DiskInv, NEW r \in Requests, NEW k, NEW n \in Nat, NEW size \in Nat,
           DiskGrow(r, k, n, size)
    PROVE  DiskInv'
<1>. DEFINE x == <<r, k>>
            old == IF x \in DOMAIN kept THEN kept[x] ELSE 0
<1>0. /\ planned[r] = 0 /\ phase[r] = "open" /\ size <= n /\ k \in Disk!Kinds /\ reserved' = reserved + n
      /\ kept' = Disk!Granted(r, k, n) /\ planned' = [planned EXCEPT ![r] = size]
      /\ UNCHANGED <<phase, written, leftover>>
  BY DEF DiskGrow
<1>1. /\ reserved \in Nat /\ active \in Nat /\ reads \in Nat /\ leftover \in Nat
      /\ phase \in [Requests -> {"idle", "open", "removed"}]
      /\ kept \in [DOMAIN kept -> Nat] /\ DOMAIN kept \subseteq Requests \X Disk!Kinds
      /\ planned \in [Requests -> Nat] /\ written \in [Requests -> Nat]
  BY DEF DiskInv, Disk!TypeOK
<1>2. /\ reserved = Disk!Total(kept) /\ active = Cardinality(Disk!Holding(Slots))
      /\ reads = Cardinality(Disk!Holding(Disk!ReadKinds))
      /\ active <= MaxActive /\ reads <= MaxReads
  BY SameCardinality DEF DiskInv, Disk!CountersMatchHeld, Disk!LimitsKept, Slots
<1>3. x \in Requests \X Disk!Kinds /\ old \in Nat BY <1>0, <1>1
<1>4. /\ DOMAIN kept' = DOMAIN kept \union {x}
      /\ kept'[x] = old + n
      /\ \A y \in DOMAIN kept \ {x} : kept'[y] = kept[y]
  <2>1. kept' = [y \in DOMAIN kept \union {x} |->
                   (IF y \in DOMAIN kept THEN kept[y] ELSE 0) + (IF y = x THEN n ELSE 0)]
    BY <1>0 DEF Disk!Granted
  <2>2. DOMAIN kept' = DOMAIN kept \union {x} BY <2>1
  <2>3. kept'[x] = old + n BY <2>1
  <2>4. \A y \in DOMAIN kept \ {x} : kept[y] \in Nat BY <1>1
  <2>5. \A y \in DOMAIN kept \ {x} : kept'[y] = kept[y] + 0 BY <2>1
  <2>. QED BY <2>2, <2>3, <2>4, <2>5
<1>5. kept' \in [DOMAIN kept \union {x} -> Nat]
  <2>1. \A y \in DOMAIN kept \union {x} : kept'[y] \in Nat BY <1>1, <1>3, <1>4
  <2>2. kept' = [y \in DOMAIN kept \union {x} |-> kept'[y]] BY <1>0, <1>4 DEF Disk!Granted
  <2>. QED BY <2>1, <2>2
<1>6. Disk!TypeOK'
  <2>1. planned' \in [Requests -> Nat] BY <1>0, <1>1
  <2>2. reserved' \in Nat BY <1>0, <1>1
  <2>3. active' \in Nat /\ reads' \in Nat
    <3>1. /\ active' = active \/ active' = active + 1
          /\ reads' = reads \/ reads' = reads + 1
      BY DEF DiskGrow
    <3>. QED BY <1>1, <3>1
  <2>4. {reserved', active', reads', leftover'} \subseteq Nat BY <1>0, <1>1, <2>2, <2>3
  <2>5. DOMAIN kept' \subseteq Requests \X Disk!Kinds BY <1>1, <1>3, <1>4
  <2>6. kept' \in [DOMAIN kept' -> Nat] BY <1>4, <1>5
  <2>. QED BY <1>0, <1>1, <2>1, <2>4, <2>5, <2>6 DEF Disk!TypeOK
<1>7. Disk!Total(kept') = Disk!Total(kept) + n
  <2>1. IsFiniteSet(DOMAIN kept) BY DiskSums
  <2>2. Disk!Total(kept') = Disk!Total(kept) + kept'[x] - (IF x \in DOMAIN kept THEN kept[x] ELSE 0)
    <3>1. PICK D : D = DOMAIN kept OBVIOUS
    <3>2. PICK z : z = x OBVIOUS
    <3>3. PICK g : g = kept' OBVIOUS
    <3>4. /\ IsFiniteSet(D) /\ kept \in [D -> Nat] /\ g \in [D \union {z} -> Nat]
          /\ \A y \in D \ {z} : g[y] = kept[y]
      BY <1>1, <1>4, <1>5, <2>1, <3>1, <3>2, <3>3
    <3>5. Disk!Total(g) = Disk!Total(kept) + g[z] - (IF z \in D THEN kept[z] ELSE 0)
      BY <3>4, UpdateTotal
    <3>. QED BY <3>1, <3>2, <3>3, <3>5
  <2>3. Disk!Total(kept) \in Nat BY DiskSums
  <2>. QED BY <1>3, <1>4, <2>2, <2>3
<1>8. Disk!Total(planned') = Disk!Total(planned) + size
  <2>1. planned' \in [Requests \union {r} -> Nat] /\ planned'[r] = size
        /\ \A y \in Requests \ {r} : planned'[y] = planned[y]
    BY <1>0, <1>1
  <2>2. Disk!Total(planned') = Disk!Total(planned) + planned'[r] - (IF r \in Requests THEN planned[r] ELSE 0)
    <3>1. PICK D : D = Requests OBVIOUS
    <3>2. PICK z : z = r OBVIOUS
    <3>3. PICK h : h = planned' OBVIOUS
    <3>4. /\ IsFiniteSet(D) /\ planned \in [D -> Nat] /\ h \in [D \union {z} -> Nat]
          /\ \A y \in D \ {z} : h[y] = planned[y]
      BY <1>1, <2>1, <3>1, <3>2, <3>3, DiskSizes
    <3>5. Disk!Total(h) = Disk!Total(planned) + h[z] - (IF z \in D THEN planned[z] ELSE 0)
      BY <3>4, UpdateTotal
    <3>. QED BY <3>1, <3>2, <3>3, <3>5
  <2>3. Disk!Total(planned) \in Nat BY DiskSums
  <2>. QED BY <1>0, <2>1, <2>2, <2>3
<1>9. /\ active' = Cardinality(Disk!Holding(Slots)') /\ active' <= MaxActive
      /\ reads' = Cardinality(Disk!Holding(Disk!ReadKinds)') /\ reads' <= MaxReads
  <2>1. CASE Disk!Holds(r, k) /\ UNCHANGED <<active, reads>>
    <3>1. DOMAIN kept' = DOMAIN kept BY <1>4, <2>1 DEF Disk!Holds
    <3>. QED BY <1>2, <2>1, <3>1 DEF Disk!Holding
  <2>2. CASE /\ ~Disk!Holds(r, k) /\ ~Disk!AtLimit(k)
             /\ active' = IF k \in Disk!ReadKinds THEN active ELSE active + 1
             /\ reads' = IF k \in Disk!ReadKinds THEN reads + 1 ELSE reads
    <3>1. x \notin DOMAIN kept BY <2>2 DEF Disk!Holds
    <3>2. ASSUME NEW K PROVE Disk!Holding(K)' = IF k \in K THEN Disk!Holding(K) \union {x} ELSE Disk!Holding(K)
      BY <1>4 DEF Disk!Holding
    <3>3. ASSUME NEW K, k \in K PROVE Cardinality(Disk!Holding(K) \union {x}) = Cardinality(Disk!Holding(K)) + 1
      <4>1. IsFiniteSet(Disk!Holding(K)) /\ x \notin Disk!Holding(K) BY <3>1, DiskSums DEF Disk!Holding
      <4>. QED BY <4>1, FS_AddElement
    <3>4. CASE k \in Disk!ReadKinds
      <4>1. k \notin Slots BY <3>4 DEF Slots
      <4>2. Disk!Holding(Slots)' = Disk!Holding(Slots) BY <3>2, <4>1
      <4>3. Disk!Holding(Disk!ReadKinds)' = Disk!Holding(Disk!ReadKinds) \union {x} BY <3>2, <3>4
      <4>4. ~(reads >= MaxReads) BY <2>2, <3>4 DEF Disk!AtLimit
      <4>5. active' = active /\ reads' = reads + 1 BY <2>2, <3>4
      <4>. QED BY <1>1, <1>2, <3>3, <3>4, <4>2, <4>3, <4>4, <4>5, DiskSizes
    <3>5. CASE k \notin Disk!ReadKinds
      <4>1. k \in Slots BY <1>0, <3>5 DEF Slots
      <4>2. Disk!Holding(Slots)' = Disk!Holding(Slots) \union {x} BY <3>2, <4>1
      <4>3. Disk!Holding(Disk!ReadKinds)' = Disk!Holding(Disk!ReadKinds) BY <3>2, <3>5
      <4>4. ~(active >= MaxActive) BY <2>2, <3>5 DEF Disk!AtLimit
      <4>5. active' = active + 1 /\ reads' = reads BY <2>2, <3>5
      <4>. QED BY <1>1, <1>2, <3>3, <4>1, <4>2, <4>3, <4>4, <4>5, DiskSizes
    <3>. QED BY <3>4, <3>5
  <2>. QED BY <2>1, <2>2 DEF DiskGrow
<1>10. Disk!CountersMatchHeld' /\ Disk!LimitsKept'
  BY <1>0, <1>2, <1>7, <1>9, SameCardinality DEF Disk!CountersMatchHeld, Disk!LimitsKept, Slots
<1>11. Disk!HardStopKept'
  <2>1. /\ Disk!Total(written') = Disk!Total(written) /\ leftover' = leftover BY <1>0
  <2>2. /\ Disk!Total(written) \in Nat /\ Disk!Total(planned) \in Nat /\ Disk!Total(kept) \in Nat
        /\ Disk!Total(planned) <= Disk!Total(kept)
    BY DiskSums
  <2>3. Disk!Free - Disk!Total(planned) >= HardStop BY DEF DiskInv, Disk!HardStopKept
  <2>4. CASE size = 0 /\ n = 0
    <3>1. Disk!Total(planned') = Disk!Total(planned) BY <1>8, <2>2, <2>4
    <3>. QED BY <2>1, <2>3, <3>1 DEF Disk!HardStopKept, Disk!Free
  <2>5. CASE Disk!Fits(n)
    <3>1. Disk!Free - reserved - n >= HardStop BY <2>5 DEF Disk!Fits
    <3>2. Disk!Free \in Int BY <1>1, <2>2, DiskSizes DEF Disk!Free
    <3>3. Disk!Free - Disk!Total(planned') >= HardStop
      BY <1>0, <1>2, <1>8, <2>2, <3>1, <3>2, DiskSizes
    <3>4. Disk!Free' = Disk!Free BY <2>1 DEF Disk!Free
    <3>. QED BY <3>3, <3>4 DEF Disk!HardStopKept
  <2>. QED BY <2>4, <2>5 DEF DiskGrow
<1>12. Disk!ReadsBounded'
  <2>1. SUFFICES ASSUME NEW q \in Requests, <<q, "read">> \in DOMAIN kept' PROVE kept'[<<q, "read">>] <= ReadLimit
    BY DEF Disk!ReadsBounded, Disk!Holds
  <2>2. CASE <<q, "read">> = x
    <3>1. q = r /\ k = "read" BY <2>2
    <3>2. old + n <= ReadLimit BY <3>1 DEF DiskGrow, Disk!WithinReadLimit, Disk!Holds
    <3>. QED BY <1>4, <2>2, <3>2
  <2>3. CASE <<q, "read">> # x
    BY <1>4, <2>1, <2>3 DEF DiskInv, Disk!ReadsBounded, Disk!Holds
  <2>. QED BY <2>2, <2>3
<1>13. Backed'
  <2>1. ASSUME NEW q \in Requests
        PROVE  planned'[q] = 0 \/ \E j \in Disk!Kinds : <<q, j>> \in DOMAIN kept' /\ planned'[q] <= kept'[<<q, j>>]
    <3>1. CASE q = r
      <4>1. size <= old + n BY <1>0, <1>3
      <4>2. planned'[q] = size BY <1>0, <1>1, <3>1
      <4>. QED BY <1>0, <1>4, <3>1, <4>1, <4>2
    <3>2. CASE q # r
      <4>1. planned'[q] = planned[q] BY <1>0, <1>1, <3>2
      <4>2. \A j : <<q, j>> \in DOMAIN kept => <<q, j>> \in DOMAIN kept' /\ kept'[<<q, j>>] = kept[<<q, j>>]
        BY <1>4, <3>2
      <4>. QED BY <4>1, <4>2 DEF DiskInv, Backed
    <3>. QED BY <3>1, <3>2
  <2>2. \A q \in Requests : phase'[q] = "removed" => planned'[q] = 0
    BY <1>0, <1>1 DEF DiskInv, Backed
  <2>. QED BY <2>1, <2>2 DEF Backed
<1>. QED BY <1>6, <1>10, <1>11, <1>12, <1>13 DEF DiskInv

\* What the bytes of one request add to a sum.
LEMMA RequestTotal ==
    ASSUME WellFormed, NEW f \in [Requests -> Nat], NEW r \in Requests, NEW g \in [Requests -> Nat],
           \A y \in Requests \ {r} : g[y] = f[y]
    PROVE  /\ Disk!Total(g) = Disk!Total(f) + g[r] - f[r]
           /\ Disk!Total(f) \in Nat /\ Disk!Total(g) \in Nat
<1>1. g \in [Requests \union {r} -> Nat] OBVIOUS
<1>2. Disk!Total(g) = Disk!Total(f) + g[r] - (IF r \in Requests THEN f[r] ELSE 0)
  <2>1. IsFiniteSet(Requests) BY DiskSizes
  <2>. QED BY <1>1, <2>1, UpdateTotal
<1>. QED BY <1>1, <1>2, DiskSizes, FiniteUnits

\* A request gives back the reservations of the set S.
DiskGiveBack(r, S) ==
    /\ S \subseteq DOMAIN kept /\ S \subseteq {r} \X Disk!Kinds
    /\ Disk!ReleaseCapacity(S)
    /\ planned' = [planned EXCEPT ![r] = 0]
    /\ phase' \in {phase, [phase EXCEPT ![r] = "idle"]}
    /\ UNCHANGED <<written, leftover>>

LEMMA DiskGiveBackStep ==
    ASSUME WellFormed, DiskInv, NEW r \in Requests, NEW S, DiskGiveBack(r, S)
    PROVE  DiskInv'
<1>0. /\ S \subseteq DOMAIN kept /\ S \subseteq {r} \X Disk!Kinds
      /\ planned' = [planned EXCEPT ![r] = 0]
      /\ phase' \in {phase, [phase EXCEPT ![r] = "idle"]}
      /\ UNCHANGED <<written, leftover>>
  BY DEF DiskGiveBack
<1>1. /\ reserved \in Nat /\ active \in Nat /\ reads \in Nat /\ leftover \in Nat
      /\ phase \in [Requests -> {"idle", "open", "removed"}]
      /\ kept \in [DOMAIN kept -> Nat] /\ DOMAIN kept \subseteq Requests \X Disk!Kinds
      /\ planned \in [Requests -> Nat] /\ written \in [Requests -> Nat]
  BY DEF DiskInv, Disk!TypeOK
<1>2. /\ reserved = Disk!Total(kept) /\ active = Cardinality(Disk!Holding(Slots))
      /\ reads = Cardinality(Disk!Holding(Disk!ReadKinds))
      /\ active <= MaxActive /\ reads <= MaxReads
  BY SameCardinality DEF DiskInv, Disk!CountersMatchHeld, Disk!LimitsKept, Slots
<1>3. kept' = [x \in DOMAIN kept \ S |-> kept[x]]
  BY DEF DiskGiveBack, Disk!ReleaseCapacity, Disk!Remaining
<1>4. /\ DOMAIN kept' = DOMAIN kept \ S /\ kept' \in [DOMAIN kept' -> Nat]
      /\ \A x \in DOMAIN kept' : kept'[x] = kept[x]
  BY <1>1, <1>3
<1>5. reserved' = Disk!Total(kept') /\ reserved' \in Nat
  <2>1. PICK D : D = DOMAIN kept OBVIOUS
  <2>2. IsFiniteSet(D) /\ kept \in [D -> Nat] /\ S \in SUBSET D BY <1>0, <1>1, <2>1, DiskSums
  <2>3. PICK f : f = [x \in S |-> kept[x]] OBVIOUS
  <2>4. PICK g : g = [x \in D \ S |-> kept[x]] OBVIOUS
  <2>5. Disk!Total(kept) = Disk!Total(f) + Disk!Total(g) BY <2>2, <2>3, <2>4, SplitTotal
  <2>6. f \in [S -> Nat] /\ g \in [D \ S -> Nat] BY <2>2, <2>3, <2>4
  <2>7. IsFiniteSet(S) /\ IsFiniteSet(D \ S) BY <2>2, FS_Subset
  <2>8. Disk!Total(f) \in Nat /\ Disk!Total(g) \in Nat BY <2>6, <2>7, FiniteUnits
  <2>9. reserved' = Disk!AtLeastZero(reserved - Disk!Total(f))
    BY <2>3 DEF DiskGiveBack, Disk!ReleaseCapacity
  <2>10. reserved' = Disk!Total(g) BY <1>2, <2>5, <2>8, <2>9 DEF Disk!AtLeastZero
  <2>11. kept' = g BY <1>3, <2>1, <2>4
  <2>. QED BY <2>8, <2>10, <2>11
<1>6. ASSUME NEW K, NEW c \in Nat, c = Cardinality(Disk!Holding(K))
      PROVE  /\ Disk!AtLeastZero(c - Cardinality(S \intersect Disk!Holding(K))) = Cardinality(Disk!Holding(K)')
             /\ Cardinality(Disk!Holding(K)') \in Nat /\ Cardinality(Disk!Holding(K)') <= c
  <2>1. PICK H : H = Disk!Holding(K) OBVIOUS
  <2>2. IsFiniteSet(H) BY <2>1, DiskSums
  <2>3. Disk!Holding(K)' = H \ S BY <1>4, <2>1 DEF Disk!Holding
  <2>4. /\ IsFiniteSet(H \ S) /\ Cardinality(H \ S) = Cardinality(H) - Cardinality(H \intersect S)
        /\ IsFiniteSet(H \intersect S)
    BY <2>2, FS_Difference, FS_Intersection
  <2>5. Cardinality(H \ S) \in Nat /\ Cardinality(H \intersect S) \in Nat BY <2>4, FS_CardinalityType
  <2>6. S \intersect H = H \intersect S OBVIOUS
  <2>7. Cardinality(S \intersect H) = Cardinality(H \intersect S) BY <2>6
  <2>8. /\ Disk!AtLeastZero(c - Cardinality(S \intersect H)) = Cardinality(H \ S)
        /\ Cardinality(H \ S) <= c
    BY <1>6, <2>1, <2>4, <2>5, <2>7 DEF Disk!AtLeastZero
  <2>. QED BY <2>1, <2>3, <2>5, <2>8
<1>7. /\ active' = Disk!AtLeastZero(active - Cardinality(S \intersect Disk!Holding(Slots)))
      /\ reads' = Disk!AtLeastZero(reads - Cardinality(S \intersect Disk!Holding(Disk!ReadKinds)))
  BY SameCardinality DEF DiskGiveBack, Disk!ReleaseCapacity, Slots
<1>8. /\ active' = Cardinality(Disk!Holding(Slots)') /\ active' \in Nat /\ active' <= active
      /\ reads' = Cardinality(Disk!Holding(Disk!ReadKinds)') /\ reads' \in Nat /\ reads' <= reads
  BY <1>1, <1>2, <1>6, <1>7
<1>9. Disk!CountersMatchHeld' /\ Disk!LimitsKept'
  <2>1. active' <= MaxActive /\ reads' <= MaxReads BY <1>1, <1>2, <1>8, DiskSizes
  <2>. QED BY <1>5, <1>8, <2>1, SameCardinality DEF Disk!CountersMatchHeld, Disk!LimitsKept, Slots
<1>10. /\ planned' \in [Requests -> Nat] /\ Disk!Total(planned') = Disk!Total(planned) + 0 - planned[r]
       /\ Disk!Total(planned) \in Nat /\ Disk!Total(planned') \in Nat
  <2>1. /\ planned' \in [Requests -> Nat] /\ planned'[r] = 0
        /\ \A y \in Requests \ {r} : planned'[y] = planned[y]
    BY <1>0, <1>1
  <2>. QED BY <1>1, <2>1, RequestTotal
<1>11. Disk!TypeOK'
  <2>1. phase' \in [Requests -> {"idle", "open", "removed"}] BY <1>0, <1>1
  <2>2. DOMAIN kept' \subseteq Requests \X Disk!Kinds BY <1>1, <1>4
  <2>3. {reserved', active', reads', leftover'} \subseteq Nat BY <1>0, <1>1, <1>5, <1>8
  <2>. QED BY <1>0, <1>1, <1>4, <1>10, <2>1, <2>2, <2>3 DEF Disk!TypeOK
<1>12. Disk!HardStopKept'
  <2>1. Disk!Total(planned') <= Disk!Total(planned)
    <3>1. planned[r] \in Nat BY <1>1
    <3>. QED BY <1>10, <3>1
  <2>2. Disk!Free' = Disk!Free BY <1>0 DEF Disk!Free
  <2>3. Disk!Free \in Int BY <1>1, DiskSizes, DiskSums DEF Disk!Free
  <2>4. Disk!Free - Disk!Total(planned) >= HardStop BY DEF DiskInv, Disk!HardStopKept
  <2>5. Disk!Free - Disk!Total(planned') >= HardStop BY <1>10, <2>1, <2>3, <2>4, DiskSizes
  <2>. QED BY <2>2, <2>5 DEF Disk!HardStopKept
<1>13. Disk!ReadsBounded' BY <1>4 DEF DiskInv, Disk!ReadsBounded, Disk!Holds
<1>14. Backed'
  <2>1. ASSUME NEW q \in Requests
        PROVE  planned'[q] = 0 \/ \E j \in Disk!Kinds : <<q, j>> \in DOMAIN kept' /\ planned'[q] <= kept'[<<q, j>>]
    <3>1. CASE q = r BY <1>0, <1>1, <3>1
    <3>2. CASE q # r
      <4>1. planned'[q] = planned[q] BY <1>0, <1>1, <3>2
      <4>2. \A j : <<q, j>> \in DOMAIN kept => <<q, j>> \in DOMAIN kept' /\ kept'[<<q, j>>] = kept[<<q, j>>]
        BY <1>0, <1>4, <3>2
      <4>. QED BY <4>1, <4>2 DEF DiskInv, Backed
    <3>. QED BY <3>1, <3>2
  <2>2. \A q \in Requests : phase'[q] = "removed" => planned'[q] = 0
    BY <1>0, <1>1 DEF DiskInv, Backed
  <2>. QED BY <2>1, <2>2 DEF Backed
<1>. QED BY <1>9, <1>11, <1>12, <1>13, <1>14 DEF DiskInv

\* Bytes move between the plan of a request, its workspace and the leftovers;
\* what is free less what is planned does not shrink.
LEMMA DiskBytesStep ==
    ASSUME WellFormed, DiskInv, UNCHANGED <<reserved, active, reads, kept>>,
           phase' \in [Requests -> {"idle", "open", "removed"}],
           planned' \in [Requests -> Nat], written' \in [Requests -> Nat], leftover' \in Nat,
           \A r \in Requests : planned'[r] <= planned[r] /\ (phase'[r] = "removed" => planned'[r] = 0),
           Disk!Total(written') + leftover' + Disk!Total(planned')
             <= Disk!Total(written) + leftover + Disk!Total(planned)
    PROVE  DiskInv'
<1>1. Disk!TypeOK' BY DEF DiskInv, Disk!TypeOK
<1>2. Disk!CountersMatchHeld' /\ Disk!LimitsKept' /\ Disk!ReadsBounded'
  BY DEF DiskInv, Disk!CountersMatchHeld, Disk!LimitsKept, Disk!ReadsBounded, Disk!Holding, Disk!Holds
<1>3. Disk!HardStopKept'
  <2>1. /\ Disk!Total(written') \in Nat /\ Disk!Total(planned') \in Nat
        /\ Disk!Total(written) \in Nat /\ Disk!Total(planned) \in Nat /\ leftover \in Nat
    BY FiniteUnits, DiskSizes, DiskSums DEF DiskInv, Disk!TypeOK
  <2>2. DiskSize - Disk!Total(written) - leftover - Disk!Total(planned) >= HardStop
    BY DEF DiskInv, Disk!HardStopKept, Disk!Free
  <2>3. DiskSize - Disk!Total(written') - leftover' - Disk!Total(planned') >= HardStop
    BY <2>1, <2>2, DiskSizes
  <2>. QED BY <2>3 DEF Disk!HardStopKept, Disk!Free
<1>4. Backed'
  <2>1. ASSUME NEW q \in Requests
        PROVE  planned'[q] = 0 \/ \E j \in Disk!Kinds : <<q, j>> \in DOMAIN kept' /\ planned'[q] <= kept'[<<q, j>>]
    <3>1. planned[q] \in Nat /\ planned'[q] \in Nat /\ planned'[q] <= planned[q] BY DEF DiskInv, Disk!TypeOK
    <3>2. CASE planned[q] = 0 BY <3>1, <3>2
    <3>3. CASE planned[q] # 0
      <4>1. PICK j \in Disk!Kinds : <<q, j>> \in DOMAIN kept /\ planned[q] <= kept[<<q, j>>]
        BY <3>3 DEF DiskInv, Backed
      <4>2. kept[<<q, j>>] \in Nat BY <4>1 DEF DiskInv, Disk!TypeOK
      <4>. QED BY <3>1, <4>1, <4>2
    <3>. QED BY <3>2, <3>3
  <2>. QED BY <2>1 DEF Backed
<1>. QED BY <1>1, <1>2, <1>3, <1>4 DEF DiskInv

LEMMA DiskCrashStep ==
    ASSUME WellFormed, DiskInv, Disk!Crash
    PROVE  DiskInv'
<1>0. /\ leftover' = leftover + Disk!Total(written)
      /\ reserved' = 0 /\ active' = 0 /\ reads' = 0
      /\ phase' = [r \in Requests |-> "idle"]
      /\ kept' = [x \in {} |-> 0]
      /\ planned' = [r \in Requests |-> 0] /\ written' = [r \in Requests |-> 0]
  BY DEF Disk!Crash, Disk!NothingHeld
<1>1. leftover \in Nat /\ Disk!Total(written) \in Nat /\ Disk!Total(planned) \in Nat
  BY DiskSums DEF DiskInv, Disk!TypeOK
<1>2. DOMAIN kept' = {} BY <1>0
<1>3. Disk!TypeOK' BY <1>0, <1>1, <1>2 DEF Disk!TypeOK
<1>4. Disk!Total(kept') = 0 /\ Disk!Total(planned') = 0 /\ Disk!Total(written') = 0
  <2>1. DOMAIN planned' = Requests /\ DOMAIN written' = Requests BY <1>0
  <2>2. \A r \in Requests : planned'[r] = 0 /\ written'[r] = 0 BY <1>0
  <2>3. Disk!Total(kept') = 0 BY <1>2, ZeroTotal
  <2>4. Disk!Total(planned') = 0 BY <2>1, <2>2, ZeroTotal
  <2>5. Disk!Total(written') = 0 BY <2>1, <2>2, ZeroTotal
  <2>. QED BY <2>3, <2>4, <2>5
<1>5. ASSUME NEW K PROVE Disk!Cardinality(Disk!Holding(K)') = 0
  <2>1. Disk!Holding(K)' = {} BY <1>2 DEF Disk!Holding
  <2>. QED BY <2>1, FS_EmptySet, SameCardinality
<1>6. Disk!CountersMatchHeld' BY <1>0, <1>4, <1>5 DEF Disk!CountersMatchHeld
<1>7. Disk!LimitsKept' BY <1>5, DiskSizes DEF Disk!LimitsKept
<1>8. Disk!HardStopKept'
  <2>1. DiskSize - Disk!Total(written) - leftover - Disk!Total(planned) >= HardStop
    BY DEF DiskInv, Disk!HardStopKept, Disk!Free
  <2>2. DiskSize - 0 - (leftover + Disk!Total(written)) - 0 >= HardStop BY <1>1, <2>1, DiskSizes
  <2>. QED BY <1>0, <1>4, <2>2 DEF Disk!HardStopKept, Disk!Free
<1>. QED BY <1>0, <1>2, <1>3, <1>6, <1>7, <1>8 DEF DiskInv, Disk!ReadsBounded, Disk!Holds, Backed

LEMMA DiskStep ==
    ASSUME WellFormed, DiskInv, [Disk!Next]_diskVars
    PROVE  DiskInv'
<1>0. /\ {reserved, active, reads, leftover} \subseteq Nat
      /\ phase \in [Requests -> {"idle", "open", "removed"}]
      /\ planned \in [Requests -> Nat] /\ written \in [Requests -> Nat]
      /\ \A r \in Requests : phase[r] = "removed" => planned[r] = 0
      /\ Disk!Total(planned) \in Nat /\ Disk!Total(written) \in Nat
  BY DiskSums DEF DiskInv, Disk!TypeOK, Backed
<1>. USE DEF Disk!counters
<1>1. ASSUME NEW r \in Requests, Disk!Open(r) PROVE DiskInv'
  <2>1. /\ UNCHANGED <<reserved, active, reads, kept, planned, written, leftover>>
        /\ phase' = [phase EXCEPT ![r] = "open"]
    BY <1>1 DEF Disk!Open
  <2>2. phase' \in [Requests -> {"idle", "open", "removed"}] BY <1>0, <2>1
  <2>3. \A q \in Requests : planned'[q] <= planned[q] /\ (phase'[q] = "removed" => planned'[q] = 0)
    BY <1>0, <2>1
  <2>4. Disk!Total(written') + leftover' + Disk!Total(planned') <= Disk!Total(written) + leftover + Disk!Total(planned)
    BY <1>0, <2>1
  <2>. QED BY <1>0, <2>1, <2>2, <2>3, <2>4, DiskBytesStep
<1>2. ASSUME NEW r \in Requests, Disk!Write(r) PROVE DiskInv'
  <2>1. /\ UNCHANGED <<reserved, active, reads, kept, phase, leftover>> /\ planned[r] > 0 /\ phase[r] = "open"
        /\ planned' = [planned EXCEPT ![r] = planned[r] - 1]
        /\ written' = [written EXCEPT ![r] = written[r] + 1]
    BY <1>2 DEF Disk!Write
  <2>2. planned[r] - 1 \in Nat /\ written[r] + 1 \in Nat /\ planned[r] \in Nat /\ written[r] \in Nat BY <1>0, <2>1
  <2>3. planned' \in [Requests -> Nat] /\ Disk!Total(planned') = Disk!Total(planned) + (planned[r] - 1) - planned[r]
    <3>1. /\ planned' \in [Requests -> Nat] /\ planned'[r] = planned[r] - 1
          /\ \A y \in Requests \ {r} : planned'[y] = planned[y]
      BY <1>0, <2>1, <2>2
    <3>. QED BY <1>0, <3>1, RequestTotal
  <2>4. written' \in [Requests -> Nat] /\ Disk!Total(written') = Disk!Total(written) + (written[r] + 1) - written[r]
    <3>1. /\ written' \in [Requests -> Nat] /\ written'[r] = written[r] + 1
          /\ \A y \in Requests \ {r} : written'[y] = written[y]
      BY <1>0, <2>1, <2>2
    <3>. QED BY <1>0, <3>1, RequestTotal
  <2>5. Disk!Total(written') + leftover' + Disk!Total(planned') <= Disk!Total(written) + leftover + Disk!Total(planned)
    BY <1>0, <2>1, <2>2, <2>3, <2>4
  <2>6. \A q \in Requests : planned'[q] <= planned[q] /\ (phase'[q] = "removed" => planned'[q] = 0)
    BY <1>0, <2>1, <2>2
  <2>. QED BY <1>0, <2>1, <2>3, <2>4, <2>5, <2>6, DiskBytesStep
<1>3. ASSUME NEW r \in Requests, NEW failed \in BOOLEAN, Disk!RemoveWorkspace(r, failed) PROVE DiskInv'
  <2>1. /\ UNCHANGED <<reserved, active, reads, kept>>
        /\ phase' = [phase EXCEPT ![r] = "removed"]
        /\ planned' = [planned EXCEPT ![r] = 0] /\ written' = [written EXCEPT ![r] = 0]
        /\ leftover' = IF failed THEN leftover + written[r] ELSE leftover
    BY <1>3 DEF Disk!RemoveWorkspace
  <2>2. planned[r] \in Nat /\ written[r] \in Nat /\ leftover \in Nat BY <1>0
  <2>3. planned' \in [Requests -> Nat] /\ Disk!Total(planned') = Disk!Total(planned) + 0 - planned[r]
    <3>1. /\ planned' \in [Requests -> Nat] /\ planned'[r] = 0
          /\ \A y \in Requests \ {r} : planned'[y] = planned[y]
      BY <1>0, <2>1
    <3>. QED BY <1>0, <3>1, RequestTotal
  <2>4. written' \in [Requests -> Nat] /\ Disk!Total(written') = Disk!Total(written) + 0 - written[r]
    <3>1. /\ written' \in [Requests -> Nat] /\ written'[r] = 0
          /\ \A y \in Requests \ {r} : written'[y] = written[y]
      BY <1>0, <2>1
    <3>. QED BY <1>0, <3>1, RequestTotal
  <2>5. leftover' \in Nat /\ leftover' <= leftover + written[r] BY <2>1, <2>2
  <2>6. Disk!Total(written') + leftover' + Disk!Total(planned') <= Disk!Total(written) + leftover + Disk!Total(planned)
    BY <1>0, <2>2, <2>3, <2>4, <2>5
  <2>7. \A q \in Requests : planned'[q] <= planned[q] /\ (phase'[q] = "removed" => planned'[q] = 0)
    <3>1. \A q \in Requests : planned'[q] = IF q = r THEN 0 ELSE planned[q] BY <1>0, <2>1
    <3>2. \A q \in Requests : planned[q] \in Nat BY <1>0
    <3>3. \A q \in Requests : phase'[q] = "removed" => q = r \/ phase[q] = "removed" BY <1>0, <2>1
    <3>. QED BY <1>0, <3>1, <3>2, <3>3
  <2>8. phase' \in [Requests -> {"idle", "open", "removed"}] BY <1>0, <2>1
  <2>. QED BY <2>1, <2>3, <2>4, <2>5, <2>6, <2>7, <2>8, DiskBytesStep
<1>4. ASSUME NEW r \in Requests, Disk!OpenDiagnostic(r) PROVE DiskInv'
  <2>1. planned' = [planned EXCEPT ![r] = 0] BY <1>0, <1>4 DEF Disk!OpenDiagnostic
  <2>2. DiskGrow(r, "diagnostic", 0, 0)
    <3>1. "diagnostic" \in Disk!Kinds /\ Disk!WithinReadLimit(r, "diagnostic", 0)
      BY DEF Disk!Kinds, Disk!ReadKinds, Disk!WithinReadLimit
    <3>2. /\ planned[r] = 0 /\ phase[r] = "open" /\ ~Disk!Holds(r, "diagnostic")
          /\ Disk!ReserveCapacity("diagnostic", 0) /\ kept' = Disk!Granted(r, "diagnostic", 0)
          /\ UNCHANGED <<phase, written, leftover>>
      BY <1>4 DEF Disk!OpenDiagnostic
    <3>3. 0 <= 0 OBVIOUS
    <3>4. /\ ~Disk!AtLimit("diagnostic") /\ reserved' = reserved + 0
          /\ active' = IF "diagnostic" \in Disk!ReadKinds THEN active ELSE active + 1
          /\ reads' = IF "diagnostic" \in Disk!ReadKinds THEN reads + 1 ELSE reads
      BY <3>2 DEF Disk!ReserveCapacity
    <3>. QED BY <2>1, <3>1, <3>2, <3>3, <3>4 DEF DiskGrow
  <2>. QED BY <2>2, DiskGrowStep
<1>5. ASSUME NEW r \in Requests, NEW size \in 0..MaxSize, Disk!ExtendDiagnostic(r, size) PROVE DiskInv'
  <2>1. size \in Nat /\ size <= size BY DiskSizes
  <2>2. DiskGrow(r, "diagnostic", size, size)
    BY <1>5, <2>1 DEF DiskGrow, Disk!ExtendDiagnostic, Disk!ExtendCapacity, Disk!WithinReadLimit,
                      Disk!Kinds, Disk!ReadKinds
  <2>. QED BY <2>1, <2>2, DiskGrowStep
<1>6. ASSUME NEW r \in Requests, NEW size \in 0..MaxSize, NEW reading \in BOOLEAN,
             NEW processing \in BOOLEAN, NEW slack \in {0, size},
             Disk!ReserveWorkspace(r, reading, processing, size, slack)
      PROVE  DiskInv'
  <2>. DEFINE k == Disk!WorkspaceKind(r, reading, processing)
  <2>1. size \in Nat /\ slack \in Nat /\ size + slack \in Nat /\ size <= size + slack
        /\ (size + slack = 0 => size = 0)
    BY DiskSizes
  <2>2. k \in Disk!Kinds BY DEF Disk!WorkspaceKind, Disk!Kinds, Disk!ReadKinds
  <2>3. /\ planned[r] = 0 /\ phase[r] = "open" /\ Disk!WithinReadLimit(r, k, size + slack)
        /\ IF Disk!Holds(r, k) THEN Disk!ExtendCapacity(size + slack) ELSE Disk!ReserveCapacity(k, size + slack)
        /\ kept' = Disk!Granted(r, k, size + slack)
        /\ planned' = [planned EXCEPT ![r] = size]
        /\ UNCHANGED <<phase, written, leftover>>
    BY <1>6 DEF Disk!ReserveWorkspace
  <2>. HIDE DEF k
  <2>4. DiskGrow(r, k, size + slack, size)
    <3>1. CASE Disk!Holds(r, k)
      BY <2>1, <2>2, <2>3, <3>1 DEF DiskGrow, Disk!ExtendCapacity
    <3>2. CASE ~Disk!Holds(r, k)
      BY <2>1, <2>2, <2>3, <3>2 DEF DiskGrow, Disk!ReserveCapacity
    <3>. QED BY <3>1, <3>2
  <2>. QED BY <2>1, <2>4, DiskGrowStep
<1>7. ASSUME NEW r \in Requests, NEW size \in 1..MaxUpload, Disk!ReserveUpload(r, size) PROVE DiskInv'
  <2>1. size \in Nat /\ UploadReserve \in Nat /\ size <= UploadReserve BY DiskSizes
  <2>2. DiskGrow(r, "upload", UploadReserve, size)
    BY <1>7, <2>1 DEF DiskGrow, Disk!ReserveUpload, Disk!ReserveCapacity, Disk!WithinReadLimit,
                      Disk!Kinds, Disk!ReadKinds
  <2>. QED BY <2>1, <2>2, DiskGrowStep
<1>8. ASSUME NEW r \in Requests, NEW k \in Disk!Kinds, Disk!Release(r, k) PROVE DiskInv'
  <2>1. DiskGiveBack(r, {<<r, k>>})
    BY <1>8 DEF DiskGiveBack, Disk!Release, Disk!Holds
  <2>. QED BY <2>1, DiskGiveBackStep
<1>9. ASSUME NEW r \in Requests, Disk!ReleaseAll(r) PROVE DiskInv'
  <2>1. planned[r] = 0 BY <1>0, <1>9 DEF Disk!ReleaseAll
  <2>2. planned' = [planned EXCEPT ![r] = 0] BY <1>0, <1>9, <2>1 DEF Disk!ReleaseAll
  <2>3. DiskGiveBack(r, DOMAIN kept \intersect ({r} \X Disk!Kinds))
    BY <1>9, <2>2 DEF DiskGiveBack, Disk!ReleaseAll
  <2>. QED BY <2>3, DiskGiveBackStep
<1>10. CASE Disk!Crash BY <1>10, DiskCrashStep
<1>11. CASE UNCHANGED diskVars
  <2>1. UNCHANGED <<reserved, active, reads, kept, phase, planned, written, leftover>> BY <1>11 DEF diskVars
  <2>2. \A q \in Requests : planned'[q] <= planned[q] /\ (phase'[q] = "removed" => planned'[q] = 0)
    BY <1>0, <2>1
  <2>3. Disk!Total(written') + leftover' + Disk!Total(planned') <= Disk!Total(written) + leftover + Disk!Total(planned)
    BY <1>0, <2>1
  <2>. QED BY <1>0, <2>1, <2>2, <2>3, DiskBytesStep
<1>. QED
  BY <1>1, <1>2, <1>3, <1>4, <1>5, <1>6, <1>7, <1>8, <1>9, <1>10, <1>11 DEF Disk!Next

LEMMA DiskCompose == [Next]_vars => [Disk!Next]_diskVars
  BY DEF Next, vars, diskVars

\* The counters of the process are what its requests hold, no admission passes
\* its limit, and the volume keeps its hard-stop reserve whatever the admitted
\* requests write, with crashes and failed deletions (LocalStorage).
THEOREM CapacityTheorem == Spec => []CapacityKept
<1>1. Init => DiskInv BY DiskInit, WellFormed DEF Init
<1>2. DiskInv /\ [Next]_vars => DiskInv' BY DiskStep, DiskCompose, WellFormed
<1>3. DiskInv => CapacityKept BY DEF DiskInv, CapacityKept
<1>. QED BY <1>1, <1>2, <1>3, PTL DEF Spec

-----------------------------------------------------------------------------
(* The stages.  Work is their proof: the same module, with its invariant.   *)
Work == INSTANCE WorkflowProofs WITH
    MaxVersion <- [s3 |-> MaxS3Version, local |-> MaxLocalVersion], call <- stage

LEMMA SameAssumption == Stages!WorkflowAssumption => Work!WorkflowAssumption
BY DEF Stages!WorkflowAssumption, Work!WorkflowAssumption

LEMMA SameStart == Stages!Init => Work!Init
BY DEF Stages!Init, Stages!NewJob, Stages!NoFiles, Stages!NoResult, Stages!Idle, Stages!Quiet,
       Work!Init, Work!NewJob, Work!NoFiles, Work!NoResult, Work!Idle, Work!Quiet

LEMMA SameNext == Stages!Next => Work!Next
BY DEF Stages!Next, Stages!Stage, Stages!Diagnostic, Stages!Fail, Stages!OtherTransaction,
       Stages!DetectCourt, Stages!DetectEdit, Stages!Detected, Stages!Calibrate,
       Stages!CalibrateEdit, Stages!Confirm, Stages!ConfirmEdit, Stages!Track,
       Stages!TrackEdit, Stages!TrackSave, Stages!TrackEnsure, Stages!Review,
       Stages!SelectPlayer, Stages!SelectEdit, Stages!RejectEdit, Stages!RestoreEdit,
       Stages!MergeEdit, Stages!Choose, Stages!GenerateEdit, Stages!UnmergeEdit,
       Stages!UnmergeBuild, Stages!Refresh, Stages!LineageSave, Stages!Analyze,
       Stages!AnalyzeEnsure, Stages!AnalyzeCompute, Stages!Play, Stages!PlayEdit,
       Stages!MarkFailed, Stages!LastSave, Stages!DiagnosticBegin,
       Stages!DiagnosticAgree, Stages!DiagnosticAnswer, Stages!DiagnosticRefuse,
       Stages!Agreeing, Stages!Unchanged, Stages!Records, Stages!Begin, Stages!At,
       Stages!Goto, Stages!Saving, Stages!Saved, Stages!Materialized, Stages!Measurable,
       Stages!Readable, Stages!Corrected, Stages!Ensured, Stages!Listed, Stages!Follow,
       Stages!InList, Stages!Built, Stages!Keeping, Stages!Signature, Stages!Agreed,
       Stages!Removed, Stages!Save, Stages!Picked, Stages!Registered, Stages!Retired,
       Stages!Recalibrated, Stages!Reselected, Stages!Reviews, Stages!Choice,
       Stages!NewJob, Stages!NoFiles, Stages!NoResult, Stages!Idle, Stages!Quiet,
       Work!Next, Work!Stage, Work!Diagnostic, Work!Fail, Work!OtherTransaction,
       Work!DetectCourt, Work!DetectEdit, Work!Detected, Work!Calibrate,
       Work!CalibrateEdit, Work!Confirm, Work!ConfirmEdit, Work!Track, Work!TrackEdit,
       Work!TrackSave, Work!TrackEnsure, Work!Review, Work!SelectPlayer,
       Work!SelectEdit, Work!RejectEdit, Work!RestoreEdit, Work!MergeEdit, Work!Choose,
       Work!GenerateEdit, Work!UnmergeEdit, Work!UnmergeBuild, Work!Refresh,
       Work!LineageSave, Work!Analyze, Work!AnalyzeEnsure, Work!AnalyzeCompute,
       Work!Play, Work!PlayEdit, Work!MarkFailed, Work!LastSave, Work!DiagnosticBegin,
       Work!DiagnosticAgree, Work!DiagnosticAnswer, Work!DiagnosticRefuse,
       Work!Agreeing, Work!Unchanged, Work!Records, Work!Begin, Work!At, Work!Goto,
       Work!Saving, Work!Saved, Work!Materialized, Work!Measurable, Work!Readable,
       Work!Corrected, Work!Ensured, Work!Listed, Work!Follow, Work!InList, Work!Built,
       Work!Keeping, Work!Signature, Work!Agreed, Work!Removed, Work!Save, Work!Picked,
       Work!Registered, Work!Retired, Work!Recalibrated, Work!Reselected, Work!Reviews,
       Work!Choice, Work!NewJob, Work!NoFiles, Work!NoResult, Work!Idle, Work!Quiet

LEMMA StagesKeep ==
    Work!WorkflowInv =>
        /\ Stages!TypeOK /\ Stages!ReportMatchesSelection /\ Stages!TrackingMatchesCourt
        /\ Stages!SelectionRegistered /\ Stages!PlayMatchesSelection /\ Stages!DiagnosticIsCurrent
BY Work!WorkflowSafe DEF Stages!TypeOK, Stages!Choice, Stages!Evidence, Stages!Job, Stages!Contents, Stages!Ops,
       Stages!Reviews, Stages!Steps, Stages!Between, Stages!Readable, Stages!Offered,
       Stages!Report, Stages!SavedPlay, Stages!ReportMatchesSelection,
       Stages!TrackingMatchesCourt, Stages!SelectionRegistered,
       Stages!PlayMatchesSelection, Stages!DiagnosticIsCurrent, Stages!NewJob,
       Stages!NoFiles, Stages!NoResult, Stages!Idle, Work!TypeOK, Work!Choice,
       Work!Evidence, Work!Job, Work!Contents, Work!Ops, Work!Reviews, Work!Steps,
       Work!Between, Work!Readable, Work!Offered, Work!Report, Work!SavedPlay,
       Work!ReportMatchesSelection, Work!TrackingMatchesCourt, Work!SelectionRegistered,
       Work!PlayMatchesSelection, Work!DiagnosticIsCurrent, Work!NewJob, Work!NoFiles,
       Work!NoResult, Work!Idle

\* What readers are offered between two stages belongs together, and a
\* diagnostic that is answered described what was current.
THEOREM ArtifactsTheorem == Spec => []ArtifactsMatch
<1>1. Stages!WorkflowAssumption BY WellFormed
<1>2. Init => Work!WorkflowInv BY <1>1, SameAssumption, SameStart, Work!WorkflowStart DEF Init
<1>3. Work!WorkflowInv /\ [Next]_vars => Work!WorkflowInv'
  <2> SUFFICES ASSUME Work!WorkflowInv, [Next]_vars PROVE Work!WorkflowInv'
    OBVIOUS
  <2>1. CASE Stages!Next
    BY <1>1, <2>1, SameAssumption, SameNext, Work!WorkflowStep
  <2>2. CASE UNCHANGED stageVars
    BY <2>2, Work!WorkflowStutter DEF Work!vars, stageVars
  <2>. QED BY <2>1, <2>2 DEF Next, vars
<1>4. Work!WorkflowInv => ArtifactsMatch BY StagesKeep DEF ArtifactsMatch
<1>. QED BY <1>2, <1>3, <1>4, PTL DEF Spec
=============================================================================
