--------------------------- MODULE UploadPromise ----------------------------
(***************************************************************************)
(* What direct upload promises the owner of a session, whatever requests   *)
(* race, workers stall, processes die or providers fail: a bounded number  *)
(* of sessions is held at a time, an open session is either finalized or   *)
(* withdrawn, a finalizing one reopens, fails or is answered by an         *)
(* analysis that exists, and withdrawn, failed and answered are for good.  *)
(***************************************************************************)
EXTENDS Naturals, FiniteSets

CONSTANTS Sessions, None, Limit

VARIABLES
    phase,    \* of each session
    answer,   \* the analysis a session was answered with
    library   \* the sessions whose analysis exists

pvars == <<phase, answer, library>>

Phases == {"none", "open", "finalizing", "withdrawn", "failed", "answered"}
Held(T) == {s \in T : phase[s] \in {"open", "finalizing"}}

PromiseInit ==
    /\ phase = [s \in Sessions |-> "none"]
    /\ answer = [s \in Sessions |-> None]
    /\ library = {}

\* A session is admitted; abandoned ones are withdrawn to make room for it.
Admit(s, W) ==
    /\ phase[s] = "none" /\ \A w \in W : phase[w] \in {"open", "withdrawn"}
    /\ Cardinality(Held(Sessions \ W)) < Limit
    /\ phase' = [t \in Sessions |-> IF t = s THEN "open"
                                    ELSE IF t \in W THEN "withdrawn" ELSE phase[t]]
    /\ UNCHANGED <<answer, library>>

Move(s, from, to) ==
    /\ phase[s] = from /\ phase' = [phase EXCEPT ![s] = to]
    /\ UNCHANGED <<answer, library>>

Withdraw(s) == Move(s, "open", "withdrawn")
Finalize(s) == Move(s, "open", "finalizing")
Reopen(s)   == Move(s, "finalizing", "open")
Reject(s)   == Move(s, "finalizing", "failed")

\* A slow worker may still publish for a session a faster one gave up.
Publish(s) ==
    /\ phase[s] \in {"finalizing", "failed"} /\ s \notin library
    /\ library' = library \union {s}
    /\ UNCHANGED <<phase, answer>>

Answer(s, t) ==
    /\ phase[s] = "finalizing" /\ t \in library
    /\ phase' = [phase EXCEPT ![s] = "answered"]
    /\ answer' = [answer EXCEPT ![s] = t]
    /\ UNCHANGED library

PromiseNext == \E s \in Sessions :
    \/ \E W \in SUBSET Sessions : Admit(s, W)
    \/ Withdraw(s) \/ Finalize(s) \/ Reopen(s) \/ Reject(s) \/ Publish(s)
    \/ \E t \in Sessions : Answer(s, t)

PromiseSpec == PromiseInit /\ [][PromiseNext]_pvars
=============================================================================
