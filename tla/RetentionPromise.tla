-------------------------- MODULE RetentionPromise --------------------------
(***************************************************************************)
(* What the owner of a match is promised about its media, without locks,    *)
(* workspaces, rows or requests: what is offered is kept, nothing that is   *)
(* offered is destroyed, and a match that was deleted offers nothing again. *)
(***************************************************************************)
CONSTANT Objects

VARIABLES offered, kept, closed

promiseVars == <<offered, kept, closed>>

Init == offered = {} /\ closed = FALSE /\ kept \in SUBSET Objects

\* Bytes are stored, whether or not they will be offered.
Keep(o) == kept' = kept \union {o} /\ UNCHANGED <<offered, closed>>

\* A result is published and may supersede others.
Offer(S) == ~closed /\ S \subseteq kept /\ offered' = S /\ UNCHANGED <<kept, closed>>

\* The owner deletes the recording, or the match.
Withdraw(S) == offered' = offered \ S /\ UNCHANGED <<kept, closed>>
CloseMatch == closed' = TRUE /\ offered' = {} /\ UNCHANGED kept

\* Bytes that are not offered may go.
Destroy(o) == o \notin offered /\ kept' = kept \ {o} /\ UNCHANGED <<offered, closed>>

Next ==
    \/ \E o \in Objects : Keep(o) \/ Destroy(o)
    \/ \E S \in SUBSET Objects : Offer(S) \/ Withdraw(S)
    \/ CloseMatch

Spec == Init /\ [][Next]_promiseVars
=============================================================================
