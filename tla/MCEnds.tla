------------------------------- MODULE MCEnds -------------------------------
(* TLC instance for what must happen in the end: uploads are decided,       *)
(* deletions finish, a browser's session is restored or refused.  focus is  *)
(* the component that moves; fairness is that component's own.              *)
EXTENDS Integers, FiniteSets, TLC

CONSTANTS s1, s2, p1, p2, c1, src, d1, t1, a1, n1, n2, n3, None

VARIABLES focus,
    status, due, cleaned, pending, lease, hashed, result, content, again,
    multi, store, analysis, idem, pc, on, faults, crashes,
    life, video, keyed, mediaPhase, run, upload, registry, ever, objects, local,
    abandoned, mode, mediaPc, op, todo, want, fresh, mediaFaults, mediaCrashes, drops,
    state, family, owner, cookie, access, stale, user, restoring,
    refresh, logout, served, losses, reuse

uploadVars  == <<status, due, cleaned, pending, lease, hashed, result, content, again,
                 multi, store, analysis, idem, pc, on, faults, crashes>>
mediaVars   == <<life, video, keyed, mediaPhase, run, upload, registry, ever, objects, local,
                 abandoned, mode, mediaPc, op, todo, want, fresh, mediaFaults, mediaCrashes, drops>>
webVars     == <<state, family, owner, cookie, access, stale, user, restoring,
                 refresh, logout, served, losses, reuse>>
vars        == <<focus, uploadVars, mediaVars, webVars>>

\* One failing call or one crash.
Failing == INSTANCE DirectUpload WITH
    Sessions <- {s1, s2}, Procs <- {p1}, Contents <- {c1}, Payloads <- {"match"},
    MaxActive <- 1, MaxFaults <- 1, MaxCrashes <- 0
Crashing == INSTANCE DirectUpload WITH
    Sessions <- {s1, s2}, Procs <- {p1}, Contents <- {c1}, Payloads <- {"match"},
    MaxActive <- 1, MaxFaults <- 0, MaxCrashes <- 1
Media == INSTANCE MatchMedia WITH
    Procs <- {p1, p2}, Source <- src, Videos <- {}, Documents <- {d1},
    MaxFaults <- 1, MaxCrashes <- 0, MaxDrops <- 0,
    phase <- mediaPhase, store <- objects, pc <- mediaPc,
    faults <- mediaFaults, crashes <- mediaCrashes
Web == INSTANCE WebSession WITH
    Tabs <- {t1}, Accounts <- {a1}, Tokens <- {n1, n2, n3}, MaxLosses <- 1

ASSUME Web!WebWellFormed

-----------------------------------------------------------------------------
Init ==
    /\ focus \in {"failing", "crashing", "media", "web"}
    /\ Failing!Init /\ Web!Init
    /\ Media!Init /\ (focus # "media" => upload = "none")
Next ==
    /\ UNCHANGED focus
    /\ \/ focus = "failing"  /\ Failing!Next  /\ UNCHANGED <<mediaVars, webVars>>
       \/ focus = "crashing" /\ Crashing!Next /\ UNCHANGED <<mediaVars, webVars>>
       \/ focus = "media"    /\ Media!Next    /\ UNCHANGED <<uploadVars, webVars>>
       \/ focus = "web"      /\ Web!Next      /\ UNCHANGED <<uploadVars, mediaVars>>

\* Processes run on unless they die; a lease runs out, and the web client
\* polls a session it sees finalizing; the user repeats a deletion that was
\* not confirmed; an answered browser goes on.
FairSpec ==
    /\ Init /\ [][Next]_vars
    /\ WF_uploadVars(\/ focus = "failing"  /\ Failing!ProcStep(p1)
                     \/ focus = "crashing" /\ Crashing!ProcStep(p1))
    /\ \A s \in {s1, s2} :
        /\ WF_uploadVars(focus \in {"failing", "crashing"} /\ Failing!LeaseLapses(s))
        /\ SF_uploadVars(\/ focus = "failing"  /\ Failing!Poll(p1, s)
                         \/ focus = "crashing" /\ Crashing!Poll(p1, s))
    /\ \A p \in {p1, p2} : WF_mediaVars(focus = "media" /\ Media!Running(p))
    /\ SF_mediaVars(focus = "media" /\ Media!RetryPurge)
    /\ SF_mediaVars(focus = "media" /\ Media!RetryRelease)
    /\ WF_webVars(focus = "web" /\ Web!Network(t1))

-----------------------------------------------------------------------------
(* Properties.                                                              *)

\* A session that entered verification is decided, through crashes of its
\* workers and a bounded number of failures, as long as it is polled.
FinalizationDecided == Failing!FinalizationDecided

\* A session stays in "completing" for ever only if a process died (complete,
\* _restore_uploading).
CompletionResolves == Failing!CompletionResolves

\* A deletion of a match or of its recording that was accepted and is
\* repeated ends, through crashes and failures, once the match is not
\* permanently busy with other requests (match_lifecycle.py, source_media.py).
DeletionsEnd == Media!PurgeEnds /\ Media!ReleaseEnds

\* A browser session that is being restored is shown or refused in the end (as
\* long as the model has tokens to issue), also when the rotated token's
\* answer is lost (auth-context.tsx, restoreSession).
RestoringEnds == Web!RestoringEnds
=============================================================================
