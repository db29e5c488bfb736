--------------------------- MODULE StorageCapacity ---------------------------
(***************************************************************************)
(* Admission to the temporary workspace volume: LocalStorage keeps, for    *)
(* one process, the bytes promised to requests and the number of requests  *)
(* of each admission, all under one lock (persistence/storage.py).  A      *)
(* request reserves through AnalysisJobRepository._reserve_workspace, an   *)
(* upload or a diagnostic read directly; closing the repository deletes    *)
(* the workspace and gives everything back.  Bytes are counted in units.   *)
(***************************************************************************)
EXTENDS Integers, FiniteSets

CONSTANTS Requests,         \* repositories, one per request
          DiskSize,         \* bytes of the volume
          HardStop,         \* storage_hard_stop_free_bytes
          MaxActive,        \* storage_max_active_uploads
          MaxReads,         \* MAX_ACTIVE_READS
          ReadLimit,        \* MAX_READ_WORKSPACE_BYTES
          UploadReserve,    \* max_upload_size_bytes * the reservation multiplier
          MaxUpload,        \* max_upload_size_bytes
          MaxSize           \* bound: the largest set of records of one call

SizesFit ==
  /\ IsFiniteSet(Requests)
  /\ {DiskSize, HardStop, MaxActive, MaxReads, ReadLimit, MaxSize} \subseteq Nat
  /\ MaxUpload \in 1 .. UploadReserve /\ UploadReserve \in Nat
  /\ HardStop < DiskSize

VARIABLES reserved,   \* _reserved_by_root
          active,     \* _active_by_root
          reads,      \* _active_reads_by_root
          phase,      \* the request: "idle", "open" or "removed" (workspace deleted)
          held,       \* the reservations, <<request, kind>> -> bytes
          planned,    \* request -> bytes it was admitted for and has yet to write
          written,    \* request -> bytes in its workspace
          leftover    \* bytes of workspaces no request owns

counters == <<reserved, active, reads>>
vars == <<reserved, active, reads, phase, held, planned, written, leftover>>

ReadKinds == {"read", "diagnostic"}
Kinds == ReadKinds \union {"work", "upload"}

\* The sum of the values of f, counted unit by unit.
Units(f) == UNION {{x} \X (1 .. f[x]) : x \in DOMAIN f}
Total(f) == Cardinality(Units(f))
Free == DiskSize - Total(written) - leftover
Holding(kinds) == DOMAIN held \intersect (Requests \X kinds)
Holds(r, k) == <<r, k>> \in DOMAIN held
NothingHeld == [x \in {} |-> 0]

TypeOK == /\ {reserved, active, reads, leftover} \subseteq Nat
          /\ phase \in [Requests -> {"idle", "open", "removed"}]
          /\ held \in [DOMAIN held -> Nat] /\ DOMAIN held \subseteq Requests \X Kinds
          /\ planned \in [Requests -> Nat] /\ written \in [Requests -> Nat]

Init == /\ reserved = 0 /\ active = 0 /\ reads = 0 /\ leftover = 0
        /\ phase = [r \in Requests |-> "idle"]
        /\ held = NothingHeld
        /\ planned = [r \in Requests |-> 0] /\ written = [r \in Requests |-> 0]

-----------------------------------------------------------------------------
(* The three counter operations, each under the capacity lock. *)

AtLimit(k) == IF k \in ReadKinds THEN reads >= MaxReads ELSE active >= MaxActive
Fits_Unreserved(n) == Free - n >= HardStop
Fits(n) == Free - reserved - n >= HardStop

ReserveCapacity(k, n) ==
    /\ ~AtLimit(k) /\ Fits(n)
    /\ reserved' = reserved + n
    /\ active' = IF k \in ReadKinds THEN active ELSE active + 1
    /\ reads' = IF k \in ReadKinds THEN reads + 1 ELSE reads

\* Zero bytes are granted without looking; a longer promise needs the room.
ExtendCapacity(n) ==
    /\ n = 0 \/ Fits(n)
    /\ reserved' = reserved + n
    /\ UNCHANGED <<active, reads>>

AtLeastZero(n) == IF n < 0 THEN 0 ELSE n

\* A released reservation is gone and is not released again.
Remaining(S) == [x \in DOMAIN held \ S |-> held[x]]

\* _release_capacity for each reservation of the set S.
ReleaseCapacity(S) ==
    /\ reserved' = AtLeastZero(reserved - Total([x \in S |-> held[x]]))
    /\ active' = AtLeastZero(active - Cardinality(S \intersect Holding(Kinds \ ReadKinds)))
    /\ reads' = AtLeastZero(reads - Cardinality(S \intersect Holding(ReadKinds)))
    /\ held' = Remaining(S)

-----------------------------------------------------------------------------
(* Requests. *)

Open(r) ==
    /\ phase[r] = "idle"
    /\ phase' = [phase EXCEPT ![r] = "open"]
    /\ UNCHANGED <<counters, held, planned, written, leftover>>

Granted(r, k, n) == [x \in DOMAIN held \union {<<r, k>>} |->
    (IF x \in DOMAIN held THEN held[x] ELSE 0) + (IF x = <<r, k>> THEN n ELSE 0)]

\* _reserve_workspace: a bounded read uses read admission until the request
\* holds processing workspace, and its reservation never passes the read cap.
WorkspaceKind(r, reading, processing) ==
    IF reading /\ ~processing /\ ~Holds(r, "work") THEN "read" ELSE "work"

WithinReadLimit(r, k, n) ==
    k = "read" => (IF Holds(r, "read") THEN held[<<r, "read">>] ELSE 0) + n <= ReadLimit

\* size: the records' bytes, downloaded next; slack: the largest source again.
ReserveWorkspace(r, reading, processing, size, slack) ==
    LET k == WorkspaceKind(r, reading, processing)
        n == size + slack
    IN /\ phase[r] = "open" /\ planned[r] = 0 /\ slack <= size
       /\ WithinReadLimit(r, k, n)
       /\ IF Holds(r, k) THEN ExtendCapacity(n) ELSE ReserveCapacity(k, n)
       /\ held' = Granted(r, k, n)
       /\ planned' = [planned EXCEPT ![r] = size]
       /\ UNCHANGED <<phase, written, leftover>>

\* create_analysis and create_analysis_from_verified_object reserve for the
\* largest upload and stage one of any allowed size.
ReserveUpload(r, size) ==
    /\ phase[r] = "open" /\ planned[r] = 0 /\ ~Holds(r, "upload") /\ written[r] = 0
    /\ ReserveCapacity("upload", UploadReserve)
    /\ held' = Granted(r, "upload", UploadReserve)
    /\ planned' = [planned EXCEPT ![r] = size]
    /\ UNCHANGED <<phase, written, leftover>>

\* verified_diagnostic_artifacts takes an empty read slot before any lock or
\* request, and extends it once the registrations are known.
OpenDiagnostic(r) ==
    /\ phase[r] = "open" /\ planned[r] = 0 /\ ~Holds(r, "diagnostic")
    /\ ReserveCapacity("diagnostic", 0)
    /\ held' = Granted(r, "diagnostic", 0)
    /\ UNCHANGED <<phase, planned, written, leftover>>

ExtendDiagnostic(r, size) ==
    /\ phase[r] = "open" /\ planned[r] = 0
    /\ Holds(r, "diagnostic") /\ held[<<r, "diagnostic">>] = 0
    /\ ExtendCapacity(size)
    /\ held' = Granted(r, "diagnostic", size)
    /\ planned' = [planned EXCEPT ![r] = size]
    /\ UNCHANGED <<phase, written, leftover>>

\* One more byte of a download, a copy or a staged upload reaches the disk.
Write(r) ==
    /\ phase[r] = "open" /\ planned[r] > 0
    /\ planned' = [planned EXCEPT ![r] = @ - 1]
    /\ written' = [written EXCEPT ![r] = @ + 1]
    /\ UNCHANGED <<counters, phase, held, leftover>>

\* The finally of an upload or a diagnostic read, finished or failed; the
\* workspace keeps what was written.
Release(r, k) ==
    /\ phase[r] = "open" /\ k \in {"upload", "diagnostic"} /\ Holds(r, k)
    /\ ReleaseCapacity({<<r, k>>})
    /\ planned' = [planned EXCEPT ![r] = 0]
    /\ UNCHANGED <<phase, written, leftover>>

\* close: first the workspace is deleted (or the deletion fails and is logged) ...
RemoveWorkspace(r, failed) ==
    /\ phase[r] = "open" /\ ~Holds(r, "upload") /\ ~Holds(r, "diagnostic")
    /\ phase' = [phase EXCEPT ![r] = "removed"]
    /\ planned' = [planned EXCEPT ![r] = 0]
    /\ written' = [written EXCEPT ![r] = 0]
    /\ leftover' = IF failed THEN leftover + written[r] ELSE leftover
    /\ UNCHANGED <<counters, held>>

\* ... and then, in a finally, both reservations are given back.
ReleaseAll(r) ==
    /\ phase[r] = "removed"
    /\ ReleaseCapacity(DOMAIN held \intersect ({r} \X Kinds))
    /\ phase' = [phase EXCEPT ![r] = "idle"]
    /\ UNCHANGED <<planned, written, leftover>>

\* The process dies: its counters go with it, its workspaces stay on the disk.
Crash ==
    /\ \E r \in Requests : phase[r] # "idle"
    /\ leftover' = leftover + Total(written)
    /\ reserved' = 0 /\ active' = 0 /\ reads' = 0
    /\ phase' = [r \in Requests |-> "idle"]
    /\ held' = NothingHeld
    /\ planned' = [r \in Requests |-> 0] /\ written' = [r \in Requests |-> 0]

Next ==
    \/ Crash
    \/ \E r \in Requests :
        \/ Open(r) \/ OpenDiagnostic(r) \/ Write(r) \/ ReleaseAll(r)
        \/ \E size \in 0 .. MaxSize :
              \/ ExtendDiagnostic(r, size)
              \/ \E reading, processing \in BOOLEAN, slack \in {0, size} :
                    ReserveWorkspace(r, reading, processing, size, slack)
        \/ \E size \in 1 .. MaxUpload : ReserveUpload(r, size)
        \/ \E k \in Kinds : Release(r, k)
        \/ \E failed \in BOOLEAN : RemoveWorkspace(r, failed)

Spec == Init /\ [][Next]_vars

-----------------------------------------------------------------------------
(* Properties. *)

\* The counters are exactly what the requests hold: whatever the order of
\* extensions, releases and closes, nothing is released twice or forgotten,
\* so an idle process always has its whole volume and every slot again.
CountersMatchHeld ==
    /\ reserved = Total(held)
    /\ active = Cardinality(Holding(Kinds \ ReadKinds))
    /\ reads = Cardinality(Holding(ReadKinds))

\* The promises fit: even if every admitted request writes all it was
\* admitted for, the volume keeps the hard-stop reserve - with crashes and
\* failed deletions leaving files behind.
HardStopKept == Free - Total(planned) >= HardStop

\* Neither admission passes its limit, and readers never use the processing slots.
LimitsKept == /\ Cardinality(Holding(Kinds \ ReadKinds)) <= MaxActive
              /\ Cardinality(Holding(ReadKinds)) <= MaxReads

\* A request's bounded reads together stay below the read workspace cap,
\* however many artifacts it resolves one after the other.
ReadsBounded == \A r \in Requests : Holds(r, "read") => held[<<r, "read">>] <= ReadLimit
=============================================================================
