------------------------------ MODULE Reconciler ------------------------------
(***************************************************************************)
(* The client's indexing process: AttestationRegistry (registry.ts),       *)
(* RegistryReconciler (reconciler.ts) and its file checkpoint              *)
(* (persistence.ts), next to a contract that other parties keep attesting  *)
(* to.  Every await is a step of its own: between two of them the chain    *)
(* may grow, a query may fill the same store, or the process may die.      *)
(*                                                                         *)
(* The contract is the PeriodIndex that StellarisContract implements.  An  *)
(* attestation never changes, so an indexed record is the key <<issuer,    *)
(* period>> of the v1 attestation it holds.                                *)
(***************************************************************************)
EXTENDS PeriodIndex, Integers, FiniteSetsExt

CONSTANTS
    Targets,      \* sequence of [issuer, required]: options.targets
    MaxAttempts,  \* backoff.maxAttempts
    None,
    MaxLines      \* bound on the contract's attestations

ASSUME TargetAssumption ==
    /\ Targets \in Seq([issuer : Address, required : BOOLEAN]) /\ Targets # << >>
    /\ MaxAttempts \in Nat \ {0}
    /\ Period \subseteq Nat

(* An absent snapshot is no snapshot, and no status no success. *)
ASSUME AbsenceAssumption ==
    None # "succeeded" /\ \A records \in SUBSET (Address \X Period) : records # None

VARIABLES
    pc,         \* the await the process is at
    store,      \* the records of the AttestationStore
    target,     \* index of the target being refreshed
    attempt,    \* attempt at it, from 1
    todo,       \* listed periods that are not fetched yet
    snapshots,  \* by target: the records of its snapshot, or None
    failures,   \* the run's ReconciliationFailures
    status,     \* of the last run: None, "succeeded", "failed" or "rejected"
    file,       \* the checkpoint file: [state, records]
    before      \* history: lines when the run began

chainVars == <<lines, periods>>
runVars == <<target, attempt, todo, snapshots, failures, status, before>>
processVars == <<pc, store, runVars, file>>
reconcilerVars == <<chainVars, processVars>>

TargetIndex == DOMAIN Targets
Issuer == Targets[target].issuer

RecordsOf(issuer) == {r \in store : r[1] = issuer}
NoSnapshots == [i \in TargetIndex |-> None]
Snapshotted == {i \in TargetIndex : snapshots[i] # None}

-----------------------------------------------------------------------------
ReconcilerInit ==
    /\ Init
    /\ pc = "idle" /\ store = {}
    /\ target = 1 /\ attempt = 1 /\ todo = {}
    /\ snapshots = NoSnapshots /\ failures = {} /\ status = None
    /\ file = [state |-> "absent", records |-> {}]
    /\ before = {}

(* Other parties attest, in any version. *)
ChainGrows ==
    /\ Cardinality(lines) < MaxLines
    /\ Next
    /\ UNCHANGED processVars

StartRun ==
    /\ pc = "idle"
    /\ pc' = "starting"
    /\ target' = 1 /\ attempt' = 1 /\ todo' = {}
    /\ snapshots' = NoSnapshots /\ failures' = {} /\ status' = None
    /\ before' = lines
    /\ UNCHANGED <<chainVars, store, file>>

(* The audit record of the start has been taken. *)
BeginLoop ==
    /\ pc = "starting"
    /\ pc' = "listing"
    /\ UNCHANGED <<chainVars, store, runVars, file>>

(* Fault: a paged listing loses its last period. *)
ListedButLast(issuer) ==
    LET all == {periods[issuer][j] : j \in DOMAIN periods[issuer]}
    IN  IF all = {} THEN {} ELSE all \ {Max(all)}

(* dedupeAndSort(listPeriods(issuer)): fetched in increasing order. *)
ListedPeriods(issuer) == {periods[issuer][j] : j \in DOMAIN periods[issuer]}

List ==
    /\ pc = "listing"
    /\ todo' = ListedPeriods(Issuer)
    /\ pc' = "fetching"
    /\ UNCHANGED <<chainVars, store, file, target, attempt, snapshots, failures,
                   status, before>>

Fail(retryable) ==
    /\ failures' = failures \cup
          {[target |-> target, attempt |-> attempt, retryable |-> retryable]}
    /\ pc' = "failed"
    /\ UNCHANGED <<chainVars, file, target, attempt, todo, snapshots, status, before>>

(* Fault: what is listed is stored without looking at what was read. *)
StoresListed ==
    /\ pc = "fetching" /\ todo # {}
    /\ store' = store \cup {<<Issuer, Min(todo)>>}
    /\ todo' = todo \ {Min(todo)}
    /\ UNCHANGED <<chainVars, pc, file, target, attempt, snapshots, failures,
                   status, before>>

(* The next listed period, read with get_attestation: a v1 record is put   *)
(* in the store, and a period without one ends the refresh.                *)
Fetch ==
    /\ pc = "fetching" /\ todo # {}
    /\ LET p == Min(todo) IN
          /\ <<1, Issuer, p>> \in lines
          /\ store' = store \cup {<<Issuer, p>>}
          /\ todo' = todo \ {p}
    /\ UNCHANGED <<chainVars, pc, file, target, attempt, snapshots, failures,
                   status, before>>

(* Fault: a listed period without a record is passed over. *)
SkipsMissing ==
    /\ pc = "fetching" /\ todo # {}
    /\ <<1, Issuer, Min(todo)>> \notin lines
    /\ todo' = todo \ {Min(todo)}
    /\ UNCHANGED <<chainVars, pc, store, file, target, attempt, snapshots, failures,
                   status, before>>

FetchMissing ==
    /\ pc = "fetching" /\ todo # {}
    /\ <<1, Issuer, Min(todo)>> \notin lines
    /\ Fail(FALSE)
    /\ UNCHANGED store

(* A read, its decoding or the audit sink throws; only errors of kind      *)
(* "transport" and thrown non-errors are retryable.                        *)
RefreshThrows ==
    /\ pc \in {"listing", "fetching"}
    /\ \E retryable \in BOOLEAN : Fail(retryable)
    /\ UNCHANGED store

(* The next target, or the end of the loop over targets. *)
Advance ==
    /\ IF target < Len(Targets)
       THEN pc' = "listing" /\ target' = target + 1
       ELSE pc' = "saving" /\ target' = target
    /\ attempt' = 1
    /\ todo' = {}

(* refreshIssuer returns snapshot(issuer), and refreshWithRetry returns it. *)
CompleteRefresh ==
    /\ pc = "fetching" /\ todo = {}
    /\ snapshots' = [snapshots EXCEPT ![target] = RecordsOf(Issuer)]
    /\ Advance
    /\ UNCHANGED <<chainVars, store, file, failures, status, before>>

(* Fault: an error that is not retryable is retried. *)
RetriesAlways == attempt < MaxAttempts

Retries ==
    /\ [target |-> target, attempt |-> attempt, retryable |-> TRUE] \in failures
    /\ attempt < MaxAttempts

Retry ==
    /\ pc = "failed"
    /\ Retries
    /\ attempt' = attempt + 1
    /\ todo' = {}
    /\ pc' = "listing"
    /\ UNCHANGED <<chainVars, store, file, target, snapshots, failures, status, before>>

GiveUp ==
    /\ pc = "failed"
    /\ ~Retries
    /\ Advance
    /\ UNCHANGED <<chainVars, store, file, snapshots, failures, status, before>>

(* snapshots.flatMap(attestations) *)
SnapshotRecords == UNION {snapshots[i] : i \in Snapshotted}

(* saveRecords opens the file with writeFile, which truncates it; with no  *)
(* snapshot the checkpoint is left as it is.                               *)
BeginSave ==
    /\ pc = "saving"
    /\ IF Snapshotted = {}
       THEN pc' = "reporting" /\ file' = file
       ELSE pc' = "writing" /\ file' = [state |-> "torn", records |-> {}]
    /\ UNCHANGED <<chainVars, store, runVars>>

EndSave ==
    /\ pc = "writing"
    /\ file' = [state |-> "written", records |-> SnapshotRecords]
    /\ pc' = "reporting"
    /\ UNCHANGED <<chainVars, store, runVars>>

(* targets.find(...): of several entries for an issuer, the first decides. *)
IssuerRequired(i) ==
    \E j \in TargetIndex :
        /\ Targets[j].issuer = Targets[i].issuer /\ Targets[j].required
        /\ \A k \in 1..(j - 1) : Targets[k].issuer # Targets[i].issuer

(* Fault: a failure that was retryable does not count. *)
FatalFailures == {f \in failures : IssuerRequired(f.target) /\ ~f.retryable}

(* failures.some(...): every failed attempt at a required issuer counts.   *)
RequiredFailures == {f \in failures : IssuerRequired(f.target)}

Finish ==
    /\ pc = "reporting"
    /\ status' = IF RequiredFailures # {} THEN "failed" ELSE "succeeded"
    /\ pc' = "idle"
    /\ UNCHANGED <<chainVars, store, file, target, attempt, todo, snapshots, failures,
                   before>>

(* The audit sink throws at the start of the run, in a catch block or at   *)
(* the end; mkdir or open fails, and the file is as it was; or writeFile   *)
(* does: runOnce rejects.                                                  *)
RunRejects ==
    /\ pc \in {"starting", "failed", "saving", "writing", "reporting"}
    /\ pc = "saving" => Snapshotted # {}
    /\ status' = "rejected"
    /\ pc' = "idle"
    /\ UNCHANGED <<chainVars, store, file, target, attempt, todo, snapshots, failures,
                   before>>

(* registry.get, called by the service at any time. *)
Query ==
    /\ pc # "down"
    /\ \E issuer \in Address, p \in Period :
          /\ <<issuer, p>> \notin store
          /\ <<1, issuer, p>> \in lines
          /\ store' = store \cup {<<issuer, p>>}
    /\ UNCHANGED <<chainVars, pc, runVars, file>>

Crash ==
    /\ pc # "down"
    /\ pc' = "down" /\ store' = {}
    /\ target' = 1 /\ attempt' = 1 /\ todo' = {}
    /\ snapshots' = NoSnapshots /\ failures' = {} /\ status' = None /\ before' = {}
    /\ UNCHANGED <<chainVars, file>>

(* FileCheckpointRepository.createStore: a missing file loads as no        *)
(* records; a torn one does not parse, and load throws.                    *)
Restart ==
    /\ pc = "down"
    /\ file.state # "torn"
    /\ store' = file.records
    /\ pc' = "idle"
    /\ UNCHANGED <<chainVars, runVars, file>>

Progress ==
    \/ BeginLoop \/ List \/ Fetch \/ FetchMissing \/ RefreshThrows \/ CompleteRefresh
    \/ Retry \/ GiveUp \/ BeginSave \/ EndSave \/ Finish \/ RunRejects

ReconcilerNext ==
    ChainGrows \/ StartRun \/ Progress \/ Query \/ Crash \/ Restart

ReconcilerSpec == ReconcilerInit /\ [][ReconcilerNext]_reconcilerVars

-----------------------------------------------------------------------------
(* Whatever the client has indexed -- in memory, in a snapshot, in the     *)
(* checkpoint, before or after a restart -- is attested on the contract.   *)
IndexSound ==
    \A r \in store \cup file.records \cup SnapshotRecords : <<1, r[1], r[2]>> \in lines

(* A snapshot holds every period its issuer had attested, in any version,  *)
(* before the run began: what it reports as missing was then unattested.   *)
SnapshotsCatchUp ==
    \A i \in Snapshotted : \A line \in before :
        line[2] = Targets[i].issuer => <<line[2], line[3]>> \in snapshots[i]

(* A run reported as succeeded has caught up on every required issuer, and *)
(* a process that starts from its checkpoint has too.  An issuer listed    *)
(* more than once is as required as its first entry says.                  *)
SuccessMeansCaughtUp ==
    status = "succeeded" =>
        \A line \in before : \A i \in TargetIndex :
            IssuerRequired(i) /\ line[2] = Targets[i].issuer =>
                <<line[2], line[3]>> \in file.records \cap store

(* Attempts at a target are counted from 1 without gaps, only the last may *)
(* have failed for good, and a target with a snapshot had one more.        *)
RetryDiscipline ==
    \A i \in TargetIndex :
        LET own == {f \in failures : f.target = i}
        IN  /\ {f.attempt : f \in own} = 1..Cardinality(own)
            /\ \A f \in own : ~f.retryable => f.attempt = Cardinality(own)
            /\ snapshots[i] # None =>
                  Cardinality(own) < MaxAttempts /\ \A f \in own : f.retryable

(* registry.ts raises "contract listed period without attestation".        *)
MissingMeansUnattested ==
    [][FetchMissing => \A v \in Version : <<v, Issuer, Min(todo)>> \notin lines]_reconcilerVars

===============================================================================
