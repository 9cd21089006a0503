------------------------------ MODULE Submission ------------------------------
(***************************************************************************)
(* The client's write path: AttestationPipeline.run (pipeline.ts) with its *)
(* policy (policy.ts), prover (prove.ts, backend.ts) and client            *)
(* (StellarisClient.attest over BindingSorobanTransport).  Runs for one    *)
(* issuer, in one process or several, interleave: every await is a step.   *)
(* The invoker and the network behind the transport are external: a        *)
(* request may be executed late, after its caller was told it had failed,  *)
(* or never, and its answer may be lost.                                   *)
(*                                                                         *)
(* The ledger end is StellarisContract!Attest for that one issuer.  A      *)
(* bundle follows from the snapshot and the artifacts of its run, so a     *)
(* request only names its run.                                             *)
(***************************************************************************)
EXTENDS Integers, Sequences, FiniteSetsExt, SequencesExt

CONSTANTS
    Snapshot,        \* the ReserveSnapshots a run may be given
    Options,         \* the AttestationPipelineOptions: [minReserveRatioBps,
                     \* requireMetadata, zkey, verificationKey (or None),
                     \* requireLocalVerification]
    ContractKey,     \* the contract's v1 verification key
    None,
    Bps,             \* basis points in one: 10_000
    NReserves, MaxReserve,   \* N_RESERVES, MAX_RESERVE (u64::MAX)
    CompareMax,      \* largest value of SumGte's comparison width
    R,               \* order of the scalar field
    U64Max, U128Max,
    MaxAttempts,     \* RetryingTransportOptions.maxAttempts
    MaxRuns          \* bound on the runs

ASSUME WidthAssumption ==
    /\ {R, U64Max, U128Max, CompareMax, MaxReserve, NReserves, Bps} \subseteq Nat \ {0}
    /\ NReserves * MaxReserve <= CompareMax /\ CompareMax < R
    /\ U64Max < R /\ CompareMax <= U128Max

ASSUME PipelineAssumption ==
    /\ Snapshot \subseteq [balances : Seq(Int), liabilities : Int, periodId : Int,
                           metadata : BOOLEAN]
    /\ \A o \in Options : o.minReserveRatioBps \in Nat
    /\ MaxAttempts \in Nat \ {0} /\ MaxRuns \in Nat

VARIABLES
    runs,      \* the calls of run, in order: [snapshot, options]
    pc,        \* per run: the await it is at, or "done"
    attempt,   \* per run: attempt of the transport
    sink,      \* per run: the steps the audit sink has recorded
    requests,  \* requests in the network: [run, attempt]
    answers,   \* answers in the network: [run, attempt, value]
    book,      \* the issuer's v1 attestations by period, with their run
    receipts,  \* [run, attestation] of the runs that resolved
    refused,   \* runs that a contract error ended
    troubled   \* history: runs that met a failure of what they rest on

runVars == <<runs, pc, attempt, sink>>
resultVars == <<receipts, refused, troubled>>
submissionVars == <<runVars, requests, answers, book, resultVars>>

Run == DOMAIN runs
Period == 0..U64Max
Total(s) == MapThenSumSet(LAMBDA j : s.balances[j], DOMAIN s.balances)

-----------------------------------------------------------------------------
(* normalizeSnapshot *)
Normalizes(s) ==
    /\ Len(s.balances) \in 1..NReserves
    /\ s.periodId >= 0 /\ s.liabilities >= 0
    /\ \A j \in DOMAIN s.balances : s.balances[j] \in 0..MaxReserve

(* Fault: the ratio is rounded up. *)
RatioRoundsUp(o, s) ==
    s.liabilities # 0 => (Total(s) * Bps + s.liabilities - 1) \div s.liabilities
                             >= o.minReserveRatioBps

(* The ratio is a floor division of unbounded integers. *)
SufficientRatio(o, s) ==
    s.liabilities # 0 =>
        (Total(s) * Bps) \div s.liabilities >= o.minReserveRatioBps

(* evaluateSnapshotPolicy; the other findings depend on the snapshot alone *)
(* and are represented by the one about metadata.                          *)
Accepted(o, s) == SufficientRatio(o, s) /\ (o.requireMetadata => s.metadata)

(* The circuit sees the inputs modulo R and has no witness when the        *)
(* liabilities exceed the comparison width.                                *)
HasWitness(s) == s.liabilities % R <= CompareMax

(* bundle.parsed, the public signals of the proof for the snapshot.  The   *)
(* commitment is to the balances, padded with zeros.                       *)
Signals(s) ==
    [solvent |-> Total(s) >= s.liabilities % R,
     commitment |-> [j \in 1..NReserves |->
                        IF j \in DOMAIN s.balances THEN s.balances[j] ELSE 0],
     liabilities |-> s.liabilities % R, periodId |-> s.periodId % R]

(* The absent key, answer and entry are no keys, answers and entries. *)
ASSUME AbsenceAssumption ==
    /\ \A o \in Options : o.zkey # None
    /\ \A s \in Snapshot : Signals(s) # None
    /\ \A r \in 1..MaxRuns, s \in Snapshot : [run |-> r, attestation |-> Signals(s)] # None

(* Fault: reserves that are just enough are not. *)
StrictlySolvent(r) == Total(runs[r].snapshot) > runs[r].snapshot.liabilities

Solvent(r) == Signals(runs[r].snapshot).solvent

VerifiedLocally(r) == runs[r].options.verificationKey = runs[r].options.zkey

-----------------------------------------------------------------------------
Init ==
    /\ runs = << >> /\ pc = << >> /\ attempt = << >> /\ sink = << >>
    /\ requests = {} /\ answers = {}
    /\ book = [p \in Period |-> None]
    /\ receipts = {} /\ refused = {} /\ troubled = {}

(* run(snapshot), up to its first await. *)
Start(o, s) ==
    /\ Len(runs) < MaxRuns
    /\ Normalizes(s)
    /\ runs' = Append(runs, [snapshot |-> s, options |-> o])
    /\ pc' = Append(pc, "snapshot.normalized")
    /\ attempt' = Append(attempt, 1)
    /\ sink' = Append(sink, {})
    /\ UNCHANGED <<requests, answers, book, resultVars>>

(* The audit sink takes the step that r awaits. *)
Records(r, status) ==
    sink' = [sink EXCEPT ![r] = @ \cup {<<pc[r], status>>}]

GoTo(r, await) ==
    /\ pc' = [pc EXCEPT ![r] = await]
    /\ UNCHANGED requests

(* client.attest: signer and bundle always agree here; the plan goes out. *)
Submit(r) ==
    /\ pc' = [pc EXCEPT ![r] = "submitting"]
    /\ requests' = requests \cup {[run |-> r, attempt |-> attempt[r]]}

AuditNormalized(r) ==
    /\ pc[r] = "snapshot.normalized"
    /\ Records(r, "accepted")
    /\ GoTo(r, "policy.evaluated")
    /\ UNCHANGED <<attempt, runs, answers, book, resultVars>>

AuditPolicy(r) ==
    /\ pc[r] = "policy.evaluated"
    /\ LET accepted == Accepted(runs[r].options, runs[r].snapshot)
       IN  /\ Records(r, IF accepted THEN "accepted" ELSE "rejected")
           /\ GoTo(r, IF accepted THEN "proving" ELSE "done")
    /\ UNCHANGED <<attempt, runs, answers, book, resultVars>>

Prove(r) ==
    /\ pc[r] = "proving"
    /\ HasWitness(runs[r].snapshot)
    /\ GoTo(r, "proof.generated")
    /\ UNCHANGED <<attempt, runs, sink, answers, book, resultVars>>

AuditProof(r) ==
    LET o == runs[r].options
    IN  /\ pc[r] = "proof.generated"
        /\ Records(r, "accepted")
        /\ CASE ~Solvent(r) -> GoTo(r, "proof.solvency")
             [] Solvent(r) /\ ~o.requireLocalVerification -> Submit(r)
             [] Solvent(r) /\ o.requireLocalVerification ->
                    GoTo(r, IF o.verificationKey = None THEN "proof.local_verification"
                                                        ELSE "verifying")
        /\ UNCHANGED <<attempt, runs, answers, book, resultVars>>

AuditInsolvency(r) ==
    /\ pc[r] = "proof.solvency"
    /\ Records(r, "rejected")
    /\ GoTo(r, "done")
    /\ UNCHANGED <<attempt, runs, answers, book, resultVars>>

Verify(r) ==
    /\ pc[r] = "verifying"
    /\ GoTo(r, "proof.local_verification")
    /\ UNCHANGED <<attempt, runs, sink, answers, book, resultVars>>

(* Fault: the outcome of the local verification is recorded, not heeded. *)
IgnoresVerification(r) ==
    /\ pc[r] = "proof.local_verification"
    /\ Records(r, IF VerifiedLocally(r) THEN "accepted" ELSE "rejected")
    /\ Submit(r)
    /\ UNCHANGED <<attempt, runs, answers, book, resultVars>>

AuditVerification(r) ==
    /\ pc[r] = "proof.local_verification"
    /\ Records(r, IF runs[r].options.verificationKey = None THEN "failed"
                  ELSE IF VerifiedLocally(r) THEN "accepted" ELSE "rejected")
    /\ IF VerifiedLocally(r) THEN Submit(r) ELSE GoTo(r, "done")
    /\ UNCHANGED <<attempt, runs, answers, book, resultVars>>

(* The sink takes the receipt's step, and run resolves with the receipt.   *)
AuditReceipt(r) ==
    /\ pc[r] = "contract.attest"
    /\ Records(r, "submitted")
    /\ \E a \in answers :
          /\ a.run = r /\ a.attempt = attempt[r]
          /\ receipts' = receipts \cup {[run |-> r, attestation |-> a.value]}
    /\ GoTo(r, "done")
    /\ UNCHANGED <<attempt, runs, answers, book, refused, troubled>>

(* The sink, the prover or the verifier throws, and run rejects; or the    *)
(* process dies and starts anew.  A request it has sent stays out.         *)
Rejects(r) ==
    /\ pc[r] \notin {"done", "submitting"}
    /\ GoTo(r, "done")
    /\ troubled' = troubled \cup {r}
    /\ UNCHANGED <<attempt, runs, sink, answers, book, receipts, refused>>

Dies(r) ==
    /\ pc[r] = "submitting"
    /\ GoTo(r, "done")
    /\ troubled' = troubled \cup {r}
    /\ UNCHANGED <<attempt, runs, sink, answers, book, receipts, refused>>

-----------------------------------------------------------------------------
(* StellarisClient.plan sets no idempotencyKey, and invoke retries only    *)
(* plans that have one.                                                    *)
HasIdempotencyKey == FALSE

(* Fault: writes are retried like reads. *)
RetriesWrites(r) == attempt[r] < MaxAttempts

Resubmits(r) == HasIdempotencyKey /\ attempt[r] < MaxAttempts

(* What invoke does when the invoker throws: the next attempt, or the end  *)
(* of the run.                                                             *)
Throws(r) ==
    LET again == Resubmits(r)
    IN  /\ attempt' = IF again THEN [attempt EXCEPT ![r] = @ + 1] ELSE attempt
        /\ requests' = IF again
                       THEN requests \cup {[run |-> r, attempt |-> attempt[r] + 1]}
                       ELSE requests
        /\ pc' = IF again THEN pc ELSE [pc EXCEPT ![r] = "done"]

(* The invoker returns the attestation that the contract returned. *)
ReceiveValue(r) ==
    /\ pc[r] = "submitting"
    /\ \E a \in answers : /\ a.run = r /\ a.attempt = attempt[r]
                          /\ a.value # None
    /\ GoTo(r, "contract.attest")
    /\ UNCHANGED <<attempt, runs, sink, answers, book, resultVars>>

(* It throws the error that the contract returned. *)
ReceiveError(r) ==
    /\ pc[r] = "submitting"
    /\ \E a \in answers : /\ a.run = r /\ a.attempt = attempt[r]
                          /\ a.value = None
    /\ Throws(r)
    /\ refused' = IF Resubmits(r) THEN refused ELSE refused \cup {r}
    /\ UNCHANGED <<runs, sink, answers, book, receipts, troubled>>

(* It throws for a reason of its own: a timeout, a lost connection, an     *)
(* answer that does not decode.  The request may still be executed.        *)
InvokerThrows(r) ==
    /\ pc[r] = "submitting"
    /\ Throws(r)
    /\ troubled' = troubled \cup {r}
    /\ UNCHANGED <<runs, sink, answers, book, receipts, refused>>

(* Fault: the contract overwrites an attestation. *)
AttestableTwice(r) ==
    LET signals == Signals(runs[r].snapshot)
    IN  /\ runs[r].options.zkey = ContractKey
        /\ signals.solvent
        /\ signals.periodId <= U64Max /\ signals.liabilities <= U128Max

(* The checks of the contract's attest for the bundle of a run. *)
Attestable(r) ==
    LET signals == Signals(runs[r].snapshot)
    IN  /\ runs[r].options.zkey = ContractKey
        /\ signals.solvent
        /\ signals.periodId <= U64Max /\ signals.liabilities <= U128Max
        /\ book[signals.periodId] = None

(* The ledger executes a request. *)
Execute(q) ==
    LET signals == Signals(runs[q.run].snapshot)
        ok == Attestable(q.run)
    IN  /\ requests' = requests \ {q}
        /\ answers' = answers \cup {[run |-> q.run, attempt |-> q.attempt,
                                     value |-> IF ok THEN signals ELSE None]}
        /\ book' = IF ok
                   THEN [book EXCEPT ![signals.periodId] =
                            [run |-> q.run, attestation |-> signals]]
                   ELSE book
        /\ UNCHANGED <<runVars, resultVars>>

(* The network drops a request, or its transaction expires. *)
Expire(q) ==
    /\ requests' = requests \ {q}
    /\ troubled' = troubled \cup {q.run}
    /\ UNCHANGED <<runVars, answers, book, receipts, refused>>

RunStep(r) ==
    \/ AuditNormalized(r) \/ AuditPolicy(r) \/ Prove(r) \/ AuditProof(r)
    \/ AuditInsolvency(r) \/ Verify(r) \/ AuditVerification(r)
    \/ AuditReceipt(r) \/ ReceiveValue(r) \/ ReceiveError(r)

Next ==
    \/ \E o \in Options, s \in Snapshot : Start(o, s)
    \/ \E r \in Run : RunStep(r) \/ Rejects(r) \/ Dies(r) \/ InvokerThrows(r)
    \/ \E q \in requests : Execute(q) \/ Expire(q)

(* Awaited promises settle, by a value or by an error, and the network     *)
(* does something about every request.                                     *)
Spec ==
    /\ Init /\ [][Next]_submissionVars
    /\ \A r \in 1..MaxRuns : WF_submissionVars(r \in Run /\ RunStep(r))
    /\ WF_submissionVars(\E q \in requests : Execute(q))

-----------------------------------------------------------------------------
Attested == {p \in Period : book[p] # None}

(* Whatever a run has put on the ledger, however late, kept its policy on  *)
(* the true, unreduced figures of its snapshot; and under a policy of at   *)
(* least 100% the attested liabilities are the true ones: the circuit's    *)
(* arithmetic modulo R has hidden nothing.                                 *)
LedgerKeepsPolicy ==
    \A p \in Attested :
        LET r == runs[book[p].run]
            s == r.snapshot
            least == r.options.minReserveRatioBps
        IN  /\ Total(s) * Bps >= least * s.liabilities
            /\ least >= Bps => book[p].attestation.liabilities = s.liabilities

(* Nothing reaches the ledger that the audit sink has not seen accepted at *)
(* every gate its options require, and the sink says "submitted" only of   *)
(* what is on the ledger.                                                  *)
AuditExplainsLedger ==
    /\ \A p \in Attested :
          LET r == book[p].run
          IN  /\ {<<"snapshot.normalized", "accepted">>, <<"policy.evaluated", "accepted">>,
                  <<"proof.generated", "accepted">>} \subseteq sink[r]
              /\ runs[r].options.requireLocalVerification =>
                    <<"proof.local_verification", "accepted">> \in sink[r]
              /\ ~\E step \in sink[r] : step[2] \in {"rejected", "failed"}
    /\ \A r \in Run : <<"contract.attest", "submitted">> \in sink[r] =>
          \E p \in Attested : book[p].run = r

(* A receipt is of the attestation that its own run has put on the ledger: *)
(* of two runs for a period, at most one gets a receipt.                   *)
ReceiptsTruthful ==
    \A x \in receipts :
        LET p == x.attestation.periodId
        IN  p \in Attested /\ book[p] = x

(* A run that was ended by a contract error has no attestation on the      *)
(* ledger and will not get one: whoever is told PeriodAlreadyAttested lost *)
(* the period to another run.                                              *)
RefusalsFinal ==
    \A r \in refused :
        /\ \A p \in Attested : book[p].run # r
        /\ \A q \in requests : q.run # r

(* An issuer that is solvent in the true figures, keeps its own policy and *)
(* uses matching keys gets its receipt, or finds the period attested by    *)
(* another run, unless something it rests on fails: no gate between        *)
(* normalization and the contract turns down what the gates before it let  *)
(* through, and nothing gets stuck.                                        *)
Sound(r) ==
    LET s == runs[r].snapshot
        o == runs[r].options
    IN  /\ Accepted(o, s)
        /\ Total(s) >= s.liabilities /\ s.liabilities <= CompareMax /\ s.periodId <= U64Max
        /\ o.zkey = ContractKey
        /\ o.requireLocalVerification => o.verificationKey = ContractKey

Landed(r) == \E x \in receipts : x.run = r

SoundRunsLand ==
    \A r \in 1..MaxRuns :
        (r \in Run /\ Sound(r))
            ~> (r \in Run /\ (\/ Landed(r) \/ r \in troubled
                             \/ /\ runs[r].snapshot.periodId \in Attested
                                /\ book[runs[r].snapshot.periodId].run # r))

===============================================================================
