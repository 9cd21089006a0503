# A verification of stellaris-core

Stellaris lets a custodian ("issuer") attest on a Soroban ledger that its
reserves cover its liabilities: a Groth16 proof is verified on chain and an
attestation is stored per issuer and reporting period; a token can make its
mint depend on such an attestation; a TypeScript client submits attestations
and keeps an index of them. This directory holds TLA+ models of the parts of
the repository that have state, TLC configurations that check them on small
instances, and TLAPS proofs for every instance.

## 1. Inventory

| Part | Code | State | Operations | Model |
|---|---|---|---|---|
| Attestation contract | `contracts/stellaris/src/{lib,storage,types,signals,admin}.rs` | admin, three verification keys, attestations v1/v2/v3 per (issuer, period), one period list per issuer, oracle, price commitment per period, custodian key | `init`, `init_v2`, `init_v3`, `attest`, `attest_v2`, `attest_v3`, `attest_v3_signed`, `set_oracle`, `publish_oracle_commitment`, `set_custodian`, getters | `StellarisContract` |
| Groth16 verifier, BLS check | `verifier.rs`, `bls_sig.rs` | none | `dispatch_verify`, `verify_custodian_sig` | `Verifier` (the equations); operators of `StellarisContract` (what they promise) |
| Gated token | `contracts/mint-guard/src/lib.rs`, copied in `contracts/stellaris/src/mint_guard.rs` | config, current period, supply, balances | `init`, `set_current_period`, `mint`, `check_mint_allowed` | `MintGuard`, composed in `SecureMint` |
| Registry, reconciler | `client/src/{registry,reconciler}.ts` | record store, run in progress | `get`, `refreshIssuer`, `snapshot`, `runOnce` | `Reconciler` |
| Checkpoint | `client/src/persistence.ts` | the checkpoint file, records of each process that uses it | `load`, `createStore`, `save`, `saveRecords`, `put`, `clear` | `Checkpoint`; one process and its file in `Reconciler` |
| Read path | `client/src/transport.ts`, `stellar.ts` | the call in the network, its attempt | `simulate`, `withRetry`, `listPeriods`, `getAttestation` | `ReadPath` |
| Write path | `client/src/{pipeline,policy,domain,prove,backend,stellar,transport}.ts` | the run in progress, the audit sink's record, requests in the network | `run`, `attest`, `invoke` | `Submission` |
| Signal parsers, encodings | `client/src/{signals,encoding,codec}.ts`, `sdk/rust/src/lib.rs` | none | parse, check, encode | `PublicSignals` (the contract's parser in `StellarisContract` too) |
| Circuits | `circuits/*.circom` | none | constraint systems, assigned by a prover | `PricedSolvency` (v3), `LiabilityTree` (v2, inclusion); v1 as part of `Submission`; the contract model takes "provable under k" as a set of statements |
| Events, audit, errors, constants, manifest | `client/src/{events,audit,errors,constants,manifest}.ts` | an append-only log | append | not modelled |
| Scripts, demos, fixtures, generated build | `setup/`, `client/scripts/`, `client/dist/`, `fixtures/` | | | not modelled |

**How they interact.** An issuer's client sends `attest*` transactions to the
contract. The contract reads its own storage, calls the pairing host functions
and publishes an event. The token reads `get_attestation_v3` across contracts
inside `mint`. The registry reads `list_periods` and then `get_attestation` per
period, each a call over a transport that retries; the reconciler drives it over
a list of targets, with retries of its own, and writes the snapshots to a file
that other processes may use too.

**What is hard.** Each contract call is atomic, so the contract's difficulties
are the orders of calls by many accounts: which part is enabled first, an
oracle publishing around an attestation, a custodian or oracle replaced, three
versions sharing one period list but not one replay check; and the widths of
integers (256-bit words narrowed to `u64`/`u128`, while the verifier sees them
modulo the scalar field). The token acts on an attestation recorded earlier by
somebody else's transaction. The client's difficulties are concurrency and
failure: the chain moves between two awaits, a query fills the store a refresh
is reading, calls fail at any point and answers arrive out of date, two retry
loops are nested, a lost answer leaves a write undecided, saves to one file
overlap, and the process dies anywhere, also inside the write of its only
checkpoint.

**What makes each part correct.** Contract: only proven solvency claims are
recorded, once, for ever, under their own key; list, storage and events agree;
the provenance flags say what happened; a refusal that nothing can mend stays.
Verifier: a proof or signature passes for what it was made for and for nothing
else. Token: every unit in circulation was minted against an attestation that
satisfied the policy; a closed gate stays closed. Registry: nothing is indexed
that is not attested, a successful run has caught up, retry is bounded, every
run ends. Checkpoint: what is loaded was saved, whole. Write path: the ledger
keeps the policy, the receipts tell the truth, and a sound run lands. Circuits:
no assignment, however dishonest, makes a flag or a total say something else
than the integers do, and honest inputs always have a proof. Parsers: what one
end accepts and records is what the other end means. The full list of hazards,
each at its line with the properties that cover it, is `hazards` in
`PROJECT.json`.

## 2. Modules

    SolvencyLedger     PeriodIndex                  abstract specifications
          ^   (refined by)  ^    ^
          |                 |    |  (extended by)
          StellarisContract      Reconciler   Checkpoint   Submission   components
            ^                      ^  (extended and refined by)
    SecureMint (+ MintGuard)     ReadPath                               compositions

        CircuitComponents                           field arithmetic of the circuits
          ^            ^
    PricedSolvency   LiabilityTree   PublicSignals   Verifier           components

`X_proofs` holds the theorems about `X`: for `StellarisContract`, `SecureMint`
(which builds on the former), `Checkpoint` and `Submission`; `ReadPath_proofs`
has those about `Reconciler` and `ReadPath`, `Circuits_proofs` those about
`PricedSolvency` and `LiabilityTree`, and `Verification_proofs` those about
`PublicSignals` and `Verifier`. `SumTheorems` is the library they share:
recursion, induction and sums over finite sets. The `MC` modules instantiate the
models for TLC: `MCContract`, `MCSecureMint`, `MCReconciler`, `MCReadPath`,
`MCCheckpoint`, `MCSubmission`, and `MCProofs` the four modules in the last row.

**SolvencyLedger** is what a reader of the contract is promised: a book with one
line per (version, issuer, period), written once with a claim of solvency that
is provable under the one key adopted for that version.

**PeriodIndex** is what an indexer relies on: lines are only added, and the
period list of an issuer grows by one entry per line, of whatever version.

**StellarisContract** has one action per entrypoint that writes storage, named
after it. A call that returns an error or fails `require_auth` is rolled back by
the host, so it changes nothing and is a stutter; what the action's guard keeps
is the conjunction of the handler's checks, and `AnswerV3`/`AnswerV3Signed` keep
their order: they are the errors an issuer is told. The four attest
entrypoints share `Accepts` and `Record`; `InitV2` and `InitV3` share
`RegisterKey`. Public signals are sequences of words: `WellFormed` is the
parser, `Scalars` is what the pairing check makes of the words (`% R`), and a
proof verifies exactly if it was made for the key and for those scalars. Which
statements are provable under which key, and which words a custodian has signed,
are constants: Groth16 and BLS are assumed sound. `events` is the ledger's event
stream. `published` and `custodians` are history variables that no guard reads
(the length of `published` caps the oracle, see `MaxPublications`).

**Verifier** has the equations behind those two assumptions: the accumulator
`vk_x`, the four pairings of Groth16 with their signs, the dispatch by version,
and the two pairings of a BLS signature, over groups in which a point is a
discrete logarithm or a linear combination of independent points. It shows that
the code pairs the right things with the right signs; that nobody can compute a
proof without a witness is the assumption that stays (makers hand over proofs
of satisfied statements only). Custodian keys are nonzero and the points of a
setup independent.

**MintGuard** models the token. The attestations it reads and the clock are
variables of its environment; **SecureMint** substitutes the contract's own
state for them and interleaves the two, one transaction at a time. `mints` is
history.

**Reconciler** is a process with a program counter that stops at the awaits of
`runOnce`, `refreshWithRetry`, `refreshIssuer` and `save`, from the audit record
that starts a run to the one that ends it. A run rejects where one of its own
awaits does (`RunRejects`), and a refresh fails where one of its does
(`RefreshThrows`). Nothing keeps an issuer from being listed twice in `targets`,
and the first entry then says whether it is required (`IssuerRequired`). The
contract beside it is `PeriodIndex` (which `StellarisContract` is proved to
implement) and grows whenever it likes. A read, an audit record or the file
write may fail wherever the code awaits one. An indexed record is abstracted to
the (issuer, period) of the v1 attestation it holds, since attestations never
change; `Query` is `registry.get` called by the service during a run, in one
step, since what it puts in the store is the same before and after its awaits;
`Crash` and `Restart` lose the memory and read the file. `before` is history:
what the contract held when the run began.

**ReadPath** replaces each read of `Reconciler` by the loop that `simulate`
runs: a call is sent, is served by the chain as it is at that moment, and is
answered later, when the chain may have grown -- by the value, by one that does
not decode, by a transient error (retried up to `MaxCalls` times) or by a
permanent one. `withRetry` wraps the last error as kind `transport`, also one it
found not worth retrying, and the reconciler retries that kind. The refinement
maps a served list and a served absence to the step `Reconciler` takes, and a
record to the step at its arrival. `calls` is history.

**Checkpoint** is the file as several processes use it. `save` is its open,
which truncates, its write, and its end; writes start at position 0, whatever
another save has put there. The encoded list is a sequence of cells, brackets
around one cell per record. Cells differ in their length in bytes, so a write on
top of another save's may cover more or fewer cells than it has. A write that is
cut short leaves no mark: where it stops, its bytes go on in those of a cell
underneath, and the two halves make no cell, the one cell or the other, or
between two records any record (`Torn`). The rest of the other save's file
follows, and the whole may parse. The body is one write, which is how
`writeFile` writes it up to 512 KiB. A process has one save in flight, as
`runOnce` awaits it. A save that fails and a process that dies are `SaveFails`
and `CheckpointCrash`. `bodies`, `settled` and `overlaid` are history: the lists
that saves began with, that of the last save if nothing disturbed it, and
whether the last write was cut short on top of another save's.

**Submission** is `AttestationPipeline.run` with everything it calls, down to
the transport. A run's `pc` names the audit step or call it awaits; several runs
for one issuer interleave, and each may be cut short (`Rejects`, `Dies`). A
request is executed, late or in time, or dropped; an answer may never be heard
(`InvokerThrows`). `Signals` is what the circuit makes of a snapshot, modulo the
field order; `Attestable` is `StellarisContract`'s `Attest` for one issuer,
without authorization and the parser's shape checks, which a bundle of the
client's own passes. The other entrypoints of `StellarisClient` take the same
path with other arguments. `troubled` is history: the runs that met a failure of
the prover, the sink or the network.

**CircuitComponents** is field addition, multiplication, the range check and
circomlib's comparator over a field of `P` elements. A comparator whose inputs
are out of range may have no satisfying assignment or a wrong output; both are
in `GteSatisfiable` and `GteOut`, which follow the comparator's own arithmetic.

**PricedSolvency** is `por_v3.circom`. A circuit has no state of its own; the
model unrolls its loops, one step per account, per asset, and for the aggregate,
and the actor is a prover who assigns each private input to any field element
and can go on only while the constraints hold. So its behaviours that end are
exactly the satisfying assignments. The circuit states the range checks of
prices and the priced sums in loops of their own; constraints have no order, and
the model has them with the asset they belong to. `exact*` and `honest` are
history: the same sums and comparisons over the integers.

**LiabilityTree** is the chain from reserves to users: `Attest` is a proof of
`por_v2.circom` accepted by `attest_v2`, with a tree the issuer chose, leaf by
leaf; `CheckInclusion` is a proof of `inclusion.circom` against the attested
root and total, with path elements the prover chose. Poseidon is binding: a hash
is the tuple of what it hashes. Sibling sums on a path are range-checked only
after addition; what keeps them honest is that the root came from
`MerkleSumRoot`, which is why the two circuits are one model.

**PublicSignals** has the three parsers, the two encoders, the check each
`attest*` of the client makes of a bundle, and the width of the encoding, up to
what the contract parses from the words it gets. A text is the number it writes,
or `Padded`, a number written with a leading zero.

Definitions marked "Fault" are variants of the definition that follows them. No
specification uses one; `mutants` in `PROJECT.json` pairs each with the property
it breaks.

## 3. Runs

| Run | Checks | Shows |
|---|---|---|
| `Contract` | `TypeOK`, `EnablementOrder`, `RecordedStatementsProven`, `IndexComplete`, `EventLogReplays`, `OracleBindingExact`, `CustodianBindingSound`, `AttestationsPermanent`, `ImplementsLedger`, `ImplementsIndex` | init, key registration and v1/v2 attestation, in every order by two accounts; v3 with oracle and custodian published, corrected, replaced around attestations |
| `SecureMint` | `SupplyAccounted`, `IssuanceBacked`, `GateDecisionFinal`, `RefusalsStay` | the token against the contract; refused v3 attestations |
| `StalePeriod` | `RolloverIsStale` is violated | finding 5 |
| `DryRun` | `DryRunMeansMintable` is violated | finding 1 |
| `Reconciler` | `IndexSound`, `SnapshotsCatchUp`, `SuccessMeansCaughtUp`, `RetryDiscipline` | indexing with failures, crashes and restarts |
| `MixedVersions` | `MissingMeansUnattested` is violated | finding 2 |
| `ReadPath` | `CallBudget`, `ImplementsReconciler`, `ReadsEnd`, `EventuallyIndexed` | reads call by call, and liveness |
| `Checkpoint` | `LoadFaithful`, `SavedSurvives` | two processes, one file: overlapping saves, failures, crashes |
| `ForeignCheckpoint` | `StoreOfDeployment` is violated | finding 4 |
| `Submission` | `LedgerKeepsPolicy`, `AuditExplainsLedger`, `ReceiptsTruthful`, `RefusalsFinal`, `SoundRunsLand` | two pipeline runs against a network that loses, delays and drops |
| `Proofs` | `NoWraparound`, `FlagsExact`, `AllAssetsMeansAggregate`, `Complete`, `UsersCovered`, `NoForgedInclusion`, `LeavesIncludable`, `RustAgreesWithContract`, `RecordedAsParsed`, `VerdictsExact` | both circuits, the parsers and the pairing checks |
| `ParserMirror` | `TypeScriptMirrorsContract` is violated | finding 3 |

**Bounds, and why they are enough.** Integer widths are scaled down and their
order kept: `U64Max = 1 < U128Max = 2 < R = 5`. Every period fits, amounts may
exceed `u64` but not `u128`, and a word of 5 or more is a second word for a
smaller scalar, so a vector that is one period modulo `R` but over `u64::MAX`,
or liabilities over `u128::MAX`, are both among the inputs (`MCContract`). Two
accounts are the least with a caller who is not the issuer, admin or oracle;
they are symmetric (no constant distinguishes them). Two keys with different
arities let a key be registered in the wrong slot. `MCContract` has two worlds,
kept apart by the constraint `OneWorld`: in one the v1 and v2 keys are
registered, each in either slot, and there is neither oracle nor custodian; in
the other the v3 key is, and oracle and custodian are set and replaced. Together
they would only multiply what each shows: no handler of v1 or v2 reads the
oracle or the custodian, and the period list, which the versions do share, is
shared by v1 and v2 in the first. `MaxTime` caps the ledger clock; what matters
is "same time" against "later", 1 for the first world, 0 for the second, where
nothing counts seconds, and 2 for the token (fresh, just fresh, stale for
`max_age_secs = 1`). `MaxPublications = 2` is a publication and its correction.
Attestations need no bound: keys are finite and written once.

For the token, `I128Max = 3` and a cap of 2 put both limits within reach of
amounts 1 and 2; the two policies checked are fresh, oracle-bound and capped,
and custodian-bound, uncapped and ageless.

For the reconciler: three targets, a required and an optional issuer, and the
required one again as optional; two periods; two versions; three attestations
(`MaxLines`), so that the contract grows before, between and after two listings;
`MaxAttempts = 2`, the least at which a retry differs from giving up. The read
path has one target, two attempts at a refresh and two at a call (`MaxCalls`);
targets only follow each other, which the `Reconciler` run and its refinement
cover.

For the checkpoint: two processes, two issuers, saves of at most three distinct
lists (`MaxSaves`), two crashes. Lists then have zero to two records, so a
shorter list is written over a longer one, in either order of opening and
writing, a save follows two that made a file neither of them meant, and each
crash may hit either process. One deployment, since nothing that writes the file
reads it; `ForeignCheckpoint` has two.

For the write path: two runs, the least that can compete for a period; one basis
point is 1/10, balances up to 15, a comparison up to 63, `R = 97`; seven
snapshots at the edges of those (exactly 100%, a ratio that rounding decides,
insolvent, insolvent but solvent modulo `R`, too large for the comparison, a
period that is 0 modulo `R`, a period over `u64::MAX`), and five option records,
each a different way through `run`.

The four modules of `Proofs` share no variable, so `MCProofs` lets one of them
move while the others stay in their initial states: the behaviours are those of
each, side by side. Both circuits use `P = 521`, the least prime above twice the
widest comparison (512), so that a sum wraps as soon as a check is missing.
v3: three assets of two accounts, `BalLimit = 2`, `PriceLimit = 4`; the prover
tries all values in range, the first ones above, and -1 and -2 as field
elements. The tree has four leaves, so that a path has an inner node and both
directions, two users (symmetric) and two reserves. The signals:
`U64Max = 1 < U128Max = 2 < U256Max = 8` with a value beyond each and a padded
number; one asset flag stands for four, which are parsed alike; vectors of the
right length and one short; a bundle whose `parsed` part differs in at most one
place, which is where a check that looks elsewhere fails. The verifier: groups
of order 5, two keys of two signals and one of one, statements that differ in
one signal, words above the order, two proofs or signatures made (`MaxMade`).

**Deadlock** is checked in the contract and token runs, where the oracle and the
admin can always repeat a call. It is off in `Submission`, whose runs end; in
`Proofs`, where a prover is stuck when a constraint fails and done when the
proof is complete, and a bundle is submitted once or refused; and in
`Reconciler`, `ReadPath` and `Checkpoint`, where a process that dies between the
truncation of the checkpoint and its last byte cannot start again: `load` throws
on the torn file, at every restart, until somebody removes it.

**Fairness.** `FairReadSpec` has weak fairness of the process's next step
(`ReadProgress`) and of starting a run (`ReadStart`), with crashes included and
no fairness for a restart. The first says that awaited promises settle and the
event loop runs; the code has no timeout of its own, the invoker behind the
transport is supplied by the caller. The second is `runMany` or the scheduler of
a service that calls `runOnce` again and again. So `ReadsEnd` allows a run to
end with the process, and `EventuallyIndexed`, which assumes that from some
point on no call, sink or write fails and the process does not die, allows it to
be down for good. `Submission` assumes that each step of a run that can be
taken is taken, and that some request is executed again and again as long as
the network holds one (`Expire` may still drop it first, and then no execution
is owed); `SoundRunsLand` exempts the runs that a failure has hit. There is no
fairness for the contract: nobody is obliged to call it.

### Findings

1. **A closed cap looks open** (`DryRun`). `check_mint_allowed` is documented as
   "Ok(()) if a mint for the current period would be ALLOWED right now"
   (`mint_guard.rs:195`, `mint-guard/src/lib.rs:196`), but it ends after
   `enforce_guard`; with the supply at the cap it answers Ok and every mint
   returns `SupplyCapExceeded`.
2. **A v2 or v3 period stops the v1 index** (`MixedVersions`). `refreshIssuer`
   reads each period of `list_periods` with the v1 getter and throws "contract
   listed period without attestation" when there is none; the three versions
   share the list. The failure is not retryable, and periods after it are never
   fetched. `EventuallyIndexed` is therefore about contracts that only have v1
   attestations.
3. **Two parsers accept what the contract rejects** (`ParserMirror`).
   `parsePublicSignalsV2` is documented as "mirroring the on-chain
   `parse_public_signals_v2`" (`client/src/signals.ts:91`; `:158` says the same
   of v3), but it makes a `BigInt` of any period and total, while the contract
   answers `BadPublicSignals` over `u64::MAX` and `u128::MAX`. The Rust SDK has
   the contract's bounds (`RustAgreesWithContract`).
4. **A checkpoint of another contract is served** (`ForeignCheckpoint`).
   `createStore` puts every record of the file in the store, and neither `load`
   nor the registry compares its deployment with the client's; `registry.put`
   refuses the very same record: "indexed attestation belongs to a different
   contract" (`client/src/registry.ts:223`). After a client is configured for
   another contract, `get` answers from the old one.
5. **A rollover is not answered as documented** (`StalePeriod`).
   `StaleAttestationPeriod` is documented as "The attestation's period is older
   than the guard's configured current period -- i.e. the issuer has not
   re-attested for the active period" (`mint-guard/src/lib.rs:54-55`), and
   `contracts/stellaris/src/test_mint_guard.rs:16-17` names it for the step
   "guard advances to period 2 with no fresh attestation yet". `enforce_guard`
   reads the record of the current period, so the comparison at line 261 is
   never decisive and the answer is `NoAttestation`, which the body of the test
   (lines 203-216) expects too. The gate is closed either way; what is lost is
   the reason.

Facts of the code that no text contradicts, and that the properties are stated
around: a run in which an attempt at a required target failed is reported
"failed" even if a later attempt succeeded (`reconciler.ts:106` looks at all
failures), so `SuccessMeansCaughtUp` is about "succeeded" only; and the
checkpoint holds the snapshots of the last run, so an issuer whose refresh
failed is dropped from the file until it succeeds again. `targets` may list an
issuer twice, and the failures of all its entries are judged by the first one:
with `[A optional, A required]` a run in which A could not be read is reported
"succeeded" (`reconciler.ts:107`), so `SuccessMeansCaughtUp` is about issuers
whose first entry is required. A torn checkpoint keeps every process from
starting (see Deadlock), and two saves that overlap may leave one:
`SavedSurvives` is about a save that no other overlapped. Worse, when one of two
overlapping saves is cut short over what the other wrote, the bytes of the other
go on behind it, and the file may parse as a list that neither was given:
`LoadFaithful` leaves out that file (`overlaid`), and it is the only one. Of a
v1 bundle the client compares the commitment with the signals and nothing else
(`codec.ts:71-72`, `89-90`), so its parsed period and liabilities need not be
what is recorded, and `RecordedAsParsed` claims only the commitment. On the
write path, `normalizeSnapshot` puts no upper bound on the period and the
liabilities; a period at or above the field order is attested as its remainder
(the run reaches this with period 97), while liabilities are safe under every
policy of 100% or more (`LedgerKeepsPolicy`). A lost answer is never followed by
a second request: `plan` sets no idempotency key, so `withRetry` is for reads
only. Were writes retried, a run could be told `PeriodAlreadyAttested` of its
own attestation (the mutant of `RefusalsFinal`).

## 4. Proofs

Every theorem holds for all values of the constants that satisfy the named
assumptions of the module; TLC evaluates those in the runs.

| Module | Theorem | Property |
|---|---|---|
| `StellarisContract_proofs` | `TypeCorrect` | `TypeOK` |
| | `Enablement` | `EnablementOrder` |
| | `Permanence` | `AttestationsPermanent` |
| | `RecordedProven` | `RecordedStatementsProven` |
| | `Indexed` | `IndexComplete` |
| | `Refinement`, `IndexRefinement` | `ImplementsLedger`, `ImplementsIndex` |
| | `CustodianBinding`, `OracleBinding` | `CustodianBindingSound`, `OracleBindingExact` |
| | `EventsReplay` | `EventLogReplays` |
| | `RefusalsPermanent` | `RefusalsStay` |
| `SecureMint_proofs` | `IssuanceStaysBacked` | `IssuanceBacked` |
| | `GateStaysDecided` | `GateDecisionFinal` |
| | `SupplyStaysAccounted` | `SupplyAccounted` |
| `ReadPath_proofs` | `IndexStaysSound` | `IndexSound` |
| | `SnapshotsComplete`, `SuccessIsCaughtUp` | `SnapshotsCatchUp`, `SuccessMeansCaughtUp` |
| | `RetriesDisciplined` | `RetryDiscipline` |
| | `ReadsRefine` | `ImplementsReconciler` |
| | `CallsBounded` | `CallBudget` |
| `Checkpoint_proofs` | `LoadsStayFaithful`, `SavesSurvive` | `LoadFaithful`, `SavedSurvives` |
| `Submission_proofs` | `PolicyKept`, `AuditExplains` | `LedgerKeepsPolicy`, `AuditExplainsLedger` |
| | `ReceiptsTrue`, `RefusalsStand` | `ReceiptsTruthful`, `RefusalsFinal` |
| `Circuits_proofs` | `CircuitTypeCorrect`, `NeverWraps` | `TypeOK`, `NoWraparound` |
| | `FlagsCorrect`, `FlagsAgree` | `FlagsExact`, `AllAssetsMeansAggregate` |
| | `Completeness` | `Complete` |
| | `InclusionIsGenuine`, `NobodyLeftOut` | `NoForgedInclusion`, `LeavesIncludable` |
| | `NoPathIsForged` | (any siblings) |
| | `UsersAreCovered` | `UsersCovered` |
| `Verification_proofs` | `RustAgrees`, `RecordsWhatIsSaid` | `RustAgreesWithContract`, `RecordedAsParsed` |
| | `VerdictsStayExact` | `VerdictsExact` |

So every invariant and action property that a run checks is proved, and both
refinements; liveness is not.

**Sums and recursion.** The models' sums are folds of the community modules, and
trees and loops are recursive functions, that is, `CHOOSE g : ...`; nothing can
be said of one before such a `g` is shown to exist. `SubsetRecursion` shows it
for functions on the subsets of a finite set, `InductionOnSize` that they are
what they step by, and from these follow what a sum does when a term comes, goes
or changes (`SumPeels`, `SumUpdate`, `SumMonotone`, `SumSame`), and when terms
are taken in pairs (`SumOfPairs`). The prover cannot instantiate a theorem that
takes an operator, so induction is stated with a set: the numbers, or subsets,
that have the property (`InductionOnSet`).

**Contract.** *Assumptions:* the widths are ordered and `u128::MAX` is below the
field order, as for BLS12-381 (`NumberAssumption`); vectors are sequences of
naturals and statements sequences of field elements (`SignalAssumption`); an
absent entry is no value (`NoneAssumption`, `AbsenceAssumption`). Soundness of
Groth16 is in the definition of `Proof`. *Argument:* `TypeOK` is inductive:
`WordsOfWellFormed` gives the ranges of a parsed vector, `StoredV1..3` the type
of the value built from it, and `AttestWrites` reduces the four attest actions
to one `Record`. `StepKinds` and `WritesOneLine` classify a step: it writes one
absent attestation, registers one absent key, or touches neither, and
`Permanence` follows. `EnablementOrder` is needed again: a recorded attestation
stays provable because its slot's key exists and is never replaced.
`WritesProven` is the arithmetic core: the words that pass the narrowing checks
are their own scalars (`SmallScalar`, `AmountsAndFlags`), so the statement
rebuilt from the stored fields is the very statement the proof was made for.
The refinements map a recorded attestation to its statement (`Book`) or to its
key (`Lines`). The history properties need more than themselves: `CustodianInv`
adds that a registered custodian was designated, `OracleInv` that the stored
price of a period is its last publication and that every publication precedes
the events after it, `EventInv` that events carry stored values, no later than
now, and are counted by the lists. `RefusalsPermanent` compares an answer before
and after a step: the checks in front of a final answer depend only on the
arguments, on registered keys and on recorded attestations.

**Token.** *Assumptions:* `ConfigAssumption` and `AmountAssumption`, the types of
a policy and of amounts, and `HolderAssumption`, that the addresses which ever
hold a balance are finitely many. *Argument:* the composition seen without the token is
the contract (`Composition`), so the contract's theorems hold in it. `MintInv`
says that each mint is `Backed` by what can be read now: `MintIsBacked` from the
gate's judgement, `StaysBacked` from permanence, through the instance. The gate
is final because an attestation is judged by fields that never change and by an
age that only grows. `HoldingInv` bounds each balance by the supply, which also
holds across `init`, because nothing is minted before it. `AccountInv` adds that the
supply is the sum of the balances: a mint changes one term by what it adds to
the supply (`MintAccounted`), and the guard's checks keep the new supply within
an i128 and the cap.

**Reconciler and read path.** *Assumptions:* targets are a finite sequence, in
which issuers may repeat, periods are naturals and, for the budget, finitely
many, as `u64`s are. *Argument:* `ListingInv` (the contract's lists name every
line) makes a listing complete for `before`; `CatchUpInv` accounts, at every
await, for each period that was attested when the run began -- fetched, or still
listed -- and for each target passed -- snapshotted, or with a failure -- and
says which run the checkpoint is of. `RetryInv` counts attempts as the failures
of the current target. `ReadsRefine` needs `CallInv`: what a call was answered
is about the read that is under way, and a record that was read is still there.
`CallsBounded` is a count by attempt, read and call: `SpentInv` bounds the calls
by the attempts already made, times `MaxCalls` times the reads of one, plus
`MaxCalls` for each read done in this one, plus the tries of the present one.

**Checkpoint.** *Assumption:* an absent file is no sequence of cells.
*Argument:* `FileInv`: the file is empty, or starts with the whole encoding of a
list that a save began with, or does not end as an encoding does, or its last
write was cut short on another save's cells (`overlaid`). The third is what a
write cut short on an empty file leaves, since it never gets to its closing
bracket. If a file parses and is not of the fourth kind, it is the list it
starts with: a tail of a longer list underneath leaves a bracket inside
(`WholeIsBody`). `SettledInv` follows a save that is alone, from the empty file
to exactly its encoding, which `DecodesTo` its list.

**Write path.** *Assumptions:* the widths are ordered as in the circuit, the
types of snapshots and options, absent values. *Argument:* `GateInv` ties the await
of a run to the gates it has passed, and a request in the network to a run that
has passed them all; `NetInv` ties requests, answers, the book and the results:
a run has one request, an answer tells what its execution did, and nothing that
was refused is still in the network. `FloorRatio` and `UnitRatio` are the
arithmetic of basis points, and `TotalBounded` that the balances of a normalized
snapshot cannot exceed the comparison, however many they are.

**v3 circuit.** *Assumptions:* at most 16 reserve cells, the limit that
`ReserveCommit` sets in any case, and `2 * AggLimit <= P`: 2^102 against a field
order of 255 bits. *Argument:* no property is inductive alone. A sum does not
wrap because it is bounded by the number of terms times their limit, and that
bound can only be kept together with the fact that the field sums are the
integer sums; the flags are right because the comparator is exact on bounded
inputs; and all assets solvent implies the aggregate because each priced term
is. `IInv` conjoins these. From the same bounds, both comparators can be
satisfied by any inputs in range, whatever the sums so far (`AssetExact`,
`AggregateExact`), which is `Complete`.

**Parsers.** *Assumption:* the bounds are ordered and a padded text is no number.
`WireInv` says where the bundle came from and what was recorded; the rest is
about the parsers, kind by kind of a layout's places.

**Tree and inclusion.** *Assumptions:* at most 16 reserves and
`2 * CmpLimit <= P`, as for v3; `TreeCandidate` are field elements. Depth, users
and field are arbitrary. *Argument:* by induction over the levels, a node at
level k sums less than `BalLimit * 2^k`, so no addition wraps and every node is
the integer sum of its children (`TreeSums`); summing each level in pairs, the
root's sum is that of all leaves (`RootIsTotal`). A path is followed level by
level. Downwards, since hashes bind: whatever hash of the tree a prover reaches
at level k from a claimed leaf, the claim is a leaf (`PathsComeFromLeaves`). It
is the binding of hashes, not the range check of the siblings, that makes this
true, and it needs no assumption on sibling sums. `NoPathIsForged` says the same
of paths with arbitrary siblings, so `Climb`, which lets a prover reach only
hashes of the tree, leaves out no path that ends at the root. Upwards: the siblings of a
leaf's own path pass the check at each level (`PathsGoUp`), which is where the
widths of the two circuits must agree. `TreeInv` says that what is attested
satisfied the constraints. For `UsersCovered`, each claim has
leaves of its own (`ClaimsFitLeaves`), so claims are at most the total, the
total at most the field sum of the reserves by the comparator, and that sum does
not wrap because its terms are bounded.

**Pairing checks.** *Assumptions* (`SetupAssumption`): the group order `Q` is
prime, as BLS12-381's is, stated as what is used of it, that nonzero residues
have inverses; keys are finitely many and their secrets, and custodian keys,
nonzero; what is proved is a vector of field elements, and words are naturals.
*Argument:* congruence modulo `Q` is carried through sums and products
(`CongAdd`, `CongTimes`, `CongCancel`), so a pairing check is, at each of the
independent points, one congruence (`PairingOfFour`, `PairingOfTwo`). The loop
of `vk_x` builds the claim that the public signals stand for, one signal at a
time (`VkXIsClaim`, by induction over the loop). With the key the proof was made
for, everything cancels but `gamma` times the difference of the two statements,
which is zero only if they are equal (`SameKey`); with another key, the constant
term of its claim stands alone (`OtherKey`). A signature is the same at two
points: the hash of the message that was signed and of the word that is checked
(`SignatureVerdict`). `VerifierInv` says that what circulates was made and that
the verdict is the one of these lemmas.

**Only model-checked:** liveness -- `ReadsEnd`, `EventuallyIndexed`,
`SoundRunsLand` -- since fairness needs ENABLED, which is beyond the prover.

## 5. Not modelled

Authorization, storage expiry (TTL) and fees of the host; the host's group and
pairing arithmetic and the encodings of points (external); Poseidon commitments
(assumed binding); the bytes of events and JSON files, whose decoding is
abstracted to whether it succeeds; the wall-clock delays of backoff, which can
only postpone a step; argument validation of the client's operations other than
`attest`, which take the same two paths; bundles read from disk. The composition
of the v3 circuit with the contract says nothing new: what it proves about
private liabilities is not among the public signals that the contract records.
Events, audit log, errors, constants and manifest are stateless or an append,
and appear in the models as the steps that may throw. Setup scripts, demos,
fixtures and the generated build call the parts above. Contract constructors
take any admin: `init` is unauthenticated and first-come, and the model lets
anybody win.

## 6. What is left

In order of weight: the safety half of the liveness properties, that is, which
steps each leaves to be taken, as invariants of the read and write paths; type
correctness of `SecureMint` and `Verifier` as theorems of their own; writes of a
checkpoint in more than one piece.
