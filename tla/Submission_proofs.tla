--------------------------- MODULE Submission_proofs ---------------------------
(***************************************************************************)
(* Theorems about the client's write path, for any number of runs, any     *)
(* snapshots, options and widths: what reaches the ledger, what the audit  *)
(* sink says of it, and what the runs are told.                            *)
(***************************************************************************)
EXTENDS Submission, SumTheorems, SequenceTheorems, TLAPS

(* The awaits before the request goes out. *)
Early == {"snapshot.normalized", "policy.evaluated", "proving", "proof.generated",
          "proof.solvency", "verifying", "proof.local_verification"}

Await == Early \cup {"submitting", "contract.attest", "done"}

Status == {"accepted", "rejected", "failed", "submitted"}

RunRecord == [snapshot : Snapshot, options : Options]

TypeInv ==
    /\ runs \in Seq(RunRecord) /\ Len(runs) <= MaxRuns
    /\ pc \in Seq(Await) /\ Len(pc) = Len(runs)
    /\ attempt \in Seq({1}) /\ Len(attempt) = Len(runs)
    /\ sink \in Seq(SUBSET (Await \X Status)) /\ Len(sink) = Len(runs)
    /\ \A r \in Run : Normalizes(runs[r].snapshot)
    /\ requests \subseteq [run : Run, attempt : {1}]
    /\ answers \subseteq [run : Run, attempt : {1},
                          value : {None} \cup {Signals(s) : s \in Snapshot}]

(* A run has a record, an await, a sink and a first attempt.              *)
LEMMA RunFacts ==
    ASSUME TypeInv, NEW r \in Run
    PROVE  /\ Run = 1..Len(runs) /\ r \in 1..Len(pc) /\ r \in 1..Len(sink)
           /\ r \in 1..Len(attempt) /\ r \in 1..MaxRuns
           /\ runs[r] \in RunRecord /\ pc[r] \in Await
           /\ sink[r] \in SUBSET (Await \X Status) /\ attempt[r] = 1
<1>1. /\ Run = 1..Len(runs) /\ r \in 1..Len(runs) /\ Len(runs) \in Nat
      /\ Len(pc) = Len(runs) /\ Len(sink) = Len(runs) /\ Len(attempt) = Len(runs)
  BY DEF TypeInv, Run
<1>2. r \in 1..MaxRuns
  BY <1>1, PipelineAssumption DEF TypeInv
<1>3. attempt[r] \in {1}
  BY <1>1, ElementOfSeq DEF TypeInv
<1>4. runs[r] \in RunRecord /\ pc[r] \in Await /\ sink[r] \in SUBSET (Await \X Status)
  BY <1>1, ElementOfSeq DEF TypeInv
<1> QED
  BY <1>1, <1>2, <1>3, <1>4

(* Whatever the invoker throws, a write is not retried. *)
LEMMA ThrowsEnds ==
    ASSUME NEW r, Throws(r)
    PROVE  UNCHANGED <<attempt, requests>> /\ pc' = [pc EXCEPT ![r] = "done"]
BY DEF Throws, Resubmits, HasIdempotencyKey

-----------------------------------------------------------------------------
(* What the steps of one run have in common: it goes to another await, may *)
(* add to its own audit steps, and may send its request, once.             *)
RunMoves(r) == RunStep(r) \/ Rejects(r) \/ Dies(r) \/ InvokerThrows(r)

Receipted == <<"contract.attest", "submitted">>

(* A step of a run moves that run and sends at most its one request.      *)
LEMMA LocalStep ==
    ASSUME TypeInv, NEW r \in Run, RunMoves(r)
    PROVE  /\ UNCHANGED <<runs, attempt, answers, book>>
           /\ \E await \in Await : pc' = [pc EXCEPT ![r] = await]
           /\ \/ requests' = requests
              \/ /\ requests' = requests \cup {[run |-> r, attempt |-> 1]}
                 /\ pc[r] \in Early /\ pc' = [pc EXCEPT ![r] = "submitting"]
<1> USE DEF runVars, resultVars, Await, Early
<1>0. attempt[r] = 1
  BY RunFacts
<1>1. CASE AuditNormalized(r)
  BY <1>1 DEF AuditNormalized, GoTo
<1>2. CASE AuditPolicy(r)
  BY <1>2 DEF AuditPolicy, GoTo
<1>3. CASE Prove(r)
  BY <1>3 DEF Prove, GoTo
<1>4. CASE AuditProof(r)
  <2>1. UNCHANGED <<runs, attempt, answers, book>> /\ pc[r] \in Early
    BY <1>4 DEF AuditProof
  <2>2. Submit(r) \/ GoTo(r, "proof.solvency") \/ GoTo(r, "proof.local_verification")
           \/ GoTo(r, "verifying")
    BY <1>4 DEF AuditProof
  <2> QED
    BY <1>0, <2>1, <2>2 DEF GoTo, Submit
<1>5. CASE AuditInsolvency(r)
  BY <1>5 DEF AuditInsolvency, GoTo
<1>6. CASE Verify(r)
  BY <1>6 DEF Verify, GoTo
<1>7. CASE AuditVerification(r)
  BY <1>0, <1>7 DEF AuditVerification, GoTo, Submit
<1>8. CASE AuditReceipt(r)
  BY <1>8 DEF AuditReceipt, GoTo
<1>9. CASE ReceiveValue(r)
  BY <1>9 DEF ReceiveValue, GoTo
<1>10. CASE ReceiveError(r)
  BY <1>10, ThrowsEnds DEF ReceiveError
<1>11. CASE Rejects(r)
  BY <1>11 DEF Rejects, GoTo
<1>12. CASE Dies(r)
  BY <1>12 DEF Dies, GoTo
<1>13. CASE InvokerThrows(r)
  BY <1>13, ThrowsEnds DEF InvokerThrows
<1> QED
  BY <1>1, <1>2, <1>3, <1>4, <1>5, <1>6, <1>7, <1>8, <1>9, <1>10, <1>11, <1>12, <1>13
     DEF RunMoves, RunStep

(* The audit steps that each kind of step adds: those of the await it      *)
(* leaves, except for the steps that add none.                             *)
LEMMA AuditStep ==
    ASSUME TypeInv, NEW r \in Run, RunMoves(r)
    PROVE  /\ \/ sink' = sink
              \/ \E status \in Status : Records(r, status)
           /\ pc[r] = "contract.attest" /\ sink' # sink => AuditReceipt(r)
<1> USE DEF Status
<1>1. CASE AuditNormalized(r)
  BY <1>1 DEF AuditNormalized
<1>2. CASE AuditPolicy(r)
  <2>1. Records(r, "accepted") \/ Records(r, "rejected")
    BY <1>2 DEF AuditPolicy
  <2> QED
    BY <1>2, <2>1 DEF AuditPolicy
<1>3. CASE AuditProof(r)
  BY <1>3 DEF AuditProof
<1>4. CASE AuditInsolvency(r)
  BY <1>4 DEF AuditInsolvency
<1>5. CASE AuditVerification(r)
  <2>1. Records(r, "accepted") \/ Records(r, "rejected") \/ Records(r, "failed")
    BY <1>5 DEF AuditVerification
  <2> QED
    BY <1>5, <2>1 DEF AuditVerification
<1>6. CASE AuditReceipt(r)
  BY <1>6 DEF AuditReceipt
<1>7. CASE Prove(r) \/ Verify(r) \/ ReceiveValue(r) \/ ReceiveError(r) \/ Rejects(r)
              \/ Dies(r) \/ InvokerThrows(r)
  BY <1>7 DEF Prove, Verify, ReceiveValue, ReceiveError, Rejects, Dies, InvokerThrows
<1> QED
  BY <1>1, <1>2, <1>3, <1>4, <1>5, <1>6, <1>7 DEF RunMoves, RunStep

(* The other runs do not notice. *)
LEMMA OtherRuns ==
    ASSUME TypeInv, NEW r \in Run, RunMoves(r), NEW other \in Run, other # r
    PROVE  pc'[other] = pc[other] /\ sink'[other] = sink[other]
<1>1. pc'[other] = pc[other]
  BY LocalStep, RunFacts DEF TypeInv
<1>2. sink'[other] = sink[other]
  BY AuditStep, RunFacts DEF TypeInv, Records
<1> QED
  BY <1>1, <1>2

(* Every step keeps the types.                                            *)
LEMMA TypeStep ==
    ASSUME TypeInv, [Next]_submissionVars
    PROVE  TypeInv'
<1>1. ASSUME NEW r \in Run, RunMoves(r) PROVE TypeInv'
  <2>1. /\ UNCHANGED <<runs, attempt, answers>> /\ Run' = Run
        /\ requests' \subseteq requests \cup {[run |-> r, attempt |-> 1]}
    BY <1>1, LocalStep DEF Run
  <2>2. pc' \in Seq(Await) /\ Len(pc') = Len(pc)
    <3>1. PICK await \in Await : pc' = [pc EXCEPT ![r] = await]
      BY <1>1, LocalStep
    <3> QED
      BY <3>1, RunFacts, ExceptSeq DEF TypeInv
  <2>3. sink' \in Seq(SUBSET (Await \X Status)) /\ Len(sink') = Len(sink)
    <3>1. CASE sink' = sink
      BY <3>1 DEF TypeInv
    <3>2. CASE sink' # sink
      <4>1. PICK status \in Status : Records(r, status)
        BY <1>1, <3>2, AuditStep
      <4> DEFINE more == sink[r] \cup {<<pc[r], status>>}
      <4>2. sink' = [sink EXCEPT ![r] = more]
        BY <4>1 DEF Records
      <4>3. more \in SUBSET (Await \X Status)
        <5>1. pc[r] \in Await /\ sink[r] \in SUBSET (Await \X Status)
          BY RunFacts
        <5> HIDE DEF Await
        <5> QED
          BY <5>1
      <4>4. sink \in Seq(SUBSET (Await \X Status)) /\ r \in 1..Len(sink)
        BY RunFacts DEF TypeInv
      <4> HIDE DEF more
      <4> QED
        BY <4>2, <4>3, <4>4, ExceptSeq
    <3> QED
      BY <3>1, <3>2
  <2> QED
    BY <2>1, <2>2, <2>3 DEF TypeInv
<1>2. ASSUME NEW o \in Options, NEW s \in Snapshot, Start(o, s) PROVE TypeInv'
  <2> DEFINE new == [snapshot |-> s, options |-> o]
  <2>1. /\ runs' \in Seq(RunRecord) /\ Len(runs') = Len(runs) + 1
        /\ \A r \in 1..Len(runs) : runs'[r] = runs[r]
        /\ runs'[Len(runs) + 1] = new
    <3>1. new \in RunRecord /\ runs' = Append(runs, new)
      BY <1>2 DEF RunRecord, Start
    <3> QED
      BY <3>1, AppendProperties DEF TypeInv
  <2>2. pc' \in Seq(Await) /\ Len(pc') = Len(pc) + 1
    BY <1>2, AppendProperties DEF TypeInv, Start, Await, Early
  <2>3. attempt' \in Seq({1}) /\ Len(attempt') = Len(attempt) + 1
    BY <1>2, AppendProperties DEF TypeInv, Start
  <2>4. sink' \in Seq(SUBSET (Await \X Status)) /\ Len(sink') = Len(sink) + 1
    BY <1>2, AppendProperties DEF TypeInv, Start
  <2>5. Run = 1..Len(runs) /\ Run' = 1..(Len(runs) + 1) /\ Len(runs) \in Nat
    BY <2>1 DEF TypeInv, Run
  <2>6. \A r \in Run' : Normalizes(runs'[r].snapshot)
    <3> TAKE r \in Run'
    <3>1. CASE r \in Run
      BY <2>1, <2>5, <3>1 DEF TypeInv
    <3>2. CASE r = Len(runs) + 1
      BY <1>2, <2>1, <3>2 DEF Start
    <3> QED
      BY <2>5, <3>1, <3>2
  <2>7. UNCHANGED <<requests, answers>> /\ Len(runs') <= MaxRuns
    BY <1>2, <2>1, <2>5, PipelineAssumption DEF Start, TypeInv
  <2> QED
    BY <2>1, <2>2, <2>3, <2>4, <2>5, <2>6, <2>7 DEF TypeInv
<1>3. ASSUME NEW q \in requests, Execute(q) \/ Expire(q) PROVE TypeInv'
  <2>1. q.run \in Run /\ q.attempt = 1
    BY DEF TypeInv
  <2>2. Signals(runs[q.run].snapshot) \in {Signals(s) : s \in Snapshot}
    BY <2>1, RunFacts DEF RunRecord
  <2>3. UNCHANGED runVars /\ requests' \subseteq requests /\ Run' = Run
    BY <1>3 DEF Execute, Expire, runVars, Run
  <2>4. answers' \subseteq [run : Run, attempt : {1},
                            value : {None} \cup {Signals(s) : s \in Snapshot}]
    BY <1>3, <2>1, <2>2 DEF Execute, Expire, TypeInv
  <2> QED
    BY <2>3, <2>4 DEF TypeInv, runVars
<1>4. CASE UNCHANGED submissionVars
  BY <1>4 DEF TypeInv, submissionVars, runVars, Run
<1> QED
  BY <1>1, <1>2, <1>3, <1>4 DEF Next, RunMoves

(* The types hold always.                                                 *)
LEMMA TypesHold == Spec => []TypeInv
<1>1. Init => TypeInv
  BY PipelineAssumption DEF Init, TypeInv, Run
<1> QED
  BY <1>1, TypeStep, PTL DEF Spec

-----------------------------------------------------------------------------
(* A run's await says which gates it has passed, and a run that has sent   *)
(* its request has passed them all.                                        *)
Saw(r, await) == <<await, "accepted">> \in sink[r]

Clean(r) == ~\E step \in sink[r] : step[2] \in {"rejected", "failed"}

Passed(r) ==
    /\ Saw(r, "snapshot.normalized") /\ Saw(r, "policy.evaluated") /\ Saw(r, "proof.generated")
    /\ runs[r].options.requireLocalVerification => Saw(r, "proof.local_verification")
    /\ Accepted(runs[r].options, runs[r].snapshot)
    /\ Clean(r)

Sent(r) == (\E q \in requests : q.run = r) \/ (\E a \in answers : a.run = r)

GateInv(r) ==
    /\ pc[r] \in Early => Clean(r) /\ ~Sent(r)
    /\ pc[r] \in Early \ {"snapshot.normalized"} => Saw(r, "snapshot.normalized")
    /\ pc[r] \in Early \ {"snapshot.normalized", "policy.evaluated"} =>
          Saw(r, "policy.evaluated") /\ Accepted(runs[r].options, runs[r].snapshot)
    /\ pc[r] \in {"proof.solvency", "verifying", "proof.local_verification"} =>
          Saw(r, "proof.generated")
    /\ pc[r] \in {"submitting", "contract.attest"} \/ Sent(r) => Passed(r)

(* What a run's step writes of it. *)
LEMMA OwnWrites ==
    ASSUME TypeInv, NEW r \in Run
    PROVE  /\ \A await : GoTo(r, await) => pc'[r] = await /\ requests' = requests
           /\ Submit(r) => pc'[r] = "submitting"
           /\ \A status : Records(r, status) => sink'[r] = sink[r] \cup {<<pc[r], status>>}
BY RunFacts DEF GoTo, Submit, Records, TypeInv

(* A step of the run with a new audit step: what was seen stays seen. *)
LEMMA OneMoreAudit ==
    ASSUME TypeInv, NEW r \in Run, NEW status, Records(r, status), runs' = runs
    PROVE  /\ \A await : Saw(r, await)' <=>
                            Saw(r, await) \/ (await = pc[r] /\ status = "accepted")
           /\ Clean(r)' <=> Clean(r) /\ status \notin {"rejected", "failed"}
<1>1. sink'[r] = sink[r] \cup {<<pc[r], status>>}
  BY OwnWrites
<1>2. \A await : Saw(r, await)' <=> Saw(r, await) \/ (await = pc[r] /\ status = "accepted")
  BY <1>1 DEF Saw
<1>3. <<pc[r], status>>[2] = status
  OBVIOUS
<1>4. Clean(r)' <=> Clean(r) /\ status \notin {"rejected", "failed"}
  BY <1>1, <1>3 DEF Clean
<1> QED
  BY <1>2, <1>4

(* A run's own step keeps its gates in order.                             *)
LEMMA GateOwnStep ==
    ASSUME TypeInv, NEW r \in Run, GateInv(r), RunMoves(r)
    PROVE  GateInv(r)'
<1> USE DEF Early
<1>1. runs' = runs /\ answers' = answers
  BY LocalStep
<1>2. requests' = requests => (Sent(r)' <=> Sent(r))
  BY <1>1 DEF Sent
<1>3. CASE AuditNormalized(r)
  <2>1. Records(r, "accepted") /\ pc[r] = "snapshot.normalized"
        /\ pc'[r] = "policy.evaluated" /\ requests' = requests
    BY <1>3, OwnWrites DEF AuditNormalized
  <2> QED
    BY <1>1, <1>2, <2>1, OneMoreAudit DEF GateInv
<1>4. CASE AuditPolicy(r)
  <2>1. pc[r] = "policy.evaluated" /\ requests' = requests
    BY <1>4, OwnWrites DEF AuditPolicy
  <2>2. CASE Accepted(runs[r].options, runs[r].snapshot)
    <3>1. Records(r, "accepted") /\ pc'[r] = "proving"
      BY <1>4, <2>2, OwnWrites DEF AuditPolicy
    <3> QED
      BY <1>1, <1>2, <2>1, <2>2, <3>1, OneMoreAudit DEF GateInv
  <2>3. CASE ~Accepted(runs[r].options, runs[r].snapshot)
    <3>1. Records(r, "rejected") /\ pc'[r] = "done"
      BY <1>4, <2>3, OwnWrites DEF AuditPolicy
    <3> QED
      BY <1>2, <2>1, <3>1 DEF GateInv
  <2> QED
    BY <2>2, <2>3
<1>5. CASE Prove(r)
  <2>1. sink' = sink /\ pc[r] = "proving" /\ pc'[r] = "proof.generated" /\ requests' = requests
    BY <1>5, OwnWrites DEF Prove
  <2> QED
    BY <1>1, <1>2, <2>1 DEF GateInv, Saw, Clean
<1>6. CASE AuditProof(r)
  <2>1. Records(r, "accepted") /\ pc[r] = "proof.generated"
    BY <1>6 DEF AuditProof
  <2>2. Saw(r, "proof.generated")' /\ Clean(r)' /\ \A await : Saw(r, await) => Saw(r, await)'
    BY <1>1, <2>1, OneMoreAudit DEF GateInv
  <2>3. \/ pc'[r] \in {"proof.solvency", "verifying", "proof.local_verification"}
           /\ requests' = requests
        \/ pc'[r] = "submitting" /\ ~runs[r].options.requireLocalVerification
    BY <1>6, OwnWrites DEF AuditProof
  <2> QED
    BY <1>1, <1>2, <2>1, <2>2, <2>3 DEF GateInv, Passed
<1>7. CASE AuditInsolvency(r)
  <2>1. pc[r] = "proof.solvency" /\ pc'[r] = "done" /\ requests' = requests
    BY <1>7, OwnWrites DEF AuditInsolvency
  <2> QED
    BY <1>2, <2>1 DEF GateInv
<1>8. CASE Verify(r)
  <2>1. sink' = sink /\ pc[r] = "verifying" /\ pc'[r] = "proof.local_verification"
        /\ requests' = requests
    BY <1>8, OwnWrites DEF Verify
  <2> QED
    BY <1>1, <1>2, <2>1 DEF GateInv, Saw, Clean
<1>9. CASE AuditVerification(r)
  <2>1. pc[r] = "proof.local_verification" /\ runs[r].options \in Options
    BY <1>9, RunFacts DEF AuditVerification, RunRecord
  <2>2. CASE VerifiedLocally(r)
    <3>1. Records(r, "accepted") /\ pc'[r] = "submitting"
      BY <1>9, <2>1, <2>2, OwnWrites, AbsenceAssumption DEF AuditVerification, VerifiedLocally
    <3> QED
      BY <1>1, <2>1, <3>1, OneMoreAudit DEF GateInv, Passed
  <2>3. CASE ~VerifiedLocally(r)
    <3>1. pc'[r] = "done" /\ requests' = requests
      BY <1>9, <2>3, OwnWrites DEF AuditVerification
    <3> QED
      BY <1>2, <2>1, <3>1 DEF GateInv
  <2> QED
    BY <2>2, <2>3
<1>10. CASE AuditReceipt(r)
  <2>1. Records(r, "submitted") /\ pc[r] = "contract.attest" /\ pc'[r] = "done"
    BY <1>10, OwnWrites DEF AuditReceipt
  <2> QED
    BY <1>1, <2>1, OneMoreAudit DEF GateInv, Passed
<1>11. CASE Rejects(r)
  <2>1. sink' = sink /\ pc'[r] = "done" /\ requests' = requests
    BY <1>11, OwnWrites DEF Rejects
  <2> QED
    BY <1>1, <1>2, <2>1 DEF GateInv, Passed, Saw, Clean
<1>12. CASE ReceiveValue(r) \/ ReceiveError(r) \/ Dies(r) \/ InvokerThrows(r)
  <2>1. sink' = sink /\ pc[r] = "submitting"
    BY <1>12 DEF ReceiveValue, ReceiveError, Dies, InvokerThrows
  <2>2. pc'[r] \in {"contract.attest", "done"}
    <3>1. Throws(r) => pc'[r] = "done"
      BY ThrowsEnds, RunFacts
    <3> QED
      BY <1>12, <3>1, OwnWrites DEF ReceiveValue, ReceiveError, Dies, InvokerThrows
  <2> QED
    BY <1>1, <2>1, <2>2 DEF GateInv, Passed, Saw, Clean
<1> QED
  BY <1>3, <1>4, <1>5, <1>6, <1>7, <1>8, <1>9, <1>10, <1>11, <1>12 DEF RunMoves, RunStep

(* A new run changes nothing for the ones before it. *)
LEMMA StartFacts ==
    ASSUME TypeInv, NEW o \in Options, NEW s \in Snapshot, Start(o, s)
    PROVE  /\ Run' = Run \cup {Len(runs) + 1} /\ Len(runs) + 1 \notin Run
           /\ \A r \in Run : runs'[r] = runs[r] /\ pc'[r] = pc[r] /\ sink'[r] = sink[r]
           /\ pc'[Len(runs) + 1] = "snapshot.normalized" /\ sink'[Len(runs) + 1] = {}
<1> DEFINE new == [snapshot |-> s, options |-> o]
<1>1. /\ runs \in Seq(RunRecord) /\ pc \in Seq(Await) /\ sink \in Seq(SUBSET (Await \X Status))
      /\ Len(pc) = Len(runs) /\ Len(sink) = Len(runs) /\ Len(runs) \in Nat
  BY DEF TypeInv
<1>2. new \in RunRecord /\ runs' = Append(runs, new)
  BY DEF RunRecord, Start
<1>3. Run = 1..Len(runs) /\ Run' = 1..(Len(runs) + 1)
  BY <1>1, <1>2, AppendProperties DEF Run
<1>4. \A r \in Run : runs'[r] = runs[r]
  BY <1>1, <1>2, <1>3, AppendProperties
<1>5. (\A r \in Run : pc'[r] = pc[r]) /\ pc'[Len(runs) + 1] = "snapshot.normalized"
  BY <1>1, <1>3, AppendProperties DEF Start, Await, Early
<1>6. (\A r \in Run : sink'[r] = sink[r]) /\ sink'[Len(runs) + 1] = {}
  BY <1>1, <1>3, AppendProperties DEF Start
<1> QED
  BY <1>1, <1>3, <1>4, <1>5, <1>6

(* A step that leaves a run alone keeps what its await says, if nothing    *)
(* new is sent for it.                                                     *)
LEMMA GateFrame ==
    ASSUME NEW r, GateInv(r), pc'[r] = pc[r], sink'[r] = sink[r], runs'[r] = runs[r],
           Sent(r)' => Sent(r)
    PROVE  GateInv(r)'
BY DEF GateInv, Passed, Clean, Saw

(* Every step keeps every run's gates in order.                           *)
LEMMA GateStep ==
    ASSUME TypeInv, \A r \in Run : GateInv(r), [Next]_submissionVars
    PROVE  \A r \in Run' : GateInv(r)'
<1>1. ASSUME NEW r \in Run, RunMoves(r), NEW other \in Run' PROVE GateInv(other)'
  <2>1. Run' = Run /\ runs' = runs
    BY <1>1, LocalStep DEF Run
  <2>2. CASE other = r
    BY <1>1, <2>2, GateOwnStep
  <2>3. CASE other # r
    <3>1. Sent(other)' => Sent(other)
      BY <1>1, <2>3, LocalStep DEF Sent
    <3> QED
      BY <1>1, <2>1, <2>3, <3>1, OtherRuns, GateFrame
  <2> QED
    BY <2>2, <2>3
<1>2. ASSUME NEW o \in Options, NEW s \in Snapshot, Start(o, s), NEW r \in Run'
      PROVE  GateInv(r)'
  <2>1. UNCHANGED <<requests, answers>>
    BY <1>2 DEF Start
  <2>2. CASE r \in Run
    <3>1. Sent(r)' <=> Sent(r)
      BY <2>1 DEF Sent
    <3> QED
      BY <1>2, <2>2, <3>1, StartFacts, GateFrame
  <2>3. CASE r \notin Run
    <3>1. pc'[r] = "snapshot.normalized" /\ sink'[r] = {}
      BY <1>2, <2>3, StartFacts
    <3>2. ~Sent(r)'
      BY <2>1, <2>3 DEF Sent, TypeInv
    <3> QED
      BY <3>1, <3>2 DEF GateInv, Early, Clean
  <2> QED
    BY <2>2, <2>3
<1>3. ASSUME NEW q \in requests, Execute(q) \/ Expire(q), NEW r \in Run' PROVE GateInv(r)'
  <2>1. UNCHANGED <<runs, pc, sink>> /\ Run' = Run
    BY <1>3 DEF Execute, Expire, runVars, Run
  <2>2. Sent(r)' => Sent(r)
    BY <1>3 DEF Execute, Expire, Sent
  <2> QED
    BY <2>1, <2>2, GateFrame
<1>4. ASSUME UNCHANGED submissionVars, NEW r \in Run' PROVE GateInv(r)'
  BY <1>4, GateFrame DEF submissionVars, runVars, Run, Sent
<1> QED
  BY <1>1, <1>2, <1>3, <1>4 DEF Next, RunMoves

-----------------------------------------------------------------------------
(* The network: one request or one answer per run, and the answers agree   *)
(* with the book, the receipts and the refusals.                           *)
OneAnswer ==
    /\ \A q \in requests, a \in answers : q.run # a.run
    /\ \A a, b \in answers : a.run = b.run => a = b

Entry(a) == [run |-> a.run, attestation |-> a.value]

AnswersKept ==
    \A a \in answers : a.value # None =>
        /\ a.value = Signals(runs[a.run].snapshot)
        /\ a.value.periodId \in Period
        /\ book[a.value.periodId] = Entry(a)

BookAnswered ==
    /\ book \in [Period -> {None} \cup {Entry(a) : a \in answers}]
    /\ \A p \in Attested : \E a \in answers : a.value # None /\ book[p] = Entry(a)

RunsAnswered ==
    /\ \A r \in Run : pc[r] = "contract.attest" => \E a \in answers : a.run = r /\ a.value # None
    /\ \A x \in receipts : \E a \in answers : a.value # None /\ x = Entry(a)
    /\ \A r \in refused : \E a \in answers : a.run = r /\ a.value = None
    /\ \A r \in Run : Receipted \in sink[r] => \E x \in receipts : x.run = r

NetInv == OneAnswer /\ AnswersKept /\ BookAnswered /\ RunsAnswered

(* What a run's step makes of an answer: it waits to record its receipt,   *)
(* or has one, or was refused.                                             *)
LEMMA ResultStep ==
    ASSUME TypeInv, NEW r \in Run, RunMoves(r)
    PROVE  /\ receipts \subseteq receipts'
           /\ \A x \in receipts' : x \in receipts \/
                 (pc[r] = "contract.attest" /\ \E a \in answers : a.run = r /\ x = Entry(a))
           /\ \A y \in refused' : y \in refused \/
                 (y = r /\ \E a \in answers : a.run = r /\ a.value = None)
           /\ pc'[r] = "contract.attest" => \E a \in answers : a.run = r /\ a.value # None
           /\ Receipted \in sink'[r] =>
                 Receipted \in sink[r] \/ \E x \in receipts' : x.run = r
<1> USE DEF resultVars
<1>0. \A await : GoTo(r, await) => pc'[r] = await
  BY OwnWrites
<1>1. CASE AuditReceipt(r)
  <2>1. PICK a \in answers : a.run = r /\ receipts' = receipts \cup {Entry(a)}
    BY <1>1 DEF AuditReceipt, Entry
  <2>2. Entry(a).run = r /\ pc[r] = "contract.attest" /\ pc'[r] = "done"
    BY <1>0, <1>1, <2>1 DEF AuditReceipt, Entry
  <2> QED
    BY <1>1, <2>1, <2>2 DEF AuditReceipt
<1>2. CASE ReceiveValue(r)
  BY <1>0, <1>2 DEF ReceiveValue
<1>3. CASE ReceiveError(r)
  <2>1. pc'[r] = "done"
    BY <1>3, ThrowsEnds, RunFacts DEF ReceiveError
  <2> QED
    BY <1>3, <2>1 DEF ReceiveError
<1>4. CASE InvokerThrows(r)
  <2>1. pc'[r] = "done"
    BY <1>4, ThrowsEnds, RunFacts DEF InvokerThrows
  <2> QED
    BY <1>4, <2>1 DEF InvokerThrows
<1>5. CASE Prove(r) \/ Verify(r) \/ Rejects(r) \/ Dies(r)
  BY <1>0, <1>5 DEF Prove, Verify, Rejects, Dies
<1>6. CASE AuditNormalized(r) \/ AuditPolicy(r) \/ AuditProof(r) \/ AuditInsolvency(r)
              \/ AuditVerification(r)
  <2>1. UNCHANGED <<receipts, refused>> /\ pc[r] \in Early
    BY <1>6 DEF AuditNormalized, AuditPolicy, AuditProof, AuditInsolvency, AuditVerification,
       Early
  <2>2. pc'[r] # "contract.attest"
    <3>1. AuditPolicy(r) => GoTo(r, "proving") \/ GoTo(r, "done")
      BY DEF AuditPolicy
    <3>2. AuditProof(r) => Submit(r) \/ GoTo(r, "proof.solvency") \/ GoTo(r, "verifying")
                              \/ GoTo(r, "proof.local_verification")
      BY DEF AuditProof
    <3>3. AuditVerification(r) => Submit(r) \/ GoTo(r, "done")
      BY DEF AuditVerification
    <3>4. AuditNormalized(r) \/ AuditInsolvency(r) => GoTo(r, "policy.evaluated") \/ GoTo(r, "done")
      BY DEF AuditNormalized, AuditInsolvency
    <3> QED
      BY <1>6, <3>1, <3>2, <3>3, <3>4, OwnWrites
  <2>3. Receipted \in sink'[r] => Receipted \in sink[r]
    <3>1. CASE sink' = sink
      BY <3>1
    <3>2. CASE \E status \in Status : Records(r, status)
      <4>1. PICK status \in Status : sink'[r] = sink[r] \cup {<<pc[r], status>>}
        BY <3>2, OwnWrites
      <4>2. Receipted # <<pc[r], status>>
        BY <2>1 DEF Receipted, Early
      <4> QED
        BY <4>1, <4>2
    <3> QED
      BY <3>1, <3>2, AuditStep
  <2> QED
    BY <2>1, <2>2, <2>3
<1> QED
  BY <1>1, <1>2, <1>3, <1>4, <1>5, <1>6 DEF RunMoves, RunStep

(* A run's own step keeps what is known of requests, answers and the ledger. *)
LEMMA NetRunStep ==
    ASSUME TypeInv, \A r \in Run : GateInv(r), NetInv, NEW r \in Run, RunMoves(r)
    PROVE  NetInv'
<1>1. UNCHANGED <<runs, answers, book>> /\ Run' = Run /\ Attested' = Attested
  BY LocalStep DEF Run, Attested
<1>2. OneAnswer'
  <2>1. CASE requests' = requests
    BY <1>1, <2>1 DEF NetInv, OneAnswer
  <2>2. CASE requests' = requests \cup {[run |-> r, attempt |-> 1]} /\ pc[r] \in Early
    <3>1. \A a \in answers : a.run # r
      BY <2>2 DEF GateInv, Sent
    <3> DEFINE new == [run |-> r, attempt |-> 1]
    <3>2. new.run = r
      OBVIOUS
    <3> QED
      BY <1>1, <2>2, <3>1, <3>2 DEF NetInv, OneAnswer
  <2> QED
    BY <2>1, <2>2, LocalStep
<1>3. AnswersKept' /\ BookAnswered'
  BY <1>1 DEF NetInv, AnswersKept, BookAnswered, Entry
<1>4. RunsAnswered'
  <2>1. \A x \in Run' : pc'[x] = "contract.attest" =>
            \E a \in answers' : a.run = x /\ a.value # None
    BY <1>1, ResultStep, OtherRuns DEF NetInv, RunsAnswered
  <2>2. ASSUME NEW x \in receipts' PROVE \E a \in answers' : a.value # None /\ x = Entry(a)'
    <3>1. CASE x \in receipts
      BY <1>1, <3>1 DEF NetInv, RunsAnswered, Entry
    <3>2. CASE pc[r] = "contract.attest" /\ \E a \in answers : a.run = r /\ x = Entry(a)
      <4>1. PICK a \in answers : a.run = r /\ x = Entry(a)
        BY <3>2
      <4>2. PICK b \in answers : b.run = r /\ b.value # None
        BY <3>2 DEF NetInv, RunsAnswered
      <4>3. a = b
        BY <4>1, <4>2 DEF NetInv, OneAnswer
      <4> QED
        BY <1>1, <4>1, <4>2, <4>3 DEF Entry
    <3> QED
      BY <3>1, <3>2, ResultStep
  <2>3. \A y \in refused' : \E a \in answers' : a.run = y /\ a.value = None
    BY <1>1, ResultStep DEF NetInv, RunsAnswered
  <2>4. \A y \in Run' : Receipted \in sink'[y] => \E x \in receipts' : x.run = y
    BY <1>1, ResultStep, OtherRuns DEF NetInv, RunsAnswered
  <2> QED
    BY <2>1, <2>2, <2>3, <2>4 DEF RunsAnswered
<1> QED
  BY <1>2, <1>3, <1>4 DEF NetInv

(* A period that the contract can parse is one of the ledger's.           *)
LEMMA PeriodRange ==
    ASSUME NEW s \in Snapshot, Signals(s).periodId <= U64Max
    PROVE  Signals(s).periodId \in Period
<1>1. Signals(s).periodId = s.periodId % R
  BY DEF Signals
<1>2. s.periodId \in Int /\ R \in Nat \ {0} /\ U64Max \in Nat
  BY PipelineAssumption, WidthAssumption
<1>3. s.periodId % R \in Nat
  BY <1>2
<1> QED
  BY <1>1, <1>2, <1>3 DEF Period

(* The attested entry of an answer is an entry. *)
LEMMA EntryPresent ==
    ASSUME TypeInv, NEW a \in answers, a.value # None
    PROVE  Entry(a) # None
<1>1. a.run \in 1..MaxRuns /\ \E s \in Snapshot : a.value = Signals(s)
  BY RunFacts DEF TypeInv
<1> QED
  BY <1>1, AbsenceAssumption DEF Entry

(* Executing a request keeps what is known of requests, answers and the ledger. *)
LEMMA ExecuteStep ==
    ASSUME TypeInv, NetInv, NEW q \in requests, Execute(q)
    PROVE  NetInv'
<1> DEFINE r == q.run
           sig == Signals(runs[r].snapshot)
           ok == Attestable(r)
           new == [run |-> r, attempt |-> q.attempt, value |-> IF ok THEN sig ELSE None]
<1>1. /\ requests' = requests \ {q} /\ answers' = answers \cup {new}
      /\ book' = IF ok THEN [book EXCEPT ![sig.periodId] = [run |-> r, attestation |-> sig]]
                 ELSE book
      /\ UNCHANGED <<runs, pc, sink, receipts, refused>> /\ Run' = Run
  BY DEF Execute, runVars, resultVars, Run
<1>2. r \in Run /\ runs[r].snapshot \in Snapshot /\ sig # None
  BY RunFacts, AbsenceAssumption DEF TypeInv, RunRecord
<1>3. ok => sig.periodId \in Period /\ book[sig.periodId] = None
  BY <1>2, PeriodRange DEF Attestable
<1>4. /\ new.run = r /\ new.value = (IF ok THEN sig ELSE None)
      /\ Entry(new) = [run |-> r, attestation |-> new.value]
  BY DEF Entry
<1>5. \A other \in requests \ {q} : other.run # r
  BY DEF TypeInv
<1>6. \A a \in answers : a.run # r
  BY DEF NetInv, OneAnswer
<1> HIDE DEF new
<1>7. OneAnswer'
  BY <1>1, <1>4, <1>5, <1>6 DEF NetInv, OneAnswer
<1>8. AnswersKept'
  <2> SUFFICES ASSUME NEW a \in answers', a.value # None
               PROVE  /\ a.value = Signals(runs[a.run].snapshot)
                      /\ a.value.periodId \in Period
                      /\ book'[a.value.periodId] = Entry(a)
    BY <1>1 DEF AnswersKept, Entry
  <2>1. CASE a \in answers
    <3>1. /\ a.value = Signals(runs[a.run].snapshot) /\ a.value.periodId \in Period
          /\ book[a.value.periodId] = Entry(a)
      BY <2>1 DEF NetInv, AnswersKept
    <3>2. ok => a.value.periodId # sig.periodId
      BY <1>3, <2>1, <3>1, EntryPresent
    <3>3. book'[a.value.periodId] = book[a.value.periodId]
      BY <1>1, <3>1, <3>2 DEF NetInv, BookAnswered
    <3> QED
      BY <3>1, <3>3
  <2>2. CASE a = new
    <3>1. ok /\ a.value = sig /\ a.run = r
      BY <1>4, <2>2
    <3>2. book'[sig.periodId] = [run |-> r, attestation |-> sig]
      BY <1>1, <1>3, <3>1 DEF NetInv, BookAnswered
    <3> QED
      BY <1>3, <1>4, <2>2, <3>1, <3>2
  <2> QED
    BY <1>1, <2>1, <2>2
<1>9. BookAnswered'
  <2>1. CASE ~ok
    BY <1>1, <2>1 DEF NetInv, BookAnswered, Attested, Entry
  <2>2. CASE ok
    <3>1. book' = [book EXCEPT ![sig.periodId] = Entry(new)] /\ new.value # None
      BY <1>1, <1>2, <1>4, <2>2
    <3>2. book' \in [Period -> {None} \cup {Entry(a) : a \in answers'}]
      BY <1>1, <1>3, <2>2, <3>1 DEF NetInv, BookAnswered
    <3>3. ASSUME NEW p \in Period, book'[p] # None
          PROVE  \E a \in answers' : a.value # None /\ book'[p] = Entry(a)
      <4>1. CASE p = sig.periodId
        BY <1>1, <3>1, <4>1 DEF NetInv, BookAnswered
      <4>2. CASE p # sig.periodId
        <5>1. book'[p] = book[p] /\ p \in Attested
          BY <3>1, <3>3, <4>2 DEF NetInv, BookAnswered, Attested
        <5> QED
          BY <1>1, <5>1 DEF NetInv, BookAnswered
      <4> QED
        BY <4>1, <4>2
    <3> QED
      BY <3>2, <3>3 DEF BookAnswered, Attested, Entry
  <2> QED
    BY <2>1, <2>2
<1>10. RunsAnswered'
  BY <1>1 DEF NetInv, RunsAnswered, Entry
<1> QED
  BY <1>7, <1>8, <1>9, <1>10 DEF NetInv

(* Every step keeps what is known of requests, answers and the ledger.    *)
LEMMA NetStep ==
    ASSUME TypeInv, \A r \in Run : GateInv(r), NetInv, [Next]_submissionVars
    PROVE  NetInv'
<1>1. ASSUME NEW o \in Options, NEW s \in Snapshot, Start(o, s) PROVE NetInv'
  <2>1. UNCHANGED <<requests, answers, book, receipts, refused>> /\ Attested' = Attested
    BY <1>1 DEF Start, resultVars, Attested
  <2>2. \A a \in answers : runs'[a.run] = runs[a.run]
    BY <1>1, StartFacts DEF TypeInv
  <2>3. OneAnswer' /\ AnswersKept' /\ BookAnswered'
    BY <2>1, <2>2 DEF NetInv, OneAnswer, AnswersKept, BookAnswered, Entry
  <2>4. RunsAnswered'
    BY <1>1, <2>1, StartFacts DEF NetInv, RunsAnswered, Entry
  <2> QED
    BY <2>3, <2>4 DEF NetInv
<1>2. ASSUME NEW q \in requests, Expire(q) PROVE NetInv'
  BY <1>2 DEF Expire, runVars, NetInv, OneAnswer, AnswersKept, BookAnswered, RunsAnswered,
     Run, Attested, Entry
<1>3. CASE UNCHANGED submissionVars
  BY <1>3 DEF submissionVars, runVars, resultVars, NetInv, OneAnswer, AnswersKept,
     BookAnswered, RunsAnswered, Run, Attested, Entry
<1> QED
  BY <1>1, <1>2, <1>3, NetRunStep, ExecuteStep DEF Next, RunMoves

WritePathInv == TypeInv /\ (\A r \in Run : GateInv(r)) /\ NetInv

(* The invariant of the write path holds always.                          *)
LEMMA WritePathHolds == Spec => []WritePathInv
<1>1. Init => WritePathInv
  <2> SUFFICES ASSUME Init PROVE WritePathInv
    OBVIOUS
  <2>1. TypeInv
    BY PipelineAssumption DEF Init, TypeInv, Run
  <2>2. (\A r \in Run : GateInv(r)) /\ Attested = {}
    BY DEF Init, Run, Attested
  <2>3. NetInv
    BY <2>2 DEF Init, NetInv, OneAnswer, AnswersKept, BookAnswered, RunsAnswered, Run
  <2> QED
    BY <2>1, <2>2, <2>3 DEF WritePathInv
<1>2. WritePathInv /\ [Next]_submissionVars => WritePathInv'
  BY TypeStep, GateStep, NetStep DEF WritePathInv
<1> QED
  BY <1>1, <1>2, PTL DEF Spec

(* Who has an entry sent its request, for its own snapshot. *)
LEMMA Entries ==
    ASSUME WritePathInv, NEW p \in Attested
    PROVE  /\ p \in Period /\ book[p].run \in Run /\ Passed(book[p].run)
           /\ book[p].attestation = Signals(runs[book[p].run].snapshot)
           /\ \E a \in answers : a.value # None /\ book[p] = Entry(a)
<1>1. PICK a \in answers : a.value # None /\ book[p] = Entry(a)
  BY DEF WritePathInv, NetInv, BookAnswered
<1>2. book[p].run = a.run /\ book[p].attestation = a.value /\ a.run \in Run
  BY <1>1 DEF Entry, WritePathInv, TypeInv
<1>3. Sent(a.run)
  BY DEF Sent
<1>4. Passed(a.run)
  BY <1>2, <1>3 DEF WritePathInv, GateInv
<1>5. a.value = Signals(runs[a.run].snapshot)
  BY <1>1 DEF WritePathInv, NetInv, AnswersKept
<1> QED
  BY <1>1, <1>2, <1>4, <1>5 DEF Attested

(* Floor division: a quotient of at least q means at least q times as much. *)
LEMMA FloorRatio ==
    ASSUME NEW total \in Nat, NEW part \in Nat \ {0}, NEW least \in Nat,
           total \div part >= least
    PROVE  total >= least * part
<1> DEFINE d == total \div part
<1>1. d \in Int /\ total = d * part + (total % part) /\ total % part >= 0
  OBVIOUS
<1>2. (d - least) * part >= 0
  <2>1. d - least \in Nat
    BY <1>1
  <2> HIDE DEF d
  <2> QED
    BY <2>1
<1>3. d * part = (d - least) * part + least * part
  <2> HIDE DEF d
  <2> QED
    BY <1>1
<1>4. (d - least) * part \in Int /\ least * part \in Int /\ d * part \in Int
  <2> HIDE DEF d
  <2> QED
    BY <1>1
<1> HIDE DEF d
<1> QED
  BY <1>1, <1>2, <1>3, <1>4

(* What is at least unit-for-unit is at least as much. *)
LEMMA UnitRatio ==
    ASSUME NEW a \in Nat, NEW b \in Nat, NEW unit \in Nat \ {0}, NEW least \in Nat,
           least >= unit, a * unit >= least * b
    PROVE  a >= b
<1> SUFFICES ASSUME a < b PROVE FALSE
  OBVIOUS
<1>1. PICK k \in Nat : b = a + 1 + k
  <2>1. b - a - 1 \in Nat /\ b = a + 1 + (b - a - 1)
    OBVIOUS
  <2> QED
    BY <2>1
<1>2. PICK e \in Nat : least = unit + e
  <2>1. least - unit \in Nat /\ least = unit + (least - unit)
    OBVIOUS
  <2> QED
    BY <2>1
<1>3. least * b = unit * a + unit + unit * k + e * b
  BY <1>1, <1>2
<1>4. unit * k \in Nat /\ e * b \in Nat /\ unit * a \in Nat /\ unit * a = a * unit
  OBVIOUS
<1> QED
  BY <1>3, <1>4

(* The balances of a normalized snapshot add up to what the widths provide *)
(* for: NReserves amounts of at most MaxReserve.                           *)
LEMMA TotalBounded ==
    ASSUME NEW s \in Snapshot, Normalizes(s)
    PROVE  Total(s) \in 0..(NReserves * MaxReserve)
<1> DEFINE b == s.balances
           n == Len(b)
           most == n * MaxReserve
           limit == NReserves * MaxReserve
<1>1. NReserves \in Nat /\ MaxReserve \in Nat
  BY WidthAssumption
<1>2. b \in Seq(Int) /\ n \in Nat /\ DOMAIN b = 1..n
  BY PipelineAssumption
<1>3. n <= NReserves /\ \A j \in 1..n : b[j] \in 0..MaxReserve
  BY <1>2 DEF Normalizes
<1>4. Total(s) = SumOver(b, 1..n)
  BY <1>2 DEF Total, SumOver, MapThenSumSet, MapThenFoldSet
<1> HIDE DEF b, n
<1>5. SumOver(b, 1..n) \in 0..(n * MaxReserve)
  BY <1>1, <1>2, <1>3, SumIsBounded
<1>6. most \in Nat /\ limit \in Nat /\ most <= limit
  <2>1. PICK k \in Nat : NReserves = n + k
    <3>1. NReserves - n \in Nat /\ NReserves = n + (NReserves - n)
      BY <1>1, <1>2, <1>3
    <3> QED
      BY <3>1
  <2>2. limit = most + k * MaxReserve /\ k * MaxReserve \in Nat /\ most \in Nat
    BY <1>1, <1>2, <2>1
  <2> HIDE DEF most, limit
  <2> QED
    BY <2>2
<1>7. Total(s) \in 0..most
  BY <1>4, <1>5
<1> HIDE DEF most, limit
<1>8. Total(s) \in 0..limit
  BY <1>6, <1>7
<1> QED
  BY <1>8 DEF limit

-----------------------------------------------------------------------------
(* What is on the ledger kept the policy of its run (policy.ts), on the    *)
(* true figures; under a policy of at least 100%, modulo R hides nothing.  *)
THEOREM PolicyKept == Spec => []LedgerKeepsPolicy
<1>1. WritePathInv => LedgerKeepsPolicy
  <2> SUFFICES ASSUME WritePathInv, NEW p \in Attested
               PROVE  LET r == runs[book[p].run]
                          s == r.snapshot
                          least == r.options.minReserveRatioBps
                      IN  /\ Total(s) * Bps >= least * s.liabilities
                          /\ least >= Bps => book[p].attestation.liabilities = s.liabilities
    BY DEF LedgerKeepsPolicy
  <2> DEFINE r == book[p].run
             s == runs[r].snapshot
             o == runs[r].options
             least == o.minReserveRatioBps
  <2>1. r \in Run /\ s \in Snapshot /\ o \in Options /\ Normalizes(s) /\ SufficientRatio(o, s)
    BY Entries, RunFacts DEF WritePathInv, TypeInv, Passed, Accepted, RunRecord
  <2>2. /\ s.liabilities \in Nat /\ least \in Nat /\ Total(s) \in Nat
        /\ Total(s) <= NReserves * MaxReserve /\ Bps \in Nat \ {0} /\ R \in Nat \ {0}
        /\ NReserves * MaxReserve \in Nat /\ NReserves * MaxReserve < R
    <3>1. s.liabilities \in Nat /\ least \in Nat
      <4>1. s.liabilities \in Int /\ o.minReserveRatioBps \in Nat
        BY <2>1, PipelineAssumption
      <4>2. s.liabilities >= 0
        BY <2>1 DEF Normalizes
      <4> HIDE DEF s, o
      <4> QED
        BY <4>1, <4>2
    <3>2. NReserves \in Nat /\ MaxReserve \in Nat /\ CompareMax \in Nat /\ R \in Nat \ {0}
          /\ Bps \in Nat \ {0} /\ NReserves * MaxReserve <= CompareMax /\ CompareMax < R
      BY WidthAssumption
    <3>3. NReserves * MaxReserve \in Nat
      BY <3>2
    <3>4. Total(s) \in 0..(NReserves * MaxReserve)
      BY <2>1, TotalBounded
    <3> HIDE DEF s, o
    <3> QED
      BY <3>1, <3>2, <3>3, <3>4
  <2>3. Total(s) * Bps >= least * s.liabilities
    <3>1. s.liabilities # 0 => (Total(s) * Bps) \div s.liabilities >= least
      BY <2>1 DEF SufficientRatio
    <3> HIDE DEF s, least
    <3>2. Total(s) * Bps \in Nat
      BY <2>2
    <3>3. CASE s.liabilities = 0
      BY <2>2, <3>2, <3>3
    <3>4. CASE s.liabilities # 0
      BY <2>2, <3>1, <3>2, <3>4, FloorRatio
    <3> QED
      BY <3>3, <3>4
  <2>4. ASSUME least >= Bps PROVE book[p].attestation.liabilities = s.liabilities
    <3>1. book[p].attestation.liabilities = s.liabilities % R
      <4>1. book[p].attestation = Signals(s)
        BY Entries
      <4> HIDE DEF s
      <4>2. Signals(s).liabilities = s.liabilities % R
        BY DEF Signals
      <4> QED
        BY <4>1, <4>2
    <3> HIDE DEF s, least
    <3>2. s.liabilities <= Total(s)
      BY <2>2, <2>3, <2>4, UnitRatio
    <3>3. s.liabilities % R = s.liabilities
      BY <2>2, <3>2
    <3> QED
      BY <3>1, <3>3
  <2> QED
    BY <2>3, <2>4
<1> QED
  BY <1>1, WritePathHolds, PTL

(* The audit trail of pipeline.ts explains the ledger: every gate is       *)
(* recorded as accepted before anything is attested, and "submitted" only  *)
(* after it is.                                                            *)
THEOREM AuditExplains == Spec => []AuditExplainsLedger
<1>1. WritePathInv => AuditExplainsLedger
  <2> SUFFICES ASSUME WritePathInv PROVE AuditExplainsLedger
    OBVIOUS
  <2>1. ASSUME NEW r \in Run, Receipted \in sink[r]
        PROVE  \E p \in Attested : book[p].run = r
    <3>1. PICK x \in receipts : x.run = r
      BY <2>1 DEF WritePathInv, NetInv, RunsAnswered
    <3>2. PICK a \in answers : a.value # None /\ x = Entry(a)
      BY DEF WritePathInv, NetInv, RunsAnswered
    <3>3. a.value.periodId \in Period /\ book[a.value.periodId] = x /\ x # None
      BY <3>2, EntryPresent DEF WritePathInv, NetInv, AnswersKept
    <3> QED
      BY <3>1, <3>3 DEF Attested
  <2> QED
    BY <2>1, Entries DEF AuditExplainsLedger, Passed, Saw, Clean, Receipted
<1> QED
  BY <1>1, WritePathHolds, PTL

(* The receipt that run returns is of its own attestation (stellar.ts).    *)
THEOREM ReceiptsTrue == Spec => []ReceiptsTruthful
<1>1. WritePathInv => ReceiptsTruthful
  <2> SUFFICES ASSUME WritePathInv, NEW x \in receipts
               PROVE  x.attestation.periodId \in Attested /\ book[x.attestation.periodId] = x
    BY DEF ReceiptsTruthful
  <2>1. PICK a \in answers : a.value # None /\ x = Entry(a)
    BY DEF WritePathInv, NetInv, RunsAnswered
  <2>2. x.attestation = a.value /\ x # None
    BY <2>1, EntryPresent DEF Entry, WritePathInv
  <2>3. a.value.periodId \in Period /\ book[a.value.periodId] = x
    BY <2>1 DEF WritePathInv, NetInv, AnswersKept
  <2> QED
    BY <2>2, <2>3 DEF Attested
<1> QED
  BY <1>1, WritePathHolds, PTL

(* A run that was told a contract error has nothing on the ledger and      *)
(* nothing on its way there (transport.ts retries no write).               *)
THEOREM RefusalsStand == Spec => []RefusalsFinal
<1>1. WritePathInv => RefusalsFinal
  <2> SUFFICES ASSUME WritePathInv, NEW r \in refused
               PROVE  /\ \A p \in Attested : book[p].run # r
                      /\ \A q \in requests : q.run # r
    BY DEF RefusalsFinal
  <2>1. PICK a \in answers : a.run = r /\ a.value = None
    BY DEF WritePathInv, NetInv, RunsAnswered
  <2>2. \A q \in requests : q.run # r
    BY <2>1 DEF WritePathInv, NetInv, OneAnswer
  <2>3. ASSUME NEW p \in Attested, book[p].run = r PROVE FALSE
    <3>1. PICK b \in answers : b.value # None /\ book[p] = Entry(b)
      BY Entries
    <3>2. b.run = r
      BY <2>3, <3>1 DEF Entry
    <3> QED
      BY <2>1, <3>1, <3>2 DEF WritePathInv, NetInv, OneAnswer
  <2> QED
    BY <2>2, <2>3
<1> QED
  BY <1>1, WritePathHolds, PTL

===============================================================================
