------------------------------- MODULE ReadPath -------------------------------
(***************************************************************************)
(* The reads of a refresh, call by call: what Reconciler takes as one step *)
(* -- list_periods or get_attestation -- is a loop of invoker calls in     *)
(* BindingSorobanTransport.simulate (transport.ts), inside the loop of     *)
(* refreshWithRetry (reconciler.ts).  A call reads the chain when it is    *)
(* served and is answered later, when the chain may have grown; it may be  *)
(* answered by an error, or by a value that does not decode.               *)
(***************************************************************************)
EXTENDS Reconciler

CONSTANT MaxCalls   \* maxAttempts of the transport

ASSUME CallAssumption == MaxCalls \in Nat \ {0} /\ IsFiniteSet(Period)

VARIABLES
    phase,    \* of the current call: "ready", "sent", "answered"
    tries,    \* attempt at it, from 1: attempt of withRetry
    answer,   \* what it was answered
    calls     \* history: calls in the refreshes of this target, up to Budget + 1

callVars == <<phase, tries, answer>>
readVars == <<reconcilerVars, callVars, calls>>

Budget == MaxAttempts * MaxCalls * (1 + Cardinality(Period))

Nothing == [kind |-> "nothing"]
Reading == pc = "listing" \/ (pc = "fetching" /\ todo # {})

-----------------------------------------------------------------------------
ReadInit ==
    /\ ReconcilerInit
    /\ phase = "ready" /\ tries = 1 /\ answer = Nothing
    /\ calls = 0

(* The other steps of the process leave no call open, and those that go on *)
(* to another target start its count of calls.                             *)
Idle == phase' = "ready" /\ tries' = 1 /\ answer' = Nothing

Call ==
    /\ Reading /\ phase = "ready"
    /\ phase' = "sent"
    /\ calls' = IF calls > Budget THEN calls ELSE calls + 1
    /\ UNCHANGED <<reconcilerVars, tries, answer>>

(* The values that the contract may give now. *)
ChainAnswer ==
    IF pc = "listing" THEN [kind |-> "periods", periods |-> ListedPeriods(Issuer)]
    ELSE [kind |-> IF <<1, Issuer, Min(todo)>> \in lines THEN "record" ELSE "null"]

(* Fault: a list that does not decode is taken for an empty one. *)
GarbledIsEmpty ==
    {ChainAnswer, [kind |-> "transient"], [kind |-> "permanent"],
     IF pc = "listing" THEN [kind |-> "periods", periods |-> {}] ELSE [kind |-> "garbled"]}

Answers == {ChainAnswer, [kind |-> "garbled"], [kind |-> "transient"], [kind |-> "permanent"]}

Serve ==
    /\ phase = "sent"
    /\ phase' = "answered" /\ answer' \in Answers
    /\ UNCHANGED <<reconcilerVars, tries, calls>>

Answered(kind) == phase = "answered" /\ answer.kind = kind

ReceivePeriods ==
    /\ Answered("periods")
    /\ todo' = answer.periods
    /\ pc' = "fetching"
    /\ Idle
    /\ UNCHANGED <<chainVars, store, file, target, attempt, snapshots, failures,
                   status, before, calls>>

ReceiveRecord ==
    /\ Answered("record")
    /\ store' = store \cup {<<Issuer, Min(todo)>>}
    /\ todo' = todo \ {Min(todo)}
    /\ Idle
    /\ UNCHANGED <<chainVars, pc, file, target, attempt, snapshots, failures,
                   status, before, calls>>

(* "contract listed period without attestation", and decoding errors: not  *)
(* of kind "transport".                                                    *)
ReceiveUnusable ==
    /\ Answered("null") \/ Answered("garbled")
    /\ Fail(FALSE)
    /\ Idle
    /\ UNCHANGED <<store, calls>>

(* Fault: attempts are not counted. *)
SameTry == tries

NextTry == tries + 1

(* Fault: one attempt too many. *)
LastTryLate == tries > MaxCalls

LastTry == tries >= MaxCalls

ReceiveTransient ==
    /\ Answered("transient") /\ ~LastTry
    /\ phase' = "ready" /\ tries' = NextTry /\ answer' = Nothing
    /\ UNCHANGED <<reconcilerVars, calls>>

(* withRetry wraps the last error, even one it found not worth retrying,   *)
(* as one of kind "transport", which the reconciler retries.               *)
ReceiveError ==
    /\ Answered("permanent") \/ (Answered("transient") /\ LastTry)
    /\ Fail(TRUE)
    /\ Idle
    /\ UNCHANGED <<store, calls>>

(* The audit sink throws before the first read or after the last.          *)
AuditThrows ==
    /\ phase = "ready"
    /\ \/ pc = "listing" /\ tries = 1
       \/ pc = "fetching" /\ todo = {}
    /\ RefreshThrows
    /\ Idle
    /\ UNCHANGED <<calls>>

Receive ==
    \/ ReceivePeriods \/ ReceiveRecord \/ ReceiveUnusable
    \/ ReceiveTransient \/ ReceiveError

(* What is between the reads is as in Reconciler. *)
BetweenReads ==
    \/ BeginLoop \/ CompleteRefresh \/ Retry \/ GiveUp
    \/ BeginSave \/ EndSave \/ Finish \/ RunRejects

ReadProgress ==
    \/ Call \/ Serve \/ Receive \/ AuditThrows
    \/ /\ BetweenReads
       /\ Idle
       /\ calls' = IF target' # target THEN 0 ELSE calls

ReadStart == StartRun /\ Idle /\ calls' = 0

ReadNext ==
    \/ ReadProgress \/ ReadStart
    \/ (ChainGrows \/ Query) /\ UNCHANGED <<callVars, calls>>
    \/ (Crash \/ Restart) /\ Idle /\ calls' = 0

ReadSpec == ReadInit /\ [][ReadNext]_readVars

(* The invoker's promises settle, and runs are started again and again, as *)
(* long as the process lives; nothing makes it restart.                    *)
FairReadSpec == ReadSpec /\ WF_readVars(ReadProgress) /\ WF_readVars(ReadStart)

-----------------------------------------------------------------------------
(* A served list and a missing record have been read: the step Reconciler  *)
(* takes is then behind, although the process has not seen the answer.     *)
Listed == Answered("periods")
Missed == Answered("null")

Atomic == INSTANCE Reconciler WITH
    pc <- IF Listed THEN "fetching" ELSE IF Missed THEN "failed" ELSE pc,
    todo <- IF Listed THEN answer.periods ELSE todo,
    failures <- IF Missed
                THEN failures \cup {[target |-> target, attempt |-> attempt, retryable |-> FALSE]}
                ELSE failures

(* Retried calls and answers that are out of date when they arrive change  *)
(* nothing: the reads of a refresh are as good as single steps.            *)
ImplementsReconciler == Atomic!ReconcilerSpec

(* The two nested loops never ask more than the product of their limits    *)
(* for the list and for each period.                                       *)
CallBudget == calls <= Budget

(* Every run comes to an end, whatever the calls are answered, unless the  *)
(* process dies.                                                           *)
ReadsEnd == pc = "starting" ~> pc \in {"idle", "down"}

(* Once the invoker, the audit sink and the disk have stopped failing and  *)
(* the process has stopped dying, it indexes whatever is attested on a     *)
(* contract that only has v1 attestations, unless it is down for good (a   *)
(* torn checkpoint keeps it from starting).                                *)
Fault == (Serve /\ answer' # ChainAnswer) \/ AuditThrows \/ RunRejects \/ Crash

EventuallyIndexed ==
    <>[][~Fault]_readVars /\ [](\A line \in lines : line[1] = 1) =>
        \A j \in TargetIndex, p \in Period :
            <<1, Targets[j].issuer, p>> \in lines
                ~> <<Targets[j].issuer, p>> \in store \/ pc = "down"

===============================================================================
