---------------------------- MODULE ReadPath_proofs ----------------------------
(***************************************************************************)
(* Theorems about the client's indexing process, for every list of         *)
(* targets, every contract it reads and every number of attempts, with     *)
(* reads that fail anywhere, crashes and restarts; and about the reads by  *)
(* retried calls that implement it: they are its reads and stay within     *)
(* their budget, whatever the calls are answered.                          *)
(***************************************************************************)
EXTENDS ReadPath, SumTheorems, SequenceTheorems, TLAPS


Record == Address \X Period

Await == {"idle", "starting", "listing", "fetching", "failed", "saving", "writing",
          "reporting", "down"}

(* The awaits of the loop over targets, and those after it. *)
Refreshing == {"starting", "listing", "fetching", "failed"}
Closing == {"saving", "writing", "reporting"}

TypeInv ==
    /\ lines \subseteq Version \X Address \X Period
    /\ periods \in [Address -> Seq(Period)]
    /\ pc \in Await
    /\ store \subseteq Record
    /\ target \in TargetIndex /\ attempt \in 1..MaxAttempts
    /\ todo \subseteq Period
    /\ snapshots \in [TargetIndex -> (SUBSET Record) \cup {None}]
    /\ failures \subseteq [target : TargetIndex, attempt : 1..MaxAttempts,
                           retryable : BOOLEAN]
    /\ file \in [state : {"absent", "torn", "written"}, records : SUBSET Record]
    /\ before \subseteq lines

(* list_periods names the period of every line. *)
ListingInv == \A line \in lines : line[3] \in ListedPeriods(line[2])

(* The issuer in hand is an address, and the target one of the list.      *)
LEMMA Issuers ==
    ASSUME TypeInv
    PROVE  Issuer \in Address /\ target \in Nat /\ target <= Len(Targets)
<1>1. /\ Targets \in Seq([issuer : Address, required : BOOLEAN])
      /\ target \in DOMAIN Targets
  BY TargetAssumption DEF TypeInv, TargetIndex
<1>2. target \in Nat /\ target <= Len(Targets) /\ target \in 1..Len(Targets)
  BY <1>1
<1>3. Targets[target] \in [issuer : Address, required : BOOLEAN]
  BY <1>1, <1>2, ElementOfSeq
<1> QED
  BY <1>2, <1>3 DEF Issuer

(* There is a first target and a first attempt.                           *)
LEMMA TargetsExist == 1 \in TargetIndex /\ TargetIndex = 1..Len(Targets) /\ 1 \in 1..MaxAttempts
BY TargetAssumption DEF TargetIndex

(* A step of the contract keeps the types, and its listing stays complete. *)
LEMMA ChainStep ==
    ASSUME TypeInv, ListingInv, Next
    PROVE  /\ lines' \subseteq Version \X Address \X Period
           /\ periods' \in [Address -> Seq(Period)]
           /\ lines \subseteq lines'
           /\ ListingInv'
<1> PICK v \in Version, issuer \in Address, p \in Period : Attest(v, issuer, p)
  BY DEF Next
<1> USE DEF Attest, TypeInv
<1>1. /\ lines' \subseteq Version \X Address \X Period
      /\ periods' \in [Address -> Seq(Period)]
      /\ lines \subseteq lines'
  OBVIOUS
<1>2. ASSUME NEW line \in lines' PROVE line[3] \in ListedPeriods(line[2])'
  <2> DEFINE i == line[2]  old == periods[i]
  <2>1. i \in Address /\ old \in Seq(Period)
    BY <1>1
  <2>2. CASE line \in lines
    <3>1. PICK j \in DOMAIN old : old[j] = line[3]
      BY <2>2 DEF ListingInv, ListedPeriods
    <3>2. j \in DOMAIN periods'[i] /\ periods'[i][j] = line[3]
      BY <2>1, <3>1
    <3> QED
      BY <3>2 DEF ListedPeriods
  <2>3. CASE line = <<v, issuer, p>>
    <3>1. /\ Len(periods[issuer]) + 1 \in DOMAIN periods'[issuer]
          /\ periods'[issuer][Len(periods[issuer]) + 1] = p
      OBVIOUS
    <3> QED
      BY <2>3, <3>1 DEF ListedPeriods
  <2> QED
    BY <2>2, <2>3
<1> QED
  BY <1>1, <1>2 DEF ListingInv

(* What is listed are periods.                                            *)
LEMMA ListedTypes ==
    ASSUME TypeInv, NEW issuer \in Address
    PROVE  ListedPeriods(issuer) \subseteq Period
BY DEF TypeInv, ListedPeriods

-----------------------------------------------------------------------------
(* Every step keeps the types and what is known while a listing is read.  *)
LEMMA TypeStep ==
    ASSUME TypeInv, ListingInv, [ReconcilerNext]_reconcilerVars
    PROVE  TypeInv' /\ ListingInv'
<1> USE DEF TypeInv, runVars, processVars, chainVars, NoSnapshots, Await, Fail, Advance,
            Record
<1>0. Issuer \in Address /\ target \in Nat /\ target <= Len(Targets)
  BY Issuers
<1> USE TargetsExist
<1>1. CASE ChainGrows
  BY <1>1, ChainStep DEF ChainGrows, TargetIndex
<1>2. UNCHANGED chainVars => ListingInv'
  BY DEF ListingInv, ListedPeriods
<1>3. CASE StartRun
  BY <1>2, <1>3 DEF StartRun
<1>4. CASE List
  BY <1>0, <1>2, <1>4, ListedTypes DEF List
<1>5. CASE Fetch
  <2>1. Min(todo) \in Period
    BY <1>5 DEF Fetch
  <2> QED
    BY <1>0, <1>2, <1>5, <2>1 DEF Fetch
<1>6. CASE FetchMissing
  <2>1. UNCHANGED store /\ \E retryable \in BOOLEAN : Fail(retryable)
    BY <1>6, Zenon DEF FetchMissing
  <2> QED
    BY <1>2, <2>1
<1>7. CASE RefreshThrows
  BY <1>2, <1>7 DEF RefreshThrows
<1>8. CASE CompleteRefresh
  <2>1. RecordsOf(Issuer) \in SUBSET Record
    BY DEF RecordsOf
  <2> QED
    BY <1>0, <1>2, <1>8, <2>1 DEF CompleteRefresh
<1>9. CASE Retry
  <2>1. attempt + 1 \in 1..MaxAttempts
    BY <1>9, TargetAssumption DEF Retry, Retries
  <2> QED
    BY <1>2, <1>9, <2>1 DEF Retry
<1>10. CASE GiveUp
  BY <1>0, <1>2, <1>10 DEF GiveUp
<1>11. CASE BeginSave
  BY <1>2, <1>11 DEF BeginSave
<1>12. CASE EndSave
  <2>1. SnapshotRecords \subseteq Record
    BY DEF SnapshotRecords, Snapshotted
  <2> QED
    BY <1>2, <1>12, <2>1 DEF EndSave
<1>13. CASE Finish
  BY <1>2, <1>13 DEF Finish
<1>14. CASE RunRejects \/ BeginLoop
  BY <1>2, <1>14 DEF RunRejects, BeginLoop
<1>15. CASE Query
  BY <1>2, <1>15 DEF Query
<1>16. CASE Crash
  BY <1>2, <1>16 DEF Crash
<1>17. CASE Restart
  BY <1>2, <1>17 DEF Restart
<1>18. CASE UNCHANGED reconcilerVars
  BY <1>2, <1>18 DEF reconcilerVars
<1> QED
  BY <1>1, <1>3, <1>4, <1>5, <1>6, <1>7, <1>8, <1>9, <1>10, <1>11, <1>12, <1>13,
     <1>14, <1>15, <1>16, <1>17, <1>18 DEF ReconcilerNext, Progress

(* The types hold always.                                                 *)
LEMMA TypesHold == ReconcilerSpec => [](TypeInv /\ ListingInv)
<1>1. ReconcilerInit => TypeInv /\ ListingInv
  BY TargetsExist
     DEF ReconcilerInit, Init, TypeInv, ListingInv, NoSnapshots, Await, Record
<1> QED
  BY <1>1, TypeStep, PTL DEF ReconcilerSpec

-----------------------------------------------------------------------------
(* What the loop over targets owes: while a target is refreshed, each line *)
(* that its issuer had before the run is fetched or about to be, and each  *)
(* target behind it has a snapshot or a failure.                           *)
Accounted(i) == i \in Snapshotted \/ \E f \in failures : f.target = i

FetchedOrListed ==
    pc = "fetching" => \A line \in before :
        line[2] = Issuer => line[3] \in todo \/ <<line[2], line[3]>> \in store

TargetsAccounted ==
    /\ pc \in Refreshing => \A i \in 1..(target - 1) : Accounted(i)
    /\ pc = "failed" => \E f \in failures : f.target = target
    /\ pc \in Closing => \A i \in TargetIndex : Accounted(i)

CheckpointOfRun ==
    /\ SnapshotRecords \subseteq store
    /\ pc = "down" => Snapshotted = {}
    /\ pc = "reporting" => Snapshotted = {} \/ file.records = SnapshotRecords
    /\ status = "succeeded" => pc = "idle"

CatchUpInv ==
    /\ IndexSound /\ SnapshotsCatchUp /\ SuccessMeansCaughtUp
    /\ FetchedOrListed /\ TargetsAccounted /\ CheckpointOfRun

(* With no snapshot taken, nothing is snapshotted.                        *)
LEMMA NothingSnapshotted ==
    ASSUME snapshots' = NoSnapshots
    PROVE  Snapshotted' = {} /\ SnapshotRecords' = {}
BY DEF Snapshotted, SnapshotRecords, NoSnapshots

(* A refresh completes: its snapshot is what the store has of the issuer. *)
LEMMA OneMoreSnapshot ==
    ASSUME TypeInv, CompleteRefresh
    PROVE  /\ Snapshotted' = Snapshotted \cup {target}
           /\ snapshots'[target] = RecordsOf(Issuer)
           /\ \A i \in TargetIndex \ {target} : snapshots'[i] = snapshots[i]
           /\ SnapshotRecords' \subseteq SnapshotRecords \cup RecordsOf(Issuer)
<1>1. /\ snapshots \in [TargetIndex -> (SUBSET Record) \cup {None}]
      /\ snapshots' = [snapshots EXCEPT ![target] = RecordsOf(Issuer)]
      /\ target \in TargetIndex
  BY DEF TypeInv, CompleteRefresh
<1>2. RecordsOf(Issuer) \in SUBSET Record
  BY DEF RecordsOf, TypeInv
<1>3. RecordsOf(Issuer) # None
  BY <1>2, AbsenceAssumption DEF Record
<1> QED
  BY <1>1, <1>3 DEF Snapshotted, SnapshotRecords, TargetIndex

(* One more record of a line, and the index is still sound. *)
LEMMA OneMoreRecord ==
    ASSUME IndexSound, NEW issuer, NEW p, <<1, issuer, p>> \in lines,
           store' = store \cup {<<issuer, p>>}, UNCHANGED <<lines, file>>,
           SnapshotRecords' = SnapshotRecords
    PROVE  IndexSound'
<1> SUFFICES ASSUME NEW r \in store' \cup file.records \cup SnapshotRecords
             PROVE  <<1, r[1], r[2]>> \in lines
  BY DEF IndexSound
<1>1. CASE r = <<issuer, p>>
  <2>1. r[1] = issuer /\ r[2] = p
    BY <1>1
  <2> QED
    BY <2>1
<1>2. CASE r # <<issuer, p>>
  BY <1>2 DEF IndexSound
<1> QED
  BY <1>1, <1>2

(* The steps that leave store, snapshots, failures and file alone only     *)
(* move the process, and the invariant is about where it moves to.         *)
LEMMA CatchUpStep ==
    ASSUME TypeInv, ListingInv, CatchUpInv, [ReconcilerNext]_reconcilerVars
    PROVE  CatchUpInv'
<1> USE DEF CatchUpInv, runVars, processVars, chainVars, Refreshing, Closing
<1>0. UNCHANGED snapshots => Snapshotted' = Snapshotted /\ SnapshotRecords' = SnapshotRecords
  BY DEF Snapshotted, SnapshotRecords
<1>i. target \in 1..Len(Targets) /\ TargetIndex = 1..Len(Targets) /\ target \in Nat
  BY TargetsExist, Issuers DEF TypeInv
<1>1. CASE ChainGrows
  <2>1. lines \subseteq lines' /\ UNCHANGED processVars
    BY <1>1, ChainStep DEF ChainGrows
  <2>2. IndexSound'
    BY <1>0, <2>1 DEF IndexSound
  <2> QED
    BY <1>0, <2>1, <2>2 DEF SnapshotsCatchUp, SuccessMeansCaughtUp, FetchedOrListed,
       TargetsAccounted, CheckpointOfRun, Accounted, Issuer
<1>2. CASE StartRun
  <2>1. Snapshotted' = {} /\ SnapshotRecords' = {}
    BY <1>2, NothingSnapshotted DEF StartRun
  <2> QED
    BY <1>2, <2>1, AbsenceAssumption DEF StartRun, IndexSound, SnapshotsCatchUp,
       SuccessMeansCaughtUp, FetchedOrListed, TargetsAccounted, CheckpointOfRun
<1>3. CASE List
  <2>1. FetchedOrListed'
    BY <1>3 DEF List, FetchedOrListed, ListingInv, TypeInv, Issuer
  <2> QED
    BY <1>0, <1>3, <2>1 DEF List, IndexSound, SnapshotsCatchUp, SuccessMeansCaughtUp,
       TargetsAccounted, CheckpointOfRun, Accounted
<1>4. CASE Fetch
  <2>1. FetchedOrListed'
    BY <1>4 DEF Fetch, FetchedOrListed, Issuer
  <2>2. IndexSound'
    <3>1. PICK p : <<1, Issuer, p>> \in lines /\ store' = store \cup {<<Issuer, p>>}
      BY <1>4 DEF Fetch
    <3>2. UNCHANGED <<lines, file, snapshots>>
      BY <1>4 DEF Fetch
    <3> QED
      BY <1>0, <3>1, <3>2, OneMoreRecord
  <2> QED
    BY <1>0, <1>4, <2>1, <2>2 DEF Fetch, SnapshotsCatchUp, SuccessMeansCaughtUp,
       TargetsAccounted, CheckpointOfRun, Accounted
<1>5. CASE FetchMissing \/ RefreshThrows
  <2>1. /\ UNCHANGED store /\ pc \in Refreshing
        /\ \E retryable \in BOOLEAN : Fail(retryable)
    BY <1>5, Zenon DEF FetchMissing, RefreshThrows
  <2>2. failures \subseteq failures' /\ \E f \in failures' : f.target = target
    <3>1. PICK retryable \in BOOLEAN : Fail(retryable)
      BY <2>1
    <3> DEFINE new == [target |-> target, attempt |-> attempt, retryable |-> retryable]
    <3>2. failures' = failures \cup {new} /\ new.target = target
      BY <3>1 DEF Fail
    <3> QED
      BY <3>2
  <2> QED
    BY <1>0, <2>1, <2>2 DEF Fail, IndexSound, SnapshotsCatchUp, SuccessMeansCaughtUp,
       FetchedOrListed, TargetsAccounted, CheckpointOfRun, Accounted
<1>6. CASE CompleteRefresh
  <2>1. /\ RecordsOf(Issuer) \subseteq store /\ UNCHANGED <<store, failures, file, before>>
        /\ pc = "fetching" /\ todo = {} /\ status' = status /\ Advance
    BY <1>6 DEF CompleteRefresh, RecordsOf
  <2>2. \A line \in before : line[2] = Issuer => <<line[2], line[3]>> \in RecordsOf(Issuer)
    BY <2>1 DEF FetchedOrListed, RecordsOf
  <2>3. SnapshotsCatchUp'
    <3> SUFFICES ASSUME NEW i \in Snapshotted', NEW line \in before,
                        line[2] = Targets[i].issuer
                 PROVE  <<line[2], line[3]>> \in snapshots'[i]
      BY <2>1 DEF SnapshotsCatchUp
    <3>1. CASE i = target
      BY <1>6, <2>2, <3>1, OneMoreSnapshot DEF Issuer
    <3>2. CASE i # target
      <4>1. i \in Snapshotted /\ snapshots'[i] = snapshots[i]
        BY <1>6, <3>2, OneMoreSnapshot DEF Snapshotted
      <4> QED
        BY <4>1 DEF SnapshotsCatchUp
    <3> QED
      BY <3>1, <3>2
  <2>4. \A i \in 1..target : Accounted(i)'
    BY <1>6, <1>i, <2>1, OneMoreSnapshot DEF Accounted, TargetsAccounted
  <2>5. TargetsAccounted' /\ FetchedOrListed'
    BY <1>i, <2>1, <2>4 DEF Advance, TargetsAccounted, FetchedOrListed
  <2>6. IndexSound' /\ CheckpointOfRun'
    BY <1>6, <2>1, OneMoreSnapshot DEF CompleteRefresh, IndexSound, CheckpointOfRun, Advance
  <2>7. SuccessMeansCaughtUp'
    BY <2>1 DEF SuccessMeansCaughtUp, CheckpointOfRun
  <2> QED
    BY <2>3, <2>5, <2>6, <2>7
<1>7. CASE Retry
  BY <1>0, <1>7 DEF Retry, IndexSound, SnapshotsCatchUp, SuccessMeansCaughtUp,
     FetchedOrListed, TargetsAccounted, CheckpointOfRun, Accounted
<1>8. CASE GiveUp
  <2>1. \A i \in 1..target : Accounted(i)'
    BY <1>0, <1>8, <1>i DEF GiveUp, Accounted, TargetsAccounted
  <2>2. TargetsAccounted' /\ FetchedOrListed'
    BY <1>8, <1>i, <2>1 DEF GiveUp, Advance, TargetsAccounted, FetchedOrListed
  <2> QED
    BY <1>0, <1>8, <2>2 DEF GiveUp, Advance, IndexSound, SnapshotsCatchUp,
       SuccessMeansCaughtUp, CheckpointOfRun
<1>9. CASE BeginSave
  <2>1. IndexSound'
    <3>1. file'.records \subseteq file.records /\ UNCHANGED <<lines, store, snapshots>>
      BY <1>9 DEF BeginSave
    <3> QED
      BY <1>0, <3>1 DEF IndexSound
  <2> QED
    BY <1>0, <1>9, <2>1 DEF BeginSave, SnapshotsCatchUp,
       SuccessMeansCaughtUp, FetchedOrListed, TargetsAccounted, CheckpointOfRun, Accounted
<1>10. CASE EndSave
  <2>1. IndexSound'
    BY <1>0, <1>10 DEF EndSave, IndexSound
  <2> QED
    BY <1>0, <1>10, <2>1 DEF EndSave, SnapshotsCatchUp, SuccessMeansCaughtUp,
       FetchedOrListed, TargetsAccounted, CheckpointOfRun, Accounted
<1>11. CASE Finish
  <2>1. SuccessMeansCaughtUp'
    <3> SUFFICES ASSUME status' = "succeeded", NEW line \in before, NEW i \in TargetIndex,
                        IssuerRequired(i), line[2] = Targets[i].issuer
                 PROVE  <<line[2], line[3]>> \in file.records \cap store
      BY <1>11 DEF Finish, SuccessMeansCaughtUp
    <3>1. RequiredFailures = {} /\ pc = "reporting"
      BY <1>11 DEF Finish
    <3>2. i \in Snapshotted
      BY <3>1 DEF TargetsAccounted, Accounted, RequiredFailures
    <3>3. <<line[2], line[3]>> \in SnapshotRecords
      BY <3>2 DEF SnapshotsCatchUp, SnapshotRecords
    <3> QED
      BY <3>1, <3>2, <3>3 DEF CheckpointOfRun
  <2> QED
    BY <1>0, <1>11, <2>1 DEF Finish, IndexSound, SnapshotsCatchUp,
       FetchedOrListed, TargetsAccounted, CheckpointOfRun
<1>12. CASE RunRejects \/ BeginLoop
  BY <1>0, <1>12 DEF RunRejects, BeginLoop, Accounted, IndexSound, SnapshotsCatchUp,
     SuccessMeansCaughtUp, FetchedOrListed, TargetsAccounted, CheckpointOfRun
<1>13. CASE Query
  <2>1. IndexSound'
    <3>1. PICK issuer, p : <<1, issuer, p>> \in lines /\ store' = store \cup {<<issuer, p>>}
      BY <1>13 DEF Query
    <3>2. UNCHANGED <<lines, file, snapshots>>
      BY <1>13 DEF Query
    <3> QED
      BY <1>0, <3>1, <3>2, OneMoreRecord
  <2> QED
    BY <1>0, <1>13, <2>1 DEF Query, SnapshotsCatchUp, SuccessMeansCaughtUp,
       FetchedOrListed, TargetsAccounted, CheckpointOfRun, Accounted, Issuer
<1>14. CASE Crash
  <2>1. Snapshotted' = {} /\ SnapshotRecords' = {}
    BY <1>14, NothingSnapshotted DEF Crash
  <2> QED
    BY <1>14, <2>1, AbsenceAssumption DEF Crash, IndexSound, SnapshotsCatchUp,
       SuccessMeansCaughtUp, FetchedOrListed, TargetsAccounted, CheckpointOfRun
<1>15. CASE Restart
  <2>1. Snapshotted = {} /\ SnapshotRecords = {} /\ status # "succeeded"
    BY <1>15 DEF Restart, CheckpointOfRun, SnapshotRecords
  <2> QED
    BY <1>0, <1>15, <2>1 DEF Restart, IndexSound, SnapshotsCatchUp, SuccessMeansCaughtUp,
       FetchedOrListed, TargetsAccounted, CheckpointOfRun
<1>16. CASE UNCHANGED reconcilerVars
  <2>1. IndexSound'
    BY <1>0, <1>16 DEF reconcilerVars, IndexSound
  <2> QED
    BY <1>0, <1>16, <2>1 DEF reconcilerVars, SnapshotsCatchUp, SuccessMeansCaughtUp,
       FetchedOrListed, TargetsAccounted, CheckpointOfRun, Accounted, Issuer
<1> QED
  BY <1>1, <1>2, <1>3, <1>4, <1>5, <1>6, <1>7, <1>8, <1>9, <1>10, <1>11, <1>12, <1>13,
     <1>14, <1>15, <1>16 DEF ReconcilerNext, Progress

(* A target that was refreshed has caught up, always.                     *)
LEMMA CatchUpHolds == ReconcilerSpec => []CatchUpInv
<1>1. ReconcilerInit => CatchUpInv
  <2>1. NoSnapshots = snapshots => Snapshotted = {} /\ SnapshotRecords = {}
    BY DEF NoSnapshots, Snapshotted, SnapshotRecords
  <2> QED
    BY <2>1, AbsenceAssumption DEF ReconcilerInit, CatchUpInv, IndexSound, SnapshotsCatchUp,
       SuccessMeansCaughtUp, FetchedOrListed, TargetsAccounted, CheckpointOfRun, Refreshing,
       Closing
<1>2. TypeInv /\ ListingInv /\ CatchUpInv /\ [ReconcilerNext]_reconcilerVars => CatchUpInv'
  BY CatchUpStep
<1> QED
  BY <1>1, <1>2, TypesHold, PTL DEF ReconcilerSpec

-----------------------------------------------------------------------------
(* The retries: how many attempts at the current target have failed, and   *)
(* that nothing is known of the targets ahead of it.                       *)
Own(i) == {f \in failures : f.target = i}

AttemptsCounted ==
    /\ IsFiniteSet(failures)
    /\ \A f, g \in failures : f.target = g.target /\ f.attempt = g.attempt => f = g
    /\ pc \in {"starting", "listing", "fetching"} =>
          Cardinality(Own(target)) = attempt - 1 /\ \A f \in Own(target) : f.retryable
    /\ pc = "failed" =>
          /\ Cardinality(Own(target)) = attempt
          /\ \A f \in Own(target) : f.attempt < attempt => f.retryable

NothingAhead ==
    pc \in Refreshing =>
        /\ snapshots[target] = None
        /\ \A i \in TargetIndex : i > target => Own(i) = {} /\ snapshots[i] = None

(* RetryDiscipline, target by target. *)
Disciplined(i) ==
    /\ {f.attempt : f \in Own(i)} = 1..Cardinality(Own(i))
    /\ \A f \in Own(i) : ~f.retryable => f.attempt = Cardinality(Own(i))
    /\ snapshots[i] # None =>
          Cardinality(Own(i)) < MaxAttempts /\ \A f \in Own(i) : f.retryable

RetryInv == (\A i \in TargetIndex : Disciplined(i)) /\ AttemptsCounted /\ NothingAhead

(* A run that begins has no failure on record, so its discipline holds.   *)
LEMMA NoFailures ==
    ASSUME failures' = {}, snapshots' = NoSnapshots
    PROVE  /\ \A i \in TargetIndex : Disciplined(i)'
           /\ IsFiniteSet(failures')
           /\ \A i \in TargetIndex : snapshots'[i] = None /\ Own(i)' = {}
           /\ \A i \in TargetIndex : Cardinality(Own(i)') = 0
<1>1. \A i \in TargetIndex : snapshots'[i] = None /\ Own(i)' = {}
  BY DEF NoSnapshots, Own
<1>2. IsFiniteSet(failures') /\ Cardinality({}) = 0
  BY FS_EmptySet
<1>3. \A i \in TargetIndex : Disciplined(i)'
  BY <1>1, <1>2 DEF Disciplined
<1> QED
  BY <1>1, <1>2, <1>3

(* One more failed attempt at the current target. *)
LEMMA FailureCounted ==
    ASSUME TypeInv, RetryInv, pc \in {"listing", "fetching"},
           NEW retryable \in BOOLEAN, Fail(retryable)
    PROVE  RetryInv'
<1> DEFINE new == [target |-> target, attempt |-> attempt, retryable |-> retryable]
<1>1. /\ failures' = failures \cup {new} /\ pc' = "failed"
      /\ UNCHANGED <<target, attempt, snapshots>>
      /\ target \in TargetIndex /\ attempt \in 1..MaxAttempts
      /\ pc \in Refreshing
  BY DEF Fail, TypeInv, Refreshing
<1>2. IsFiniteSet(failures') /\ IsFiniteSet(Own(target))
  BY <1>1, FS_AddElement, FS_Subset DEF RetryInv, AttemptsCounted, Own
<1>3. /\ Cardinality(Own(target)) = attempt - 1
      /\ {f.attempt : f \in Own(target)} = 1..(attempt - 1)
      /\ \A f \in Own(target) : f.retryable
  BY <1>1 DEF RetryInv, AttemptsCounted, Disciplined
<1>4. new \notin Own(target)
  <2>1. new \in Own(target) => new.attempt \in 1..(attempt - 1)
    BY <1>3
  <2> QED
    BY <1>1, <2>1, TargetAssumption
<1>5. Own(target)' = Own(target) \cup {new}
  BY <1>1 DEF Own
<1>6. Cardinality(Own(target)') = attempt
  <2>1. Cardinality(Own(target) \cup {new}) = Cardinality(Own(target)) + 1
    BY <1>2, <1>4, FS_AddElement
  <2>2. attempt \in Int
    BY <1>1, TargetAssumption
  <2> QED
    BY <1>3, <1>5, <2>1, <2>2
<1>7. \A i \in TargetIndex : i # target => Own(i)' = Own(i)
  BY <1>1 DEF Own
<1>8. \A f \in Own(target) : f.attempt \in 1..(attempt - 1)
  <2> TAKE f \in Own(target)
  <2>1. f.attempt \in {g.attempt : g \in Own(target)}
    OBVIOUS
  <2> QED
    BY <1>3, <2>1, Zenon
<1>9. Disciplined(target)'
  <2>1. {f.attempt : f \in Own(target) \cup {new}}
            = {f.attempt : f \in Own(target)} \cup {attempt}
    <3>1. new.attempt = attempt
      OBVIOUS
    <3> HIDE DEF new
    <3> QED
      BY <3>1
  <2>2. 1..attempt = 1..(attempt - 1) \cup {attempt}
    BY <1>1, TargetAssumption
  <2>3. {f.attempt : f \in Own(target)'} = 1..attempt
    BY <1>3, <1>5, <2>1, <2>2, Zenon
  <2>4. \A f \in Own(target)' : ~f.retryable => f.attempt = attempt
    BY <1>3, <1>5
  <2>5. snapshots'[target] = None
    BY <1>1 DEF RetryInv, NothingAhead
  <2> QED
    BY <1>1, <1>6, <2>3, <2>4, <2>5 DEF Disciplined
<1>10. \A i \in TargetIndex : Disciplined(i)'
  <2> TAKE i \in TargetIndex
  <2>1. CASE i = target
    BY <1>1, <1>9, <2>1 DEF Disciplined, Own
  <2>2. CASE i # target
    BY <1>1, <1>7, <2>2 DEF Disciplined, RetryInv
  <2> QED
    BY <2>1, <2>2
<1>11. AttemptsCounted'
  <2>1. \A f \in failures : f.target = target => f.attempt # attempt
    BY <1>1, <1>8, TargetAssumption DEF Own
  <2>2. \A f, g \in failures' : f.target = g.target /\ f.attempt = g.attempt => f = g
    BY <1>1, <2>1 DEF RetryInv, AttemptsCounted
  <2>3. \A f \in Own(target)' : f.attempt < attempt => f.retryable
    BY <1>1, <1>3, <1>5, TargetAssumption
  <2> QED
    BY <1>1, <1>2, <1>6, <2>2, <2>3 DEF AttemptsCounted
<1>12. NothingAhead'
  <2>1. \A i \in TargetIndex : i > target => i # target
    BY <1>1, TargetsExist, TargetAssumption
  <2> QED
    BY <1>1, <1>7, <2>1 DEF RetryInv, NothingAhead
<1> QED
  BY <1>10, <1>11, <1>12 DEF RetryInv

(* Steps that leave failures and snapshots alone. *)
LEMMA RetryFrame ==
    ASSUME UNCHANGED <<failures, snapshots>>
    PROVE  /\ \A i : Own(i)' = Own(i)
           /\ \A i : Disciplined(i)' <=> Disciplined(i)
BY DEF Own, Disciplined

(* The target is done with, by a snapshot or by giving up. *)
LEMMA NextTarget ==
    ASSUME TypeInv, RetryInv, pc \in Refreshing, Advance, UNCHANGED failures,
           \A i \in TargetIndex : Disciplined(i)',
           \A i \in TargetIndex \ {target} : snapshots'[i] = snapshots[i]
    PROVE  RetryInv'
<1>1. \A i \in TargetIndex : Own(i)' = Own(i)
  BY DEF Own
<1>2. target \in 1..Len(Targets) /\ TargetIndex = 1..Len(Targets) /\ target \in Nat
  BY TargetsExist, Issuers DEF TypeInv
<1>3. CASE target < Len(Targets)
  <2>1. target' = target + 1 /\ attempt' = 1 /\ pc' = "listing"
    BY <1>3 DEF Advance
  <2>2. target + 1 \in TargetIndex /\ Own(target + 1) = {} /\ snapshots'[target + 1] = None
    BY <1>2, <1>3 DEF RetryInv, NothingAhead
  <2>3. Own(target)' = {} /\ Cardinality(Own(target)') = 0
    BY <2>1, <2>2, FS_EmptySet DEF Own
  <2>4. AttemptsCounted'
    BY <2>1, <2>3 DEF RetryInv, AttemptsCounted
  <2>5. NothingAhead'
    <3>1. \A i \in TargetIndex : i > target + 1 => i > target /\ i # target
      BY <1>2
    <3> QED
      BY <1>1, <2>1, <2>2, <3>1 DEF RetryInv, NothingAhead
  <2> QED
    BY <2>4, <2>5 DEF RetryInv
<1>4. CASE ~(target < Len(Targets))
  BY <1>4 DEF Advance, RetryInv, AttemptsCounted, NothingAhead, Refreshing
<1> QED
  BY <1>3, <1>4

(* Every step keeps the count of failures in order.                       *)
LEMMA RetryStep ==
    ASSUME TypeInv, RetryInv, [ReconcilerNext]_reconcilerVars
    PROVE  RetryInv'
<1> USE DEF runVars, processVars, chainVars
<1>1. CASE UNCHANGED <<pc, target, attempt, failures, snapshots>>
  BY <1>1, RetryFrame DEF RetryInv, AttemptsCounted, NothingAhead, Own
<1>2. CASE StartRun \/ Crash
  <2>1. failures' = {} /\ snapshots' = NoSnapshots /\ target' = 1 /\ attempt' = 1
    BY <1>2 DEF StartRun, Crash
  <2>2. pc' # "failed"
    BY <1>2 DEF StartRun, Crash
  <2>3. \A i \in TargetIndex : snapshots'[i] = None /\ Own(i)' = {}
    BY <2>1, NoFailures
  <2>4. Own(target)' = {} /\ Cardinality(Own(target)') = 0
    BY <2>1, FS_EmptySet DEF Own
  <2>5. \A i \in TargetIndex : Disciplined(i)'
    BY <2>1, NoFailures
  <2>6. AttemptsCounted'
    BY <2>1, <2>2, <2>4, FS_EmptySet DEF AttemptsCounted
  <2>7. NothingAhead'
    BY <2>1, <2>3, TargetsExist DEF NothingAhead
  <2> QED
    BY <2>5, <2>6, <2>7 DEF RetryInv
<1>3. CASE BeginLoop \/ List \/ Fetch
  <2>1. /\ pc \in {"starting", "listing", "fetching"} /\ pc' \in {"listing", "fetching"}
        /\ UNCHANGED <<target, attempt, failures, snapshots>>
    BY <1>3 DEF BeginLoop, List, Fetch
  <2> QED
    BY <2>1, RetryFrame DEF RetryInv, AttemptsCounted, NothingAhead, Own, Refreshing
<1>4. CASE FetchMissing \/ RefreshThrows
  <2>1. pc \in {"listing", "fetching"} /\ \E retryable \in BOOLEAN : Fail(retryable)
    BY <1>4, Zenon DEF FetchMissing, RefreshThrows
  <2> QED
    BY <2>1, FailureCounted
<1>5. CASE CompleteRefresh
  <2>1. pc \in Refreshing /\ pc = "fetching" /\ Advance /\ UNCHANGED failures
    BY <1>5 DEF CompleteRefresh, Refreshing
  <2>2. /\ target \in TargetIndex /\ attempt \in 1..MaxAttempts
        /\ \A i \in TargetIndex \ {target} : snapshots'[i] = snapshots[i]
    BY <1>5, OneMoreSnapshot DEF TypeInv
  <2>3. Cardinality(Own(target)) < MaxAttempts /\ \A f \in Own(target) : f.retryable
    <3>1. Cardinality(Own(target)) = attempt - 1 /\ \A f \in Own(target) : f.retryable
      BY <2>1 DEF RetryInv, AttemptsCounted
    <3> QED
      BY <2>2, <3>1, TargetAssumption
  <2>4. ASSUME NEW i \in TargetIndex PROVE Disciplined(i)'
    <3>1. Own(i)' = Own(i)
      BY <2>1 DEF Own
    <3>2. snapshots'[i] # None =>
             Cardinality(Own(i)) < MaxAttempts /\ \A f \in Own(i) : f.retryable
      BY <2>2, <2>3 DEF RetryInv, Disciplined
    <3> QED
      BY <3>1, <3>2 DEF RetryInv, Disciplined
  <2> QED
    BY <2>1, <2>2, <2>4, NextTarget
<1>6. CASE Retry
  <2>1. /\ pc = "failed" /\ pc' = "listing" /\ attempt' = attempt + 1
        /\ UNCHANGED <<target, failures, snapshots>>
        /\ [target |-> target, attempt |-> attempt, retryable |-> TRUE] \in failures
    BY <1>6 DEF Retry, Retries
  <2>2. attempt \in 1..MaxAttempts /\ attempt \in Int
    BY TargetAssumption DEF TypeInv
  <2>3. ASSUME NEW f \in Own(target) PROVE f.retryable
    <3>1. f.attempt \in {g.attempt : g \in Own(target)}
      OBVIOUS
    <3>2. f.attempt \in 1..attempt
      BY <2>1, <3>1 DEF RetryInv, Disciplined, AttemptsCounted, TypeInv
    <3>3. CASE f.attempt = attempt
      <4> DEFINE last == [target |-> target, attempt |-> attempt, retryable |-> TRUE]
      <4>1. f = last
        BY <2>1, <3>3 DEF RetryInv, AttemptsCounted, Own
      <4> QED
        BY <4>1
    <3>4. CASE f.attempt < attempt
      BY <2>1, <3>4 DEF RetryInv, AttemptsCounted
    <3> QED
      BY <2>2, <3>2, <3>3, <3>4
  <2>4. AttemptsCounted'
    BY <2>1, <2>2, <2>3 DEF RetryInv, AttemptsCounted, Own
  <2> QED
    BY <2>1, <2>4, RetryFrame DEF RetryInv, NothingAhead, Own, Refreshing
<1>7. CASE GiveUp
  <2>1. pc \in Refreshing /\ Advance /\ UNCHANGED <<failures, snapshots>>
    BY <1>7 DEF GiveUp, Refreshing
  <2>2. \A i \in TargetIndex : Disciplined(i)'
    BY <2>1, RetryFrame DEF RetryInv
  <2> QED
    BY <2>1, <2>2, NextTarget
<1>8. CASE BeginSave \/ EndSave \/ Finish \/ RunRejects \/ Restart
  <2>1. /\ pc' \notin Refreshing
        /\ UNCHANGED <<target, attempt, failures, snapshots>>
    BY <1>8 DEF BeginSave, EndSave, Finish, RunRejects, Restart, Refreshing
  <2> QED
    BY <2>1, RetryFrame DEF RetryInv, AttemptsCounted, NothingAhead, Own, Refreshing
<1>9. ChainGrows \/ Query => UNCHANGED <<pc, target, attempt, failures, snapshots>>
  BY DEF ChainGrows, Query
<1>10. UNCHANGED reconcilerVars => UNCHANGED <<pc, target, attempt, failures, snapshots>>
  BY DEF reconcilerVars
<1> QED
  BY <1>1, <1>2, <1>3, <1>4, <1>5, <1>6, <1>7, <1>8, <1>9, <1>10
     DEF ReconcilerNext, Progress

(* The failures of a run are in order, always.                            *)
LEMMA RetryHolds == ReconcilerSpec => []RetryInv
<1>1. ReconcilerInit => RetryInv
  <2> SUFFICES ASSUME ReconcilerInit PROVE RetryInv
    OBVIOUS
  <2>1. failures = {} /\ pc = "idle" /\ \A i \in TargetIndex : snapshots[i] = None
    BY DEF ReconcilerInit, NoSnapshots
  <2>2. \A i \in TargetIndex : Own(i) = {}
    BY <2>1 DEF Own
  <2> QED
    BY <2>1, <2>2, FS_EmptySet DEF RetryInv, Disciplined, AttemptsCounted, NothingAhead,
       Refreshing
<1>2. TypeInv /\ ListingInv /\ RetryInv /\ [ReconcilerNext]_reconcilerVars => RetryInv'
  BY RetryStep
<1> QED
  BY <1>1, <1>2, TypesHold, PTL DEF ReconcilerSpec

-----------------------------------------------------------------------------
(* The registry, its snapshots and its checkpoint hold nothing that is not *)
(* attested (registry.ts, persistence.ts).                                 *)
THEOREM IndexStaysSound == ReconcilerSpec => []IndexSound
<1>1. CatchUpInv => IndexSound
  BY DEF CatchUpInv
<1> QED
  BY <1>1, CatchUpHolds, PTL

(* A snapshot has everything its issuer had attested before the run, at    *)
(* whatever await the contract grew (refreshIssuer).                       *)
THEOREM SnapshotsComplete == ReconcilerSpec => []SnapshotsCatchUp
<1>1. CatchUpInv => SnapshotsCatchUp
  BY DEF CatchUpInv
<1> QED
  BY <1>1, CatchUpHolds, PTL

(* A run that runOnce reports as succeeded has caught up, in memory and on *)
(* disk, on every issuer whose first entry in targets is required, however *)
(* often issuers repeat.                                                   *)
THEOREM SuccessIsCaughtUp == ReconcilerSpec => []SuccessMeansCaughtUp
<1>1. CatchUpInv => SuccessMeansCaughtUp
  BY DEF CatchUpInv
<1> QED
  BY <1>1, CatchUpHolds, PTL

(* refreshWithRetry counts its attempts without gaps, stops at the first   *)
(* error that is not retryable, and never exceeds maxAttempts.             *)
THEOREM RetriesDisciplined == ReconcilerSpec => []RetryDiscipline
<1>1. RetryInv => RetryDiscipline
  BY DEF RetryInv, Disciplined, RetryDiscipline, Own
<1> QED
  BY <1>1, RetryHolds, PTL

-----------------------------------------------------------------------------
(* The client's reads, call by call with their retries.                    *)
(* A call is open only while something is to be read, and what it was      *)
(* answered is about that: a record that was read is still there.          *)
CallInv ==
    /\ phase \in {"sent", "answered"} => Reading
    /\ Answered("periods") => pc = "listing"
    /\ Answered("record") => pc = "fetching" /\ <<1, Issuer, Min(todo)>> \in lines
    /\ Answered("null") => pc = "fetching"

(* A read is open only while a refresh lists or fetches.                  *)
LEMMA ReadingProcess == Reading => pc \in {"listing", "fetching"}
BY DEF Reading

(* With no call open nothing has been read ahead. *)
LEMMA NothingOpen ==
    ASSUME Idle
    PROVE  ~Listed' /\ ~Missed' /\ CallInv'
BY DEF Idle, Listed, Missed, Answered, CallInv

(* A call that is not answered maps to no step of the reconciler.         *)
LEMMA NotAnswered ==
    ASSUME phase # "answered"
    PROVE  ~Listed /\ ~Missed
BY DEF Listed, Missed, Answered

(* Steps of the process between two reads are its steps in Reconciler. *)
LEMMA BetweenReadsStep ==
    ASSUME CallInv, BetweenReads, Idle
    PROVE  Atomic!ReconcilerNext
<1>1. ~Listed /\ ~Missed
  <2>1. pc # "listing" /\ ~(pc = "fetching" /\ todo # {})
    BY DEF BetweenReads, BeginLoop, CompleteRefresh, Retry, GiveUp, BeginSave, EndSave, Finish,
       RunRejects
  <2> QED
    BY <2>1, NotAnswered DEF CallInv, Reading
<1>2. ~Listed' /\ ~Missed'
  BY NothingOpen
<1> USE <1>1, <1>2
<1>3. CASE CompleteRefresh
  <2>1. Atomic!CompleteRefresh
    BY <1>3 DEF CompleteRefresh, Atomic!CompleteRefresh, Advance, Atomic!Advance, chainVars,
       Atomic!chainVars, RecordsOf, Atomic!RecordsOf, Issuer, Atomic!Issuer
  <2> QED
    BY <2>1 DEF Atomic!ReconcilerNext, Atomic!Progress
<1>4. CASE Retry
  <2>1. Atomic!Retry
    BY <1>4 DEF Retry, Atomic!Retry, Retries, Atomic!Retries, chainVars, Atomic!chainVars
  <2> QED
    BY <2>1 DEF Atomic!ReconcilerNext, Atomic!Progress
<1>5. CASE GiveUp
  <2>1. Atomic!GiveUp
    BY <1>5 DEF GiveUp, Atomic!GiveUp, Retries, Atomic!Retries, Advance, Atomic!Advance,
       chainVars, Atomic!chainVars
  <2> QED
    BY <2>1 DEF Atomic!ReconcilerNext, Atomic!Progress
<1>6. CASE BeginSave
  <2>1. Atomic!BeginSave
    BY <1>6 DEF BeginSave, Atomic!BeginSave, chainVars, Atomic!chainVars, runVars,
       Atomic!runVars, Snapshotted, Atomic!Snapshotted, TargetIndex, Atomic!TargetIndex
  <2> QED
    BY <2>1 DEF Atomic!ReconcilerNext, Atomic!Progress
<1>7. CASE EndSave
  <2>1. Atomic!EndSave
    BY <1>7 DEF EndSave, Atomic!EndSave, chainVars, Atomic!chainVars, runVars,
       Atomic!runVars, SnapshotRecords, Atomic!SnapshotRecords, Snapshotted,
       Atomic!Snapshotted, TargetIndex, Atomic!TargetIndex
  <2> QED
    BY <2>1 DEF Atomic!ReconcilerNext, Atomic!Progress
<1>8. CASE Finish
  <2>1. Atomic!Finish
    BY <1>8 DEF Finish, Atomic!Finish, chainVars, Atomic!chainVars, RequiredFailures,
       Atomic!RequiredFailures, IssuerRequired, Atomic!IssuerRequired, TargetIndex,
       Atomic!TargetIndex
  <2> QED
    BY <2>1 DEF Atomic!ReconcilerNext, Atomic!Progress
<1>9. CASE RunRejects
  <2>1. Atomic!RunRejects
    BY <1>9 DEF RunRejects, Atomic!RunRejects, chainVars, Atomic!chainVars, Snapshotted,
       Atomic!Snapshotted, TargetIndex, Atomic!TargetIndex
  <2> QED
    BY <2>1 DEF Atomic!ReconcilerNext, Atomic!Progress
<1>10. CASE BeginLoop
  <2>1. Atomic!BeginLoop
    BY <1>10 DEF BeginLoop, Atomic!BeginLoop, chainVars, Atomic!chainVars, runVars,
       Atomic!runVars
  <2> QED
    BY <2>1 DEF Atomic!ReconcilerNext, Atomic!Progress
<1> QED
  BY <1>10, <1>3, <1>4, <1>5, <1>6, <1>7, <1>8, <1>9 DEF BetweenReads

(* A refresh that fails at an answer fails in Reconciler too, unless the   *)
(* failure was taken there when the missing record was read.               *)
LEMMA FailureStep ==
    ASSUME CallInv, Reading, ~Listed, ~Missed, Idle, NEW retryable \in BOOLEAN,
           Fail(retryable), UNCHANGED store
    PROVE  Atomic!ReconcilerNext
<1>1. ~Listed' /\ ~Missed' /\ pc \in {"listing", "fetching"}
  BY NothingOpen, ReadingProcess
<1>2. Atomic!Fail(retryable)
  BY <1>1 DEF Fail, Atomic!Fail, chainVars, Atomic!chainVars
<1>3. Atomic!RefreshThrows
  BY <1>1, <1>2 DEF Atomic!RefreshThrows
<1> QED
  BY <1>3 DEF Atomic!ReconcilerNext, Atomic!Progress

(* Where Reconciler lists and fetches: a list and a missing record when    *)
(* they are served, a record when it arrives.                              *)
LEMMA CallStep ==
    ASSUME CallInv, Call \/ Serve \/ Receive \/ AuditThrows
    PROVE  (Atomic!ReconcilerNext \/ UNCHANGED Atomic!reconcilerVars) /\ CallInv'
<1> USE DEF reconcilerVars, processVars, runVars, chainVars, Atomic!reconcilerVars,
            Atomic!processVars, Atomic!runVars, Atomic!chainVars
<1>1. CASE Call
  <2>1. ~Listed /\ ~Missed /\ ~Listed' /\ ~Missed'
    BY <1>1 DEF Call, Listed, Missed, Answered
  <2>2. CallInv'
    BY <1>1 DEF Call, CallInv, Answered, Reading
  <2> QED
    BY <1>1, <2>1, <2>2 DEF Call
<1>2. CASE Serve
  <2>1. ~Listed /\ ~Missed /\ Reading /\ Reading'
    BY <1>2 DEF Serve, Listed, Missed, Answered, CallInv, Reading
  <2>2. /\ UNCHANGED reconcilerVars /\ phase' = "answered"
        /\ answer' \in {ChainAnswer, [kind |-> "garbled"], [kind |-> "transient"],
                        [kind |-> "permanent"]}
    BY <1>2 DEF Serve, Answers
  <2>3. CASE pc = "listing" /\ answer' = ChainAnswer
    <3>1. answer'.kind = "periods" /\ answer'.periods = ListedPeriods(Issuer)
      BY <2>3 DEF ChainAnswer
    <3>2. Listed' /\ ~Missed'
      BY <2>2, <3>1 DEF Listed, Missed, Answered
    <3>3. CallInv'
      BY <2>1, <2>2, <2>3, <3>1 DEF CallInv, Answered
    <3>4. Atomic!List
      BY <2>1, <2>2, <2>3, <3>1, <3>2 DEF Atomic!List, Atomic!ListedPeriods, ListedPeriods,
         Atomic!Issuer, Issuer
    <3> QED
      BY <3>3, <3>4 DEF Atomic!ReconcilerNext, Atomic!Progress
  <2>4. CASE pc # "listing" /\ answer' = ChainAnswer /\ <<1, Issuer, Min(todo)>> \in lines
    <3>1. answer'.kind = "record"
      BY <2>4 DEF ChainAnswer
    <3>2. ~Listed' /\ ~Missed'
      BY <3>1 DEF Listed, Missed, Answered
    <3>3. CallInv'
      BY <2>1, <2>2, <2>4, <3>1 DEF CallInv, Answered, Reading, Issuer
    <3> QED
      BY <2>1, <2>2, <3>2, <3>3
  <2>5. CASE pc # "listing" /\ answer' = ChainAnswer /\ <<1, Issuer, Min(todo)>> \notin lines
    <3>1. answer'.kind = "null"
      BY <2>5 DEF ChainAnswer
    <3>2. ~Listed' /\ Missed'
      BY <2>2, <3>1 DEF Listed, Missed, Answered
    <3>3. pc = "fetching" /\ todo # {}
      BY <2>1, <2>5 DEF Reading
    <3>4. CallInv'
      BY <2>1, <2>2, <3>1, <3>3 DEF CallInv, Answered
    <3>5. Atomic!Fail(FALSE)
      BY <2>1, <2>2, <3>2, <3>3, Zenon DEF Atomic!Fail
    <3>6. Atomic!FetchMissing
      BY <2>1, <2>2, <2>5, <3>2, <3>3, <3>5 DEF Atomic!FetchMissing, Atomic!Issuer, Issuer,
         Atomic!Min, Min
    <3> QED
      BY <3>4, <3>6 DEF Atomic!ReconcilerNext, Atomic!Progress
  <2>6. CASE answer' \in {[kind |-> "garbled"], [kind |-> "transient"], [kind |-> "permanent"]}
    <3>1. answer'.kind \in {"garbled", "transient", "permanent"}
      BY <2>6
    <3>2. ~Listed' /\ ~Missed' /\ CallInv'
      BY <2>1, <3>1 DEF Listed, Missed, Answered, CallInv
    <3> QED
      BY <2>1, <2>2, <3>2
  <2> QED
    BY <2>2, <2>3, <2>4, <2>5, <2>6
<1>3. CASE ReceivePeriods
  <2>1. Listed /\ ~Missed /\ ~Listed' /\ ~Missed' /\ CallInv'
    BY <1>3, NothingOpen DEF ReceivePeriods, Listed, Missed, Answered
  <2> QED
    BY <1>3, <2>1 DEF ReceivePeriods
<1>4. CASE ReceiveRecord
  <2>1. ~Listed /\ ~Missed /\ ~Listed' /\ ~Missed' /\ CallInv'
    BY <1>4, NothingOpen DEF ReceiveRecord, Listed, Missed, Answered
  <2>2. pc = "fetching" /\ todo # {} /\ <<1, Issuer, Min(todo)>> \in lines
    BY <1>4 DEF ReceiveRecord, CallInv, Answered, Reading
  <2>3. Atomic!Fetch
    BY <1>4, <2>1, <2>2 DEF ReceiveRecord, Atomic!Fetch, Atomic!Issuer, Issuer, Atomic!Min,
       Min
  <2> QED
    BY <2>1, <2>3 DEF Atomic!ReconcilerNext, Atomic!Progress
<1>5. CASE ReceiveUnusable
  <2>1. Fail(FALSE) /\ Idle /\ UNCHANGED store /\ Reading /\ FALSE \in BOOLEAN
    BY <1>5, Zenon DEF ReceiveUnusable, CallInv, Answered
  <2>2. ~Listed' /\ ~Missed' /\ CallInv' /\ ~Listed
    BY <1>5, <2>1, NothingOpen DEF ReceiveUnusable, Listed, Answered
  <2>3. CASE Missed
    BY <2>1, <2>2, <2>3 DEF Fail
  <2>4. CASE ~Missed
    BY <2>1, <2>2, <2>4, FailureStep
  <2> QED
    BY <2>3, <2>4
<1>6. CASE ReceiveTransient
  <2>1. ~Listed /\ ~Missed /\ ~Listed' /\ ~Missed'
    BY <1>6 DEF ReceiveTransient, Listed, Missed, Answered
  <2>2. CallInv'
    BY <1>6 DEF ReceiveTransient, CallInv, Answered
  <2> QED
    BY <1>6, <2>1, <2>2 DEF ReceiveTransient
<1>7. CASE ReceiveError
  <2>1. Fail(TRUE) /\ Idle /\ UNCHANGED store /\ Reading /\ TRUE \in BOOLEAN
    BY <1>7 DEF ReceiveError, CallInv, Answered
  <2>2. ~Listed /\ ~Missed
    BY <1>7 DEF ReceiveError, Listed, Missed, Answered
  <2> QED
    BY <2>1, <2>2, FailureStep, NothingOpen
<1>8. CASE AuditThrows
  <2>1. ~Listed /\ ~Missed /\ Idle /\ RefreshThrows
    BY <1>8, NotAnswered DEF AuditThrows
  <2>2. ~Listed' /\ ~Missed' /\ CallInv'
    BY <2>1, NothingOpen
  <2>3. Atomic!RefreshThrows
    BY <2>1, <2>2 DEF RefreshThrows, Atomic!RefreshThrows, Fail, Atomic!Fail
  <2> QED
    BY <2>2, <2>3 DEF Atomic!ReconcilerNext, Atomic!Progress
<1> QED
  BY <1>1, <1>2, <1>3, <1>4, <1>5, <1>6, <1>7, <1>8 DEF Receive

(* The contract, the service and the process's lives and deaths go on as   *)
(* in Reconciler, also around an open call.                                *)
LEMMA EnvironmentStep ==
    ASSUME CallInv,
           \/ ReadStart
           \/ (ChainGrows \/ Query) /\ UNCHANGED <<callVars, calls>>
           \/ (Crash \/ Restart) /\ Idle
    PROVE  Atomic!ReconcilerNext /\ CallInv'
<1> USE DEF reconcilerVars, processVars, runVars, chainVars, callVars,
            Atomic!reconcilerVars, Atomic!processVars, Atomic!runVars, Atomic!chainVars
<1>1. CASE ReadStart
  <2>1. ~Listed /\ ~Missed
    BY <1>1, NotAnswered DEF ReadStart, StartRun, CallInv, Reading, Listed, Missed, Answered
  <2>2. ~Listed' /\ ~Missed' /\ CallInv'
    BY <1>1, NothingOpen DEF ReadStart
  <2>3. Atomic!StartRun
    BY <1>1, <2>1, <2>2 DEF ReadStart, StartRun, Atomic!StartRun, NoSnapshots,
       Atomic!NoSnapshots, TargetIndex, Atomic!TargetIndex
  <2> QED
    BY <2>2, <2>3 DEF Atomic!ReconcilerNext
<1>2. CASE ChainGrows /\ UNCHANGED <<callVars, calls>>
  <2>1. Next /\ lines \subseteq lines' /\ UNCHANGED <<processVars, callVars>>
    BY <1>2 DEF ChainGrows, Next, Attest
  <2>2. Listed' = Listed /\ Missed' = Missed /\ CallInv'
    BY <2>1 DEF Listed, Missed, Answered, CallInv, Reading, Issuer
  <2>3. Atomic!Next
    BY <2>1 DEF Next, Attest, Atomic!Next, Atomic!Attest
  <2>4. Atomic!ChainGrows
    <3>1. UNCHANGED Atomic!processVars
      BY <2>1, <2>2
    <3>2. Cardinality(lines) < MaxLines
      BY <1>2 DEF ChainGrows
    <3> QED
      BY <2>3, <3>1, <3>2 DEF Atomic!ChainGrows, Cardinality, Atomic!Cardinality
  <2> QED
    BY <2>2, <2>4 DEF Atomic!ReconcilerNext
<1>3. CASE Query /\ UNCHANGED <<callVars, calls>>
  <2>1. Listed' = Listed /\ Missed' = Missed /\ CallInv'
    BY <1>3 DEF Query, Listed, Missed, Answered, CallInv, Reading, Issuer
  <2>2. Atomic!Query
    BY <1>3, <2>1 DEF Query, Atomic!Query
  <2> QED
    BY <2>1, <2>2 DEF Atomic!ReconcilerNext
<1>4. CASE Crash /\ Idle
  <2>1. ~Listed' /\ ~Missed' /\ CallInv'
    BY <1>4, NothingOpen
  <2>2. Atomic!Crash
    BY <1>4, <2>1 DEF Crash, Atomic!Crash, NoSnapshots, Atomic!NoSnapshots, TargetIndex,
       Atomic!TargetIndex
  <2> QED
    BY <2>1, <2>2 DEF Atomic!ReconcilerNext
<1>5. CASE Restart /\ Idle
  <2>1. ~Listed' /\ ~Missed' /\ CallInv'
    BY <1>5, NothingOpen
  <2>2. ~Listed /\ ~Missed
    BY <1>5, NotAnswered DEF Restart, CallInv, Reading
  <2>3. Atomic!Restart
    BY <1>5, <2>1, <2>2 DEF Restart, Atomic!Restart
  <2> QED
    BY <2>1, <2>3 DEF Atomic!ReconcilerNext
<1> QED
  BY <1>1, <1>2, <1>3, <1>4, <1>5

(* Every step of the read path maps to a step of the reconciler, or none. *)
LEMMA ReadStep ==
    ASSUME CallInv, [ReadNext]_readVars
    PROVE  [Atomic!ReconcilerNext]_Atomic!reconcilerVars /\ CallInv'
<1>1. CASE ReadProgress
  <2>1. CASE BetweenReads /\ Idle
    BY <2>1, BetweenReadsStep, NothingOpen
  <2>2. CASE Call \/ Serve \/ Receive \/ AuditThrows
    BY <2>2, CallStep
  <2> QED
    BY <1>1, <2>1, <2>2 DEF ReadProgress
<1>2. CASE UNCHANGED readVars
  <2>1. UNCHANGED <<reconcilerVars, callVars>>
    BY <1>2 DEF readVars
  <2>2. CallInv'
    BY <2>1 DEF CallInv, Answered, Reading, Issuer, reconcilerVars, processVars, runVars,
       chainVars, callVars
  <2>3. UNCHANGED Atomic!reconcilerVars
    BY <2>1 DEF Atomic!reconcilerVars, Atomic!processVars, Atomic!runVars, Atomic!chainVars,
       reconcilerVars, processVars, runVars, chainVars, callVars, Listed, Missed, Answered
  <2> QED
    BY <2>2, <2>3
<1> QED
  BY <1>1, <1>2, EnvironmentStep DEF ReadNext

(* Retried calls, late and garbled answers: refreshIssuer over             *)
(* BindingSorobanTransport does what Reconciler says of one step per read. *)
THEOREM ReadsRefine == ReadSpec => ImplementsReconciler
<1>1. ReadInit => CallInv /\ Atomic!ReconcilerInit
  <2> SUFFICES ASSUME ReadInit PROVE CallInv /\ Atomic!ReconcilerInit
    OBVIOUS
  <2>1. ~Listed /\ ~Missed /\ CallInv
    BY DEF ReadInit, Listed, Missed, Answered, CallInv
  <2>2. Atomic!ReconcilerInit
    BY <2>1 DEF ReadInit, ReconcilerInit, Atomic!ReconcilerInit, Init, Atomic!Init,
       NoSnapshots, Atomic!NoSnapshots, TargetIndex, Atomic!TargetIndex
  <2> QED
    BY <2>1, <2>2
<1>2. CallInv /\ [ReadNext]_readVars
         => CallInv' /\ [Atomic!ReconcilerNext]_Atomic!reconcilerVars
  BY ReadStep
<1> QED
  BY <1>1, <1>2, PTL DEF ReadSpec, ImplementsReconciler, Atomic!ReconcilerSpec

-----------------------------------------------------------------------------
(* The reads of one attempt are the list and one for each listed period,   *)
(* and each takes at most MaxCalls calls.                                  *)
Reads == 1 + Cardinality(Period)
Earlier == (attempt - 1) * (MaxCalls * Reads)
OwnCalls == IF phase = "ready" THEN tries - 1 ELSE tries

CountInv ==
    /\ periods \in [Address -> Seq(Period)]
    /\ target \in TargetIndex /\ todo \subseteq Period
    /\ attempt \in 1..MaxAttempts /\ tries \in 1..MaxCalls /\ calls \in Nat
    /\ phase \in {"ready", "sent", "answered"}
    /\ Answered("periods") => pc = "listing" /\ answer.periods \subseteq Period
    /\ Answered("record") => pc = "fetching"
    /\ ~Reading => phase = "ready" /\ tries = 1

SpentInv ==
    /\ pc \in {"starting", "listing"} => calls <= Earlier + OwnCalls
    /\ pc = "fetching" => calls <= Earlier + MaxCalls * (Reads - Cardinality(todo)) + OwnCalls
    /\ pc = "failed" => calls <= Earlier + MaxCalls * Reads
    /\ pc \notin Refreshing => calls <= Budget

BudgetInv == CountInv /\ SpentInv

(* The least of a set of naturals is one of them. *)
LEMMA LeastOf ==
    ASSUME NEW T \in SUBSET Nat, T # {}
    PROVE  Min(T) \in T
BY LeastNatural DEF Min

(* The limits are natural numbers, and so is the budget they make.        *)
LEMMA Counts ==
    /\ MaxCalls \in Nat /\ MaxCalls >= 1 /\ MaxAttempts \in Nat /\ Period \subseteq Nat
    /\ Cardinality(Period) \in Nat /\ Reads \in Nat /\ Reads >= 1
    /\ MaxCalls * Reads \in Nat /\ Budget = MaxAttempts * (MaxCalls * Reads)
<1>1. /\ MaxCalls \in Nat /\ MaxCalls >= 1 /\ MaxAttempts \in Nat /\ Period \subseteq Nat
      /\ IsFiniteSet(Period)
  BY CallAssumption, TargetAssumption
<1>2. Cardinality(Period) \in Nat
  BY <1>1, FS_CardinalityType
<1>3. Reads \in Nat /\ Reads >= 1
  BY <1>2 DEF Reads
<1>4. \A a, b, c \in Nat : (a * b) * c = a * (b * c)
  OBVIOUS
<1>5. Budget = (MaxAttempts * MaxCalls) * Reads
  BY DEF Budget, Reads
<1>6. MaxCalls * Reads \in Nat
  BY <1>1, <1>3
<1> QED
  BY <1>1, <1>2, <1>3, <1>4, <1>5, <1>6

(* A set of periods is finite and no larger than all of them.             *)
LEMMA Listing ==
    ASSUME NEW S \in SUBSET Period
    PROVE  IsFiniteSet(S) /\ Cardinality(S) \in Nat /\ Cardinality(S) <= Cardinality(Period)
BY CallAssumption, FS_Subset, FS_CardinalityType

(* Up to this attempt, and so all told. *)
LEMMA EarlierAndNow ==
    ASSUME CountInv
    PROVE  /\ Earlier \in Nat /\ OwnCalls \in Nat /\ OwnCalls <= MaxCalls
           /\ Earlier + MaxCalls * Reads <= Budget
<1> DEFINE round == MaxCalls * Reads
<1>1. round \in Nat /\ Budget = MaxAttempts * round /\ MaxAttempts \in Nat
  BY Counts
<1>2. attempt \in Nat /\ attempt >= 1 /\ attempt <= MaxAttempts
  BY Counts DEF CountInv
<1>3. OwnCalls \in Nat /\ OwnCalls <= MaxCalls
  BY Counts DEF CountInv, OwnCalls
<1> HIDE DEF round
<1>4. Earlier = (attempt - 1) * round
  BY DEF Earlier, round
<1>5. (attempt - 1) * round \in Nat /\ (MaxAttempts - attempt) * round \in Nat
  BY <1>1, <1>2
<1>6. MaxAttempts * round = (attempt - 1) * round + round + (MaxAttempts - attempt) * round
  BY <1>1, <1>2
<1>7. Earlier \in Nat /\ Earlier + round <= Budget
  <2>1. \A a, b, c \in Nat : a + b <= a + b + c
    OBVIOUS
  <2> QED
    BY <1>1, <1>4, <1>5, <1>6, <2>1
<1> QED
  BY <1>3, <1>7 DEF round

(* What is read so far of an attempt leaves room for what it still reads.  *)
LEMMA RoomLeft ==
    ASSUME NEW n \in Nat, NEW m \in Nat, n < m
    PROVE  /\ MaxCalls * n \in Nat /\ MaxCalls * m \in Nat
           /\ MaxCalls * n + MaxCalls <= MaxCalls * m
<1>1. MaxCalls \in Nat
  BY Counts
<1>2. m = n + 1 + (m - n - 1) /\ m - n - 1 \in Nat
  OBVIOUS
<1>3. \A a, b, c \in Nat : a * (b + 1 + c) = a * b + a + a * c /\ a * c \in Nat /\ a * b \in Nat
  OBVIOUS
<1>4. /\ MaxCalls * m = MaxCalls * n + MaxCalls + MaxCalls * (m - n - 1)
      /\ MaxCalls * (m - n - 1) \in Nat /\ MaxCalls * n \in Nat
  BY <1>1, <1>2, <1>3
<1> QED
  BY <1>1, <1>4

(* Wherever the process is, the calls are within the budget. *)
LEMMA Spent ==
    ASSUME BudgetInv
    PROVE  /\ pc \in Refreshing => calls <= Earlier + MaxCalls * Reads
           /\ calls <= Budget
<1>0. /\ Earlier \in Nat /\ OwnCalls \in Nat /\ OwnCalls <= MaxCalls /\ calls \in Nat
      /\ Earlier + MaxCalls * Reads <= Budget /\ MaxCalls * Reads \in Nat
      /\ Reads \in Nat /\ Reads >= 1 /\ MaxCalls \in Nat /\ Budget \in Nat
  BY EarlierAndNow, Counts DEF BudgetInv, CountInv
<1>1. CASE pc \in {"starting", "listing"}
  <2>1. calls <= Earlier + OwnCalls
    BY <1>1 DEF BudgetInv, SpentInv
  <2>2. MaxCalls * 0 + MaxCalls <= MaxCalls * Reads /\ MaxCalls * 0 = 0
    BY <1>0, RoomLeft
  <2> QED
    BY <1>0, <2>1, <2>2
<1>2. CASE pc = "fetching"
  <2> DEFINE n == Reads - Cardinality(todo)
  <2>1. Cardinality(todo) \in Nat /\ Cardinality(todo) <= Cardinality(Period)
    BY Listing DEF BudgetInv, CountInv
  <2>2. n \in Nat /\ n <= Reads
    BY <2>1, Counts DEF Reads
  <2>3. calls <= Earlier + MaxCalls * n + OwnCalls
    BY <1>2 DEF BudgetInv, SpentInv
  <2>4. CASE todo = {}
    <3>1. n = Reads /\ OwnCalls = 0
      BY <1>0, <1>2, <2>4, FS_EmptySet DEF BudgetInv, CountInv, Reading, OwnCalls
    <3> QED
      BY <1>0, <2>3, <3>1
  <2>5. CASE todo # {}
    <3>1. Cardinality(todo) # 0
      BY <2>5, Listing, FS_EmptySet DEF BudgetInv, CountInv
    <3>2. n < Reads
      BY <1>0, <2>1, <3>1
    <3> HIDE DEF n
    <3>3. MaxCalls * n + MaxCalls <= MaxCalls * Reads /\ MaxCalls * n \in Nat
      BY <1>0, <2>2, <3>2, RoomLeft
    <3> QED
      BY <1>0, <2>3, <3>3
  <2> QED
    BY <2>4, <2>5
<1>3. CASE pc = "failed"
  BY <1>0, <1>3 DEF BudgetInv, SpentInv
<1>4. CASE pc \notin Refreshing
  BY <1>4 DEF BudgetInv, SpentInv
<1> QED
  BY <1>0, <1>1, <1>2, <1>3, <1>4 DEF Refreshing

-----------------------------------------------------------------------------
(* What is listed are periods. *)
LEMMA PeriodsListed ==
    ASSUME CountInv
    PROVE  ListedPeriods(Issuer) \subseteq Period
<1>1. target \in 1..Len(Targets) /\ Targets \in Seq([issuer : Address, required : BOOLEAN])
  BY TargetAssumption DEF CountInv, TargetIndex
<1>2. Targets[target] \in [issuer : Address, required : BOOLEAN]
  BY <1>1, ElementOfSeq
<1>3. periods[Issuer] \in Seq(Period)
  BY <1>2 DEF CountInv, Issuer
<1> QED
  BY <1>3, ElementOfSeq DEF ListedPeriods

(* A call counts one; nothing else that goes on during a read does. *)
LEMMA CallCounts ==
    ASSUME BudgetInv, Call
    PROVE  BudgetInv'
<1>0. /\ Earlier \in Nat /\ OwnCalls \in Nat /\ calls \in Nat /\ Reads \in Nat /\ tries \in Nat
  BY EarlierAndNow, Counts DEF BudgetInv, CountInv
<1>1. /\ Reading /\ phase = "ready" /\ phase' = "sent"
      /\ UNCHANGED <<periods, target, todo, attempt, pc, tries, answer>>
      /\ calls' \in {calls, calls + 1}
  BY DEF Call, reconcilerVars, chainVars, processVars, runVars
<1>2. Reading' /\ Earlier' = Earlier /\ OwnCalls' = OwnCalls + 1 /\ Issuer' = Issuer
  BY <1>0, <1>1 DEF Reading, Earlier, OwnCalls, Reads, Issuer
<1>3. CountInv'
  BY <1>0, <1>1, <1>2 DEF BudgetInv, CountInv, Answered
<1>4. SpentInv'
  <2>1. pc \in {"listing", "fetching"}
    BY <1>1 DEF Reading
  <2>2. calls' <= calls + 1 /\ calls' \in Nat
    BY <1>0, <1>1
  <2>3. CASE pc = "listing"
    BY <1>0, <1>1, <1>2, <2>2, <2>3 DEF BudgetInv, SpentInv, Refreshing
  <2>4. CASE pc = "fetching"
    <3> DEFINE done == MaxCalls * (Reads - Cardinality(todo))
    <3>1. Cardinality(todo) \in Nat
      BY Listing DEF BudgetInv, CountInv
    <3>2. done \in Int
      BY <1>0, <3>1, Counts
    <3>3. calls <= Earlier + done + OwnCalls
      BY <2>4 DEF BudgetInv, SpentInv
    <3> HIDE DEF done
    <3>4. calls' <= Earlier' + done + OwnCalls'
      BY <1>0, <1>2, <2>2, <3>2, <3>3
    <3>5. done = MaxCalls * (Reads - Cardinality(todo'))
      BY <1>1 DEF done
    <3> QED
      BY <1>1, <2>4, <3>4, <3>5 DEF SpentInv, Refreshing, Reads
  <2> QED
    BY <2>1, <2>3, <2>4
<1> QED
  BY <1>3, <1>4 DEF BudgetInv

(* An answer of the network spends no call.                               *)
LEMMA ServeCounts ==
    ASSUME BudgetInv, Serve
    PROVE  BudgetInv'
<1>1. /\ phase = "sent" /\ phase' = "answered" /\ answer' \in Answers
      /\ UNCHANGED <<periods, target, todo, attempt, pc, tries, calls>>
  BY DEF Serve, reconcilerVars, chainVars, processVars, runVars
<1>2. Reading /\ pc \in {"listing", "fetching"}
  BY <1>1 DEF BudgetInv, CountInv, Reading
<1>3. Reading' /\ Earlier' = Earlier /\ OwnCalls' = OwnCalls
  BY <1>1, <1>2 DEF Reading, Earlier, OwnCalls, Reads
<1>4. /\ answer'.kind = "periods" => pc = "listing" /\ answer'.periods \subseteq Period
      /\ answer'.kind = "record" => pc = "fetching"
  <2>1. CASE answer' = ChainAnswer /\ pc = "listing"
    BY <2>1, PeriodsListed DEF ChainAnswer, BudgetInv
  <2>2. CASE answer' = ChainAnswer /\ pc # "listing"
    BY <1>2, <2>2 DEF ChainAnswer
  <2>3. CASE answer' \in {[kind |-> "garbled"], [kind |-> "transient"], [kind |-> "permanent"]}
    BY <2>3
  <2> QED
    BY <1>1, <2>1, <2>2, <2>3 DEF Answers
<1>5. CountInv'
  BY <1>1, <1>3, <1>4 DEF BudgetInv, CountInv, Answered
<1>6. SpentInv'
  BY <1>1, <1>3 DEF BudgetInv, SpentInv, Refreshing, Reads, Budget
<1> QED
  BY <1>5, <1>6 DEF BudgetInv

(* A step that closes the call and settles what the next read starts from. *)
LEMMA Closes ==
    ASSUME CountInv, Idle, periods' \in [Address -> Seq(Period)],
           target' \in TargetIndex, attempt' \in 1..MaxAttempts, todo' \subseteq Period,
           calls' \in Nat
    PROVE  CountInv' /\ OwnCalls' = 0 /\ Earlier' = (attempt' - 1) * (MaxCalls * Reads)
<1>1. 1 \in 1..MaxCalls
  BY Counts
<1> QED
  BY <1>1 DEF CountInv, Idle, OwnCalls, Earlier, Answered, Nothing, Reads, Reading

(* An answer received ends its read, or is followed by another try.       *)
LEMMA ReceiveCounts ==
    ASSUME BudgetInv, Receive
    PROVE  BudgetInv'
<1>0. /\ Earlier \in Nat /\ OwnCalls \in Nat /\ OwnCalls <= MaxCalls /\ calls \in Nat
      /\ Reads \in Nat /\ MaxCalls \in Nat /\ MaxCalls * Reads \in Nat
      /\ attempt \in 1..MaxAttempts /\ tries \in 1..MaxCalls
      /\ target \in TargetIndex /\ todo \subseteq Period
      /\ periods \in [Address -> Seq(Period)]
  BY EarlierAndNow, Counts DEF BudgetInv, CountInv
<1>00. phase = "answered" /\ Reading /\ pc \in {"listing", "fetching"}
  BY DEF Receive, ReceivePeriods, ReceiveRecord, ReceiveUnusable, ReceiveTransient,
     ReceiveError, Answered, BudgetInv, CountInv, Reading
<1>1. CASE ReceivePeriods
  <2>1. /\ pc = "listing" /\ pc' = "fetching" /\ todo' = answer.periods
        /\ answer.periods \subseteq Period /\ Idle
        /\ UNCHANGED <<periods, target, attempt, calls>>
    BY <1>1 DEF ReceivePeriods, BudgetInv, CountInv, chainVars
  <2>2. CountInv' /\ OwnCalls' = 0 /\ Earlier' = Earlier
    BY <1>0, <2>1, Closes DEF BudgetInv, Earlier
  <2> DEFINE n == Reads - Cardinality(todo')
  <2>3. n \in Nat /\ 0 < n
    <3>1. Cardinality(todo') \in Nat /\ Cardinality(todo') <= Cardinality(Period)
      BY <2>1, Listing
    <3> QED
      BY <3>1, Counts DEF Reads
  <2> HIDE DEF n
  <2>4. MaxCalls * 0 + MaxCalls <= MaxCalls * n /\ MaxCalls * n \in Nat /\ MaxCalls * 0 = 0
    BY <1>0, <2>3, RoomLeft
  <2>5. calls' <= Earlier' + MaxCalls * n + OwnCalls'
    BY <1>0, <2>1, <2>2, <2>4 DEF BudgetInv, SpentInv
  <2>6. SpentInv'
    BY <2>1, <2>5 DEF SpentInv, Refreshing, n, Reads
  <2> QED
    BY <2>2, <2>6 DEF BudgetInv
<1>2. CASE ReceiveRecord
  <2>1. /\ pc = "fetching" /\ pc' = "fetching" /\ todo' = todo \ {Min(todo)} /\ Idle
        /\ UNCHANGED <<periods, target, attempt, calls>>
    BY <1>2 DEF ReceiveRecord, BudgetInv, CountInv, chainVars
  <2>2. CountInv' /\ OwnCalls' = 0 /\ Earlier' = Earlier
    BY <1>0, <2>1, Closes DEF BudgetInv, Earlier
  <2> DEFINE n == Reads - Cardinality(todo)
             m == Reads - Cardinality(todo')
  <2>3. n \in Nat /\ m \in Nat /\ n < m
    <3>1. Min(todo) \in todo
      BY <1>0, <1>00, <2>1, Counts, LeastOf DEF Reading
    <3>2. IsFiniteSet(todo) /\ Cardinality(todo) \in Nat
          /\ Cardinality(todo) <= Cardinality(Period)
      BY <1>0, Listing
    <3>3. Cardinality(todo') = Cardinality(todo) - 1
      BY <2>1, <3>1, <3>2, FS_RemoveElement
    <3> QED
      BY <3>2, <3>3, Counts DEF Reads
  <2>4. calls <= Earlier + MaxCalls * n + OwnCalls
    BY <2>1 DEF BudgetInv, SpentInv
  <2> HIDE DEF n, m
  <2>5. MaxCalls * n + MaxCalls <= MaxCalls * m /\ MaxCalls * n \in Nat /\ MaxCalls * m \in Nat
    BY <2>3, RoomLeft
  <2>6. calls' <= Earlier' + MaxCalls * m + OwnCalls'
    BY <1>0, <2>1, <2>2, <2>4, <2>5
  <2>7. SpentInv'
    BY <2>1, <2>6 DEF SpentInv, Refreshing, m, Reads
  <2> QED
    BY <2>2, <2>7 DEF BudgetInv
<1>3. CASE ReceiveUnusable \/ ReceiveError
  <2>1. /\ pc' = "failed" /\ Idle /\ UNCHANGED <<periods, target, attempt, todo, calls>>
    BY <1>3 DEF ReceiveUnusable, ReceiveError, Fail, chainVars
  <2>2. CountInv' /\ Earlier' = Earlier
    BY <1>0, <2>1, Closes DEF BudgetInv, Earlier
  <2>3. calls' <= Earlier' + MaxCalls * Reads
    BY <1>00, <2>1, <2>2, Spent DEF Refreshing
  <2> QED
    BY <2>1, <2>2, <2>3 DEF BudgetInv, SpentInv, Refreshing, Reads
<1>4. CASE ReceiveTransient
  <2>1. /\ phase' = "ready" /\ tries' = tries + 1 /\ answer' = Nothing /\ tries < MaxCalls
        /\ UNCHANGED <<periods, target, todo, attempt, pc, calls>>
    BY <1>0, <1>4 DEF ReceiveTransient, NextTry, LastTry, reconcilerVars, chainVars,
       processVars, runVars
  <2>2. Reading' /\ Earlier' = Earlier /\ OwnCalls' = OwnCalls
    BY <1>0, <1>00, <2>1 DEF Reading, Earlier, OwnCalls, Reads
  <2>3. CountInv'
    BY <1>0, <2>1, <2>2 DEF BudgetInv, CountInv, Answered, Nothing
  <2>4. SpentInv'
    BY <2>1, <2>2 DEF BudgetInv, SpentInv, Refreshing, Reads, Budget
  <2> QED
    BY <2>3, <2>4 DEF BudgetInv
<1> QED
  BY <1>1, <1>2, <1>3, <1>4 DEF Receive

(* An audit sink that throws spends no call.                              *)
LEMMA AuditCounts ==
    ASSUME BudgetInv, AuditThrows
    PROVE  BudgetInv'
<1>1. /\ pc \in {"listing", "fetching"} /\ pc' = "failed" /\ Idle
      /\ UNCHANGED <<periods, target, attempt, todo, calls>>
  BY DEF AuditThrows, RefreshThrows, Fail, chainVars
<1>2. CountInv' /\ Earlier' = Earlier
  BY <1>1, Closes DEF BudgetInv, CountInv, Earlier
<1>3. calls' <= Earlier' + MaxCalls * Reads
  BY <1>1, <1>2, Spent DEF Refreshing
<1> QED
  BY <1>1, <1>2, <1>3 DEF BudgetInv, SpentInv, Refreshing, Reads

(* The first attempt at a target, before its first read, and a process     *)
(* that is not refreshing.                                                 *)
LEMMA Fresh ==
    ASSUME BudgetInv, Idle, periods' \in [Address -> Seq(Period)],
           target' \in TargetIndex, attempt' = 1, todo' = {}, calls' \in Nat,
           \/ pc' \in {"starting", "listing"} /\ calls' = 0
           \/ pc' \notin Refreshing /\ calls' <= Budget
    PROVE  BudgetInv'
<1>1. 1 \in 1..MaxAttempts
  BY Counts, TargetAssumption
<1>2. CountInv' /\ OwnCalls' = 0 /\ Earlier' = (attempt' - 1) * (MaxCalls * Reads)
  BY <1>1, Closes DEF BudgetInv
<1>3. Earlier' = 0
  <2>1. \A n \in Nat : (1 - 1) * n = 0
    OBVIOUS
  <2> QED
    BY <1>2, <2>1, Counts
<1>4. SpentInv'
  BY <1>2, <1>3 DEF SpentInv, Refreshing, Budget
<1> QED
  BY <1>2, <1>4 DEF BudgetInv

(* A step between reads spends no call, and a next target starts a count anew. *)
LEMMA BetweenCounts ==
    ASSUME BudgetInv, BetweenReads, Idle, calls' = IF target' # target THEN 0 ELSE calls
    PROVE  BudgetInv'
<1>0. /\ calls \in Nat /\ calls <= Budget /\ attempt \in 1..MaxAttempts
      /\ target \in TargetIndex /\ todo \subseteq Period
      /\ periods \in [Address -> Seq(Period)] /\ MaxAttempts \in Nat
  BY Spent, Counts DEF BudgetInv, CountInv
<1>1. CASE CompleteRefresh \/ GiveUp
  <2>1. Advance /\ UNCHANGED periods
    BY <1>1 DEF CompleteRefresh, GiveUp, chainVars
  <2>2. target \in 1..Len(Targets) /\ Len(Targets) \in Nat /\ TargetIndex = 1..Len(Targets)
    BY <1>0, TargetAssumption DEF TargetIndex
  <2>3. CASE target < Len(Targets)
    <3>1. pc' = "listing" /\ target' = target + 1 /\ target' \in TargetIndex /\ calls' = 0
      BY <2>1, <2>2, <2>3 DEF Advance
    <3> QED
      BY <1>0, <2>1, <3>1, Fresh DEF Advance
  <2>4. CASE ~(target < Len(Targets))
    <3>1. pc' = "saving" /\ target' = target /\ calls' = calls
      BY <2>1, <2>4 DEF Advance
    <3> QED
      BY <1>0, <2>1, <3>1, Fresh DEF Advance, Refreshing
  <2> QED
    BY <2>3, <2>4
<1>2. CASE Retry
  <2>1. /\ pc = "failed" /\ pc' = "listing" /\ todo' = {} /\ attempt' = attempt + 1
        /\ attempt < MaxAttempts /\ UNCHANGED <<periods, target>>
    BY <1>2 DEF Retry, Retries, chainVars
  <2>2. attempt' \in 1..MaxAttempts /\ attempt \in Nat
    BY <1>0, <2>1
  <2>3. CountInv' /\ OwnCalls' = 0 /\ Earlier' = (attempt' - 1) * (MaxCalls * Reads)
    BY <1>0, <2>1, <2>2, Closes DEF BudgetInv
  <2>4. Earlier' = Earlier + MaxCalls * Reads
    <3>1. \A n, k \in Nat : k >= 1 => ((k + 1) - 1) * n = (k - 1) * n + n
      OBVIOUS
    <3>2. attempt >= 1
      BY <1>0
    <3> QED
      BY <2>1, <2>2, <2>3, <3>1, <3>2, Counts DEF Earlier
  <2>5. calls' <= Earlier' + OwnCalls'
    <3>1. calls <= Earlier + MaxCalls * Reads
      BY <2>1 DEF BudgetInv, SpentInv
    <3>2. Earlier \in Nat /\ MaxCalls * Reads \in Nat
      BY EarlierAndNow, Counts DEF BudgetInv
    <3> QED
      BY <1>0, <2>1, <2>3, <2>4, <3>1, <3>2
  <2> QED
    BY <2>1, <2>3, <2>5 DEF BudgetInv, SpentInv, Refreshing
<1>3. CASE BeginSave \/ EndSave \/ Finish \/ RunRejects
  <2>1. /\ pc' \notin Refreshing /\ UNCHANGED <<periods, target, attempt, todo>>
        /\ calls' = calls
    BY <1>3 DEF BeginSave, EndSave, Finish, RunRejects, Refreshing, chainVars, runVars
  <2>2. CountInv'
    BY <1>0, <2>1, Closes DEF BudgetInv
  <2> QED
    BY <1>0, <2>1, <2>2 DEF BudgetInv, SpentInv, Refreshing, Budget
<1>4. CASE BeginLoop
  <2>1. /\ pc = "starting" /\ pc' = "listing"
        /\ UNCHANGED <<periods, target, attempt, todo>> /\ calls' = calls
    BY <1>4 DEF BeginLoop, chainVars, runVars
  <2>2. OwnCalls = 0 /\ Earlier \in Nat
    BY <2>1, EarlierAndNow DEF BudgetInv, CountInv, Reading, OwnCalls
  <2>3. CountInv' /\ OwnCalls' = 0 /\ Earlier' = Earlier
    BY <1>0, <2>1, Closes DEF BudgetInv, Earlier
  <2> QED
    BY <2>1, <2>2, <2>3 DEF BudgetInv, SpentInv, Refreshing
<1> QED
  BY <1>1, <1>2, <1>3, <1>4 DEF BetweenReads

(* A run that begins, a crash, a restart and the chain spend no call.     *)
LEMMA EnvironmentCounts ==
    ASSUME BudgetInv,
           \/ ReadStart
           \/ (ChainGrows \/ Query) /\ UNCHANGED <<callVars, calls>>
           \/ (Crash \/ Restart) /\ Idle /\ calls' = 0
           \/ UNCHANGED readVars
    PROVE  BudgetInv'
<1>0. /\ periods \in [Address -> Seq(Period)] /\ target \in TargetIndex
      /\ attempt \in 1..MaxAttempts /\ todo \subseteq Period
      /\ 1 \in TargetIndex /\ 0 \in Nat /\ Budget \in Nat
  <2>1. Len(Targets) \in Nat /\ Len(Targets) # 0
    BY TargetAssumption, EmptySeq
  <2>2. 1 \in TargetIndex
    BY <2>1, TargetAssumption DEF TargetIndex
  <2>3. Budget \in Nat
    BY Counts
  <2> QED
    BY <2>2, <2>3 DEF BudgetInv, CountInv
<1>1. CASE ReadStart
  BY <1>0, <1>1, Fresh DEF ReadStart, StartRun, chainVars
<1>2. CASE Crash /\ Idle /\ calls' = 0
  BY <1>0, <1>2, Fresh DEF Crash, chainVars, Refreshing
<1>3. CASE Restart /\ Idle /\ calls' = 0
  <2>1. pc' = "idle" /\ UNCHANGED <<periods, target, attempt, todo>>
    BY <1>3 DEF Restart, chainVars, runVars
  <2>2. CountInv'
    BY <1>0, <1>3, <2>1, Closes DEF BudgetInv
  <2> QED
    BY <1>0, <1>3, <2>1, <2>2 DEF BudgetInv, SpentInv, Refreshing, Budget
<1>4. ASSUME periods' \in [Address -> Seq(Period)],
             UNCHANGED <<pc, target, attempt, todo, callVars, calls>>
      PROVE  BudgetInv'
  BY <1>4 DEF BudgetInv, CountInv, SpentInv, callVars, Answered, Reading, Earlier, OwnCalls,
     Reads, Refreshing, Budget
<1>5. CASE ChainGrows /\ UNCHANGED <<callVars, calls>>
  <2>1. PICK v \in Version, issuer \in Address, p \in Period : Attest(v, issuer, p)
    BY <1>5 DEF ChainGrows, Next
  <2>2. periods' \in [Address -> Seq(Period)]
    BY <1>0, <2>1 DEF Attest
  <2> QED
    BY <1>4, <1>5, <2>2 DEF ChainGrows, processVars, runVars
<1>6. CASE Query /\ UNCHANGED <<callVars, calls>>
  BY <1>0, <1>4, <1>6 DEF Query, chainVars, runVars
<1>7. CASE UNCHANGED readVars
  BY <1>0, <1>4, <1>7 DEF readVars, reconcilerVars, chainVars, processVars, runVars
<1> QED
  BY <1>1, <1>2, <1>3, <1>5, <1>6, <1>7

(* However the calls of a refresh fail, and however late they are          *)
(* answered, there are no more than the product of the limits of the two   *)
(* loops (transport.ts withRetry, reconciler.ts refreshWithRetry).         *)
THEOREM CallsBounded == ReadSpec => []CallBudget
<1>1. ReadInit => BudgetInv
  <2> SUFFICES ASSUME ReadInit PROVE BudgetInv
    OBVIOUS
  <2>1. /\ periods = [issuer \in Address |-> << >>] /\ pc = "idle" /\ target = 1
        /\ attempt = 1 /\ todo = {} /\ phase = "ready" /\ tries = 1 /\ answer = Nothing
        /\ calls = 0
    BY DEF ReadInit, ReconcilerInit, Init
  <2>2. /\ 1 \in TargetIndex /\ 1 \in 1..MaxAttempts /\ 1 \in 1..MaxCalls /\ Budget \in Nat
    <3>1. Len(Targets) \in Nat /\ Len(Targets) # 0
      BY TargetAssumption, EmptySeq
    <3>2. 1 \in TargetIndex
      BY <3>1, TargetAssumption DEF TargetIndex
    <3> QED
      BY <3>2, Counts, TargetAssumption
  <2> QED
    BY <2>1, <2>2 DEF BudgetInv, CountInv, SpentInv, Answered, Nothing, Reading, Refreshing
<1>2. BudgetInv /\ [ReadNext]_readVars => BudgetInv'
  BY CallCounts, ServeCounts, ReceiveCounts, AuditCounts, BetweenCounts, EnvironmentCounts
     DEF ReadNext, ReadProgress
<1>3. BudgetInv => CallBudget
  BY Spent DEF CallBudget
<1> QED
  BY <1>1, <1>2, <1>3, PTL DEF ReadSpec
================================================================================
