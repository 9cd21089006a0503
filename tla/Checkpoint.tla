------------------------------ MODULE Checkpoint ------------------------------
(***************************************************************************)
(* The checkpoint file of the client (persistence.ts) shared by several    *)
(* processes, each with a registry (registry.ts) over the store that       *)
(* createStore gave it.  Reconciler follows one process through its runs;  *)
(* here the file is written step by step, by saves that may overlap, fail  *)
(* half-way or lose their process.                                         *)
(*                                                                         *)
(* A record is [issuer, period, deployment].  The file is a sequence of    *)
(* cells: "[", a cell for each record, "]".  Cells differ in their length  *)
(* in bytes, and nothing marks the place where a write was cut short.      *)
(***************************************************************************)
EXTENDS Naturals, Sequences, FiniteSets, SequencesExt

CONSTANTS
    Process, Issuer, Period,
    Deployment,   \* the contracts that a client can be configured for
    None,
    MaxSaves, MaxCrashes   \* bounds on the saves that begin and the processes that die

ASSUME CheckpointAssumption == MaxSaves \in Nat /\ MaxCrashes \in Nat

VARIABLES
    deployment,  \* of each process: its client's deployment, None when it is not running
    store,       \* of each process: the records of its AttestationStore
    save,        \* of each process: the save in flight, or None
    content,     \* the file: None when there is none
    overlaid,    \* history: its last write was cut short on top of another save's
    bodies,      \* history: the record lists that a save began with
    settled,     \* history: the list of the last save, if it resolved undisturbed
    crashes      \* counter for MaxCrashes

checkpointVars == <<deployment, store, save, content, overlaid, bodies, settled, crashes>>

Record == [issuer : Issuer, period : Period, deployment : Deployment]
Running == {p \in Process : deployment[p] # None}
InFlight == {p \in Process : save[p] # None}

-----------------------------------------------------------------------------
(* The encoded checkpoint, and writeFile's write at position 0.            *)
Encode(records) == << <<"[">> >> \o [j \in DOMAIN records |-> <<"record", records[j]>>]
                                 \o << <<"]">> >>

(* Bytes that are no cell. *)
Garbled == <<"garbled">>

Cell == {<<"[">>, <<"]">>, Garbled} \cup ({"record"} \X Record)

(* The absent deployment, file and list are no deployments, files, lists.  *)
ASSUME AbsenceAssumption ==
    /\ None \notin Deployment
    /\ None \notin Seq(Cell)

(* Written over the file, cells may be more or less bytes than those they  *)
(* cover, and leave any tail of them.                                      *)
Overlays(cells) == {cells \o rest : rest \in Suffixes(content)}

Whole ==
    /\ Len(content) > 1
    /\ content[1] = <<"[">> /\ content[Len(content)] = <<"]">>
    /\ \A j \in 2..(Len(content) - 1) : content[j][1] = "record"

Decoded == [j \in 1..(Len(content) - 2) |-> content[j + 1][2]]

(* Fault: any failure counts as a missing file. *)
LoadsNothing ==
    IF content = None THEN [ok |-> TRUE, records |-> << >>]
    ELSE IF Whole THEN [ok |-> TRUE, records |-> Decoded]
    ELSE [ok |-> TRUE, records |-> << >>]

(* FileCheckpointRepository.load: only ENOENT loads as no records.         *)
Load ==
    IF content = None THEN [ok |-> TRUE, records |-> << >>]
    ELSE IF Whole THEN [ok |-> TRUE, records |-> Decoded]
    ELSE [ok |-> FALSE, records |-> << >>]

-----------------------------------------------------------------------------
CheckpointInit ==
    /\ deployment = [p \in Process |-> None]
    /\ store = [p \in Process |-> {}]
    /\ save = [p \in Process |-> None]
    /\ content = None /\ overlaid = FALSE
    /\ bodies = {} /\ settled = None /\ crashes = 0

(* createStore: the records are put in the store as they are.  When load   *)
(* throws there is no store, and the process does not start.               *)
Start(p, d) ==
    /\ deployment[p] = None
    /\ Load.ok
    /\ deployment' = [deployment EXCEPT ![p] = d]
    /\ store' = [store EXCEPT ![p] = ToSet(Load.records)]
    /\ UNCHANGED <<save, content, overlaid, bodies, settled, crashes>>

(* InMemoryAttestationStore.put: one record for an issuer and a period.    *)
Put(records, r) ==
    {q \in records : <<q.issuer, q.period>> # <<r.issuer, r.period>>} \cup {r}

(* refreshIssuer, get and put (which validates) all index a record of the  *)
(* client's own deployment, over the one under its key.                    *)
Index(p, issuer, period) ==
    /\ deployment[p] # None
    /\ store' = [store EXCEPT ![p] = Put(@,
          [issuer |-> issuer, period |-> period, deployment |-> deployment[p]])]
    /\ UNCHANGED <<deployment, save, content, overlaid, bodies, settled, crashes>>

Clear(p, issuer) ==
    /\ deployment[p] # None
    /\ store' = [store EXCEPT ![p] = {r \in @ : r.issuer # issuer}]
    /\ UNCHANGED <<deployment, save, content, overlaid, bodies, settled, crashes>>

(* saveRecords of the snapshots of some issuers, save of one's.            *)
BeginSave(p, issuers) ==
    /\ deployment[p] # None /\ save[p] = None
    /\ Cardinality(bodies) < MaxSaves
    /\ LET records == SetToSeq({r \in store[p] : r.issuer \in issuers})
       IN  /\ save' = [q \in Process |->
                 IF q = p THEN [stage |-> "encoded", records |-> records, alone |-> InFlight = {}]
                 ELSE IF save[q] = None THEN None ELSE [save[q] EXCEPT !.alone = FALSE]]
           /\ bodies' = bodies \cup {records}
    /\ settled' = None
    /\ UNCHANGED <<deployment, store, content, overlaid, crashes>>

AtStage(p, stage) == save[p] # None /\ save[p].stage = stage

(* Fault: the file is not truncated when it is opened. *)
Untruncated == IF content = None THEN << >> ELSE content

(* open(path, "w") *)
Truncated == << >>

OpenFile(p) ==
    /\ AtStage(p, "encoded")
    /\ content' = Truncated /\ overlaid' = FALSE
    /\ save' = [save EXCEPT ![p].stage = "opened"]
    /\ UNCHANGED <<deployment, store, bodies, settled, crashes>>

WriteBody(p) ==
    /\ AtStage(p, "opened")
    /\ content' \in Overlays(Encode(save[p].records)) /\ overlaid' = FALSE
    /\ save' = [save EXCEPT ![p].stage = "written"]
    /\ UNCHANGED <<deployment, store, bodies, settled, crashes>>

EndSave(p) ==
    /\ AtStage(p, "written")
    /\ settled' = IF save[p].alone THEN <<save[p].records>> ELSE settled
    /\ save' = [save EXCEPT ![p] = None]
    /\ UNCHANGED <<deployment, store, content, overlaid, bodies, crashes>>

(* Where a write stops, its bytes go on in those of a cell underneath.     *)
Torn(own, under) ==
    {Garbled, own, under} \cup
    IF own[1] = "record" /\ under[1] = "record" THEN {"record"} \X Record ELSE {}

(* A write that stops after some bytes, or none.  What another save wrote  *)
(* follows, so that the whole may parse although no save ever wrote it.    *)
CutShort(p) ==
    \/ UNCHANGED <<content, overlaid>>
    \/ /\ AtStage(p, "opened")
       /\ LET cells == Encode(save[p].records)
          IN  \E n \in 0..(Len(cells) - 1) :
                 \/ content' = Append(SubSeq(cells, 1, n), Garbled)
                 \/ \E k \in DOMAIN content : \E torn \in Torn(cells[n + 1], content[k]) :
                       content' = Append(SubSeq(cells, 1, n), torn)
                                      \o SubSeq(content, k + 1, Len(content))
       /\ overlaid' = (content # << >>)

(* mkdir, open, write or close rejects, and so does save. *)
SaveFails(p) ==
    /\ save[p] # None
    /\ CutShort(p)
    /\ save' = [save EXCEPT ![p] = None]
    /\ UNCHANGED <<deployment, store, bodies, settled, crashes>>

CheckpointCrash(p) ==
    /\ deployment[p] # None /\ crashes < MaxCrashes
    /\ CutShort(p)
    /\ deployment' = [deployment EXCEPT ![p] = None]
    /\ store' = [store EXCEPT ![p] = {}]
    /\ save' = [save EXCEPT ![p] = None]
    /\ crashes' = crashes + 1
    /\ UNCHANGED <<bodies, settled>>

CheckpointNext ==
    \E p \in Process :
        \/ \E d \in Deployment : Start(p, d)
        \/ \E issuer \in Issuer, period \in Period : Index(p, issuer, period)
        \/ \E issuer \in Issuer : Clear(p, issuer)
        \/ \E issuers \in SUBSET Issuer : BeginSave(p, issuers)
        \/ OpenFile(p) \/ WriteBody(p) \/ EndSave(p) \/ SaveFails(p)
        \/ CheckpointCrash(p)

CheckpointSpec == CheckpointInit /\ [][CheckpointNext]_checkpointVars

-----------------------------------------------------------------------------
(* Whatever load returns was saved as it is, all of it, by one save -- or  *)
(* nothing, when there never was a file -- unless a save that overlapped   *)
(* another died or failed inside its write, and nothing was written since. *)
LoadFaithful ==
    Load.ok /\ ~overlaid =>
        IF content = None THEN Load.records = << >> ELSE Load.records \in bodies

(* Once a save has resolved, and until another begins, a process that      *)
(* starts gets its records, whoever has crashed in between.                *)
SavedSurvives == settled # None => Load.ok /\ <<Load.records>> = settled

(* registry.put refuses a record when it "belongs to a different contract" *)
(* than the client's: a store holds the records of its own deployment.     *)
StoreOfDeployment ==
    \A p \in Running : \A r \in store[p] : r.deployment = deployment[p]

===============================================================================
