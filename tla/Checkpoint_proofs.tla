--------------------------- MODULE Checkpoint_proofs ---------------------------
(***************************************************************************)
(* Theorems about the checkpoint file, for any number of processes,        *)
(* issuers, periods and saves that overlap, fail or lose their process.    *)
(***************************************************************************)
EXTENDS Checkpoint, SequenceTheorems, FiniteSetTheorems, TLAPS

Save == [stage : {"encoded", "opened", "written"}, records : Seq(Record), alone : BOOLEAN]

(* The kinds of cells are told apart by what they start with. *)
LEMMA CellKinds ==
    /\ <<"[">>[1] = "[" /\ <<"]">>[1] = "]" /\ Garbled[1] = "garbled"
    /\ <<"[">> # <<"]">> /\ Garbled # <<"[">> /\ Garbled # <<"]">>
    /\ \A r \in Record : <<"record", r>>[1] = "record"
BY DEF Garbled

(* Two sequences of cells, one after the other. *)
LEMMA Concatenation ==
    ASSUME NEW head \in Seq(Cell), NEW tail \in Seq(Cell)
    PROVE  /\ head \o tail \in Seq(Cell) /\ Len(head \o tail) = Len(head) + Len(tail)
           /\ \A j \in 1..(Len(head) + Len(tail)) : (head \o tail)[j] =
                  IF j <= Len(head) THEN head[j] ELSE tail[j - Len(head)]
BY ConcatProperties

(* The encoding of a list: brackets around a cell for each record. *)
LEMMA Encoding ==
    ASSUME NEW records \in Seq(Record)
    PROVE  /\ Encode(records) \in Seq(Cell)
           /\ Len(Encode(records)) = Len(records) + 2
           /\ Encode(records)[1] = <<"[">>
           /\ \A j \in 1..Len(records) : Encode(records)[j + 1] = <<"record", records[j]>>
           /\ Encode(records)[Len(records) + 2] = <<"]">>
<1> DEFINE open == << <<"[">> >>
           body == [j \in DOMAIN records |-> <<"record", records[j]>>]
           close == << <<"]">> >>
<1>1. /\ open \in Seq(Cell) /\ Len(open) = 1 /\ open[1] = <<"[">>
      /\ close \in Seq(Cell) /\ Len(close) = 1 /\ close[1] = <<"]">>
  BY DEF Cell
<1>2. Len(records) \in Nat /\ DOMAIN records = 1..Len(records)
  OBVIOUS
<1>3. \A j \in 1..Len(records) : <<"record", records[j]>> \in Cell
  BY <1>2, ElementOfSeq DEF Cell
<1>4. /\ body \in Seq(Cell) /\ Len(body) = Len(records)
      /\ \A j \in 1..Len(records) : body[j] = <<"record", records[j]>>
  BY <1>2, <1>3
<1> HIDE DEF open, body, close
<1>5. /\ body \o close \in Seq(Cell) /\ Len(body \o close) = Len(records) + 1
      /\ \A j \in 1..Len(records) : (body \o close)[j] = <<"record", records[j]>>
      /\ (body \o close)[Len(records) + 1] = <<"]">>
  <2>1. /\ body \o close \in Seq(Cell) /\ Len(body \o close) = Len(body) + Len(close)
        /\ \A j \in 1..(Len(body) + Len(close)) : (body \o close)[j] =
               IF j <= Len(body) THEN body[j] ELSE close[j - Len(body)]
    BY <1>1, <1>4, Concatenation, Zenon
  <2>2. Len(body) + Len(close) = Len(records) + 1
    BY <1>1, <1>2, <1>4
  <2>3. \A j \in 1..Len(records) : (body \o close)[j] = body[j]
    BY <1>2, <1>4, <2>1, <2>2
  <2>4. (body \o close)[Len(records) + 1] = close[1]
    BY <1>2, <1>4, <2>1, <2>2
  <2> QED
    BY <1>1, <1>4, <2>1, <2>2, <2>3, <2>4
<1>6. /\ open \o (body \o close) \in Seq(Cell)
      /\ Len(open \o (body \o close)) = Len(records) + 2
      /\ \A j \in 1..(Len(records) + 2) : (open \o (body \o close))[j] =
             IF j <= 1 THEN open[j] ELSE (body \o close)[j - 1]
  <2> DEFINE rest == body \o close
  <2>1. /\ open \in Seq(Cell) /\ Len(open) = 1
        /\ rest \in Seq(Cell) /\ Len(rest) = Len(records) + 1
    BY <1>1, <1>5
  <2> HIDE DEF rest
  <2>2. /\ open \o rest \in Seq(Cell) /\ Len(open \o rest) = Len(open) + Len(rest)
        /\ \A j \in 1..(Len(open) + Len(rest)) : (open \o rest)[j] =
               IF j <= Len(open) THEN open[j] ELSE rest[j - Len(open)]
    BY <2>1, Concatenation, Zenon
  <2>3. Len(open) + Len(rest) = Len(records) + 2
    BY <1>2, <2>1
  <2>4. \A j \in 1..(Len(records) + 2) : (open \o rest)[j] =
               IF j <= 1 THEN open[j] ELSE rest[j - 1]
    BY <2>1, <2>2, <2>3
  <2> QED
    BY <2>2, <2>3, <2>4 DEF rest
<1>7. Encode(records) = open \o (body \o close)
  BY DEF Encode, open, body, close
<1> QED
  BY <1>1, <1>2, <1>5, <1>6, <1>7

(* Any tail of the file is made of cells.                                  *)
LEMMA Tails ==
    ASSUME content \in Seq(Cell), NEW rest \in Suffixes(content)
    PROVE  rest \in Seq(Cell) /\ (content = << >> => rest = << >>)
<1>1. Len(content) \in Nat /\ << >> \in Seq(Cell)
  OBVIOUS
<1>2. \A l \in 1..Len(content) : SubSeq(content, l, Len(content)) \in Seq(Cell)
  <2> TAKE l \in 1..Len(content)
  <2>1. \A i \in l..Len(content) : content[i] \in Cell
    BY <1>1, ElementOfSeq
  <2> QED
    BY <1>1, <2>1, SubSeqProperties
<1>3. content = << >> => 1..Len(content) = {}
  OBVIOUS
<1>4. CASE rest = << >>
  BY <1>1, <1>4
<1>5. CASE \E l \in 1..Len(content) : rest = SubSeq(content, l, Len(content))
  BY <1>2, <1>3, <1>5
<1> QED
  BY <1>4, <1>5 DEF Suffixes

(* writeFile over what is there: it starts with the new cells.             *)
LEMMA Overlaying ==
    ASSUME content \in Seq(Cell), NEW cells \in Seq(Cell), NEW laid \in Overlays(cells)
    PROVE  /\ laid \in Seq(Cell)
           /\ Len(cells) <= Len(laid)
           /\ \A j \in 1..Len(cells) : laid[j] = cells[j]
           /\ content = << >> => laid = cells
<1>1. PICK rest \in Suffixes(content) : laid = cells \o rest
  BY DEF Overlays
<1>2. /\ rest \in Seq(Cell) /\ (content = << >> => rest = << >>)
      /\ Len(cells) \in Nat /\ Len(rest) \in Nat
  BY Tails
<1> QED
  BY <1>1, <1>2, Concatenation, ConcatEmptySeq

-----------------------------------------------------------------------------
(* The file always starts with the whole encoding of a list that a save    *)
(* began with, or is empty, or a write ended in it: on an empty file, and  *)
(* then it does not end as an encoding does, or on another save's cells.   *)
StartsWith(records) ==
    /\ Len(records) + 2 <= Len(content)
    /\ \A j \in 1..(Len(records) + 2) : content[j] = Encode(records)[j]

FileInv ==
    content # None =>
        /\ content \in Seq(Cell)
        /\ \/ content = << >>
           \/ \E records \in bodies : StartsWith(records)
           \/ overlaid
           \/ content[Len(content)] # <<"]">>

(* A file that is exactly one list's encoding loads as that list.          *)
LEMMA DecodesTo ==
    ASSUME content \in Seq(Cell), NEW records \in Seq(Record), StartsWith(records),
           Len(content) = Len(records) + 2
    PROVE  Whole /\ Decoded = records
<1>1. Len(records) \in Nat /\ DOMAIN records = 1..Len(records)
  OBVIOUS
<1>2. /\ content[1] = <<"[">> /\ content[Len(content)] = <<"]">>
      /\ \A j \in 1..Len(records) : content[j + 1] = <<"record", records[j]>>
  BY <1>1, Encoding DEF StartsWith
<1>3. \A j \in 2..(Len(content) - 1) : content[j][1] = "record"
  <2> TAKE j \in 2..(Len(content) - 1)
  <2>1. j - 1 \in 1..Len(records) /\ (j - 1) + 1 = j
    BY <1>1
  <2>2. content[j] = <<"record", records[j - 1]>>
    BY <1>2, <2>1
  <2> QED
    BY <2>2
<1>4. Whole
  BY <1>1, <1>2, <1>3 DEF Whole
<1>5. Decoded = [j \in 1..Len(records) |-> records[j]]
  <2>1. Len(content) - 2 = Len(records)
    BY <1>1
  <2>2. \A j \in 1..Len(records) : content[j + 1][2] = records[j]
    BY <1>2
  <2> QED
    BY <2>1, <2>2 DEF Decoded
<1>6. [j \in 1..Len(records) |-> records[j]] = records
  BY <1>1
<1> QED
  BY <1>4, <1>5, <1>6

(* Whatever decodes is one of the lists, whole: a longer list underneath   *)
(* leaves a bracket inside.                                                *)
LEMMA WholeIsBody ==
    ASSUME bodies \subseteq Seq(Record), FileInv, content # None, ~overlaid, Whole
    PROVE  Decoded \in bodies
<1>0. /\ content \in Seq(Cell) /\ Len(content) \in Nat /\ Len(content) > 1
      /\ content[1] = <<"[">> /\ content[Len(content)] = <<"]">>
      /\ \A j \in 2..(Len(content) - 1) : content[j][1] = "record"
  BY DEF FileInv, Whole
<1>1. CASE content = << >>
  BY <1>0, <1>1
<1>2. CASE \E records \in bodies : StartsWith(records)
  <2>1. PICK records \in bodies : StartsWith(records)
    BY <1>2
  <2>2. records \in Seq(Record) /\ Len(records) \in Nat
    OBVIOUS
  <2>3. content[Len(records) + 2] = <<"]">> /\ Len(records) + 2 <= Len(content)
    BY <2>1, <2>2, Encoding DEF StartsWith
  <2>4. Len(records) + 2 = Len(content)
    <3>1. Len(records) + 2 # Len(content) => Len(records) + 2 \in 2..(Len(content) - 1)
      BY <1>0, <2>2, <2>3
    <3>2. <<"]">>[1] # "record"
      BY CellKinds
    <3> QED
      BY <1>0, <2>3, <3>1, <3>2
  <2> QED
    BY <1>0, <2>1, <2>2, <2>4, DecodesTo
<1>3. CASE content[Len(content)] # <<"]">>
  BY <1>0, <1>3
<1> QED
  BY <1>1, <1>2, <1>3 DEF FileInv

-----------------------------------------------------------------------------
TypeInv ==
    /\ deployment \in [Process -> Deployment \cup {None}]
    /\ store \in [Process -> SUBSET Record]
    /\ \A p \in Process : IsFiniteSet(store[p])
    /\ save \in [Process -> Save \cup {None}]
    /\ \A p \in InFlight :
          /\ save[p].records \in bodies
          /\ save[p].stage # "encoded" => content # None
    /\ bodies \subseteq Seq(Record)

(* A save that nothing disturbs leaves the encoding of its list, and so    *)
(* does the last one that resolved.                                        *)
SettledInv ==
    /\ \A p \in InFlight : save[p].alone =>
          /\ InFlight \subseteq {p}
          /\ save[p].stage = "opened" => content = << >>
          /\ save[p].stage = "written" => content = Encode(save[p].records)
    /\ settled # None =>
          InFlight = {} /\ \E records \in Seq(Record) :
                              settled = <<records>> /\ content = Encode(records)

CheckpointInv == TypeInv /\ FileInv /\ SettledInv

(* What a store is listed as. *)
LEMMA ListOfSet ==
    ASSUME NEW S \in SUBSET Record, IsFiniteSet(S)
    PROVE  SetToSeq(S) \in Seq(Record)
<1>1. Cardinality(S) \in Nat /\ ExistsBijection(1..Cardinality(S), S)
  BY FS_CardinalityType
<1>2. \E f \in [1..Cardinality(S) -> S] : IsInjective(f)
  <2>1. PICK f \in Bijection(1..Cardinality(S), S) : TRUE
    BY <1>1 DEF ExistsBijection
  <2> QED
    BY <2>1 DEF Bijection, Injection, IsInjective
<1>3. SetToSeq(S) \in [1..Cardinality(S) -> S]
  BY <1>2 DEF SetToSeq
<1>4. \A n \in Nat : [1..n -> S] \subseteq Seq(Record)
  OBVIOUS
<1> QED
  BY <1>1, <1>3, <1>4

(* What a process starts with. *)
LEMMA Loaded ==
    ASSUME CheckpointInv, Load.ok
    PROVE  /\ LoadFaithful
           /\ Load.records \in Seq(Record)
           /\ ToSet(Load.records) \in SUBSET Record /\ IsFiniteSet(ToSet(Load.records))
<1>0. content # None => Whole /\ Load.records = Decoded
  BY DEF Load
<1>1. LoadFaithful
  <2>1. content = None => Load.records = << >>
    BY DEF Load
  <2> HIDE DEF Load
  <2>2. content # None /\ ~overlaid => Load.records \in bodies
    BY <1>0, WholeIsBody DEF CheckpointInv, TypeInv
  <2> QED
    BY <2>1, <2>2 DEF LoadFaithful
<1>2. Load.records \in Seq(Record)
  <2>1. CASE content = None
    BY <2>1 DEF Load
  <2>2. CASE content # None
    <3>1. /\ content \in Seq(Cell) /\ Len(content) \in Nat /\ Len(content) > 1
          /\ \A j \in 2..(Len(content) - 1) : content[j][1] = "record"
      BY <1>0, <2>2 DEF CheckpointInv, FileInv, Whole
    <3>2. ASSUME NEW j \in 1..(Len(content) - 2) PROVE content[j + 1][2] \in Record
      <4>1. j + 1 \in 1..Len(content) /\ j + 1 \in 2..(Len(content) - 1)
        BY <3>1
      <4>2. content[j + 1] \in Cell /\ content[j + 1][1] = "record"
        BY <3>1, <4>1, ElementOfSeq
      <4>3. content[j + 1] \in {"record"} \X Record
        BY <4>2, CellKinds DEF Cell
      <4> QED
        BY <4>3
    <3>3. Decoded \in [1..(Len(content) - 2) -> Record] /\ Len(content) - 2 \in Nat
      BY <3>1, <3>2 DEF Decoded
    <3>4. Decoded \in Seq(Record)
      BY <3>3
    <3> QED
      BY <1>0, <2>2, <3>4
  <2> QED
    BY <2>1, <2>2
<1>3. ASSUME NEW s \in Seq(Record) PROVE ToSet(s) \in SUBSET Record /\ IsFiniteSet(ToSet(s))
  <2>1. /\ DOMAIN s = 1..Len(s) /\ Len(s) \in Nat
        /\ s \in [1..Len(s) -> ToSet(s)] /\ \A t \in ToSet(s) : \E j \in 1..Len(s) : s[j] = t
    BY DEF ToSet
  <2>2. s \in Surjection(1..Len(s), ToSet(s))
    BY <2>1 DEF Surjection
  <2>3. IsFiniteSet(1..Len(s))
    BY <2>1, FS_Interval
  <2>4. IsFiniteSet(ToSet(s))
    BY <2>2, <2>3, FS_Surjection
  <2> QED
    BY <2>4, <2>1, ElementOfSeq DEF ToSet
<1> QED
  BY <1>1, <1>2, <1>3

(* A write that is cut short leaves cells.  On an empty file, the last is  *)
(* none of an encoding's.                                                  *)
LEMMA CutStep ==
    ASSUME CheckpointInv, NEW p \in Process, CutShort(p), bodies' = bodies
    PROVE  /\ FileInv'
           /\ ~AtStage(p, "opened") => content' = content
           /\ content' # None \/ content = None
<1>1. CASE UNCHANGED <<content, overlaid>>
  BY <1>1 DEF CheckpointInv, FileInv, StartsWith
<1>2. CASE ~UNCHANGED <<content, overlaid>>
  <2> DEFINE cells == Encode(save[p].records)
  <2>1. /\ AtStage(p, "opened") /\ overlaid' = (content # << >>)
        /\ \E n \in 0..(Len(cells) - 1) :
              \/ content' = Append(SubSeq(cells, 1, n), Garbled)
              \/ \E k \in DOMAIN content : \E torn \in Torn(cells[n + 1], content[k]) :
                    content' = Append(SubSeq(cells, 1, n), torn)
                                   \o SubSeq(content, k + 1, Len(content))
    BY <1>2 DEF CutShort
  <2>2. /\ p \in InFlight /\ save[p].stage = "opened"
        /\ save[p].records \in Seq(Record) /\ content # None
    <3>1. p \in InFlight /\ save[p].stage = "opened"
      BY <2>1 DEF AtStage, InFlight
    <3>2. save[p] \in Save /\ content # None
      BY <3>1 DEF CheckpointInv, TypeInv, InFlight
    <3> QED
      BY <3>1, <3>2 DEF Save
  <2>3. content \in Seq(Cell) /\ cells \in Seq(Cell)
    BY <2>2, Encoding DEF CheckpointInv, FileInv
  <2> HIDE DEF cells
  <2>4. PICK n \in 0..(Len(cells) - 1) :
              \/ content' = Append(SubSeq(cells, 1, n), Garbled)
              \/ \E k \in DOMAIN content : \E torn \in Torn(cells[n + 1], content[k]) :
                    content' = Append(SubSeq(cells, 1, n), torn)
                                   \o SubSeq(content, k + 1, Len(content))
    BY <2>1
  <2> DEFINE head == SubSeq(cells, 1, n)
  <2>5. /\ n \in Nat /\ n + 1 \in 1..Len(cells) /\ cells[n + 1] \in Cell
        /\ head \in Seq(Cell) /\ Len(head) = n
    <3>1. n \in Nat /\ n + 1 \in 1..Len(cells) /\ Len(cells) \in Nat
      BY <2>3
    <3>2. cells[n + 1] \in Cell /\ \A i \in 1..n : cells[i] \in Cell
      BY <2>3, <3>1, ElementOfSeq
    <3> QED
      BY <3>1, <3>2, SubSeqProperties
  <2> HIDE DEF head
  <2>6. None \notin Seq(Cell)
    BY AbsenceAssumption
  <2>7. CASE content' = Append(head, Garbled)
    <3>1. /\ content' \in Seq(Cell) /\ Len(content') = n + 1
          /\ content'[n + 1] = Garbled
      <4>1. Garbled \in Cell
        BY DEF Cell
      <4> QED
        BY <2>5, <2>7, <4>1, AppendProperties
    <3>2. content'[Len(content')] # <<"]">>
      BY <3>1, CellKinds
    <3> QED
      BY <2>1, <2>6, <3>1, <3>2 DEF FileInv
  <2>8. CASE \E k \in DOMAIN content : \E torn \in Torn(cells[n + 1], content[k]) :
                content' = Append(head, torn) \o SubSeq(content, k + 1, Len(content))
    <3>0. PICK k \in DOMAIN content : \E torn \in Torn(cells[n + 1], content[k]) :
             content' = Append(head, torn) \o SubSeq(content, k + 1, Len(content))
      BY <2>8
    <3>1. PICK torn \in Torn(cells[n + 1], content[k]) :
             content' = Append(head, torn) \o SubSeq(content, k + 1, Len(content))
      BY <3>0
    <3>2. k \in 1..Len(content) /\ content[k] \in Cell /\ Len(content) \in Nat
      BY <2>3, ElementOfSeq
    <3>3. torn \in Cell
      BY <2>5, <3>2 DEF Torn, Cell
    <3>4. Append(head, torn) \in Seq(Cell)
      BY <2>5, <3>3, AppendProperties
    <3>5. SubSeq(content, k + 1, Len(content)) \in Seq(Cell)
      <4>1. \A i \in (k + 1)..Len(content) : content[i] \in Cell
        BY <2>3, <3>2, ElementOfSeq
      <4> QED
        BY <3>2, <4>1, SubSeqProperties
    <3>6. content' \in Seq(Cell)
      BY <3>1, <3>4, <3>5, Concatenation
    <3>7. overlaid'
      <4>1. content # << >>
        BY <3>2
      <4> QED
        BY <2>1, <4>1, Zenon
    <3> QED
      BY <2>1, <2>6, <3>6, <3>7 DEF FileInv
  <2> QED
    BY <2>4, <2>7, <2>8 DEF head
<1> QED
  BY <1>1, <1>2

(* While the content stays as it is, what is known of it stays true.      *)
LEMMA FileKept ==
    ASSUME FileInv, UNCHANGED <<content, overlaid>>, bodies \subseteq bodies'
    PROVE  FileInv'
BY DEF FileInv, StartsWith

-----------------------------------------------------------------------------
(* Nothing is on disk and no save runs at first.                          *)
LEMMA InitInv == CheckpointInit => CheckpointInv
<1> SUFFICES ASSUME CheckpointInit PROVE CheckpointInv
  OBVIOUS
<1>1. \A p \in Process : IsFiniteSet(store[p])
  BY FS_EmptySet DEF CheckpointInit
<1>2. InFlight = {}
  BY DEF CheckpointInit, InFlight
<1>3. TypeInv
  BY <1>1, <1>2 DEF CheckpointInit, TypeInv
<1>4. FileInv /\ SettledInv
  BY <1>2 DEF CheckpointInit, FileInv, SettledInv
<1> QED
  BY <1>3, <1>4 DEF CheckpointInv

(* Steps of a process that leave the file and the saves alone: createStore,*)
(* and what puts records in the store or takes them out.                   *)
LEMMA StoreStep ==
    ASSUME CheckpointInv, NEW p \in Process, NEW records \in SUBSET Record,
           IsFiniteSet(records), store' = [store EXCEPT ![p] = records],
           deployment' \in [Process -> Deployment \cup {None}],
           UNCHANGED <<save, content, overlaid, bodies, settled>>
    PROVE  CheckpointInv'
<1>1. store' \in [Process -> SUBSET Record] /\ \A q \in Process : IsFiniteSet(store'[q])
  BY DEF CheckpointInv, TypeInv
<1>2. InFlight' = InFlight
  BY DEF InFlight
<1>3. TypeInv'
  BY <1>1, <1>2 DEF CheckpointInv, TypeInv
<1>4. FileInv'
  BY FileKept DEF CheckpointInv
<1>5. SettledInv'
  BY <1>2 DEF CheckpointInv, SettledInv
<1> QED
  BY <1>3, <1>4, <1>5 DEF CheckpointInv

(* A save that begins supersedes the one that was undisturbed.            *)
LEMMA StartStep ==
    ASSUME CheckpointInv, NEW p \in Process, NEW d \in Deployment, Start(p, d)
    PROVE  CheckpointInv'
<1>1. /\ Load.ok /\ store' = [store EXCEPT ![p] = ToSet(Load.records)]
      /\ UNCHANGED <<save, content, overlaid, bodies, settled>>
      /\ deployment' = [deployment EXCEPT ![p] = d]
  BY DEF Start
<1>2. deployment' \in [Process -> Deployment \cup {None}]
  BY <1>1 DEF CheckpointInv, TypeInv
<1>3. ToSet(Load.records) \in SUBSET Record /\ IsFiniteSet(ToSet(Load.records))
  BY <1>1, Loaded
<1> HIDE DEF Load
<1> QED
  BY <1>1, <1>2, <1>3, StoreStep

(* Indexing a period changes the memory of one process only.              *)
LEMMA IndexStep ==
    ASSUME CheckpointInv, NEW p \in Process, NEW issuer \in Issuer, NEW period \in Period,
           Index(p, issuer, period)
    PROVE  CheckpointInv'
<1> DEFINE r == [issuer |-> issuer, period |-> period, deployment |-> deployment[p]]
           others == {q \in store[p] : <<q.issuer, q.period>> # <<r.issuer, r.period>>}
<1>1. /\ deployment[p] # None /\ deployment' = deployment
      /\ store' = [store EXCEPT ![p] = Put(store[p], r)]
      /\ UNCHANGED <<save, content, overlaid, bodies, settled>>
  BY DEF Index
<1>2. r \in Record
  BY <1>1 DEF CheckpointInv, TypeInv, Record
<1>3. others \in SUBSET store[p] /\ store[p] \in SUBSET Record /\ IsFiniteSet(store[p])
  BY DEF CheckpointInv, TypeInv
<1>4. Put(store[p], r) = others \cup {r}
  BY DEF Put
<1> HIDE DEF others, r
<1>5. IsFiniteSet(others)
  BY <1>3, FS_Subset
<1>6. IsFiniteSet(others \cup {r}) /\ others \cup {r} \in SUBSET Record
  BY <1>2, <1>3, <1>5, FS_AddElement
<1>7. deployment' \in [Process -> Deployment \cup {None}]
  BY <1>1 DEF CheckpointInv, TypeInv
<1> QED
  BY <1>1, <1>4, <1>6, <1>7, StoreStep

(* Clearing an issuer's index changes the memory of one process only.     *)
LEMMA ClearStep ==
    ASSUME CheckpointInv, NEW p \in Process, NEW issuer \in Issuer, Clear(p, issuer)
    PROVE  CheckpointInv'
<1> DEFINE others == {r \in store[p] : r.issuer # issuer}
<1>1. /\ deployment' = deployment /\ store' = [store EXCEPT ![p] = others]
      /\ UNCHANGED <<save, content, overlaid, bodies, settled>>
  BY DEF Clear
<1>2. others \in SUBSET store[p] /\ store[p] \in SUBSET Record /\ IsFiniteSet(store[p])
  BY DEF CheckpointInv, TypeInv
<1> HIDE DEF others
<1>3. IsFiniteSet(others) /\ others \in SUBSET Record
  BY <1>2, FS_Subset
<1>4. deployment' \in [Process -> Deployment \cup {None}]
  BY <1>1 DEF CheckpointInv, TypeInv
<1> QED
  BY <1>1, <1>3, <1>4, StoreStep

-----------------------------------------------------------------------------
(* The steps of a save. *)
LEMMA BeginSaveStep ==
    ASSUME CheckpointInv, NEW p \in Process, NEW issuers \in SUBSET Issuer,
           BeginSave(p, issuers)
    PROVE  CheckpointInv'
<1> DEFINE picked == {r \in store[p] : r.issuer \in issuers}
           records == SetToSeq(picked)
<1>1. /\ save[p] = None
      /\ save' = [q \in Process |->
            IF q = p THEN [stage |-> "encoded", records |-> records, alone |-> InFlight = {}]
            ELSE IF save[q] = None THEN None ELSE [save[q] EXCEPT !.alone = FALSE]]
      /\ bodies' = bodies \cup {records}
      /\ settled' = None /\ UNCHANGED <<deployment, store, content, overlaid>>
  BY DEF BeginSave
<1>2. records \in Seq(Record)
  <2>1. picked \in SUBSET store[p] /\ store[p] \in SUBSET Record /\ IsFiniteSet(store[p])
    BY DEF CheckpointInv, TypeInv
  <2> HIDE DEF picked
  <2>2. picked \in SUBSET Record /\ IsFiniteSet(picked)
    BY <2>1, FS_Subset
  <2> QED
    BY <2>2, ListOfSet
<1> HIDE DEF records
<1>3. save'[p] = [stage |-> "encoded", records |-> records, alone |-> InFlight = {}]
  BY <1>1
<1>4. \A q \in Process \ {p} :
         save'[q] = IF save[q] = None THEN None ELSE [save[q] EXCEPT !.alone = FALSE]
  BY <1>1
<1>5. ASSUME NEW q \in InFlight', q # p
      PROVE  /\ q \in InFlight /\ save'[q] \in Save /\ ~save'[q].alone
             /\ save'[q].records = save[q].records /\ save'[q].stage = save[q].stage
  <2>1. q \in Process /\ save'[q] # None
    BY DEF InFlight
  <2>2. save[q] # None /\ save'[q] = [save[q] EXCEPT !.alone = FALSE]
    BY <1>4, <1>5, <2>1
  <2>3. q \in InFlight /\ save[q] \in Save
    BY <2>1, <2>2 DEF InFlight, CheckpointInv, TypeInv
  <2> QED
    BY <2>2, <2>3 DEF Save
<1>6. save'[p] \in Save
  BY <1>2, <1>3 DEF Save
<1>7. TypeInv'
  <2>1. save' \in [Process -> Save \cup {None}]
    <3>1. ASSUME NEW q \in Process PROVE save'[q] \in Save \cup {None}
      <4>1. CASE q = p
        BY <1>6, <4>1
      <4>2. CASE q # p /\ save'[q] # None
        BY <1>5, <4>2 DEF InFlight
      <4> QED
        BY <4>1, <4>2
    <3> QED
      BY <1>1, <3>1
  <2>2. \A q \in InFlight' : /\ save'[q].records \in bodies'
                             /\ save'[q].stage # "encoded" => content' # None
    <3> TAKE q \in InFlight'
    <3>1. CASE q = p
      BY <1>1, <1>3, <3>1
    <3>2. CASE q # p
      <4>1. /\ q \in InFlight /\ save'[q].records = save[q].records
            /\ save'[q].stage = save[q].stage
        BY <1>5, <3>2
      <4>2. /\ save[q].records \in bodies
            /\ save[q].stage # "encoded" => content # None
        BY <4>1 DEF CheckpointInv, TypeInv
      <4> QED
        BY <1>1, <4>1, <4>2
    <3> QED
      BY <3>1, <3>2
  <2> QED
    <3>1. /\ deployment' \in [Process -> Deployment \cup {None}]
          /\ store' \in [Process -> SUBSET Record] /\ \A q \in Process : IsFiniteSet(store'[q])
      BY <1>1 DEF CheckpointInv, TypeInv
    <3>2. bodies' \subseteq Seq(Record)
      BY <1>1, <1>2 DEF CheckpointInv, TypeInv
    <3> QED
      BY <2>1, <2>2, <3>1, <3>2 DEF TypeInv
<1>8. FileInv'
  BY <1>1, FileKept DEF CheckpointInv
<1>9. SettledInv'
  <2> SUFFICES ASSUME NEW q \in InFlight', save'[q].alone
               PROVE  /\ InFlight' \subseteq {q}
                      /\ save'[q].stage = "opened" => content' = << >>
                      /\ save'[q].stage = "written" => content' = Encode(save'[q].records)
    BY <1>1 DEF SettledInv
  <2>1. q = p
    BY <1>5
  <2>2. InFlight = {}
    <3>1. InFlight # {} =>
             save'[p] = [stage |-> "encoded", records |-> records, alone |-> FALSE]
      BY <1>3
    <3> QED
      BY <2>1, <3>1
  <2>3. InFlight' \subseteq {p}
    BY <1>5, <2>2
  <2> QED
    BY <1>3, <2>1, <2>3
<1> QED
  BY <1>7, <1>8, <1>9 DEF CheckpointInv

(* With a save in flight, none has settled and no other is alone.          *)
LEMMA Undisturbed ==
    ASSUME CheckpointInv, NEW p \in InFlight
    PROVE  /\ settled = None /\ save[p] \in Save
           /\ \A q \in InFlight \ {p} : ~save[q].alone
BY DEF CheckpointInv, TypeInv, SettledInv, InFlight

(* A step of one save to its next stage. *)
LEMMA Advance ==
    ASSUME CheckpointInv, NEW p \in InFlight, NEW stage \in {"opened", "written"},
           save' = [save EXCEPT ![p].stage = stage], FileInv', content' # None,
           save[p].alone => /\ stage = "opened" => content' = << >>
                            /\ stage = "written" => content' = Encode(save[p].records),
           UNCHANGED <<deployment, store, bodies, settled>>
    PROVE  CheckpointInv'
<1>1. /\ settled = None /\ save[p] \in Save /\ p \in Process
      /\ \A q \in InFlight \ {p} : ~save[q].alone
  BY Undisturbed DEF InFlight
<1>2. /\ save'[p] = [save[p] EXCEPT !.stage = stage]
      /\ \A q \in Process \ {p} : save'[q] = save[q]
  BY <1>1 DEF CheckpointInv, TypeInv
<1>3. /\ save'[p] \in Save /\ save'[p].stage = stage
      /\ save'[p].records = save[p].records /\ save'[p].alone = save[p].alone
  BY <1>1, <1>2 DEF Save
<1>4. InFlight' \subseteq InFlight
  BY <1>2 DEF InFlight
<1>5. TypeInv'
  <2>1. save' \in [Process -> Save \cup {None}]
    BY <1>2, <1>3 DEF CheckpointInv, TypeInv
  <2>2. \A q \in InFlight' : save'[q].records \in bodies'
    BY <1>2, <1>3, <1>4 DEF CheckpointInv, TypeInv, InFlight
  <2> QED
    BY <2>1, <2>2 DEF CheckpointInv, TypeInv
<1>6. SettledInv'
  <2> SUFFICES ASSUME NEW q \in InFlight', save'[q].alone
               PROVE  /\ InFlight' \subseteq {q}
                      /\ save'[q].stage = "opened" => content' = << >>
                      /\ save'[q].stage = "written" => content' = Encode(save'[q].records)
    BY <1>1 DEF SettledInv
  <2>1. q = p
    BY <1>1, <1>2, <1>4 DEF InFlight
  <2>2. InFlight \subseteq {p}
    BY <1>3, <2>1 DEF CheckpointInv, SettledInv
  <2> QED
    BY <1>3, <1>4, <2>1, <2>2
<1> QED
  BY <1>5, <1>6 DEF CheckpointInv

(* Opening truncates the file under whatever else is being saved.         *)
LEMMA OpenFileStep ==
    ASSUME CheckpointInv, NEW p \in Process, OpenFile(p)
    PROVE  CheckpointInv'
<1>1. /\ p \in InFlight /\ content' = << >> /\ save' = [save EXCEPT ![p].stage = "opened"]
      /\ UNCHANGED <<deployment, store, bodies, settled>>
  BY DEF OpenFile, AtStage, InFlight, Truncated
<1>2. << >> \in Seq(Cell) /\ None \notin Seq(Cell)
  BY AbsenceAssumption DEF Cell
<1>3. FileInv'
  BY <1>1, <1>2 DEF FileInv
<1> QED
  BY <1>1, <1>2, <1>3, Advance

(* A body is laid over the file's content.                                *)
LEMMA WriteBodyStep ==
    ASSUME CheckpointInv, NEW p \in Process, WriteBody(p)
    PROVE  CheckpointInv'
<1> DEFINE records == save[p].records
           cells == Encode(records)
<1>1. /\ p \in InFlight /\ save[p].stage = "opened"
      /\ content' \in Overlays(cells) /\ save' = [save EXCEPT ![p].stage = "written"]
      /\ UNCHANGED <<deployment, store, bodies, settled>>
  BY DEF WriteBody, AtStage, InFlight
<1>2. records \in bodies /\ records \in Seq(Record) /\ content # None
  BY <1>1 DEF CheckpointInv, TypeInv
<1>3. content \in Seq(Cell)
  BY <1>2 DEF CheckpointInv, FileInv
<1>4. save[p].alone => content = << >>
  BY <1>1 DEF CheckpointInv, SettledInv
<1> HIDE DEF records
<1>5. cells \in Seq(Cell) /\ Len(cells) = Len(records) + 2
  BY <1>2, Encoding
<1> HIDE DEF cells
<1>6. /\ content' \in Seq(Cell) /\ Len(cells) <= Len(content')
      /\ \A j \in 1..Len(cells) : content'[j] = cells[j]
      /\ content = << >> => content' = cells
  BY <1>1, <1>3, <1>5, Overlaying
<1>7. \E list \in bodies : StartsWith(list)'
  <2>1. PICK list \in bodies : list = records
    BY <1>2
  <2>2. cells = Encode(list) /\ Len(cells) = Len(list) + 2
    BY <1>5, <2>1 DEF cells
  <2>3. StartsWith(list)'
    BY <1>1, <1>6, <2>2 DEF StartsWith
  <2> QED
    BY <2>3
<1>8. None \notin Seq(Cell)
  BY AbsenceAssumption DEF Cell
<1>9. FileInv' /\ content' # None
  <2>1. content' \in Seq(Cell) /\ content' # None
    BY <1>1, <1>6, <1>8
  <2> QED
    BY <1>1, <1>7, <2>1 DEF FileInv
<1>10. save[p].alone => content' = cells
  BY <1>1, <1>4, <1>6
<1>11. /\ p \in InFlight /\ save' = [save EXCEPT ![p].stage = "written"]
       /\ UNCHANGED <<deployment, store, bodies, settled>>
       /\ save[p].alone => content' = Encode(save[p].records)
  BY <1>1, <1>10 DEF cells, records
<1> QED
  BY <1>9, <1>11, Advance

(* A save that is gone leaves the others as they were. *)
LEMMA Gone ==
    ASSUME CheckpointInv, NEW p \in Process, save' = [save EXCEPT ![p] = None],
           bodies' = bodies, content' # None \/ content = None
    PROVE  /\ InFlight' = InFlight \ {p}
           /\ \A q \in InFlight' : save'[q] = save[q]
           /\ save' \in [Process -> Save \cup {None}]
           /\ \A q \in InFlight' : /\ save'[q].records \in bodies'
                                   /\ save'[q].stage # "encoded" => content' # None
<1>1. /\ save'[p] = None /\ \A q \in Process \ {p} : save'[q] = save[q]
      /\ save' \in [Process -> Save \cup {None}]
  BY DEF CheckpointInv, TypeInv
<1>2. InFlight' = InFlight \ {p} /\ \A q \in InFlight' : save'[q] = save[q]
  BY <1>1 DEF InFlight
<1>3. \A q \in InFlight : /\ save[q].records \in bodies
                          /\ save[q].stage # "encoded" => content # None
  BY DEF CheckpointInv, TypeInv
<1> QED
  BY <1>1, <1>2, <1>3

(* A save that ran alone settles the file when it ends.                   *)
LEMMA EndSaveStep ==
    ASSUME CheckpointInv, NEW p \in Process, EndSave(p)
    PROVE  CheckpointInv'
<1>1. /\ p \in InFlight /\ save[p].stage = "written"
      /\ settled' = IF save[p].alone THEN <<save[p].records>> ELSE settled
      /\ save' = [save EXCEPT ![p] = None]
      /\ UNCHANGED <<deployment, store, content, overlaid, bodies>>
  BY DEF EndSave, AtStage, InFlight
<1>2. /\ settled = None /\ save[p] \in Save
      /\ \A q \in InFlight \ {p} : ~save[q].alone
  BY <1>1, Undisturbed
<1>3. /\ InFlight' = InFlight \ {p} /\ \A q \in InFlight' : save'[q] = save[q]
      /\ save' \in [Process -> Save \cup {None}]
      /\ \A q \in InFlight' : /\ save'[q].records \in bodies'
                              /\ save'[q].stage # "encoded" => content' # None
  BY <1>1, Gone
<1>4. TypeInv'
  BY <1>1, <1>3 DEF CheckpointInv, TypeInv
<1>5. FileInv'
  BY <1>1, FileKept DEF CheckpointInv
<1>6. SettledInv'
  <2>1. \A q \in InFlight' : ~save'[q].alone
    BY <1>2, <1>3
  <2>2. ASSUME settled' # None
        PROVE  InFlight' = {} /\ \E records \in Seq(Record) :
                  settled' = <<records>> /\ content' = Encode(records)
    <3>1. save[p].alone /\ settled' = <<save[p].records>>
      BY <1>1, <1>2, <2>2
    <3>2. InFlight \subseteq {p} /\ content = Encode(save[p].records)
      BY <1>1, <3>1 DEF CheckpointInv, SettledInv
    <3>3. save[p].records \in Seq(Record)
      BY <1>2 DEF Save
    <3> QED
      BY <1>1, <1>3, <3>1, <3>2, <3>3
  <2> QED
    BY <2>1, <2>2 DEF SettledInv
<1> QED
  BY <1>4, <1>5, <1>6 DEF CheckpointInv

(* A save that fails, and a process that dies with or without one.         *)
LEMMA LostSave ==
    ASSUME CheckpointInv, NEW p \in Process, CutShort(p),
           save' = [save EXCEPT ![p] = None],
           deployment' \in [Process -> Deployment \cup {None}],
           store' \in [Process -> SUBSET Record],
           \A q \in Process : IsFiniteSet(store'[q]),
           UNCHANGED <<bodies, settled>>
    PROVE  CheckpointInv'
<1>1. FileInv' /\ (~AtStage(p, "opened") => content' = content)
  BY CutStep
<1>2. content' # None \/ content = None
  BY CutStep
<1>3. /\ InFlight' = InFlight \ {p} /\ \A q \in InFlight' : save'[q] = save[q]
      /\ save' \in [Process -> Save \cup {None}]
      /\ \A q \in InFlight' : /\ save'[q].records \in bodies'
                              /\ save'[q].stage # "encoded" => content' # None
  BY <1>2, Gone
<1>4. TypeInv'
  BY <1>3 DEF CheckpointInv, TypeInv
<1>5. SettledInv'
  <2>1. ASSUME NEW q \in InFlight', save'[q].alone
        PROVE  /\ InFlight' \subseteq {q}
               /\ save'[q].stage = "opened" => content' = << >>
               /\ save'[q].stage = "written" => content' = Encode(save'[q].records)
    <3>1. /\ q \in InFlight /\ q # p /\ save'[q] = save[q]
      BY <1>3
    <3>2. /\ InFlight \subseteq {q}
          /\ save[q].stage = "opened" => content = << >>
          /\ save[q].stage = "written" => content = Encode(save[q].records)
      BY <2>1, <3>1 DEF CheckpointInv, SettledInv
    <3>3. content' = content
      BY <1>1, <3>1, <3>2 DEF AtStage, InFlight
    <3> QED
      BY <1>3, <3>1, <3>2, <3>3
  <2>2. ASSUME settled # None PROVE content' = content /\ InFlight = {}
    BY <1>1, <2>2 DEF CheckpointInv, SettledInv, AtStage, InFlight
  <2> QED
    BY <1>3, <2>1, <2>2 DEF CheckpointInv, SettledInv
<1> QED
  BY <1>1, <1>4, <1>5 DEF CheckpointInv

(* A save fails with any part of its body on the file.                    *)
LEMMA SaveFailsStep ==
    ASSUME CheckpointInv, NEW p \in Process, SaveFails(p)
    PROVE  CheckpointInv'
<1>1. /\ CutShort(p) /\ save' = [save EXCEPT ![p] = None]
      /\ UNCHANGED <<deployment, store, bodies, settled>>
  BY DEF SaveFails
<1>2. /\ deployment' \in [Process -> Deployment \cup {None}]
      /\ store' \in [Process -> SUBSET Record]
      /\ \A q \in Process : IsFiniteSet(store'[q])
  BY <1>1 DEF CheckpointInv, TypeInv
<1> QED
  BY <1>1, <1>2, LostSave

(* A crash may cut a write short, and loses the process's memory.         *)
LEMMA CrashStep ==
    ASSUME CheckpointInv, NEW p \in Process, CheckpointCrash(p)
    PROVE  CheckpointInv'
<1>1. /\ CutShort(p) /\ save' = [save EXCEPT ![p] = None]
      /\ deployment' = [deployment EXCEPT ![p] = None]
      /\ store' = [store EXCEPT ![p] = {}] /\ UNCHANGED <<bodies, settled>>
  BY DEF CheckpointCrash
<1>2. /\ deployment' \in [Process -> Deployment \cup {None}]
      /\ store' \in [Process -> SUBSET Record]
      /\ \A q \in Process : IsFiniteSet(store'[q])
  BY <1>1, FS_EmptySet DEF CheckpointInv, TypeInv
<1> QED
  BY <1>1, <1>2, LostSave

-----------------------------------------------------------------------------
(* Every step keeps the invariant.                                        *)
LEMMA InvKept == CheckpointInv /\ [CheckpointNext]_checkpointVars => CheckpointInv'
<1> SUFFICES ASSUME CheckpointInv, [CheckpointNext]_checkpointVars PROVE CheckpointInv'
  OBVIOUS
<1>1. CASE UNCHANGED checkpointVars
  BY <1>1, FileKept
     DEF checkpointVars, CheckpointInv, TypeInv, SettledInv, InFlight
<1>2. CASE CheckpointNext
  <2> SUFFICES ASSUME NEW p \in Process,
                      \/ \E d \in Deployment : Start(p, d)
                      \/ \E issuer \in Issuer, period \in Period : Index(p, issuer, period)
                      \/ \E issuer \in Issuer : Clear(p, issuer)
                      \/ \E issuers \in SUBSET Issuer : BeginSave(p, issuers)
                      \/ OpenFile(p) \/ WriteBody(p) \/ EndSave(p) \/ SaveFails(p)
                      \/ CheckpointCrash(p)
               PROVE  CheckpointInv'
    BY <1>2 DEF CheckpointNext
  <2> QED
    BY StartStep, IndexStep, ClearStep, BeginSaveStep, OpenFileStep, WriteBodyStep,
       EndSaveStep, SaveFailsStep, CrashStep
<1> QED
  BY <1>1, <1>2

(* The invariant of the saves holds always.                               *)
LEMMA InvHolds == CheckpointSpec => []CheckpointInv
BY InitInv, InvKept, PTL DEF CheckpointSpec

(* However saves overlap, fail or die, what load returns is what one save  *)
(* was given, whole, unless the last write was cut short on top of another *)
(* save's (persistence.ts decode, load, saveCheckpoint).                   *)
THEOREM LoadsStayFaithful == CheckpointSpec => []LoadFaithful
<1>1. CheckpointInv /\ Load.ok => LoadFaithful
  BY Loaded
<1>2. ~Load.ok => LoadFaithful
  BY DEF LoadFaithful
<1> QED
  BY <1>1, <1>2, InvHolds, PTL

(* A save that resolved undisturbed is what the next process starts with,  *)
(* after any number of crashes (persistence.ts save, load).                *)
THEOREM SavesSurvive == CheckpointSpec => []SavedSurvives
<1>1. CheckpointInv => SavedSurvives
  <2> SUFFICES ASSUME CheckpointInv, settled # None
               PROVE  Load.ok /\ <<Load.records>> = settled
    BY DEF SavedSurvives
  <2>1. PICK records \in Seq(Record) : settled = <<records>> /\ content = Encode(records)
    BY DEF CheckpointInv, SettledInv
  <2>2. content \in Seq(Cell) /\ Len(content) = Len(records) + 2
    BY <2>1, Encoding
  <2>3. content # None
    BY <2>2, AbsenceAssumption DEF Cell
  <2>4. Whole /\ Decoded = records
    <3>1. StartsWith(records)
      BY <2>1, <2>2 DEF StartsWith
    <3> QED
      BY <2>2, <3>1, DecodesTo
  <2>5. Load = [ok |-> TRUE, records |-> Decoded]
    BY <2>3, <2>4 DEF Load
  <2> QED
    BY <2>1, <2>4, <2>5
<1> QED
  BY <1>1, InvHolds, PTL

================================================================================
