-------------------------- MODULE SyncApply_proofs --------------------------
(***************************************************************************)
(* Proofs about the body of a run (SyncApply), for any files, windows,     *)
(* filters and tables, any sizes of batches and chunks, any minimum of     *)
(* rows.                                                                   *)
(*                                                                         *)
(* The keys of the rows still to be applied differ (DistinctPending), so a *)
(* batch has one effect per key (Applied) and adds as many rows as it      *)
(* counts.  Where a full run is in its file is said by FullBody.  From     *)
(* that and from what is due in a month, single writes (WritesAreDue).     *)
(***************************************************************************)
EXTENDS SyncApply, FiniteSetTheorems, SequenceTheorems, TLAPS

InFile == {"rows", "flush", "flushLast"}

\* Which type of run is where, and what is empty there.
Phases ==
    /\ pc = "idle" => last.type = type
    /\ pc \in {"month", "delete"} => type = "diff"
    /\ pc \in {"download", "counted", "prune"} => type = "full"
    /\ pc # "idle" => type \in {"full", "diff"}
    /\ pc = "month" => month \in Nat \ {0}
    /\ pc \in {"delete"} \cup InFile /\ type = "diff" => month \in DOMAIN window
    /\ pc \notin {"delete", "rows", "flush"} => input = <<>>
    /\ pc \notin InFile => batch = <<>>
    /\ pc # "delete" => delKeys = <<>>
    /\ pc \notin {"idle", "rows", "flush"} => skipBuf = 0
    /\ type = "diff" /\ pc # "idle" => seen = {}
    /\ pc = "download" => seen = {} /\ res = Zero
    /\ pc = "download" \/ (pc = "month" /\ applied = 0) =>
          db = base /\ skipStored = 0
    /\ pc = "rows" => Len(batch) < BatchSize

\* No two rows still to be applied have the same key, and none of a batch
\* has a key that the filter matches.
DistinctPending ==
    /\ UniqueKeys(input)
    /\ UniqueKeys(batch)
    /\ \A i \in DOMAIN input, j \in DOMAIN batch : input[i].key # batch[j].key
    /\ \A i \in DOMAIN batch : batch[i].key \notin SkipKeys

Among(r, file) == \E i \in DOMAIN file : file[i] = r

\* A full run in its file: every row that is kept is to come, in the batch or
\* in the table; the other addresses are as they were until the pruning.
FullBody ==
    type = "full" /\ pc \in InFile \cup {"counted", "prune"} =>
        /\ \A i \in DOMAIN input : Among(input[i], full)
        /\ \A i \in DOMAIN batch : Among(batch[i], full)
        /\ \A i \in DOMAIN full :
              full[i].key \notin SkipKeys =>
                  \/ Among(full[i], input)
                  \/ Among(full[i], batch)
                  \/ db[full[i].key] = full[i].hash
        /\ \A k \in Keys \ Listed(full) :
              db[k] = base[k] \/ (pc = "prune" /\ db[k] = Absent)
        /\ prune => /\ seen \subseteq Listed(full)
                    /\ Listed(full) \subseteq seen \cup KeysOf(input)
        /\ pc = "prune" => prune /\ Len(full) >= MinRows

\* Whether a key is still to be deleted.
ToDelete(k) == \E i \in DOMAIN delKeys : delKeys[i] = k

\* What is due: for a full run the result of its file; within a month the
\* rows to come, the keys still to be deleted, and otherwise the table.
DueBody ==
    /\ type = "full" /\ pc \in InFile \cup {"counted", "prune"} =>
          due = FullResult(base, full)
    /\ pc = "month" => due = db
    /\ type = "diff" /\ pc \in {"delete"} \cup InFile =>
          /\ \A i \in DOMAIN input :
                input[i].key \notin SkipKeys => due[input[i].key] = input[i].hash
          /\ \A i \in DOMAIN batch : due[batch[i].key] = batch[i].hash
          /\ \A k \in Keys \ (Listed(input) \cup KeysOf(batch)) :
                due[k] = IF ToDelete(k) THEN Absent ELSE db[k]

\* The counts of the run so far: those of the file, and for a diff those of
\* the months before.
FileCounts == type = "full" \/ pc \in {"delete"} \cup InFile
MonthCounts == type # "full"

SoFar(file, months) ==
    (IF FileCounts THEN file ELSE 0) + (IF MonthCounts THEN months ELSE 0)

\* The counts account for the table at every moment of a run.
Balance ==
    pc # "idle" =>
        /\ Cardinality(Stored(db)) + SoFar(res.deleted, agg.deleted)
              = Cardinality(Stored(base)) + SoFar(res.added, agg.added)
        /\ SoFar(res.skipped, agg.skipped) = skipStored + skipBuf

\* Before the pruning no address is missing.
Kept ==
    type = "full" /\ pc \notin {"prune", "idle"} => Stored(base) \subseteq Stored(db)

Inv ==
    /\ TypeOK
    /\ Phases
    /\ DistinctPending
    /\ FullBody
    /\ Balance
    /\ Kept
    /\ DueBody
    /\ SuccessMatchesFiles
    /\ SuccessCountsBalance
    /\ FullRunKeepsListed
    /\ FullRerunIsQuiet

-----------------------------------------------------------------------------
(* Types. *)

LEMMA ZeroType == Zero \in Counts
  BY DEF Zero, Counts

LEMMA PlusType ==
    ASSUME NEW r \in Counts, NEW s \in Counts
    PROVE  Plus(r, s) \in Counts
  BY DEF Plus, Counts

\* A count that goes up, or is forgotten.
LEMMA CountsChange ==
    ASSUME NEW r \in Counts, NEW n \in Nat
    PROVE  /\ [r EXCEPT !.skipped = @ + n] \in Counts
           /\ [r EXCEPT !.deleted = @ + n] \in Counts
           /\ [r EXCEPT !.total = @ + n] \in Counts
           /\ [r EXCEPT !.total = n] \in Counts
           /\ [r EXCEPT !.deleted = 0] \in Counts
<1>1. r.skipped + n \in Nat /\ r.deleted + n \in Nat /\ r.total + n \in Nat
  BY DEF Counts
<1>2. [r EXCEPT !.skipped = r.skipped + n] \in Counts
  BY <1>1 DEF Counts
<1>3. [r EXCEPT !.deleted = r.deleted + n] \in Counts
  BY <1>1 DEF Counts
<1>4. [r EXCEPT !.total = r.total + n] \in Counts
  BY <1>1 DEF Counts
<1>5. [r EXCEPT !.total = n] \in Counts /\ [r EXCEPT !.deleted = 0] \in Counts
  BY DEF Counts
<1> QED
  BY <1>2, <1>3, <1>4, <1>5

\* A file of the window, and the full file, as ApplyAssumption has them.
LEMMA MonthType ==
    ASSUME TypeOK, month \in DOMAIN window
    PROVE  /\ window[month].add # NotFound =>
                 window[month].add \in Seq(Row) /\ UniqueKeys(window[month].add)
           /\ window[month].del # NotFound => window[month].del \in Seq(Keys)
<1> DEFINE F == [add : Seq(Row) \cup {NotFound}, del : Seq(Keys) \cup {NotFound}]
<1>1. window \in Seq(F) /\ (window[month].add # NotFound => UniqueKeys(window[month].add))
  BY ApplyAssumption DEF TypeOK, ApplyAssumption
<1>2. window[month] \in F
  BY <1>1, ElementOfSeq, LenProperties
<1> QED
  BY <1>1, <1>2

LEMMA FullType ==
    ASSUME TypeOK
    PROVE  /\ full \in Seq(Row) /\ UniqueKeys(full)
           /\ DOMAIN full = 1..Len(full) /\ Len(full) \in Nat
           /\ \A i \in DOMAIN full : full[i] \in Row
<1>1. full \in Seq(Row) /\ UniqueKeys(full)
  BY ApplyAssumption DEF TypeOK, ApplyAssumption
<1> QED
  BY <1>1, LenProperties, ElementOfSeq

\* A batch or a file, row by row.
LEMMA RowsType ==
    ASSUME NEW s \in Seq(Row)
    PROVE  /\ DOMAIN s = 1..Len(s) /\ Len(s) \in Nat /\ IsFiniteSet(DOMAIN s)
           /\ \A i \in DOMAIN s : s[i] \in Row /\ s[i].key \in Keys /\ s[i].hash \in Hashes
<1>1. DOMAIN s = 1..Len(s) /\ Len(s) \in Nat
  BY LenProperties
<1>2. \A i \in DOMAIN s : s[i] \in Row
  BY <1>1, ElementOfSeq
<1>3. IsFiniteSet(1..Len(s))
  BY <1>1, FS_Interval
<1> QED
  BY <1>1, <1>2, <1>3 DEF Row

LEMMA StoredFinite ==
    ASSUME NEW d
    PROVE  IsFiniteSet(Stored(d)) /\ Cardinality(Stored(d)) \in Nat
<1>1. Stored(d) \in SUBSET Keys
  BY DEF Stored
<1>2. IsFiniteSet(Stored(d))
  BY <1>1, FS_Subset, ApplyAssumption DEF ApplyAssumption
<1> QED
  BY <1>2, FS_CardinalityType

-----------------------------------------------------------------------------
(* What a file makes of a table. *)

LEMMA WithIs ==
    ASSUME NEW file \in Seq(Row), UniqueKeys(file), NEW d
    PROVE  /\ With(d, file) = [k \in Keys |-> With(d, file)[k]]
           /\ \A i \in DOMAIN file :
                 file[i].key \notin SkipKeys => With(d, file)[file[i].key] = file[i].hash
           /\ \A k \in Keys \ Listed(file) : With(d, file)[k] = d[k]
<1>1. With(d, file) = [k \in Keys |-> With(d, file)[k]]
  BY DEF With
<1>2. ASSUME NEW i \in DOMAIN file, file[i].key \notin SkipKeys
      PROVE  With(d, file)[file[i].key] = file[i].hash
  <2> DEFINE R == {file[j] : j \in DOMAIN file}
             c == CHOOSE r \in R : r.key = file[i].key
  <2>1. file[i].key \in Keys /\ file[i].key \in Listed(file)
    BY <1>2, RowsType DEF Listed, KeysOf
  <2>2. c \in R /\ c.key = file[i].key
    <3>1. file[i] \in R
      OBVIOUS
    <3> QED
      BY <3>1
  <2>3. c = file[i]
    <3>1. PICK j \in DOMAIN file : file[j] = c
      BY <2>2
    <3>2. j = i
      BY <3>1, <2>2 DEF UniqueKeys
    <3> QED
      BY <3>1, <3>2
  <2>4. With(d, file)[file[i].key] = c.hash
    BY <2>1 DEF With
  <2> QED
    BY <2>3, <2>4
<1>3. \A k \in Keys \ Listed(file) : With(d, file)[k] = d[k]
  BY DEF With
<1> QED
  BY <1>1, <1>2, <1>3

\* Where a key of a file comes from.
LEMMA ListedRow ==
    ASSUME NEW file, NEW k \in Listed(file)
    PROVE  \E i \in DOMAIN file : file[i].key = k /\ file[i].key \notin SkipKeys
  BY DEF Listed, KeysOf

LEMMA WithType ==
    ASSUME NEW file \in Seq(Row), UniqueKeys(file), NEW d \in [Keys -> Hashes \cup {Absent}]
    PROVE  With(d, file) \in [Keys -> Hashes \cup {Absent}]
<1>1. \A k \in Keys : With(d, file)[k] \in Hashes \cup {Absent}
  <2> SUFFICES ASSUME NEW k \in Keys PROVE With(d, file)[k] \in Hashes \cup {Absent}
    OBVIOUS
  <2>1. CASE k \in Listed(file)
    BY <2>1, ListedRow, WithIs, RowsType
  <2>2. CASE k \notin Listed(file)
    BY <2>2, WithIs
  <2> QED
    BY <2>1, <2>2
<1> QED
  BY <1>1, WithIs

LEMMA WithoutType ==
    ASSUME NEW d \in [Keys -> Hashes \cup {Absent}], NEW ks
    PROVE  Without(d, ks) \in [Keys -> Hashes \cup {Absent}]
  BY DEF Without

\* What the due tables are made of.
LEMMA ResultTypes ==
    ASSUME TypeOK
    PROVE  /\ FullResult(base, full) \in [Keys -> Hashes \cup {Absent}]
           /\ month \in DOMAIN window =>
                 MonthResult(due, window[month]) \in [Keys -> Hashes \cup {Absent}]
<1>1. base \in [Keys -> Hashes \cup {Absent}] /\ due \in [Keys -> Hashes \cup {Absent}]
  BY DEF TypeOK
<1>2. With(base, full) \in [Keys -> Hashes \cup {Absent}]
  BY <1>1, FullType, WithType
<1>3. FullResult(base, full) \in [Keys -> Hashes \cup {Absent}]
  BY <1>2, WithoutType DEF FullResult
<1>4. ASSUME month \in DOMAIN window
      PROVE  MonthResult(due, window[month]) \in [Keys -> Hashes \cup {Absent}]
  <2> DEFINE m == window[month]
             e == IF m.del = NotFound THEN due ELSE Without(due, {m.del[i] : i \in DOMAIN m.del})
  <2>1. e \in [Keys -> Hashes \cup {Absent}]
    BY <1>1, WithoutType
  <2>2. m.add # NotFound => m.add \in Seq(Row) /\ UniqueKeys(m.add)
    BY <1>4, MonthType
  <2>3. MonthResult(due, m) = IF m.add = NotFound THEN e ELSE With(e, m.add)
    BY DEF MonthResult
  <2> HIDE DEF e, m
  <2>4. MonthResult(due, m) \in [Keys -> Hashes \cup {Absent}]
    BY <2>1, <2>2, <2>3, WithType
  <2> QED
    BY <2>4 DEF m
<1> QED
  BY <1>3, <1>4

-----------------------------------------------------------------------------
(* What a batch does. *)

\* A batch leaves each of its rows in the table and every other address
\* alone, and makes the table longer by the rows it counts as added.
LEMMA Applied ==
    ASSUME TypeOK, DistinctPending, ApplyBatch
    PROVE  /\ db' \in [Keys -> Hashes \cup {Absent}]
           /\ \A i \in DOMAIN batch : db'[batch[i].key] = batch[i].hash
           /\ \A k \in Keys : k \notin KeysOf(batch) => db'[k] = db[k]
           /\ Stored(db) \subseteq Stored(db')
           /\ Cardinality(New) \in Nat
           /\ Cardinality(Stored(db')) = Cardinality(Stored(db)) + Cardinality(New)
           /\ res' \in Counts
           /\ res'.added = res.added + Cardinality(New)
           /\ res'.deleted = res.deleted /\ res'.skipped = res.skipped
           /\ batch' = <<>>
<1>1. /\ DOMAIN batch = 1..Len(batch) /\ Len(batch) \in Nat
      /\ IsFiniteSet(DOMAIN batch)
      /\ \A i \in DOMAIN batch :
            batch[i] \in Row /\ batch[i].key \in Keys /\ batch[i].hash \in Hashes
  BY RowsType DEF TypeOK
<1>2. \A i, j \in DOMAIN batch : batch[i].key = batch[j].key => i = j
  BY DEF DistinctPending, UniqueKeys
<1>3. db \in [Keys -> Hashes \cup {Absent}] /\ Absent \notin Hashes /\ res \in Counts
  BY ApplyAssumption DEF TypeOK, ApplyAssumption
<1> DEFINE last1(k) == CHOOSE i \in ChangedAt(k) : \A j \in ChangedAt(k) : j <= i
<1>4. \A k \in Keys :
         /\ ChangedAt(k) = {} => db'[k] = db[k]
         /\ ChangedAt(k) # {} => db'[k] = batch[last1(k)].hash
  BY DEF ApplyBatch
<1>5. ASSUME NEW i \in DOMAIN batch
      PROVE  db'[batch[i].key] = batch[i].hash
  <2> DEFINE k == batch[i].key
  <2>1. k \in Keys
    BY <1>1
  <2>2. CASE ChangedAt(k) = {}
    <3>1. db[k] = batch[i].hash
      BY <2>2 DEF ChangedAt, Changed
    <3> QED
      BY <3>1, <2>1, <2>2, <1>4
  <2>3. CASE ChangedAt(k) # {}
    <3>1. ChangedAt(k) = {i}
      BY <2>3, <1>2 DEF ChangedAt, Changed
    <3>2. last1(k) = i
      <4>1. i \in Nat
        BY <1>1
      <4>2. i \in ChangedAt(k) /\ \A j \in ChangedAt(k) : j <= i
        BY <3>1, <4>1
      <4>3. last1(k) \in ChangedAt(k)
        BY <4>2
      <4> QED
        BY <4>3, <3>1
    <3> QED
      BY <3>2, <2>1, <2>3, <1>4
  <2> QED
    BY <2>2, <2>3
<1>6. ASSUME NEW k \in Keys, k \notin KeysOf(batch)
      PROVE  db'[k] = db[k]
  <2>1. ChangedAt(k) = {}
    BY <1>6 DEF ChangedAt, Changed, KeysOf
  <2> QED
    BY <2>1, <1>4
<1>7. db' \in [Keys -> Hashes \cup {Absent}]
  <2>1. \A k \in Keys : db'[k] \in Hashes \cup {Absent}
    <3> SUFFICES ASSUME NEW k \in Keys PROVE db'[k] \in Hashes \cup {Absent}
      OBVIOUS
    <3>1. CASE k \in KeysOf(batch)
      BY <3>1, <1>5, <1>1 DEF KeysOf
    <3>2. CASE k \notin KeysOf(batch)
      BY <3>2, <1>6, <1>3
    <3> QED
      BY <3>1, <3>2
  <2>2. DOMAIN db' = Keys /\ db' = [k \in Keys |-> db'[k]]
    BY DEF ApplyBatch
  <2> QED
    BY <2>1, <2>2
<1>8. Stored(db') = Stored(db) \cup {batch[i].key : i \in New}
  <2>1. ASSUME NEW k \in Keys
        PROVE  k \in Stored(db') <=>
                  (k \in Stored(db) \/ \E i \in New : batch[i].key = k)
    <3>1. CASE k \in KeysOf(batch)
      <4>1. PICK i \in DOMAIN batch : batch[i].key = k
        BY <3>1 DEF KeysOf
      <4>2. db'[k] # Absent
        BY <4>1, <1>5, <1>1, <1>3
      <4>3. db[k] = Absent => i \in New
        BY <4>1 DEF New
      <4> QED
        BY <4>1, <4>2, <4>3 DEF Stored
    <3>2. CASE k \notin KeysOf(batch)
      <4>1. ~ \E i \in New : batch[i].key = k
        BY <3>2 DEF KeysOf, New
      <4> QED
        BY <4>1, <3>2, <1>6 DEF Stored
    <3> QED
      BY <3>1, <3>2
  <2>2. {batch[i].key : i \in New} \subseteq Keys
    BY <1>1 DEF New
  <2> QED
    BY <2>1, <2>2 DEF Stored
<1> DEFINE K == {batch[i].key : i \in New}
<1>9. IsFiniteSet(New) /\ Cardinality(New) \in Nat
  <2>1. New \in SUBSET DOMAIN batch
    BY DEF New
  <2>2. IsFiniteSet(New)
    BY <2>1, <1>1, FS_Subset
  <2> QED
    BY <2>2, FS_CardinalityType
<1>10. IsFiniteSet(K) /\ Cardinality(K) = Cardinality(New)
  <2> DEFINE f == [i \in New |-> batch[i].key]
  <2>1. f \in Bijection(New, K)
    <3>1. f \in [New -> K]
      OBVIOUS
    <3>2. \A a, b \in New : f[a] = f[b] => a = b
      BY <1>2 DEF New
    <3>3. \A t \in K : \E s \in New : f[s] = t
      OBVIOUS
    <3> QED
      BY <3>1, <3>2, <3>3 DEF Bijection, Injection, Surjection, IsInjective
  <2>2. ExistsBijection(New, K)
    BY <2>1 DEF ExistsBijection
  <2> QED
    BY <2>2, <1>9, FS_Bijection
<1>11. Cardinality(Stored(db')) = Cardinality(Stored(db)) + Cardinality(New)
  <2>1. Stored(db) \cap K = {}
    BY DEF Stored, New
  <2>2. IsFiniteSet(Stored(db)) /\ Cardinality(Stored(db)) \in Nat
    BY StoredFinite
  <2>3. Cardinality({}) = 0
    BY FS_EmptySet
  <2> HIDE DEF K
  <2>4. Cardinality(Stored(db) \cup K) =
           Cardinality(Stored(db)) + Cardinality(K) - Cardinality(Stored(db) \cap K)
    BY <2>2, <1>10, FS_Union
  <2>5. Cardinality(Stored(db) \cap K) = 0
    BY <2>1, <2>3 DEF K
  <2>6. Cardinality(Stored(db) \cup K) = Cardinality(Stored(db)) + Cardinality(New)
    BY <2>2, <2>4, <2>5, <1>9, <1>10
  <2> QED
    BY <2>6, <1>8 DEF K
<1>12. /\ res' \in Counts
       /\ res'.added = res.added + Cardinality(New)
       /\ res'.deleted = res.deleted /\ res'.skipped = res.skipped
  <2>1. Cardinality(Changed \ New) \in Nat
    <3>1. Changed \ New \in SUBSET DOMAIN batch
      BY DEF Changed
    <3>2. IsFiniteSet(Changed \ New)
      BY <3>1, <1>1, FS_Subset
    <3> QED
      BY <3>2, FS_CardinalityType
  <2> DEFINE a == Cardinality(New)
             u == Cardinality(Changed \ New)
  <2>2. res' = [res EXCEPT !.added = @ + a, !.updated = @ + u]
    BY DEF ApplyBatch
  <2>3. a \in Nat /\ u \in Nat
    BY <2>1, <1>9
  <2> HIDE DEF a, u
  <2>4. /\ res' \in Counts /\ res'.added = res.added + a
        /\ res'.deleted = res.deleted /\ res'.skipped = res.skipped
    <3>1. res \in Counts
      BY <1>3
    <3>2. res.added + a \in Nat /\ res.updated + u \in Nat
      BY <3>1, <2>3 DEF Counts
    <3>3. res' = [[res EXCEPT !.added = res.added + a]
                     EXCEPT !.updated = res.updated + u]
      BY <3>1, <2>2 DEF Counts
    <3>4. [res EXCEPT !.added = res.added + a] \in Counts
      BY <3>1, <3>2 DEF Counts
    <3> QED
      BY <3>1, <3>2, <3>3, <3>4 DEF Counts
  <2> QED
    BY <2>4 DEF a
<1>13. batch' = <<>>
  BY DEF ApplyBatch
<1>14. Stored(db) \subseteq Stored(db')
  BY <1>8
<1> QED
  BY <1>5, <1>6, <1>7, <1>9, <1>11, <1>12, <1>13, <1>14

-----------------------------------------------------------------------------
(* Types, phases and the rows still to be applied. *)

LEMMA TypeStep == Inv /\ [Next]_vars => TypeOK'
<1> SUFFICES ASSUME Inv, [Next]_vars PROVE TypeOK'
  OBVIOUS
<1>0. /\ TypeOK /\ Phases /\ DistinctPending
      /\ Zero \in Counts
      /\ BatchSize \in Nat \ {0} /\ DeleteChunk \in Nat \ {0} /\ SkipChunk \in Nat \ {0}
  BY ZeroType, ApplyAssumption DEF Inv, ApplyAssumption
<1>1. ASSUME NEW req \in {"auto", "full", "diff"}, StartRun(req) PROVE TypeOK'
  <2>1. type' \in {"full", "diff"}
    BY <1>1 DEF StartRun, Resolve
  <2> QED
    BY <1>0, <1>1, <2>1 DEF StartRun, TypeOK, sources
<1>2. CASE OpenFull
  BY <1>0, <1>2, FullType, ResultTypes DEF OpenFull, TypeOK, sources
<1>3. CASE OpenMonth
  <2>1. month \in DOMAIN window
    <3>1. window \in Seq([add : Seq(Row) \cup {NotFound}, del : Seq(Keys) \cup {NotFound}])
      BY <1>0, ApplyAssumption DEF TypeOK, ApplyAssumption
    <3> QED
      BY <3>1, <1>0, <1>3, LenProperties DEF OpenMonth, Phases
  <2>2. /\ window[month].add # NotFound => window[month].add \in Seq(Row)
        /\ window[month].del # NotFound => window[month].del \in Seq(Keys)
    BY <2>1, <1>0, MonthType
  <2>3. input' \in Seq(Row) /\ delKeys' \in Seq(Keys)
    <3>1. CASE window[month].add = NotFound /\ window[month].del = NotFound
      BY <3>1, <1>0, <1>3 DEF OpenMonth, TypeOK
    <3>2. CASE ~ (window[month].add = NotFound /\ window[month].del = NotFound)
      <4>1. input' = (IF window[month].add = NotFound THEN <<>> ELSE window[month].add)
            /\ delKeys' = (IF window[month].del = NotFound THEN <<>> ELSE window[month].del)
        BY <3>2, <1>3 DEF OpenMonth
      <4> QED
        BY <4>1, <2>2
    <3> QED
      BY <3>1, <3>2
  <2>4. res' \in Counts
    <3>1. CASE res' = res
      BY <3>1, <1>0 DEF TypeOK
    <3>2. CASE res' = [Zero EXCEPT !.total = Len(delKeys')]
      BY <3>2, <2>3, <1>0, LenProperties, CountsChange
    <3> QED
      BY <3>1, <3>2, <1>3 DEF OpenMonth
  <2>5. due' \in [Keys -> Hashes \cup {Absent}]
    BY <2>1, <1>0, <1>3, ResultTypes DEF OpenMonth
  <2> QED
    BY <1>0, <1>3, <2>3, <2>4, <2>5, SMTT(30) DEF OpenMonth, TypeOK, sources
<1>4. CASE DeleteSome
  <2>1. delKeys \in Seq(Keys) /\ Len(delKeys) \in Nat /\ res \in Counts
    BY <1>0, LenProperties DEF TypeOK
  <2>2. PICK n \in 0..Len(delKeys) :
           /\ db' = Without(db, {delKeys[i] : i \in 1..n})
           /\ delKeys' = SubSeq(delKeys, n + 1, Len(delKeys))
           /\ res' = [res EXCEPT !.deleted =
                         @ + Cardinality({delKeys[i] : i \in 1..n} \cap Stored(db))]
    <3> DEFINE n == IF Len(delKeys) < DeleteChunk THEN Len(delKeys) ELSE DeleteChunk
    <3>1. n \in 0..Len(delKeys)
      BY <2>1, <1>0
    <3>2. /\ db' = Without(db, {delKeys[i] : i \in 1..n})
          /\ delKeys' = SubSeq(delKeys, n + 1, Len(delKeys))
          /\ res' = [res EXCEPT !.deleted =
                        @ + Cardinality({delKeys[i] : i \in 1..n} \cap Stored(db))]
      BY <1>4 DEF DeleteSome
    <3> HIDE DEF n
    <3> QED
      BY <3>1, <3>2
  <2>3. delKeys' \in Seq(Keys)
    <3>1. \A i \in n + 1 .. Len(delKeys) : delKeys[i] \in Keys
      BY <2>1, ElementOfSeq
    <3> QED
      BY <3>1, <2>1, <2>2, SubSeqProperties
  <2>4. db' \in [Keys -> Hashes \cup {Absent}]
    BY <2>2, <1>0 DEF Without, TypeOK
  <2> DEFINE d == Cardinality({delKeys[i] : i \in 1..n} \cap Stored(db))
  <2>5. d \in Nat
    <3>1. {delKeys[i] : i \in 1..n} \cap Stored(db) \in SUBSET Stored(db)
      OBVIOUS
    <3> QED
      BY <3>1, StoredFinite, FS_Subset, FS_CardinalityType
  <2>6. res' \in Counts
    <3> HIDE DEF d
    <3> QED
      BY <2>1, <2>2, <2>5, CountsChange DEF d
  <2> QED
    BY <1>0, <1>4, <2>3, <2>4, <2>6 DEF DeleteSome, TypeOK, sources
<1>5. CASE DeleteDone
  BY <1>0, <1>5 DEF DeleteDone, TypeOK, sources
<1>6. CASE ParseRow
  <2>1. Head(input) \in Row /\ Tail(input) \in Seq(Row)
    BY <1>0, <1>6, HeadTailProperties DEF ParseRow, TypeOK
  <2>2. Append(batch, Head(input)) \in Seq(Row)
        /\ Len(Append(batch, Head(input))) = Len(batch) + 1
        /\ Len(batch) \in Nat
    BY <2>1, <1>0, AppendProperties, LenProperties DEF TypeOK
  <2>3. Len(batch) < BatchSize
    BY <1>0, <1>6 DEF ParseRow, Phases
  <2>4. CASE Head(input).key \in SkipKeys
    <3>1. [res EXCEPT !.skipped = @ + 1] \in Counts
      BY <1>0, CountsChange DEF TypeOK
    <3>2. skipBuf' \in Nat /\ skipBuf' < SkipChunk /\ skipStored' \in Nat
      BY <2>4, <1>0, <1>6, SMTT(30) DEF ParseRow, TypeOK
    <3> QED
      BY <3>1, <3>2, <2>1, <2>4, <1>0, <1>6 DEF ParseRow, TypeOK, sources
  <2>5. CASE Head(input).key \notin SkipKeys
    <3>1. batch' \in Seq(Row) /\ Len(batch') <= BatchSize
      <4>1. batch' = Append(batch, Head(input))
        BY <2>5, <1>6 DEF ParseRow
      <4>2. BatchSize \in Nat /\ Len(batch) + 1 <= BatchSize
        BY <2>2, <2>3, <1>0
      <4> QED
        BY <4>1, <4>2, <2>2
    <3>2. seen' \subseteq Keys
      BY <2>1, <2>5, <1>0, <1>6 DEF ParseRow, TypeOK, Row
    <3>3. pc' \in {"rows", "flush"}
      BY <2>5, <1>6 DEF ParseRow
    <3> QED
      BY <3>1, <3>2, <3>3, <2>1, <2>5, <1>0, <1>6 DEF ParseRow, TypeOK, sources
  <2> QED
    BY <2>4, <2>5
<1>7. ASSUME ApplyBatch, Len(batch') = 0,
             UNCHANGED <<sources, seen, skipBuf, skipStored, base, due, last, nruns, input, delKeys, type>>,
             pc' \in {"rows", "month", "counted"}, month' \in Nat, applied' \in Nat,
             agg' \in Counts
      PROVE  TypeOK'
  <2>1. db' \in [Keys -> Hashes \cup {Absent}] /\ res' \in Counts /\ batch' = <<>>
    BY <1>0, <1>7, Applied
  <2> QED
    BY <2>1, <1>0, <1>7 DEF TypeOK, sources
<1>8. CASE FlushFull
  <2>1. Len(batch') = 0
    BY <1>8 DEF FlushFull, ApplyBatch
  <2> QED
    BY <2>1, <1>0, <1>7, <1>8 DEF FlushFull, TypeOK
<1>9. CASE StoreSkipped
  BY <1>0, <1>9 DEF StoreSkipped, TypeOK, sources
<1>10. CASE FlushMonth
  <2>1. Len(batch') = 0 /\ res' \in Counts /\ month \in DOMAIN window
    BY <1>0, <1>10, Applied DEF FlushMonth, ApplyBatch, Phases, InFile
  <2> DEFINE m == window[month]
             n == IF m.add = NotFound THEN 0 ELSE Len(m.add)
  <2>2. n \in Nat
    BY <2>1, <1>0, MonthType, LenProperties
  <2>3. agg' = Plus(agg, [res' EXCEPT !.total = @ + n])
    BY <1>10 DEF FlushMonth
  <2> HIDE DEF n
  <2>4. [res' EXCEPT !.total = @ + n] \in Counts
    BY <2>1, <2>2, CountsChange
  <2>5. agg' \in Counts
    BY <2>3, <2>4, <1>0, PlusType DEF TypeOK
  <2> QED
    BY <2>1, <2>5, <1>0, <1>7, <1>10 DEF FlushMonth, TypeOK
<1>11. CASE FlushFile
  <2>1. Len(batch') = 0
    BY <1>11 DEF FlushFile, ApplyBatch
  <2> QED
    BY <2>1, <1>0, <1>7, <1>11 DEF FlushFile, TypeOK
<1> DEFINE Ended == /\ pc' = "idle" /\ input' = <<>> /\ delKeys' = <<>> /\ batch' = <<>>
                    /\ input' \in Seq(Row) /\ delKeys' \in Seq(Keys)
                    /\ batch' \in Seq(Row) /\ Len(batch') <= BatchSize
                    /\ last' \in [status : {"none", "running", "success", "failed"},
                                  type : {"none", "full", "diff"}, counts : Counts]
<1>12. ASSUME UNCHANGED <<sources, db, month, applied, seen, agg, skipBuf, base, due, nruns>>,
              Ended, res' \in Counts, skipStored' \in Nat, UNCHANGED type
       PROVE  TypeOK'
  BY <1>0, <1>12 DEF TypeOK, sources
<1>13. CASE EndFull
  <2>1. Counted \in Counts
    BY <1>0, FullType, CountsChange DEF Counted, TypeOK
  <2>2. CASE End("success", Counted)
    <3>1. Ended
      BY <2>1, <2>2, <1>0 DEF End, TypeOK
    <3> QED
      BY <3>1, <2>1, <1>0, <1>12, <1>13 DEF EndFull, TypeOK
  <2>3. CASE End("failed", Counted)
    <3>1. Ended
      BY <2>1, <2>3, <1>0 DEF End, TypeOK
    <3> QED
      BY <3>1, <2>1, <1>0, <1>12, <1>13 DEF EndFull, TypeOK
  <2>4. CASE pc' = "prune" /\ UNCHANGED <<last, input, delKeys, batch>>
    BY <2>1, <2>4, <1>0, <1>13 DEF EndFull, TypeOK, sources
  <2> QED
    BY <2>2, <2>3, <2>4, <1>13 DEF EndFull
<1>14. CASE PruneSome
  <2>1. db' \in [Keys -> Hashes \cup {Absent}]
    BY <1>0, <1>14 DEF PruneSome, Without, TypeOK
  <2>2. res' \in Counts
    BY <1>0, <1>14, CountsChange DEF PruneSome, TypeOK
  <2> QED
    BY <2>1, <2>2, <1>0, <1>14 DEF PruneSome, TypeOK, sources
<1>15. CASE PruneDone
  <2>1. res \in Counts /\ End("success", res)
    BY <1>0, <1>15 DEF PruneDone, TypeOK
  <2>2. Ended
    BY <2>1, <1>0 DEF End, TypeOK
  <2> QED
    BY <2>1, <2>2, <1>0, <1>12, <1>15 DEF PruneDone, TypeOK
<1>16. CASE EndDiff
  <2>1. agg \in Counts
    BY <1>0 DEF TypeOK
  <2>2. CASE End("success", agg) /\ UNCHANGED <<type, res>>
    <3>1. Ended
      BY <2>1, <2>2, <1>0 DEF End, TypeOK
    <3> QED
      BY <3>1, <2>2, <1>0, <1>12, <1>16 DEF EndDiff, TypeOK
  <2>3. CASE End("failed", agg) /\ UNCHANGED <<type, res>>
    <3>1. Ended
      BY <2>1, <2>3, <1>0 DEF End, TypeOK
    <3> QED
      BY <3>1, <2>3, <1>0, <1>12, <1>16 DEF EndDiff, TypeOK
  <2>4. CASE type' = "full" /\ pc' = "download" /\ res' = Zero
             /\ UNCHANGED <<last, input, delKeys, batch>>
    BY <2>4, <1>0, <1>16 DEF EndDiff, TypeOK, sources
  <2> QED
    BY <2>2, <2>3, <2>4, <1>16 DEF EndDiff
<1>17. ASSUME NEW r \in Counts
       PROVE  (IF type = "full" THEN [r EXCEPT !.deleted = 0] ELSE agg) \in Counts
  BY <1>0, <1>17, CountsChange DEF TypeOK
<1>18. CASE RunError
  <2> DEFINE c == IF type = "full" THEN [res EXCEPT !.deleted = 0] ELSE agg
  <2>1. c \in Counts /\ End("failed", c)
    BY <1>0, <1>17, <1>18 DEF RunError, TypeOK
  <2> HIDE DEF c
  <2>2. skipStored' \in Nat
    BY <1>0, <1>18 DEF RunError, TypeOK
  <2>3. Ended
    BY <2>1, <1>0 DEF End, TypeOK
  <2> QED
    BY <2>2, <2>3, <1>0, <1>12, <1>18 DEF RunError, TypeOK
<1>19. CASE StoreChunkError
  <2> DEFINE c == IF type = "full" THEN [res' EXCEPT !.deleted = 0] ELSE agg
  <2>1. res' \in Counts
    BY <1>0, <1>19, CountsChange DEF StoreChunkError, TypeOK
  <2>2. c \in Counts /\ End("failed", c)
    BY <2>1, <1>17, <1>19 DEF StoreChunkError
  <2> HIDE DEF c
  <2>3. skipStored' \in Nat
    BY <1>0, <1>19 DEF StoreChunkError, TypeOK
  <2>4. Ended
    BY <2>2, <1>0 DEF End, TypeOK
  <2> QED
    BY <2>1, <2>3, <2>4, <1>0, <1>12, <1>19 DEF StoreChunkError, TypeOK
<1>20. CASE UNCHANGED vars
  BY <1>0, <1>20 DEF vars, TypeOK, sources
<1> QED
  BY <1>1, <1>2, <1>3, <1>4, <1>5, <1>6, <1>8, <1>9, <1>10, <1>11, <1>13, <1>14,
     <1>15, <1>16, <1>18, <1>19, <1>20 DEF Next

LEMMA PhaseStep == Inv /\ [Next]_vars => Phases'
<1> SUFFICES ASSUME Inv, [Next]_vars PROVE Phases'
  OBVIOUS
<1>0. /\ TypeOK /\ Phases
      /\ BatchSize \in Nat \ {0} /\ Len(<<>>) = 0
  BY ApplyAssumption DEF Inv, ApplyAssumption
<1>1. ASSUME NEW req \in {"auto", "full", "diff"}, StartRun(req) PROVE Phases'
  <2>1. type' \in {"full", "diff"}
    BY <1>1 DEF StartRun, Resolve
  <2> QED
    BY <1>0, <1>1, <2>1 DEF StartRun, Phases, sources, InFile
<1>2. CASE OpenFull
  BY <1>0, <1>2 DEF OpenFull, Phases, sources, InFile
<1>3. CASE OpenMonth
  <2>1. month \in DOMAIN window /\ month + 1 \in Nat \ {0}
    <3>1. window \in Seq([add : Seq(Row) \cup {NotFound}, del : Seq(Keys) \cup {NotFound}])
      BY <1>0, ApplyAssumption DEF TypeOK, ApplyAssumption
    <3> QED
      BY <3>1, <1>0, <1>3, LenProperties DEF OpenMonth, Phases
  <2>2. CASE window[month].add = NotFound /\ window[month].del = NotFound
    BY <2>1, <2>2, <1>0, <1>3 DEF OpenMonth, Phases, sources, InFile
  <2>3. CASE ~ (window[month].add = NotFound /\ window[month].del = NotFound)
    <3>1. pc' \in {"rows", "delete"} /\ UNCHANGED month
      BY <2>3, <1>3 DEF OpenMonth
    <3> QED
      BY <3>1, <2>1, <1>0, <1>3 DEF OpenMonth, Phases, sources, InFile
  <2> QED
    BY <2>2, <2>3
<1>4. CASE DeleteSome
  BY <1>0, <1>4 DEF DeleteSome, Phases, sources, InFile
<1>5. CASE DeleteDone
  BY <1>0, <1>5 DEF DeleteDone, Phases, sources, InFile
<1>6. CASE ParseRow
  <2>1. CASE Head(input).key \in SkipKeys
    <3>1. pc' = "rows" /\ UNCHANGED <<batch, seen>>
      BY <2>1, <1>6 DEF ParseRow
    <3> QED
      BY <3>1, <1>0, <1>6 DEF ParseRow, Phases, sources, InFile
  <2>2. CASE Head(input).key \notin SkipKeys
    <3>1. /\ pc' = IF Len(batch') >= BatchSize THEN "flush" ELSE pc
          /\ seen' = IF type = "full" /\ prune THEN seen \cup {Head(input).key} ELSE seen
          /\ batch' = Append(batch, Head(input))
      BY <2>2, <1>6 DEF ParseRow
    <3>2. Len(batch') \in Nat
      BY <3>1, <1>0, <1>6, HeadTailProperties, AppendProperties, LenProperties
         DEF ParseRow, TypeOK
    <3>3. pc' \in {"rows", "flush"} /\ (pc' = "rows" => Len(batch') < BatchSize)
      BY <3>1, <3>2, <1>0, <1>6 DEF ParseRow
    <3>4. type = "diff" => seen' = seen
      BY <3>1
    <3> QED
      BY <3>3, <3>4, <1>0, <1>6 DEF ParseRow, Phases, sources, InFile
  <2> QED
    BY <2>1, <2>2
<1>7. CASE FlushFull
  BY <1>0, <1>7 DEF FlushFull, ApplyBatch, Phases, sources, InFile
<1>8. CASE StoreSkipped
  BY <1>0, <1>8 DEF StoreSkipped, Phases, sources, InFile
<1>9. CASE FlushMonth
  <2>1. applied' # 0 /\ month' \in Nat \ {0}
    BY <1>0, <1>9 DEF FlushMonth, TypeOK
  <2> QED
    BY <2>1, <1>0, <1>9 DEF FlushMonth, ApplyBatch, Phases, sources, InFile
<1>10. CASE FlushFile
  BY <1>0, <1>10 DEF FlushFile, ApplyBatch, Phases, sources, InFile
<1>12. CASE EndFull
  <2>1. pc' = "idle" \/ pc' = "prune"
    BY <1>12 DEF EndFull, End
  <2>2. pc' = "idle" =>
           last'.type = type /\ input' = <<>> /\ batch' = <<>> /\ delKeys' = <<>>
    BY <1>12 DEF EndFull, End
  <2>3. pc' = "prune" => UNCHANGED <<input, batch, delKeys>>
    BY <1>12 DEF EndFull, End
  <2> QED
    BY <2>1, <2>2, <2>3, <1>0, <1>12 DEF EndFull, Phases, sources, InFile
<1>13. CASE PruneSome
  BY <1>0, <1>13 DEF PruneSome, Phases, sources, InFile
<1>14. CASE PruneDone
  BY <1>0, <1>14 DEF PruneDone, End, Phases, sources, InFile
<1>15. CASE EndDiff
  <2>1. CASE pc' = "idle"
    <3>1. /\ last'.type = type /\ type' = type
          /\ input' = <<>> /\ batch' = <<>> /\ delKeys' = <<>>
      BY <2>1, <1>15 DEF EndDiff, End
    <3> QED
      BY <3>1, <2>1, <1>0, <1>15 DEF EndDiff, Phases, sources, InFile
  <2>2. CASE pc' # "idle"
    <3>1. /\ type' = "full" /\ pc' = "download" /\ res' = Zero
          /\ UNCHANGED <<last, input, delKeys, batch>> /\ applied = 0
      BY <2>2, <1>0, <1>15 DEF EndDiff, End, TypeOK
    <3> QED
      BY <3>1, <1>0, <1>15 DEF EndDiff, Phases, sources, InFile
  <2> QED
    BY <2>1, <2>2
<1>16. CASE RunError
  BY <1>0, <1>16 DEF RunError, End, Phases, sources, InFile
<1>17. CASE StoreChunkError
  BY <1>0, <1>17 DEF StoreChunkError, End, Phases, sources, InFile
<1>18. CASE UNCHANGED vars
  BY <1>0, <1>18 DEF vars, Phases, sources, InFile
<1> QED
  BY <1>1, <1>2, <1>3, <1>4, <1>5, <1>6, <1>7, <1>8, <1>9, <1>10, <1>12, <1>13,
     <1>14, <1>15, <1>16, <1>17, <1>18 DEF Next

\* The files that are opened have a key once, and parsing only moves a row.
LEMMA DistinctStep == Inv /\ [Next]_vars => DistinctPending'
<1> SUFFICES ASSUME Inv, [Next]_vars PROVE DistinctPending'
  OBVIOUS
<1>0. TypeOK /\ Phases /\ DistinctPending /\ TypeOK' /\ Phases'
  BY TypeStep, PhaseStep DEF Inv
<1>1. DOMAIN (<<>>) = {}
  OBVIOUS
<1>2. CASE UNCHANGED <<input, batch>>
  BY <1>0, <1>2 DEF DistinctPending, UniqueKeys
<1>3. CASE batch' = <<>> /\ (input' = <<>> \/ input' = input \/ UniqueKeys(input'))
  BY <1>0, <1>1, <1>3 DEF DistinctPending, UniqueKeys
<1>4. CASE OpenFull
  <2>1. UniqueKeys(input') /\ batch' = <<>>
    BY <1>0, <1>4, FullType DEF OpenFull, Phases, InFile
  <2> QED
    BY <2>1, <1>3
<1>5. CASE OpenMonth
  <2>1. batch' = <<>>
    BY <1>0, <1>5 DEF OpenMonth, Phases, InFile
  <2>2. CASE window[month].add = NotFound /\ window[month].del = NotFound
    BY <2>2, <1>2, <1>5 DEF OpenMonth
  <2>3. CASE ~ (window[month].add = NotFound /\ window[month].del = NotFound)
    <3>1. month \in DOMAIN window
      BY <2>3, <1>0, <1>5 DEF OpenMonth, Phases, InFile
    <3>2. input' = <<>> \/ (input' = window[month].add /\ window[month].add # NotFound)
      BY <2>3, <1>5 DEF OpenMonth
    <3>3. input' = <<>> \/ UniqueKeys(input')
      BY <3>1, <3>2, <1>0, MonthType
    <3> QED
      BY <3>3, <2>1, <1>3
  <2> QED
    BY <2>2, <2>3
<1>6. CASE ParseRow
  <2>1. /\ input \in Seq(Row) /\ batch \in Seq(Row) /\ input # <<>>
        /\ Head(input) = input[1] /\ Head(input) \in Row
    BY <1>0, <1>6, HeadTailProperties DEF ParseRow, TypeOK
  <2>2. /\ DOMAIN input = 1..Len(input) /\ Len(input) \in Nat \ {0}
        /\ DOMAIN batch = 1..Len(batch) /\ Len(batch) \in Nat
    BY <2>1, LenProperties, EmptySeq
  <2>3. /\ DOMAIN Tail(input) = 1..(Len(input) - 1)
        /\ \A i \in DOMAIN Tail(input) : i + 1 \in DOMAIN input /\ Tail(input)[i] = input[i + 1]
    BY <2>1, <2>2, HeadTailProperties, LenProperties
  <2>4. input' = Tail(input)
    BY <1>6 DEF ParseRow
  <2>5. UniqueKeys(input')
    BY <2>2, <2>3, <2>4, <1>0 DEF DistinctPending, UniqueKeys
  <2>6. \A i \in DOMAIN input', j \in DOMAIN batch : input'[i].key # batch[j].key
    BY <2>3, <2>4, <1>0 DEF DistinctPending
  <2>7. CASE Head(input).key \in SkipKeys
    <3>1. batch' = batch
      BY <2>7, <1>6 DEF ParseRow
    <3> QED
      BY <3>1, <2>5, <2>6, <1>0 DEF DistinctPending, UniqueKeys
  <2>8. CASE Head(input).key \notin SkipKeys
    <3>1. batch' = Append(batch, Head(input))
      BY <2>8, <1>6 DEF ParseRow
    <3>2. /\ DOMAIN batch' = 1..(Len(batch) + 1)
          /\ \A j \in DOMAIN batch : batch'[j] = batch[j]
          /\ batch'[Len(batch) + 1] = input[1]
      BY <3>1, <2>1, <2>2, AppendProperties, LenProperties
    <3>3. 1 \in DOMAIN input
      BY <2>2
    <3>4. \A i \in DOMAIN input' : input'[i].key # input[1].key
      BY <2>2, <2>3, <2>4, <3>3, <1>0 DEF DistinctPending, UniqueKeys
    <3>5. \A j \in DOMAIN batch : batch[j].key # input[1].key
      BY <3>3, <1>0 DEF DistinctPending
    <3>6. \A j \in DOMAIN batch' : j \in DOMAIN batch \/ j = Len(batch) + 1
      BY <3>2, <2>2
    <3>7. UniqueKeys(batch')
      BY <3>2, <3>5, <3>6, <1>0 DEF DistinctPending, UniqueKeys
    <3>8. \A i \in DOMAIN input', j \in DOMAIN batch' : input'[i].key # batch'[j].key
      BY <3>2, <3>4, <3>6, <2>6
    <3>9. \A j \in DOMAIN batch' : batch'[j].key \notin SkipKeys
      BY <3>2, <3>6, <2>1, <2>8, <1>0 DEF DistinctPending
    <3> QED
      BY <3>7, <3>8, <3>9, <2>5 DEF DistinctPending
  <2> QED
    BY <2>7, <2>8
<1>7. CASE FlushFull \/ FlushMonth \/ FlushFile
  <2>1. batch' = <<>> /\ input' = input
    BY <1>7 DEF FlushFull, FlushMonth, FlushFile, ApplyBatch
  <2> QED
    BY <2>1, <1>3
<1>8. CASE EndFull \/ EndDiff \/ PruneDone \/ RunError \/ StoreChunkError
  <2>1. UNCHANGED <<input, batch>> \/ (input' = <<>> /\ batch' = <<>>)
    BY <1>8 DEF EndFull, EndDiff, PruneDone, RunError, StoreChunkError, End
  <2> QED
    BY <2>1, <1>2, <1>3
<1>9. ASSUME NEW req \in {"auto", "full", "diff"}, StartRun(req)
      PROVE  UNCHANGED <<input, batch>>
  BY <1>9 DEF StartRun
<1>10. CASE DeleteSome \/ DeleteDone \/ StoreSkipped \/ PruneSome \/ UNCHANGED vars
  <2>1. UNCHANGED <<input, batch>>
    BY <1>10 DEF DeleteSome, DeleteDone, StoreSkipped, PruneSome, vars
  <2> QED
    BY <2>1, <1>2
<1> QED
  BY <1>2, <1>4, <1>5, <1>6, <1>7, <1>8, <1>9, <1>10 DEF Next

-----------------------------------------------------------------------------
(* Where a full run is in its file. *)

\* The parsed row leaves the input and, when it is kept, joins the batch.
LEMMA Parsed ==
    ASSUME TypeOK, ParseRow
    PROVE  LET r == Head(input) IN
           /\ r \in Row /\ Among(r, input)
           /\ \A i \in DOMAIN input' : Among(input'[i], input)
           /\ \A q : Among(q, input) => q = r \/ Among(q, input')
           /\ KeysOf(input) \subseteq KeysOf(input') \cup {r.key}
           /\ r.key \in SkipKeys => batch' = batch /\ seen' = seen
           /\ r.key \notin SkipKeys =>
                 /\ \A i \in DOMAIN batch' : batch'[i] = r \/ Among(batch'[i], batch)
                 /\ \A q : q = r \/ Among(q, batch) => Among(q, batch')
                 /\ seen' = IF type = "full" /\ prune THEN seen \cup {r.key} ELSE seen
<1> DEFINE r == Head(input)
<1>1. /\ input \in Seq(Row) /\ batch \in Seq(Row) /\ input # <<>>
      /\ r = input[1] /\ r \in Row /\ input' = Tail(input)
  BY HeadTailProperties DEF ParseRow, TypeOK
<1>2. /\ DOMAIN input = 1..Len(input) /\ Len(input) \in Nat \ {0}
      /\ DOMAIN batch = 1..Len(batch) /\ Len(batch) \in Nat
  BY <1>1, LenProperties, EmptySeq
<1>3. /\ DOMAIN input' = 1..(Len(input) - 1)
      /\ \A i \in DOMAIN input' : i + 1 \in DOMAIN input /\ input'[i] = input[i + 1]
  BY <1>1, <1>2, HeadTailProperties, LenProperties
<1>4. \A i \in DOMAIN input : i = 1 \/ (i - 1 \in DOMAIN input' /\ input'[i - 1] = input[i])
  BY <1>2, <1>3
<1>5. Among(r, input)
  BY <1>1, <1>2 DEF Among
<1>6. \A i \in DOMAIN input' : Among(input'[i], input)
  BY <1>3 DEF Among
<1>7. \A q : Among(q, input) => q = r \/ Among(q, input')
  BY <1>1, <1>4 DEF Among
<1>8. KeysOf(input) \subseteq KeysOf(input') \cup {r.key}
  <2> SUFFICES ASSUME NEW i \in DOMAIN input
               PROVE  input[i].key \in KeysOf(input') \cup {r.key}
    BY DEF KeysOf
  <2>1. CASE i = 1
    BY <2>1, <1>1
  <2>2. CASE i # 1
    <3>1. i - 1 \in DOMAIN input' /\ input'[i - 1].key = input[i].key
      BY <2>2, <1>4
    <3> QED
      BY <3>1 DEF KeysOf
  <2> QED
    BY <2>1, <2>2
<1>9. r.key \in SkipKeys => batch' = batch /\ seen' = seen
  BY DEF ParseRow
<1>10. ASSUME r.key \notin SkipKeys
       PROVE  /\ \A i \in DOMAIN batch' : batch'[i] = r \/ Among(batch'[i], batch)
              /\ \A q : q = r \/ Among(q, batch) => Among(q, batch')
              /\ seen' = IF type = "full" /\ prune THEN seen \cup {r.key} ELSE seen
  <2>1. /\ batch' = Append(batch, r)
        /\ seen' = IF type = "full" /\ prune THEN seen \cup {r.key} ELSE seen
    BY <1>10 DEF ParseRow
  <2>2. /\ DOMAIN batch' = 1..(Len(batch) + 1)
        /\ \A j \in DOMAIN batch : j \in DOMAIN batch' /\ batch'[j] = batch[j]
        /\ batch'[Len(batch) + 1] = r
        /\ Len(batch) + 1 \in DOMAIN batch'
    BY <2>1, <1>1, <1>2, AppendProperties, LenProperties
  <2>3. \A j \in DOMAIN batch' : j \in DOMAIN batch \/ j = Len(batch) + 1
    BY <2>2, <1>2
  <2> QED
    BY <2>1, <2>2, <2>3 DEF Among
<1> QED
  BY <1>1, <1>5, <1>6, <1>7, <1>8, <1>9, <1>10

LEMMA BodyStep == Inv /\ [Next]_vars => FullBody'
<1> SUFFICES ASSUME Inv, [Next]_vars,
                    type' = "full", pc' \in InFile \cup {"counted", "prune"}
             PROVE  FullBody'
  BY DEF FullBody, InFile
<1>0. TypeOK /\ Phases /\ DistinctPending /\ FullBody
  BY DEF Inv
<1>1. DOMAIN (<<>>) = {} /\ \A q : ~ Among(q, <<>>)
  BY DEF Among
<1>2. CASE OpenFull
  <2>1. /\ input' = full /\ batch' = <<>> /\ db' = base' /\ seen' = {} /\ pc' = "rows"
        /\ UNCHANGED <<full, prune>>
    BY <1>0, <1>2 DEF OpenFull, Phases, InFile, sources
  <2>2. \A i \in DOMAIN full : Among(full[i], full)
    BY DEF Among
  <2>3. Listed(full) \subseteq KeysOf(full)
    BY DEF Listed
  <2> QED
    BY <2>1, <2>2, <2>3, <1>1 DEF FullBody
<1>3. CASE ParseRow
  <2> DEFINE r == Head(input)
  <2>1. /\ type = "full" /\ pc = "rows" /\ pc' \in InFile
        /\ UNCHANGED <<full, prune, db, base>>
    BY <1>3 DEF ParseRow, sources, InFile
  <2>2. /\ \A i \in DOMAIN input : Among(input[i], full)
        /\ \A i \in DOMAIN batch : Among(batch[i], full)
        /\ \A i \in DOMAIN full :
              full[i].key \notin SkipKeys =>
                  \/ Among(full[i], input)
                  \/ Among(full[i], batch)
                  \/ db[full[i].key] = full[i].hash
        /\ \A k \in Keys \ Listed(full) : db[k] = base[k]
        /\ prune => seen \subseteq Listed(full) /\ Listed(full) \subseteq seen \cup KeysOf(input)
    BY <2>1, <1>0 DEF FullBody, InFile
  <2>3. /\ r \in Row /\ Among(r, input)
        /\ \A i \in DOMAIN input' : Among(input'[i], input)
        /\ \A q : Among(q, input) => q = r \/ Among(q, input')
        /\ KeysOf(input) \subseteq KeysOf(input') \cup {r.key}
        /\ r.key \in SkipKeys => batch' = batch /\ seen' = seen
        /\ r.key \notin SkipKeys =>
              /\ \A i \in DOMAIN batch' : batch'[i] = r \/ Among(batch'[i], batch)
              /\ \A q : q = r \/ Among(q, batch) => Among(q, batch')
              /\ seen' = IF type = "full" /\ prune THEN seen \cup {r.key} ELSE seen
    BY <1>0, <1>3, Parsed
  <2> HIDE DEF r
  <2>4. \A q : Among(q, input) => Among(q, full)
    BY <2>2 DEF Among
  <2>5. \A i \in DOMAIN input' : Among(input'[i], full)
    BY <2>3, <2>4
  <2>6. \A i \in DOMAIN batch' : Among(batch'[i], full)
    <3>1. CASE r.key \in SkipKeys
      BY <3>1, <2>2, <2>3
    <3>2. CASE r.key \notin SkipKeys
      BY <3>2, <2>2, <2>3, <2>4 DEF Among
    <3> QED
      BY <3>1, <3>2
  <2>7. ASSUME NEW i \in DOMAIN full, full[i].key \notin SkipKeys
        PROVE  \/ Among(full[i], input')
               \/ Among(full[i], batch')
               \/ db[full[i].key] = full[i].hash
    <3>1. CASE r.key \in SkipKeys
      BY <3>1, <2>2, <2>3, <2>7
    <3>2. CASE r.key \notin SkipKeys
      BY <3>2, <2>2, <2>3, <2>7
    <3> QED
      BY <3>1, <3>2
  <2>8. ASSUME prune
        PROVE  seen' \subseteq Listed(full) /\ Listed(full) \subseteq seen' \cup KeysOf(input')
    <3>1. CASE r.key \in SkipKeys
      BY <3>1, <2>2, <2>3, <2>8 DEF Listed
    <3>2. CASE r.key \notin SkipKeys
      <4>1. r.key \in Listed(full)
        BY <3>2, <2>3, <2>4 DEF Listed, KeysOf, Among
      <4> QED
        BY <4>1, <3>2, <2>1, <2>2, <2>3, <2>8
    <3> QED
      BY <3>1, <3>2
  <2> QED
    BY <2>1, <2>2, <2>5, <2>6, <2>7, <2>8 DEF FullBody, InFile
<1>4. CASE FlushFull \/ FlushFile
  <2>1. /\ ApplyBatch /\ pc \in InFile /\ pc' \in {"rows", "counted"}
        /\ UNCHANGED <<full, prune, base, input, seen, type>>
    BY <1>4 DEF FlushFull, FlushFile, sources, InFile
  <2>2. /\ \A i \in DOMAIN batch : db'[batch[i].key] = batch[i].hash
        /\ \A k \in Keys : k \notin KeysOf(batch) => db'[k] = db[k]
        /\ batch' = <<>>
    BY <2>1, <1>0, Applied
  <2>3. /\ \A i \in DOMAIN input : Among(input[i], full)
        /\ \A i \in DOMAIN batch : Among(batch[i], full)
        /\ \A i \in DOMAIN full :
              full[i].key \notin SkipKeys =>
                  \/ Among(full[i], input)
                  \/ Among(full[i], batch)
                  \/ db[full[i].key] = full[i].hash
        /\ \A k \in Keys \ Listed(full) : db[k] = base[k]
        /\ prune => seen \subseteq Listed(full) /\ Listed(full) \subseteq seen \cup KeysOf(input)
    BY <2>1, <1>0 DEF FullBody, InFile
  <2>4. ASSUME NEW i \in DOMAIN full, full[i].key \notin SkipKeys, ~ Among(full[i], input)
        PROVE  db'[full[i].key] = full[i].hash
    <3>1. CASE Among(full[i], batch)
      BY <3>1, <2>2 DEF Among
    <3>2. CASE full[i].key \notin KeysOf(batch)
      <4>1. full[i].key \in Keys
        BY <1>0, FullType DEF Row
      <4> QED
        BY <4>1, <3>2, <2>2, <2>3, <2>4 DEF Among, KeysOf
    <3>3. CASE full[i].key \in KeysOf(batch)
      <4>1. PICK j \in DOMAIN batch : batch[j].key = full[i].key
        BY <3>3 DEF KeysOf
      <4>2. PICK h \in DOMAIN full : full[h] = batch[j]
        BY <2>3 DEF Among
      <4>3. h = i
        BY <4>1, <4>2, <1>0, FullType DEF UniqueKeys
      <4> QED
        BY <4>1, <4>2, <4>3, <2>2
    <3> QED
      BY <3>1, <3>2, <3>3
  <2>5. ASSUME NEW k \in Keys \ Listed(full)
        PROVE  db'[k] = base[k]
    <3>1. k \notin KeysOf(batch)
      BY <2>3, <1>0 DEF DistinctPending, KeysOf, Listed, Among
    <3> QED
      BY <3>1, <2>2, <2>3
  <2> QED
    BY <2>1, <2>2, <2>3, <2>4, <2>5, <1>1 DEF FullBody
<1>5. CASE StoreSkipped
  BY <1>0, <1>5 DEF StoreSkipped, FullBody, sources, InFile
<1>6. CASE EndFull
  <2>1. pc' = "prune" /\ prune /\ Len(full) >= MinRows /\ UNCHANGED <<input, batch>>
    <3>1. pc' # "idle"
      BY DEF InFile
    <3>2. Len(full) \in Nat /\ MinRows \in Nat
      BY <1>0, FullType, ApplyAssumption DEF ApplyAssumption
    <3> QED
      BY <3>1, <3>2, <1>6 DEF EndFull, End
  <2> QED
    BY <2>1, <1>0, <1>6 DEF EndFull, FullBody, sources, InFile
<1>7. CASE PruneSome
  <2>1. /\ pc = "prune" /\ pc' = "prune" /\ type = "full"
        /\ UNCHANGED <<full, prune, base, input, batch, seen>>
    BY <1>7 DEF PruneSome, sources
  <2>2. PICK k \in StaleKeys : db' = Without(db, {k})
    BY <1>7 DEF PruneSome
  <2>3. input = <<>> /\ KeysOf(input) = {}
    BY <2>1, <1>0 DEF Phases, KeysOf
  <2>4. prune /\ seen \subseteq Listed(full) /\ Listed(full) \subseteq seen
    BY <2>1, <2>3, <1>0 DEF FullBody
  <2>5. k \notin Listed(full)
    BY <2>2, <2>4 DEF StaleKeys
  <2>6. \A i \in DOMAIN full : full[i].key \notin SkipKeys => full[i].key # k /\ full[i].key \in Keys
    BY <2>5, <1>0, FullType DEF Listed, KeysOf, Row
  <2>7. \A q \in Keys : db'[q] = IF q = k THEN Absent ELSE db[q]
    BY <2>2 DEF Without
  <2> QED
    BY <2>1, <2>4, <2>6, <2>7, <1>0 DEF FullBody
<1>8. ASSUME NEW req \in {"auto", "full", "diff"}, StartRun(req) PROVE FALSE
  BY <1>8 DEF StartRun, InFile
<1>9. CASE OpenMonth \/ DeleteSome \/ DeleteDone \/ FlushMonth
  BY <1>0, <1>9 DEF OpenMonth, DeleteSome, DeleteDone, FlushMonth, Phases
<1>10. CASE PruneDone \/ EndDiff \/ RunError \/ StoreChunkError
  <2>1. pc' \in {"idle", "download"} \/ (EndDiff /\ type' = "diff")
    BY <1>0, <1>10 DEF PruneDone, EndDiff, RunError, StoreChunkError, End, Phases
  <2> QED
    BY <2>1 DEF InFile
<1>11. CASE UNCHANGED vars
  BY <1>0, <1>11 DEF vars, FullBody, sources
<1> QED
  BY <1>2, <1>3, <1>4, <1>5, <1>6, <1>7, <1>8, <1>9, <1>10, <1>11 DEF Next

-----------------------------------------------------------------------------
(* What is due. *)

\* At the start of a month its rows and its keys are all to come.
LEMMA MonthDue ==
    ASSUME TypeOK, month \in DOMAIN window, NEW add, NEW del,
           LET m == window[month] IN
             /\ add = IF m.add = NotFound THEN <<>> ELSE m.add
             /\ del = IF m.del = NotFound THEN <<>> ELSE m.del
    PROVE  LET after == MonthResult(due, window[month]) IN
           /\ \A i \in DOMAIN add :
                 add[i].key \notin SkipKeys => after[add[i].key] = add[i].hash
           /\ \A k \in Keys \ Listed(add) :
                 after[k] = IF \E i \in DOMAIN del : del[i] = k THEN Absent ELSE due[k]
<1> DEFINE m == window[month]
           e == IF m.del = NotFound THEN due ELSE Without(due, {m.del[i] : i \in DOMAIN m.del})
           after == MonthResult(due, m)
<1>1. m.add # NotFound => m.add \in Seq(Row) /\ UniqueKeys(m.add)
  BY MonthType
<1>2. DOMAIN (<<>>) = {}
  OBVIOUS
<1> DEFINE gone(k) == \E i \in DOMAIN del : del[i] = k
<1>3. \A k \in Keys : e[k] = IF gone(k) THEN Absent ELSE due[k]
  <2>1. CASE m.del = NotFound
    BY <2>1, <1>2
  <2>2. CASE m.del # NotFound
    <3>1. \A k \in Keys : e[k] = IF k \in {del[i] : i \in DOMAIN del} THEN Absent ELSE due[k]
      BY <2>2 DEF Without
    <3> QED
      BY <3>1
  <2> QED
    BY <2>1, <2>2
<1>4. after = IF m.add = NotFound THEN e ELSE With(e, m.add)
  BY DEF MonthResult
<1> HIDE DEF e, after, gone
<1> DEFINE Post == /\ \A i \in DOMAIN add :
                        add[i].key \notin SkipKeys => after[add[i].key] = add[i].hash
                   /\ \A k \in Keys \ Listed(add) :
                        after[k] = IF gone(k) THEN Absent ELSE due[k]
<1>5. ASSUME m.add = NotFound PROVE Post
  <2>1. after = e /\ DOMAIN add = {}
    BY <1>2, <1>4, <1>5
  <2> QED
    BY <2>1, <1>3
<1>6. ASSUME m.add # NotFound PROVE Post
  <2>1. add = m.add /\ after = With(e, add) /\ add \in Seq(Row) /\ UniqueKeys(add)
    BY <1>1, <1>4, <1>6
  <2>2. /\ \A i \in DOMAIN add : add[i].key \notin SkipKeys => after[add[i].key] = add[i].hash
        /\ \A k \in Keys \ Listed(add) : after[k] = e[k]
    <3>1. /\ \A i \in DOMAIN add :
                add[i].key \notin SkipKeys => With(e, add)[add[i].key] = add[i].hash
          /\ \A k \in Keys \ Listed(add) : With(e, add)[k] = e[k]
      BY <2>1, WithIs, ZenonT(30)
    <3>2. after = With(e, add)
      BY <2>1
    <3> QED
      BY <3>1, <3>2, Zenon
  <2> QED
    BY <2>2, <1>3
<1> QED
  BY <1>5, <1>6 DEF after, gone

LEMMA DueStep == Inv /\ [Next]_vars => DueBody'
<1> SUFFICES ASSUME Inv, [Next]_vars, pc' # "idle" PROVE DueBody'
  BY DEF DueBody, InFile
<1>0. TypeOK /\ Phases /\ DistinctPending /\ FullBody /\ DueBody /\ TypeOK' /\ Phases'
  BY TypeStep, PhaseStep DEF Inv
<1>1. DOMAIN (<<>>) = {} /\ KeysOf(<<>>) = {} /\ Listed(<<>>) = {}
  BY DEF KeysOf, Listed
<1>2. ASSUME UNCHANGED <<base, full, prune>>
      PROVE  FullResult(base, full)' = FullResult(base, full)
  BY <1>2 DEF FullResult, With, Without, Listed, KeysOf
<1>3. CASE type' = "full" /\ UNCHANGED <<type, base, due, full, prune>>
           /\ pc \in InFile \cup {"counted", "prune"}
  BY <1>0, <1>2, <1>3 DEF DueBody, Phases
<1>4. ASSUME NEW req \in {"auto", "full", "diff"}, StartRun(req) PROVE DueBody'
  <2>1. pc' \in {"download", "month"} /\ due' = db /\ db' = db
    BY <1>4 DEF StartRun
  <2> QED
    BY <2>1 DEF DueBody, InFile
<1>5. CASE OpenFull
  <2>1. /\ type' = "full" /\ pc' = "rows" /\ UNCHANGED <<base, full, prune>>
        /\ due' = FullResult(base, full)
    BY <1>0, <1>5 DEF OpenFull, sources, Phases
  <2> QED
    BY <2>1, <1>2 DEF DueBody
<1>6. CASE OpenMonth
  <2>1. /\ pc = "month" /\ type' = "diff" /\ due = db /\ UNCHANGED <<db, window, batch>>
        /\ due' = MonthResult(due, window[month]) /\ batch = <<>>
    BY <1>0, <1>6 DEF OpenMonth, sources, Phases, DueBody, InFile
  <2>2. CASE window[month].add = NotFound /\ window[month].del = NotFound
    <3>1. pc' = "month" /\ due' = due
      BY <2>1, <2>2, <1>6 DEF OpenMonth, MonthResult
    <3> QED
      BY <3>1, <2>1 DEF DueBody, InFile
  <2>3. CASE ~ (window[month].add = NotFound /\ window[month].del = NotFound)
    <3>1. /\ pc' \in {"rows", "delete"} /\ month' = month
          /\ input' = IF window[month].add = NotFound THEN <<>> ELSE window[month].add
          /\ delKeys' = IF window[month].del = NotFound THEN <<>> ELSE window[month].del
      BY <2>3, <1>6 DEF OpenMonth
    <3>2. month \in DOMAIN window
      BY <2>1, <3>1, <1>0 DEF Phases, InFile
    <3>3. /\ \A i \in DOMAIN input' :
                input'[i].key \notin SkipKeys => due'[input'[i].key] = input'[i].hash
          /\ \A k \in Keys \ Listed(input') :
                due'[k] = IF \E i \in DOMAIN delKeys' : delKeys'[i] = k THEN Absent ELSE due[k]
      BY <2>1, <3>1, <3>2, <1>0, MonthDue
    <3>4. DOMAIN batch' = {} /\ KeysOf(batch') = {}
      BY <2>1, <1>1
    <3> QED
      BY <2>1, <3>1, <3>3, <3>4 DEF DueBody, InFile, ToDelete
  <2> QED
    BY <2>2, <2>3
<1>7. CASE DeleteSome
  <2>1. /\ pc = "delete" /\ pc' = "delete" /\ type = "diff" /\ type' = "diff"
        /\ UNCHANGED <<due, input, batch>>
    BY <1>0, <1>7 DEF DeleteSome, Phases
  <2>2. delKeys \in Seq(Keys) /\ DOMAIN delKeys = 1..Len(delKeys) /\ Len(delKeys) \in Nat
    BY <1>0, LenProperties DEF TypeOK
  <2>3. PICK n \in 0..Len(delKeys) :
           /\ db' = Without(db, {delKeys[i] : i \in 1..n})
           /\ delKeys' = SubSeq(delKeys, n + 1, Len(delKeys))
    <3> DEFINE n == IF Len(delKeys) < DeleteChunk THEN Len(delKeys) ELSE DeleteChunk
    <3>1. n \in 0..Len(delKeys)
      BY <2>2, ApplyAssumption DEF ApplyAssumption
    <3>2. /\ db' = Without(db, {delKeys[i] : i \in 1..n})
          /\ delKeys' = SubSeq(delKeys, n + 1, Len(delKeys))
      BY <1>7 DEF DeleteSome
    <3> HIDE DEF n
    <3> QED
      BY <3>1, <3>2
  <2>4. /\ DOMAIN delKeys' = 1..(Len(delKeys) - n)
        /\ \A i \in DOMAIN delKeys' : delKeys'[i] = delKeys[n + i]
    <3>1. \A i \in n + 1 .. Len(delKeys) : delKeys[i] \in Keys
      BY <2>2, ElementOfSeq
    <3>2. /\ delKeys' \in Seq(Keys)
          /\ Len(delKeys') = IF n + 1 <= Len(delKeys) THEN Len(delKeys) - (n + 1) + 1 ELSE 0
          /\ \A i \in 1 .. Len(delKeys) - (n + 1) + 1 : delKeys'[i] = delKeys[(n + 1) + i - 1]
      BY <3>1, <2>2, <2>3, SubSeqProperties
    <3> QED
      BY <3>2, <2>2, <2>3, LenProperties
  <2>5. ASSUME NEW k \in Keys
        PROVE  (IF ToDelete(k)' THEN Absent ELSE db'[k]) = IF ToDelete(k) THEN Absent ELSE db[k]
    <3>1. CASE \E i \in 1..n : delKeys[i] = k
      <4>1. ToDelete(k) /\ db'[k] = Absent
        BY <3>1, <2>2, <2>3 DEF ToDelete, Without
      <4> QED
        BY <4>1
    <3>2. CASE ~ \E i \in 1..n : delKeys[i] = k
      <4>1. db'[k] = db[k]
        BY <3>2, <2>3 DEF Without
      <4>2. ToDelete(k)' => ToDelete(k)
        BY <2>2, <2>3, <2>4 DEF ToDelete
      <4>3. ASSUME ToDelete(k) PROVE ToDelete(k)'
        <5>1. PICK i \in DOMAIN delKeys : delKeys[i] = k
          BY <4>3 DEF ToDelete
        <5>2. i - n \in DOMAIN delKeys' /\ delKeys'[i - n] = k
          BY <5>1, <3>2, <2>2, <2>3, <2>4
        <5> QED
          BY <5>2 DEF ToDelete
      <4> QED
        BY <4>1, <4>2, <4>3
    <3> QED
      BY <3>1, <3>2
  <2> QED
    BY <2>1, <2>5, <1>0 DEF DueBody, InFile, Listed, KeysOf
<1>8. CASE DeleteDone \/ StoreSkipped \/ UNCHANGED vars
  <2>1. /\ UNCHANGED <<type, base, full, prune, due, db, input, delKeys, batch>>
        /\ pc' = pc \/ (pc \in {"delete", "rows"} /\ pc' \in InFile)
    BY <1>8 DEF DeleteDone, StoreSkipped, vars, sources, InFile
  <2>2. DeleteDone => type = "diff"
    BY <1>0 DEF DeleteDone, Phases
  <2>3. type' = "full" => pc \in InFile \cup {"counted", "prune"} \/ pc' = "download"
    BY <2>1, <2>2, <1>0, <1>8 DEF Phases, DeleteDone, StoreSkipped, vars, InFile, TypeOK
  <2>4. CASE type' = "full"
    BY <2>1, <2>3, <2>4, <1>3 DEF DueBody, InFile
  <2>5. CASE type' = "diff"
    BY <2>1, <2>5, <1>0 DEF DueBody, InFile, Listed, KeysOf, ToDelete
  <2> QED
    BY <2>1, <2>4, <2>5, <1>0 DEF Phases
<1>9. CASE ParseRow
  <2>1. /\ pc = "rows" /\ pc' \in {"rows", "flush"}
        /\ UNCHANGED <<type, base, full, prune, due, db, delKeys>>
    BY <1>9 DEF ParseRow, sources
  <2>2. CASE type = "full"
    BY <2>1, <2>2, <1>3 DEF InFile
  <2>3. CASE type = "diff"
    <3> DEFINE r == Head(input)
    <3>1. /\ r \in Row /\ Among(r, input)
          /\ \A i \in DOMAIN input' : Among(input'[i], input)
          /\ KeysOf(input) \subseteq KeysOf(input') \cup {r.key}
          /\ r.key \in SkipKeys => batch' = batch
          /\ r.key \notin SkipKeys =>
                /\ \A i \in DOMAIN batch' : batch'[i] = r \/ Among(batch'[i], batch)
                /\ \A q : q = r \/ Among(q, batch) => Among(q, batch')
      BY <1>0, <1>9, Parsed
    <3> HIDE DEF r
    <3>2. /\ \A i \in DOMAIN input :
                input[i].key \notin SkipKeys => due[input[i].key] = input[i].hash
          /\ \A i \in DOMAIN batch : due[batch[i].key] = batch[i].hash
          /\ \A k \in Keys \ (Listed(input) \cup KeysOf(batch)) :
                due[k] = IF ToDelete(k) THEN Absent ELSE db[k]
      BY <2>1, <2>3, <1>0 DEF DueBody, InFile
    <3>3. \A q : Among(q, input) /\ q.key \notin SkipKeys => due[q.key] = q.hash
      BY <3>2 DEF Among
    <3>4. \A i \in DOMAIN input' :
             input'[i].key \notin SkipKeys => due'[input'[i].key] = input'[i].hash
      BY <3>1, <3>3, <2>1
    <3>5. \A i \in DOMAIN batch' : due'[batch'[i].key] = batch'[i].hash
      <4>1. CASE r.key \in SkipKeys
        BY <4>1, <3>1, <3>2, <2>1
      <4>2. CASE r.key \notin SkipKeys
        BY <4>2, <3>1, <3>2, <3>3, <2>1 DEF Among
      <4> QED
        BY <4>1, <4>2
    <3>6. Listed(input) \cup KeysOf(batch) \subseteq Listed(input') \cup KeysOf(batch')
      <4>1. CASE r.key \in SkipKeys
        BY <4>1, <3>1 DEF Listed
      <4>2. CASE r.key \notin SkipKeys
        <5>1. r.key \in KeysOf(batch')
          BY <4>2, <3>1 DEF KeysOf, Among
        <5>2. KeysOf(batch) \subseteq KeysOf(batch')
          <6> SUFFICES ASSUME NEW i \in DOMAIN batch PROVE batch[i].key \in KeysOf(batch')
            BY DEF KeysOf
          <6>1. Among(batch[i], batch')
            BY <4>2, <3>1 DEF Among
          <6> QED
            BY <6>1 DEF KeysOf, Among
        <5> QED
          BY <5>1, <5>2, <3>1 DEF Listed
      <4> QED
        BY <4>1, <4>2
    <3>7. \A k \in Keys \ (Listed(input') \cup KeysOf(batch')) :
             due'[k] = IF ToDelete(k)' THEN Absent ELSE db'[k]
      BY <3>2, <3>6, <2>1 DEF ToDelete
    <3> QED
      BY <3>4, <3>5, <3>7, <2>1, <2>3 DEF DueBody, InFile
  <2> QED
    BY <2>1, <2>2, <2>3, <1>0 DEF Phases
<1>10. CASE FlushFull \/ FlushMonth \/ FlushFile
  <2>1. /\ ApplyBatch /\ pc \in InFile /\ pc' \in {"rows", "month", "counted"}
        /\ UNCHANGED <<type, base, full, prune, due, input, delKeys>>
    BY <1>10 DEF FlushFull, FlushMonth, FlushFile, sources, InFile
  <2>2. CASE type = "full"
    BY <2>1, <2>2, <1>3
  <2>3. CASE type = "diff"
    <3>1. /\ \A i \in DOMAIN batch : db'[batch[i].key] = batch[i].hash
          /\ \A k \in Keys : k \notin KeysOf(batch) => db'[k] = db[k]
          /\ batch' = <<>>
      BY <2>1, <1>0, Applied
    <3>2. /\ \A i \in DOMAIN input :
                input[i].key \notin SkipKeys => due[input[i].key] = input[i].hash
          /\ \A i \in DOMAIN batch : due[batch[i].key] = batch[i].hash
          /\ \A k \in Keys \ (Listed(input) \cup KeysOf(batch)) :
                due[k] = IF ToDelete(k) THEN Absent ELSE db[k]
      BY <2>1, <2>3, <1>0 DEF DueBody
    <3>3. delKeys = <<>> /\ \A k : ~ ToDelete(k)
      BY <2>1, <1>0, <1>1 DEF Phases, InFile, ToDelete
    <3>4. ASSUME NEW k \in Keys \ Listed(input) PROVE due[k] = db'[k]
      <4>1. CASE k \in KeysOf(batch)
        BY <4>1, <3>1, <3>2 DEF KeysOf
      <4>2. CASE k \notin KeysOf(batch)
        BY <4>2, <3>1, <3>2, <3>3
      <4> QED
        BY <4>1, <4>2
    <3>5. CASE pc' = "month"
      <4>1. input = <<>>
        BY <2>1, <3>5, <1>0 DEF Phases
      <4>2. \A k \in Keys : due'[k] = db'[k]
        BY <4>1, <3>4, <2>1, <1>1
      <4>3. due' = db'
        BY <4>2, <1>0 DEF TypeOK
      <4> QED
        BY <4>3, <3>5 DEF DueBody, InFile
    <3>6. CASE pc' # "month"
      <4>1. \A k \in Keys \ (Listed(input') \cup KeysOf(batch')) :
               due'[k] = IF ToDelete(k)' THEN Absent ELSE db'[k]
        BY <3>3, <3>4, <2>1 DEF ToDelete
      <4>2. DOMAIN batch' = {}
        BY <3>1, <1>1
      <4> QED
        BY <4>1, <4>2, <3>2, <3>6, <2>1, <2>3 DEF DueBody
    <3> QED
      BY <3>5, <3>6
  <2> QED
    BY <2>1, <2>2, <2>3, <1>0 DEF Phases, InFile
<1>11. CASE EndFull \/ PruneSome
  <2>1. type' = "full" /\ UNCHANGED <<type, base, due, full, prune>>
        /\ pc \in InFile \cup {"counted", "prune"}
    BY <1>0, <1>11 DEF EndFull, PruneSome, sources, Phases
  <2> QED
    BY <2>1, <1>3
<1>12. CASE EndDiff
  <2>1. pc' = "download"
    BY <1>12 DEF EndDiff, End
  <2> QED
    BY <2>1 DEF DueBody, InFile
<1>13. CASE PruneDone \/ RunError \/ StoreChunkError
  BY <1>13 DEF PruneDone, RunError, StoreChunkError, End
<1> QED
  BY <1>4, <1>5, <1>6, <1>7, <1>8, <1>9, <1>10, <1>11, <1>12, <1>13 DEF Next

-----------------------------------------------------------------------------
(* What follows for the table. *)

LEMMA MatchStep == Inv /\ [Next]_vars => SuccessMatchesFiles'
<1> SUFFICES ASSUME Inv, [Next]_vars, Succeeded' PROVE db' = due'
  BY DEF SuccessMatchesFiles
<1>0. TypeOK /\ Phases /\ FullBody /\ DueBody /\ SuccessMatchesFiles /\ TypeOK'
  BY TypeStep DEF Inv
<1>1. pc' = "idle" /\ last'.status = "success"
  BY DEF Succeeded
<1>2. CASE EndFull
  <2>1. /\ ~ prune /\ pc = "counted" /\ type = "full"
        /\ UNCHANGED <<db, due>> /\ input = <<>> /\ batch = <<>>
        /\ due = FullResult(base, full)
    BY <1>0, <1>1, <1>2 DEF EndFull, End, DueBody, Phases, InFile
  <2>2. \A q : ~ Among(q, <<>>)
    BY DEF Among
  <2>3. /\ \A i \in DOMAIN full : full[i].key \notin SkipKeys => db[full[i].key] = full[i].hash
        /\ \A k \in Keys \ Listed(full) : db[k] = base[k]
    BY <2>1, <2>2, <1>0 DEF FullBody
  <2>4. \A k \in Keys : db[k] = With(base, full)[k]
    <3> SUFFICES ASSUME NEW k \in Keys PROVE db[k] = With(base, full)[k]
      OBVIOUS
    <3>1. CASE k \in Listed(full)
      BY <3>1, <2>3, <1>0, FullType, ListedRow, WithIs
    <3>2. CASE k \notin Listed(full)
      BY <3>2, <2>3, <1>0, FullType, WithIs
    <3> QED
      BY <3>1, <3>2
  <2>5. db = [k \in Keys |-> db[k]]
    BY <1>0 DEF TypeOK
  <2>6. With(base, full) = [k \in Keys |-> With(base, full)[k]]
    BY <1>0, FullType, WithIs
  <2>7. db = With(base, full)
    BY <2>4, <2>5, <2>6
  <2>8. FullResult(base, full) = With(base, full)
    BY <2>1 DEF FullResult
  <2> QED
    BY <2>1, <2>7, <2>8
<1>3. CASE PruneDone
  <2>1. /\ pc = "prune" /\ type = "full" /\ StaleKeys = {}
        /\ UNCHANGED <<db, due>> /\ input = <<>> /\ batch = <<>>
        /\ due = FullResult(base, full)
    BY <1>0, <1>3 DEF PruneDone, DueBody, Phases, InFile
  <2>2. (\A q : ~ Among(q, <<>>)) /\ KeysOf(<<>>) = {}
    BY DEF Among, KeysOf
  <2>3. /\ \A i \in DOMAIN full : full[i].key \notin SkipKeys => db[full[i].key] = full[i].hash
        /\ prune /\ seen = Listed(full)
    BY <2>1, <2>2, <1>0 DEF FullBody
  <2> DEFINE e == Without(With(base, full), Keys \ Listed(full))
  <2>4. \A k \in Keys : db[k] = e[k]
    <3> SUFFICES ASSUME NEW k \in Keys PROVE db[k] = e[k]
      OBVIOUS
    <3>1. CASE k \in Listed(full)
      <4>1. e[k] = With(base, full)[k]
        BY <3>1 DEF Without
      <4> QED
        BY <4>1, <3>1, <2>3, <1>0, FullType, ListedRow, WithIs
    <3>2. CASE k \notin Listed(full)
      <4>1. e[k] = Absent
        BY <3>2 DEF Without
      <4> QED
        BY <4>1, <3>2, <2>1, <2>3 DEF StaleKeys, Stored
    <3> QED
      BY <3>1, <3>2
  <2>5. db = [k \in Keys |-> db[k]]
    BY <1>0 DEF TypeOK
  <2>6. e = [k \in Keys |-> e[k]]
    BY DEF Without
  <2>7. db = e
    BY <2>4, <2>5, <2>6
  <2>8. FullResult(base, full) = e
    BY <2>3 DEF FullResult
  <2> QED
    BY <2>1, <2>7, <2>8
<1>4. CASE EndDiff
  BY <1>0, <1>4 DEF EndDiff, DueBody
<1>5. CASE UNCHANGED vars
  BY <1>0, <1>5 DEF vars, SuccessMatchesFiles, Succeeded
<1>6. CASE RunError \/ StoreChunkError
  BY <1>0, <1>1, <1>6 DEF RunError, StoreChunkError, End
<1>7. ASSUME NEW req \in {"auto", "full", "diff"}, StartRun(req) PROVE FALSE
  BY <1>1, <1>7 DEF StartRun
<1>8. CASE OpenFull \/ OpenMonth \/ DeleteSome \/ DeleteDone \/ ParseRow \/ FlushFull
           \/ StoreSkipped \/ FlushMonth \/ FlushFile \/ PruneSome
  <2>1. pc' # "idle"
    BY <1>8 DEF OpenFull, OpenMonth, DeleteSome, DeleteDone, ParseRow, FlushFull,
       StoreSkipped, FlushMonth, FlushFile, PruneSome
  <2> QED
    BY <2>1, <1>1
<1> QED
  BY <1>2, <1>3, <1>4, <1>5, <1>6, <1>7, <1>8 DEF Next

LEMMA KeptStep == Inv /\ [Next]_vars => Kept' /\ FullRunKeepsListed'
<1> SUFFICES ASSUME Inv, [Next]_vars, type' = "full"
             PROVE  Kept' /\ FullRunKeepsListed'
  BY DEF Kept, FullRunKeepsListed
<1>0. TypeOK /\ Phases /\ DistinctPending /\ FullBody /\ Kept /\ FullRunKeepsListed
  BY DEF Inv
<1>1. CASE Stored(base') \subseteq Stored(db')
  BY <1>1 DEF Kept, FullRunKeepsListed
<1>2. CASE db' = base'
  BY <1>1, <1>2 DEF Stored
<1>3. ASSUME NEW req \in {"auto", "full", "diff"}, StartRun(req) PROVE db' = base'
  BY <1>3 DEF StartRun
<1>4. CASE type = "diff" /\ pc # "idle"
  <2>1. EndDiff /\ pc' # "idle" /\ UNCHANGED <<db, base>> /\ db = base
    BY <1>0, <1>4 DEF Next, StartRun, OpenFull, OpenMonth, DeleteSome, DeleteDone, ParseRow,
       FlushFull, StoreSkipped, FlushMonth, FlushFile, EndFull, PruneSome, PruneDone,
       EndDiff, RunError, StoreChunkError, End, Phases, vars, sources, TypeOK
  <2> QED
    BY <2>1, <1>2
<1>5. CASE type = "full" /\ pc \notin {"idle", "prune"} /\ UNCHANGED <<db, base>>
  BY <1>0, <1>1, <1>5 DEF Kept, Stored
<1>6. CASE (FlushFull \/ FlushFile) /\ type = "full"
  <2>1. Stored(db) \subseteq Stored(db') /\ base' = base /\ pc \notin {"idle", "prune"}
    BY <1>0, <1>6, Applied DEF FlushFull, FlushFile
  <2> QED
    BY <2>1, <1>0, <1>1, <1>6 DEF Kept, Stored
<1>7. CASE PruneSome
  <2>1. /\ pc = "prune" /\ pc' = "prune" /\ type = "full" /\ input' = input
        /\ UNCHANGED <<full, prune, base>>
    BY <1>7 DEF PruneSome, sources
  <2>2. PICK k \in StaleKeys : db' = Without(db, {k})
    BY <1>7 DEF PruneSome
  <2>3. input = <<>> /\ KeysOf(input) = {}
    BY <2>1, <1>0 DEF Phases, KeysOf
  <2>4. prune /\ Len(full) >= MinRows /\ k \notin Listed(full)
    BY <2>1, <2>2, <2>3, <1>0 DEF FullBody, StaleKeys
  <2>5. \A q \in Keys : q # k => db'[q] = db[q]
    BY <2>2 DEF Without
  <2>6. FullRunKeepsListed'
    BY <2>1, <2>3, <2>4, <2>5, <1>0 DEF FullRunKeepsListed, Stored, Listed, KeysOf
  <2> QED
    BY <2>1, <2>6 DEF Kept
<1>8. CASE (PruneDone \/ ((RunError \/ StoreChunkError) /\ type = "full"))
  <2>1. /\ pc' = "idle" /\ type = "full" /\ input' = <<>>
        /\ UNCHANGED <<full, prune, base, db>>
    BY <1>0, <1>8 DEF PruneDone, RunError, StoreChunkError, End, sources, Phases
  <2> QED
    BY <2>1, <1>0 DEF Kept, FullRunKeepsListed, Stored, Listed, KeysOf
<1>9. CASE UNCHANGED vars
  BY <1>0, <1>9 DEF vars, sources, Kept, FullRunKeepsListed, Stored, Listed, KeysOf
<1>10. CASE type = "full" /\ (OpenFull \/ ParseRow \/ StoreSkipped \/ EndFull)
  <2>1. pc \notin {"idle", "prune"} /\ UNCHANGED <<db, base>>
    BY <1>10 DEF OpenFull, ParseRow, StoreSkipped, EndFull
  <2> QED
    BY <2>1, <1>5, <1>10
<1>11. CASE type = "full" /\ (OpenMonth \/ DeleteSome \/ DeleteDone \/ FlushMonth \/ EndDiff)
  BY <1>0, <1>11 DEF OpenMonth, DeleteSome, DeleteDone, FlushMonth, EndDiff, Phases
<1>12. CASE pc # "idle"
  <2>1. type \in {"full", "diff"}
    BY <1>0, <1>12 DEF Phases
  <2> QED
    BY <2>1, <1>2, <1>3, <1>4, <1>6, <1>7, <1>8, <1>9, <1>10, <1>11, <1>12 DEF Next
<1>13. CASE pc = "idle"
  <2>1. UNCHANGED vars \/ \E req \in {"auto", "full", "diff"} : StartRun(req)
    BY <1>13 DEF Next, OpenFull, OpenMonth, DeleteSome, DeleteDone, ParseRow,
       FlushFull, StoreSkipped, FlushMonth, FlushFile, EndFull, PruneSome, PruneDone,
       EndDiff, RunError, StoreChunkError
  <2> QED
    BY <2>1, <1>2, <1>3, <1>9
<1> QED
  BY <1>12, <1>13

LEMMA QuietStep == Inv /\ [Next]_vars => FullRerunIsQuiet'
<1> DEFINE Quiet == db = base /\ res.added = 0 /\ res.updated = 0 /\ res.deleted = 0
<1> SUFFICES ASSUME Inv, [Next]_vars, type' = "full", FullResult(base, full)' = base'
             PROVE  Quiet'
  BY DEF FullRerunIsQuiet
<1>0. TypeOK /\ Phases /\ DistinctPending /\ FullBody /\ FullRerunIsQuiet
  BY DEF Inv
<1>1. ASSUME db' = base', res' = Zero PROVE Quiet'
  BY <1>1 DEF Zero
<1>2. ASSUME NEW req \in {"auto", "full", "diff"}, StartRun(req) PROVE Quiet'
  BY <1>1, <1>2 DEF StartRun
<1>3. CASE EndDiff
  <2>1. type = "diff" /\ UNCHANGED <<db, base>>
    BY <1>0, <1>3 DEF EndDiff, Phases
  <2>2. res' = Zero /\ applied = 0
    BY <2>1, <1>0, <1>3 DEF EndDiff, TypeOK
  <2>3. db = base
    BY <2>2, <1>0, <1>3 DEF EndDiff, Phases
  <2> QED
    BY <2>1, <2>2, <2>3, <1>1
<1>4. ASSUME ~ EndDiff, ~ \E req \in {"auto", "full", "diff"} : StartRun(req)
      PROVE  /\ UNCHANGED <<type, base, full, prune>>
             /\ Quiet /\ FullResult(base, full) = base
  <2>1. UNCHANGED <<type, base, full, prune>>
    BY <1>4 DEF Next, OpenFull, OpenMonth, DeleteSome, DeleteDone, ParseRow,
       FlushFull, StoreSkipped, FlushMonth, FlushFile, EndFull, PruneSome, PruneDone,
       RunError, StoreChunkError, End, vars, sources
  <2>2. FullResult(base, full) = base
    BY <2>1 DEF FullResult, With, Without, Listed, KeysOf
  <2> QED
    BY <2>1, <2>2, <1>0 DEF FullRerunIsQuiet
<1>5. CASE FlushFull \/ FlushFile
  <2>1. ApplyBatch /\ pc \in InFile /\ type = "full" /\ base' = base
        /\ Quiet /\ FullResult(base, full) = base
    BY <1>0, <1>4, <1>5 DEF FlushFull, FlushFile, InFile, EndDiff, StartRun
  <2>2. ASSUME NEW i \in DOMAIN batch
        PROVE  db[batch[i].key] = batch[i].hash /\ batch[i].hash # Absent
    <3>1. PICK j \in DOMAIN full : full[j] = batch[i]
      BY <2>1, <1>0 DEF FullBody, Among
    <3>2. full[j].key \notin SkipKeys /\ full[j].key \in Keys /\ full[j].hash # Absent
      BY <3>1, <1>0, FullType, ApplyAssumption DEF DistinctPending, Row, ApplyAssumption
    <3>3. full[j].key \in Listed(full)
      BY <3>2 DEF Listed, KeysOf
    <3>4. FullResult(base, full)[full[j].key] = With(base, full)[full[j].key]
      BY <3>2, <3>3 DEF FullResult, Without
    <3>5. With(base, full)[full[j].key] = full[j].hash
      BY <3>2, <1>0, FullType, WithIs
    <3> QED
      BY <3>1, <3>2, <3>4, <3>5, <2>1
  <2>3. Changed = {} /\ New = {} /\ Changed \ New = {}
    BY <2>2 DEF Changed, New
  <2>4. Cardinality(New) = 0 /\ Cardinality(Changed \ New) = 0
    BY <2>3, FS_EmptySet
  <2>5. db' = db
    <3>1. \A k \in Keys : ChangedAt(k) = {}
      BY <2>3 DEF ChangedAt
    <3>2. db' = [k \in Keys |-> db[k]]
      BY <2>1, <3>1 DEF ApplyBatch
    <3> QED
      BY <3>2, <1>0 DEF TypeOK
  <2>6. res' = res
    <3>1. res' = [res EXCEPT !.added = @ + 0, !.updated = @ + 0]
      BY <2>1, <2>4 DEF ApplyBatch
    <3>2. res \in Counts /\ res.added = 0 /\ res.updated = 0
      BY <2>1, <1>0 DEF TypeOK
    <3>3. res' = [[res EXCEPT !.added = res.added] EXCEPT !.updated = res.updated]
      BY <3>1, <3>2 DEF Counts
    <3> QED
      BY <3>2, <3>3 DEF Counts
  <2> QED
    BY <2>1, <2>5, <2>6
<1>6. CASE PruneSome
  <2>1. pc = "prune" /\ type = "full" /\ Quiet /\ FullResult(base, full) = base
    BY <1>0, <1>4, <1>6 DEF PruneSome, EndDiff, StartRun
  <2>2. PICK k \in StaleKeys : TRUE
    BY <1>6 DEF PruneSome
  <2>3. KeysOf(input) = {}
    BY <2>1, <1>0 DEF Phases, KeysOf
  <2>4. prune /\ k \in Keys /\ k \notin Listed(full) /\ db[k] # Absent
    BY <2>1, <2>2, <2>3, <1>0 DEF FullBody, StaleKeys, Stored
  <2>5. FullResult(base, full)[k] = Absent
    BY <2>4 DEF FullResult, Without
  <2> QED
    BY <2>1, <2>4, <2>5
<1>7. CASE OpenMonth \/ DeleteSome \/ DeleteDone \/ FlushMonth
  BY <1>0, <1>7 DEF OpenMonth, DeleteSome, DeleteDone, FlushMonth, Phases
<1>8. CASE OpenFull \/ ParseRow \/ StoreSkipped \/ EndFull \/ PruneDone \/ RunError
           \/ StoreChunkError \/ UNCHANGED vars
  <2>1. Quiet /\ UNCHANGED <<db, base>>
    BY <1>0, <1>4, <1>8 DEF OpenFull, ParseRow, StoreSkipped, EndFull, PruneDone, RunError,
       StoreChunkError, vars, EndDiff, StartRun, Phases
  <2>2. /\ res'.added = res.added /\ res'.updated = res.updated
        /\ res'.deleted = res.deleted
    <3>1. res \in Counts
      BY <1>0 DEF TypeOK
    <3>2. \/ res' = res \/ res' = [res EXCEPT !.skipped = @ + 1]
          \/ res' = [res EXCEPT !.total = Len(full)]
      BY <1>8 DEF OpenFull, ParseRow, StoreSkipped, EndFull, PruneDone, RunError,
         StoreChunkError, vars, Counted
    <3> QED
      BY <3>1, <3>2 DEF Counts
  <2> QED
    BY <2>1, <2>2
<1> QED
  BY <1>2, <1>3, <1>5, <1>6, <1>7, <1>8 DEF Next

-----------------------------------------------------------------------------
(* The counts account for the table. *)

LEMMA CountsNat ==
    ASSUME NEW r \in Counts
    PROVE  r.added \in Nat /\ r.deleted \in Nat /\ r.skipped \in Nat
  BY DEF Counts

LEMMA ZeroCounts == Zero.added = 0 /\ Zero.deleted = 0 /\ Zero.skipped = 0
  BY DEF Zero

\* Taking keys away costs as many rows as were stored under them.
LEMMA WithoutCount ==
    ASSUME NEW d \in [Keys -> Hashes \cup {Absent}], NEW ks
    PROVE  Cardinality(Stored(Without(d, ks)))
              = Cardinality(Stored(d)) - Cardinality(ks \cap Stored(d))
<1>1. Stored(Without(d, ks)) = Stored(d) \ ks
  BY DEF Stored, Without
<1>2. IsFiniteSet(Stored(d))
  BY StoredFinite
<1>3. Cardinality(Stored(d) \ ks) = Cardinality(Stored(d)) - Cardinality(Stored(d) \cap ks)
  BY <1>2, FS_Difference
<1>4. Stored(d) \cap ks = ks \cap Stored(d)
  OBVIOUS
<1> QED
  BY <1>1, <1>3, <1>4

LEMMA BalanceStep == Inv /\ [Next]_vars => Balance'
<1> DEFINE CardBase == Cardinality(Stored(base))
           CardDb == Cardinality(Stored(db))
<1> SUFFICES ASSUME Inv, [Next]_vars, pc' # "idle" PROVE Balance'
  BY DEF Balance
<1>0. TypeOK /\ Phases /\ DistinctPending /\ Balance /\ TypeOK'
  BY TypeStep DEF Inv
<1>1. /\ res \in Counts /\ agg \in Counts /\ res' \in Counts /\ agg' \in Counts
      /\ skipBuf \in Nat /\ skipStored \in Nat /\ skipBuf' \in Nat /\ skipStored' \in Nat
      /\ db \in [Keys -> Hashes \cup {Absent}]
  BY <1>0 DEF TypeOK
<1>2. /\ res.added \in Nat /\ res.deleted \in Nat /\ res.skipped \in Nat
      /\ agg.added \in Nat /\ agg.deleted \in Nat /\ agg.skipped \in Nat
      /\ res'.added \in Nat /\ res'.deleted \in Nat /\ res'.skipped \in Nat
      /\ agg'.added \in Nat /\ agg'.deleted \in Nat /\ agg'.skipped \in Nat
  BY <1>1, CountsNat
<1>3. CardDb \in Nat /\ CardBase \in Nat
  BY StoredFinite
<1>4. ASSUME NEW req \in {"auto", "full", "diff"}, StartRun(req) PROVE Balance'
  <2>1. /\ db' = base' /\ res' = Zero /\ agg' = Zero /\ skipBuf' = 0 /\ skipStored' = 0
        /\ base' = db
    BY <1>4 DEF StartRun
  <2> QED
    BY <2>1, <1>3, ZeroCounts DEF Balance, SoFar
<1>5. CASE EndDiff
  <2>1. /\ res' = Zero /\ type' = "full" /\ applied = 0 /\ type = "diff"
        /\ UNCHANGED <<db, base, agg, skipBuf, skipStored>>
    BY <1>0, <1>5 DEF EndDiff, End, Phases, TypeOK
  <2>2. db = base /\ skipStored = 0 /\ skipBuf = 0
    BY <2>1, <1>0, <1>5 DEF EndDiff, Phases
  <2> QED
    BY <2>1, <2>2, <1>3, ZeroCounts DEF Balance, SoFar, FileCounts, MonthCounts
<1>6. CASE OpenMonth
  <2>1. /\ pc = "month" /\ type = "diff" /\ type' = "diff"
        /\ UNCHANGED <<db, base, agg, skipBuf, skipStored>>
    BY <1>0, <1>6 DEF OpenMonth, Phases
  <2>2. pc' = "month" \/ (res'.added = 0 /\ res'.deleted = 0 /\ res'.skipped = 0)
    <3>1. pc' = pc \/ res' = [Zero EXCEPT !.total = Len(delKeys')]
      BY <1>6 DEF OpenMonth
    <3>2. ASSUME NEW n
          PROVE  /\ [Zero EXCEPT !.total = n].added = 0
                 /\ [Zero EXCEPT !.total = n].deleted = 0
                 /\ [Zero EXCEPT !.total = n].skipped = 0
      BY DEF Zero
    <3> QED
      BY <3>1, <3>2, <2>1
  <2>3. SoFar(res.added, agg.added)' = agg.added /\ SoFar(res.deleted, agg.deleted)' = agg.deleted
        /\ SoFar(res.skipped, agg.skipped)' = agg.skipped
    BY <2>1, <2>2, <1>2 DEF SoFar, FileCounts, MonthCounts, InFile
  <2>4. SoFar(res.added, agg.added) = agg.added /\ SoFar(res.deleted, agg.deleted) = agg.deleted
        /\ SoFar(res.skipped, agg.skipped) = agg.skipped
    BY <2>1, <1>2 DEF SoFar, FileCounts, MonthCounts, InFile
  <2> QED
    BY <2>1, <2>3, <2>4, <1>0 DEF Balance
<1>7. CASE DeleteSome
  <2>1. PICK chunk : /\ db' = Without(db, chunk)
                     /\ res' = [res EXCEPT !.deleted = @ + Cardinality(chunk \cap Stored(db))]
    BY <1>7 DEF DeleteSome
  <2> DEFINE n == Cardinality(chunk \cap Stored(db))
  <2>2. n \in Nat
    BY StoredFinite, FS_Subset, FS_CardinalityType
  <2>3. Cardinality(Stored(db')) = CardDb - n
    BY <2>1, <1>1, WithoutCount
  <2>4. res'.added = res.added /\ res'.deleted = res.deleted + n /\ res'.skipped = res.skipped
    <3>1. res' = [res EXCEPT !.deleted = @ + n]
      BY <2>1
    <3> HIDE DEF n
    <3> QED
      BY <3>1, <1>1, <2>2 DEF Counts
  <2>5. /\ pc = "delete" /\ pc' = "delete" /\ type' = type
        /\ UNCHANGED <<base, agg, skipBuf, skipStored>>
    BY <1>7 DEF DeleteSome
  <2> HIDE DEF n
  <2> QED
    BY <2>2, <2>3, <2>4, <2>5, <1>0, <1>2, <1>3 DEF Balance, SoFar, FileCounts, MonthCounts
<1>8. CASE ParseRow
  <2>1. /\ pc = "rows" /\ pc' \in {"rows", "flush"} /\ type' = type
        /\ UNCHANGED <<db, base, agg>>
    BY <1>8 DEF ParseRow
  <2>2. \/ UNCHANGED <<res, skipBuf, skipStored>>
        \/ /\ res' = [res EXCEPT !.skipped = @ + 1]
           /\ skipStored' + skipBuf' = skipStored + skipBuf + 1
    BY <1>1, <1>8 DEF ParseRow
  <2>3. /\ res'.added = res.added /\ res'.deleted = res.deleted
        /\ res'.skipped + skipStored + skipBuf = res.skipped + skipStored' + skipBuf'
    BY <2>2, <1>1, <1>2 DEF Counts
  <2> QED
    BY <2>1, <2>3, <1>0, <1>1, <1>2, <1>3 DEF Balance, SoFar, FileCounts, MonthCounts, InFile
<1>9. CASE FlushFull \/ FlushMonth \/ FlushFile
  <2>1. /\ ApplyBatch /\ pc \in InFile /\ type' = type
        /\ UNCHANGED <<base, skipBuf, skipStored>>
    BY <1>9 DEF FlushFull, FlushMonth, FlushFile, InFile
  <2> DEFINE n == Cardinality(New)
  <2>2. /\ n \in Nat /\ Cardinality(Stored(db')) = CardDb + n
        /\ res'.added = res.added + n
        /\ res'.deleted = res.deleted /\ res'.skipped = res.skipped
    BY <2>1, <1>0, Applied
  <2> HIDE DEF n
  <2>3. CASE FlushFull \/ FlushFile
    <3>1. UNCHANGED agg /\ (type = "full" \/ (pc' = "rows"))
      BY <2>3 DEF FlushFull, FlushFile
    <3> QED
      BY <3>1, <2>1, <2>2, <1>0, <1>2, <1>3 DEF Balance, SoFar, FileCounts, MonthCounts, InFile
  <2>4. CASE FlushMonth
    <3>1. type = "diff" /\ pc' = "month"
      BY <2>4 DEF FlushMonth
    <3>2. /\ agg'.added = agg.added + res'.added
          /\ agg'.deleted = agg.deleted + res'.deleted
          /\ agg'.skipped = agg.skipped + res'.skipped
      <4>1. PICK t : agg' = Plus(agg, [res' EXCEPT !.total = t])
        BY <2>4 DEF FlushMonth
      <4> QED
        BY <4>1, <1>1 DEF Plus, Counts
    <3> QED
      BY <3>1, <3>2, <2>1, <2>2, <1>0, <1>2, <1>3 DEF Balance, SoFar, FileCounts, MonthCounts, InFile
  <2> QED
    BY <2>3, <2>4, <1>9
<1>10. CASE EndFull
  <2>1. /\ type = "full" /\ pc = "counted" /\ type' = type
        /\ UNCHANGED <<db, base, agg, skipBuf, skipStored>>
        /\ res' = [res EXCEPT !.total = Len(full)]
    BY <1>0, <1>10 DEF EndFull, Counted, Phases
  <2>2. res'.added = res.added /\ res'.deleted = res.deleted /\ res'.skipped = res.skipped
    BY <2>1, <1>1 DEF Counts
  <2> QED
    BY <2>1, <2>2, <1>0 DEF Balance, SoFar, FileCounts, MonthCounts
<1>11. CASE PruneSome
  <2>1. PICK k \in StaleKeys : db' = Without(db, {k})
    BY <1>11 DEF PruneSome
  <2>2. /\ type = "full" /\ pc = "prune" /\ type' = type
        /\ UNCHANGED <<base, agg, skipBuf, skipStored>>
        /\ res' = [res EXCEPT !.deleted = @ + 1]
    BY <1>0, <1>11 DEF PruneSome, Phases
  <2>3. {k} \cap Stored(db) = {k}
    BY <2>1 DEF StaleKeys
  <2>4. Cardinality({k}) = 1
    BY FS_Singleton
  <2>5. Cardinality(Stored(db')) = CardDb - Cardinality({k} \cap Stored(db))
    BY <2>1, <1>1, WithoutCount
  <2>6. Cardinality(Stored(db')) = CardDb - 1
    BY <2>3, <2>4, <2>5
  <2>7. res'.added = res.added /\ res'.deleted = res.deleted + 1 /\ res'.skipped = res.skipped
    BY <2>2, <1>1 DEF Counts
  <2> QED
    BY <2>2, <2>6, <2>7, <1>0, <1>2, <1>3 DEF Balance, SoFar, FileCounts, MonthCounts
<1>12. CASE OpenFull \/ DeleteDone \/ StoreSkipped \/ UNCHANGED vars
  <2>1. /\ UNCHANGED <<type, db, base, agg, res>>
        /\ skipStored' + skipBuf' = skipStored + skipBuf
    <3>1. UNCHANGED <<type, db, base, agg, res>>
      BY <1>12 DEF OpenFull, DeleteDone, StoreSkipped, vars
    <3>2. \/ UNCHANGED <<skipStored, skipBuf>>
          \/ skipStored' = skipStored + skipBuf /\ skipBuf' = 0
      BY <1>12 DEF OpenFull, DeleteDone, StoreSkipped, vars
    <3>3. skipStored' + skipBuf' = skipStored + skipBuf
      <4>1. CASE UNCHANGED <<skipStored, skipBuf>>
        BY <4>1
      <4>2. CASE skipStored' = skipStored + skipBuf /\ skipBuf' = 0
        <5>1. skipStored + skipBuf \in Nat
          BY <1>1
        <5> QED
          BY <4>2, <5>1
      <4> QED
        BY <3>2, <4>1, <4>2
    <3> QED
      BY <3>1, <3>3
  <2>2. FileCounts' = FileCounts /\ pc # "idle"
    BY <1>0, <1>12 DEF OpenFull, DeleteDone, StoreSkipped, vars, FileCounts, InFile, Phases
  <2>3. MonthCounts' = MonthCounts
    BY <2>1 DEF MonthCounts
  <2> QED
    BY <2>1, <2>2, <2>3, <1>0 DEF Balance, SoFar
<1>13. CASE PruneDone \/ RunError \/ StoreChunkError
  BY <1>13 DEF PruneDone, RunError, StoreChunkError, End
<1> QED
  BY <1>4, <1>5, <1>6, <1>7, <1>8, <1>9, <1>10, <1>11, <1>12, <1>13 DEF Next

LEMMA CountsStep == Inv /\ [Next]_vars => SuccessCountsBalance'
<1> SUFFICES ASSUME Inv, [Next]_vars, Succeeded' PROVE SuccessCountsBalance'
  BY DEF SuccessCountsBalance
<1>0. TypeOK /\ Phases /\ Balance /\ SuccessCountsBalance
  BY DEF Inv
<1>1. pc' = "idle" /\ last'.status = "success"
  BY DEF Succeeded
<1>2. /\ res \in Counts /\ agg \in Counts /\ skipBuf \in Nat /\ skipStored \in Nat
      /\ res.added \in Nat /\ res.deleted \in Nat /\ res.skipped \in Nat
      /\ agg.added \in Nat /\ agg.deleted \in Nat /\ agg.skipped \in Nat
  BY <1>0, CountsNat DEF TypeOK
<1>3. ASSUME NEW c \in Counts, last'.counts = c,
             c.added = SoFar(res.added, agg.added),
             c.deleted = SoFar(res.deleted, agg.deleted),
             c.skipped = SoFar(res.skipped, agg.skipped),
             pc \notin {"idle", "rows", "flush"}, UNCHANGED <<db, base, skipStored>>
      PROVE  SuccessCountsBalance'
  <2>1. skipBuf = 0
    BY <1>0, <1>3 DEF Phases
  <2> QED
    BY <2>1, <1>0, <1>2, <1>3 DEF Balance, SuccessCountsBalance
<1>4. CASE EndFull
  <2>1. /\ pc = "counted" /\ type = "full" /\ UNCHANGED <<db, base, skipStored>>
        /\ last'.counts = [res EXCEPT !.total = Len(full)]
    BY <1>0, <1>1, <1>4 DEF EndFull, End, Counted, Phases
  <2>2. Len(full) \in Nat
    BY <1>0, FullType
  <2>3. [res EXCEPT !.total = Len(full)] \in Counts
    BY <2>2, <1>2, CountsChange
  <2>4. /\ [res EXCEPT !.total = Len(full)].added = res.added
        /\ [res EXCEPT !.total = Len(full)].deleted = res.deleted
        /\ [res EXCEPT !.total = Len(full)].skipped = res.skipped
    BY <1>2 DEF Counts
  <2> DEFINE c == [res EXCEPT !.total = Len(full)]
  <2>5. c.added = SoFar(res.added, agg.added) /\ c.deleted = SoFar(res.deleted, agg.deleted)
        /\ c.skipped = SoFar(res.skipped, agg.skipped)
    BY <2>1, <2>4, <1>2 DEF SoFar, FileCounts, MonthCounts
  <2> HIDE DEF c
  <2> QED
    BY <2>1, <2>3, <2>5, <1>3 DEF c
<1>5. CASE PruneDone
  <2>1. /\ pc = "prune" /\ type = "full" /\ UNCHANGED <<db, base, skipStored>>
        /\ last'.counts = res
    BY <1>0, <1>5 DEF PruneDone, End, Phases
  <2>2. res.added = SoFar(res.added, agg.added) /\ res.deleted = SoFar(res.deleted, agg.deleted)
        /\ res.skipped = SoFar(res.skipped, agg.skipped)
    BY <2>1, <1>2 DEF SoFar, FileCounts, MonthCounts
  <2> QED
    BY <2>1, <2>2, <1>2, <1>3
<1>6. CASE EndDiff
  <2>1. /\ pc = "month" /\ type = "diff" /\ UNCHANGED <<db, base, skipStored>>
        /\ last'.counts = agg
    BY <1>0, <1>1, <1>6 DEF EndDiff, End, Phases
  <2>2. agg.added = SoFar(res.added, agg.added) /\ agg.deleted = SoFar(res.deleted, agg.deleted)
        /\ agg.skipped = SoFar(res.skipped, agg.skipped)
    BY <2>1, <1>2 DEF SoFar, FileCounts, MonthCounts, InFile
  <2> QED
    BY <2>1, <2>2, <1>2, <1>3
<1>7. CASE UNCHANGED vars
  BY <1>0, <1>1, <1>7 DEF vars, SuccessCountsBalance, Succeeded
<1>8. CASE RunError \/ StoreChunkError
  BY <1>1, <1>8 DEF RunError, StoreChunkError, End
<1>9. ASSUME NEW req \in {"auto", "full", "diff"}, StartRun(req) PROVE FALSE
  BY <1>1, <1>9 DEF StartRun
<1>10. CASE OpenFull \/ OpenMonth \/ DeleteSome \/ DeleteDone \/ ParseRow \/ FlushFull
            \/ StoreSkipped \/ FlushMonth \/ FlushFile \/ PruneSome
  <2>1. pc' # "idle"
    BY <1>10 DEF OpenFull, OpenMonth, DeleteSome, DeleteDone, ParseRow, FlushFull,
       StoreSkipped, FlushMonth, FlushFile, PruneSome
  <2> QED
    BY <2>1, <1>1
<1> QED
  BY <1>4, <1>5, <1>6, <1>7, <1>8, <1>9, <1>10 DEF Next

-----------------------------------------------------------------------------
(* The theorems. *)

LEMMA InitInv == Init => Inv
<1> SUFFICES ASSUME Init PROVE Inv
  OBVIOUS
<1>1. TypeOK
  <2>1. <<>> \in Seq(Row) /\ <<>> \in Seq(Keys) /\ Len(<<>>) = 0
    BY EmptySeq
  <2>2. BatchSize \in Nat \ {0} /\ SkipChunk \in Nat \ {0}
    BY ApplyAssumption DEF ApplyAssumption
  <2> QED
    BY <2>1, <2>2, ZeroType DEF Init, TypeOK
<1>2. DOMAIN (<<>>) = {}
  OBVIOUS
<1>3. Phases /\ DistinctPending /\ FullBody /\ DueBody /\ Balance /\ Kept
  BY <1>2 DEF Init, Phases, DistinctPending, UniqueKeys, FullBody, DueBody, Balance, Kept, InFile
<1>4. SuccessMatchesFiles /\ SuccessCountsBalance /\ FullRunKeepsListed /\ FullRerunIsQuiet
  BY DEF Init, SuccessMatchesFiles, SuccessCountsBalance, FullRunKeepsListed,
     FullRerunIsQuiet, Succeeded
<1> QED
  BY <1>1, <1>3, <1>4 DEF Inv

\* The inductive invariant holds.
THEOREM InvHolds == Spec => []Inv
<1>1. Inv /\ [Next]_vars => Inv'
  BY TypeStep, PhaseStep, DistinctStep, BodyStep, DueStep, BalanceStep, KeptStep, MatchStep,
     CountsStep, QuietStep DEF Inv
<1> QED
  BY InitInv, <1>1, PTL DEF Spec

\* Every variable has its type: batches and buffers stay within their sizes.
THEOREM TypeCorrect == Spec => []TypeOK
<1>1. Inv => TypeOK
  BY DEF Inv
<1> QED
  BY InvHolds, <1>1, PTL

\* A run that says success has made the table what its files say, for any
\* files, and however their rows fell into batches and their keys into chunks.
THEOREM RunIsItsFiles == Spec => []SuccessMatchesFiles
<1>1. Inv => SuccessMatchesFiles
  BY DEF Inv
<1> QED
  BY InvHolds, <1>1, PTL

\* The counts of a successful run account for the size of the table and for
\* the rows in sync_skipped_rows.
THEOREM CountsAddUp == Spec => []SuccessCountsBalance
<1>1. Inv => SuccessCountsBalance
  BY DEF Inv
<1> QED
  BY InvHolds, <1>1, PTL

\* A full run loses no address that its file lists, at no moment of it, and
\* none at all when the file is too short.
THEOREM ListedStay == Spec => []FullRunKeepsListed
<1>1. Inv => FullRunKeepsListed
  BY DEF Inv
<1> QED
  BY InvHolds, <1>1, PTL

\* A full run over a table that already is what its file says writes nothing.
THEOREM RerunIsQuiet == Spec => []FullRerunIsQuiet
<1>1. Inv => FullRerunIsQuiet
  BY DEF Inv
<1> QED
  BY InvHolds, <1>1, PTL
-----------------------------------------------------------------------------
(* Single writes. *)

\* What is still to be deleted is what the file of the month abolishes.
DelFromMonth == \A i \in DOMAIN delKeys : Abolished(delKeys[i], month)

\* A step of the deletions leaves keys that were there to delete, and deletes
\* no other.
LEMMA Chunk ==
    ASSUME TypeOK, DeleteSome
    PROVE  /\ \A i \in DOMAIN delKeys' : \E j \in DOMAIN delKeys : delKeys'[i] = delKeys[j]
           /\ \A k \in Keys : db'[k] # db[k] => db'[k] = Absent /\ ToDelete(k)
<1> DEFINE n == IF Len(delKeys) < DeleteChunk THEN Len(delKeys) ELSE DeleteChunk
<1>1. delKeys \in Seq(Keys) /\ DOMAIN delKeys = 1..Len(delKeys) /\ Len(delKeys) \in Nat
  BY LenProperties DEF TypeOK
<1>2. n \in 0..Len(delKeys)
  BY <1>1, ApplyAssumption DEF ApplyAssumption
<1>3. /\ db' = Without(db, {delKeys[i] : i \in 1..n})
      /\ delKeys' = SubSeq(delKeys, n + 1, Len(delKeys))
  BY DEF DeleteSome
<1> HIDE DEF n
<1>4. \A i \in n + 1 .. Len(delKeys) : delKeys[i] \in Keys
  BY <1>1, <1>2, ElementOfSeq
<1>5. /\ DOMAIN delKeys' = 1..(Len(delKeys) - n)
      /\ \A i \in DOMAIN delKeys' : delKeys'[i] = delKeys[n + i]
  <2>1. /\ delKeys' \in Seq(Keys)
        /\ Len(delKeys') = IF n + 1 <= Len(delKeys) THEN Len(delKeys) - (n + 1) + 1 ELSE 0
        /\ \A i \in 1 .. Len(delKeys) - (n + 1) + 1 : delKeys'[i] = delKeys[(n + 1) + i - 1]
    BY <1>1, <1>2, <1>3, <1>4, SubSeqProperties
  <2>2. Len(delKeys') = Len(delKeys) - n
    <3>1. Len(delKeys') = IF n + 1 <= Len(delKeys) THEN Len(delKeys) - (n + 1) + 1 ELSE 0
      BY <2>1
    <3>2. Len(delKeys) \in Nat
      BY <1>1
    <3> QED
      BY <3>1, <3>2, <1>2
  <2>3. DOMAIN delKeys' = 1..(Len(delKeys) - n)
    <3>1. DOMAIN delKeys' = 1..Len(delKeys')
      BY <2>1, LenProperties
    <3> QED
      BY <3>1, <2>2
  <2>4. ASSUME NEW i \in 1..(Len(delKeys) - n)
        PROVE  delKeys'[i] = delKeys[n + i]
    <3>1. Len(delKeys) - (n + 1) + 1 = Len(delKeys) - n /\ (n + 1) + i - 1 = n + i
      BY <1>1, <1>2
    <3>2. delKeys'[i] = delKeys[(n + 1) + i - 1]
      <4> HIDE DEF n
      <4>1. i \in 1 .. Len(delKeys) - (n + 1) + 1
        BY <3>1
      <4> QED
        BY <2>1, <4>1
    <3> QED
      BY <3>1, <3>2
  <2> QED
    BY <2>3, <2>4
<1>6. \A i \in DOMAIN delKeys' : n + i \in DOMAIN delKeys
  BY <1>1, <1>2, <1>5
<1>7. \A k \in Keys : db'[k] # db[k] => db'[k] = Absent /\ \E i \in 1..n : delKeys[i] = k
  BY <1>3 DEF Without
<1>8. 1..n \subseteq DOMAIN delKeys
  BY <1>1, <1>2
<1> QED
  BY <1>5, <1>6, <1>7, <1>8 DEF ToDelete

LEMMA DelStep == Inv /\ DelFromMonth /\ [Next]_vars => DelFromMonth'
<1> SUFFICES ASSUME Inv, DelFromMonth, [Next]_vars, NEW i \in DOMAIN delKeys'
             PROVE  Abolished(delKeys[i], month)'
  BY DEF DelFromMonth
<1>0. TypeOK /\ TypeOK' /\ Phases'
  BY TypeStep, PhaseStep DEF Inv
<1>1. DOMAIN (<<>>) = {}
  OBVIOUS
<1>2. pc' = "delete" /\ delKeys' # <<>>
  BY <1>0, <1>1 DEF Phases
<1>3. CASE OpenMonth
  <2>1. /\ delKeys' = IF window[month].del = NotFound THEN <<>> ELSE window[month].del
        /\ month' = month /\ window' = window
    BY <1>2, <1>3 DEF OpenMonth, sources
  <2> QED
    BY <2>1, <1>1, <1>2 DEF Abolished
<1>4. CASE DeleteSome
  <2>1. month' = month /\ window' = window
    BY <1>4 DEF DeleteSome, sources
  <2>2. PICK j \in DOMAIN delKeys : delKeys'[i] = delKeys[j]
    BY <1>0, <1>4, Chunk
  <2> QED
    BY <2>1, <2>2 DEF DelFromMonth, Abolished
<1>5. CASE UNCHANGED vars
  BY <1>5 DEF vars, DelFromMonth, Abolished
<1>6. ASSUME NEW req \in {"auto", "full", "diff"}, StartRun(req) PROVE FALSE
  BY <1>2, <1>6 DEF StartRun
<1>7. CASE OpenFull \/ DeleteDone \/ ParseRow \/ FlushFull \/ StoreSkipped \/ FlushMonth
           \/ FlushFile \/ EndFull \/ PruneSome \/ PruneDone \/ EndDiff \/ RunError
           \/ StoreChunkError
  <2>1. pc' # "delete"
    BY <1>7 DEF OpenFull, DeleteDone, ParseRow, FlushFull, StoreSkipped, FlushMonth, FlushFile,
       EndFull, PruneSome, PruneDone, EndDiff, RunError, StoreChunkError, End
  <2> QED
    BY <2>1, <1>2
<1> QED
  BY <1>3, <1>4, <1>5, <1>6, <1>7 DEF Next

\* A write of a batch or of the pruning gives an address what is due to it.
LEMMA BatchWrites ==
    ASSUME Inv, ApplyBatch, pc \in InFile, NEW k \in Keys, db'[k] # db[k]
    PROVE  db'[k] = due[k]
<1>0. TypeOK /\ Phases /\ DistinctPending /\ FullBody /\ DueBody
  BY DEF Inv
<1>1. PICK i \in DOMAIN batch : batch[i].key = k
  BY <1>0, Applied DEF KeysOf
<1>2. db'[k] = batch[i].hash
  BY <1>0, <1>1, Applied
<1>3. CASE type = "diff"
  BY <1>0, <1>1, <1>2, <1>3 DEF DueBody
<1>4. CASE type = "full"
  <2>1. due = FullResult(base, full) /\ Among(batch[i], full)
    BY <1>0, <1>4 DEF DueBody, FullBody
  <2>2. PICK j \in DOMAIN full : full[j] = batch[i]
    BY <2>1 DEF Among
  <2>3. k \in Listed(full) /\ full[j].key \notin SkipKeys
    BY <2>2, <1>0, <1>1 DEF DistinctPending, Listed, KeysOf
  <2>4. With(base, full)[k] = batch[i].hash
    BY <2>2, <2>3, <1>0, <1>1, FullType, WithIs
  <2>5. FullResult(base, full)[k] = With(base, full)[k]
    BY <2>3 DEF FullResult, Without
  <2> QED
    BY <2>1, <2>4, <2>5, <1>2
<1> QED
  BY <1>0, <1>3, <1>4 DEF Phases, InFile

LEMMA PruneWrites ==
    ASSUME Inv, PruneSome, NEW k \in Keys, db'[k] # db[k]
    PROVE  db'[k] = due[k]
<1>0. Phases /\ FullBody /\ DueBody
  BY DEF Inv
<1>1. k \notin seen /\ db'[k] = Absent /\ pc = "prune"
  BY DEF PruneSome, StaleKeys, Without
<1>2. type = "full" /\ input = <<>>
  BY <1>0, <1>1 DEF Phases
<1>3. KeysOf(input) = {}
  BY <1>2 DEF KeysOf
<1>4. prune /\ Listed(full) \subseteq seen /\ due = FullResult(base, full)
  BY <1>0, <1>1, <1>2, <1>3 DEF FullBody, DueBody
<1>5. FullResult(base, full)[k] = Absent
  BY <1>1, <1>4 DEF FullResult, Without
<1> QED
  BY <1>1, <1>4, <1>5

LEMMA WriteStep ==
    Inv /\ DelFromMonth /\ [Next]_vars =>
        \A k \in Keys :
            db'[k] # db[k] =>
                \/ db'[k] = due[k]
                \/ pc = "delete" /\ db'[k] = Absent /\ Abolished(k, month)
<1> SUFFICES ASSUME Inv, DelFromMonth, [Next]_vars, NEW k \in Keys, db'[k] # db[k]
             PROVE  \/ db'[k] = due[k]
                    \/ pc = "delete" /\ db'[k] = Absent /\ Abolished(k, month)
  OBVIOUS
<1>1. CASE FlushFull \/ FlushMonth \/ FlushFile
  BY <1>1, BatchWrites DEF FlushFull, FlushMonth, FlushFile, InFile
<1>2. CASE PruneSome
  BY <1>2, PruneWrites
<1>3. CASE DeleteSome
  <2>1. db'[k] = Absent /\ ToDelete(k)
    BY <1>3, Chunk DEF Inv
  <2>2. Abolished(k, month)
    BY <2>1 DEF ToDelete, DelFromMonth
  <2> QED
    BY <2>1, <2>2, <1>3 DEF DeleteSome
<1>4. ASSUME NEW req \in {"auto", "full", "diff"}, StartRun(req) PROVE FALSE
  BY <1>4 DEF StartRun
<1>5. CASE OpenFull \/ OpenMonth \/ DeleteDone \/ ParseRow \/ StoreSkipped \/ EndFull
           \/ PruneDone \/ EndDiff \/ RunError \/ StoreChunkError \/ UNCHANGED vars
  <2>1. db' = db
    BY <1>5 DEF OpenFull, OpenMonth, DeleteDone, ParseRow, StoreSkipped, EndFull, PruneDone,
       EndDiff, RunError, StoreChunkError, vars
  <2> QED
    BY <2>1
<1> QED
  BY <1>1, <1>2, <1>3, <1>4, <1>5 DEF Next

\* Every write of every run, one that fails later included, gives an address
\* what the files opened so far make of it, or takes it away because the file
\* of the month at work abolishes it.
THEOREM WritesAreDue == Spec => WritesFollowFiles
<1>1. Init => DelFromMonth
  BY DEF Init, DelFromMonth
<1>2. Inv /\ DelFromMonth /\ [Next]_vars =>
          [\A k \in Keys :
              db'[k] # db[k] =>
                  \/ db'[k] = due[k]
                  \/ pc = "delete" /\ db'[k] = Absent /\ Abolished(k, month)]_vars
  BY WriteStep
<1>3. Spec => []DelFromMonth
  BY InvHolds, <1>1, DelStep, PTL DEF Spec
<1> QED
  BY InvHolds, <1>2, <1>3, PTL DEF Spec, WritesFollowFiles
=============================================================================
