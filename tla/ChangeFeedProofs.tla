---------------------------- MODULE ChangeFeedProofs ----------------------------
(***************************************************************************)
(* Proofs about ChangeFeed, for any feed, batch size and clock.  A batch   *)
(* is cut off by the number of entries before each, so the proof needs     *)
(* that the entries it leaves out come after the last it takes.            *)
(***************************************************************************)
EXTENDS ChangeFeed, FiniteSetTheorems, WellFoundedInduction, TLAPS

\* The running sync: its watermark, and the batch it holds while it pushes.
Sync == [pc : {"idle", "read", "push"}, mark : FeedWatermark, batch : SUBSET FeedIDs]

Typed == FeedTypeOK /\ clock \in 0 .. FeedMaxClock /\ sync \in Sync /\ IsFiniteSet(Visible)

\* Every committed entry that is not after the mark is in taken.
Behind(mark, taken) ==
    \A id \in Visible \ late : ~After(watermark_of(id), mark) => id \in taken

\* The inductive invariant.
FeedIInv ==
    /\ Typed
    /\ Behind(durable, pushed)
    /\ sync.pc \in {"read", "push"} => Behind(sync.mark, pushed)
    /\ sync.pc = "push" =>
          /\ sync.batch # {} /\ sync.batch \subseteq Visible
          /\ \A id \in sync.batch : After(watermark_of(id), sync.mark)
          /\ Behind(LastMark(sync.batch), pushed \cup sync.batch)

USE ChangeFeedAssumption

-----------------------------------------------------------------------------
(* The order of the feed. *)

\* Watermarks are totally ordered, by time and then by identifier.
LEMMA AfterIsAnOrder ==
    ASSUME NEW a \in Nat \X Nat, NEW b \in Nat \X Nat, NEW c \in Nat \X Nat
    PROVE  /\ ~After(a, a)
           /\ After(a, b) => ~After(b, a)
           /\ After(a, b) /\ After(b, c) => After(a, c)
           /\ After(a, b) \/ After(b, a) \/ a = b
  BY DEF After

\* Strict inclusion is well founded on the subsets of a finite set.
LEMMA SubsetsWellFounded ==
    ASSUME NEW S, IsFiniteSet(S)
    PROVE  IsWellFoundedOn(StrictSubsetOrdering(S), SUBSET S)
  BY FS_StrictSubsetOrderingWellFounded, FS_FiniteSubsetsOfFinite

\* Hence a set of such subsets has one that contains no other.
LEMMA SmallestExists ==
    ASSUME NEW S, IsFiniteSet(S), NEW T, T \subseteq SUBSET S, T # {}
    PROVE  \E x \in T : \A y \in T : ~(<<y, x>> \in StrictSubsetOrdering(S))
<1> DEFINE R == StrictSubsetOrdering(S)
           U == SUBSET S
<1>1. IsWellFoundedOn(R, U)
  BY SubsetsWellFounded
<1>2. T \subseteq U /\ T # {}
  OBVIOUS
<1> HIDE DEF R, U
<1>3. \E x \in T : \A y \in T : ~(<<y, x>> \in R)
  BY <1>1, <1>2, WFMin
<1> QED
  BY <1>3 DEF R

\* The same of the values of a function.
LEMMA SmallestValueExists ==
    ASSUME NEW S, IsFiniteSet(S), S # {}, NEW f, \A i \in S : f[i] \in SUBSET S
    PROVE  \E m \in S : \A i \in S : ~(<<f[i], f[m]>> \in StrictSubsetOrdering(S))
<1>1. /\ {f[i] : i \in S} \subseteq SUBSET S
      /\ {f[i] : i \in S} # {}
  OBVIOUS
<1>2. \E x \in {f[i] : i \in S} : \A y \in {f[i] : i \in S} :
         ~(<<y, x>> \in StrictSubsetOrdering(S))
  BY <1>1, SmallestExists
<1> QED
  BY <1>2

\* A watermark is a pair of numbers.
LEMMA MarksAreNumbers == \A mark \in FeedWatermark : mark \in Nat \X Nat
<1>1. 0 .. FeedMaxClock \subseteq Nat /\ FeedIDs \cup {0} \subseteq Nat
  OBVIOUS
<1> QED
  BY <1>1, Zenon DEF FeedWatermark

\* The last entry of S, with the fields of its entries taken from e.
LatestOf(e, S) == CHOOSE id \in S : \A i \in S : ~After(<<e[i].at, i>>, <<e[id].at, id>>)

\* A finite set of entries has a last one: the one with fewest after it.
LEMMA LatestExists ==
    ASSUME NEW e \in [FeedIDs -> ChangeFeedEntry], NEW S \in SUBSET FeedIDs,
           IsFiniteSet(S), S # {}
    PROVE  /\ LatestOf(e, S) \in S
           /\ \A i \in S : ~After(<<e[i].at, i>>, <<e[LatestOf(e, S)].at, LatestOf(e, S)>>)
<1> DEFINE mark(i) == <<e[i].at, i>>
           above(i) == {j \in S : After(mark(j), mark(i))}
<1>1. \A i \in S : mark(i) \in Nat \X Nat
  BY DEF ChangeFeedEntry
<1>2. \A i \in S : above(i) \in SUBSET S
  OBVIOUS
<1>3. PICK m \in S : \A i \in S : ~(<<above(i), above(m)>> \in StrictSubsetOrdering(S))
  <2> DEFINE f == [i \in S |-> above(i)]
  <2>1. \A i \in S : f[i] = above(i)
    OBVIOUS
  <2>2. \E m \in S : \A i \in S : ~(<<f[i], f[m]>> \in StrictSubsetOrdering(S))
    <3>1. \A i \in S : f[i] \in SUBSET S
      BY <1>2, <2>1
    <3> HIDE DEF f
    <3> QED
      BY <3>1, SmallestValueExists
  <2> HIDE DEF above, f
  <2> QED
    BY <2>1, <2>2
<1>4. \A i \in S : ~After(mark(i), mark(m))
  <2> SUFFICES ASSUME NEW i \in S, After(mark(i), mark(m)) PROVE FALSE
    OBVIOUS
  <2> HIDE DEF mark
  <2>1. \A j \in S : After(mark(j), mark(i)) => After(mark(j), mark(m))
    BY <1>1, AfterIsAnOrder
  <2>2. i \in above(m) /\ i \notin above(i)
    BY <1>1, AfterIsAnOrder
  <2>3. above(i) \subseteq above(m) /\ above(i) # above(m)
    BY <2>1, <2>2
  <2>4. above(i) \in SUBSET S /\ above(m) \in SUBSET S
    BY <1>2
  <2> HIDE DEF above
  <2>5. <<above(i), above(m)>> \in StrictSubsetOrdering(S)
    BY <2>3, <2>4 DEF StrictSubsetOrdering
  <2> QED
    BY <1>3, <2>5
<1> QED
  BY <1>4 DEF LatestOf

\* The last entry is the last whatever happens to entries outside the batch.
LEMMA LatestStays ==
    ASSUME NEW e \in [FeedIDs -> ChangeFeedEntry], NEW f \in [FeedIDs -> ChangeFeedEntry],
           NEW S \in SUBSET FeedIDs, IsFiniteSet(S), S # {},
           \A i \in S : e[i].at = f[i].at
    PROVE  LatestOf(e, S) = LatestOf(f, S)
<1> DEFINE x == LatestOf(e, S)
           y == LatestOf(f, S)
<1>1. /\ x \in S /\ \A i \in S : ~After(<<e[i].at, i>>, <<e[x].at, x>>)
      /\ y \in S /\ \A i \in S : ~After(<<f[i].at, i>>, <<f[y].at, y>>)
  BY LatestExists
<1>2. \A i \in S : <<e[i].at, i>> \in Nat \X Nat
  BY DEF ChangeFeedEntry
<1> HIDE DEF x, y
<1>3. ~After(<<e[x].at, x>>, <<e[y].at, y>>) /\ ~After(<<e[y].at, y>>, <<e[x].at, x>>)
  BY <1>1
<1>4. <<e[x].at, x>> = <<e[y].at, y>>
  BY <1>1, <1>2, <1>3, AfterIsAnOrder
<1>5. x = y
  BY <1>4
<1> QED
  BY <1>5 DEF x, y

\* The watermark a batch leaves is the mark of its last entry.
LEMMA LastMarkIsLast == LastMark(sync.batch) =
    <<entry[LatestOf(entry, sync.batch)].at, LatestOf(entry, sync.batch)>>
  BY DEF LastMark, LatestOf, watermark_of

\* A batch leaves out no entry between the mark it was read after and its last.
LEMMA BatchIsPrefix ==
    ASSUME Typed, NEW since \in FeedWatermark, NEW m \in read_changes_since(since),
           NEW id \in Visible, After(watermark_of(id), since),
           ~After(watermark_of(id), watermark_of(m))
    PROVE  id \in read_changes_since(since)
<1> DEFINE news == {i \in Visible : After(watermark_of(i), since)}
           before(i) == {j \in news : After(watermark_of(i), watermark_of(j))}
<1>1. /\ IsFiniteSet(news) /\ news \subseteq FeedIDs
      /\ \A i \in FeedIDs : watermark_of(i) \in Nat \X Nat
  <2>1. IsFiniteSet(Visible) /\ news \in SUBSET Visible
    BY DEF Typed
  <2>2. IsFiniteSet(news)
    BY <2>1, FS_Subset
  <2>3. \A i \in FeedIDs : entry[i].at \in Nat
    BY DEF Typed, FeedTypeOK, ChangeFeedEntry
  <2> QED
    BY <2>2, <2>3 DEF Visible, watermark_of
<1>2. /\ m \in news /\ id \in news
      /\ Cardinality(before(m)) < BatchSize
  BY DEF read_changes_since
<1>3. before(id) \subseteq before(m)
  <2> SUFFICES ASSUME NEW j \in news, After(watermark_of(id), watermark_of(j))
               PROVE  After(watermark_of(m), watermark_of(j))
    OBVIOUS
  <2>1. m \in FeedIDs /\ id \in FeedIDs /\ j \in FeedIDs
    BY <1>1, <1>2
  <2>2. After(watermark_of(m), watermark_of(id)) \/ watermark_of(m) = watermark_of(id)
    BY <1>1, <2>1, AfterIsAnOrder
  <2> QED
    BY <1>1, <2>1, <2>2, AfterIsAnOrder
<1>4. IsFiniteSet(before(m)) /\ IsFiniteSet(before(id))
  <2>1. before(m) \in SUBSET news /\ before(id) \in SUBSET news
    OBVIOUS
  <2> HIDE DEF before, news
  <2> QED
    BY <1>1, <2>1, FS_Subset
<1>5. Cardinality(before(id)) <= Cardinality(before(m))
  BY <1>3, <1>4, FS_Subset
<1>6. Cardinality(before(id)) < BatchSize
  <2> HIDE DEF before
  <2> QED
    BY <1>2, <1>4, <1>5, FS_CardinalityType
<1> QED
  BY <1>2, <1>6 DEF read_changes_since

-----------------------------------------------------------------------------
(* Each step keeps the invariant. *)

\* A writer's step: one entry that is not visible yet becomes w.  When it is
\* committed it is late, or it comes after whatever has been read.
LEMMA WriterHolds ==
    ASSUME FeedIInv, NEW id \in FeedIDs, NEW w \in ChangeFeedEntry,
           entry[id].tx # "committed", entry' = [entry EXCEPT ![id] = w],
           UNCHANGED <<clock, durable, sync, pushed>>,
           late' \in {late, late \cup {id}},
           w.tx = "committed" /\ id \notin late' =>
              /\ After(<<w.at, id>>, durable)
              /\ sync.pc = "read" => After(<<w.at, id>>, sync.mark)
              /\ sync.pc = "push" => After(<<w.at, id>>, LastMark(sync.batch))
    PROVE  FeedIInv'
<1>1. /\ entry' \in [FeedIDs -> ChangeFeedEntry] /\ entry'[id] = w
      /\ \A i \in FeedIDs : i # id => entry'[i] = entry[i]
      /\ entry \in [FeedIDs -> ChangeFeedEntry]
  BY DEF FeedIInv, Typed, FeedTypeOK
<1>2. /\ Visible' = IF w.tx = "committed" THEN Visible \cup {id} ELSE Visible
      /\ id \notin Visible /\ Visible \subseteq FeedIDs
  BY <1>1 DEF Visible
<1>3. Typed'
  <2>1. IsFiniteSet(Visible')
    BY <1>2, FS_AddElement DEF FeedIInv, Typed
  <2>2. late' \subseteq FeedIDs
    BY DEF FeedIInv, Typed, FeedTypeOK
  <2> QED
    BY <1>1, <2>1, <2>2 DEF FeedIInv, Typed, FeedTypeOK
<1>4. \A i \in Visible' \ late' :
         \/ i \in Visible \ late /\ watermark_of(i)' = watermark_of(i)
         \/ i = id /\ w.tx = "committed" /\ id \notin late' /\ watermark_of(i)' = <<w.at, id>>
  BY <1>1, <1>2 DEF watermark_of
<1>5. ASSUME NEW mark, NEW taken, Behind(mark, taken),
             w.tx = "committed" /\ id \notin late' => After(<<w.at, id>>, mark)
      PROVE  \A i \in Visible' \ late' : ~After(watermark_of(i)', mark) => i \in taken
  BY <1>4, <1>5 DEF Behind
<1>6. Behind(durable, pushed)'
  BY <1>5 DEF Behind, FeedIInv
<1>7. ASSUME sync.pc = "push" PROVE After(<<w.at, id>>, LastMark(sync.batch)) =>
                                       After(<<w.at, id>>, sync.mark)
  <2> DEFINE m == LatestOf(entry, sync.batch)
  <2>1. m \in sync.batch /\ LastMark(sync.batch) = watermark_of(m)
    <3>1. sync.batch \in SUBSET FeedIDs /\ IsFiniteSet(sync.batch) /\ sync.batch # {}
      BY <1>2, <1>7, FS_Subset DEF FeedIInv, Typed
    <3> QED
      BY <1>1, <3>1, LatestExists, LastMarkIsLast DEF watermark_of
  <2> HIDE DEF m
  <2>2. After(watermark_of(m), sync.mark)
    BY <1>7, <2>1 DEF FeedIInv
  <2>3. sync.mark \in Nat \X Nat
    BY MarksAreNumbers DEF FeedIInv, Typed, FeedTypeOK
  <2>4. <<w.at, id>> \in Nat \X Nat
    BY DEF ChangeFeedEntry
  <2>5. watermark_of(m) \in Nat \X Nat
    <3>1. m \in FeedIDs
      BY <1>2, <1>7, <2>1 DEF FeedIInv
    <3> QED
      BY <1>1, <3>1 DEF watermark_of, ChangeFeedEntry
  <2> QED
    BY <2>1, <2>2, <2>3, <2>4, <2>5, AfterIsAnOrder
<1>8. sync.pc \in {"read", "push"} => Behind(sync.mark, pushed)'
  BY <1>5, <1>7 DEF Behind, FeedIInv
<1>9. ASSUME sync.pc = "push"
      PROVE  /\ sync.batch # {} /\ sync.batch \subseteq Visible'
             /\ \A i \in sync.batch : After(watermark_of(i)', sync.mark)
             /\ Behind(LastMark(sync.batch), pushed \cup sync.batch)'
  <2>1. /\ sync.batch # {} /\ sync.batch \subseteq Visible
        /\ \A i \in sync.batch : After(watermark_of(i), sync.mark)
        /\ Behind(LastMark(sync.batch), pushed \cup sync.batch)
    BY <1>9 DEF FeedIInv
  <2>2. \A i \in sync.batch : i # id /\ entry'[i] = entry[i]
    BY <1>1, <1>2, <2>1
  <2>3. LastMark(sync.batch)' = LastMark(sync.batch)
    <3>1. sync.batch \in SUBSET FeedIDs /\ IsFiniteSet(sync.batch)
      BY <1>2, <2>1, FS_Subset DEF FeedIInv, Typed
    <3>2. LatestOf(entry', sync.batch) = LatestOf(entry, sync.batch)
      <4>1. \A i \in sync.batch : entry'[i].at = entry[i].at
        BY <2>2
      <4> DEFINE f == entry'
      <4> HIDE DEF f
      <4>2. f \in [FeedIDs -> ChangeFeedEntry] /\ \A i \in sync.batch : f[i].at = entry[i].at
        BY <1>1, <4>1 DEF f
      <4>3. LatestOf(f, sync.batch) = LatestOf(entry, sync.batch)
        BY <1>1, <2>1, <3>1, <4>2, LatestStays
      <4> QED
        BY <4>3 DEF f
    <3>3. LatestOf(entry, sync.batch) \in sync.batch
      BY <1>1, <2>1, <3>1, LatestExists
    <3>4. LastMark(sync.batch)' =
             <<entry'[LatestOf(entry', sync.batch)].at, LatestOf(entry', sync.batch)>>
      BY DEF LastMark, LatestOf, watermark_of
    <3> QED
      BY <2>2, <3>2, <3>3, <3>4, LastMarkIsLast
  <2>4. Behind(LastMark(sync.batch), pushed \cup sync.batch)'
    <3> DEFINE mark == LastMark(sync.batch)
               taken == pushed \cup sync.batch
    <3>1. Behind(mark, taken) /\ (w.tx = "committed" /\ id \notin late' => After(<<w.at, id>>, mark))
      BY <1>9, <2>1
    <3> HIDE DEF mark, taken
    <3>2. \A i \in Visible' \ late' : ~After(watermark_of(i)', mark) => i \in taken
      BY <1>5, <3>1
    <3> QED
      BY <2>3, <3>2 DEF Behind, mark, taken
  <2> QED
    BY <1>2, <2>1, <2>2, <2>4 DEF watermark_of
<1> QED
  BY <1>3, <1>6, <1>8, <1>9 DEF FeedIInv

\* The steps of the writers.
LEMMA StampHolds ==
    ASSUME FeedIInv, NEW id \in FeedIDs, StampEntry(id)
    PROVE  FeedIInv'
<1> DEFINE w == [at |-> clock, tx |-> "open"]
<1>1. w \in ChangeFeedEntry /\ w.tx # "committed"
  BY DEF ChangeFeedEntry, FeedIInv, Typed
<1>2. entry[id].tx # "committed" /\ entry' = [entry EXCEPT ![id] = w]
      /\ UNCHANGED <<clock, durable, sync, pushed, late>>
  BY DEF StampEntry
<1> HIDE DEF w
<1> QED
  BY <1>1, <1>2, WriterHolds

\* A write that commits behind a watermark already passed is counted as missed;
\* any other one is still ahead of the pass.
LEMMA EndHolds ==
    ASSUME FeedIInv, NEW id \in FeedIDs, EndWrite(id)
    PROVE  FeedIInv'
<1>1. /\ entry[id] \in ChangeFeedEntry /\ entry[id].tx = "open"
      /\ entry \in [FeedIDs -> ChangeFeedEntry]
      /\ UNCHANGED <<clock, durable, sync, pushed>>
  BY DEF EndWrite, FeedIInv, Typed, FeedTypeOK
<1> DEFINE behind == \/ ~After(watermark_of(id), durable)
                     \/ sync.pc = "read" /\ ~After(watermark_of(id), sync.mark)
                     \/ sync.pc = "push" /\ ~After(watermark_of(id), LastMark(sync.batch))
<1>2. CASE /\ entry' = [entry EXCEPT ![id].tx = "committed"]
           /\ late' = IF behind THEN late \cup {id} ELSE late
  <2> DEFINE w == [entry[id] EXCEPT !.tx = "committed"]
  <2>1. w \in ChangeFeedEntry /\ w.at = entry[id].at /\ entry' = [entry EXCEPT ![id] = w]
    BY <1>1, <1>2 DEF ChangeFeedEntry
  <2> HIDE DEF w
  <2>5. /\ late' \in {late, late \cup {id}}
        /\ w.tx = "committed" /\ id \notin late' =>
              /\ After(<<w.at, id>>, durable)
              /\ sync.pc = "read" => After(<<w.at, id>>, sync.mark)
              /\ sync.pc = "push" => After(<<w.at, id>>, LastMark(sync.batch))
    BY <1>2, <2>1 DEF watermark_of
  <2>6. entry[id].tx # "committed"
    BY <1>1
  <2> QED
    BY <1>1, <2>1, <2>5, <2>6, WriterHolds
<1>3. CASE entry' = [entry EXCEPT ![id].tx = "rolledBack"] /\ UNCHANGED late
  <2> DEFINE w == [entry[id] EXCEPT !.tx = "rolledBack"]
  <2>1. w \in ChangeFeedEntry /\ w.tx # "committed" /\ entry' = [entry EXCEPT ![id] = w]
    BY <1>1, <1>3 DEF ChangeFeedEntry
  <2> HIDE DEF w
  <2>2. entry[id].tx # "committed"
    BY <1>1
  <2> QED
    BY <1>1, <1>3, <2>1, <2>2, WriterHolds
<1> QED
  BY <1>2, <1>3 DEF EndWrite

\* A sync that reads: with an empty batch its watermark becomes durable, and a
\* batch is the next of what comes after it.
LEMMA ReadHolds ==
    ASSUME FeedIInv, ReadBatch
    PROVE  FeedIInv'
<1> DEFINE batch == read_changes_since(sync.mark)
<1>1. /\ sync \in Sync /\ sync.pc = "read" /\ sync.mark \in FeedWatermark
      /\ Behind(sync.mark, pushed)
      /\ UNCHANGED <<clock, entry, pushed, late>>
  BY DEF ReadBatch, FeedIInv, Typed, FeedTypeOK
<1>2. /\ batch \subseteq Visible /\ Visible \subseteq FeedIDs
      /\ \A id \in batch : After(watermark_of(id), sync.mark)
  BY DEF read_changes_since, Visible
<1>3. CASE batch = {}
  <2>1. durable' = sync.mark /\ sync' = [sync EXCEPT !.pc = "idle"]
    BY <1>3 DEF ReadBatch
  <2>2. sync' \in Sync /\ sync'.pc = "idle" /\ sync'.mark = sync.mark
    BY <1>1, <2>1 DEF Sync
  <2>3. Typed'
    BY <1>1, <2>1, <2>2 DEF FeedIInv, Typed, FeedTypeOK, Visible, Sync
  <2> QED
    BY <1>1, <2>1, <2>2, <2>3 DEF FeedIInv, Behind, Visible, watermark_of
<1>4. CASE batch # {}
  <2>1. sync' = [sync EXCEPT !.pc = "push", !.batch = batch] /\ durable' = durable
    BY <1>4 DEF ReadBatch
  <2> DEFINE m == LatestOf(entry, batch)
  <2>2. /\ m \in batch /\ \A i \in batch : ~After(watermark_of(i), watermark_of(m))
        /\ LastMark(batch) = watermark_of(m)
    <3>1. IsFiniteSet(batch)
      BY <1>2, FS_Subset DEF FeedIInv, Typed
    <3>2. entry \in [FeedIDs -> ChangeFeedEntry] /\ batch \in SUBSET FeedIDs
      BY <1>2 DEF FeedIInv, Typed, FeedTypeOK
    <3> HIDE DEF batch
    <3> QED
      BY <1>4, <3>1, <3>2, LatestExists DEF watermark_of, LastMark, LatestOf
  <2> HIDE DEF m
  <2>3. Behind(watermark_of(m), pushed \cup batch)
    <3> SUFFICES ASSUME NEW id \in Visible \ late, ~After(watermark_of(id), watermark_of(m))
                 PROVE  id \in pushed \cup batch
      BY DEF Behind
    <3>1. CASE After(watermark_of(id), sync.mark)
      BY <1>1, <2>2, <3>1, BatchIsPrefix DEF FeedIInv
    <3>2. CASE ~After(watermark_of(id), sync.mark)
      BY <1>1, <3>2 DEF Behind
    <3> QED
      BY <3>1, <3>2
  <2> HIDE DEF batch
  <2>4. /\ sync' \in Sync /\ sync'.pc = "push" /\ sync'.mark = sync.mark
        /\ sync'.batch = batch
    BY <1>1, <1>2, <2>1 DEF Sync
  <2>5. Typed'
    BY <1>1, <1>2, <2>1, <2>4 DEF FeedIInv, Typed, FeedTypeOK, Visible
  <2>6. LastMark(sync.batch)' = LastMark(batch)
    BY <1>1, <2>4 DEF LastMark, watermark_of
  <2> QED
    BY <1>1, <1>2, <1>4, <2>1, <2>2, <2>3, <2>4, <2>5, <2>6
       DEF FeedIInv, Behind, Visible, watermark_of
<1> QED
  BY <1>3, <1>4

\* The step of a sync that goes back to reading or to rest with a mark that
\* loses nothing.
LEMMA MarkHolds ==
    ASSUME FeedIInv, NEW s \in Sync, sync' = s, s.pc # "push",
           UNCHANGED <<clock, entry, late>>, pushed \subseteq pushed', pushed' \subseteq FeedIDs,
           durable' \in FeedWatermark, Behind(durable', pushed'),
           s.pc = "read" => Behind(s.mark, pushed')
    PROVE  FeedIInv'
<1>1. Typed'
  BY DEF FeedIInv, Typed, FeedTypeOK, Sync, Visible
<1> QED
  BY <1>1 DEF FeedIInv, Sync, Behind, Visible, watermark_of

\* A new sync resumes from the durable mark, an accepted batch moves the mark
\* to its last entry, and a rejected or interrupted one leaves it.
LEMMA SyncHolds ==
    ASSUME FeedIInv, StartSync \/ PushAccepted \/ PushRejected \/ SyncCrash
    PROVE  FeedIInv'
<1> DEFINE rest == [pc |-> "idle", mark |-> Beginning, batch |-> {}]
<1>1. rest \in Sync /\ rest.pc = "idle"
  BY DEF Sync, Beginning, FeedWatermark
<1>2. /\ durable \in FeedWatermark /\ pushed \subseteq FeedIDs /\ sync \in Sync
      /\ Behind(durable, pushed)
  BY DEF FeedIInv, Typed, FeedTypeOK
<1> HIDE DEF rest
<1>3. CASE StartSync
  <2> DEFINE s == [pc |-> "read", mark |-> durable, batch |-> {}]
  <2>1. s \in Sync /\ s.pc = "read" /\ s.mark = durable
    BY <1>2 DEF Sync
  <2>2. sync' = s /\ UNCHANGED <<clock, entry, durable, pushed, late>>
    BY <1>3 DEF StartSync
  <2> HIDE DEF s
  <2> QED
    BY <1>2, <2>1, <2>2, MarkHolds
<1>4. CASE PushAccepted
  <2> DEFINE s == [pc |-> "read", mark |-> LastMark(sync.batch), batch |-> {}]
  <2>1. /\ sync.pc = "push" /\ sync' = s /\ pushed' = pushed \cup sync.batch
        /\ UNCHANGED <<clock, entry, durable, late>>
    BY <1>4 DEF PushAccepted
  <2>2. /\ sync.batch \in SUBSET FeedIDs /\ sync.batch # {} /\ sync.batch \subseteq Visible
        /\ Behind(LastMark(sync.batch), pushed \cup sync.batch)
    BY <1>2, <2>1 DEF FeedIInv, Sync
  <2>3. LastMark(sync.batch) \in FeedWatermark
    <3>1. IsFiniteSet(sync.batch) /\ entry \in [FeedIDs -> ChangeFeedEntry]
      BY <2>2, FS_Subset DEF FeedIInv, Typed, FeedTypeOK
    <3> DEFINE m == LatestOf(entry, sync.batch)
    <3>2. m \in FeedIDs
      BY <2>2, <3>1, LatestExists
    <3>3. LastMark(sync.batch) = <<entry[m].at, m>>
      BY LastMarkIsLast
    <3> HIDE DEF m
    <3> QED
      BY <3>1, <3>2, <3>3 DEF FeedWatermark, ChangeFeedEntry
  <2>4. s \in Sync /\ s.pc = "read" /\ s.mark = LastMark(sync.batch)
    BY <2>3 DEF Sync
  <2> HIDE DEF s
  <2>5. Behind(durable', pushed') /\ Behind(s.mark, pushed')
    BY <1>2, <2>1, <2>2, <2>4 DEF Behind
  <2> QED
    BY <1>2, <2>1, <2>2, <2>4, <2>5, MarkHolds
<1>5. CASE PushRejected
  <2>1. /\ sync.pc = "push" /\ sync' = rest /\ durable' = sync.mark
        /\ UNCHANGED <<clock, entry, pushed, late>>
    BY <1>5 DEF PushRejected, rest
  <2>2. sync.mark \in FeedWatermark /\ Behind(sync.mark, pushed)
    BY <1>2, <2>1 DEF FeedIInv, Sync
  <2> QED
    BY <1>1, <1>2, <2>1, <2>2, MarkHolds
<1>6. CASE SyncCrash
  <2>1. sync' = rest /\ UNCHANGED <<clock, entry, durable, pushed, late>>
    BY <1>6 DEF SyncCrash, rest
  <2> QED
    BY <1>1, <1>2, <2>1, MarkHolds
<1> QED
  BY <1>3, <1>4, <1>5, <1>6

\* Every step keeps the invariant.
LEMMA FeedInvStep ==
    ASSUME FeedIInv, [FeedNext]_feedVars
    PROVE  FeedIInv'
<1>1. ASSUME NEW id \in FeedIDs, StampEntry(id) \/ EndWrite(id) PROVE FeedIInv'
  BY <1>1, StampHolds, EndHolds
<1>2. CASE ReadBatch
  BY <1>2, ReadHolds
<1>3. CASE StartSync \/ PushAccepted \/ PushRejected \/ SyncCrash
  BY <1>3, SyncHolds
<1>4. CASE FeedTick \/ UNCHANGED feedVars
  <2>1. UNCHANGED <<entry, durable, sync, pushed, late>> /\ clock' \in 0 .. FeedMaxClock
    BY <1>4 DEF FeedTick, feedVars, FeedIInv, Typed
  <2>2. Typed'
    BY <2>1 DEF FeedIInv, Typed, FeedTypeOK, Visible
  <2>3. LastMark(sync.batch)' = LastMark(sync.batch)
    BY <2>1 DEF LastMark, watermark_of
  <2> QED
    BY <2>1, <2>2, <2>3 DEF FeedIInv, Behind, Visible, watermark_of
<1> QED
  BY <1>1, <1>2, <1>3, <1>4 DEF FeedNext

-----------------------------------------------------------------------------
(* The theorems. *)

\* The inductive invariant: every mark the sync or its caller holds has nothing
\* behind it that is not accepted or in the batch.
THEOREM FeedSafety == FeedSpec => []FeedIInv
<1>1. ASSUME FeedInit PROVE FeedIInv
  <2>1. Visible = {} /\ sync.pc = "idle"
    BY <1>1 DEF FeedInit, Visible
  <2>2. Beginning \in FeedWatermark
    BY DEF Beginning, FeedWatermark
  <2>3. entry \in [FeedIDs -> ChangeFeedEntry] /\ sync \in Sync /\ clock \in 0 .. FeedMaxClock
    BY <1>1, <2>2 DEF FeedInit, ChangeFeedEntry, Sync
  <2>4. Typed
    BY <1>1, <2>1, <2>2, <2>3, FS_EmptySet DEF FeedInit, Typed, FeedTypeOK, Sync
  <2> QED
    BY <2>1, <2>4 DEF FeedIInv, Behind
<1> QED
  BY <1>1, FeedInvStep, PTL DEF FeedSpec

\* Every variable of the feed has its type.
THEOREM FeedTypeCorrect == FeedSpec => []FeedTypeOK
  BY FeedSafety, PTL DEF FeedIInv, Typed

\* At-least-once delivery: an entry behind the durable watermark was accepted,
\* unless it was committed behind a batch that had been read.
THEOREM NothingLost == FeedSpec => []WatermarkLosesNothing
<1>1. FeedIInv => WatermarkLosesNothing
  BY DEF FeedIInv, Behind, WatermarkLosesNothing
<1> QED
  BY <1>1, FeedSafety, PTL

===============================================================================
