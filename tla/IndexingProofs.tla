--------------------------- MODULE IndexingProofs --------------------------
(***************************************************************************)
(* What is proved of an indexed project.  Its history survives rewinds:    *)
(* for any blocks, writes and sequence of rewinds, with the statements of  *)
(* rewind.rs in either order, repeated, and interrupted between them.  Its *)
(* handlers get the inputs the manifest asks for, on either path, and its  *)
(* sources are found at every height.  Its entities follow its blocks: the *)
(* whole of it implements BlockStore, with history and without.  And its   *)
(* queries find every row.                                                 *)
(***************************************************************************)
EXTENDS Indexing, FiniteSetTheorems, SequenceTheorems, WellFoundedInduction, TLAPS

(* Two sets of rows read alike at a height when each covers what the other *)
(* does: the ranges may differ, the entities do not.                       *)
LEMMA ReadAlike ==
    ASSUME NEW A, NEW B, NEW k, NEW j,
           \A v \in A : Covers(v, k) => \E w \in B : w.key = v.key /\ w.row = v.row /\ Covers(w, j),
           \A w \in B : Covers(w, j) => \E v \in A : v.key = w.key /\ v.row = w.row /\ Covers(v, k)
    PROVE  AsOf(A, k) = AsOf(B, j)
BY DEF AsOf

(* DELETE ... lower > H leaves every height up to H as it was.             *)
LEMMA DeleteKeepsPast ==
    ASSUME NEW vs, AreVersions(vs), NEW H \in Height, NEW k \in Height, k <= H
    PROVE  AsOf(DeleteAbove(vs, H), k) = AsOf(vs, k)
<1>1. \A v \in vs : v.lower \in Int
  BY DEF AreVersions, IsVersion, Height
<1>2. \A v \in vs : Covers(v, k) => v \in DeleteAbove(vs, H)
  BY <1>1 DEF DeleteAbove, Covers, Height
<1>3. DeleteAbove(vs, H) \subseteq vs
  BY DEF DeleteAbove
<1> QED
  BY <1>2, <1>3, ReadAlike

(* A row whose range has got another end.                                  *)
LEMMA EndSet ==
    ASSUME NEW v, IsVersion(v), NEW u \in Height \union {Open}
    PROVE  LET w == [v EXCEPT !.upper = u]
           IN  IsVersion(w) /\ w.key = v.key /\ w.row = v.row /\ w.lower = v.lower /\ w.upper = u
<1> DEFINE r == [key |-> v.key, row |-> v.row, lower |-> v.lower, upper |-> v.upper]
<1>1. v = r
  BY DEF IsVersion
<1>2. [r EXCEPT !.upper = u] = [key |-> v.key, row |-> v.row, lower |-> v.lower, upper |-> u]
  OBVIOUS
<1>3. [v EXCEPT !.upper = u] = [r EXCEPT !.upper = u]
  BY <1>1
<1> QED BY <1>2, <1>3 DEF IsVersion

(* Where the rows after UPDATE ... SET range come from.                    *)
LEMMA ReopenOrigin ==
    ASSUME NEW vs, AreVersions(vs), NEW H \in Height, NEW w \in ReopenVersions(vs, H)
    PROVE  \E v \in vs : /\ w.key = v.key /\ w.row = v.row /\ w.lower = v.lower
                         /\ \/ w = v /\ ~Reopens(v, H)
                            \/ w = [v EXCEPT !.upper = Open] /\ w.upper = Open /\ Reopens(v, H)
<1>1. CASE w \in vs /\ ~Reopens(w, H)
  BY <1>1
<1>2. CASE \E v \in vs : Reopens(v, H) /\ w = [v EXCEPT !.upper = Open]
  <2>1. PICK v \in vs : Reopens(v, H) /\ w = [v EXCEPT !.upper = Open]
    BY <1>2
  <2>2. w.key = v.key /\ w.row = v.row /\ w.lower = v.lower /\ w.upper = Open
    BY <2>1, EndSet DEF AreVersions
  <2> QED BY <2>1, <2>2
<1> QED BY <1>1, <1>2 DEF ReopenVersions

(* UPDATE ... upper > H leaves every height up to H as it was.             *)
LEMMA ReopenKeepsPast ==
    ASSUME NEW vs, AreVersions(vs), NEW H \in Height, NEW k \in Height, k <= H
    PROVE  AsOf(ReopenVersions(vs, H), k) = AsOf(vs, k)
<1>1. ASSUME NEW w \in ReopenVersions(vs, H), Covers(w, k)
      PROVE  \E v \in vs : v.key = w.key /\ v.row = w.row /\ Covers(v, k)
  <2>1. PICK v \in vs : /\ w.key = v.key /\ w.row = v.row /\ w.lower = v.lower
                        /\ \/ w = v /\ ~Reopens(v, H)
                           \/ w = [v EXCEPT !.upper = Open] /\ w.upper = Open /\ Reopens(v, H)
    BY ReopenOrigin
  <2>2. Covers(v, k)
    BY <1>1, <2>1 DEF Covers, Reopens, AreVersions, IsVersion, Height, Open
  <2> QED BY <2>1, <2>2
<1>2. ASSUME NEW v \in vs, Covers(v, k)
      PROVE  \E w \in ReopenVersions(vs, H) : w.key = v.key /\ w.row = v.row /\ Covers(w, k)
  <2>1. CASE ~Reopens(v, H)
    BY <1>2, <2>1 DEF ReopenVersions
  <2>2. CASE Reopens(v, H)
    <3> DEFINE w == [v EXCEPT !.upper = Open]
    <3>1. w \in ReopenVersions(vs, H)
      BY <2>2 DEF ReopenVersions
    <3>2. w.key = v.key /\ w.row = v.row /\ Covers(w, k)
      BY <1>2, EndSet DEF Covers
    <3> QED BY <3>1, <3>2
  <2> QED BY <2>1, <2>2
<1> QED
  BY <1>1, <1>2, ReadAlike

(* Reopened rows are rows.                                                 *)
LEMMA ReopenTyped ==
    ASSUME NEW vs, AreVersions(vs), NEW H \in Height
    PROVE  AreVersions(ReopenVersions(vs, H))
BY EndSet DEF ReopenVersions, AreVersions

(* Reopening keeps every range non-empty and below the last height.        *)
LEMMA ReopenKeepsRanges ==
    ASSUME NEW vs, AreVersions(vs), NEW H \in Height, NEW h \in Height, RangesWithin(vs, h)
    PROVE  RangesWithin(ReopenVersions(vs, H), h)
BY ReopenOrigin DEF RangesWithin

-----------------------------------------------------------------------------
(* Where the rows after the transaction of a block come from: a row is as  *)
(* it was, or was closed by the block, or is new.                          *)
LEMMA WriteOrigin ==
    ASSUME NEW vs, AreVersions(vs), NEW changes, AreChanges(changes), NEW h \in Height,
           NEW w \in Write(vs, changes, h)
    PROVE  /\ IsVersion(w)
           /\ \/ w \in vs /\ (w.key \notin DOMAIN changes \/ w.upper # Open)
              \/ /\ w.key \in DOMAIN changes /\ w.upper = h
                 /\ \E v \in vs : /\ v.key = w.key /\ v.row = w.row /\ v.lower = w.lower
                                  /\ v.upper = Open /\ w = [v EXCEPT !.upper = h]
              \/ /\ w.key \in DOMAIN changes /\ w.row \in changes[w.key]
                 /\ w.lower = h /\ w.upper = Open
<1>1. CASE w \in {v \in vs : v.key \notin DOMAIN changes \/ v.upper # Open}
  BY <1>1 DEF AreVersions
<1>2. CASE w \in {[v EXCEPT !.upper = h] : v \in {u \in vs : u.key \in DOMAIN changes /\ u.upper = Open}}
  <2>1. PICK v \in vs : v.key \in DOMAIN changes /\ v.upper = Open /\ w = [v EXCEPT !.upper = h]
    BY <1>2
  <2>2. IsVersion(w) /\ w.key = v.key /\ w.row = v.row /\ w.lower = v.lower /\ w.upper = h
    BY <2>1, EndSet DEF AreVersions
  <2> QED BY <2>1, <2>2
<1>3. CASE w \in UNION {{[key |-> k, row |-> r, lower |-> h, upper |-> Open] : r \in changes[k]}
                          : k \in DOMAIN changes}
  <2>0. PICK k \in DOMAIN changes : \E r \in changes[k] :
              w = [key |-> k, row |-> r, lower |-> h, upper |-> Open]
    BY <1>3
  <2>1. PICK r \in changes[k] : w = [key |-> k, row |-> r, lower |-> h, upper |-> Open]
    BY <2>0
  <2>2. w.key = k /\ w.row = r /\ w.lower = h /\ w.upper = Open /\ IsVersion(w)
    BY <2>1 DEF IsVersion
  <2> QED BY <2>1, <2>2
<1> QED
  BY <1>1, <1>2, <1>3 DEF Write

(* A block changes no height below its own.                                *)
LEMMA WriteKeepsPast ==
    ASSUME NEW vs, AreVersions(vs), NEW changes, AreChanges(changes), NEW h \in Height,
           NEW k \in Height, k < h
    PROVE  AsOf(Write(vs, changes, h), k) = AsOf(vs, k)
<1>1. ASSUME NEW w \in Write(vs, changes, h), Covers(w, k)
      PROVE  \E v \in vs : v.key = w.key /\ v.row = w.row /\ Covers(v, k)
  BY <1>1, WriteOrigin DEF Covers, Height, Open
<1>2. ASSUME NEW v \in vs, Covers(v, k)
      PROVE  \E w \in Write(vs, changes, h) : w.key = v.key /\ w.row = v.row /\ Covers(w, k)
  <2>1. CASE v.key \notin DOMAIN changes \/ v.upper # Open
    BY <1>2, <2>1 DEF Write
  <2>2. CASE v.key \in DOMAIN changes /\ v.upper = Open
    <3> DEFINE w == [v EXCEPT !.upper = h]
    <3>1. w \in Write(vs, changes, h)
      BY <2>2 DEF Write
    <3>2. w.key = v.key /\ w.row = v.row /\ w.lower = v.lower /\ w.upper = h
      BY DEF AreVersions, IsVersion
    <3>3. Covers(w, k)
      BY <1>2, <3>2 DEF Covers, Height
    <3> QED BY <3>1, <3>2, <3>3
  <2> QED BY <2>1, <2>2
<1> QED
  BY <1>1, <1>2, ReadAlike

(* At its own height it is what the operations come to.                    *)
LEMMA WriteTakesEffect ==
    ASSUME NEW vs, AreVersions(vs), NEW changes, AreChanges(changes), NEW h \in Height,
           RangesWithin(vs, h)
    PROVE  AsOf(Write(vs, changes, h + 1), h + 1) = Changed(AsOf(vs, h), changes)
<1> DEFINE new == Write(vs, changes, h + 1)
<1>0. h + 1 \in Height /\ h \in Int
  BY DEF Height
<1>1. ASSUME NEW w \in new, Covers(w, h + 1)
      PROVE  <<w.key, w.row>> \in Changed(AsOf(vs, h), changes)
  <2>1. CASE w \in vs /\ (w.key \notin DOMAIN changes \/ w.upper # Open)
    <3>1. w.upper = Open /\ Covers(w, h)
      BY <1>0, <1>1, <2>1 DEF RangesWithin, Covers, AreVersions, IsVersion, Height, Open
    <3> QED BY <2>1, <3>1 DEF Changed, AsOf
  <2>2. CASE w.upper = h + 1
    BY <1>0, <1>1, <2>2 DEF Covers, Open, Height
  <2>3. CASE w.key \in DOMAIN changes /\ w.row \in changes[w.key]
    BY <2>3 DEF Changed
  <2> QED BY <1>0, <2>1, <2>2, <2>3, WriteOrigin
<1>2. ASSUME NEW e \in Changed(AsOf(vs, h), changes)
      PROVE  e \in AsOf(new, h + 1)
  <2>1. CASE e \in AsOf(vs, h) /\ e[1] \notin DOMAIN changes
    <3>1. PICK v \in vs : e = <<v.key, v.row>> /\ Covers(v, h)
      BY <2>1 DEF AsOf
    <3>2. v \in new
      BY <2>1, <3>1 DEF Write
    <3>3. v.upper = Open /\ Covers(v, h + 1)
      BY <1>0, <3>1 DEF RangesWithin, Covers, AreVersions, IsVersion, Height, Open
    <3> QED BY <3>1, <3>2, <3>3 DEF AsOf
  <2>2. CASE \E k \in DOMAIN changes : \E r \in changes[k] : e = <<k, r>>
    <3>0. PICK k \in DOMAIN changes : \E r \in changes[k] : e = <<k, r>>
      BY <2>2
    <3>1. PICK r \in changes[k] : e = <<k, r>>
      BY <3>0
    <3> DEFINE w == [key |-> k, row |-> r, lower |-> h + 1, upper |-> Open]
    <3>2. w \in new
      BY <3>1 DEF Write
    <3>3. Covers(w, h + 1) /\ w.key = k /\ w.row = r
      BY <1>0 DEF Covers, Height
    <3> QED BY <3>1, <3>2, <3>3 DEF AsOf
  <2> QED BY <1>2, <2>1, <2>2 DEF Changed
<1>3. \A e \in AsOf(new, h + 1) : \E w \in new : Covers(w, h + 1) /\ e = <<w.key, w.row>>
  BY DEF AsOf
<1> QED
  BY <1>1, <1>2, <1>3

-----------------------------------------------------------------------------
(* An empty store satisfies the invariant.                                 *)
LEMMA HistoryStarts == HistoryInit => HistoryInvariant
BY DEF HistoryInit, HistoryInvariant, HistoryShape, AreVersions, RangesWithin, RewindProgress,
       OneRowPerHeight, HistoryIntact, AsOf, Settled, Height, NoTarget

(* A block closes and opens rows at its own height only.                   *)
LEMMA WriteBlockKeeps ==
    ASSUME HistoryInvariant, NEW changes, AreChanges(changes), WriteBlock(changes)
    PROVE  HistoryInvariant'
<1> USE DEF Height
<1>1. /\ target = NoTarget /\ target' = NoTarget /\ done' = done
      /\ height \in Nat /\ height' = height + 1 /\ height' \in Nat
      /\ AreVersions(versions) /\ versions' = Write(versions, changes, height + 1)
  BY DEF HistoryInvariant, HistoryShape, WriteBlock
<1>2. AsOf(versions, height) = past[height]
  BY <1>1 DEF HistoryInvariant, HistoryIntact, Settled
<1>4. HistoryShape'
  <2>1. past' = [k \in 0..height' |-> past'[k]]
    BY <1>1 DEF WriteBlock
  <2>2. AreVersions(versions')
    BY <1>1, WriteOrigin DEF AreVersions
  <2> QED BY <1>1, <2>1, <2>2 DEF HistoryInvariant, HistoryShape, NoTarget
<1>5. RangesWithin(versions, height)
  BY DEF HistoryInvariant
<1>6. RangesWithin(versions, height)'
  <2> SUFFICES ASSUME NEW w \in versions'
               PROVE  w.lower <= height' /\ (w.upper # Open => w.lower < w.upper /\ w.upper <= height')
    BY DEF RangesWithin
  <2> QED BY <1>1, <1>5, WriteOrigin DEF RangesWithin, AreVersions, IsVersion, Open
<1>7. RewindProgress'
  <2>1. done = {}
    BY <1>1 DEF HistoryInvariant, RewindProgress
  <2> QED BY <1>1, <2>1 DEF RewindProgress
<1>8. OneRowPerHeight'
  <2> SUFFICES ASSUME NEW v \in versions', NEW w \in versions', NEW k \in 0..height',
                      v.key = w.key, Covers(v, k), Covers(w, k)
               PROVE  v = w
    BY <1>1 DEF OneRowPerHeight, Settled
  <2> DEFINE h == height + 1
             Kept(x) == x \in versions /\ (x.key \notin DOMAIN changes \/ x.upper # Open)
             Shut(x) == /\ x.key \in DOMAIN changes /\ x.upper = h
                        /\ \E u \in versions : /\ u.key = x.key /\ u.row = x.row /\ u.lower = x.lower
                                               /\ u.upper = Open /\ x = [u EXCEPT !.upper = h]
             New(x)  == /\ x.key \in DOMAIN changes /\ x.row \in changes[x.key]
                        /\ x.lower = h /\ x.upper = Open
  <2>1. IsVersion(v) /\ (Kept(v) \/ Shut(v) \/ New(v))
    BY <1>1, WriteOrigin
  <2>2. IsVersion(w) /\ (Kept(w) \/ Shut(w) \/ New(w))
    BY <1>1, WriteOrigin
  <2>3. \A x, y \in versions : \A j \in 0..height :
            x.key = y.key /\ Covers(x, j) /\ Covers(y, j) => x = y
    BY <1>1 DEF HistoryInvariant, OneRowPerHeight, Settled
  <2>4. \A x \in {v, w} : x.upper = h => k \in 0..height
    BY <1>1 DEF Covers, Open
  <2>5. \A x \in {v, w} : x.lower = h => k = h
    BY <1>1 DEF Covers
  <2>6. \A x \in {v, w} : Kept(x) /\ k = h => x.upper = Open /\ Covers(x, height)
    BY <1>1, <1>5 DEF RangesWithin, Covers, AreVersions, IsVersion, Open
  <2>7. k = h \/ k \in 0..height
    BY <1>1
  <2>8. CASE Kept(v) /\ Kept(w)
    BY <1>1, <2>3, <2>6, <2>7, <2>8
  <2>9. CASE Shut(v) /\ Shut(w)
    <3>1. PICK a \in versions : a.key = v.key /\ a.lower = v.lower /\ a.upper = Open
                                /\ v = [a EXCEPT !.upper = h]
      BY <2>9
    <3>2. PICK b \in versions : b.key = w.key /\ b.lower = w.lower /\ b.upper = Open
                                /\ w = [b EXCEPT !.upper = h]
      BY <2>9
    <3>3. Covers(a, k) /\ Covers(b, k)
      BY <3>1, <3>2 DEF Covers
    <3>4. a = b
      BY <2>3, <2>4, <2>9, <3>1, <3>2, <3>3
    <3> QED BY <3>1, <3>2, <3>4
  <2>10. CASE New(v) /\ New(w)
    <3>1. v.row = w.row
      BY <2>10 DEF AreChanges
    <3> QED BY <2>1, <2>2, <2>10, <3>1 DEF AreVersions, IsVersion
  <2>11. ASSUME NEW x \in {v, w}, NEW y \in {v, w}, Kept(x), Shut(y)
         PROVE  FALSE
    <3>1. PICK a \in versions : a.key = y.key /\ a.lower = y.lower /\ a.upper = Open
      BY <2>11
    <3>2. Covers(a, k)
      BY <2>11, <3>1 DEF Covers
    <3>3. x = a
      BY <2>3, <2>4, <2>11, <3>1, <3>2
    <3> QED BY <2>11, <3>1, <3>3
  <2>12. ASSUME NEW x \in {v, w}, NEW y \in {v, w}, Kept(x), New(y)
         PROVE  FALSE
    BY <2>5, <2>6, <2>12
  <2>13. ASSUME NEW x \in {v, w}, NEW y \in {v, w}, Shut(x), New(y)
         PROVE  FALSE
    <3>1. x.upper = h /\ y.lower = h
      BY <2>13
    <3> QED BY <1>1, <2>4, <2>5, <3>1
  <2> HIDE DEF Kept, Shut, New
  <2> QED BY <2>1, <2>2, <2>8, <2>9, <2>10, <2>11, <2>12, <2>13
<1>9. HistoryIntact'
  <2> SUFFICES ASSUME NEW k \in 0..height' PROVE AsOf(versions', k) = past'[k]
    BY <1>1 DEF HistoryIntact, Settled
  <2>1. CASE k = height + 1
    BY <1>1, <1>2, <1>5, <2>1, WriteTakesEffect DEF WriteBlock
  <2>2. CASE k # height + 1
    <3>1. k \in 0..height /\ k < height + 1
      BY <1>1, <2>2
    <3>2. AsOf(versions', k) = AsOf(versions, k)
      BY <1>1, <3>1, WriteKeepsPast
    <3>3. AsOf(versions, k) = past[k]
      BY <1>1, <3>1 DEF HistoryInvariant, HistoryIntact, Settled
    <3> QED BY <1>1, <3>1, <3>2, <3>3 DEF WriteBlock
  <2> QED BY <2>1, <2>2
<1> QED
  BY <1>4, <1>6, <1>7, <1>8, <1>9 DEF HistoryInvariant

(* Neither statement of a rewind, in either order and however often it is  *)
(* run, changes what is read up to the target.                             *)
LEMMA RewindStatementsKeep ==
    ASSUME HistoryInvariant, RunDelete \/ RunReopen
    PROVE  HistoryInvariant'
<1> USE DEF Height
<1>1. /\ target \in Nat /\ height \in Nat /\ AreVersions(versions)
      /\ UNCHANGED <<height, target, past>> /\ target # NoTarget
  BY DEF HistoryInvariant, HistoryShape, RunDelete, RunReopen
<1>2. RangesWithin(versions, height) /\ RewindProgress /\ HistoryShape
  BY DEF HistoryInvariant
<1>3. \A v, w \in versions : \A k \in 0..target :
          v.key = w.key /\ Covers(v, k) /\ Covers(w, k) => v = w
  BY <1>1 DEF HistoryInvariant, OneRowPerHeight, Settled
<1>4. \A k \in 0..target : AsOf(versions, k) = past[k]
  BY <1>1 DEF HistoryInvariant, HistoryIntact, Settled
<1>5. CASE RunDelete
  <2>1. versions' = DeleteAbove(versions, target) /\ done' = done \union {"delete"}
    BY <1>5 DEF RunDelete
  <2>2. versions' \subseteq versions /\ \A v \in versions' : v.lower <= target
    BY <1>1, <2>1 DEF DeleteAbove, AreVersions, IsVersion
  <2>3. HistoryShape' /\ RangesWithin(versions, height)'
    BY <1>1, <1>2, <2>1, <2>2 DEF HistoryShape, AreVersions, RangesWithin
  <2>4. RewindProgress'
    BY <1>1, <1>2, <2>1, <2>2 DEF RewindProgress
  <2>5. OneRowPerHeight'
    BY <1>1, <1>3, <2>2 DEF OneRowPerHeight, Settled
  <2>6. HistoryIntact'
    <3> SUFFICES ASSUME NEW k \in 0..target PROVE AsOf(versions', k) = past[k]
      BY <1>1 DEF HistoryIntact, Settled
    <3>1. k \in Nat /\ k <= target
      BY <1>1
    <3> QED BY <1>1, <1>4, <2>1, <3>1, DeleteKeepsPast
  <2> QED BY <2>3, <2>4, <2>5, <2>6 DEF HistoryInvariant
<1>6. CASE RunReopen
  <2>1. versions' = ReopenVersions(versions, target) /\ done' = done \union {"reopen"}
    BY <1>6 DEF RunReopen
  <2>2. AreVersions(versions') /\ RangesWithin(versions', height)
    BY <1>1, <1>2, <2>1, ReopenTyped, ReopenKeepsRanges
  <2>3. HistoryShape'
    BY <1>1, <1>2, <2>1, <2>2 DEF HistoryShape
  <2>4. \A w \in versions' : w.lower <= target /\ w.upper # Open => w.upper <= target
    <3> SUFFICES ASSUME NEW w \in versions', w.lower <= target, w.upper # Open
                 PROVE  w.upper <= target
      OBVIOUS
    <3>1. w \in versions /\ ~Reopens(w, target)
      BY <1>1, <2>1, ReopenOrigin
    <3> QED BY <1>1, <3>1 DEF Reopens, AreVersions, IsVersion, Open
  <2>5. ("delete" \in done)' => \A w \in versions' : w.lower <= target
    BY <1>1, <1>2, <2>1, ReopenOrigin DEF RewindProgress
  <2>6. RewindProgress'
    BY <1>1, <2>4, <2>5 DEF RewindProgress
  <2>7. OneRowPerHeight'
    <3> SUFFICES ASSUME NEW v \in versions', NEW w \in versions', NEW k \in 0..target,
                        v.key = w.key, Covers(v, k), Covers(w, k)
                 PROVE  v = w
      BY <1>1 DEF OneRowPerHeight, Settled
    <3>1. PICK a \in versions : /\ v.key = a.key /\ v.row = a.row /\ v.lower = a.lower
                               /\ \/ v = a /\ ~Reopens(a, target)
                                  \/ v = [a EXCEPT !.upper = Open] /\ v.upper = Open /\ Reopens(a, target)
      BY <1>1, <2>1, ReopenOrigin
    <3>2. PICK b \in versions : /\ w.key = b.key /\ w.row = b.row /\ w.lower = b.lower
                               /\ \/ w = b /\ ~Reopens(b, target)
                                  \/ w = [b EXCEPT !.upper = Open] /\ w.upper = Open /\ Reopens(b, target)
      BY <1>1, <2>1, ReopenOrigin
    <3>3. Covers(a, k)
      BY <1>1, <3>1 DEF Covers, Reopens, AreVersions, IsVersion, Open
    <3>4. Covers(b, k)
      BY <1>1, <3>2 DEF Covers, Reopens, AreVersions, IsVersion, Open
    <3>5. a = b
      BY <1>3, <3>1, <3>2, <3>3, <3>4
    <3> QED BY <3>1, <3>2, <3>5
  <2>8. HistoryIntact'
    <3> SUFFICES ASSUME NEW k \in 0..target PROVE AsOf(versions', k) = past[k]
      BY <1>1 DEF HistoryIntact, Settled
    <3>1. k \in Nat /\ k <= target
      BY <1>1
    <3> QED BY <1>1, <1>4, <2>1, <3>1, ReopenKeepsPast
  <2> QED BY <1>1, <2>2, <2>3, <2>6, <2>7, <2>8 DEF HistoryInvariant
<1> QED
  BY <1>5, <1>6

(* When both statements have run, the target is the height that stands.    *)
LEMMA EndRewindKeeps ==
    ASSUME HistoryInvariant, EndRewind
    PROVE  HistoryInvariant'
<1> USE DEF Height
<1>1. /\ target \in Nat /\ height \in Nat /\ target < height /\ target # NoTarget
      /\ height' = target /\ target' = NoTarget /\ done' = {} /\ versions' = versions
      /\ AreVersions(versions)
  BY DEF HistoryInvariant, HistoryShape, EndRewind
<1>2. HistoryShape'
  BY <1>1 DEF HistoryInvariant, HistoryShape, EndRewind
<1>3. RangesWithin(versions, height)'
  BY <1>1 DEF HistoryInvariant, RangesWithin, RewindProgress, EndRewind
<1>4. RewindProgress'
  BY <1>1 DEF RewindProgress
<1>5. OneRowPerHeight' /\ HistoryIntact'
  BY <1>1 DEF HistoryInvariant, OneRowPerHeight, HistoryIntact, Settled, EndRewind
<1> QED
  BY <1>2, <1>3, <1>4, <1>5 DEF HistoryInvariant

(* From the beginning of a rewind only the heights up to its target count. *)
LEMMA BeginRewindKeeps ==
    ASSUME HistoryInvariant, NEW H \in Height, BeginRewind(H)
    PROVE  HistoryInvariant'
<1>1. /\ H \in Nat /\ height \in Nat /\ H < height /\ H # NoTarget /\ target = NoTarget
      /\ target' = H /\ done' = {} /\ UNCHANGED <<versions, height, past>>
  BY DEF HistoryInvariant, HistoryShape, BeginRewind, Height, NoTarget
<1>2. HistoryShape' /\ RangesWithin(versions, height)' /\ RewindProgress'
  BY <1>1 DEF HistoryInvariant, HistoryShape, RangesWithin, RewindProgress, Height
<1>3. \A k \in 0..H : k \in 0..height
  BY <1>1
<1>4. OneRowPerHeight' /\ HistoryIntact'
  BY <1>1, <1>3 DEF HistoryInvariant, OneRowPerHeight, HistoryIntact, Settled
<1> QED
  BY <1>2, <1>4 DEF HistoryInvariant

(* Every step keeps the invariant.                                         *)
LEMMA HistoryStepKeeps ==
    ASSUME HistoryInvariant,
           \/ \E changes : AreChanges(changes) /\ WriteBlock(changes)
           \/ \E H \in Height : BeginRewind(H)
           \/ RunDelete \/ RunReopen \/ EndRewind \/ RewindInterrupted
           \/ UNCHANGED historyVars
    PROVE  HistoryInvariant'
<1>1. CASE \E changes : AreChanges(changes) /\ WriteBlock(changes)
  BY <1>1, WriteBlockKeeps
<1>2. CASE \E H \in Height : BeginRewind(H)
  BY <1>2, BeginRewindKeeps
<1>3. CASE RunDelete \/ RunReopen
  BY <1>3, RewindStatementsKeep
<1>4. CASE EndRewind
  BY <1>4, EndRewindKeeps
<1>5. CASE RewindInterrupted
  BY <1>5 DEF RewindInterrupted, HistoryInvariant, HistoryShape, RangesWithin,
              RewindProgress, OneRowPerHeight, HistoryIntact, Settled
<1>6. CASE UNCHANGED historyVars
  BY <1>6 DEF historyVars, HistoryInvariant, HistoryShape, RangesWithin,
              RewindProgress, OneRowPerHeight, HistoryIntact, Settled
<1> QED BY <1>1, <1>2, <1>3, <1>4, <1>5, <1>6

LEMMA HistoryKeepsInvariant == HistorySpec => []HistoryInvariant
<1>1. ASSUME HistoryInvariant, [HistoryNext]_historyVars
      PROVE  HistoryInvariant'
  <2>1. ASSUME NEW changes \in Changes PROVE AreChanges(changes)
    BY DEF Changes, AreChanges
  <2> QED BY <1>1, <2>1, HistoryStepKeeps DEF HistoryNext
<1> QED
  BY HistoryStarts, <1>1, PTL DEF HistorySpec

(* The rows stay rows: keys, values and heights of their types.            *)
THEOREM HistoryTypeCorrect == HistorySpec => []HistoryTypeOK
<1> USE DEF Height
<1>1. HistoryInit => HistoryTypeOK
  BY DEF HistoryInit, HistoryTypeOK, NoTarget
<1>2. ASSUME HistoryTypeOK, [HistoryNext]_historyVars
      PROVE  HistoryTypeOK'
  <2> USE <1>2 DEF HistoryTypeOK
  <2>1. ASSUME NEW changes \in Changes, WriteBlock(changes)
        PROVE  HistoryTypeOK'
    <3>1. Changed(past[height], changes) \in SUBSET (Keys \X Rows)
      BY DEF Changed, Changes
    <3>2. past' \in [0..height' -> SUBSET (Keys \X Rows)]
      BY <2>1, <3>1 DEF WriteBlock
    <3>3. versions' \subseteq Version
      <4>1. ASSUME NEW v \in Version PROVE [v EXCEPT !.upper = height + 1] \in Version
        BY DEF Version
      <4>2. ASSUME NEW k \in DOMAIN changes, NEW r \in changes[k]
            PROVE  [key |-> k, row |-> r, lower |-> height + 1, upper |-> Open] \in Version
        BY DEF Version, Changes
      <4> QED BY <2>1, <4>1, <4>2 DEF WriteBlock, Write
    <3> QED BY <2>1, <3>2, <3>3 DEF WriteBlock, NoTarget
  <2>2. ASSUME NEW H \in Height, BeginRewind(H)
        PROVE  HistoryTypeOK'
    BY <2>2 DEF BeginRewind
  <2>3. ASSUME RunDelete \/ RunReopen
        PROVE  HistoryTypeOK'
    <3>1. ASSUME NEW v \in Version PROVE [v EXCEPT !.upper = Open] \in Version
      BY DEF Version
    <3>2. versions' \subseteq Version
      BY <2>3, <3>1 DEF RunDelete, RunReopen, DeleteAbove, ReopenVersions
    <3> QED BY <2>3, <3>2 DEF RunDelete, RunReopen
  <2>4. CASE EndRewind
    BY <2>4 DEF EndRewind, NoTarget
  <2>5. CASE RewindInterrupted
    BY <2>5 DEF RewindInterrupted
  <2>6. CASE UNCHANGED historyVars
    BY <2>6 DEF historyVars
  <2> QED BY <2>1, <2>2, <2>3, <2>4, <2>5, <2>6 DEF HistoryNext
<1> QED
  BY <1>1, <1>2, PTL DEF HistorySpec

(* Up to the height a rewind leaves standing, every height reads as it did *)
(* when it was indexed, for any blocks and any sequence of rewinds by the  *)
(* two statements of rewind.rs, in either order and cut short anywhere.    *)
THEOREM HistoryStaysIntact == HistorySpec => []HistoryIntact
<1>1. HistoryInvariant => HistoryIntact
  BY DEF HistoryInvariant
<1> QED
  BY HistoryKeepsInvariant, <1>1, PTL

(* No rewind leaves two rows of one entity valid at the same height.       *)
THEOREM HistoryOneRowPerHeight == HistorySpec => []OneRowPerHeight
<1>1. HistoryInvariant => OneRowPerHeight
  BY DEF HistoryInvariant
<1> QED
  BY HistoryKeepsInvariant, <1>1, PTL

-----------------------------------------------------------------------------
(* What the operations of a block come to is one row, or none, for a key.  *)
LEMMA NetChangesAreChanges ==
    ASSUME NEW ops
    PROVE  AreChanges(NetChanges(ops))
BY DEF AreChanges, NetChanges

(* Indexing touches the history in the steps EntityHistory has, or not at  *)
(* all.                                                                    *)
LEMMA IndexingStepsHistory ==
    ASSUME height \in Height, [IndexingNext]_allVars
    PROVE  \/ \E changes : AreChanges(changes) /\ WriteBlock(changes)
           \/ \E H \in Height : BeginRewind(H)
           \/ RunDelete \/ RunReopen \/ EndRewind \/ RewindInterrupted
           \/ UNCHANGED historyVars
<1>1. CASE UNCHANGED allVars
  BY <1>1 DEF allVars
<1>2. CASE CommitBlock
  BY <1>2, NetChangesAreChanges DEF CommitBlock
<1>3. CASE StartRewind
  BY <1>3 DEF StartRewind, Height
<1>4. CASE RewindStatement \/ FinishRewind
  BY <1>4 DEF RewindStatement, FinishRewind
<1>5. CASE \/ Load \/ Invoke \/ Fail \/ BeginWriting \/ Store \/ StoreUnanswered \/ FinishWriting
           \/ \E h \in DOMAIN Blocks \intersect {Len(indexed) + 1} : \E b \in Blocks[h] : BeginBlock(b)
  BY <1>5 DEF Load, Invoke, Fail, BeginWriting, Store, StoreUnanswered, FinishWriting, BeginBlock
<1> QED BY <1>1, <1>2, <1>3, <1>4, <1>5 DEF IndexingNext

LEMMA IndexingKeepsHistory == IndexingSpec => []HistoryInvariant
<1>1. IndexingInit => HistoryInvariant
  BY HistoryStarts DEF IndexingInit
<1>2. ASSUME HistoryInvariant, [IndexingNext]_allVars
      PROVE  HistoryInvariant'
  <2>1. height \in Height
    BY <1>2 DEF HistoryInvariant, HistoryShape
  <2> QED BY <1>2, <2>1, IndexingStepsHistory, HistoryStepKeeps
<1> QED
  BY <1>1, <1>2, PTL DEF IndexingSpec

(* While blocks are indexed, tried again, replaced and rewound, every      *)
(* height up to the one that stands reads as when it was indexed, whatever *)
(* the handlers write.                                                     *)
THEOREM IndexingHistoryIntact == IndexingSpec => []HistoryIntact
<1>1. HistoryInvariant => HistoryIntact
  BY DEF HistoryInvariant
<1> QED
  BY IndexingKeepsHistory, <1>1, PTL

-----------------------------------------------------------------------------
(* Concatenations, as FlattenSeq computes them, part by part from the left *)
(* end.  A claim about all parts is proved by taking the first one at      *)
(* which it would fail.                                                    *)
LEMMA LeastNatural ==
    ASSUME NEW S \in SUBSET Nat, S # {}
    PROVE  \E n \in S : \A m \in S : n <= m
<1>1. PICK n \in S : \A m \in S : ~(<<m, n>> \in OpToRel(<, Nat))
  BY NatLessThanWellFounded, WFMin
<1>2. \A m \in S : <<m, n>> \in Nat \X Nat
  OBVIOUS
<1>3. \A m \in S : ~(m < n)
  BY <1>1, <1>2 DEF OpToRel
<1> QED BY <1>3

(* The recursive function behind FlattenSeq exists, and adds one part at a *)
(* time.                                                                   *)
LEMMA FlattenUnfold ==
    ASSUME NEW S, NEW ss \in Seq(Seq(S)), ss # <<>>
    PROVE  \E f \in [1..Len(ss) -> Seq(S)] :
              /\ f[1] = ss[1]
              /\ \A i \in 2..Len(ss) : f[i] = f[i - 1] \o ss[i]
              /\ FlattenSeq(ss) = f[Len(ss)]
<1> DEFINE Unfolds(f, n) == f = [i \in 1..n |-> IF i = 1 THEN ss[i] ELSE f[i - 1] \o ss[i]]
           Bad == {n \in Nat : ~ \E f : Unfolds(f, n)}
           len == Len(ss)
<1>0. len \in Nat \ {0}
  OBVIOUS
<1>1. Bad = {}
  <2> SUFFICES ASSUME Bad # {} PROVE FALSE
    OBVIOUS
  <2>1. PICK n \in Bad : \A m \in Bad : n <= m
    BY LeastNatural
  <2>2. n # 0
    <3>1. Unfolds([i \in 1..0 |-> 0], 0)
      OBVIOUS
    <3> QED BY <3>1
  <2>3. n - 1 \in Nat /\ n - 1 \notin Bad
    <3>1. n \in Nat /\ n - 1 \in Nat /\ ~(n <= n - 1)
      BY <2>1, <2>2
    <3> HIDE DEF Unfolds
    <3> QED BY <2>1, <3>1
  <2>4. PICK f : Unfolds(f, n - 1)
    BY <2>3
  <2> DEFINE e(h, i) == IF i = 1 THEN ss[i] ELSE h[i - 1] \o ss[i]
             g == [i \in 1..n |-> IF i = n THEN e(f, n) ELSE f[i]]
  <2>5. \A i \in 1..(n - 1) : f[i] = e(f, i)
    BY <2>4
  <2> HIDE DEF e
  <2>6. \A i \in 1..n : i # 1 => g[i - 1] = f[i - 1]
    BY <2>3
  <2>7. \A i \in 1..n : e(g, i) = e(f, i)
    BY <2>6 DEF e
  <2>8. \A i \in 1..n : g[i] = e(f, i)
    BY <2>3, <2>5
  <2>9. g = [i \in 1..n |-> e(g, i)]
    BY <2>7, <2>8
  <2>10. Unfolds(g, n)
    BY <2>9 DEF e
  <2> QED BY <2>1, <2>10
<1>2. PICK f : Unfolds(f, len)
  BY <1>0, <1>1
<1> DEFINE g == CHOOSE h : Unfolds(h, len)
<1>3. Unfolds(g, len)
  BY <1>2
<1>4. FlattenSeq(ss) = g[len]
  BY <1>0 DEF FlattenSeq
<1> HIDE DEF g, len
<1>5. g[1] = ss[1] /\ \A i \in 2..len : g[i] = g[i - 1] \o ss[i]
  <2> DEFINE e(i) == IF i = 1 THEN ss[i] ELSE g[i - 1] \o ss[i]
  <2>1. g = [i \in 1..len |-> e(i)]
    BY <1>3
  <2>2. e(1) = ss[1] /\ \A i \in 2..len : e(i) = g[i - 1] \o ss[i]
    <3>1. \A i \in 2..len : i # 1
      BY <1>0
    <3> QED BY <3>1
  <2> HIDE DEF e
  <2>3. \A i \in 1..len : g[i] = e(i)
    BY <2>1
  <2>4. 1 \in 1..len /\ \A i \in 2..len : i \in 1..len
    BY <1>0
  <2> QED BY <2>2, <2>3, <2>4
<1>6. \A i \in 1..len : ss[i] \in Seq(S)
  BY DEF len
<1>7. \A i \in 1..len : g[i] \in Seq(S)
  <2> DEFINE Off == {i \in 1..len : g[i] \notin Seq(S)}
  <2> SUFFICES ASSUME Off # {} PROVE FALSE
    OBVIOUS
  <2>0. Off \in SUBSET Nat
    BY <1>0
  <2>1. PICK i \in Off : \A j \in Off : i <= j
    BY <2>0, LeastNatural
  <2>2. i \in 2..len /\ i - 1 \in 1..len /\ ~(i <= i - 1)
    BY <1>0, <1>5, <1>6, <2>1
  <2>3. g[i - 1] \in Seq(S) /\ ss[i] \in Seq(S)
    BY <1>0, <1>6, <2>1, <2>2
  <2>4. g[i] = g[i - 1] \o ss[i]
    BY <1>5, <2>2
  <2>5. g[i] \in Seq(S)
    BY <2>3, <2>4, ConcatProperties
  <2> QED BY <2>1, <2>5
<1>8. g \in [1..len -> Seq(S)]
  BY <1>0, <1>3, <1>7
<1> QED BY <1>4, <1>5, <1>8 DEF len

(* Concatenations of parts of equal lengths have equal lengths, and their  *)
(* elements come from the same places.                                     *)
SamePlace(ss, tt, n) ==
    \E i \in 1..Len(ss) : \E j \in 1..Len(ss[i]) :
        FlattenSeq(ss)[n] = ss[i][j] /\ FlattenSeq(tt)[n] = tt[i][j]

LEMMA FlattenAlike ==
    ASSUME NEW S, NEW T, NEW ss \in Seq(Seq(S)), NEW tt \in Seq(Seq(T)),
           Len(ss) = Len(tt), \A i \in 1..Len(ss) : Len(ss[i]) = Len(tt[i])
    PROVE  /\ FlattenSeq(ss) \in Seq(S) /\ FlattenSeq(tt) \in Seq(T)
           /\ Len(FlattenSeq(ss)) = Len(FlattenSeq(tt))
           /\ \A n \in 1..Len(FlattenSeq(ss)) : SamePlace(ss, tt, n)
<1>1. CASE ss = <<>>
  <2>1. Len(ss) = 0 /\ Len(tt) = 0 /\ tt = <<>>
    BY <1>1, EmptySeq
  <2>2. FlattenSeq(ss) = <<>> /\ FlattenSeq(tt) = <<>>
    BY <1>1, <2>1 DEF FlattenSeq
  <2>3. Len(<<>>) = 0 /\ <<>> \in Seq(S) /\ <<>> \in Seq(T) /\ 1..0 = {}
    BY EmptySeq
  <2> QED BY <2>2, <2>3
<1>2. CASE ss # <<>>
  <2> DEFINE len == Len(ss)
  <2>0. tt # <<>> /\ len \in Nat \ {0} /\ Len(tt) = len
    BY <1>2
  <2>1. PICK f \in [1..len -> Seq(S)] :
              /\ f[1] = ss[1]
              /\ \A i \in 2..len : f[i] = f[i - 1] \o ss[i]
              /\ FlattenSeq(ss) = f[len]
    BY <1>2, FlattenUnfold
  <2>2. PICK g \in [1..len -> Seq(T)] :
              /\ g[1] = tt[1]
              /\ \A i \in 2..len : g[i] = g[i - 1] \o tt[i]
              /\ FlattenSeq(tt) = g[len]
    <3> HIDE DEF len
    <3>1. \E g \in [1..Len(tt) -> Seq(T)] :
              /\ g[1] = tt[1]
              /\ \A i \in 2..Len(tt) : g[i] = g[i - 1] \o tt[i]
              /\ FlattenSeq(tt) = g[Len(tt)]
      BY <2>0, FlattenUnfold
    <3> QED BY <2>0, <3>1
  <2>3. \A i \in 1..len : /\ ss[i] \in Seq(S) /\ tt[i] \in Seq(T) /\ Len(ss[i]) = Len(tt[i])
                           /\ f[i] \in Seq(S) /\ g[i] \in Seq(T)
    <3>1. \A i \in 1..len : ss[i] \in Seq(S) /\ tt[i] \in Seq(T)
      BY <2>0, ElementOfSeq
    <3>2. \A i \in 1..len : Len(ss[i]) = Len(tt[i])
      OBVIOUS
    <3> HIDE DEF len
    <3> QED BY <3>1, <3>2
  <2> DEFINE Places(m, n) == \E i \in 1..len : \E j \in 1..Len(ss[i]) :
                                f[m][n] = ss[i][j] /\ g[m][n] = tt[i][j]
             Alike(m) == Len(f[m]) = Len(g[m]) /\ \A n \in 1..Len(f[m]) : Places(m, n)
             Off == {m \in 1..len : ~Alike(m)}
  <2> HIDE DEF len
  <2>4. Off = {}
    <3> SUFFICES ASSUME Off # {} PROVE FALSE
      OBVIOUS
    <3>0. Off \in SUBSET Nat
      BY <2>0
    <3>1. PICK m \in Off : \A k \in Off : m <= k
      BY <3>0, LeastNatural
    <3>2. Alike(1)
      <4>1. 1 \in 1..len
        BY <2>0
      <4> QED BY <2>1, <2>2, <2>3, <4>1
    <3>3. m \in 2..len /\ m - 1 \in 1..len /\ m \in 1..len /\ ~(m <= m - 1)
      <4> HIDE DEF Alike
      <4>1. m # 1 /\ m \in 1..len
        BY <3>1, <3>2
      <4> QED BY <2>0, <4>1
    <3>4. Alike(m - 1)
      <4> HIDE DEF Alike
      <4> QED BY <3>1, <3>3
    <3> DEFINE a == f[m - 1]
               b == g[m - 1]
               s == ss[m]
               t == tt[m]
    <3>5. f[m] = a \o s /\ g[m] = b \o t
      BY <2>1, <2>2, <3>3
    <3>6. a \in Seq(S) /\ b \in Seq(T) /\ s \in Seq(S) /\ t \in Seq(T) /\ Len(s) = Len(t)
      BY <2>3, <3>3
    <3>7. Len(a) = Len(b) /\ \A n \in 1..Len(a) : Places(m - 1, n)
      BY <3>4
    <3>8. ASSUME NEW n \in 1..Len(f[m])
          PROVE  Places(m, n)
      <4> HIDE DEF a, b, s, t
      <4>0. Len(f[m]) = Len(a) + Len(s) /\ Len(a) \in Nat /\ Len(s) \in Nat
        <5>1. Len(a \o s) = Len(a) + Len(s) /\ Len(a) \in Nat /\ Len(s) \in Nat
          BY <3>6, ConcatProperties, LenProperties
        <5> QED BY <3>5, <5>1
      <4>1. /\ f[m][n] = IF n <= Len(a) THEN a[n] ELSE s[n - Len(a)]
            /\ g[m][n] = IF n <= Len(a) THEN b[n] ELSE t[n - Len(a)]
        <5>1. n \in 1..Len(a) + Len(s) /\ Len(b) = Len(a) /\ Len(t) = Len(s)
          BY <3>6, <3>7, <4>0
        <5>2. (a \o s)[n] = IF n <= Len(a) THEN a[n] ELSE s[n - Len(a)]
          BY <3>6, <5>1, ConcatProperties, SMTT(20)
        <5>3. (b \o t)[n] = IF n <= Len(b) THEN b[n] ELSE t[n - Len(b)]
          BY <3>6, <5>1, ConcatProperties, SMTT(20)
        <5> QED BY <3>5, <5>1, <5>2, <5>3
      <4>2. CASE n <= Len(a)
        <5>1. f[m][n] = a[n] /\ g[m][n] = b[n] /\ n \in 1..Len(a)
          BY <4>0, <4>1, <4>2
        <5>2. Places(m - 1, n)
          BY <3>7, <5>1
        <5> QED BY <5>1, <5>2 DEF a, b
      <4>3. CASE ~(n <= Len(a))
        <5>1. n - Len(a) \in 1..Len(s)
          BY <4>0, <4>3
        <5>2. f[m][n] = s[n - Len(a)] /\ g[m][n] = t[n - Len(a)]
          BY <4>1, <4>3
        <5> QED BY <3>3, <5>1, <5>2 DEF s, t
      <4> QED BY <4>2, <4>3
    <3>9. Len(f[m]) = Len(g[m])
      <4> HIDE DEF a, b, s, t
      <4>1. Len(a \o s) = Len(a) + Len(s)
        BY <3>6, ConcatProperties
      <4>2. Len(b \o t) = Len(b) + Len(t)
        BY <3>6, ConcatProperties
      <4> QED BY <3>5, <3>6, <3>7, <4>1, <4>2
    <3> QED BY <3>1, <3>8, <3>9
  <2>5. len \in 1..len
    BY <2>0
  <2>6. Alike(len)
    BY <2>4, <2>5
  <2>7. \A n \in 1..Len(f[len]) : SamePlace(ss, tt, n)
    BY <2>1, <2>2, <2>6 DEF len, SamePlace
  <2> QED BY <2>1, <2>2, <2>3, <2>5, <2>6, <2>7
<1> QED BY <1>1, <1>2

(* Every element of a part is in the concatenation.                        *)
LEMMA FlattenRange ==
    ASSUME NEW S, NEW ss \in Seq(Seq(S)), NEW i \in 1..Len(ss), NEW j \in 1..Len(ss[i])
    PROVE  \E n \in 1..Len(FlattenSeq(ss)) : FlattenSeq(ss)[n] = ss[i][j]
<1> DEFINE len == Len(ss)
<1>0. ss # <<>> /\ len \in Nat \ {0}
  OBVIOUS
<1>1. PICK f \in [1..len -> Seq(S)] :
            /\ f[1] = ss[1]
            /\ \A k \in 2..len : f[k] = f[k - 1] \o ss[k]
            /\ FlattenSeq(ss) = f[len]
  BY <1>0, FlattenUnfold
<1>2. \A k \in 1..len : ss[k] \in Seq(S) /\ f[k] \in Seq(S)
  <2>1. \A k \in 1..len : ss[k] \in Seq(S)
    BY ElementOfSeq
  <2> HIDE DEF len
  <2> QED BY <2>1
<1> DEFINE Found(m) == \E n \in 1..Len(f[m]) : f[m][n] = ss[i][j]
           Off == {m \in i..len : ~Found(m)}
<1>3. i \in 1..len
  OBVIOUS
<1> HIDE DEF len
<1>4. Off = {}
  <2> SUFFICES ASSUME Off # {} PROVE FALSE
    OBVIOUS
  <2>0. Off \in SUBSET Nat
    BY <1>0, <1>3
  <2>1. PICK m \in Off : \A k \in Off : m <= k
    BY <2>0, LeastNatural
  <2>2. m \in 1..len /\ i <= m
    BY <1>0, <1>3, <2>1
  <2>3. m # 1
    <3>1. m = 1 => i = 1 /\ f[1] = ss[1]
      BY <1>1, <1>3, <2>2
    <3>2. m = 1 => Found(m)
      BY <3>1
    <3> QED BY <2>1, <3>2
  <2> DEFINE a == f[m - 1]
             s == ss[m]
  <2>4. m \in 2..len /\ m - 1 \in 1..len /\ f[m] = a \o s /\ a \in Seq(S) /\ s \in Seq(S) /\ ~(m <= m - 1)
    <3>1. m \in 2..len /\ m - 1 \in 1..len /\ ~(m <= m - 1)
      BY <1>0, <2>2, <2>3
    <3> QED BY <1>1, <1>2, <2>2, <3>1
  <2>5. CASE m = i
    <3>1. j \in 1..Len(s) /\ s[j] = ss[i][j]
      BY <2>5
    <3> HIDE DEF a, s
    <3>2. /\ Len(a) \in Nat /\ Len(s) \in Nat
          /\ Len(f[m]) = Len(a) + Len(s)
          /\ \A k \in 1..(Len(a) + Len(s)) : f[m][k] = IF k <= Len(a) THEN a[k] ELSE s[k - Len(a)]
      BY <2>4, ConcatProperties
    <3>3. Len(a) + j \in 1..(Len(a) + Len(s)) /\ ~(Len(a) + j <= Len(a)) /\ (Len(a) + j) - Len(a) = j
      BY <3>1, <3>2
    <3>4. f[m][Len(a) + j] = ss[i][j]
      BY <3>1, <3>2, <3>3
    <3> QED BY <2>1, <3>2, <3>3, <3>4
  <2>6. CASE m # i
    <3>1. m - 1 \in i..len
      BY <1>0, <1>3, <2>2, <2>4, <2>6
    <3>2. m - 1 \notin Off
      <4> HIDE DEF Found
      <4> QED BY <2>1, <2>4
    <3>3. PICK n \in 1..Len(a) : a[n] = ss[i][j]
      BY <3>1, <3>2
    <3> HIDE DEF a, s
    <3>4. /\ Len(a) \in Nat /\ Len(s) \in Nat
          /\ Len(f[m]) = Len(a) + Len(s)
          /\ \A k \in 1..(Len(a) + Len(s)) : f[m][k] = IF k <= Len(a) THEN a[k] ELSE s[k - Len(a)]
      BY <2>4, ConcatProperties
    <3>5. n \in 1..(Len(a) + Len(s)) /\ n <= Len(a)
      BY <3>4
    <3> QED BY <2>1, <3>3, <3>4, <3>5
  <2> QED BY <2>5, <2>6
<1>5. len \in i..len
  BY <1>0, <1>3
<1> QED BY <1>1, <1>4, <1>5

-----------------------------------------------------------------------------
(* A list is numbered from 1.                                              *)
LEMMA ListProperties ==
    ASSUME NEW s, IsList(s)
    PROVE  /\ Len(s) \in Nat /\ DOMAIN s = 1..Len(s)
           /\ \A i \in 1..Len(s) : s[i] \in Range(s)
           /\ \A x \in Range(s) : \E i \in 1..Len(s) : s[i] = x
BY LenProperties DEF IsList, Range

(* A list made element by element.                                         *)
LEMMA Tabulated ==
    ASSUME NEW n \in Nat, NEW S, NEW f \in [1..n -> S]
    PROVE  f \in Seq(S) /\ Len(f) = n /\ DOMAIN f = 1..n
OBVIOUS

(* A filtered list has the elements of the list that are in the set.       *)
LEMMA FilteredProperties ==
    ASSUME NEW s, IsList(s), NEW set
    PROVE  /\ Filtered(s, set) \in Seq(Range(s))
           /\ IsList(Filtered(s, set))
           /\ Range(Filtered(s, set)) = Range(s) \intersect set
<1> DEFINE part(i) == IF s[i] \in set THEN <<s[i]>> ELSE <<>>
           ss == [i \in DOMAIN s |-> part(i)]
           flat == FlattenSeq(ss)
<1>1. /\ Len(s) \in Nat /\ DOMAIN s = 1..Len(s)
      /\ \A i \in 1..Len(s) : s[i] \in Range(s)
      /\ \A x \in Range(s) : \E i \in 1..Len(s) : s[i] = x
  BY ListProperties
<1>2. \A i \in 1..Len(s) : part(i) \in Seq(Range(s))
  BY <1>1
<1>3. ss \in Seq(Seq(Range(s))) /\ Len(ss) = Len(s) /\ \A i \in 1..Len(s) : ss[i] = part(i)
  <2> HIDE DEF part
  <2>1. ss \in [1..Len(s) -> Seq(Range(s))]
    BY <1>1, <1>2
  <2> QED BY <1>1, <2>1, Tabulated
<1>4. Filtered(s, set) = flat
  BY DEF Filtered
<1>5. \A i \in 1..Len(s) : \A j \in 1..Len(part(i)) : s[i] \in set /\ part(i)[j] = s[i]
  OBVIOUS
<1>6. \A i \in 1..Len(s) : s[i] \in set => 1 \in 1..Len(part(i)) /\ part(i)[1] = s[i]
  OBVIOUS
<1> HIDE DEF part, ss
<1>7. flat \in Seq(Range(s))
  BY <1>3, FlattenAlike
<1>8. DOMAIN flat = 1..Len(flat)
  BY <1>7
<1>9. ASSUME NEW n \in 1..Len(flat)
      PROVE  flat[n] \in Range(s) \intersect set
  <2>1. SamePlace(ss, ss, n)
    BY <1>3, FlattenAlike
  <2>2. PICK i \in 1..Len(ss) : \E j \in 1..Len(ss[i]) : flat[n] = ss[i][j]
    BY <2>1 DEF SamePlace
  <2>3. flat[n] = s[i] /\ s[i] \in set
    BY <1>3, <1>5, <2>2
  <2> QED BY <1>1, <1>3, <2>3
<1>10. ASSUME NEW x \in Range(s) \intersect set
       PROVE  x \in Range(flat)
  <2>1. PICK i \in 1..Len(s) : s[i] = x
    BY <1>1
  <2>2. 1 \in 1..Len(ss[i]) /\ ss[i][1] = x
    BY <1>3, <1>6, <2>1
  <2>3. \E n \in 1..Len(flat) : flat[n] = x
    BY <1>3, <2>2, FlattenRange
  <2> QED BY <1>8, <2>3 DEF Range
<1>11. Range(flat) = Range(s) \intersect set
  BY <1>8, <1>9, <1>10 DEF Range
<1>12. flat \in Seq(Range(flat))
  <2>1. flat \in [1..Len(flat) -> Range(flat)] /\ Len(flat) \in Nat
    BY <1>7, <1>8 DEF Range
  <2> QED BY <2>1
<1> QED BY <1>4, <1>7, <1>11, <1>12 DEF IsList

(* Nothing is left where no element is in the set.                         *)
LEMMA FilteredNone ==
    ASSUME NEW s, IsList(s), NEW set, Range(s) \intersect set = {}
    PROVE  Filtered(s, set) = <<>>
<1> DEFINE f == Filtered(s, set)
<1>1. f \in Seq(Range(s)) /\ IsList(f) /\ Range(f) = {}
  BY FilteredProperties
<1> HIDE DEF f
<1>2. Len(f) = 0
  BY <1>1, ListProperties
<1> QED BY <1>1, <1>2, EmptySeq DEF f

(* A list of one element.                                                  *)
LEMMA FilteredOne ==
    ASSUME NEW x, NEW set
    PROVE  Filtered(<<x>>, set) = IF x \in set THEN <<x>> ELSE <<>>
<1> DEFINE y == IF x \in set THEN <<x>> ELSE <<>>
           ss == [i \in DOMAIN <<x>> |-> IF <<x>>[i] \in set THEN <<<<x>>[i]>> ELSE <<>>]
<1>1. ss = <<y>>
  OBVIOUS
<1>2. y \in Seq({x})
  <2>1. <<x>> \in Seq({x}) /\ <<>> \in Seq({x})
    OBVIOUS
  <2> QED BY <2>1
<1> HIDE DEF y
<1>3. <<y>> \in Seq(Seq({x})) /\ <<y>> # <<>> /\ Len(<<y>>) = 1 /\ <<y>>[1] = y
  BY <1>2
<1>4. FlattenSeq(<<y>>) = y
  BY <1>3, FlattenUnfold
<1> QED BY <1>1, <1>4 DEF Filtered, y

-----------------------------------------------------------------------------
(* What prepare_handlers makes of a handler asks for what the manifest     *)
(* asks for.                                                               *)
LEMMA PrefixPointwise ==
    ASSUME NEW s, NEW t, IsList(s), IsList(t)
    PROVE  IsPrefix(s, t) <=> Len(s) <= Len(t) /\ \A i \in 1..Len(s) : s[i] = t[i]
<1>1. /\ Len(s) \in Nat /\ Len(t) \in Nat
      /\ s \in Seq(Range(s)) /\ t \in Seq(Range(t))
  BY ListProperties DEF IsList
<1>2. CASE Len(s) <= Len(t)
  <2>1. SubSeq(s, 1, Len(s)) = s
    BY <1>1
  <2>2. /\ SubSeq(t, 1, Len(s)) \in Seq(Range(t)) /\ Len(SubSeq(t, 1, Len(s))) = Len(s)
        /\ \A i \in 1..Len(s) : SubSeq(t, 1, Len(s))[i] = t[i]
    BY <1>1, <1>2
  <2>3. SubSeq(t, 1, Len(s)) = s <=> \A i \in 1..Len(s) : s[i] = t[i]
    BY <1>1, <2>2
  <2> QED BY <1>2, <2>1, <2>3 DEF IsPrefix
<1>3. CASE ~(Len(s) <= Len(t))
  BY <1>3 DEF IsPrefix
<1> QED BY <1>2, <1>3

(* Topics: each constraint asserts the value at its place.                 *)
WantedTopics(first, rest) == <<first>> \o [i \in DOMAIN rest |-> rest[i].digits]
AskedTopics(first, rest) ==
    <<OneTopic(Normal(first))>> \o [i \in DOMAIN rest |-> OneTopic(Normal(rest[i].digits))]
DigitsOf(topics) == [i \in DOMAIN topics |-> topics[i].digits]
TopicsAgree(asked, topics) ==
    \A i \in DOMAIN asked : IF i \in DOMAIN topics THEN TopicMatches(asked[i], topics[i]) ELSE asked[i].any

LEMMA TopicsMatch ==
    ASSUME NEW first, NEW rest, IsList(rest), NEW topics, IsList(topics)
    PROVE  TopicsAgree(AskedTopics(first, rest), topics)
           <=> IsPrefix(WantedTopics(first, rest), DigitsOf(topics))
<1> DEFINE wanted == <<first>> \o [i \in DOMAIN rest |-> rest[i].digits]
           asked  == <<OneTopic(Normal(first))>> \o [i \in DOMAIN rest |-> OneTopic(Normal(rest[i].digits))]
           given  == [i \in DOMAIN topics |-> topics[i].digits]
           n      == Len(rest)
<1>1. n \in Nat /\ DOMAIN rest = 1..n /\ Len(topics) \in Nat /\ DOMAIN topics = 1..Len(topics)
  BY ListProperties
<1> HIDE DEF n
<1>2. given \in Seq({topics[i].digits : i \in DOMAIN topics}) /\ Len(given) = Len(topics)
      /\ \A i \in 1..Len(topics) : given[i] = topics[i].digits
  BY <1>1
<1>3. IsList(given)
  <2> HIDE DEF given
  <2>1. given \in [1..Len(given) -> Range(given)] /\ Len(given) \in Nat
    BY <1>1, <1>2 DEF Range
  <2> QED BY <2>1 DEF IsList
<1> DEFINE value(i) == IF i = 1 THEN first ELSE rest[i - 1].digits
<1>4. wanted = [i \in 1..(n + 1) |-> value(i)]
  <2> DEFINE w == [i \in DOMAIN rest |-> rest[i].digits]
             S == {first} \union {rest[i].digits : i \in DOMAIN rest}
  <2>1. w \in Seq(S) /\ Len(w) = n /\ \A i \in 1..n : w[i] = rest[i].digits
    BY <1>1
  <2>2. <<first>> \in Seq(S) /\ Len(<<first>>) = 1 /\ <<first>>[1] = first
    OBVIOUS
  <2> HIDE DEF w, S
  <2>3. /\ <<first>> \o w \in Seq(S) /\ Len(<<first>> \o w) = n + 1
        /\ \A i \in 1..(n + 1) : (<<first>> \o w)[i] = IF i <= 1 THEN first ELSE w[i - 1]
    BY <1>1, <2>1, <2>2, ConcatProperties
  <2>4. \A i \in 1..(n + 1) : (<<first>> \o w)[i] = value(i)
    BY <1>1, <2>1, <2>3
  <2>5. <<first>> \o w = [i \in 1..(n + 1) |-> value(i)]
    BY <1>1, <2>3, <2>4
  <2> QED BY <2>5 DEF w
<1>5. asked = [i \in 1..(n + 1) |-> OneTopic(Normal(value(i)))]
  <2> DEFINE one == OneTopic(Normal(first))
             w == [i \in DOMAIN rest |-> OneTopic(Normal(rest[i].digits))]
             S == {one} \union {OneTopic(Normal(rest[i].digits)) : i \in DOMAIN rest}
  <2>1. w \in Seq(S) /\ Len(w) = n /\ \A i \in 1..n : w[i] = OneTopic(Normal(rest[i].digits))
    BY <1>1
  <2>2. <<one>> \in Seq(S) /\ Len(<<one>>) = 1 /\ <<one>>[1] = one
    OBVIOUS
  <2> HIDE DEF w, S
  <2>3. /\ <<one>> \o w \in Seq(S) /\ Len(<<one>> \o w) = n + 1
        /\ \A i \in 1..(n + 1) : (<<one>> \o w)[i] = IF i <= 1 THEN one ELSE w[i - 1]
    BY <1>1, <2>1, <2>2, ConcatProperties
  <2> DEFINE topic(i) == OneTopic(Normal(value(i)))
             all == <<one>> \o w
  <2>4. \A i \in 1..(n + 1) : all[i] = topic(i)
    BY <1>1, <2>1, <2>3
  <2>5. all \in Seq(S) /\ Len(all) = n + 1
    BY <2>3
  <2> HIDE DEF topic, all
  <2>6. all = [i \in 1..(n + 1) |-> topic(i)]
    BY <1>1, <2>4, <2>5
  <2> QED BY <2>6 DEF w, topic, all
<1> HIDE DEF wanted, asked, given
<1>6. IsList(wanted) /\ Len(wanted) = n + 1
  <2> HIDE DEF value
  <2>1. wanted \in [1..(n + 1) -> Range(wanted)] /\ n + 1 \in Nat
    BY <1>1, <1>4 DEF Range
  <2> QED BY <2>1 DEF IsList
<1> HIDE DEF value
<1>7. ASSUME NEW i \in 1..(n + 1)
      PROVE  (IF i \in DOMAIN topics THEN TopicMatches(asked[i], topics[i]) ELSE asked[i].any)
             <=> i \in DOMAIN topics /\ wanted[i] = given[i]
  <2>1. asked[i] = OneTopic(Normal(value(i))) /\ wanted[i] = value(i)
    BY <1>4, <1>5
  <2>2. i \in DOMAIN topics => given[i] = topics[i].digits
    BY <1>1, <1>2
  <2>3. Normal(value(i)).digits = value(i)
    BY DEF Normal
  <2> QED BY <2>1, <2>2, <2>3 DEF OneTopic, TopicMatches, EqHex
<1>8. IsPrefix(wanted, given) <=> n + 1 <= Len(topics) /\ \A i \in 1..(n + 1) : wanted[i] = given[i]
  BY <1>2, <1>3, <1>6, PrefixPointwise
<1>9. DOMAIN asked = 1..(n + 1)
  BY <1>5
<1>10. (\A i \in 1..(n + 1) : i \in DOMAIN topics) <=> n + 1 <= Len(topics)
  BY <1>1
<1>11. (\A i \in DOMAIN asked :
            IF i \in DOMAIN topics THEN TopicMatches(asked[i], topics[i]) ELSE asked[i].any)
       <=> IsPrefix(wanted, given)
  BY <1>7, <1>8, <1>9, <1>10
<1> QED BY <1>11 DEF wanted, asked, given, TopicsAgree, AskedTopics, WantedTopics, DigitsOf

(* The normal form of a number is compared by its digits.                  *)
LEMMA NormalDigits ==
    ASSUME NEW digits, NEW x
    PROVE  EqHex(Normal(digits), x) <=> digits = x.digits
BY DEF EqHex, Normal

LEMMA NormalMatches ==
    ASSUME NEW opt, NEW x
    PROVE  (\A a \in NormalAddress(opt) : EqHex(a, x)) <=> SameNumber(opt, x)
<1>1. (\A a \in NormalAddress(opt) : EqHex(a, x)) <=> \A t \in opt : EqHex(Normal(t.digits), x)
  BY DEF NormalAddress
<1> QED BY <1>1, NormalDigits DEF SameNumber

(* A log handler's filter.                                                 *)
LEMMA LogFilterAsks ==
    ASSUME NEW ds, NEW h, h.kind = "evm/LogHandler", HandlerAccepted(ds, h),
           h.filter.shape = "log" => IsList(h.filter.topics),
           NEW log, IsList(log.topics)
    PROVE  LogMatches(LogFilter(ds, h.filter), LogView(log)) <=> AskedFor(ds, h, log)
<1> DEFINE f == LogFilter(ds, h.filter)
           view == LogView(log)
<1>0. h.filter.shape \in {"none", "log"}
  BY DEF HandlerAccepted
<1>1. f.address = NormalAddress(ds.address) /\ view.address = log.address /\ view.topics = log.topics
  BY DEF LogFilter, LogView
<1>2. (\A a \in f.address : EqHex(a, view.address)) <=> SameNumber(ds.address, log.address)
  BY <1>1, NormalMatches
<1> DEFINE asked == h.filter.shape = "log" =>
                       IsPrefix(WantedTopics(Keccak[h.filter.event], h.filter.topics), DigitsOf(log.topics))
<1>3. TopicsAgree(f.topics, view.topics) <=> asked
  <2>1. CASE h.filter.shape = "none"
    <3>1. f.topics = <<>>
      BY <2>1 DEF LogFilter
    <3> QED BY <2>1, <3>1 DEF TopicsAgree
  <2>2. CASE h.filter.shape = "log"
    <3>1. f.topics = AskedTopics(Keccak[h.filter.event], h.filter.topics)
      BY <2>2 DEF LogFilter, AskedTopics
    <3>2. IsList(h.filter.topics)
      BY <2>2
    <3> HIDE DEF f, view
    <3> QED BY <1>1, <2>2, <3>1, <3>2, TopicsMatch
  <2> QED BY <1>0, <2>1, <2>2
<1>4. LogMatches(f, view) <=> SameNumber(ds.address, log.address) /\ TopicsAgree(f.topics, view.topics)
  <2> HIDE DEF f, view
  <2> QED BY <1>2 DEF LogMatches, TopicsAgree
<1>5. AskedFor(ds, h, log) <=> SameNumber(ds.address, log.address) /\ asked
  BY DEF AskedFor, WantedTopics, DigitsOf
<1> QED BY <1>3, <1>4, <1>5

(* A transaction handler's filter.                                         *)
LEMMA TransactionFilterAsks ==
    ASSUME NEW ds, NEW h, h.kind = "evm/TransactionHandler", HandlerAccepted(ds, h),
           NEW tx, AtMostOne(tx.to)
    PROVE  TransactionMatches(TransactionFilter(ds, h.filter), TransactionView(tx)) <=> AskedFor(ds, h, tx)
<1> DEFINE f == TransactionFilter(ds, h.filter)
           view == TransactionView(tx)
           own == IF h.filter.shape = "none" THEN {} ELSE h.filter.to
           to == ds.address \union own
<1>0. /\ h.filter.shape \in {"none", "transaction"}
      /\ h.filter.shape = "transaction" =>
            /\ h.filter.function \in DOMAIN Keccak
            /\ \A a \in NormalAddress(ds.address), b \in NormalAddress(h.filter.to) : a = b
  BY DEF HandlerAccepted
<1>1. view.to = tx.to /\ view.from = tx.from /\ view.input = tx.input
  BY DEF TransactionView
<1>2. f.to = IF own # {} THEN NormalAddress(own) ELSE NormalAddress(ds.address)
  BY <1>0 DEF TransactionFilter
<1> DEFINE recipient == \A a \in f.to : \E b \in tx.to : EqHex(a, b)
           asked == to # {} => tx.to # {} /\ \A t \in tx.to : SameNumber(to, t)
<1>3. recipient <=> asked
  <2>1. \A a \in ds.address, b \in own : a.digits = b.digits
    <3>1. CASE h.filter.shape = "transaction"
      <4>1. \A a \in ds.address, b \in h.filter.to : Normal(a.digits) = Normal(b.digits)
        BY <1>0, <3>1 DEF NormalAddress
      <4> QED BY <3>1, <4>1 DEF Normal
    <3> QED BY <1>0, <3>1
  <2> HIDE DEF own, f
  <2>2. recipient <=> LET s == IF own # {} THEN own ELSE ds.address
                      IN  \A a \in s : \E b \in tx.to : a.digits = b.digits
    <3>1. ASSUME NEW s
          PROVE  (\A a \in NormalAddress(s) : \E b \in tx.to : EqHex(a, b))
                 <=> \A a \in s : \E b \in tx.to : EqHex(Normal(a.digits), b)
      BY DEF NormalAddress
    <3> QED BY <1>2, <3>1, NormalDigits
  <2>3. asked <=> (to # {} => tx.to # {} /\ \A t \in tx.to : \A a \in to : a.digits = t.digits)
    BY DEF SameNumber
  <2> QED BY <2>1, <2>2, <2>3 DEF AtMostOne
<1> DEFINE rest == /\ \A a \in f.from : EqHex(a, tx.from)
                   /\ \A s \in f.function : StartsWithSelector(tx.input, s)
           restAsked == h.filter.shape = "transaction" =>
                     /\ SameNumber(h.filter.from, tx.from)
                     /\ IsPrefix(SubSeq(Keccak[h.filter.function], 1, SelectorLength), tx.input.digits)
<1>4. rest <=> restAsked
  <2>1. CASE h.filter.shape = "none"
    BY <2>1 DEF TransactionFilter
  <2>2. CASE h.filter.shape = "transaction"
    <3> DEFINE k == Keccak[h.filter.function]
               selector == SubSeq(k, 1, SelectorLength)
    <3>1. f.from = NormalAddress(h.filter.from) /\ f.function = {Normal(selector)}
      BY <2>2 DEF TransactionFilter, SelectorOf
    <3>2. selector # <<>>
      <4>1. k \in Seq(Range(k)) /\ Len(k) >= SelectorLength /\ SelectorLength \in Nat \ {0}
        BY <1>0, <2>2, HashesAssumption DEF IsList
      <4> HIDE DEF k
      <4>2. Len(selector) = SelectorLength
        BY <4>1, LenProperties
      <4> QED BY <4>1, <4>2, EmptySeq
    <3> HIDE DEF selector, f
    <3>3. StartsWithSelector(tx.input, Normal(selector)) <=> IsPrefix(selector, tx.input.digits)
      BY <3>2 DEF StartsWithSelector, Normal
    <3>4. (\A a \in f.from : EqHex(a, tx.from)) <=> SameNumber(h.filter.from, tx.from)
      BY <3>1, NormalMatches
    <3>5. (\A s \in f.function : StartsWithSelector(tx.input, s)) <=> IsPrefix(selector, tx.input.digits)
      BY <3>1, <3>3
    <3> QED BY <2>2, <3>4, <3>5 DEF selector
  <2> QED BY <1>0, <2>1, <2>2
<1>5. TransactionMatches(f, view) <=> recipient /\ rest
  <2> HIDE DEF f, view
  <2> QED BY <1>1 DEF TransactionMatches
<1>6. AskedFor(ds, h, tx) <=> asked /\ restAsked
  BY DEF AskedFor
<1> QED BY <1>3, <1>4, <1>5, <1>6

(* What the assumptions say of a handler of the project and of a block.    *)
LEMMA ManifestTyped ==
    ASSUME project \in Projects
    PROVE  /\ IsList(project.manifest.data_sources) /\ project.manifest.start_block \subseteq Nat
           /\ \A ds \in Range(project.manifest.data_sources) :
                 /\ ds.start_block \subseteq Nat
                 /\ ds.end_block \subseteq Nat /\ AtMostOne(ds.end_block)
                 /\ IsList(ds.handlers)
                 /\ \A h \in Range(ds.handlers) : h.filter.shape = "log" => IsList(h.filter.topics)
BY ManifestsAssumption

(* The inputs of a prepared handler are the ones the manifest asks for.    *)
LEMMA PreparedAsks ==
    ASSUME project \in Projects,
           NEW ds \in Range(project.manifest.data_sources),
           NEW h \in Range(ds.handlers), HandlerAccepted(ds, h),
           NEW n \in DOMAIN Blocks, NEW b \in Blocks[n]
    PROVE  MatchingInputs(PreparedHandler(project.manifest, ds, h), b) = WantedInputs(ds, h, b)
<1> DEFINE q == PreparedHandler(project.manifest, ds, h)
           all == InputsOf(h, b)
           set == {x \in Range(all) : ActiveSource(ds, b.number) /\ AskedFor(ds, h, x)}
<1>0. h.kind \in {"evm/BlockHandler", "evm/LogHandler", "evm/TransactionHandler"}
  BY DEF HandlerAccepted
<1>1. WantedInputs(ds, h, b) = Filtered(all, set)
  BY DEF WantedInputs
<1>2. /\ q.kind = h.kind /\ q.start = EffectiveStart(project.manifest, ds) /\ q.end = ds.end_block
      /\ q.filter = CASE h.kind = "evm/LogHandler"         -> LogFilter(ds, h.filter)
                      [] h.kind = "evm/TransactionHandler" -> TransactionFilter(ds, h.filter)
                      [] h.kind = "evm/BlockHandler"       ->
                           [modulo |-> IF h.filter.shape = "block" THEN h.filter.modulo ELSE {}]
  BY DEF PreparedHandler
<1> HIDE DEF q
<1>3. IsActiveAt(q, b.number) <=> ActiveSource(ds, b.number)
  <2>1. AtMostOne(ds.end_block)
    BY ManifestTyped
  <2> QED BY <1>2, <2>1 DEF IsActiveAt, ActiveSource, AtMostOne
<1>4. /\ IsList(b.logs) /\ \A l \in Range(b.logs) : IsList(l.topics)
      /\ IsList(b.transactions) /\ \A t \in Range(b.transactions) : AtMostOne(t.to)
  BY BlocksAssumption
<1>5. IsList(all)
  <2>1. CASE h.kind = "evm/BlockHandler"
    <3>1. all = <<b>>
      BY <2>1 DEF InputsOf
    <3>2. <<b>> \in Seq({b}) /\ Range(<<b>>) = {b}
      BY DEF Range
    <3> QED BY <3>1, <3>2 DEF IsList
  <2>2. CASE h.kind = "evm/LogHandler"
    BY <1>4, <2>2 DEF InputsOf
  <2>3. CASE h.kind = "evm/TransactionHandler"
    BY <1>4, <2>3 DEF InputsOf
  <2> QED BY <1>0, <2>1, <2>2, <2>3
<1>6. CASE ~ActiveSource(ds, b.number)
  <2>1. Range(all) \intersect set = {}
    BY <1>6
  <2>2. Filtered(all, set) = <<>>
    BY <1>5, <2>1, FilteredNone
  <2>3. MatchingInputs(q, b) = <<>>
    BY <1>3, <1>6 DEF MatchingInputs
  <2> QED BY <1>1, <2>2, <2>3 DEF q
<1>7. CASE ActiveSource(ds, b.number) /\ h.kind = "evm/BlockHandler"
  <2>1. q.filter.modulo = IF h.filter.shape = "block" THEN h.filter.modulo ELSE {}
    BY <1>2, <1>7
  <2>2. AskedFor(ds, h, b) <=> \A m \in q.filter.modulo : b.number % m = 0
    BY <1>7, <2>1 DEF AskedFor
  <2>3. MatchingInputs(q, b) = IF \A m \in q.filter.modulo : b.number % m = 0 THEN <<b>> ELSE <<>>
    BY <1>2, <1>3, <1>7 DEF MatchingInputs
  <2>4. all = <<b>>
    BY <1>7 DEF InputsOf
  <2>5. b \in set <=> AskedFor(ds, h, b)
    BY <1>7, <2>4 DEF Range
  <2> HIDE DEF set, all
  <2>6. Filtered(all, set) = IF b \in set THEN <<b>> ELSE <<>>
    BY <2>4, FilteredOne
  <2> QED BY <1>1, <2>2, <2>3, <2>5, <2>6 DEF q
<1>8. CASE ActiveSource(ds, b.number) /\ h.kind = "evm/LogHandler"
  <2>1. MatchingInputs(q, b) = Filtered(b.logs, {l \in Range(b.logs) : LogMatches(q.filter, LogView(l))})
    BY <1>2, <1>3, <1>8 DEF MatchingInputs
  <2>2. all = b.logs /\ q.filter = LogFilter(ds, h.filter)
    BY <1>2, <1>8 DEF InputsOf
  <2>3. h.filter.shape = "log" => IsList(h.filter.topics)
    BY ManifestTyped
  <2>4. \A l \in Range(b.logs) : LogMatches(q.filter, LogView(l)) <=> AskedFor(ds, h, l)
    BY <1>4, <1>8, <2>2, <2>3, LogFilterAsks
  <2>5. {l \in Range(b.logs) : LogMatches(q.filter, LogView(l))} = set
    BY <1>8, <2>2, <2>4
  <2> HIDE DEF set, all
  <2> QED BY <1>1, <2>1, <2>2, <2>5 DEF q
<1>9. CASE ActiveSource(ds, b.number) /\ h.kind = "evm/TransactionHandler"
  <2>1. MatchingInputs(q, b) = Filtered(b.transactions,
            {t \in Range(b.transactions) : TransactionMatches(q.filter, TransactionView(t))})
    BY <1>2, <1>3, <1>9 DEF MatchingInputs
  <2>2. all = b.transactions /\ q.filter = TransactionFilter(ds, h.filter)
    BY <1>2, <1>9 DEF InputsOf
  <2>3. \A t \in Range(b.transactions) :
            TransactionMatches(q.filter, TransactionView(t)) <=> AskedFor(ds, h, t)
    BY <1>4, <1>9, <2>2, TransactionFilterAsks
  <2>4. {t \in Range(b.transactions) : TransactionMatches(q.filter, TransactionView(t))} = set
    BY <1>9, <2>2, <2>3
  <2> HIDE DEF set, all
  <2> QED BY <1>1, <2>1, <2>2, <2>4 DEF q
<1> QED BY <1>0, <1>6, <1>7, <1>8, <1>9

(* The handlers, one for each of the manifest, in its order.               *)
LEMMA HandlersOfManifest ==
    ASSUME project \in Projects, NEW T, NEW tt \in Seq(Seq(T)),
           Len(tt) = Len(project.manifest.data_sources),
           \A i \in 1..Len(tt) : Len(tt[i]) = Len(project.manifest.data_sources[i].handlers)
    PROVE  LET m        == project.manifest
               handlers == PrepareHandlers(m)
               flat     == FlattenSeq(tt)
           IN  /\ Len(handlers) \in Nat /\ DOMAIN handlers = 1..Len(handlers)
               /\ flat \in Seq(T) /\ Len(flat) = Len(handlers)
               /\ \A n \in 1..Len(handlers) :
                     \E i \in 1..Len(m.data_sources) : \E j \in 1..Len(m.data_sources[i].handlers) :
                        /\ handlers[n] = PreparedHandler(m, m.data_sources[i], m.data_sources[i].handlers[j])
                        /\ flat[n] = tt[i][j]
<1> DEFINE m == project.manifest
           sources == m.data_sources
           prepared(i, j) == PreparedHandler(m, sources[i], sources[i].handlers[j])
           row(i) == [j \in DOMAIN sources[i].handlers |-> prepared(i, j)]
           ss == [i \in DOMAIN sources |-> row(i)]
           S == UNION {{prepared(i, j) : j \in DOMAIN sources[i].handlers} : i \in DOMAIN sources}
<1>1. Len(sources) \in Nat /\ DOMAIN sources = 1..Len(sources) /\ \A i \in 1..Len(sources) : sources[i] \in Range(sources)
  BY ManifestTyped, ListProperties
<1>2. \A i \in 1..Len(sources) :
          Len(sources[i].handlers) \in Nat /\ DOMAIN sources[i].handlers = 1..Len(sources[i].handlers)
  BY <1>1, ManifestTyped, ListProperties
<1>3. PrepareHandlers(m) = FlattenSeq(ss)
  BY DEF PrepareHandlers
<1> HIDE DEF m, sources, prepared
<1>4. \A i \in 1..Len(sources) :
          row(i) \in Seq(S) /\ Len(row(i)) = Len(sources[i].handlers)
          /\ \A j \in 1..Len(sources[i].handlers) : row(i)[j] = prepared(i, j)
  <2> SUFFICES ASSUME NEW i \in 1..Len(sources)
               PROVE  row(i) \in Seq(S) /\ Len(row(i)) = Len(sources[i].handlers)
                      /\ \A j \in 1..Len(sources[i].handlers) : row(i)[j] = prepared(i, j)
    OBVIOUS
  <2>1. row(i) \in [1..Len(sources[i].handlers) -> S]
    BY <1>1, <1>2
  <2> QED BY <1>2, <2>1, Tabulated
<1> HIDE DEF row, S
<1>5. ss \in Seq(Seq(S)) /\ Len(ss) = Len(sources) /\ \A i \in 1..Len(sources) : ss[i] = row(i)
  <2>1. ss \in [1..Len(sources) -> Seq(S)]
    BY <1>1, <1>4
  <2> QED BY <1>1, <2>1, Tabulated
<1> HIDE DEF ss
<1>6. Len(ss) = Len(tt) /\ \A i \in 1..Len(ss) : Len(ss[i]) = Len(tt[i])
  BY <1>4, <1>5 DEF m, sources
<1> DEFINE handlers == FlattenSeq(ss)
           flat == FlattenSeq(tt)
<1>7. handlers \in Seq(S) /\ flat \in Seq(T) /\ Len(handlers) = Len(flat)
      /\ \A n \in 1..Len(handlers) : SamePlace(ss, tt, n)
  BY <1>5, <1>6, FlattenAlike
<1>8. Len(handlers) \in Nat /\ DOMAIN handlers = 1..Len(handlers)
  BY <1>7, LenProperties
<1> HIDE DEF handlers, flat
<1>9. ASSUME NEW n \in 1..Len(handlers)
      PROVE  \E i \in 1..Len(sources) : \E j \in 1..Len(sources[i].handlers) :
                handlers[n] = prepared(i, j) /\ flat[n] = tt[i][j]
  <2>1. PICK i \in 1..Len(ss) : \E j \in 1..Len(ss[i]) : handlers[n] = ss[i][j] /\ flat[n] = tt[i][j]
    BY <1>7 DEF SamePlace, handlers, flat
  <2>2. PICK j \in 1..Len(ss[i]) : handlers[n] = ss[i][j] /\ flat[n] = tt[i][j]
    BY <2>1
  <2>3. i \in 1..Len(sources) /\ j \in 1..Len(sources[i].handlers) /\ ss[i][j] = prepared(i, j)
    BY <1>4, <1>5
  <2> QED BY <2>2, <2>3
<1> QED BY <1>3, <1>7, <1>8, <1>9 DEF m, sources, prepared, handlers, flat

(* The handlers run for a block are exactly those the manifest asks for,   *)
(* with their inputs, in the order of the manifest and of the block.       *)
LEMMA InvocationsAsWanted ==
    ASSUME project \in Projects, PreparesHandlers(project.manifest),
           NEW n \in DOMAIN Blocks, NEW b \in Blocks[n]
    PROVE  Invocations(PrepareHandlers(project.manifest), b) = Wanted(b)
<1> DEFINE m == project.manifest
           sources == m.data_sources
           handler(i, j) == sources[i].handlers[j]
           call(i, j) == LET inputs == WantedInputs(sources[i], handler(i, j), b)
                         IN  [k \in DOMAIN inputs |-> [function |-> handler(i, j).function, input |-> inputs[k]]]
           row(i) == [j \in DOMAIN sources[i].handlers |-> call(i, j)]
           tt == [i \in DOMAIN sources |-> row(i)]
           T == UNION {{call(i, j) : j \in DOMAIN sources[i].handlers} : i \in DOMAIN sources}
           flat == FlattenSeq(tt)
           handlers == PrepareHandlers(m)
           invoked(p) == LET inputs == MatchingInputs(p, b)
                         IN  [j \in DOMAIN inputs |-> [function |-> p.function, input |-> inputs[j]]]
<1>1. /\ Len(sources) \in Nat /\ DOMAIN sources = 1..Len(sources)
      /\ \A i \in 1..Len(sources) : sources[i] \in Range(sources)
  BY ManifestTyped, ListProperties
<1>2. \A i \in 1..Len(sources) :
          /\ Len(sources[i].handlers) \in Nat /\ DOMAIN sources[i].handlers = 1..Len(sources[i].handlers)
          /\ \A j \in 1..Len(sources[i].handlers) : handler(i, j) \in Range(sources[i].handlers)
  BY <1>1, ManifestTyped, ListProperties
<1>3. ASSUME NEW i \in 1..Len(sources), NEW j \in 1..Len(sources[i].handlers)
      PROVE  invoked(PreparedHandler(m, sources[i], handler(i, j))) = call(i, j)
  <2> DEFINE ds == sources[i]
             h == handler(i, j)
             p == PreparedHandler(m, ds, h)
  <2>1. ds \in Range(sources) /\ h \in Range(ds.handlers) /\ HandlerAccepted(ds, h)
    BY <1>1, <1>2 DEF PreparesHandlers
  <2>2. MatchingInputs(p, b) = WantedInputs(ds, h, b)
    BY <2>1, PreparedAsks
  <2>3. p.function = h.function
    BY DEF PreparedHandler
  <2> HIDE DEF p
  <2>4. invoked(p) = call(i, j)
    BY <2>2, <2>3
  <2> QED BY <2>4 DEF p
<1>4. Wanted(b) = FlattenSeq(flat)
  BY DEF Wanted
<1>5. Invocations(handlers, b) = FlattenSeq([k \in DOMAIN handlers |-> invoked(handlers[k])])
  BY DEF Invocations
<1> HIDE DEF call, invoked
<1>6. \A i \in 1..Len(sources) :
          row(i) \in Seq(T) /\ Len(row(i)) = Len(sources[i].handlers)
          /\ \A j \in 1..Len(sources[i].handlers) : row(i)[j] = call(i, j)
  <2> SUFFICES ASSUME NEW i \in 1..Len(sources)
               PROVE  row(i) \in Seq(T) /\ Len(row(i)) = Len(sources[i].handlers)
                      /\ \A j \in 1..Len(sources[i].handlers) : row(i)[j] = call(i, j)
    OBVIOUS
  <2>1. row(i) \in [1..Len(sources[i].handlers) -> T]
    BY <1>1, <1>2
  <2> QED BY <1>2, <2>1, Tabulated
<1> HIDE DEF row, T
<1>7. tt \in Seq(Seq(T)) /\ Len(tt) = Len(sources) /\ \A i \in 1..Len(sources) : tt[i] = row(i)
  <2>1. tt \in [1..Len(sources) -> Seq(T)]
    BY <1>1, <1>6
  <2> QED BY <1>1, <2>1, Tabulated
<1> HIDE DEF tt
<1>8. \A i \in 1..Len(tt) : Len(tt[i]) = Len(sources[i].handlers)
  BY <1>6, <1>7
<1>9. /\ Len(handlers) \in Nat /\ DOMAIN handlers = 1..Len(handlers)
      /\ flat \in Seq(T) /\ Len(flat) = Len(handlers)
      /\ \A k \in 1..Len(handlers) :
            \E i \in 1..Len(sources) : \E j \in 1..Len(sources[i].handlers) :
               handlers[k] = PreparedHandler(m, sources[i], handler(i, j)) /\ flat[k] = tt[i][j]
  BY <1>7, <1>8, HandlersOfManifest
<1> HIDE DEF flat, handlers, m, sources, handler
<1>10. ASSUME NEW k \in 1..Len(handlers)
       PROVE  invoked(handlers[k]) = flat[k]
  <2>1. PICK i \in 1..Len(sources) : \E j \in 1..Len(sources[i].handlers) :
               handlers[k] = PreparedHandler(m, sources[i], handler(i, j)) /\ flat[k] = tt[i][j]
    BY <1>9
  <2>2. PICK j \in 1..Len(sources[i].handlers) :
               handlers[k] = PreparedHandler(m, sources[i], handler(i, j)) /\ flat[k] = tt[i][j]
    BY <2>1
  <2>3. tt[i][j] = call(i, j)
    BY <1>6, <1>7
  <2> QED BY <1>3, <2>2, <2>3
<1>11. [k \in DOMAIN handlers |-> invoked(handlers[k])] = flat
  <2>1. flat = [k \in 1..Len(handlers) |-> flat[k]]
    BY <1>9
  <2> QED BY <1>9, <1>10, <2>1
<1> QED BY <1>4, <1>5, <1>11 DEF handlers, m

(* Blocks are indexed only for a project that was accepted.                *)
LEMMA ProjectStaysAccepted == IndexingSpec => []IndexesAccepted
<1>1. IndexingInit => IndexesAccepted
  BY DEF IndexingInit, IndexesAccepted
<1>2. ASSUME IndexesAccepted, [IndexingNext]_allVars
      PROVE  IndexesAccepted'
  <2>1. project' = project
    BY <1>2 DEF IndexingNext, Load, BeginBlock, Invoke, Fail, BeginWriting, Store, StoreUnanswered,
                FinishWriting, CommitBlock, StartRewind, RewindStatement, FinishRewind, allVars, indexVars
  <2>2. ProjectAccepted' <=> ProjectAccepted
    BY <2>1 DEF ProjectAccepted, Models
  <2>3. CASE Load
    BY <1>2, <2>1, <2>2, <2>3 DEF Load, IndexesAccepted
  <2>4. CASE phase' = phase
    BY <1>2, <2>1, <2>2, <2>4 DEF IndexesAccepted
  <2>5. CASE phase \in {"idle", "running", "writing"}
    BY <1>2, <2>1, <2>2, <2>5 DEF IndexesAccepted
  <2>6. Load \/ phase' = phase \/ phase \in {"idle", "running", "writing"}
    BY <1>2 DEF IndexingNext, BeginBlock, Invoke, Fail, BeginWriting, Store, StoreUnanswered,
                FinishWriting, CommitBlock, StartRewind, RewindStatement, FinishRewind, allVars, indexVars
  <2> QED BY <2>3, <2>4, <2>5, <2>6
<1> QED
  BY <1>1, <1>2, PTL DEF IndexingSpec

(* Preparing the manifest's filters and matching them loses and adds no    *)
(* handler call, for any manifest that prepare_handlers accepts and any    *)
(* block.                                                                  *)
THEOREM IndexingSelectionIsExact == IndexingSpec => []SelectionIsExact
<1>1. IndexesAccepted => SelectionIsExact
  BY InvocationsAsWanted DEF IndexesAccepted, ProjectAccepted, SelectionIsExact
<1> QED
  BY ProjectStaysAccepted, <1>1, PTL

-----------------------------------------------------------------------------
(* The other path to the inputs, by decoded events.                        *)
FoundBy(events, kind, f) ==
    {i \in DOMAIN events : EventMatches(events[i], [handler |-> kind, params |-> {f}])}

(* The logs an event handler's filter finds.                               *)
LEMMA FoundLogs ==
    ASSUME NEW b, NEW f
    PROVE  FoundBy(DecodeEvents(b), "event", f) = {i \in DOMAIN b.logs : LogMatches(f, LogView(b.logs[i]))}
<1> DEFINE events == DecodeEvents(b)
<1>1. DOMAIN events = DOMAIN b.logs /\ \A i \in DOMAIN b.logs : events[i].log = b.logs[i]
  BY DEF DecodeEvents
<1> HIDE DEF events
<1>2. ASSUME NEW i \in DOMAIN b.logs
      PROVE  EventMatches(events[i], [handler |-> "event", params |-> {f}]) <=> LogMatches(f, LogView(b.logs[i]))
  BY <1>1 DEF EventMatches
<1>3. FoundBy(events, "event", f) = {i \in DOMAIN b.logs : LogMatches(f, LogView(b.logs[i]))}
  BY <1>1, <1>2 DEF FoundBy
<1> QED BY <1>3 DEF events

(* A log is paired with the transaction of its index.                      *)
LEMMA PairedTransaction ==
    ASSUME NEW n \in DOMAIN Blocks, NEW b \in Blocks[n], NEW i \in DOMAIN b.logs, NEW tx
    PROVE  tx \in DecodeEvents(b)[i].transaction
           <=> tx \in Range(b.transactions) /\ tx.transaction_index = b.logs[i].transaction_index
<1> DEFINE at == {j \in DOMAIN b.transactions : b.transactions[j].transaction_index = b.logs[i].transaction_index}
<1>1. DecodeEvents(b)[i].transaction
        = {b.transactions[j] : j \in {k \in at : \A m \in at : m <= k}}
  BY DEF DecodeEvents
<1>2. /\ DOMAIN b.transactions = 1..Len(b.transactions) /\ Len(b.transactions) \in Nat
      /\ \A j, k \in DOMAIN b.transactions :
            b.transactions[j].transaction_index = b.transactions[k].transaction_index => j = k
  BY BlocksAssumption, ListProperties
<1>3. \A j, k \in at : j = k
  BY <1>2
<1>4. {k \in at : \A m \in at : m <= k} = at
  <2>1. \A k \in at : k <= k
    BY <1>2
  <2> QED BY <1>3, <2>1
<1>5. DecodeEvents(b)[i].transaction = {b.transactions[j] : j \in at}
  BY <1>1, <1>4
<1> QED BY <1>5 DEF Range

(* The logs whose transaction a transaction handler's filter finds.        *)
LEMMA FoundTransactions ==
    ASSUME NEW n \in DOMAIN Blocks, NEW b \in Blocks[n], NEW f
    PROVE  FoundBy(DecodeEvents(b), "transaction", f)
           = {i \in DOMAIN b.logs : \E tx \in Range(b.transactions) :
                /\ tx.transaction_index = b.logs[i].transaction_index
                /\ TransactionMatches(f, TransactionView(tx))}
<1> DEFINE events == DecodeEvents(b)
           paired(i) == {tx \in Range(b.transactions) : tx.transaction_index = b.logs[i].transaction_index}
<1>1. DOMAIN events = DOMAIN b.logs
  BY DEF DecodeEvents
<1>2. \A i \in DOMAIN b.logs : events[i].transaction = paired(i)
  BY PairedTransaction
<1> HIDE DEF events
<1>3. ASSUME NEW i \in DOMAIN b.logs
      PROVE  EventMatches(events[i], [handler |-> "transaction", params |-> {f}])
             <=> \E tx \in paired(i) : TransactionMatches(f, TransactionView(tx))
  BY <1>2 DEF EventMatches
<1>4. FoundBy(events, "transaction", f)
        = {i \in DOMAIN b.logs : \E tx \in paired(i) : TransactionMatches(f, TransactionView(tx))}
  BY <1>1, <1>3 DEF FoundBy
<1> QED BY <1>4 DEF events

(* A filter on the first topic alone.                                      *)
LEMMA FirstTopic ==
    ASSUME NEW b, NEW c
    PROVE  FoundBy(DecodeEvents(b), "event", [address |-> {}, topics |-> <<c>>])
           = {i \in DOMAIN b.logs :
                IF 1 \in DOMAIN b.logs[i].topics THEN TopicMatches(c, b.logs[i].topics[1]) ELSE c.any}
<1> DEFINE f == [address |-> {}, topics |-> <<c>>]
<1>1. f.address = {} /\ DOMAIN f.topics = {1} /\ f.topics[1] = c
  OBVIOUS
<1> HIDE DEF f
<1>2. ASSUME NEW log
      PROVE  LogMatches(f, LogView(log))
             <=> IF 1 \in DOMAIN log.topics THEN TopicMatches(c, log.topics[1]) ELSE c.any
  <2>1. LogView(log).topics = log.topics
    BY DEF LogView
  <2> QED BY <1>1, <2>1 DEF LogMatches
<1>3. FoundBy(DecodeEvents(b), "event", f) = {i \in DOMAIN b.logs : LogMatches(f, LogView(b.logs[i]))}
  BY FoundLogs
<1>4. FoundBy(DecodeEvents(b), "event", f)
           = {i \in DOMAIN b.logs :
                IF 1 \in DOMAIN b.logs[i].topics THEN TopicMatches(c, b.logs[i].topics[1]) ELSE c.any}
  BY <1>2, <1>3
<1> QED BY <1>4 DEF f

(* By decoded events the same inputs are found as by prepared handlers.    *)
LEMMA PathsAgree ==
    ASSUME NEW n \in DOMAIN Blocks, NEW b \in Blocks[n], NEW p, IsActiveAt(p, b.number)
    PROVE  /\ p.kind = "evm/LogHandler" =>
                {b.logs[i] : i \in FoundBy(DecodeEvents(b), "event", p.filter)} = Range(MatchingInputs(p, b))
           /\ p.kind = "evm/TransactionHandler" =>
                {b.logs[i].transaction_index : i \in FoundBy(DecodeEvents(b), "transaction", p.filter)}
                = {t.transaction_index : t \in Range(MatchingInputs(p, b))}
                  \intersect {b.logs[i].transaction_index : i \in DOMAIN b.logs}
<1>1. IsList(b.logs) /\ IsList(b.transactions)
  BY BlocksAssumption
<1>2. CASE p.kind = "evm/LogHandler"
  <2> DEFINE found == FoundBy(DecodeEvents(b), "event", p.filter)
             asked == {l \in Range(b.logs) : LogMatches(p.filter, LogView(l))}
  <2>1. MatchingInputs(p, b) = Filtered(b.logs, asked)
    BY <1>2 DEF MatchingInputs
  <2>2. Range(MatchingInputs(p, b)) = asked
    BY <1>1, <2>1, FilteredProperties
  <2>3. found = {i \in DOMAIN b.logs : LogMatches(p.filter, LogView(b.logs[i]))}
    BY FoundLogs
  <2> HIDE DEF found
  <2>4. {b.logs[i] : i \in found} = asked
    BY <2>3 DEF Range
  <2> QED BY <1>2, <2>2, <2>4 DEF found
<1>3. CASE p.kind = "evm/TransactionHandler"
  <2> DEFINE found == FoundBy(DecodeEvents(b), "transaction", p.filter)
             asked == {t \in Range(b.transactions) : TransactionMatches(p.filter, TransactionView(t))}
  <2>1. MatchingInputs(p, b) = Filtered(b.transactions, asked)
    BY <1>3 DEF MatchingInputs
  <2>2. Range(MatchingInputs(p, b)) = asked
    BY <1>1, <2>1, FilteredProperties
  <2>3. found = {i \in DOMAIN b.logs : \E tx \in Range(b.transactions) :
                    /\ tx.transaction_index = b.logs[i].transaction_index
                    /\ TransactionMatches(p.filter, TransactionView(tx))}
    BY FoundTransactions
  <2> HIDE DEF found
  <2>4. {b.logs[i].transaction_index : i \in found}
          = {t.transaction_index : t \in asked} \intersect {b.logs[i].transaction_index : i \in DOMAIN b.logs}
    BY <2>3
  <2> QED BY <1>3, <2>2, <2>4 DEF found
<1> QED BY <1>2, <1>3

(* The events of a block lead to the same inputs as its prepared handlers, *)
(* a list of topics to what its members lead to, and Any to every event.   *)
THEOREM IndexingEventPathAgrees == IndexingSpec => []EventPathAgrees
<1>1. ASSUME NEW h \in DOMAIN Blocks, NEW b \in Blocks[h]
      PROVE  LET handlers == PrepareHandlers(project.manifest)
                 events   == DecodeEvents(b)
                 found(kind, f) == {i \in DOMAIN events : EventMatches(events[i], [handler |-> kind, params |-> {f}])}
                 first(c) == found("event", [address |-> {}, topics |-> <<c>>])
             IN  /\ first(AnyTopic) = DOMAIN events
                 /\ \A ts \in SUBSET UNION {Range(l.topics) : l \in Range(b.logs)} :
                       first(AnyOfTopics(ts)) = UNION {first(OneTopic(t)) : t \in ts}
                 /\ \A n \in DOMAIN handlers : IsActiveAt(handlers[n], b.number) =>
                   LET f == handlers[n].filter
                       inputs == Range(MatchingInputs(handlers[n], b))
                   IN  /\ handlers[n].kind = "evm/LogHandler" =>
                             {b.logs[i] : i \in found("event", f)} = inputs
                       /\ handlers[n].kind = "evm/TransactionHandler" =>
                             {b.logs[i].transaction_index : i \in found("transaction", f)}
                             = {t.transaction_index : t \in inputs}
                               \intersect {b.logs[i].transaction_index : i \in DOMAIN b.logs}
  <2> DEFINE handlers == PrepareHandlers(project.manifest)
             events == DecodeEvents(b)
             first(c) == FoundBy(events, "event", [address |-> {}, topics |-> <<c>>])
  <2>1. DOMAIN events = DOMAIN b.logs
    BY DEF DecodeEvents
  <2>2. first(AnyTopic) = DOMAIN events
    <3>1. first(AnyTopic)
            = {i \in DOMAIN b.logs :
                 IF 1 \in DOMAIN b.logs[i].topics THEN TopicMatches(AnyTopic, b.logs[i].topics[1])
                 ELSE AnyTopic.any}
      BY FirstTopic
    <3>2. AnyTopic.any = TRUE /\ \A topic : TopicMatches(AnyTopic, topic) = TRUE
      BY DEF AnyTopic, TopicMatches
    <3> HIDE DEF first, events
    <3> QED BY <2>1, <3>1, <3>2
  <2>3. ASSUME NEW ts
        PROVE  first(AnyOfTopics(ts)) = UNION {first(OneTopic(t)) : t \in ts}
    <3> DEFINE has(i, t) == 1 \in DOMAIN b.logs[i].topics /\ EqHex(t, b.logs[i].topics[1])
    <3>1. first(AnyOfTopics(ts)) = {i \in DOMAIN b.logs : \E t \in ts : has(i, t)}
      BY FirstTopic DEF AnyOfTopics, TopicMatches
    <3>2. ASSUME NEW t PROVE first(OneTopic(t)) = {i \in DOMAIN b.logs : has(i, t)}
      BY FirstTopic DEF OneTopic, TopicMatches
    <3> HIDE DEF first, has
    <3> QED BY <3>1, <3>2
  <2>4. ASSUME NEW n \in DOMAIN handlers, IsActiveAt(handlers[n], b.number)
        PROVE  /\ handlers[n].kind = "evm/LogHandler" =>
                     {b.logs[i] : i \in FoundBy(events, "event", handlers[n].filter)}
                     = Range(MatchingInputs(handlers[n], b))
               /\ handlers[n].kind = "evm/TransactionHandler" =>
                     {b.logs[i].transaction_index : i \in FoundBy(events, "transaction", handlers[n].filter)}
                     = {t.transaction_index : t \in Range(MatchingInputs(handlers[n], b))}
                       \intersect {b.logs[i].transaction_index : i \in DOMAIN b.logs}
    <3> DEFINE p == handlers[n]
    <3>1. IsActiveAt(p, b.number)
      BY <2>4
    <3> HIDE DEF p
    <3> QED BY <3>1, PathsAgree DEF p
  <2> HIDE DEF handlers, events
  <2> QED BY <2>2, <2>3, <2>4 DEF handlers, events, FoundBy
<1>2. EventPathAgrees
  BY <1>1 DEF EventPathAgrees
<1> QED
  BY <1>2, PTL

-----------------------------------------------------------------------------
(* Values by height.  The greatest number of a set with a bound, and the   *)
(* least one.                                                              *)
LEMMA GreatestUpTo ==
    ASSUME NEW S \in SUBSET Nat, S # {}, NEW h \in Nat, \A x \in S : x <= h
    PROVE  Heights!Max(S) \in S /\ \A x \in S : x <= Heights!Max(S)
<1> DEFINE below == {h - x : x \in S}
<1>1. below \in SUBSET Nat /\ below # {}
  <2>1. \A x \in S : h - x \in Nat
    OBVIOUS
  <2> QED BY <2>1
<1> HIDE DEF below
<1>2. PICK n \in below : \A m \in below : n <= m
  BY <1>1, LeastNatural
<1>3. PICK g \in S : n = h - g
  BY <1>2 DEF below
<1>4. \A x \in S : g >= x
  BY <1>2, <1>3 DEF below
<1>5. \E x \in S : \A y \in S : x >= y
  BY <1>4
<1>6. Heights!Max(S) \in S /\ \A y \in S : Heights!Max(S) >= y
  BY <1>5 DEF Heights!Max
<1> QED BY <1>6

LEMMA LeastOf ==
    ASSUME NEW S \in SUBSET Nat, S # {}
    PROVE  Heights!Min(S) \in S /\ \A x \in S : Heights!Min(S) <= x
<1>1. \E x \in S : \A y \in S : x <= y
  BY LeastNatural
<1> QED BY <1>1 DEF Heights!Min

(* HeightMap's own instance of FiniteSets counts alike.                    *)
LEMMA CardinalityAlike == ASSUME NEW S PROVE Heights!Cardinality(S) = Cardinality(S)
BY DEF Heights!Cardinality, Cardinality

(* The keys in ascending order: each has the place its rank says.          *)
LEMMA KeysByRank ==
    ASSUME NEW D \in SUBSET Nat, IsFiniteSet(D)
    PROVE  LET key(i) == CHOOSE k \in D : Heights!Cardinality({l \in D : l <= k}) = i
           IN  {key(i) : i \in 1..Heights!Cardinality(D)} = D
<1> DEFINE upTo(k) == {l \in D : l <= k}
           rank == [k \in D |-> Cardinality(upTo(k))]
           N == Cardinality(D)
<1>1. N \in Nat
  BY FS_CardinalityType
<1>2. ASSUME NEW k \in D
      PROVE  IsFiniteSet(upTo(k)) /\ rank[k] \in 1..N
  <2>1. upTo(k) \in SUBSET D /\ k \in upTo(k)
    OBVIOUS
  <2> HIDE DEF upTo
  <2>2. IsFiniteSet(upTo(k)) /\ Cardinality(upTo(k)) <= N
    BY <2>1, FS_Subset
  <2>3. Cardinality(upTo(k)) \in Nat /\ Cardinality(upTo(k)) # 0
    BY <2>1, <2>2, FS_CardinalityType, FS_EmptySet
  <2>4. rank[k] = Cardinality(upTo(k))
    OBVIOUS
  <2> HIDE DEF rank, N
  <2> QED BY <2>2, <2>3, <2>4, <1>1
<1>3. ASSUME NEW j \in D, NEW k \in D, j < k
      PROVE  rank[j] # rank[k]
  <2> j \in Nat /\ k \in Nat /\ \A l \in D : l \in Nat
    OBVIOUS
  <2>4. k \in upTo(k) /\ k \notin upTo(j)
    BY <1>3
  <2>5. \A l \in upTo(j) : l \in upTo(k)
    BY <1>3
  <2>1. upTo(j) \in SUBSET upTo(k) /\ upTo(j) # upTo(k)
    BY <2>4, <2>5
  <2>2. IsFiniteSet(upTo(k))
    BY <1>2
  <2>3. rank[j] = Cardinality(upTo(j)) /\ rank[k] = Cardinality(upTo(k))
    OBVIOUS
  <2> HIDE DEF upTo, rank
  <2> QED BY <2>1, <2>2, <2>3, FS_Subset
<1>4. rank \in [D -> 1..N]
  BY <1>2
<1>5. \A j, k \in D : rank[j] = rank[k] => j = k
  <2> SUFFICES ASSUME NEW j \in D, NEW k \in D, j # k PROVE rank[j] # rank[k]
    OBVIOUS
  <2>1. j < k \/ k < j
    OBVIOUS
  <2> HIDE DEF rank
  <2> QED BY <2>1, <1>3
<1>6. rank \in Injection(D, 1..N)
  <2> HIDE DEF rank, N
  <2> QED BY <1>4, <1>5 DEF Injection, IsInjective
<1>7. IsFiniteSet(1..N) /\ Cardinality(1..N) = N
  BY <1>1, FS_Interval
<1>8. rank \in Surjection(D, 1..N)
  <2> HIDE DEF rank
  <2> QED BY <1>6, <1>7, FS_Injection
<1>9. \A k \in D : rank[k] = Heights!Cardinality(upTo(k))
  BY CardinalityAlike
<1>10. \A i \in 1..N : \E k \in D : Heights!Cardinality(upTo(k)) = i
  <2> HIDE DEF rank, N, upTo
  <2> QED BY <1>8, <1>9 DEF Surjection
<1> DEFINE key(i) == CHOOSE k \in D : Heights!Cardinality(upTo(k)) = i
<1>11. ASSUME NEW i \in 1..N PROVE key(i) \in D /\ Heights!Cardinality(upTo(key(i))) = i
  <2> HIDE DEF N, upTo
  <2> QED BY <1>10
<1>12. ASSUME NEW k \in D PROVE \E i \in 1..N : key(i) = k
  <2> HIDE DEF rank, N, upTo
  <2> DEFINE i == Heights!Cardinality(upTo(k))
  <2>1. i \in 1..N
    BY <1>4, <1>9
  <2>2. key(i) \in D /\ Heights!Cardinality(upTo(key(i))) = i
    BY <2>1, <1>11
  <2> HIDE DEF key
  <2>3. rank[key(i)] = rank[k]
    BY <2>2, <1>9
  <2>4. key(i) = k
    BY <2>2, <2>3, <1>5
  <2> QED BY <2>1, <2>4
<1>13. {key(i) : i \in 1..N} = D
  <2> HIDE DEF key, N
  <2> QED BY <1>11, <1>12
<1>14. N = Heights!Cardinality(D)
  BY CardinalityAlike
<1> HIDE DEF N
<1> QED BY <1>13, <1>14

(* The entries of a map with their ranges, and the one of a height.        *)
EntryAt(map, k) == [value |-> map[k], start |-> k, end |-> Heights!EndHeight(map, k)]

LEMMA LastReached ==
    ASSUME NEW map, DOMAIN map \in SUBSET Nat, NEW h \in Nat
    PROVE  \/ /\ \A k \in DOMAIN map : h < k
              /\ Heights!GetDetails(map, h) = {} /\ Heights!Get(map, h) = {}
           \/ \E k \in DOMAIN map :
                 /\ k <= h /\ \A l \in DOMAIN map : l <= h => l <= k
                 /\ Heights!GetDetails(map, h) = {EntryAt(map, k)} /\ Heights!Get(map, h) = {map[k]}
<1> DEFINE reached == {k \in DOMAIN map : k <= h}
<1>1. CASE reached = {}
  <2>1. Heights!GetDetails(map, h) = {}
    BY <1>1 DEF Heights!GetDetails
  <2>2. Heights!Get(map, h) = {}
    BY <2>1 DEF Heights!Get
  <2>3. \A k \in DOMAIN map : h < k
    BY <1>1
  <2> QED BY <2>1, <2>2, <2>3
<1>2. CASE reached # {}
  <2> DEFINE k == Heights!Max(reached)
  <2>1. reached \in SUBSET Nat /\ \A x \in reached : x <= h
    OBVIOUS
  <2>2. k \in reached /\ \A x \in reached : x <= k
    <3> HIDE DEF reached
    <3> QED BY <1>2, <2>1, GreatestUpTo
  <2>3. Heights!GetDetails(map, h) = {EntryAt(map, k)}
    BY <1>2 DEF Heights!GetDetails, EntryAt
  <2>4. EntryAt(map, k).value = map[k]
    BY DEF EntryAt
  <2> HIDE DEF k
  <2>5. Heights!Get(map, h) = {map[k]}
    BY <2>3, <2>4 DEF Heights!Get
  <2>6. k \in DOMAIN map /\ k <= h /\ \A l \in DOMAIN map : l <= h => l <= k
    BY <2>2
  <2> QED BY <2>3, <2>5, <2>6
<1> QED BY <1>1, <1>2

LEMMA EntriesListed ==
    ASSUME NEW map, DOMAIN map \in SUBSET Nat, IsFiniteSet(DOMAIN map)
    PROVE  Range(Heights!GetAllWithRange(map)) = {EntryAt(map, k) : k \in DOMAIN map}
<1> DEFINE D == DOMAIN map
           N == Heights!Cardinality(D)
           key(i) == CHOOSE k \in D : Heights!Cardinality({l \in D : l <= k}) = i
           all == [i \in 1..N |-> EntryAt(map, key(i))]
<1>1. {key(i) : i \in 1..N} = D
  BY KeysByRank
<1>2. Heights!GetAllWithRange(map) = all
  BY DEF Heights!GetAllWithRange, EntryAt
<1> HIDE DEF key, N, D
<1>3. Range(all) = {EntryAt(map, key(i)) : i \in 1..N}
  BY DEF Range
<1>4. {EntryAt(map, key(i)) : i \in 1..N} = {EntryAt(map, k) : k \in D}
  BY <1>1
<1> QED BY <1>2, <1>3, <1>4 DEF D

LEMMA EntryOfHeight ==
    ASSUME NEW map, DOMAIN map \in SUBSET Nat, NEW h \in Nat
    PROVE  {r \in {EntryAt(map, k) : k \in DOMAIN map} : r.start <= h /\ \A e \in r.end : h <= e}
           = Heights!GetDetails(map, h)
<1> DEFINE last(k) == k <= h /\ \A l \in DOMAIN map : l <= h => l <= k
<1>1. ASSUME NEW k \in DOMAIN map
      PROVE  EntryAt(map, k).start <= h /\ (\A e \in EntryAt(map, k).end : h <= e) <=> last(k)
  <2> DEFINE later == {l \in DOMAIN map : l > k}
  <2>1. EntryAt(map, k).start = k /\ EntryAt(map, k).end = IF later = {} THEN {} ELSE {Heights!Min(later) - 1}
    BY DEF EntryAt, Heights!EndHeight
  <2>2. later \in SUBSET Nat
    OBVIOUS
  <2>3. later # {} => Heights!Min(later) \in later /\ \A l \in later : Heights!Min(later) <= l
    <3> HIDE DEF later
    <3> QED BY <2>2, LeastOf
  <2>4. (\A l \in DOMAIN map : l <= h => l <= k) <=> \A l \in later : h < l
    <3> k \in Nat /\ \A l \in DOMAIN map : l \in Nat
      OBVIOUS
    <3> QED OBVIOUS
  <2>5. (\A e \in EntryAt(map, k).end : h <= e) <=> \A l \in later : h < l
    <3>1. CASE later = {}
      BY <2>1, <3>1
    <3>2. CASE later # {}
      <4> DEFINE m == Heights!Min(later)
      <4>1. m \in later /\ m \in Nat /\ \A l \in later : l \in Nat /\ m <= l
        BY <2>2, <2>3, <3>2
      <4>2. EntryAt(map, k).end = {m - 1}
        BY <2>1, <3>2
      <4> HIDE DEF m, later
      <4> QED BY <4>1, <4>2
    <3> QED BY <3>1, <3>2
  <2> HIDE DEF later
  <2> QED BY <2>1, <2>4, <2>5
<1>2. CASE Heights!GetDetails(map, h) = {} /\ \A k \in DOMAIN map : h < k
  <2>1. \A k \in DOMAIN map : ~last(k)
    BY <1>2
  <2> HIDE DEF last
  <2> QED BY <1>1, <1>2, <2>1
<1>3. ASSUME NEW k \in DOMAIN map, last(k), Heights!GetDetails(map, h) = {EntryAt(map, k)}
      PROVE  {r \in {EntryAt(map, l) : l \in DOMAIN map} : r.start <= h /\ \A e \in r.end : h <= e}
             = Heights!GetDetails(map, h)
  <2>1. \A l \in DOMAIN map : last(l) <=> l = k
    BY <1>3
  <2> HIDE DEF last
  <2> QED BY <1>1, <1>3, <2>1
<1> QED BY <1>2, <1>3, LastReached

(* A range of heights keeps the entry of its first one.                    *)
LEMMA WithinReadsAlike ==
    ASSUME NEW map, DOMAIN map \in SUBSET Nat, NEW first \in Nat, NEW last \in Nat,
           NEW h \in first..last, \E k \in DOMAIN map : k >= first
    PROVE  Heights!Get(Heights!GetWithinRange(map, first, last), h) = Heights!Get(map, h)
<1> DEFINE before(key) == key < first /\ \E n \in DOMAIN map :
                              n >= first /\ \A k \in DOMAIN map : ~(key < k /\ k < n)
           kept == {key \in DOMAIN map : key \in first..last \/ before(key)}
           within == Heights!GetWithinRange(map, first, last)
<1>1. within = [k \in kept |-> map[k]]
  BY DEF Heights!GetWithinRange
<1>2. DOMAIN within = kept /\ kept \in SUBSET DOMAIN map /\ kept \in SUBSET Nat /\ h \in Nat
  BY <1>1
<1> SUFFICES Heights!Get(within, h) = Heights!Get(map, h)
  OBVIOUS
<1> HIDE DEF within
<1>3. CASE \A k \in DOMAIN map : h < k
  <2>1. Heights!Get(map, h) = {}
    BY <1>2, <1>3, LastReached
  <2>2. \A k \in DOMAIN within : h < k
    BY <1>2, <1>3
  <2> HIDE DEF kept
  <2>3. Heights!Get(within, h) = {}
    BY <1>2, <2>2, LastReached
  <2> QED BY <2>1, <2>3
<1>4. ASSUME NEW k \in DOMAIN map, k <= h, \A l \in DOMAIN map : l <= h => l <= k,
             Heights!Get(map, h) = {map[k]}
      PROVE  Heights!Get(within, h) = {map[k]}
  <2> k \in Nat /\ \A l \in DOMAIN map : l \in Nat
    OBVIOUS
  <2>1. k \in kept
    <3>1. CASE k >= first
      BY <1>4, <3>1
    <3>2. CASE k < first
      <4> DEFINE later == {l \in DOMAIN map : l > k}
      <4>1. later \in SUBSET Nat /\ later # {}
        BY <3>2
      <4>2. PICK n \in later : \A l \in later : n <= l
        <5> HIDE DEF later
        <5> QED BY <4>1, LeastNatural
      <4>3. n \in DOMAIN map /\ n > h
        BY <1>4
      <4>4. n >= first
        BY <4>3
      <4>5. \A l \in DOMAIN map : ~(k < l /\ l < n)
        BY <4>2
      <4> QED BY <3>2, <4>3, <4>4, <4>5
    <3> QED BY <3>1, <3>2
  <2>2. within[k] = map[k]
    BY <1>1, <2>1
  <2>3. k \in DOMAIN within /\ \A l \in DOMAIN within : l \in DOMAIN map
    BY <1>2, <2>1
  <2>4. \A l \in DOMAIN within : l <= h /\ (\A j \in DOMAIN within : j <= h => j <= l) => l = k
    BY <1>4, <2>3
  <2> HIDE DEF kept
  <2> QED BY <1>2, <1>4, <2>2, <2>3, <2>4, LastReached
<1>5. \/ Heights!Get(map, h) = {} /\ \A k \in DOMAIN map : h < k
      \/ \E k \in DOMAIN map : /\ k <= h /\ \A l \in DOMAIN map : l <= h => l <= k
                               /\ Heights!Get(map, h) = {map[k]}
  BY <1>2, LastReached
<1> QED
  <2> HIDE DEF kept
  <2> QED BY <1>3, <1>4, <1>5

(* The sources active at a height, and where they change.                  *)
ActiveAt(h) ==
    {i \in DOMAIN project.manifest.data_sources : ActiveSource(project.manifest.data_sources[i], h)}

LEMMA SourcesChange ==
    ASSUME project \in Projects
    PROVE  LET sources == project.manifest.data_sources
               D == DOMAIN SourcesByHeight
           IN  /\ D \in SUBSET Nat /\ IsFiniteSet(D)
               /\ \A k \in D : SourcesByHeight[k] = ActiveAt(k)
               /\ \A i \in DOMAIN sources :
                     /\ EffectiveStart(project.manifest, sources[i]) \in D
                     /\ \A e \in sources[i].end_block : e \in Nat /\ e + 1 \in D
<1> DEFINE sources == project.manifest.data_sources
           I == DOMAIN sources
           start(i) == EffectiveStart(project.manifest, sources[i])
           starts == {start(i) : i \in I}
           ends == UNION {{e + 1 : e \in sources[i].end_block} : i \in I}
           D == DOMAIN SourcesByHeight
<1>1. D = starts \union ends /\ \A k \in D : SourcesByHeight[k] = ActiveAt(k)
  BY DEF SourcesByHeight, ActiveAt
<1>2. project.manifest.start_block \subseteq Nat /\ IsList(sources)
  BY ManifestTyped
<1>3. ASSUME NEW i \in I
      PROVE  start(i) \in Nat /\ sources[i].end_block \subseteq Nat /\ AtMostOne(sources[i].end_block)
  <2>1. sources[i] \in Range(sources)
    BY DEF Range
  <2>2. /\ sources[i].start_block \subseteq Nat
        /\ sources[i].end_block \subseteq Nat /\ AtMostOne(sources[i].end_block)
    BY <2>1, ManifestTyped
  <2> HIDE DEF sources
  <2> QED BY <1>2, <2>2 DEF EffectiveStart, OrElse
<1>4. I = 1..Len(sources) /\ Len(sources) \in Nat
  BY <1>2, ListProperties
<1> HIDE DEF start, sources, D
<1>5. IsFiniteSet(I)
  <2>1. IsFiniteSet(1..Len(sources))
    BY <1>4, FS_Interval
  <2> QED BY <2>1, <1>4
<1> HIDE DEF I
<1>6. IsFiniteSet(starts)
  <2> DEFINE f == [i \in I |-> start(i)]
  <2>1. f \in Surjection(I, starts)
    BY DEF Surjection
  <2> HIDE DEF f, starts
  <2> QED BY <2>1, <1>5, FS_Surjection
<1>7. IsFiniteSet(ends)
  <2> DEFINE f == [i \in I |-> (CHOOSE e \in sources[i].end_block : TRUE) + 1]
             all == {f[i] : i \in I}
  <2>1. f \in Surjection(I, all)
    BY DEF Surjection
  <2>2. ASSUME NEW x \in ends PROVE x \in all
    <3>1. PICK i \in I : \E e \in sources[i].end_block : x = e + 1
      OBVIOUS
    <3>2. PICK e \in sources[i].end_block : x = e + 1
      BY <3>1
    <3>3. e = CHOOSE d \in sources[i].end_block : TRUE
      BY <1>3, <3>2 DEF AtMostOne
    <3>4. f[i] = x
      BY <3>2, <3>3
    <3> HIDE DEF f
    <3> QED BY <3>4
  <2>3. ends \in SUBSET all
    BY <2>2
  <2> HIDE DEF f, all, ends
  <2>4. IsFiniteSet(all)
    BY <2>1, <1>5, FS_Surjection
  <2> QED BY <2>3, <2>4, FS_Subset
<1>8. IsFiniteSet(starts \union ends)
  <2> HIDE DEF starts, ends
  <2> QED BY <1>6, <1>7, FS_Union
<1>9. \A i \in I : start(i) \in D /\ \A e \in sources[i].end_block : e \in Nat /\ e + 1 \in D
  BY <1>1, <1>3
<1>10. starts \subseteq Nat /\ ends \subseteq Nat
  BY <1>3
<1> HIDE DEF starts, ends
<1>11. D \in SUBSET Nat /\ IsFiniteSet(D)
  BY <1>1, <1>8, <1>10
<1> QED BY <1>1, <1>9, <1>11 DEF start, sources, D, I

LEMMA ActiveFound ==
    ASSUME project \in Projects, NEW h \in Nat
    PROVE  UNION Heights!Get(SourcesByHeight, h) = ActiveAt(h)
<1> DEFINE map == SourcesByHeight
           sources == project.manifest.data_sources
           start(i) == EffectiveStart(project.manifest, sources[i])
<1>1. DOMAIN map \in SUBSET Nat /\ \A k \in DOMAIN map : map[k] = ActiveAt(k)
  BY SourcesChange
<1>2. \A i \in DOMAIN sources :
         start(i) \in DOMAIN map /\ \A e \in sources[i].end_block : e \in Nat /\ e + 1 \in DOMAIN map
  BY SourcesChange
<1>3. ASSUME NEW k \in Nat
      PROVE  ActiveAt(k) = {i \in DOMAIN sources : start(i) <= k /\ (sources[i].end_block # {} =>
                                                      \E e \in sources[i].end_block : k <= e)}
  BY DEF ActiveAt, ActiveSource
<1> HIDE DEF map, sources, start
<1>4. CASE Heights!Get(map, h) = {} /\ \A k \in DOMAIN map : h < k
  <2>1. \A i \in DOMAIN sources : ~(start(i) <= h)
    BY <1>1, <1>2, <1>4
  <2>2. ActiveAt(h) = {}
    BY <1>3, <2>1
  <2> QED BY <1>4, <2>2 DEF map
<1>5. ASSUME NEW k \in DOMAIN map, k <= h, \A l \in DOMAIN map : l <= h => l <= k,
             Heights!Get(map, h) = {map[k]}
      PROVE  UNION Heights!Get(map, h) = ActiveAt(h)
  <2>1. k \in Nat /\ map[k] = ActiveAt(k)
    BY <1>1
  <2>2. ASSUME NEW i \in DOMAIN sources PROVE start(i) <= k <=> start(i) <= h
    <3>1. start(i) \in Nat /\ start(i) \in DOMAIN map
      BY <1>1, <1>2
    <3> QED BY <3>1, <2>1, <1>5
  <2>3. ASSUME NEW i \in DOMAIN sources, NEW e \in sources[i].end_block PROVE k <= e <=> h <= e
    <3>1. e \in Nat /\ e + 1 \in DOMAIN map
      BY <1>2
    <3> QED BY <3>1, <2>1, <1>5
  <2>4. ActiveAt(k) = ActiveAt(h)
    BY <1>3, <2>1, <2>2, <2>3
  <2> QED BY <1>5, <2>1, <2>4
<1>6. \/ Heights!Get(map, h) = {} /\ \A k \in DOMAIN map : h < k
      \/ \E k \in DOMAIN map : /\ k <= h /\ \A l \in DOMAIN map : l <= h => l <= k
                               /\ Heights!Get(map, h) = {map[k]}
  BY <1>1, LastReached
<1>7. UNION Heights!Get(map, h) = ActiveAt(h)
  BY <1>4, <1>5, <1>6 DEF map
<1> QED BY <1>7 DEF map

(* For any data sources, with or without a start or an end, the map by     *)
(* height finds the active ones of every height, lists the entry a lookup  *)
(* finds, and loses none of a range when only that range is kept.          *)
THEOREM IndexingActiveSourcesFound == IndexingSpec => []ActiveSourcesFound
<1>1. ASSUME project \in Projects,
             NEW first \in 0..Len(Blocks) + 1, NEW last \in 0..Len(Blocks) + 1, NEW h \in first..last
      PROVE  LET map    == SourcesByHeight
                 within == Heights!GetWithinRange(map, first, last)
             IN  /\ UNION Heights!Get(map, h) = ActiveAt(h)
                 /\ {r \in Range(Heights!GetAllWithRange(map)) :
                       r.start <= h /\ \A e \in r.end : h <= e} = Heights!GetDetails(map, h)
                 /\ (\E k \in DOMAIN map : k >= first) => UNION Heights!Get(within, h) = ActiveAt(h)
  <2>1. Len(Blocks) \in Nat
    BY BlocksAssumption, ListProperties
  <2>2. first \in Nat /\ last \in Nat /\ h \in Nat
    BY <2>1
  <2>3. DOMAIN SourcesByHeight \in SUBSET Nat /\ IsFiniteSet(DOMAIN SourcesByHeight)
    BY <1>1, SourcesChange
  <2>4. UNION Heights!Get(SourcesByHeight, h) = ActiveAt(h)
    BY <1>1, <2>2, ActiveFound
  <2>5. {r \in Range(Heights!GetAllWithRange(SourcesByHeight)) :
           r.start <= h /\ \A e \in r.end : h <= e} = Heights!GetDetails(SourcesByHeight, h)
    BY <2>2, <2>3, EntriesListed, EntryOfHeight
  <2>6. ASSUME \E k \in DOMAIN SourcesByHeight : k >= first
        PROVE  UNION Heights!Get(Heights!GetWithinRange(SourcesByHeight, first, last), h) = ActiveAt(h)
    BY <2>2, <2>3, <2>4, <2>6, WithinReadsAlike
  <2> QED BY <2>4, <2>5, <2>6
<1>2. IndexesAccepted => ActiveSourcesFound
  BY <1>1 DEF IndexesAccepted, ActiveSourcesFound, ActiveAt
<1> QED
  BY ProjectStaysAccepted, <1>2, PTL

-----------------------------------------------------------------------------
(* Lists of lists, part by part; and one block after the other.            *)

(* One more part is appended to the concatenation.                         *)
LEMMA FlattenAppend ==
    ASSUME NEW S, NEW ss \in Seq(Seq(S)), NEW s \in Seq(S)
    PROVE  FlattenSeq(Append(ss, s)) = FlattenSeq(ss) \o s
<1> DEFINE tt == Append(ss, s)
           len == Len(ss)
<1>1. /\ tt \in Seq(Seq(S)) /\ tt # <<>> /\ Len(tt) = len + 1 /\ len \in Nat
      /\ tt[len + 1] = s /\ \A i \in 1..len : tt[i] = ss[i]
  <2>1. s \in Seq(S) /\ ss \in Seq(Seq(S))
    OBVIOUS
  <2>2. /\ tt \in Seq(Seq(S)) /\ Len(tt) = len + 1
        /\ \A i \in 1..Len(ss) + 1 : tt[i] = IF i <= Len(ss) THEN ss[i] ELSE s
    BY <2>1, AppendProperties
  <2>3. len \in Nat /\ ~(len + 1 <= len) /\ len + 1 \in 1..len + 1
    BY LenProperties
  <2>4. tt # <<>>
    BY <2>2, <2>3, EmptySeq
  <2> HIDE DEF tt
  <2> QED BY <2>2, <2>3, <2>4
<1>2. PICK g :
            /\ g[1] = tt[1]
            /\ \A i \in 2..Len(tt) : g[i] = g[i - 1] \o tt[i]
            /\ FlattenSeq(tt) = g[Len(tt)]
  <2> HIDE DEF tt, len
  <2> QED BY <1>1, FlattenUnfold
<1>3. CASE len = 0
  <2>1. ss = <<>> /\ FlattenSeq(ss) = <<>>
    BY <1>3, EmptySeq DEF FlattenSeq
  <2>2. FlattenSeq(tt) = s
    BY <1>1, <1>2, <1>3
  <2> QED BY <2>1, <2>2
<1>4. CASE len # 0
  <2>1. PICK f \in [1..len -> Seq(S)] :
            /\ f[1] = ss[1]
            /\ \A i \in 2..len : f[i] = f[i - 1] \o ss[i]
            /\ FlattenSeq(ss) = f[len]
    <3>1. ss # <<>>
      BY <1>4
    <3> QED BY <3>1, FlattenUnfold
  <2> DEFINE Off == {i \in 1..len : g[i] # f[i]}
  <2> HIDE DEF tt, len
  <2>2. Off = {}
    <3> SUFFICES ASSUME Off # {} PROVE FALSE
      OBVIOUS
    <3>1. Off \in SUBSET Nat
      BY <1>1
    <3>2. PICK i \in Off : \A j \in Off : i <= j
      BY <3>1, LeastNatural
    <3>3. i # 1 /\ i \in 2..len /\ i - 1 \in 1..len
      <4>1. g[1] = f[1]
        BY <1>1, <1>2, <1>4, <2>1
      <4> QED BY <1>1, <3>2, <4>1
    <3>4. g[i - 1] = f[i - 1]
      <4>1. ~(i <= i - 1)
        BY <1>1, <3>3
      <4>2. i - 1 \notin Off
        BY <3>2, <4>1
      <4> QED BY <3>3, <4>2
    <3>5. i \in 2..Len(tt) /\ i \in 1..len
      BY <1>1, <3>3
    <3>6. g[i] = g[i - 1] \o tt[i] /\ f[i] = f[i - 1] \o ss[i] /\ tt[i] = ss[i]
      BY <1>1, <1>2, <2>1, <3>3, <3>5
    <3> QED BY <3>2, <3>4, <3>6
  <2>3. len \in 1..len /\ len + 1 \in 2..Len(tt) /\ len + 1 - 1 = len
    BY <1>1, <1>4
  <2>4. g[len] = f[len]
    BY <2>2, <2>3
  <2>5. g[len + 1] = g[len] \o s
    <3> DEFINE i == len + 1
    <3>1. i \in 2..Len(tt) /\ i - 1 = len /\ tt[i] = s
      BY <1>1, <2>3
    <3> HIDE DEF i
    <3>2. g[i] = g[i - 1] \o tt[i]
      BY <1>2, <3>1
    <3> QED BY <3>1, <3>2 DEF i
  <2> QED BY <1>1, <1>2, <2>1, <2>4, <2>5 DEF tt
<1> QED BY <1>3, <1>4

(* The recursive function behind Replay exists.                            *)
LEMMA ReplayUnfold ==
    ASSUME NEW s, Len(s) \in Nat
    PROVE  \E f : /\ f[0] = {}
                  /\ \A n \in 1..Len(s) : f[n] = Changed(f[n - 1], s[n])
                  /\ Replay(s) = f[Len(s)]
<1> DEFINE e(f, i) == IF i = 0 THEN {} ELSE Changed(f[i - 1], s[i])
           Unfolds(f, n) == f = [i \in 0..n |-> e(f, i)]
           Bad == {n \in Nat : ~ \E f : Unfolds(f, n)}
           len == Len(s)
<1>1. Bad = {}
  <2> SUFFICES ASSUME Bad # {} PROVE FALSE
    OBVIOUS
  <2>1. PICK n \in Bad : \A m \in Bad : n <= m
    BY LeastNatural
  <2>2. n # 0
    <3>1. Unfolds([i \in 0..0 |-> {}], 0)
      OBVIOUS
    <3> QED BY <3>1
  <2>3. n - 1 \in Nat /\ n - 1 \notin Bad
    <3>1. n \in Nat /\ n - 1 \in Nat /\ ~(n <= n - 1)
      BY <2>1, <2>2
    <3> HIDE DEF Unfolds
    <3> QED BY <2>1, <3>1
  <2>4. PICK f : Unfolds(f, n - 1)
    BY <2>3
  <2> DEFINE g == [i \in 0..n |-> IF i = n THEN e(f, n) ELSE f[i]]
  <2>5. \A i \in 0..(n - 1) : f[i] = e(f, i)
    BY <2>4
  <2> HIDE DEF e
  <2>6. \A i \in 0..n : i # 0 => g[i - 1] = f[i - 1]
    BY <2>3
  <2>7. \A i \in 0..n : e(g, i) = e(f, i)
    BY <2>6 DEF e
  <2>8. \A i \in 0..n : g[i] = e(f, i)
    BY <2>3, <2>5
  <2>9. g = [i \in 0..n |-> e(g, i)]
    BY <2>7, <2>8
  <2> QED BY <2>1, <2>9
<1>2. PICK f : Unfolds(f, len)
  BY <1>1
<1> DEFINE g == CHOOSE h : Unfolds(h, len)
<1>3. Unfolds(g, len)
  <2> HIDE DEF e
  <2> QED BY <1>2
<1>4. Replay(s) = g[len]
  BY DEF Replay
<1> HIDE DEF g
<1>5. \A i \in 0..len : g[i] = e(g, i)
  <2> HIDE DEF e
  <2> QED BY <1>3
<1>6. g[0] = {} /\ \A n \in 1..len : g[n] = Changed(g[n - 1], s[n])
  <2>1. 0 \in 0..len /\ \A n \in 1..len : n \in 0..len /\ n # 0
    OBVIOUS
  <2>2. e(g, 0) = {} /\ \A n \in 1..len : e(g, n) = Changed(g[n - 1], s[n])
    BY <2>1
  <2> HIDE DEF e
  <2> QED BY <1>5, <2>1, <2>2
<1> QED BY <1>4, <1>6

LEMMA ReplayStarts == Replay(<<>>) = {}
<1>1. Len(<<>>) = 0
  OBVIOUS
<1>2. PICK f : f[0] = {} /\ Replay(<<>>) = f[Len(<<>>)]
  BY <1>1, ReplayUnfold
<1> QED BY <1>1, <1>2

LEMMA ReplayAppend ==
    ASSUME NEW S, NEW s \in Seq(S), NEW m
    PROVE  Replay(Append(s, m)) = Changed(Replay(s), m)
<1> DEFINE t == Append(s, m)
           len == Len(s)
<1>1. len \in Nat /\ Len(t) = len + 1 /\ t[len + 1] = m /\ \A i \in 1..len : t[i] = s[i]
  <2>1. s \in Seq(S \union {m})
    BY SeqDef, LenProperties
  <2> QED BY <2>1, AppendProperties
<1>2. PICK f : /\ f[0] = {} /\ \A n \in 1..len : f[n] = Changed(f[n - 1], s[n])
               /\ Replay(s) = f[len]
  BY <1>1, ReplayUnfold
<1>3. PICK g : /\ g[0] = {} /\ \A n \in 1..Len(t) : g[n] = Changed(g[n - 1], t[n])
               /\ Replay(t) = g[Len(t)]
  <2> HIDE DEF t, len
  <2>1. Len(t) \in Nat
    BY <1>1
  <2> QED BY <2>1, ReplayUnfold
<1> HIDE DEF t, len
<1> DEFINE Off == {i \in 0..len : g[i] # f[i]}
<1>4. Off = {}
  <2> SUFFICES ASSUME Off # {} PROVE FALSE
    OBVIOUS
  <2>1. Off \in SUBSET Nat
    BY <1>1
  <2>2. PICK i \in Off : \A j \in Off : i <= j
    BY <2>1, LeastNatural
  <2>3. i # 0
    BY <1>2, <1>3, <2>2
  <2>4. i \in 1..len /\ i \in 1..Len(t) /\ i - 1 \in 0..len /\ ~(i <= i - 1)
    BY <1>1, <2>2, <2>3
  <2>5. g[i - 1] = f[i - 1]
    BY <2>2, <2>4
  <2>6. f[i] = Changed(f[i - 1], s[i]) /\ g[i] = Changed(g[i - 1], s[i])
    BY <1>1, <1>2, <1>3, <2>4
  <2> QED BY <2>2, <2>5, <2>6
<1>5. g[len] = f[len]
  <2>1. len \in 0..len
    BY <1>1
  <2> QED BY <1>4, <2>1
<1>6. g[len + 1] = Changed(g[len], m)
  <2>1. len + 1 \in 1..Len(t) /\ len + 1 - 1 = len
    BY <1>1
  <2> QED BY <1>1, <1>3, <2>1
<1> QED BY <1>1, <1>2, <1>3, <1>5, <1>6 DEF t

EntityNames == {Models[i].name : i \in DOMAIN Models}

IsContext(c) == c = [block |-> c.block, operations |-> c.operations, known_entities |-> EntityNames]

LEMMA Buffers ==
    ASSUME NEW b, NEW ops, NEW known, NEW op
    PROVE  Buffered([block |-> b, operations |-> ops, known_entities |-> known], op)
           = [block |-> b, operations |-> Append(ops, op), known_entities |-> known]
BY DEF Buffered

LEMMA CallAdds ==
    ASSUME NEW c, IsContext(c), IsList(c.operations), NEW call,
           call.function \in {"sq_store_set", "sq_store_remove", "sq_log"}
    PROVE  HostCall(c, call) = [block |-> c.block, operations |-> c.operations \o Adds(call),
                                known_entities |-> EntityNames]
<1> DEFINE known == \E i \in DOMAIN Models : Models[i].name = call.entity
           wellFormed == /\ call.data.is_object
                         /\ IdName \in DOMAIN call.data.members
                         /\ call.data.members[IdName] = {[json |-> "string", text |-> call.id]}
           grown(op) == [block |-> c.block, operations |-> c.operations \o <<op>>, known_entities |-> EntityNames]
<1>1. c.operations \o <<>> = c.operations /\ \A op : Append(c.operations, op) = c.operations \o <<op>>
  <2>1. c.operations \in Seq(Range(c.operations))
    BY DEF IsList
  <2> QED BY <2>1, AppendIsConcat
<1>2. ASSUME NEW op PROVE Buffered(c, op) = grown(op)
  <2>1. c = [block |-> c.block, operations |-> c.operations, known_entities |-> EntityNames]
    BY DEF IsContext
  <2>2. Buffered([block |-> c.block, operations |-> c.operations, known_entities |-> EntityNames], op)
        = [block |-> c.block, operations |-> Append(c.operations, op), known_entities |-> EntityNames]
    BY Buffers
  <2> QED BY <1>1, <2>1, <2>2
<1>3. KnowsEntity(c, call.entity) <=> known
  BY DEF KnowsEntity, IsContext, EntityNames
<1>4. CASE call.function = "sq_store_set"
  <2>1. Effective(call) <=> known /\ wellFormed
    BY <1>4 DEF Effective
  <2>2. IsError(SetStatus(c, call.entity, call.id, call.data)) <=> ~(known /\ wellFormed)
    <3> HIDE DEF known
    <3> QED BY <1>3 DEF SetStatus, IsError, Status
  <2>3. HostCall(c, call) = StoreSet(c, call.entity, call.id, call.data)
    BY <1>4 DEF HostCall
  <2>4. OperationOf(call) = [operation |-> "Set", entity_type |-> call.entity, data |-> call.data.members]
    BY <1>4 DEF OperationOf
  <2> HIDE DEF known, wellFormed
  <2>5. CASE known /\ wellFormed
    BY <1>2, <2>1, <2>2, <2>3, <2>4, <2>5 DEF StoreSet, Adds
  <2>6. CASE ~(known /\ wellFormed)
    <3>1. HostCall(c, call) = c /\ Adds(call) = <<>>
      BY <2>1, <2>2, <2>3, <2>6 DEF StoreSet, Adds
    <3> QED BY <1>1, <3>1 DEF IsContext
  <2> QED BY <2>5, <2>6
<1>5. CASE call.function = "sq_store_remove"
  <2>1. Effective(call) <=> known
    BY <1>5 DEF Effective
  <2>2. IsError(RemoveStatus(c, call.entity)) <=> ~known
    <3> HIDE DEF known
    <3> QED BY <1>3 DEF RemoveStatus, IsError, Status
  <2>3. HostCall(c, call) = StoreRemove(c, call.entity, call.id)
    BY <1>5 DEF HostCall
  <2>4. OperationOf(call) = [operation |-> "Remove", entity_type |-> call.entity, data |-> call.id]
    BY <1>5 DEF OperationOf
  <2> HIDE DEF known
  <2>5. CASE known
    BY <1>2, <2>1, <2>2, <2>3, <2>4, <2>5 DEF StoreRemove, Adds
  <2>6. CASE ~known
    <3>1. HostCall(c, call) = c /\ Adds(call) = <<>>
      BY <2>1, <2>2, <2>3, <2>6 DEF StoreRemove, Adds
    <3> QED BY <1>1, <3>1 DEF IsContext
  <2> QED BY <2>5, <2>6
<1>6. CASE call.function = "sq_log"
  <2>1. HostCall(c, call) = c /\ Adds(call) = <<>>
    BY <1>6 DEF HostCall, Adds, Effective
  <2> QED BY <1>1, <2>1 DEF IsContext
<1> QED BY <1>4, <1>5, <1>6

(* The recursive function behind HostCalls exists.                          *)
LEMMA HostCallsUnfold ==
    ASSUME NEW c, NEW s, Len(s) \in Nat
    PROVE  \E f : /\ f[0] = c
                  /\ \A n \in 1..Len(s) : f[n] = HostCall(f[n - 1], s[n])
                  /\ HostCalls(c, s) = f[Len(s)]
<1> DEFINE e(f, i) == IF i = 0 THEN c ELSE HostCall(f[i - 1], s[i])
           Unfolds(f, n) == f = [i \in 0..n |-> e(f, i)]
           Bad == {n \in Nat : ~ \E f : Unfolds(f, n)}
           len == Len(s)
<1>1. Bad = {}
  <2> SUFFICES ASSUME Bad # {} PROVE FALSE
    OBVIOUS
  <2>1. PICK n \in Bad : \A m \in Bad : n <= m
    BY LeastNatural
  <2>2. n # 0
    <3>1. Unfolds([i \in 0..0 |-> c], 0)
      OBVIOUS
    <3> QED BY <3>1
  <2>3. n - 1 \in Nat /\ n - 1 \notin Bad
    <3>1. n \in Nat /\ n - 1 \in Nat /\ ~(n <= n - 1)
      BY <2>1, <2>2
    <3> HIDE DEF Unfolds
    <3> QED BY <2>1, <3>1
  <2>4. PICK f : Unfolds(f, n - 1)
    BY <2>3
  <2> DEFINE g == [i \in 0..n |-> IF i = n THEN e(f, n) ELSE f[i]]
  <2>5. \A i \in 0..(n - 1) : f[i] = e(f, i)
    BY <2>4
  <2> HIDE DEF e
  <2>6. \A i \in 0..n : i # 0 => g[i - 1] = f[i - 1]
    BY <2>3
  <2>7. \A i \in 0..n : e(g, i) = e(f, i)
    BY <2>6 DEF e
  <2>8. \A i \in 0..n : g[i] = e(f, i)
    BY <2>3, <2>5
  <2>9. g = [i \in 0..n |-> e(g, i)]
    BY <2>7, <2>8
  <2> QED BY <2>1, <2>9
<1>2. PICK f : Unfolds(f, len)
  BY <1>1
<1> DEFINE g == CHOOSE h : Unfolds(h, len)
<1>3. Unfolds(g, len)
  <2> HIDE DEF e
  <2> QED BY <1>2
<1>4. HostCalls(c, s) = g[len]
  BY DEF HostCalls
<1> HIDE DEF g
<1>5. \A i \in 0..len : g[i] = e(g, i)
  <2> HIDE DEF e
  <2> QED BY <1>3
<1>6. g[0] = c /\ \A n \in 1..len : g[n] = HostCall(g[n - 1], s[n])
  <2>1. 0 \in 0..len /\ \A n \in 1..len : n \in 0..len /\ n # 0
    OBVIOUS
  <2>2. e(g, 0) = c /\ \A n \in 1..len : e(g, n) = HostCall(g[n - 1], s[n])
    BY <2>1
  <2> HIDE DEF e
  <2> QED BY <1>5, <2>1, <2>2
<1> QED BY <1>4, <1>6


LEMMA Extended ==
    ASSUME NEW n \in Nat, NEW S, NEW f \in [1..n + 1 -> S]
    PROVE  f = Append([i \in 1..n |-> f[i]], f[n + 1])
<1> DEFINE g == [i \in 1..n |-> f[i]]
           e == f[n + 1]
<1>1. f \in Seq(S) /\ Len(f) = n + 1 /\ DOMAIN f = 1..n + 1
  OBVIOUS
<1>2. g \in Seq(S) /\ Len(g) = n /\ \A i \in 1..n : g[i] = f[i]
  OBVIOUS
<1>3. e \in S
  OBVIOUS
<1> HIDE DEF g
<1>4. /\ Append(g, e) \in Seq(S) /\ Len(Append(g, e)) = n + 1
      /\ \A i \in 1..n + 1 : Append(g, e)[i] = IF i <= n THEN g[i] ELSE e
  BY <1>2, <1>3, AppendProperties
<1>5. \A i \in 1..n + 1 : Append(g, e)[i] = f[i]
  <2> SUFFICES ASSUME NEW i \in 1..n + 1 PROVE Append(g, e)[i] = f[i]
    OBVIOUS
  <2>1. i \in 1..n \/ (i = n + 1 /\ ~(i <= n))
    OBVIOUS
  <2>2. Append(g, e)[i] = IF i <= n THEN g[i] ELSE e
    BY <1>4
  <2> QED BY <1>2, <2>1, <2>2
<1> HIDE DEF e
<1> QED BY <1>1, <1>4, <1>5, SeqEqual DEF g, e

AreCalls(calls) ==
    /\ IsList(calls)
    /\ \A call \in Range(calls) : call.function \in {"sq_store_set", "sq_store_remove", "sq_log"}

LEMMA PartsOfCalls ==
    ASSUME NEW calls, IsList(calls), NEW n \in 0..Len(calls)
    PROVE  LET S     == {OperationOf(call) : call \in Range(calls)}
               parts == [j \in 1..n |-> Adds(calls[j])]
           IN  /\ parts \in Seq(Seq(S)) /\ Len(parts) = n
               /\ \A j \in 1..n : parts[j] = Adds(calls[j])
<1> DEFINE S == {OperationOf(call) : call \in Range(calls)}
           parts == [j \in 1..n |-> Adds(calls[j])]
<1>1. Len(calls) \in Nat /\ \A j \in 1..Len(calls) : calls[j] \in Range(calls)
  BY ListProperties
<1>2. \A j \in 1..n : Adds(calls[j]) \in Seq(S)
  <2> SUFFICES ASSUME NEW j \in 1..n PROVE Adds(calls[j]) \in Seq(S)
    OBVIOUS
  <2>1. OperationOf(calls[j]) \in S
    BY <1>1
  <2> HIDE DEF S
  <2> QED BY <2>1 DEF Adds
<1> HIDE DEF S
<1>3. parts \in [1..n -> Seq(S)] /\ n \in Nat
  BY <1>1, <1>2
<1>4. parts \in Seq(Seq(S)) /\ Len(parts) = n
  BY <1>3, Tabulated
<1> QED BY <1>4 DEF S

(* Any sequence is a list.                                                 *)
LEMMA SeqIsList ==
    ASSUME NEW S, NEW s \in Seq(S)
    PROVE  IsList(s)
<1>1. s \in [1..Len(s) -> S] /\ Len(s) \in Nat
  BY LenProperties
<1>2. s \in [1..Len(s) -> Range(s)]
  BY <1>1 DEF Range
<1> QED BY <1>1, <1>2, Tabulated DEF IsList

(* The context c, with more operations after its own.                      *)
Holding(c, more) ==
    [block |-> c.block, operations |-> c.operations \o more, known_entities |-> EntityNames]

LEMMA CallAddsTo ==
    ASSUME NEW c, IsContext(c), IsList(c.operations), NEW more, IsList(more),
           NEW call, call.function \in {"sq_store_set", "sq_store_remove", "sq_log"}
    PROVE  HostCall(Holding(c, more), call) = Holding(c, more \o Adds(call))
<1> DEFINE T == (Range(c.operations) \union Range(more)) \union {OperationOf(call)}
           p == Holding(c, more)
           ops == c.operations
           new == Adds(call)
<1>1. ops \in Seq(T) /\ more \in Seq(T)
  BY SeqMonotonic DEF IsList
<1>2. new \in Seq(T)
  <2>1. OperationOf(call) \in T
    OBVIOUS
  <2> HIDE DEF T
  <2> QED BY <2>1 DEF Adds
<1>3. p.block = c.block /\ p.operations = ops \o more /\ p.known_entities = EntityNames
  BY DEF Holding
<1>4. IsContext(p)
  BY DEF Holding, IsContext
<1> HIDE DEF T, p, ops, new
<1>5. IsList(ops \o more)
  <2>1. ops \o more \in Seq(T)
    BY <1>1, ConcatProperties
  <2> QED BY <2>1, SeqIsList
<1>6. HostCall(p, call) = [block |-> p.block, operations |-> p.operations \o Adds(call),
                           known_entities |-> EntityNames]
  <2>1. IsList(p.operations)
    BY <1>3, <1>5
  <2> QED BY <1>4, <2>1, CallAdds
<1>7. (ops \o more) \o new = ops \o (more \o new)
  BY <1>1, <1>2, ConcatAssociative, SMTT(30)
<1> QED BY <1>3, <1>6, <1>7 DEF Holding, p, ops, new

LEMMA HandlerAdds ==
    ASSUME NEW c, IsContext(c), IsList(c.operations), NEW calls, AreCalls(calls)
    PROVE  HostCalls(c, calls) = [block |-> c.block, operations |-> c.operations \o AddedBy(calls),
                                  known_entities |-> EntityNames]
<1> DEFINE len == Len(calls)
           S == {OperationOf(call) : call \in Range(calls)}
           T == Range(c.operations) \union S
           parts(n) == [j \in 1..n |-> Adds(calls[j])]
           After(n) == [block |-> c.block, operations |-> c.operations \o FlattenSeq(parts(n)),
                        known_entities |-> EntityNames]
<1>1. len \in Nat /\ DOMAIN calls = 1..len /\ \A j \in 1..len : calls[j] \in Range(calls)
  BY ListProperties DEF AreCalls
<1>2. ASSUME NEW n \in 0..len
      PROVE  /\ parts(n) \in Seq(Seq(S)) /\ Len(parts(n)) = n
             /\ FlattenSeq(parts(n)) \in Seq(S)
  <2>1. parts(n) \in Seq(Seq(S)) /\ Len(parts(n)) = n
    BY PartsOfCalls DEF AreCalls
  <2> HIDE DEF parts, S
  <2> QED BY <2>1, FlattenAlike
<1>3. PICK f : /\ f[0] = c /\ \A n \in 1..len : f[n] = HostCall(f[n - 1], calls[n])
               /\ HostCalls(c, calls) = f[len]
  BY <1>1, HostCallsUnfold
<1>4. c.operations \in Seq(T) /\ \A s \in Seq(S) : s \in Seq(T)
  BY SeqMonotonic DEF IsList
<1> DEFINE Off == {n \in 0..len : f[n] # After(n)}
<1>5. Off = {}
  <2> SUFFICES ASSUME Off # {} PROVE FALSE
    OBVIOUS
  <2> HIDE DEF After, len
  <2>1. Off \in SUBSET Nat
    BY <1>1
  <2>2. PICK n \in Off : \A m \in Off : n <= m
    BY <2>1, LeastNatural
  <2>3. n # 0
    <3>1. parts(0) = <<>> /\ FlattenSeq(parts(0)) = <<>>
      <4>1. parts(0) = <<>>
        OBVIOUS
      <4> QED BY <4>1, EmptySeq DEF FlattenSeq
    <3>2. After(0) = c
      BY <1>4, <3>1, ConcatEmptySeq DEF After, IsContext
    <3> QED BY <1>3, <2>2, <3>2
  <2>4. n \in 1..len /\ n - 1 \in 0..len /\ ~(n <= n - 1) /\ n - 1 \in Nat /\ n \in 0..len
    BY <1>1, <2>2, <2>3
  <2>5. f[n - 1] = After(n - 1)
    BY <2>2, <2>4
  <2> DEFINE before == FlattenSeq(parts(n - 1))
             new == Adds(calls[n])
             p == After(n - 1)
  <2>6. before \in Seq(S) /\ new \in Seq(S)
    <3>1. before \in Seq(S)
      BY <1>2, <2>4
    <3>2. parts(n)[n] = new
      <4>1. n \in 1..n
        BY <2>4
      <4> HIDE DEF new
      <4> QED BY <4>1 DEF new
    <3>3. parts(n) \in Seq(Seq(S)) /\ n \in 1..Len(parts(n))
      <4>1. parts(n) \in Seq(Seq(S)) /\ Len(parts(n)) = n
        BY <1>2, <2>4
      <4> HIDE DEF parts, S
      <4> QED BY <2>4, <4>1
    <3> HIDE DEF parts, new, S
    <3> QED BY <3>1, <3>2, <3>3, ElementOfSeq
  <2>7. parts(n) = Append(parts(n - 1), new)
    <3> DEFINE q == parts(n)
    <3>1. q \in [1..(n - 1) + 1 -> Seq(S)]
      <4>1. q \in Seq(Seq(S)) /\ Len(q) = n
        BY <1>2, <2>4
      <4>2. (n - 1) + 1 = n
        BY <2>4
      <4> HIDE DEF q, S
      <4> QED BY <4>1, <4>2, LenProperties
    <3>2. [i \in 1..(n - 1) |-> q[i]] = parts(n - 1) /\ q[(n - 1) + 1] = new
      BY <2>4
    <3> HIDE DEF q
    <3>3. q = Append([i \in 1..(n - 1) |-> q[i]], q[(n - 1) + 1])
      BY <2>4, <3>1, Extended
    <3> QED BY <3>2, <3>3 DEF q
  <2>8. FlattenSeq(parts(n)) = before \o new
    <3>1. parts(n - 1) \in Seq(Seq(S))
      BY <1>2, <2>4
    <3> HIDE DEF parts, S, new
    <3> QED BY <2>6, <2>7, <3>1, FlattenAppend
  <2>9. IsList(before)
    <3> HIDE DEF before, S
    <3> QED BY <2>6, SeqIsList
  <2>10. calls[n].function \in {"sq_store_set", "sq_store_remove", "sq_log"}
    BY <1>1, <2>4 DEF AreCalls
  <2> DEFINE call == calls[n]
  <2>11. HostCall(Holding(c, before), call) = Holding(c, before \o Adds(call))
    <3> HIDE DEF before, call
    <3> QED BY <2>9, <2>10, CallAddsTo DEF call
  <2>16. f[n] = After(n)
    <3>1. After(n - 1) = Holding(c, before) /\ After(n) = Holding(c, before \o Adds(call))
      BY <2>8 DEF After, Holding
    <3> HIDE DEF before, call
    <3> QED BY <1>3, <2>4, <2>5, <2>11, <3>1 DEF call
  <2> QED BY <2>2, <2>16
<1>6. f[len] = After(len)
  <2>1. len \in 0..len
    BY <1>1
  <2> HIDE DEF After, len
  <2> QED BY <1>5, <2>1
<1>7. FlattenSeq(parts(len)) = AddedBy(calls)
  BY <1>1 DEF AddedBy
<1> HIDE DEF parts
<1> QED BY <1>3, <1>6, <1>7

-----------------------------------------------------------------------------
(* What a handler's calls add is what its effective calls come to.         *)
LEMMA AddedAsFiltered ==
    ASSUME NEW calls, AreCalls(calls)
    PROVE  LET effective == Filtered(calls, {c \in Range(calls) : Effective(c)})
               added     == AddedBy(calls)
           IN  /\ added \in Seq({OperationOf(call) : call \in Range(calls)})
               /\ effective \in Seq(Range(calls))
               /\ Len(added) = Len(effective)
               /\ \A n \in 1..Len(effective) : Effective(effective[n]) /\ added[n] = OperationOf(effective[n])
<1> DEFINE set == {c \in Range(calls) : Effective(c)}
           S == {OperationOf(call) : call \in Range(calls)}
           one(i) == IF calls[i] \in set THEN <<calls[i]>> ELSE <<>>
           parts == [j \in 1..Len(calls) |-> Adds(calls[j])]
           ss == [i \in 1..Len(calls) |-> one(i)]
<1>1. Len(calls) \in Nat /\ DOMAIN calls = 1..Len(calls) /\ \A j \in 1..Len(calls) : calls[j] \in Range(calls)
  BY ListProperties DEF AreCalls
<1>2. parts \in Seq(Seq(S)) /\ Len(parts) = Len(calls) /\ \A j \in 1..Len(calls) : parts[j] = Adds(calls[j])
  <2>1. Len(calls) \in 0..Len(calls)
    BY <1>1
  <2> QED BY <2>1, PartsOfCalls DEF AreCalls
<1>3. ss \in Seq(Seq(Range(calls))) /\ Len(ss) = Len(calls) /\ \A j \in 1..Len(calls) : ss[j] = one(j)
  <2>1. \A j \in 1..Len(calls) : one(j) \in Seq(Range(calls))
    BY <1>1
  <2> HIDE DEF one
  <2>2. ss \in [1..Len(calls) -> Seq(Range(calls))]
    BY <2>1
  <2> QED BY <1>1, <2>2, Tabulated
<1>4. AddedBy(calls) = FlattenSeq(parts) /\ Filtered(calls, set) = FlattenSeq(ss)
  BY <1>1 DEF AddedBy, Filtered
<1>5. \A j \in 1..Len(calls) :
          /\ Len(Adds(calls[j])) = Len(one(j))
          /\ \A i \in 1..Len(one(j)) : Effective(one(j)[i]) /\ Adds(calls[j])[i] = OperationOf(one(j)[i])
  <2> SUFFICES ASSUME NEW j \in 1..Len(calls)
               PROVE  /\ Len(Adds(calls[j])) = Len(one(j))
                      /\ \A i \in 1..Len(one(j)) : Effective(one(j)[i]) /\ Adds(calls[j])[i] = OperationOf(one(j)[i])
    OBVIOUS
  <2>1. CASE Effective(calls[j])
    <3>1. one(j) = <<calls[j]>> /\ Adds(calls[j]) = <<OperationOf(calls[j])>>
      BY <1>1, <2>1 DEF Adds
    <3> HIDE DEF one
    <3> QED BY <2>1, <3>1
  <2>2. CASE ~Effective(calls[j])
    <3>1. one(j) = <<>> /\ Adds(calls[j]) = <<>>
      BY <2>2 DEF Adds
    <3> HIDE DEF one
    <3> QED BY <3>1
  <2> QED BY <2>1, <2>2
<1> DEFINE added == FlattenSeq(parts)
           effective == FlattenSeq(ss)
<1> HIDE DEF one, parts, ss, S
<1>6. /\ added \in Seq(S) /\ effective \in Seq(Range(calls))
      /\ Len(effective) = Len(added)
      /\ \A n \in 1..Len(effective) : SamePlace(ss, parts, n)
  <2>1. Len(ss) = Len(parts) /\ \A j \in 1..Len(ss) : Len(ss[j]) = Len(parts[j])
    BY <1>2, <1>3, <1>5
  <2> QED BY <1>2, <1>3, <2>1, FlattenAlike
<1>7. ASSUME NEW n \in 1..Len(effective)
      PROVE  Effective(effective[n]) /\ added[n] = OperationOf(effective[n])
  <2>1. PICK i \in 1..Len(ss) : \E j \in 1..Len(ss[i]) : effective[n] = ss[i][j] /\ added[n] = parts[i][j]
    BY <1>6 DEF SamePlace
  <2> QED BY <1>2, <1>3, <1>5, <2>1
<1> HIDE DEF added, effective
<1> QED BY <1>4, <1>6, <1>7 DEF added, effective, S

(* What a handler may be run for is a list.                                *)
LEMMA InputsListed ==
    ASSUME NEW ds, NEW h, HandlerAccepted(ds, h), NEW n \in DOMAIN Blocks, NEW b \in Blocks[n]
    PROVE  IsList(InputsOf(h, b))
<1>1. h.kind \in {"evm/BlockHandler", "evm/LogHandler", "evm/TransactionHandler"}
  BY DEF HandlerAccepted
<1>2. IsList(b.logs) /\ IsList(b.transactions)
  BY BlocksAssumption
<1>3. CASE h.kind = "evm/BlockHandler"
  <2>1. <<b>> \in Seq({b})
    OBVIOUS
  <2>2. IsList(<<b>>)
    BY <2>1, SeqIsList
  <2> QED BY <1>3, <2>2 DEF InputsOf
<1>4. CASE h.kind = "evm/LogHandler"
  BY <1>2, <1>4 DEF InputsOf
<1>5. CASE h.kind = "evm/TransactionHandler"
  BY <1>2, <1>5 DEF InputsOf
<1> QED BY <1>1, <1>3, <1>4, <1>5

(* The calls made for a block are calls of the host's functions.           *)
LEMMA WantedCalls ==
    ASSUME project \in Projects, PreparesHandlers(project.manifest),
           NEW n \in DOMAIN Blocks, NEW b \in Blocks[n]
    PROVE  /\ IsList(Wanted(b))
           /\ \A k \in 1..Len(Wanted(b)) : AreCalls(Guest(Wanted(b)[k].function, Wanted(b)[k].input))
<1> DEFINE sources == project.manifest.data_sources
           handler(i, j) == sources[i].handlers[j]
           inputs(i, j) == WantedInputs(sources[i], handler(i, j), b)
           run(i, j, k) == [function |-> handler(i, j).function, input |-> inputs(i, j)[k]]
           calls(i, j) == [k \in DOMAIN inputs(i, j) |-> run(i, j, k)]
           row(i) == [j \in DOMAIN sources[i].handlers |-> calls(i, j)]
           tt == [i \in DOMAIN sources |-> row(i)]
           Run == {r \in UNION {UNION {{run(i, j, k) : k \in DOMAIN inputs(i, j)} : j \in DOMAIN sources[i].handlers}
                                  : i \in DOMAIN sources} : AreCalls(Guest(r.function, r.input))}
<1>1. /\ Len(sources) \in Nat /\ DOMAIN sources = 1..Len(sources)
      /\ \A i \in 1..Len(sources) : sources[i] \in Range(sources)
  BY ManifestTyped, ListProperties
<1>2. \A i \in 1..Len(sources) :
          /\ Len(sources[i].handlers) \in Nat /\ DOMAIN sources[i].handlers = 1..Len(sources[i].handlers)
          /\ \A j \in 1..Len(sources[i].handlers) : handler(i, j) \in Range(sources[i].handlers)
  BY <1>1, ManifestTyped, ListProperties
<1>3. ASSUME NEW i \in 1..Len(sources), NEW j \in 1..Len(sources[i].handlers)
      PROVE  calls(i, j) \in Seq(Run)
  <2> DEFINE ds == sources[i]
             h == handler(i, j)
             in == inputs(i, j)
  <2>1. ds \in Range(sources) /\ h \in Range(ds.handlers) /\ HandlerAccepted(ds, h)
    BY <1>1, <1>2 DEF PreparesHandlers
  <2>2. IsList(InputsOf(h, b))
    BY <2>1, InputsListed
  <2>3. IsList(in) /\ Range(in) \subseteq Range(InputsOf(h, b))
    <3> DEFINE all == InputsOf(h, b)
               set == {x \in Range(all) : ActiveSource(ds, b.number) /\ AskedFor(ds, h, x)}
    <3>1. in = Filtered(all, set)
      BY DEF WantedInputs
    <3> HIDE DEF all, set, in
    <3>2. IsList(Filtered(all, set)) /\ Range(Filtered(all, set)) = Range(all) \intersect set
      BY <2>2, FilteredProperties DEF all
    <3> QED BY <3>1, <3>2 DEF all
  <2>4. Len(in) \in Nat /\ DOMAIN in = 1..Len(in) /\ \A k \in 1..Len(in) : in[k] \in Range(InputsOf(h, b))
    <3> HIDE DEF in
    <3> QED BY <2>3, ListProperties
  <2>5. ASSUME NEW k \in 1..Len(in)
        PROVE  run(i, j, k) \in Run
    <3>1. AreCalls(Guest(h.function, in[k]))
      <4> DEFINE x == in[k]
      <4>1. x \in Range(InputsOf(h, b))
        BY <2>4
      <4> HIDE DEF x
      <4>2. AreCalls(Guest(h.function, x))
        BY <2>1, <4>1, GuestAssumption DEF AreCalls
      <4> QED BY <4>2 DEF x
    <3>2. run(i, j, k).function = h.function /\ run(i, j, k).input = in[k]
      OBVIOUS
    <3>3. k \in DOMAIN inputs(i, j) /\ j \in DOMAIN sources[i].handlers /\ i \in DOMAIN sources
      BY <1>1, <1>2, <2>4
    <3>4. AreCalls(Guest(run(i, j, k).function, run(i, j, k).input))
      BY <3>1, <3>2
    <3> HIDE DEF run, inputs, sources
    <3>5. run(i, j, k) \in {run(i, j, l) : l \in DOMAIN inputs(i, j)}
      BY <3>3
    <3>6. run(i, j, k) \in UNION {{run(i, m, l) : l \in DOMAIN inputs(i, m)} : m \in DOMAIN sources[i].handlers}
      BY <3>3, <3>5
    <3> QED BY <3>3, <3>4, <3>6
  <2>6. calls(i, j) \in [1..Len(in) -> Run]
    <3> HIDE DEF run, Run
    <3> QED BY <2>4, <2>5
  <2> HIDE DEF in, Run
  <2> QED BY <2>4, <2>6, Tabulated
<1>4. Wanted(b) = FlattenSeq(FlattenSeq(tt))
  BY DEF Wanted
<1>5. \A r \in Run : AreCalls(Guest(r.function, r.input))
  OBVIOUS
<1> HIDE DEF calls, Run, sources
<1>6. \A i \in 1..Len(sources) : row(i) \in Seq(Seq(Run))
  <2> SUFFICES ASSUME NEW i \in 1..Len(sources) PROVE row(i) \in Seq(Seq(Run))
    OBVIOUS
  <2>1. row(i) \in [1..Len(sources[i].handlers) -> Seq(Run)]
    BY <1>1, <1>2, <1>3
  <2> QED BY <1>2, <2>1, Tabulated
<1> HIDE DEF row
<1>7. tt \in Seq(Seq(Seq(Run)))
  <2>1. tt \in [1..Len(sources) -> Seq(Seq(Run))]
    BY <1>1, <1>6
  <2> QED BY <1>1, <2>1, Tabulated
<1> HIDE DEF tt
<1>8. FlattenSeq(tt) \in Seq(Seq(Run))
  BY <1>7, FlattenAlike
<1>9. Wanted(b) \in Seq(Run)
  BY <1>4, <1>8, FlattenAlike
<1>10. IsList(Wanted(b))
  BY <1>9, SeqIsList
<1>11. \A k \in 1..Len(Wanted(b)) : Wanted(b)[k] \in Run
  BY <1>9, ElementOfSeq
<1> QED BY <1>5, <1>10, <1>11

(* The parts of a list up to the k-th, concatenated.                       *)
UpTo(ss, k) == [i \in 1..k |-> ss[i]]

LEMMA FlattenUpTo ==
    ASSUME NEW S, NEW ss \in Seq(Seq(S)), NEW k \in 0..Len(ss)
    PROVE  /\ UpTo(ss, k) \in Seq(Seq(S)) /\ Len(UpTo(ss, k)) = k
           /\ FlattenSeq(UpTo(ss, k)) \in Seq(S)
           /\ k + 1 <= Len(ss) => FlattenSeq(UpTo(ss, k + 1)) = FlattenSeq(UpTo(ss, k)) \o ss[k + 1]
<1>1. Len(ss) \in Nat /\ k \in Nat /\ \A i \in 1..Len(ss) : ss[i] \in Seq(S)
  BY LenProperties, ElementOfSeq
<1>2. ASSUME NEW m \in 0..Len(ss)
      PROVE  UpTo(ss, m) \in [1..m -> Seq(S)] /\ UpTo(ss, m) \in Seq(Seq(S)) /\ Len(UpTo(ss, m)) = m
  <2>1. UpTo(ss, m) \in [1..m -> Seq(S)] /\ m \in Nat
    BY <1>1 DEF UpTo
  <2> QED BY <2>1, Tabulated
<1>3. FlattenSeq(UpTo(ss, k)) \in Seq(S)
  BY <1>2, FlattenAlike
<1>4. ASSUME k + 1 <= Len(ss)
      PROVE  FlattenSeq(UpTo(ss, k + 1)) = FlattenSeq(UpTo(ss, k)) \o ss[k + 1]
  <2> DEFINE q == UpTo(ss, k + 1)
  <2>1. q \in [1..k + 1 -> Seq(S)]
    BY <1>1, <1>2, <1>4
  <2>2. [i \in 1..k |-> q[i]] = UpTo(ss, k) /\ q[k + 1] = ss[k + 1]
    BY <1>1 DEF UpTo
  <2>3. q = Append(UpTo(ss, k), ss[k + 1])
    <3> HIDE DEF q
    <3>1. q = Append([i \in 1..k |-> q[i]], q[k + 1])
      BY <1>1, <2>1, Extended
    <3> QED BY <2>2, <3>1
  <2>4. ss[k + 1] \in Seq(S)
    BY <1>1, <1>4
  <2> QED BY <1>2, <2>3, <2>4, FlattenAppend
<1> QED BY <1>2, <1>3, <1>4

(* The calls of the n-th handler run for a block.                          *)
CallsOf(b, n) == Guest(Wanted(b)[n].function, Wanted(b)[n].input)

OperationParts(b) == [i \in 1..Len(Wanted(b)) |-> AddedBy(CallsOf(b, i))]

CallParts(b) ==
    [i \in 1..Len(Wanted(b)) |-> Filtered(CallsOf(b, i), {c \in Range(CallsOf(b, i)) : Effective(c)})]

(* A block of the chain, for the project that was accepted.                *)
IsBlock(b) ==
    /\ project \in Projects /\ ProjectAccepted
    /\ \E n \in DOMAIN Blocks : b \in Blocks[n]

LEMMA PartsOfBlock ==
    ASSUME NEW b, IsBlock(b)
    PROVE  /\ Len(Wanted(b)) \in Nat /\ DOMAIN Wanted(b) = 1..Len(Wanted(b))
           /\ \A n \in 1..Len(Wanted(b)) : AreCalls(CallsOf(b, n))
           /\ \E S : OperationParts(b) \in Seq(Seq(S))
           /\ \E T : CallParts(b) \in Seq(Seq(T))
           /\ Len(OperationParts(b)) = Len(Wanted(b)) /\ Len(CallParts(b)) = Len(Wanted(b))
           /\ \A n \in 1..Len(Wanted(b)) :
                 /\ OperationParts(b)[n] = AddedBy(CallsOf(b, n))
                 /\ Len(OperationParts(b)[n]) = Len(CallParts(b)[n])
                 /\ \A i \in 1..Len(CallParts(b)[n]) :
                       /\ Effective(CallParts(b)[n][i])
                       /\ OperationParts(b)[n][i] = OperationOf(CallParts(b)[n][i])
<1> DEFINE len == Len(Wanted(b))
           ops(n) == AddedBy(CallsOf(b, n))
           kept(n) == Filtered(CallsOf(b, n), {c \in Range(CallsOf(b, n)) : Effective(c)})
           S == UNION {{OperationOf(call) : call \in Range(CallsOf(b, n))} : n \in 1..len}
           T == UNION {Range(CallsOf(b, n)) : n \in 1..len}
<1>1. len \in Nat /\ DOMAIN Wanted(b) = 1..len /\ \A n \in 1..len : AreCalls(CallsOf(b, n))
  <2>1. IsList(Wanted(b)) /\ \A n \in 1..len : AreCalls(CallsOf(b, n))
    BY WantedCalls DEF IsBlock, ProjectAccepted, CallsOf
  <2> QED BY <2>1, ListProperties
<1>2. ASSUME NEW n \in 1..len
      PROVE  /\ ops(n) \in Seq(S) /\ kept(n) \in Seq(T) /\ Len(ops(n)) = Len(kept(n))
             /\ \A i \in 1..Len(kept(n)) : Effective(kept(n)[i]) /\ ops(n)[i] = OperationOf(kept(n)[i])
  <2> DEFINE calls == CallsOf(b, n)
             U == {OperationOf(call) : call \in Range(calls)}
  <2>1. U \subseteq S /\ Range(calls) \subseteq T
    OBVIOUS
  <2>2. AreCalls(calls)
    BY <1>1
  <2>3. /\ ops(n) \in Seq(U) /\ kept(n) \in Seq(Range(calls)) /\ Len(ops(n)) = Len(kept(n))
        /\ \A i \in 1..Len(kept(n)) : Effective(kept(n)[i]) /\ ops(n)[i] = OperationOf(kept(n)[i])
    <3> HIDE DEF calls
    <3>1. /\ AddedBy(calls) \in Seq({OperationOf(call) : call \in Range(calls)})
          /\ Filtered(calls, {c \in Range(calls) : Effective(c)}) \in Seq(Range(calls))
          /\ Len(AddedBy(calls)) = Len(Filtered(calls, {c \in Range(calls) : Effective(c)}))
          /\ \A i \in 1..Len(Filtered(calls, {c \in Range(calls) : Effective(c)})) :
                /\ Effective(Filtered(calls, {c \in Range(calls) : Effective(c)})[i])
                /\ AddedBy(calls)[i] = OperationOf(Filtered(calls, {c \in Range(calls) : Effective(c)})[i])
      BY <2>2, AddedAsFiltered
    <3> QED BY <3>1 DEF calls
  <2> HIDE DEF U, calls, S, T, ops, kept
  <2>4. ops(n) \in Seq(S) /\ kept(n) \in Seq(T)
    BY <2>1, <2>3, SeqMonotonic
  <2> QED BY <2>3, <2>4
<1> HIDE DEF S, T, ops, kept
<1>3. OperationParts(b) \in [1..len -> Seq(S)] /\ CallParts(b) \in [1..len -> Seq(T)]
  BY <1>2 DEF OperationParts, CallParts, ops, kept
<1>4. \A n \in 1..len : OperationParts(b)[n] = ops(n) /\ CallParts(b)[n] = kept(n)
  BY DEF OperationParts, CallParts, ops, kept
<1>5. /\ OperationParts(b) \in Seq(Seq(S)) /\ Len(OperationParts(b)) = len
      /\ CallParts(b) \in Seq(Seq(T)) /\ Len(CallParts(b)) = len
  BY <1>1, <1>3, Tabulated
<1> QED BY <1>1, <1>2, <1>4, <1>5 DEF ops

(* What is buffered grows by what each handler adds.                       *)
LEMMA OperationsGrow ==
    ASSUME NEW b, IsBlock(b), NEW k \in 0..Len(Wanted(b))
    PROVE  /\ OperationsUpTo(b, 0) = <<>>
           /\ IsList(OperationsUpTo(b, k))
           /\ k + 1 <= Len(Wanted(b)) =>
                 OperationsUpTo(b, k + 1) = OperationsUpTo(b, k) \o AddedBy(CallsOf(b, k + 1))
<1> DEFINE ss == OperationParts(b)
           len == Len(Wanted(b))
<1>1. len \in Nat /\ Len(ss) = len /\ (\E S : ss \in Seq(Seq(S))) /\ \A n \in 1..len : ss[n] = AddedBy(CallsOf(b, n))
  BY PartsOfBlock
<1>2. PICK S : ss \in Seq(Seq(S))
  BY <1>1
<1>3. \A m \in 0..len : OperationsUpTo(b, m) = FlattenSeq(UpTo(ss, m))
  <2> SUFFICES ASSUME NEW m \in 0..len PROVE OperationsUpTo(b, m) = FlattenSeq(UpTo(ss, m))
    OBVIOUS
  <2>1. [i \in 1..m |-> AddedBy(Guest(Wanted(b)[i].function, Wanted(b)[i].input))] = UpTo(ss, m)
    <3>1. \A i \in 1..m : ss[i] = AddedBy(Guest(Wanted(b)[i].function, Wanted(b)[i].input))
      BY <1>1 DEF CallsOf
    <3> HIDE DEF ss
    <3> QED BY <3>1 DEF UpTo
  <2> QED BY <2>1 DEF OperationsUpTo
<1> HIDE DEF ss, len
<1>4. OperationsUpTo(b, 0) = <<>>
  <2>1. UpTo(ss, 0) = <<>>
    BY DEF UpTo
  <2>2. FlattenSeq(UpTo(ss, 0)) = <<>>
    BY <2>1 DEF FlattenSeq
  <2> QED BY <1>1, <1>3, <2>2
<1>5. /\ FlattenSeq(UpTo(ss, k)) \in Seq(S)
      /\ k + 1 <= len => FlattenSeq(UpTo(ss, k + 1)) = FlattenSeq(UpTo(ss, k)) \o ss[k + 1]
  BY <1>1, <1>2, FlattenUpTo DEF len
<1>6. k \in 0..len /\ (k + 1 <= len => k + 1 \in 0..len /\ k + 1 \in 1..len)
  BY <1>1 DEF len
<1>7. IsList(OperationsUpTo(b, k))
  BY <1>3, <1>5, <1>6, SeqIsList
<1>8. k + 1 <= len => OperationsUpTo(b, k + 1) = OperationsUpTo(b, k) \o AddedBy(CallsOf(b, k + 1))
  BY <1>1, <1>3, <1>5, <1>6
<1> QED BY <1>4, <1>7, <1>8 DEF len

(* All handlers run, what is buffered are the effective calls.             *)
LEMMA OperationsAsCalls ==
    ASSUME NEW b, IsBlock(b)
    PROVE  LET calls == EffectiveCalls(b)
               ops   == OperationsUpTo(b, Len(Wanted(b)))
           IN  /\ IsList(calls) /\ IsList(ops) /\ Len(ops) = Len(calls)
               /\ \A n \in 1..Len(calls) : Effective(calls[n]) /\ ops[n] = OperationOf(calls[n])
<1> DEFINE ss == CallParts(b)
           tt == OperationParts(b)
           len == Len(Wanted(b))
           calls == FlattenSeq(ss)
           ops == FlattenSeq(tt)
<1>1. /\ len \in Nat /\ DOMAIN Wanted(b) = 1..len /\ Len(ss) = len /\ Len(tt) = len
      /\ \A n \in 1..len :
            /\ tt[n] = AddedBy(CallsOf(b, n)) /\ Len(tt[n]) = Len(ss[n])
            /\ \A i \in 1..Len(ss[n]) : Effective(ss[n][i]) /\ tt[n][i] = OperationOf(ss[n][i])
  BY PartsOfBlock
<1>2. PICK S : tt \in Seq(Seq(S))
  BY PartsOfBlock
<1>3. PICK T : ss \in Seq(Seq(T))
  BY PartsOfBlock
<1>4. EffectiveCalls(b) = calls
  BY <1>1 DEF EffectiveCalls, CallParts, CallsOf
<1>5. OperationsUpTo(b, len) = ops
  BY DEF OperationsUpTo, OperationParts, CallsOf
<1> HIDE DEF ss, tt, len
<1>6. /\ calls \in Seq(T) /\ ops \in Seq(S) /\ Len(calls) = Len(ops)
      /\ \A n \in 1..Len(calls) : SamePlace(ss, tt, n)
  <2>1. Len(ss) = Len(tt) /\ \A i \in 1..Len(ss) : Len(ss[i]) = Len(tt[i])
    BY <1>1
  <2> QED BY <1>2, <1>3, <2>1, FlattenAlike
<1>7. ASSUME NEW n \in 1..Len(calls)
      PROVE  Effective(calls[n]) /\ ops[n] = OperationOf(calls[n])
  <2>1. PICK i \in 1..Len(ss) : \E j \in 1..Len(ss[i]) : calls[n] = ss[i][j] /\ ops[n] = tt[i][j]
    BY <1>6 DEF SamePlace
  <2> QED BY <1>1, <2>1
<1>8. IsList(calls) /\ IsList(ops)
  BY <1>6, SeqIsList
<1> HIDE DEF calls, ops
<1> QED BY <1>4, <1>5, <1>6, <1>7, <1>8 DEF len

-----------------------------------------------------------------------------
(* One statement, without history.                                         *)

(* The row a call that counts leaves under its key: at most one.           *)
RowOf(call) ==
    IF call.function = "sq_store_remove" THEN {} ELSE {Row(ModelOf(call.entity), call.data.members)}

(* The column of the id is the one of the field named so, and the only one *)
(* of type ID.                                                             *)
LEMMA IdField ==
    ASSUME project \in Projects, ProjectAccepted, NEW i \in DOMAIN Models
    PROVE  LET model == Models[i] IN
           /\ IdColumn \in ColumnsOf(model)
           /\ FieldOf(model, IdColumn).name = IdName
           /\ FieldOf(model, IdColumn).base_type = "ID" /\ ~FieldOf(model, IdColumn).is_array
           /\ \A c \in ColumnsOf(model) : FieldOf(model, c).base_type = "ID" => c = IdColumn
<1> DEFINE model == Models[i]
           fields == model.fields
           column(j) == Underscored(fields[j].name)
<1>1. PICK j \in DOMAIN fields :
          /\ fields[j].name = IdName /\ ~fields[j].is_array
          /\ \A k \in DOMAIN fields : fields[k].base_type = "ID" <=> k = j
  BY ProjectsRegular DEF Regular, Models
<1>2. \A k, l \in DOMAIN fields : column(k) = column(l) => k = l
  BY DEF ProjectAccepted, CreatesTables
<1>3. \A c \in ColumnsOf(model) : \E k \in DOMAIN fields : column(k) = c /\ FieldOf(model, c) = fields[k]
  <2> SUFFICES ASSUME NEW c \in ColumnsOf(model)
               PROVE  \E k \in DOMAIN fields : column(k) = c /\ FieldOf(model, c) = fields[k]
    OBVIOUS
  <2> DEFINE k == CHOOSE l \in DOMAIN fields : column(l) = c
  <2>1. \E l \in DOMAIN fields : column(l) = c
    BY DEF ColumnsOf
  <2>2. k \in DOMAIN fields /\ column(k) = c
    BY <2>1
  <2>3. FieldOf(model, c) = fields[k]
    BY DEF FieldOf
  <2> QED BY <2>2, <2>3
<1>4. column(j) = IdColumn
  BY <1>1 DEF IdColumn
<1>5. IdColumn \in ColumnsOf(model)
  BY <1>1, <1>4 DEF ColumnsOf
<1> HIDE DEF model, fields, column
<1>6. FieldOf(model, IdColumn) = fields[j]
  BY <1>1, <1>2, <1>3, <1>4, <1>5
<1>7. \A c \in ColumnsOf(model) : FieldOf(model, c).base_type = "ID" => c = IdColumn
  BY <1>1, <1>3, <1>4
<1> QED BY <1>1, <1>5, <1>6, <1>7 DEF model

(* A call that counts names one model; what it does is under its own key,  *)
(* and a row it stores has its id.                                         *)
LEMMA KeyOfCall ==
    ASSUME project \in Projects, ProjectAccepted, NEW call, Effective(call),
           ~StatementFails(OperationOf(call))
    PROVE  /\ \E i \in DOMAIN Models : ModelOf(call.entity) = Models[i] /\ Models[i].name = call.entity
           /\ OperationKey(OperationOf(call)) = CallKey(call)
           /\ call.function = "sq_store_set" =>
                 Row(ModelOf(call.entity), call.data.members)[IdColumn] = {call.id}
<1> DEFINE model == ModelOf(call.entity)
           entity == call.data.members
           f == FieldOf(model, IdColumn)
<1>1. \E i \in DOMAIN Models : model = Models[i] /\ Models[i].name = call.entity
  <2> DEFINE i == CHOOSE l \in DOMAIN Models : Models[l].name = call.entity
  <2>1. \E l \in DOMAIN Models : Models[l].name = call.entity
    BY DEF Effective
  <2>2. i \in DOMAIN Models /\ Models[i].name = call.entity
    BY <2>1
  <2>3. model = Models[i]
    BY DEF ModelOf
  <2> QED BY <2>2, <2>3
<1>2. /\ IdColumn \in ColumnsOf(model)
      /\ f.name = IdName /\ f.base_type = "ID" /\ ~f.is_array
  BY <1>1, IdField
<1>3. call.function \in {"sq_store_set", "sq_store_remove"}
  BY DEF Effective
<1>4. ASSUME call.function = "sq_store_set"
      PROVE  Row(model, entity)[IdColumn] = {call.id}
  <2>1. IdName \in DOMAIN entity /\ entity[IdName] = {[json |-> "string", text |-> call.id]}
    BY <1>4 DEF Effective
  <2>2. Encode(f, entity) = {call.id}
    <3> HIDE DEF f, entity
    <3> QED BY <1>2, <2>1 DEF Encode
  <2>3. \E j \in DOMAIN model.fields : model.fields[j] = f
    <3>1. \E j \in DOMAIN model.fields : Underscored(model.fields[j].name) = IdColumn
      BY <1>2 DEF ColumnsOf
    <3> QED BY <3>1 DEF FieldOf
  <2>4. ~UpsertFails(model, entity)
    BY <1>4 DEF StatementFails, OperationOf
  <2>5. Accepts(f, call.id)
    <3> HIDE DEF f, entity, model
    <3> QED BY <2>2, <2>3, <2>4 DEF UpsertFails
  <2>6. ColumnType(f) = "text"
    BY <1>2 DEF ColumnType, ColumnTypes
  <2>7. Stored(f, {call.id}) = {call.id}
    <3>1. call.id \in DOMAIN Cast["text"]
      BY <2>5, <2>6 DEF Accepts
    <3>2. Cast["text"][call.id] = call.id
      BY <3>1, CastAssumption DEF CastAssumption
    <3> HIDE DEF f
    <3> QED BY <2>6, <3>2 DEF Stored
  <2>8. Row(model, entity)[IdColumn] = Stored(f, Encode(f, entity))
    BY <1>2 DEF Row
  <2> QED BY <2>2, <2>7, <2>8
<1>5. OperationKey(OperationOf(call)) = CallKey(call)
  <2>1. model.name = call.entity
    BY <1>1
  <2>2. CASE call.function = "sq_store_set"
    <3>1. OperationOf(call).operation = "Set" /\ OperationOf(call).entity_type = call.entity
          /\ OperationOf(call).data = entity
      BY <2>2 DEF OperationOf
    <3>2. (CHOOSE id \in Row(model, entity)[IdColumn] : TRUE) = call.id
      BY <1>4, <2>2
    <3> QED BY <2>1, <3>1, <3>2 DEF OperationKey, KeyOf, CallKey
  <2>3. CASE call.function = "sq_store_remove"
    <3>1. OperationOf(call).operation = "Remove" /\ OperationOf(call).entity_type = call.entity
          /\ OperationOf(call).data = call.id
      BY <2>3 DEF OperationOf
    <3> QED BY <2>1, <3>1 DEF OperationKey, KeyOf, CallKey
  <2> QED BY <1>3, <2>2, <2>3
<1> QED BY <1>1, <1>4, <1>5

(* A statement replaces what is under its key, and nothing else: an upsert *)
(* that keeps the id of the old row keeps what it would have written.      *)
LEMMA ExecutedSets ==
    ASSUME project \in Projects, ProjectAccepted, NEW call, Effective(call),
           ~StatementFails(OperationOf(call)), NEW rows, IdsMatch(rows)
    PROVE  LET key   == CallKey(call)
               after == Executed(rows, OperationOf(call))
           IN  /\ after = {e \in rows : e[1] # key} \union {<<key, r>> : r \in RowOf(call)}
               /\ IdsMatch(after)
<1> DEFINE key == CallKey(call)
           op == OperationOf(call)
           model == ModelOf(call.entity)
           entity == call.data.members
           new == Row(model, entity)
           after == Executed(rows, op)
           kept == {e \in rows : e[1] # key}
<1>1. PICK i \in DOMAIN Models : model = Models[i] /\ Models[i].name = call.entity
  BY KeyOfCall
<1>2. call.function \in {"sq_store_set", "sq_store_remove"} /\ key[2] = call.id
  BY DEF Effective, CallKey
<1>3. KeyOf(model, call.id) = key
  BY <1>1 DEF KeyOf, CallKey
<1>4. CASE call.function = "sq_store_remove"
  <2>1. op.operation = "Remove" /\ op.entity_type = call.entity /\ op.data = call.id
    BY <1>4 DEF OperationOf
  <2>2. after = Removed(rows, model, {call.id})
    <3> HIDE DEF op
    <3> QED BY <2>1 DEF Executed
  <2>3. after = kept /\ RowOf(call) = {}
    <3> HIDE DEF key, model
    <3> QED BY <1>3, <1>4, <2>2 DEF Removed, RowOf
  <2> HIDE DEF after
  <2> QED BY <2>3 DEF IdsMatch, after
<1>5. CASE call.function = "sq_store_set"
  <2> DEFINE merged == [c \in ColumnsOf(model) |->
                          IF FieldOf(model, c).base_type = "ID" /\ \E e \in rows : e[1] = key
                          THEN (CHOOSE e \in rows : e[1] = key)[2][c]
                          ELSE new[c]]
  <2>1. op.operation = "Set" /\ op.entity_type = call.entity /\ op.data = entity
    BY <1>5 DEF OperationOf
  <2>2. new[IdColumn] = {call.id}
    BY <1>5, KeyOfCall
  <2>3. (CHOOSE id \in new[IdColumn] : TRUE) = call.id
    BY <2>2
  <2>4. after = kept \union {<<key, merged>>}
    <3>1. after = Upserted(rows, model, entity)
      <4> HIDE DEF op
      <4> QED BY <2>1 DEF Executed
    <3>2. Upserted(rows, model, entity) = kept \union {<<key, merged>>}
      BY <1>3, <2>3 DEF Upserted
    <3> QED BY <3>1, <3>2
  <2>5. ASSUME NEW c \in ColumnsOf(model), FieldOf(model, c).base_type = "ID", \E e \in rows : e[1] = key
        PROVE  (CHOOSE e \in rows : e[1] = key)[2][c] = new[c]
    <3> DEFINE e == CHOOSE x \in rows : x[1] = key
    <3>1. e \in rows /\ e[1] = key
      BY <2>5
    <3>2. c = IdColumn
      BY <1>1, <2>5, IdField
    <3>3. e[2][IdColumn] = {e[1][2]}
      <4> HIDE DEF e
      <4> QED BY <3>1 DEF IdsMatch
    <3> QED BY <1>2, <2>2, <3>1, <3>2, <3>3
  <2>6. merged = new
    <3>1. merged = [c \in ColumnsOf(model) |-> new[c]]
      BY <2>5
    <3>2. new = [c \in ColumnsOf(model) |-> new[c]]
      BY DEF Row
    <3> HIDE DEF merged, new, model
    <3> QED BY <3>1, <3>2
  <2> HIDE DEF merged, new, after, key, op
  <2>7. RowOf(call) = {new}
    BY <1>5 DEF RowOf, new
  <2>8. after = kept \union {<<key, new>>}
    BY <2>4, <2>6
  <2>9. IdsMatch(after)
    BY <1>2, <2>2, <2>8 DEF IdsMatch
  <2> QED BY <2>7, <2>8, <2>9 DEF after, key, op
<1> QED BY <1>2, <1>4, <1>5

-----------------------------------------------------------------------------
(* What a block's calls come to.                                           *)
LEMMA LastCall ==
    ASSUME NEW b, IsBlock(b), NEW key \in Touched(b)
    PROVE  LET calls == EffectiveCalls(b)
               m     == Max({i \in DOMAIN calls : CallKey(calls[i]) = key})
           IN  /\ m \in 1..Len(calls) /\ CallKey(calls[m]) = key
               /\ \A i \in 1..Len(calls) : CallKey(calls[i]) = key => i <= m
               /\ NewRow(b, key) = RowOf(calls[m])
<1> DEFINE calls == EffectiveCalls(b)
           S == {i \in DOMAIN calls : CallKey(calls[i]) = key}
           m == Max(S)
<1>1. Len(calls) \in Nat /\ DOMAIN calls = 1..Len(calls)
  BY OperationsAsCalls, ListProperties
<1>2. S \in SUBSET Nat /\ S # {} /\ \A x \in S : x <= Len(calls)
  BY <1>1 DEF Touched
<1>3. NewRow(b, key) = RowOf(calls[m])
  BY DEF NewRow, RowOf
<1>4. \A i \in 1..Len(calls) : CallKey(calls[i]) = key => i \in S
  BY <1>1
<1>5. \A x \in S : x \in 1..Len(calls) /\ CallKey(calls[x]) = key
  BY <1>1
<1> HIDE DEF S
<1>6. m \in S /\ \A x \in S : x <= m
  <2>1. Heights!Max(S) = Max(S)
    BY DEF Heights!Max, Max
  <2> QED BY <1>1, <1>2, <2>1, GreatestUpTo
<1> QED BY <1>3, <1>4, <1>5, <1>6 DEF S

(* The operations in one go, with history.                                 *)
LEMMA NetAsMeant ==
    ASSUME NEW b, IsBlock(b), NEW ops, ops = OperationsUpTo(b, Len(Wanted(b))),
           ~ \E i \in DOMAIN ops : StatementFails(ops[i])
    PROVE  NetChanges(ops) = Meaning(b)
<1> DEFINE calls == EffectiveCalls(b)
<1>1. /\ DOMAIN ops = DOMAIN calls
      /\ \A i \in DOMAIN calls : Effective(calls[i]) /\ ops[i] = OperationOf(calls[i])
  <2>1. /\ IsList(calls) /\ IsList(ops) /\ Len(ops) = Len(calls)
        /\ \A i \in 1..Len(calls) : Effective(calls[i]) /\ ops[i] = OperationOf(calls[i])
    BY OperationsAsCalls
  <2> QED BY <2>1, ListProperties
<1>2. \A i \in DOMAIN calls : OperationKey(ops[i]) = CallKey(calls[i])
  BY <1>1, KeyOfCall DEF IsBlock
<1> DEFINE K(k) == {i \in DOMAIN calls : CallKey(calls[i]) = k}
           O(k) == {i \in DOMAIN ops : OperationKey(ops[i]) = k}
           net(k) == LET last == ops[Max(O(k))]
                     IN  IF last.operation = "Remove" THEN {}
                         ELSE {Row(ModelOf(last.entity_type), last.data)}
<1>3. {OperationKey(ops[i]) : i \in DOMAIN ops} = Touched(b)
  BY <1>1, <1>2 DEF Touched
<1>4. \A k : O(k) = K(k)
  BY <1>1, <1>2
<1>5. ASSUME NEW k \in Touched(b) PROVE net(k) = NewRow(b, k)
  <2> DEFINE m == Max(K(k))
             call == calls[m]
  <2>1. m \in DOMAIN calls /\ NewRow(b, k) = RowOf(call)
    <3>1. m \in 1..Len(calls) /\ NewRow(b, k) = RowOf(call)
      BY LastCall
    <3>2. DOMAIN calls = 1..Len(calls)
      BY OperationsAsCalls, ListProperties
    <3> QED BY <3>1, <3>2
  <2>2. ops[Max(O(k))] = OperationOf(call) /\ Effective(call)
    BY <1>1, <1>4, <2>1
  <2> HIDE DEF call, O
  <2>3. net(k) = IF OperationOf(call).operation = "Remove" THEN {}
                 ELSE {Row(ModelOf(OperationOf(call).entity_type), OperationOf(call).data)}
    BY <2>2
  <2>4. net(k) = RowOf(call)
    <3>1. CASE call.function = "sq_store_set"
      <4>1. OperationOf(call).operation = "Set" /\ OperationOf(call).entity_type = call.entity
            /\ OperationOf(call).data = call.data.members
        BY <3>1 DEF OperationOf
      <4> QED BY <2>3, <3>1, <4>1 DEF RowOf
    <3>2. CASE call.function = "sq_store_remove"
      <4>1. OperationOf(call).operation = "Remove"
        BY <3>2 DEF OperationOf
      <4> QED BY <2>3, <3>2, <4>1 DEF RowOf
    <3> QED BY <2>2, <3>1, <3>2 DEF Effective
  <2> QED BY <2>1, <2>4
<1>6. NetChanges(ops) = [k \in {OperationKey(ops[i]) : i \in DOMAIN ops} |-> net(k)]
  BY DEF NetChanges
<1> HIDE DEF net
<1> QED BY <1>3, <1>5, <1>6 DEF Meaning

(* The operations one by one, without history.                             *)
LEMMA StatementWrites ==
    ASSUME NEW b, IsBlock(b), NEW k \in 0..Len(EffectiveCalls(b)), WrittenUpTo(b, k),
           ChangedOnlyBy(b), IdsMatch(table),
           statements # <<>>, ~StatementFails(Head(statements)),
           NEW after, after = Executed(table, Head(statements))
    PROVE  /\ k + 1 <= Len(EffectiveCalls(b))
           /\ Tail(statements) = [i \in 1..(Len(EffectiveCalls(b)) - (k + 1)) |->
                                    OperationOf(EffectiveCalls(b)[k + 1 + i])]
           /\ \A key \in Touched(b) :
                 (\A i \in DOMAIN EffectiveCalls(b) : CallKey(EffectiveCalls(b)[i]) = key => i <= k + 1)
                 => {e \in after : e[1] = key} = {<<key, r>> : r \in NewRow(b, key)}
           /\ {e \in after : e[1] \notin Touched(b)} = {e \in Replay(indexed) : e[1] \notin Touched(b)}
           /\ IdsMatch(after)
<1> DEFINE calls == EffectiveCalls(b)
           len == Len(calls)
           left(j) == [i \in 1..(len - j) |-> OperationOf(calls[j + i])]
           call == calls[k + 1]
           at == CallKey(call)
<1>1. len \in Nat /\ k \in Nat /\ DOMAIN calls = 1..len /\ \A i \in 1..len : Effective(calls[i])
  <2>1. IsList(calls) /\ \A i \in 1..len : Effective(calls[i])
    BY OperationsAsCalls
  <2> QED BY <2>1, ListProperties
<1>0. k <= len
  BY <1>1
<1>2. statements = left(k)
  BY DEF WrittenUpTo
<1> HIDE DEF calls, len
<1>3. k + 1 <= len
  <2>1. CASE len - k = 0
    <3>1. left(k) = <<>>
      BY <2>1
    <3> QED BY <1>2, <3>1
  <2> QED BY <1>0, <1>1, <2>1
<1>4. Head(statements) = OperationOf(call) /\ Tail(statements) = left(k + 1)
  <2> DEFINE S == {OperationOf(calls[i]) : i \in 1..len}
             s == left(k)
  <2>1. s \in [1..(len - k) -> S] /\ len - k \in Nat
    <3>1. \A i \in 1..(len - k) : k + i \in 1..len
      BY <1>1
    <3> QED BY <1>1, <1>3, <3>1
  <2>2. s \in Seq(S) /\ Len(s) = len - k /\ s # <<>>
    <3>1. s \in Seq(S) /\ Len(s) = len - k
      <4> HIDE DEF s, S
      <4> QED BY <2>1, Tabulated
    <3> QED BY <1>2, <3>1
  <2>3. s[1] = OperationOf(call) /\ \A i \in 1..(len - (k + 1)) : s[i + 1] = OperationOf(calls[k + 1 + i])
    <3>1. 1 \in 1..(len - k) /\ k + 1 = k + 1
      BY <1>1, <1>3
    <3>2. \A i \in 1..(len - (k + 1)) : i + 1 \in 1..(len - k) /\ k + (i + 1) = k + 1 + i
      BY <1>1, <1>3
    <3> QED BY <3>1, <3>2
  <2> HIDE DEF s, call
  <2>4. Head(s) = s[1] /\ Tail(s) = [i \in 1..Len(s) - 1 |-> s[i + 1]]
    <3>1. /\ Tail(s) \in Seq(S) /\ Len(Tail(s)) = Len(s) - 1
          /\ \A i \in 1..Len(Tail(s)) : Tail(s)[i] = s[i + 1]
      BY <2>2, HeadTailProperties
    <3>2. Tail(s) = [i \in 1..Len(Tail(s)) |-> Tail(s)[i]]
      BY <3>1, LenProperties
    <3> QED BY <2>2, <3>1, <3>2
  <2>5. Len(s) - 1 = len - (k + 1)
    BY <1>1, <2>2
  <2>6. Head(s) = OperationOf(call) /\ Tail(s) = left(k + 1)
    <3>1. Tail(s) = [i \in 1..(len - (k + 1)) |-> s[i + 1]]
      BY <2>4, <2>5
    <3>2. [i \in 1..(len - (k + 1)) |-> s[i + 1]] = left(k + 1)
      BY <2>3
    <3> QED BY <2>3, <2>4, <3>1, <3>2
  <2> QED BY <1>2, <2>6 DEF s
<1>5. k + 1 \in 1..len /\ Effective(call)
  BY <1>1, <1>3
<1>6. at \in Touched(b)
  BY <1>1, <1>5 DEF Touched, calls
<1>7. after = {e \in table : e[1] # at} \union {<<at, r>> : r \in RowOf(call)} /\ IdsMatch(after)
  <2>1. ~StatementFails(OperationOf(call)) /\ after = Executed(table, OperationOf(call))
    BY <1>4
  <2> HIDE DEF call
  <2> QED BY <1>5, <2>1, ExecutedSets DEF IsBlock
<1>8. ASSUME NEW key \in Touched(b), \A i \in DOMAIN calls : CallKey(calls[i]) = key => i <= k + 1
      PROVE  {e \in after : e[1] = key} = {<<key, r>> : r \in NewRow(b, key)}
  <2>1. CASE key = at
    <3>1. PICK m \in 1..len : /\ CallKey(calls[m]) = key /\ NewRow(b, key) = RowOf(calls[m])
                              /\ \A i \in 1..len : CallKey(calls[i]) = key => i <= m
      BY LastCall DEF calls, len
    <3>2. m = k + 1
      BY <1>1, <1>5, <1>8, <2>1, <3>1
    <3>3. NewRow(b, key) = RowOf(call)
      BY <3>1, <3>2
    <3> HIDE DEF call
    <3> QED BY <1>7, <2>1, <3>3
  <2>2. CASE key # at
    <3>1. \A i \in DOMAIN calls : CallKey(calls[i]) = key => i <= k
      BY <1>1, <1>8, <2>2
    <3>2. {e \in table : e[1] = key} = {<<key, r>> : r \in NewRow(b, key)}
      BY <3>1 DEF WrittenUpTo, calls
    <3>3. {e \in after : e[1] = key} = {e \in table : e[1] = key}
      <4> HIDE DEF at, call
      <4> QED BY <1>7, <2>2
    <3> QED BY <3>2, <3>3
  <2> QED BY <2>1, <2>2
<1>9. {e \in after : e[1] \notin Touched(b)} = {e \in Replay(indexed) : e[1] \notin Touched(b)}
  <2>1. {e \in after : e[1] \notin Touched(b)} = {e \in table : e[1] \notin Touched(b)}
    <3> HIDE DEF at, call
    <3> QED BY <1>6, <1>7
  <2> QED BY <2>1 DEF ChangedOnlyBy
<1> QED BY <1>3, <1>4, <1>7, <1>8, <1>9 DEF calls, len

(* All of them executed, the table is what the block makes of it.          *)
LEMMA WrittenAsMeant ==
    ASSUME NEW b, IsBlock(b), NEW k \in 0..Len(EffectiveCalls(b)), WrittenUpTo(b, k),
           ChangedOnlyBy(b), statements = <<>>
    PROVE  table = Changed(Replay(indexed), Meaning(b))
<1> DEFINE calls == EffectiveCalls(b)
           len == Len(calls)
           changes == Meaning(b)
<1>1. len \in Nat /\ DOMAIN calls = 1..len
  BY OperationsAsCalls, ListProperties
<1>2. k = len
  <2>0. k \in Nat /\ k <= len
    BY <1>1
  <2> DEFINE S == {OperationOf(calls[k + i]) : i \in 1..(len - k)}
             s == [i \in 1..(len - k) |-> OperationOf(calls[k + i])]
  <2>1. s \in [1..(len - k) -> S] /\ len - k \in Nat
    BY <1>1
  <2>2. Len(s) = len - k
    <3> HIDE DEF s, S
    <3> QED BY <2>1, Tabulated
  <2>3. s = <<>>
    BY DEF WrittenUpTo
  <2>4. Len(s) = 0
    BY <2>3
  <2> HIDE DEF s, calls, len
  <2> QED BY <1>1, <2>0, <2>2, <2>4
<1>3. \A key \in Touched(b) : {e \in table : e[1] = key} = {<<key, r>> : r \in NewRow(b, key)}
  BY <1>1, <1>2 DEF WrittenUpTo
<1>4. DOMAIN changes = Touched(b) /\ \A key \in Touched(b) : changes[key] = NewRow(b, key)
  BY DEF Meaning
<1> HIDE DEF changes
<1>5. {e \in table : e[1] \notin Touched(b)} = {e \in Replay(indexed) : e[1] \notin DOMAIN changes}
  BY <1>4 DEF ChangedOnlyBy
<1>6. {e \in table : e[1] \in Touched(b)} = UNION {{<<key, r>> : r \in changes[key]} : key \in DOMAIN changes}
  <2>1. \A key \in Touched(b) : {e \in table : e[1] = key} = {<<key, r>> : r \in changes[key]}
    BY <1>3, <1>4
  <2>2. ASSUME NEW e \in table, e[1] \in Touched(b)
        PROVE  e \in UNION {{<<key, r>> : r \in changes[key]} : key \in DOMAIN changes}
    BY <1>4, <2>1, <2>2
  <2>3. ASSUME NEW key \in DOMAIN changes, NEW r \in changes[key]
        PROVE  <<key, r>> \in {e \in table : e[1] \in Touched(b)}
    BY <1>4, <2>1
  <2> QED BY <2>2, <2>3
<1>7. table = {e \in table : e[1] \notin Touched(b)} \union {e \in table : e[1] \in Touched(b)}
  OBVIOUS
<1> QED BY <1>5, <1>6, <1>7 DEF Changed, changes

-----------------------------------------------------------------------------
(* The beginning and the rest of a list.                                   *)
LEMMA PrefixOf ==
    ASSUME NEW s, IsList(s), NEW k \in 0..Len(s)
    PROVE  /\ IsList(SubSeq(s, 1, k)) /\ Len(SubSeq(s, 1, k)) = k
           /\ \A i \in 1..k : SubSeq(s, 1, k)[i] = s[i]
           /\ SubSeq(s, 1, k) \in Seq(Range(s))
<1>1. Len(s) \in Nat /\ \A i \in 1..Len(s) : s[i] \in Range(s)
  BY ListProperties
<1>2. 1 \in Int /\ k \in Int /\ \A i \in 1..k : s[i] \in Range(s)
  BY <1>1
<1>3. /\ SubSeq(s, 1, k) \in Seq(Range(s))
      /\ Len(SubSeq(s, 1, k)) = IF 1 <= k THEN k - 1 + 1 ELSE 0
      /\ \A i \in 1..k - 1 + 1 : SubSeq(s, 1, k)[i] = s[1 + i - 1]
  BY <1>2, SubSeqProperties
<1>4. IsList(SubSeq(s, 1, k))
  BY <1>3, SeqIsList
<1>5. Len(SubSeq(s, 1, k)) = k
  BY <1>1, <1>3
<1>6. \A i \in 1..k : SubSeq(s, 1, k)[i] = s[i]
  <2>1. \A i \in 1..k : i \in 1..k - 1 + 1 /\ 1 + i - 1 = i
    BY <1>1
  <2> QED BY <1>3, <2>1
<1> QED BY <1>3, <1>4, <1>5, <1>6

LEMMA ListsEqual ==
    ASSUME NEW s, NEW t, IsList(s), IsList(t), Len(s) = Len(t), \A i \in 1..Len(s) : s[i] = t[i]
    PROVE  s = t
<1> DEFINE S == Range(s) \union Range(t)
<1>1. s \in Seq(S) /\ t \in Seq(S)
  BY SeqMonotonic DEF IsList
<1> HIDE DEF S
<1> QED BY <1>1, SeqEqual

LEMMA PrefixOfPrefix ==
    ASSUME NEW s, IsList(s), NEW n \in 0..Len(s), NEW k \in 0..n
    PROVE  SubSeq(SubSeq(s, 1, n), 1, k) = SubSeq(s, 1, k)
<1> DEFINE t == SubSeq(s, 1, n)
<1>1. Len(s) \in Nat /\ k \in 0..Len(s) /\ \A i \in 1..k : i \in 1..n
  BY ListProperties
<1>2. IsList(t) /\ Len(t) = n /\ \A i \in 1..n : t[i] = s[i]
  BY PrefixOf
<1>3. /\ IsList(SubSeq(s, 1, k)) /\ Len(SubSeq(s, 1, k)) = k
      /\ \A i \in 1..k : SubSeq(s, 1, k)[i] = s[i]
  BY <1>1, PrefixOf
<1> HIDE DEF t
<1>4. /\ IsList(SubSeq(t, 1, k)) /\ Len(SubSeq(t, 1, k)) = k
      /\ \A i \in 1..k : SubSeq(t, 1, k)[i] = t[i]
  BY <1>2, PrefixOf
<1>5. SubSeq(t, 1, k) = SubSeq(s, 1, k)
  BY <1>1, <1>2, <1>3, <1>4, ListsEqual
<1> QED BY <1>5 DEF t

LEMMA WholeList ==
    ASSUME NEW s, IsList(s)
    PROVE  SubSeq(s, 1, Len(s)) = s
<1>1. Len(s) \in 0..Len(s)
  BY ListProperties
<1> QED BY <1>1, PrefixOf, ListsEqual

LEMMA AppendToList ==
    ASSUME NEW s, IsList(s), NEW m
    PROVE  /\ IsList(Append(s, m)) /\ Len(Append(s, m)) = Len(s) + 1
           /\ \A k \in 0..Len(s) : SubSeq(Append(s, m), 1, k) = SubSeq(s, 1, k)
<1> DEFINE S == Range(s) \union {m}
           t == Append(s, m)
<1>1. s \in Seq(S) /\ m \in S /\ Len(s) \in Nat
  BY SeqMonotonic, ListProperties DEF IsList
<1> HIDE DEF S
<1>2. t \in Seq(S) /\ Len(t) = Len(s) + 1 /\ \A i \in 1..Len(s) : t[i] = s[i]
  <2>1. /\ t \in Seq(S) /\ Len(t) = Len(s) + 1
        /\ \A i \in 1..Len(s) + 1 : t[i] = IF i <= Len(s) THEN s[i] ELSE m
    BY <1>1, AppendProperties
  <2> QED BY <1>1, <2>1
<1>3. IsList(t)
  BY <1>2, SeqIsList
<1>4. ASSUME NEW k \in 0..Len(s) PROVE SubSeq(t, 1, k) = SubSeq(s, 1, k)
  <2> HIDE DEF t
  <2>1. k \in 0..Len(t) /\ \A i \in 1..k : i \in 1..Len(s)
    BY <1>1, <1>2
  <2>2. IsList(SubSeq(t, 1, k)) /\ Len(SubSeq(t, 1, k)) = k /\ \A i \in 1..k : SubSeq(t, 1, k)[i] = t[i]
    BY <1>3, <2>1, PrefixOf
  <2>3. IsList(SubSeq(s, 1, k)) /\ Len(SubSeq(s, 1, k)) = k /\ \A i \in 1..k : SubSeq(s, 1, k)[i] = s[i]
    BY PrefixOf
  <2>4. \A i \in 1..k : SubSeq(t, 1, k)[i] = SubSeq(s, 1, k)[i]
    BY <1>2, <2>1, <2>2, <2>3
  <2> QED BY <2>2, <2>3, <2>4, ListsEqual
<1> QED BY <1>2, <1>3, <1>4

LEMMA RestOfList ==
    ASSUME NEW s, IsList(s), NEW k \in 0..Len(s)
    PROVE  LET rest == SubSeq(s, k + 1, Len(s)) IN
           /\ rest = <<>> <=> k = Len(s)
           /\ rest # <<>> => Head(rest) = s[k + 1] /\ Tail(rest) = SubSeq(s, k + 2, Len(s))
<1> DEFINE len == Len(s)
           rest == SubSeq(s, k + 1, len)
           next == SubSeq(s, k + 2, len)
           S == Range(s)
<1>1. len \in Nat /\ k \in Nat /\ k <= len /\ \A i \in 1..len : s[i] \in S
  BY ListProperties
<1> HIDE DEF len, S
<1>2. \A m \in Nat : m >= 1 => \A i \in m..len : s[i] \in S
  BY <1>1
<1>3. /\ rest \in Seq(S) /\ Len(rest) = (IF k + 1 <= len THEN len - (k + 1) + 1 ELSE 0)
      /\ \A i \in 1..len - (k + 1) + 1 : rest[i] = s[k + 1 + i - 1]
  <2>1. k + 1 \in Int /\ len \in Int /\ \A i \in (k + 1)..len : s[i] \in S
    BY <1>1, <1>2
  <2> QED BY <2>1, SubSeqProperties
<1>4. /\ next \in Seq(S) /\ Len(next) = (IF k + 2 <= len THEN len - (k + 2) + 1 ELSE 0)
      /\ \A i \in 1..len - (k + 2) + 1 : next[i] = s[k + 2 + i - 1]
  <2>1. k + 2 \in Int /\ len \in Int /\ \A i \in (k + 2)..len : s[i] \in S
    BY <1>1, <1>2
  <2> QED BY <2>1, SubSeqProperties
<1> HIDE DEF rest, next
<1>5. Len(rest) = len - k
  BY <1>1, <1>3
<1>6. rest = <<>> <=> k = len
  BY <1>1, <1>3, <1>5, EmptySeq
<1>7. ASSUME rest # <<>>
      PROVE  Head(rest) = s[k + 1] /\ Tail(rest) = next
  <2>1. k + 1 <= len
    BY <1>1, <1>6, <1>7
  <2>2. rest[1] = s[k + 1]
    <3>1. 1 \in 1..len - (k + 1) + 1 /\ k + 1 + 1 - 1 = k + 1
      BY <1>1, <2>1
    <3> QED BY <1>3, <3>1
  <2>3. Head(rest) = rest[1]
    BY <1>3, <1>7
  <2>4. /\ Tail(rest) \in Seq(S) /\ Len(Tail(rest)) = Len(rest) - 1
        /\ \A i \in 1..Len(Tail(rest)) : Tail(rest)[i] = rest[i + 1]
    BY <1>3, <1>7, HeadTailProperties
  <2>5. Len(next) = len - k - 1
    BY <1>1, <1>4, <2>1
  <2>6. ASSUME NEW i \in 1..Len(next)
        PROVE  Tail(rest)[i] = next[i]
    <3>1. i \in 1..Len(Tail(rest)) /\ i + 1 \in 1..len - (k + 1) + 1 /\ k + 1 + (i + 1) - 1 = k + 2 + i - 1
          /\ i \in 1..len - (k + 2) + 1
      BY <1>1, <1>5, <2>1, <2>4, <2>5
    <3>2. Tail(rest)[i] = rest[i + 1] /\ rest[i + 1] = s[k + 1 + (i + 1) - 1] /\ next[i] = s[k + 2 + i - 1]
      BY <1>3, <1>4, <2>4, <3>1
    <3> QED BY <3>1, <3>2
  <2>7. Len(Tail(rest)) = Len(next)
    BY <1>5, <2>4, <2>5
  <2> QED BY <1>4, <2>2, <2>3, <2>4, <2>6, <2>7, SeqEqual
<1> QED BY <1>6, <1>7 DEF rest, next, len

-----------------------------------------------------------------------------
(* The project stays the same, and with it what a block means.             *)
LEMMA SameMeaning ==
    ASSUME project' = project, NEW b
    PROVE  /\ Wanted(b)' = Wanted(b)
           /\ EffectiveCalls(b)' = EffectiveCalls(b)
           /\ Touched(b)' = Touched(b) /\ Meaning(b)' = Meaning(b)
           /\ \A key : NewRow(b, key)' = NewRow(b, key)
           /\ \A k : OperationsUpTo(b, k)' = OperationsUpTo(b, k)
           /\ Models' = Models
<1>1. Models' = Models
  BY DEF Models
<1>2. \A ds, h, input : AskedFor(ds, h, input)' <=> AskedFor(ds, h, input)
  BY DEF AskedFor
<1>3. \A ds, number : ActiveSource(ds, number)' <=> ActiveSource(ds, number)
  BY DEF ActiveSource
<1>4. \A ds, h : WantedInputs(ds, h, b)' = WantedInputs(ds, h, b)
  BY <1>2, <1>3 DEF WantedInputs
<1>5. Wanted(b)' = Wanted(b)
  <2> DEFINE Reached(ds, h, inputs) ==
                [k \in DOMAIN inputs |-> [function |-> h.function, input |-> inputs[k]]]
             sources == project.manifest.data_sources
             OfSource(ds) == [j \in DOMAIN ds.handlers |->
                                Reached(ds, ds.handlers[j], WantedInputs(ds, ds.handlers[j], b))]
             After(ds) == [j \in DOMAIN ds.handlers |->
                                Reached(ds, ds.handlers[j], WantedInputs(ds, ds.handlers[j], b)')]
  <2>1. \A ds : After(ds) = OfSource(ds)
    <3> HIDE DEF Reached
    <3> QED BY <1>4
  <2>2. Wanted(b) = FlattenSeq(FlattenSeq([i \in DOMAIN sources |-> OfSource(sources[i])]))
    BY DEF Wanted
  <2>3. Wanted(b)' = FlattenSeq(FlattenSeq([i \in DOMAIN sources |-> After(sources[i])]))
    BY DEF Wanted
  <2>4. [i \in DOMAIN sources |-> After(sources[i])] = [i \in DOMAIN sources |-> OfSource(sources[i])]
    <3> HIDE DEF After, OfSource, sources
    <3> QED BY <2>1
  <2> QED BY <2>2, <2>3, <2>4
<1>6. \A call : Effective(call)' <=> Effective(call)
  BY <1>1 DEF Effective
<1>7. EffectiveCalls(b)' = EffectiveCalls(b)
  BY <1>5, <1>6 DEF EffectiveCalls
<1>8. Touched(b)' = Touched(b)
  BY <1>7 DEF Touched
<1>9. \A entity : ModelOf(entity)' = ModelOf(entity)
  BY <1>1 DEF ModelOf
<1>10. \A key : NewRow(b, key)' = NewRow(b, key)
  BY <1>7, <1>9 DEF NewRow
<1>11. Meaning(b)' = Meaning(b)
  BY <1>8, <1>10 DEF Meaning
<1>12. \A call : Adds(call)' = Adds(call)
  BY <1>6 DEF Adds
<1>13. \A calls : AddedBy(calls)' = AddedBy(calls)
  BY <1>12 DEF AddedBy
<1>14. \A k : OperationsUpTo(b, k)' = OperationsUpTo(b, k)
  BY <1>5, <1>13 DEF OperationsUpTo
<1> QED BY <1>1, <1>5, <1>7, <1>8, <1>10, <1>11, <1>14

(* What a step that leaves the table or the history alone keeps.           *)
LEMMA TableKept ==
    ASSUME project' = project, table' = table, indexed' = indexed, target' = target, block' = block,
           TableFollows
    PROVE  TableFollows'
<1>1. \A b : ChangedOnlyBy(b)' <=> ChangedOnlyBy(b)
  <2> SUFFICES ASSUME NEW b PROVE ChangedOnlyBy(b)' <=> ChangedOnlyBy(b)
    OBVIOUS
  <2>1. Touched(b)' = Touched(b)
    BY SameMeaning
  <2> QED BY <2>1 DEF ChangedOnlyBy
<1> QED BY <1>1 DEF TableFollows, IdsMatch

LEMMA HistoryKept ==
    ASSUME height' = height, past' = past, indexed' = indexed, HistoryFollows
    PROVE  HistoryFollows'
BY DEF HistoryFollows

LEMMA AbandonedKeeps ==
    ASSUME StoreInvariant, Abandoned, UNCHANGED <<config, project, indexed, historyVars>>,
           phase \in {"running", "writing"},
           Plain => IdsMatch(table)' /\ \A b \in block : ChangedOnlyBy(b)'
    PROVE  StoreInvariant'
<1>1. Plain' <=> Plain
  BY DEF Plain
<1>2. phase' = "idle" /\ block' \subseteq block /\ (Plain => block' = block)
  BY DEF Abandoned, StoreInvariant
<1>3. BlockInProgress'
  BY <1>2 DEF StoreInvariant, BlockInProgress
<1>4. ASSUME Plain PROVE TableFollows'
  <2>1. block' # {}
    BY <1>2, <1>4 DEF StoreInvariant, BlockInProgress
  <2>2. target' = NoTarget
    BY <1>4 DEF StoreInvariant, TableFollows, historyVars
  <2> QED BY <1>2, <1>4, <2>1, <2>2 DEF TableFollows
<1>5. ~Plain => HistoryFollows'
  BY HistoryKept DEF StoreInvariant, historyVars
<1> QED BY <1>1, <1>2, <1>3, <1>4, <1>5 DEF StoreInvariant

LEMMA LoadKeeps ==
    ASSUME StoreInvariant, Load
    PROVE  StoreInvariant'
<1>1. Plain' <=> Plain
  BY DEF Plain, Load
<1>2. phase' \in {"idle", "refused"} /\ block' = block /\ indexed' = indexed /\ config' = config
  BY DEF Load
<1>3. BlockInProgress'
  BY <1>2 DEF StoreInvariant, BlockInProgress
<1>4. Plain => TableFollows'
  BY TableKept DEF StoreInvariant, Load, historyVars
<1>5. ~Plain => HistoryFollows'
  BY HistoryKept DEF StoreInvariant, Load, historyVars
<1> QED BY <1>1, <1>2, <1>3, <1>4, <1>5 DEF StoreInvariant

(* The context of a block is new, or holds what was buffered.              *)
LEMMA ContextOf ==
    ASSUME NEW b, NEW k
    PROVE  LET new == NewContext([height |-> b.number], EntityNames)
               c   == [new EXCEPT !.operations = OperationsUpTo(b, k)]
           IN  /\ c = [block |-> [height |-> b.number], operations |-> OperationsUpTo(b, k),
                       known_entities |-> EntityNames]
               /\ new.operations = <<>>
               /\ OperationsUpTo(b, k) = <<>> => c = new
BY DEF NewContext

LEMMA BeginBlockKeeps ==
    ASSUME StoreInvariant, IndexesAccepted,
           NEW h \in DOMAIN Blocks, NEW b \in Blocks[h], BeginBlock(b)
    PROVE  StoreInvariant'
<1> DEFINE new == NewContext([height |-> b.number], EntityNames)
<1>1. Plain' <=> Plain
  BY DEF Plain, BeginBlock
<1>2. project' = project /\ block' = {b} /\ phase' = "running" /\ indexed' = indexed /\ config' = config
      /\ table' = table /\ target = NoTarget /\ target' = target /\ height' = height /\ past' = past
      /\ \A r \in block : b = r
  BY DEF BeginBlock, historyVars
<1>3. IsBlock(b) /\ project \in Projects /\ PreparesHandlers(project.manifest)
  BY DEF BeginBlock, IndexesAccepted, ProjectAccepted, IsBlock
<1>4. todo' = Wanted(b) /\ context' = {new}
  BY <1>3, InvocationsAsWanted DEF BeginBlock, EntityNames
<1>5. IsList(Wanted(b)) /\ 0 \in 0..Len(Wanted(b))
  BY <1>3, WantedCalls, ListProperties
<1>6. RunUpTo(b, 0)'
  <2>1. Wanted(b)' = Wanted(b) /\ OperationsUpTo(b, 0)' = OperationsUpTo(b, 0) /\ Models' = Models
    BY <1>2, SameMeaning
  <2>2. SubSeq(Wanted(b), 0 + 1, Len(Wanted(b))) = Wanted(b)
    <3>1. 0 + 1 = 1
      OBVIOUS
    <3> QED BY <1>5, <3>1, WholeList
  <2>3. OperationsUpTo(b, 0) = <<>>
    BY <1>3, <1>5, OperationsGrow
  <2>4. [new EXCEPT !.operations = OperationsUpTo(b, 0)] = new
    BY <2>3, ContextOf
  <2>5. new = NewContext([height |-> b.number], {Models[i].name : i \in DOMAIN Models})
    BY DEF EntityNames
  <2> HIDE DEF new
  <2>6. todo' = SubSeq(Wanted(b)', 0 + 1, Len(Wanted(b)'))
    BY <1>4, <2>1, <2>2
  <2>7. context' = {[NewContext([height |-> b.number], {Models'[i].name : i \in DOMAIN Models'})
                       EXCEPT !.operations = OperationsUpTo(b, 0)']}
    BY <1>4, <2>1, <2>4, <2>5
  <2> QED BY <2>6, <2>7 DEF RunUpTo
<1>7. BlockInProgress'
  <2>1. Wanted(b)' = Wanted(b)
    BY <1>2, SameMeaning
  <2> QED BY <1>2, <1>5, <1>6, <2>1 DEF BlockInProgress
<1>8. ASSUME Plain PROVE TableFollows'
  <2>1. TableFollows
    BY <1>8 DEF StoreInvariant
  <2>2. ChangedOnlyBy(b)
    <3>1. CASE block = {}
      BY <2>1, <3>1 DEF TableFollows, ChangedOnlyBy
    <3>2. CASE block # {}
      BY <1>2, <2>1, <3>2 DEF TableFollows
    <3> QED BY <3>1, <3>2
  <2>3. ChangedOnlyBy(b)'
    <3>1. Touched(b)' = Touched(b)
      BY <1>2, SameMeaning
    <3> QED BY <1>2, <2>2, <3>1 DEF ChangedOnlyBy
  <2> QED BY <1>2, <2>1, <2>3 DEF TableFollows, IdsMatch
<1>9. ~Plain => HistoryFollows'
  BY <1>2, HistoryKept DEF StoreInvariant
<1> QED BY <1>1, <1>2, <1>7, <1>8, <1>9 DEF StoreInvariant

(* The block that is being indexed.                                        *)
LEMMA RunningBlock ==
    ASSUME StoreInvariant, IndexesAccepted, phase = "running"
    PROVE  \E b : /\ block = {b} /\ IsBlock(b) /\ IsList(Wanted(b))
                  /\ \E k \in 0..Len(Wanted(b)) : RunUpTo(b, k)
<1>1. PICK b \in block : block = {b} /\ \E k \in 0..Len(Wanted(b)) : RunUpTo(b, k)
  BY DEF StoreInvariant, BlockInProgress
<1>2. \E n \in DOMAIN Blocks : b \in Blocks[n]
  BY DEF StoreInvariant, BlockInProgress
<1>3. IsBlock(b) /\ PreparesHandlers(project.manifest) /\ project \in Projects
  BY <1>2 DEF IndexesAccepted, IsBlock, ProjectAccepted
<1>4. IsList(Wanted(b))
  BY <1>2, <1>3, WantedCalls
<1> QED BY <1>1, <1>3, <1>4

LEMMA InvokeKeeps ==
    ASSUME StoreInvariant, IndexesAccepted, Invoke
    PROVE  StoreInvariant'
<1>1. Plain' <=> Plain
  BY DEF Plain, Invoke
<1>2. project' = project /\ block' = block /\ phase' = phase /\ indexed' = indexed /\ config' = config
      /\ table' = table /\ target' = target /\ height' = height /\ past' = past /\ phase = "running"
  BY DEF Invoke, historyVars
<1>3. PICK b : /\ block = {b} /\ IsBlock(b) /\ IsList(Wanted(b))
               /\ \E k \in 0..Len(Wanted(b)) : RunUpTo(b, k)
  BY <1>2, RunningBlock
<1>4. PICK k \in 0..Len(Wanted(b)) : RunUpTo(b, k)
  BY <1>3
<1> DEFINE all == Wanted(b)
           calls == CallsOf(b, k + 1)
           c(j) == [NewContext([height |-> b.number], EntityNames) EXCEPT !.operations = OperationsUpTo(b, j)]
<1>5. Len(all) \in Nat /\ k \in Nat
  BY <1>3, ListProperties
<1>6. k + 1 \in 0..Len(all) /\ k + 1 <= Len(all) /\ k + 1 \in 1..Len(all)
      /\ Head(todo) = all[k + 1] /\ Tail(todo) = SubSeq(all, k + 2, Len(all))
  <2>1. todo = SubSeq(all, k + 1, Len(all)) /\ todo # <<>>
    BY <1>4 DEF RunUpTo, Invoke
  <2>2. k # Len(all) /\ Head(todo) = all[k + 1] /\ Tail(todo) = SubSeq(all, k + 2, Len(all))
    BY <1>3, <2>1, RestOfList
  <2> QED BY <1>5, <2>2
<1>7. context = {c(k)}
  BY <1>4 DEF RunUpTo, EntityNames
<1>8. context' = {HostCalls(c(k), calls)}
  <2>1. calls = Guest(Head(todo).function, Head(todo).input)
    BY <1>6 DEF CallsOf
  <2> HIDE DEF c, calls
  <2> QED BY <1>7, <2>1 DEF Invoke
<1>9. IsContext(c(k)) /\ c(k).operations = OperationsUpTo(b, k) /\ IsList(OperationsUpTo(b, k))
      /\ c(k).block = [height |-> b.number]
  <2>1. c(k) = [block |-> [height |-> b.number], operations |-> OperationsUpTo(b, k),
                known_entities |-> EntityNames]
    BY ContextOf
  <2>2. IsList(OperationsUpTo(b, k))
    BY <1>3, OperationsGrow
  <2> HIDE DEF c
  <2> QED BY <2>1, <2>2 DEF IsContext
<1>10. AreCalls(calls)
  BY <1>3, <1>6, PartsOfBlock
<1>11. HostCalls(c(k), calls) = c(k + 1)
  <2>1. HostCalls(c(k), calls) = [block |-> c(k).block, operations |-> c(k).operations \o AddedBy(calls),
                                  known_entities |-> EntityNames]
    <3> HIDE DEF c, calls
    <3> QED BY <1>9, <1>10, HandlerAdds
  <2>2. OperationsUpTo(b, k + 1) = OperationsUpTo(b, k) \o AddedBy(calls)
    BY <1>3, <1>6, OperationsGrow
  <2>3. c(k + 1) = [block |-> [height |-> b.number], operations |-> OperationsUpTo(b, k + 1),
                    known_entities |-> EntityNames]
    BY ContextOf
  <2> HIDE DEF c, calls
  <2> QED BY <1>9, <2>1, <2>2, <2>3
<1>12. RunUpTo(b, k + 1)'
  <2>1. Wanted(b)' = Wanted(b) /\ OperationsUpTo(b, k + 1)' = OperationsUpTo(b, k + 1) /\ Models' = Models
    BY <1>2, SameMeaning
  <2>2. todo' = SubSeq(all, (k + 1) + 1, Len(all))
    <3>1. todo' = Tail(todo) /\ (k + 1) + 1 = k + 2
      BY <1>5 DEF Invoke
    <3> QED BY <1>6, <3>1
  <2>3. context' = {[NewContext([height |-> b.number], {Models'[i].name : i \in DOMAIN Models'})
                       EXCEPT !.operations = OperationsUpTo(b, k + 1)']}
    <3>1. context' = {c(k + 1)}
      <4> HIDE DEF c, calls
      <4> QED BY <1>8, <1>11
    <3>2. EntityNames = {Models'[i].name : i \in DOMAIN Models'}
      BY <2>1 DEF EntityNames
    <3> QED BY <2>1, <3>1, <3>2
  <2>4. todo' = SubSeq(Wanted(b)', (k + 1) + 1, Len(Wanted(b)'))
    BY <2>1, <2>2
  <2> QED BY <2>3, <2>4 DEF RunUpTo
<1>13. BlockInProgress'
  <2>1. Wanted(b)' = Wanted(b)
    BY <1>2, SameMeaning
  <2>2. \A r \in block' : \E h \in DOMAIN Blocks : r \in Blocks[h]
    BY <1>2 DEF StoreInvariant, BlockInProgress
  <2>3. target' = NoTarget
    BY <1>2 DEF StoreInvariant, BlockInProgress
  <2> QED BY <1>2, <1>3, <1>6, <1>12, <2>1, <2>2, <2>3 DEF BlockInProgress
<1>14. Plain => TableFollows'
  BY <1>2, TableKept DEF StoreInvariant
<1>15. ~Plain => HistoryFollows'
  BY <1>2, HistoryKept DEF StoreInvariant
<1> QED BY <1>1, <1>2, <1>13, <1>14, <1>15 DEF StoreInvariant

LEMMA FailKeeps ==
    ASSUME StoreInvariant, Fail
    PROVE  StoreInvariant'
<1>1. Plain => IdsMatch(table)' /\ \A b \in block : ChangedOnlyBy(b)'
  <2>1. ASSUME Plain, NEW b \in block PROVE ChangedOnlyBy(b)'
    <3>1. Touched(b)' = Touched(b)
      BY SameMeaning DEF Fail
    <3> QED BY <2>1, <3>1 DEF StoreInvariant, TableFollows, ChangedOnlyBy, Fail
  <2> QED BY <2>1 DEF StoreInvariant, TableFollows, IdsMatch, Fail
<1> QED BY <1>1, AbandonedKeeps DEF Fail

(* All handlers have been run.                                             *)
LEMMA AllBuffered ==
    ASSUME StoreInvariant, IndexesAccepted, phase = "running", todo = <<>>, NEW c \in context
    PROVE  \E b : /\ block = {b} /\ IsBlock(b)
                  /\ TakeOperations(c).taken = OperationsUpTo(b, Len(Wanted(b)))
<1>1. PICK b : /\ block = {b} /\ IsBlock(b) /\ IsList(Wanted(b))
               /\ \E k \in 0..Len(Wanted(b)) : RunUpTo(b, k)
  BY RunningBlock
<1>2. PICK k \in 0..Len(Wanted(b)) : RunUpTo(b, k)
  BY <1>1
<1>3. k = Len(Wanted(b))
  BY <1>1, <1>2, RestOfList DEF RunUpTo
<1>4. c = [NewContext([height |-> b.number], EntityNames) EXCEPT !.operations = OperationsUpTo(b, k)]
  BY <1>2 DEF RunUpTo, EntityNames
<1>5. c.operations = OperationsUpTo(b, k)
  BY <1>4, ContextOf
<1> QED BY <1>1, <1>3, <1>5 DEF TakeOperations

LEMMA BeginWritingKeeps ==
    ASSUME StoreInvariant, IndexesAccepted, BeginWriting
    PROVE  StoreInvariant'
<1>1. Plain' <=> Plain
  BY DEF Plain, BeginWriting
<1>2. project' = project /\ block' = block /\ phase' = "writing" /\ indexed' = indexed /\ config' = config
      /\ table' = table /\ target' = target /\ phase = "running" /\ todo = <<>> /\ Plain
  BY DEF BeginWriting, historyVars
<1>3. PICK c \in context : statements' = TakeOperations(c).taken
  BY DEF BeginWriting
<1>4. PICK b : /\ block = {b} /\ IsBlock(b)
               /\ TakeOperations(c).taken = OperationsUpTo(b, Len(Wanted(b)))
  BY <1>2, AllBuffered
<1> DEFINE calls == EffectiveCalls(b)
           ops == OperationsUpTo(b, Len(Wanted(b)))
<1>5. /\ Len(calls) \in Nat /\ DOMAIN calls = 1..Len(calls)
      /\ IsList(ops) /\ Len(ops) = Len(calls) /\ DOMAIN ops = 1..Len(ops)
      /\ \A i \in 1..Len(calls) : ops[i] = OperationOf(calls[i])
  <2>1. /\ IsList(calls) /\ IsList(ops) /\ Len(ops) = Len(calls)
        /\ \A i \in 1..Len(calls) : ops[i] = OperationOf(calls[i])
    BY <1>4, OperationsAsCalls
  <2> QED BY <2>1, ListProperties
<1> HIDE DEF calls, ops
<1>6. ops = [i \in 1..(Len(calls) - 0) |-> OperationOf(calls[0 + i])]
  <2>1. ops = [i \in 1..Len(ops) |-> ops[i]]
    BY <1>5, LenProperties DEF IsList
  <2>2. \A i \in 1..Len(calls) : ops[i] = OperationOf(calls[0 + i])
    BY <1>5
  <2>3. Len(calls) - 0 = Len(calls)
    BY <1>5
  <2> QED BY <1>5, <2>1, <2>2, <2>3
<1>7. WrittenUpTo(b, 0)'
  <2>1. EffectiveCalls(b)' = calls /\ Touched(b)' = Touched(b)
    BY <1>2, SameMeaning DEF calls
  <2>2. statements' = [i \in 1..(Len(calls) - 0) |-> OperationOf(calls[0 + i])]
    BY <1>3, <1>4, <1>6 DEF ops
  <2>3. \A key \in Touched(b) : \E i \in DOMAIN calls : CallKey(calls[i]) = key /\ ~(i <= 0)
    BY <1>5 DEF Touched, calls
  <2> QED BY <2>1, <2>2, <2>3 DEF WrittenUpTo
<1>8. BlockInProgress'
  <2>1. EffectiveCalls(b)' = calls
    BY <1>2, SameMeaning DEF calls
  <2>2. 0 \in 0..Len(calls)
    BY <1>5
  <2> QED BY <1>2, <1>4, <1>7, <2>1, <2>2 DEF StoreInvariant, BlockInProgress
<1>9. TableFollows'
  BY <1>2, TableKept DEF StoreInvariant
<1> QED BY <1>1, <1>2, <1>8, <1>9 DEF StoreInvariant

(* The block that is being written, without history.                       *)
LEMMA WritingBlock ==
    ASSUME StoreInvariant, IndexesAccepted, phase = "writing"
    PROVE  \E b : /\ block = {b} /\ IsBlock(b) /\ Plain /\ TableFollows
                  /\ ChangedOnlyBy(b) /\ IdsMatch(table)
                  /\ \E k \in 0..Len(EffectiveCalls(b)) : WrittenUpTo(b, k)
<1>1. PICK b \in block : block = {b} /\ \E k \in 0..Len(EffectiveCalls(b)) : WrittenUpTo(b, k)
  BY DEF StoreInvariant, BlockInProgress
<1>2. \E n \in DOMAIN Blocks : b \in Blocks[n]
  BY DEF StoreInvariant, BlockInProgress
<1>3. IsBlock(b)
  BY <1>2 DEF IndexesAccepted, IsBlock
<1>4. Plain /\ TableFollows
  BY DEF StoreInvariant
<1>5. ChangedOnlyBy(b) /\ IdsMatch(table)
  BY <1>4 DEF TableFollows
<1> QED BY <1>1, <1>3, <1>4, <1>5

(* What the next statement makes of the table keeps what has been written. *)
LEMMA ExecutedKeeps ==
    ASSUME StoreInvariant, IndexesAccepted, phase = "writing", statements # <<>>,
           ~StatementFails(Head(statements)), table' = Executed(table, Head(statements)),
           UNCHANGED <<project, indexed>>
    PROVE  \E b : /\ block = {b} /\ IdsMatch(table)' /\ ChangedOnlyBy(b)'
                  /\ statements' = Tail(statements) =>
                        \E k \in 0..Len(EffectiveCalls(b)) : WrittenUpTo(b, k)'
<1>1. PICK b : /\ block = {b} /\ IsBlock(b) /\ ChangedOnlyBy(b) /\ IdsMatch(table)
               /\ \E k \in 0..Len(EffectiveCalls(b)) : WrittenUpTo(b, k)
  BY WritingBlock
<1>2. PICK k \in 0..Len(EffectiveCalls(b)) : WrittenUpTo(b, k)
  BY <1>1
<1> DEFINE calls == EffectiveCalls(b)
           after == Executed(table, Head(statements))
           left == [i \in 1..(Len(calls) - (k + 1)) |-> OperationOf(calls[k + 1 + i])]
           written == \A key \in Touched(b) :
                         (\A i \in DOMAIN calls : CallKey(calls[i]) = key => i <= k + 1)
                         => {e \in after : e[1] = key} = {<<key, r>> : r \in NewRow(b, key)}
<1>3. /\ k + 1 <= Len(calls) /\ Tail(statements) = left /\ written
      /\ {e \in after : e[1] \notin Touched(b)} = {e \in Replay(indexed) : e[1] \notin Touched(b)}
      /\ IdsMatch(after)
  BY <1>1, <1>2, StatementWrites
<1>4. /\ EffectiveCalls(b)' = calls /\ Touched(b)' = Touched(b)
      /\ \A key : NewRow(b, key)' = NewRow(b, key)
  BY SameMeaning
<1>5. table' = after
  OBVIOUS
<1>6. ChangedOnlyBy(b)'
  <2> HIDE DEF after
  <2> QED BY <1>3, <1>4, <1>5 DEF ChangedOnlyBy
<1>7. IdsMatch(table)'
  <2> HIDE DEF after
  <2> QED BY <1>3, <1>5 DEF IdsMatch
<1>8. k + 1 \in 0..Len(calls)
  <2>1. Len(calls) \in Nat
    BY <1>1, OperationsAsCalls, ListProperties
  <2> QED BY <1>3, <2>1
<1>9. ASSUME statements' = Tail(statements)
      PROVE  WrittenUpTo(b, k + 1)'
  <2>1. statements' = left
    BY <1>3, <1>9
  <2>2. statements' = [i \in 1..(Len(EffectiveCalls(b)') - (k + 1)) |-> OperationOf(EffectiveCalls(b)'[k + 1 + i])]
    BY <1>4, <2>1
  <2>3. \A key \in Touched(b)' :
           (\A i \in DOMAIN EffectiveCalls(b)' : CallKey(EffectiveCalls(b)'[i]) = key => i <= k + 1)
           => {e \in table' : e[1] = key} = {<<key, r>> : r \in NewRow(b, key)'}
    <3> HIDE DEF after, calls
    <3> QED BY <1>3, <1>4, <1>5
  <2> QED BY <2>2, <2>3 DEF WrittenUpTo
<1> QED BY <1>1, <1>6, <1>7, <1>8, <1>9

LEMMA StoreKeeps ==
    ASSUME StoreInvariant, IndexesAccepted, Store
    PROVE  StoreInvariant'
<1>1. Plain' <=> Plain
  BY DEF Plain, Store
<1>2. /\ UNCHANGED <<config, project, indexed, historyVars>>
      /\ phase = "writing" /\ statements # <<>> /\ Plain /\ TableFollows
  BY WritingBlock DEF Store
<1>3. CASE StatementFails(Head(statements))
  <2>1. Abandoned /\ table' = table
    BY <1>3 DEF Store
  <2>2. \A b \in block : ChangedOnlyBy(b)'
    <3> SUFFICES ASSUME NEW b \in block PROVE ChangedOnlyBy(b)'
      OBVIOUS
    <3>1. Touched(b)' = Touched(b)
      BY <1>2, SameMeaning
    <3> QED BY <1>2, <2>1, <3>1 DEF TableFollows, ChangedOnlyBy
  <2>3. IdsMatch(table)'
    BY <1>2, <2>1 DEF TableFollows, IdsMatch
  <2> QED BY <1>2, <2>1, <2>2, <2>3, AbandonedKeeps
<1>4. CASE ~StatementFails(Head(statements))
  <2>1. table' = Executed(table, Head(statements)) /\ statements' = Tail(statements)
        /\ phase' = phase /\ block' = block
    BY <1>4 DEF Store
  <2>2. PICK b : /\ block = {b} /\ IdsMatch(table)' /\ ChangedOnlyBy(b)'
                 /\ \E k \in 0..Len(EffectiveCalls(b)) : WrittenUpTo(b, k)'
    BY <1>2, <1>4, <2>1, ExecutedKeeps
  <2>3. EffectiveCalls(b)' = EffectiveCalls(b)
    BY <1>2, SameMeaning
  <2>4. target' = NoTarget
    BY <1>2 DEF TableFollows, historyVars
  <2>5. BlockInProgress'
    <3>1. \A r \in block' : \E h \in DOMAIN Blocks : r \in Blocks[h]
      BY <2>1 DEF StoreInvariant, BlockInProgress
    <3>2. phase' = "writing"
      BY <1>2, <2>1
    <3>3. b \in block' /\ block' = {b}
      BY <2>1, <2>2
    <3>4. \E k \in 0..Len(EffectiveCalls(b)') : WrittenUpTo(b, k)'
      BY <2>2, <2>3
    <3> QED BY <2>4, <3>1, <3>2, <3>3, <3>4 DEF BlockInProgress
  <2>6. TableFollows'
    BY <2>1, <2>2, <2>4 DEF TableFollows
  <2> QED BY <1>1, <1>2, <2>1, <2>5, <2>6 DEF StoreInvariant
<1> QED BY <1>3, <1>4

LEMMA StoreUnansweredKeeps ==
    ASSUME StoreInvariant, IndexesAccepted, StoreUnanswered
    PROVE  StoreInvariant'
<1>1. /\ UNCHANGED <<config, project, indexed, historyVars>> /\ Abandoned
      /\ phase = "writing" /\ statements # <<>> /\ ~StatementFails(Head(statements))
      /\ table' = Executed(table, Head(statements))
  BY DEF StoreUnanswered
<1>2. PICK b : block = {b} /\ IdsMatch(table)' /\ ChangedOnlyBy(b)'
  BY <1>1, ExecutedKeeps
<1>3. \A r \in block : ChangedOnlyBy(r)'
  BY <1>2
<1> QED BY <1>1, <1>2, <1>3, AbandonedKeeps

(* One more indexed block.                                                 *)
LEMMA IndexedAppends ==
    ASSUME StoreInvariant, NEW b, block = {b}, Indexed
    PROVE  /\ indexed' = Append(indexed, Meaning(b))
           /\ IsList(indexed)' /\ Len(indexed') = Len(indexed) + 1
           /\ \A k \in 0..Len(indexed) : SubSeq(indexed', 1, k) = SubSeq(indexed, 1, k)
           /\ SubSeq(indexed', 1, Len(indexed')) = indexed'
           /\ Replay(indexed') = Changed(Replay(indexed), Meaning(b))
           /\ block' = {} /\ phase' = "idle"
<1> DEFINE m == Meaning(b)
<1>1. indexed' = Append(indexed, m) /\ IsList(indexed)
  BY DEF Indexed, StoreInvariant
<1> HIDE DEF m
<1>2. /\ IsList(Append(indexed, m)) /\ Len(Append(indexed, m)) = Len(indexed) + 1
      /\ \A k \in 0..Len(indexed) : SubSeq(Append(indexed, m), 1, k) = SubSeq(indexed, 1, k)
  BY <1>1, AppendToList
<1>3. IsList(indexed')
  BY <1>1, <1>2
<1>4. SubSeq(indexed', 1, Len(indexed')) = indexed'
  BY <1>3, WholeList
<1>5. Replay(Append(indexed, m)) = Changed(Replay(indexed), m)
  <2>1. indexed \in Seq(Range(indexed))
    BY <1>1 DEF IsList
  <2> QED BY <2>1, ReplayAppend
<1>6. IsList(indexed)'
  BY <1>3 DEF IsList, Range
<1>7. block' = {} /\ phase' = "idle"
  BY DEF Indexed
<1> QED BY <1>1, <1>2, <1>4, <1>5, <1>6, <1>7 DEF m

LEMMA FinishWritingKeeps ==
    ASSUME StoreInvariant, IndexesAccepted, FinishWriting
    PROVE  StoreInvariant'
<1>1. Plain' <=> Plain
  BY DEF Plain, FinishWriting
<1>2. /\ UNCHANGED <<config, project, table, historyVars>> /\ Indexed
      /\ phase = "writing" /\ statements = <<>>
  BY DEF FinishWriting
<1>3. PICK b : /\ block = {b} /\ IsBlock(b) /\ Plain /\ TableFollows /\ ChangedOnlyBy(b)
               /\ \E k \in 0..Len(EffectiveCalls(b)) : WrittenUpTo(b, k)
  BY <1>2, WritingBlock
<1>4. table = Changed(Replay(indexed), Meaning(b))
  BY <1>2, <1>3, WrittenAsMeant
<1>5. /\ IsList(indexed)' /\ Replay(indexed') = Changed(Replay(indexed), Meaning(b))
      /\ block' = {} /\ phase' = "idle"
  BY <1>2, <1>3, IndexedAppends
<1>6. BlockInProgress'
  BY <1>5 DEF BlockInProgress
<1>7. TableFollows'
  BY <1>2, <1>3, <1>4, <1>5 DEF TableFollows, IdsMatch, historyVars
<1> QED BY <1>1, <1>2, <1>3, <1>5, <1>6, <1>7 DEF StoreInvariant

LEMMA CommitBlockKeeps ==
    ASSUME StoreInvariant, IndexesAccepted, CommitBlock
    PROVE  StoreInvariant'
<1>1. Plain' <=> Plain
  BY DEF Plain, CommitBlock
<1>2. UNCHANGED <<config, project, table>> /\ phase = "running" /\ todo = <<>> /\ ~Plain /\ HistoryFollows
  BY DEF CommitBlock, StoreInvariant
<1>3. PICK c \in context :
          LET ops == TakeOperations(c).taken
          IN  \/ /\ ~\E i \in DOMAIN ops : StatementFails(ops[i])
                 /\ WriteBlock(NetChanges(ops))
                 /\ Indexed
              \/ /\ \E i \in DOMAIN ops : StatementFails(ops[i])
                 /\ Abandoned
                 /\ UNCHANGED <<indexed, historyVars>>
  BY DEF CommitBlock
<1> DEFINE ops == TakeOperations(c).taken
<1>4. PICK b : block = {b} /\ IsBlock(b) /\ ops = OperationsUpTo(b, Len(Wanted(b)))
  BY <1>2, AllBuffered
<1>5. CASE \E i \in DOMAIN ops : StatementFails(ops[i])
  <2>1. Abandoned /\ UNCHANGED <<indexed, historyVars>>
    BY <1>3, <1>5
  <2>2. UNCHANGED <<config, project, indexed, historyVars>>
    BY <1>2, <2>1
  <2> QED BY <1>2, <2>1, <2>2, AbandonedKeeps
<1>6. CASE ~\E i \in DOMAIN ops : StatementFails(ops[i])
  <2>1. WriteBlock(NetChanges(ops)) /\ Indexed
    BY <1>3, <1>6
  <2>2. NetChanges(ops) = Meaning(b)
    <3> HIDE DEF ops
    <3> QED BY <1>4, <1>6, NetAsMeant
  <2> DEFINE m == Meaning(b)
  <2>3. /\ height' = height + 1
        /\ past' = [k \in 0..height + 1 |-> IF k = height + 1 THEN Changed(past[height], m) ELSE past[k]]
    BY <2>1, <2>2 DEF WriteBlock
  <2>4. /\ IsList(indexed)' /\ Len(indexed') = Len(indexed) + 1
        /\ \A k \in 0..Len(indexed) : SubSeq(indexed', 1, k) = SubSeq(indexed, 1, k)
        /\ SubSeq(indexed', 1, Len(indexed')) = indexed'
        /\ Replay(indexed') = Changed(Replay(indexed), m)
        /\ block' = {} /\ phase' = "idle"
    BY <1>4, <2>1, IndexedAppends
  <2>5. /\ Len(indexed) \in Nat /\ SubSeq(indexed, 1, Len(indexed)) = indexed
        /\ height = Len(indexed) /\ \A k \in 0..height : past[k] = Replay(SubSeq(indexed, 1, k))
    BY <1>2, ListProperties, WholeList DEF HistoryFollows, StoreInvariant
  <2>6. past[height] = Replay(indexed)
    <3>1. height \in 0..height
      BY <2>5
    <3>2. past[height] = Replay(SubSeq(indexed, 1, height))
      BY <2>5, <3>1
    <3> QED BY <2>5, <3>2
  <2> HIDE DEF m
  <2>7. ASSUME NEW k \in 0..height + 1
        PROVE  past'[k] = Replay(SubSeq(indexed', 1, k))
    <3>1. CASE k = height + 1
      <4>1. past'[k] = Changed(past[height], m)
        BY <2>3, <3>1
      <4>2. k = Len(indexed')
        BY <2>4, <2>5, <3>1
      <4> QED BY <2>4, <2>6, <4>1, <4>2
    <3>2. CASE k # height + 1
      <4>1. k \in 0..height /\ k \in 0..Len(indexed)
        BY <2>5, <3>2
      <4>2. past'[k] = past[k]
        BY <2>3, <3>2
      <4> QED BY <2>4, <2>5, <4>1, <4>2
    <3> QED BY <3>1, <3>2
  <2>8. HistoryFollows'
    BY <2>3, <2>4, <2>5, <2>7 DEF HistoryFollows
  <2>9. BlockInProgress'
    BY <2>4 DEF BlockInProgress
  <2> QED BY <1>1, <1>2, <2>4, <2>8, <2>9 DEF StoreInvariant
<1> QED BY <1>5, <1>6

LEMMA StartRewindKeeps ==
    ASSUME StoreInvariant, StartRewind
    PROVE  StoreInvariant'
<1>1. Plain' <=> Plain
  BY DEF Plain, StartRewind, indexVars
<1>2. ~Plain /\ phase' = "idle" /\ block' = block /\ indexed' = indexed /\ config' = config
      /\ height' = height /\ past' = past
  BY DEF StartRewind, indexVars, BeginRewind
<1>3. BlockInProgress'
  BY <1>2 DEF StoreInvariant, BlockInProgress
<1>4. HistoryFollows'
  BY <1>2, HistoryKept DEF StoreInvariant
<1> QED BY <1>1, <1>2, <1>3, <1>4 DEF StoreInvariant

LEMMA SameStore ==
    ASSUME StoreInvariant, UNCHANGED indexVars, UNCHANGED <<height, target, past>>
    PROVE  StoreInvariant'
<1>1. /\ project' = project /\ config' = config /\ phase' = phase /\ block' = block /\ todo' = todo
      /\ context' = context /\ statements' = statements /\ table' = table /\ indexed' = indexed
      /\ height' = height /\ target' = target /\ past' = past
  BY DEF indexVars
<1>2. Plain' <=> Plain
  BY <1>1 DEF Plain
<1>3. \A b, k : RunUpTo(b, k) => RunUpTo(b, k)'
  <2> SUFFICES ASSUME NEW b, NEW k, RunUpTo(b, k) PROVE RunUpTo(b, k)'
    OBVIOUS
  <2>1. Wanted(b)' = Wanted(b) /\ OperationsUpTo(b, k)' = OperationsUpTo(b, k) /\ Models' = Models
    BY <1>1, SameMeaning
  <2>2. todo' = SubSeq(Wanted(b)', k + 1, Len(Wanted(b)'))
    BY <1>1, <2>1 DEF RunUpTo
  <2>3. context' = {[NewContext([height |-> b.number], {Models'[i].name : i \in DOMAIN Models'})
                       EXCEPT !.operations = OperationsUpTo(b, k)']}
    BY <1>1, <2>1 DEF RunUpTo
  <2> QED BY <2>2, <2>3 DEF RunUpTo
<1>4. \A b, k : WrittenUpTo(b, k) => WrittenUpTo(b, k)'
  <2> SUFFICES ASSUME NEW b, NEW k, WrittenUpTo(b, k) PROVE WrittenUpTo(b, k)'
    OBVIOUS
  <2>1. /\ EffectiveCalls(b)' = EffectiveCalls(b) /\ Touched(b)' = Touched(b)
        /\ \A key : NewRow(b, key)' = NewRow(b, key)
    BY <1>1, SameMeaning
  <2>2. statements' = [i \in 1..(Len(EffectiveCalls(b)') - k) |-> OperationOf(EffectiveCalls(b)'[k + i])]
    BY <1>1, <2>1 DEF WrittenUpTo
  <2>3. \A key \in Touched(b)' :
           (\A i \in DOMAIN EffectiveCalls(b)' : CallKey(EffectiveCalls(b)'[i]) = key => i <= k)
           => {e \in table' : e[1] = key} = {<<key, r>> : r \in NewRow(b, key)'}
    BY <1>1, <2>1 DEF WrittenUpTo
  <2> QED BY <2>2, <2>3 DEF WrittenUpTo
<1>5. \A b : Wanted(b)' = Wanted(b) /\ EffectiveCalls(b)' = EffectiveCalls(b)
  BY <1>1, SameMeaning
<1>6. BlockInProgress'
  <2>1. BlockInProgress
    BY DEF StoreInvariant
  <2>2. ASSUME phase' = "running"
        PROVE  \E b \in block' : block' = {b} /\ \E k \in 0..Len(Wanted(b)') : RunUpTo(b, k)'
    <3>1. PICK b \in block : block = {b} /\ \E k \in 0..Len(Wanted(b)) : RunUpTo(b, k)
      BY <1>1, <2>1, <2>2 DEF BlockInProgress
    <3>2. \E k \in 0..Len(Wanted(b)') : RunUpTo(b, k)'
      BY <1>3, <1>5, <3>1
    <3> QED BY <1>1, <3>1, <3>2
  <2>3. ASSUME phase' = "writing"
        PROVE  \E b \in block' : block' = {b} /\ \E k \in 0..Len(EffectiveCalls(b)') : WrittenUpTo(b, k)'
    <3>1. PICK b \in block : block = {b} /\ \E k \in 0..Len(EffectiveCalls(b)) : WrittenUpTo(b, k)
      BY <1>1, <2>1, <2>3 DEF BlockInProgress
    <3>2. \E k \in 0..Len(EffectiveCalls(b)') : WrittenUpTo(b, k)'
      BY <1>4, <1>5, <3>1
    <3> QED BY <1>1, <3>1, <3>2
  <2>4. /\ \A b \in block' : \E h \in DOMAIN Blocks : b \in Blocks[h]
        /\ phase' \in {"running", "writing"} => target' = NoTarget
    BY <1>1, <2>1 DEF BlockInProgress
  <2> QED BY <2>2, <2>3, <2>4 DEF BlockInProgress
<1>7. Plain => TableFollows'
  BY <1>1, TableKept DEF StoreInvariant
<1>8. ~Plain => HistoryFollows'
  BY <1>1, HistoryKept DEF StoreInvariant
<1> QED BY <1>1, <1>2, <1>6, <1>7, <1>8 DEF StoreInvariant

LEMMA RewindStatementKeeps ==
    ASSUME StoreInvariant, RewindStatement
    PROVE  StoreInvariant'
<1>1. UNCHANGED indexVars /\ UNCHANGED <<height, target, past>>
  BY DEF RewindStatement, RunDelete, RunReopen, RewindInterrupted
<1> QED BY <1>1, SameStore

LEMMA FinishRewindKeeps ==
    ASSUME StoreInvariant, HistoryInvariant, FinishRewind
    PROVE  /\ StoreInvariant' /\ ~Plain
           /\ target \in 0..Len(indexed) /\ target < Len(indexed)
<1>1. /\ UNCHANGED <<config, project, phase, block>> /\ indexed' = SubSeq(indexed, 1, target)
      /\ target # NoTarget /\ height' = target /\ past' = [k \in 0..target |-> past[k]]
  BY DEF FinishRewind, EndRewind
<1>2. ~Plain /\ HistoryFollows /\ phase \notin {"running", "writing"}
  BY <1>1 DEF StoreInvariant, TableFollows, BlockInProgress
<1>3. height = Len(indexed) /\ height \in Nat /\ target \in Nat /\ target < height
  BY <1>1, <1>2 DEF HistoryFollows, HistoryInvariant, HistoryShape, Height
<1>4. target \in 0..Len(indexed) /\ target < Len(indexed)
  BY <1>3
<1>5. IsList(indexed') /\ Len(indexed') = target
  <2>1. IsList(indexed)
    BY DEF StoreInvariant
  <2> QED BY <1>1, <1>4, <2>1, PrefixOf
<1>6. ASSUME NEW k \in 0..target
      PROVE  past'[k] = Replay(SubSeq(indexed', 1, k))
  <2>1. k \in 0..height
    BY <1>3
  <2>2. past'[k] = past[k] /\ past[k] = Replay(SubSeq(indexed, 1, k))
    BY <1>1, <1>2, <2>1 DEF HistoryFollows
  <2>3. SubSeq(SubSeq(indexed, 1, target), 1, k) = SubSeq(indexed, 1, k)
    BY <1>4, PrefixOfPrefix DEF StoreInvariant
  <2> QED BY <1>1, <2>2, <2>3
<1>7. HistoryFollows'
  BY <1>1, <1>5, <1>6 DEF HistoryFollows
<1>8. BlockInProgress'
  BY <1>1, <1>2 DEF StoreInvariant, BlockInProgress
<1>9. Plain' <=> Plain
  BY <1>1 DEF Plain
<1>10. IsList(indexed)'
  BY <1>5 DEF IsList, Range
<1> QED BY <1>1, <1>2, <1>4, <1>7, <1>8, <1>9, <1>10 DEF StoreInvariant

LEMMA StoreStarts == IndexingInit => StoreInvariant
<1> SUFFICES ASSUME IndexingInit PROVE StoreInvariant
  OBVIOUS
<1>1. /\ phase = "off" /\ block = {} /\ table = {} /\ indexed = <<>> /\ target = NoTarget
      /\ height = 0 /\ past = [k \in {0} |-> {}] /\ Validate(config)
  BY DEF IndexingInit, HistoryInit
<1>2. IsList(indexed) /\ Len(indexed) = 0
  <2>1. <<>> \in Seq({})
    OBVIOUS
  <2> QED BY <1>1, <2>1, SeqIsList
<1>3. Plain => ~config.unfinalized_blocks
  BY <1>1 DEF Plain, Validate, HistoryForRewind
<1>4. BlockInProgress
  BY <1>1 DEF BlockInProgress
<1>5. TableFollows
  BY <1>1, ReplayStarts DEF TableFollows, IdsMatch
<1>6. HistoryFollows
  <2>1. SubSeq(indexed, 1, 0) = <<>>
    BY <1>2, WholeList, EmptySeq, <1>1
  <2>2. \A k \in 0..height : k = 0
    BY <1>1
  <2> QED BY <1>1, <1>2, <2>1, <2>2, ReplayStarts DEF HistoryFollows
<1> QED BY <1>1, <1>2, <1>3, <1>4, <1>5, <1>6 DEF StoreInvariant

(* Every step keeps it.                                                    *)
LEMMA StepKeepsStore ==
    ASSUME StoreInvariant, IndexesAccepted, HistoryInvariant, [IndexingNext]_allVars
    PROVE  StoreInvariant'
<1>1. CASE \E h \in DOMAIN Blocks \intersect {Len(indexed) + 1} : \E b \in Blocks[h] : BeginBlock(b)
  BY <1>1, BeginBlockKeeps
<1>2. CASE UNCHANGED allVars
  <2>1. UNCHANGED indexVars /\ UNCHANGED <<height, target, past>>
    BY <1>2 DEF allVars, historyVars
  <2> QED BY <2>1, SameStore
<1> QED BY <1>1, <1>2, LoadKeeps, InvokeKeeps, FailKeeps, BeginWritingKeeps, StoreKeeps,
           StoreUnansweredKeeps, FinishWritingKeeps, CommitBlockKeeps, StartRewindKeeps,
           RewindStatementKeeps, FinishRewindKeeps DEF IndexingNext

LEMMA IndexingKeepsStore == IndexingSpec => []StoreInvariant
<1>1. IndexingInit => StoreInvariant
  BY StoreStarts
<1>2. StoreInvariant /\ IndexesAccepted /\ HistoryInvariant /\ [IndexingNext]_allVars => StoreInvariant'
  BY StepKeepsStore
<1>3. IndexingSpec => []IndexesAccepted /\ []HistoryInvariant
  BY ProjectStaysAccepted, IndexingKeepsHistory
<1> QED BY <1>1, <1>2, <1>3, PTL DEF IndexingSpec

-----------------------------------------------------------------------------
(* The abstract store, in the same words.                                  *)
LEMMA ChangedAlike ==
    ASSUME NEW e, NEW changes
    PROVE  Abstract!Changed(e, changes) = Changed(e, changes)
BY DEF Abstract!Changed, Changed

LEMMA ReplayAlike ==
    ASSUME NEW blocks
    PROVE  Abstract!Replay(blocks) = Replay(blocks)
BY DEF Abstract!Replay, Replay, Abstract!Changed, Changed

LEMMA EntitiesFollow ==
    ASSUME StoreInvariant, HistoryInvariant
    PROVE  Entities = Replay(indexed)
<1>1. CASE Unsettled
  BY <1>1 DEF Entities
<1>2. CASE ~Unsettled /\ Plain
  BY <1>2 DEF Entities, Unsettled, Visible, StoreInvariant, TableFollows
<1>3. CASE ~Unsettled /\ ~Plain
  <2>1. target = NoTarget /\ HistoryFollows /\ IsList(indexed)
    BY <1>3 DEF Unsettled, StoreInvariant
  <2>2. height \in 0..height
    BY <2>1 DEF HistoryInvariant, HistoryShape, Height
  <2>3. AsOf(versions, height) = past[height]
    BY <2>1, <2>2 DEF HistoryInvariant, HistoryIntact, Settled
  <2>4. past[height] = Replay(SubSeq(indexed, 1, height)) /\ height = Len(indexed)
    BY <2>1, <2>2 DEF HistoryFollows
  <2>5. SubSeq(indexed, 1, height) = indexed
    BY <2>1, <2>4, WholeList
  <2> QED BY <1>3, <2>3, <2>4, <2>5 DEF Entities, Visible
<1> QED BY <1>1, <1>2, <1>3

LEMMA AppendIndexes ==
    ASSUME IsList(indexed), NEW m, indexed' = Append(indexed, m),
           Entities = Replay(indexed), Entities' = Replay(indexed')
    PROVE  Abstract!IndexBlock
<1> DEFINE S == Range(indexed) \union {m}
           t == Append(indexed, m)
<1>1. indexed \in Seq(S) /\ m \in S /\ indexed \in Seq(Range(indexed))
  BY SeqMonotonic DEF IsList
<1> HIDE DEF S
<1>2. /\ t \in Seq(S) /\ Len(t) = Len(indexed) + 1 /\ Len(indexed) \in Nat
      /\ \A i \in 1..Len(indexed) + 1 : t[i] = IF i <= Len(indexed) THEN indexed[i] ELSE m
  BY <1>1, AppendProperties, LenProperties
<1>3. Abstract!Last(t) = m /\ t # <<>>
  <2>1. Len(indexed) + 1 \in 1..Len(indexed) + 1 /\ ~(Len(indexed) + 1 <= Len(indexed))
    BY <1>2
  <2>2. t[Len(t)] = m
    BY <1>2, <2>1
  <2>3. Len(t) # 0
    BY <1>2
  <2> HIDE DEF t
  <2> QED BY <2>2, <2>3 DEF Abstract!Last
<1>4. Abstract!Front(t) = indexed
  <2>1. Abstract!Front(t) = SubSeq(t, 1, Len(indexed))
    <3> HIDE DEF t
    <3>1. Len(t) - 1 = Len(indexed)
      BY <1>2
    <3> QED BY <3>1 DEF Abstract!Front
  <2>2. Len(indexed) \in 0..Len(indexed)
    BY <1>2
  <2>3. SubSeq(t, 1, Len(indexed)) = SubSeq(indexed, 1, Len(indexed))
    BY <2>2, AppendToList
  <2> QED BY <2>1, <2>3, WholeList
<1>5. Entities' = Abstract!Changed(Entities, m)
  BY <1>1, ReplayAppend, ChangedAlike
<1> HIDE DEF t
<1>6. indexed' = t
  BY DEF t
<1> QED BY <1>3, <1>4, <1>5, <1>6 DEF Abstract!IndexBlock

LEMMA PrefixRewinds ==
    ASSUME IsList(indexed), NEW n \in 0..Len(indexed), n < Len(indexed), indexed' = SubSeq(indexed, 1, n),
           Entities' = Replay(indexed')
    PROVE  Abstract!Rewind
<1> DEFINE t == SubSeq(indexed, 1, n)
<1>1. IsList(t) /\ Len(t) = n /\ Len(indexed) \in Nat
  BY PrefixOf, ListProperties
<1>2. Abstract!IsStrictPrefix(t, indexed)
  <2>1. SubSeq(indexed, 1, Len(t)) = t
    BY <1>1
  <2>2. t # indexed /\ Len(t) <= Len(indexed)
    BY <1>1
  <2> HIDE DEF t
  <2> QED BY <1>1, <2>1, <2>2 DEF Abstract!IsStrictPrefix, Abstract!IsPrefix
<1>3. Entities' = Abstract!Replay(indexed')
  BY ReplayAlike
<1> QED BY <1>2, <1>3 DEF Abstract!Rewind

(* Only three steps change what has been indexed.                          *)
LEMMA IndexedSteps ==
    ASSUME StoreInvariant, IndexesAccepted, HistoryInvariant, [IndexingNext]_allVars
    PROVE  \/ indexed' = indexed
           \/ \E m : indexed' = Append(indexed, m)
           \/ \E n \in 0..Len(indexed) : n < Len(indexed) /\ indexed' = SubSeq(indexed, 1, n)
<1>1. CASE FinishWriting \/ CommitBlock
  BY <1>1 DEF FinishWriting, CommitBlock, Indexed
<1>2. CASE FinishRewind
  BY <1>2, FinishRewindKeeps DEF FinishRewind
<1>3. CASE ~(FinishWriting \/ CommitBlock) /\ ~FinishRewind
  BY <1>3 DEF IndexingNext, Load, BeginBlock, Invoke, Fail, BeginWriting, Store, StoreUnanswered,
              StartRewind, RewindStatement, allVars, indexVars
<1> QED BY <1>1, <1>2, <1>3

(* Indexing implements the abstract store, for every project, every        *)
(* configuration and every chain.                                          *)
THEOREM IndexingImplementsBlockStore == IndexingSpec => ImplementsBlockStore
<1> DEFINE Inv == StoreInvariant /\ IndexesAccepted /\ HistoryInvariant
<1>1. IndexingSpec => []Inv
  BY IndexingKeepsStore, ProjectStaysAccepted, IndexingKeepsHistory, PTL
<1>2. IndexingInit => Abstract!Init
  <2> SUFFICES ASSUME IndexingInit PROVE Abstract!Init
    OBVIOUS
  <2>1. StoreInvariant /\ HistoryInvariant
    BY StoreStarts, HistoryStarts DEF IndexingInit
  <2>2. indexed = <<>>
    BY DEF IndexingInit
  <2>3. Entities = {}
    BY <2>1, <2>2, EntitiesFollow, ReplayStarts
  <2> QED BY <2>2, <2>3 DEF Abstract!Init
<1>3. ASSUME Inv, Inv', [IndexingNext]_allVars
      PROVE  [Abstract!Next]_Abstract!vars
  <2>1. Entities = Replay(indexed)
    BY <1>3, EntitiesFollow
  <2>2. Entities' = Replay(indexed')
    <3>1. StoreInvariant /\ HistoryInvariant => Entities = Replay(indexed)
      BY EntitiesFollow
    <3>2. (StoreInvariant /\ HistoryInvariant => Entities = Replay(indexed))'
      BY EntitiesFollow, PTL
    <3> QED BY <1>3, <3>2
  <2>3. CASE indexed' = indexed
    BY <2>1, <2>2, <2>3 DEF Abstract!vars
  <2>4. CASE \E m : indexed' = Append(indexed, m)
    BY <1>3, <2>1, <2>2, <2>4, AppendIndexes DEF StoreInvariant, Abstract!Next
  <2>5. CASE \E n \in 0..Len(indexed) : n < Len(indexed) /\ indexed' = SubSeq(indexed, 1, n)
    BY <1>3, <2>2, <2>5, PrefixRewinds DEF StoreInvariant, Abstract!Next
  <2> QED BY <1>3, <2>3, <2>4, <2>5, IndexedSteps
<1>4. QED
  BY <1>1, <1>2, <1>3, PTL DEF IndexingSpec, ImplementsBlockStore, Abstract!Spec

-----------------------------------------------------------------------------
(* Every order of a finite set: it can be listed in that order, in one way. *)
IsOrder(R, S) ==
    \A x, y, z \in S :
        /\ <<x, x>> \notin R
        /\ x = y \/ <<x, y>> \in R \/ <<y, x>> \in R
        /\ <<x, y>> \in R /\ <<y, z>> \in R => <<x, z>> \in R

Ordered(s, R) == \A i, j \in DOMAIN s : i < j => <<s[i], s[j]>> \in R

(* A listing of a set has every element at one place.                      *)
LEMMA ListingProperties ==
    ASSUME NEW S, IsFiniteSet(S), NEW s \in SetToSeqs(S)
    PROVE  /\ s \in Seq(S) /\ Len(s) = Cardinality(S) /\ Len(s) \in Nat /\ DOMAIN s = 1..Len(s)
           /\ \A i \in 1..Len(s) : s[i] \in S
           /\ \A i, j \in 1..Len(s) : s[i] = s[j] => i = j
           /\ \A x \in S : \E i \in 1..Len(s) : s[i] = x
<1> DEFINE N == Cardinality(S)
<1>1. N \in Nat
  BY FS_CardinalityType
<1>2. s \in [1..N -> S] /\ \A i, j \in 1..N : i # j => s[i] # s[j]
  BY DEF SetToSeqs
<1> HIDE DEF N
<1>3. s \in Seq(S) /\ Len(s) = N /\ DOMAIN s = 1..N
  BY <1>1, <1>2
<1>4. s \in Injection(1..N, S)
  BY <1>2 DEF Injection, IsInjective
<1>5. IsFiniteSet(1..N) /\ Cardinality(1..N) = Cardinality(S)
  BY <1>1, FS_Interval DEF N
<1>6. s \in Surjection(1..N, S)
  BY <1>4, <1>5, FS_Injection
<1>7. \A x \in S : \E i \in 1..N : s[i] = x
  BY <1>6 DEF Surjection
<1> QED BY <1>1, <1>2, <1>3, <1>7 DEF N

(* The place of an element is the number of those up to it.                *)
LEMMA OrderedListing ==
    ASSUME NEW S, IsFiniteSet(S), NEW R, IsOrder(R, S)
    PROVE  \E s \in SetToSeqs(S) : Ordered(s, R)
<1> DEFINE upTo(k) == {l \in S : l = k \/ <<l, k>> \in R}
           rank == [k \in S |-> Cardinality(upTo(k))]
           N == Cardinality(S)
<1>1. N \in Nat
  BY FS_CardinalityType
<1>2. ASSUME NEW k \in S
      PROVE  IsFiniteSet(upTo(k)) /\ rank[k] \in 1..N
  <2>1. upTo(k) \in SUBSET S /\ k \in upTo(k)
    OBVIOUS
  <2> HIDE DEF upTo
  <2>2. IsFiniteSet(upTo(k)) /\ Cardinality(upTo(k)) <= N
    BY <2>1, FS_Subset
  <2>3. Cardinality(upTo(k)) \in Nat /\ Cardinality(upTo(k)) # 0
    BY <2>1, <2>2, FS_CardinalityType, FS_EmptySet
  <2>4. rank[k] = Cardinality(upTo(k))
    OBVIOUS
  <2> HIDE DEF rank, N
  <2> QED BY <2>2, <2>3, <2>4, <1>1
<1>3. ASSUME NEW j \in S, NEW k \in S, <<j, k>> \in R
      PROVE  rank[j] < rank[k]
  <2>1. k \in upTo(k) /\ k \notin upTo(j)
    BY <1>3 DEF IsOrder
  <2>2. \A l \in upTo(j) : l \in upTo(k)
    BY <1>3 DEF IsOrder
  <2>3. upTo(j) \in SUBSET upTo(k) /\ upTo(j) # upTo(k)
    BY <2>1, <2>2
  <2>4. IsFiniteSet(upTo(k))
    BY <1>2
  <2>5. rank[j] = Cardinality(upTo(j)) /\ rank[k] = Cardinality(upTo(k))
    OBVIOUS
  <2>6. rank[j] \in 1..N /\ rank[k] \in 1..N
    BY <1>2
  <2> HIDE DEF upTo, rank
  <2>7. Cardinality(upTo(j)) <= Cardinality(upTo(k)) /\ Cardinality(upTo(j)) # Cardinality(upTo(k))
    BY <2>3, <2>4, FS_Subset
  <2> HIDE DEF N
  <2> QED BY <2>5, <2>6, <2>7, <1>1
<1>4. rank \in [S -> 1..N]
  BY <1>2
<1> HIDE DEF rank, upTo, N
<1>5. \A j, k \in S : rank[j] = rank[k] => j = k
  <2> SUFFICES ASSUME NEW j \in S, NEW k \in S, j # k PROVE rank[j] # rank[k]
    OBVIOUS
  <2>1. <<j, k>> \in R \/ <<k, j>> \in R
    BY DEF IsOrder
  <2>2. rank[j] < rank[k] \/ rank[k] < rank[j]
    BY <2>1, <1>3
  <2> QED BY <1>1, <1>4, <2>2
<1>6. rank \in Injection(S, 1..N)
  BY <1>4, <1>5 DEF Injection, IsInjective
<1>7. IsFiniteSet(1..N) /\ Cardinality(1..N) = Cardinality(S)
  BY <1>1, FS_Interval DEF N
<1>8. \A i \in 1..N : \E k \in S : rank[k] = i
  <2>1. rank \in Surjection(S, 1..N)
    BY <1>6, <1>7, FS_Injection
  <2> QED BY <2>1 DEF Surjection
<1> DEFINE s == [i \in 1..N |-> CHOOSE k \in S : rank[k] = i]
<1>9. \A i \in 1..N : s[i] \in S /\ rank[s[i]] = i
  BY <1>8
<1>10. s \in [1..N -> S] /\ DOMAIN s = 1..N
  BY <1>9
<1> HIDE DEF s
<1>11. s \in SetToSeqs(S)
  <2>1. \A i, j \in 1..N : i # j => s[i] # s[j]
    BY <1>9
  <2> QED BY <1>10, <2>1 DEF SetToSeqs, N
<1>12. Ordered(s, R)
  <2> SUFFICES ASSUME NEW i \in 1..N, NEW j \in 1..N, i < j PROVE <<s[i], s[j]>> \in R
    BY <1>10 DEF Ordered
  <2>1. s[i] \in S /\ s[j] \in S /\ rank[s[i]] = i /\ rank[s[j]] = j
    BY <1>9
  <2>2. s[i] # s[j] /\ ~(rank[s[j]] < rank[s[i]])
    BY <1>1, <2>1
  <2>3. <<s[j], s[i]>> \notin R
    BY <1>3, <2>1, <2>2
  <2> QED BY <2>1, <2>2, <2>3 DEF IsOrder
<1> QED BY <1>11, <1>12

LEMMA OrderedOnce ==
    ASSUME NEW S, IsFiniteSet(S), NEW R, IsOrder(R, S),
           NEW s \in SetToSeqs(S), Ordered(s, R), NEW t \in SetToSeqs(S), Ordered(t, R)
    PROVE  s = t
<1> DEFINE N == Cardinality(S)
           Off == {i \in 1..N : s[i] # t[i]}
<1>1. /\ s \in Seq(S) /\ Len(s) = N /\ N \in Nat /\ DOMAIN s = 1..N
      /\ \A i \in 1..N : s[i] \in S
      /\ \A i, j \in 1..N : s[i] = s[j] => i = j
      /\ \A x \in S : \E i \in 1..N : s[i] = x
  BY ListingProperties
<1>2. /\ t \in Seq(S) /\ Len(t) = N /\ DOMAIN t = 1..N
      /\ \A i \in 1..N : t[i] \in S
      /\ \A i, j \in 1..N : t[i] = t[j] => i = j
      /\ \A x \in S : \E i \in 1..N : t[i] = x
  BY ListingProperties
<1> HIDE DEF N
<1>3. Off = {}
  <2> SUFFICES ASSUME Off # {} PROVE FALSE
    OBVIOUS
  <2>1. Off \in SUBSET Nat
    BY <1>1
  <2>2. PICK m \in Off : \A k \in Off : m <= k
    BY <2>1, LeastNatural
  <2>3. m \in 1..N /\ s[m] # t[m] /\ \A k \in 1..N : k < m => s[k] = t[k]
    BY <1>1, <2>2
  <2> HIDE DEF Off
  <2>4. <<s[m], t[m]>> \in R
    <3>1. PICK j \in 1..N : s[j] = t[m]
      BY <1>1, <1>2, <2>3
    <3>2. ~(j < m) /\ j # m
      BY <1>2, <2>3, <3>1
    <3>3. m < j
      BY <1>1, <2>3, <3>2
    <3> QED BY <1>1, <2>3, <3>1, <3>3 DEF Ordered
  <2>5. <<t[m], s[m]>> \in R
    <3>1. PICK j \in 1..N : t[j] = s[m]
      BY <1>1, <1>2, <2>3
    <3>2. ~(j < m) /\ j # m
      BY <1>1, <2>3, <3>1
    <3>3. m < j
      BY <1>1, <2>3, <3>2
    <3> QED BY <1>2, <2>3, <3>1, <3>3 DEF Ordered
  <2> QED BY <1>1, <1>2, <2>3, <2>4, <2>5 DEF IsOrder
<1>4. \A i \in 1..Len(s) : s[i] = t[i]
  BY <1>1, <1>3
<1> QED BY <1>1, <1>2, <1>4, SeqEqual

(* A listing read from its end.                                            *)
LEMMA ReverseProperties ==
    ASSUME NEW S, NEW s \in Seq(S)
    PROVE  /\ Reverse(s) \in Seq(S) /\ Len(Reverse(s)) = Len(s)
           /\ \A i \in 1..Len(s) : Reverse(s)[i] = s[Len(s) - i + 1]
           /\ Reverse(Reverse(s)) = s
<1> DEFINE N == Len(s)
           r == Reverse(s)
<1>1. N \in Nat /\ \A i \in 1..N : s[i] \in S /\ N - i + 1 \in 1..N
  OBVIOUS
<1>2. r = [i \in 1..N |-> s[N - i + 1]]
  BY DEF Reverse
<1> HIDE DEF r, N
<1>3. r \in [1..N -> S]
  BY <1>1, <1>2
<1>4. r \in Seq(S) /\ Len(r) = N
  BY <1>1, <1>3
<1>5. \A i \in 1..N : r[i] = s[N - i + 1]
  BY <1>2
<1> DEFINE q == Reverse(r)
<1>6. q = [i \in 1..N |-> r[N - i + 1]]
  BY <1>4 DEF Reverse
<1> HIDE DEF q
<1>7. \A i \in 1..N : q[i] = s[i]
  <2> SUFFICES ASSUME NEW i \in 1..N PROVE q[i] = s[i]
    OBVIOUS
  <2>1. N - i + 1 \in 1..N /\ N - (N - i + 1) + 1 = i
    BY <1>1
  <2> QED BY <1>5, <1>6, <2>1
<1>8. q \in [1..N -> S]
  BY <1>1, <1>6, <1>7
<1>9. q \in Seq(S) /\ Len(q) = N
  BY <1>1, <1>8
<1>10. q = s
  BY <1>7, <1>9, SeqEqual DEF N
<1> QED BY <1>4, <1>5, <1>10 DEF r, q, N

LEMMA ReversedListing ==
    ASSUME NEW S, IsFiniteSet(S), NEW s \in SetToSeqs(S)
    PROVE  Reverse(s) \in SetToSeqs(S)
<1>1. /\ s \in Seq(S) /\ Len(s) = Cardinality(S) /\ Len(s) \in Nat
      /\ \A i, j \in 1..Len(s) : s[i] = s[j] => i = j
  BY ListingProperties
<1>2. /\ Reverse(s) \in Seq(S) /\ Len(Reverse(s)) = Len(s)
      /\ \A i \in 1..Len(s) : Reverse(s)[i] = s[Len(s) - i + 1]
  BY <1>1, ReverseProperties
<1> DEFINE r == Reverse(s)
           N == Cardinality(S)
<1>3. r \in [1..N -> S]
  BY <1>1, <1>2
<1>4. \A i, j \in 1..N : i # j => r[i] # r[j]
  <2> SUFFICES ASSUME NEW i \in 1..N, NEW j \in 1..N, i # j PROVE r[i] # r[j]
    OBVIOUS
  <2>1. N - i + 1 \in 1..N /\ N - j + 1 \in 1..N /\ N - i + 1 # N - j + 1
    BY <1>1
  <2> QED BY <1>1, <1>2, <2>1
<1> HIDE DEF r
<1> QED BY <1>3, <1>4 DEF SetToSeqs, r

(* Reading a list in pages of one size, each where the one before ends,    *)
(* gives the list.                                                         *)
PageOf(s, first, size) == SubSeq(s, first + 1, IF first + size < Len(s) THEN first + size ELSE Len(s))

LEMMA PageTyped ==
    ASSUME NEW S, NEW s \in Seq(S), NEW first \in Nat, NEW size \in Nat
    PROVE  PageOf(s, first, size) \in Seq(S)
<1> DEFINE last == IF first + size < Len(s) THEN first + size ELSE Len(s)
<1>1. last \in Int /\ last <= Len(s) /\ Len(s) \in Nat
  OBVIOUS
<1>2. \A i \in first + 1..last : s[i] \in S
  BY <1>1
<1> HIDE DEF last
<1>3. SubSeq(s, first + 1, last) \in Seq(S)
  BY <1>1, <1>2, SubSeqProperties
<1> QED BY <1>3 DEF PageOf, last

LEMMA PagesRead ==
    ASSUME NEW S, NEW s \in Seq(S), NEW size \in Nat \ {0}
    PROVE  FlattenSeq([i \in 1..Len(s) + 1 |-> PageOf(s, size * (i - 1), size)]) = s
<1> DEFINE L == Len(s)
           ss == [i \in 1..L + 1 |-> PageOf(s, size * (i - 1), size)]
           upTo(i) == IF size * i < L THEN size * i ELSE L
<1>1. L \in Nat /\ L + 1 \in Nat
  OBVIOUS
<1>2. \A i \in Nat : size * i \in Nat
  OBVIOUS
<1>3. \A i \in 1..L + 1 : i - 1 \in Nat /\ size * (i - 1) + size = size * i
  BY <1>1
<1>4. ss \in Seq(Seq(S)) /\ Len(ss) = L + 1
  <2> HIDE DEF L
  <2>1. \A i \in 1..L + 1 : PageOf(s, size * (i - 1), size) \in Seq(S)
    BY <1>2, <1>3, PageTyped
  <2>2. ss \in [1..L + 1 -> Seq(S)]
    BY <2>1
  <2> HIDE DEF ss
  <2> QED BY <1>1, <2>2
<1>5. \A i \in 1..L + 1 : ss[i] = PageOf(s, size * (i - 1), size)
  OBVIOUS
<1>6. ss # <<>>
  BY <1>1, <1>4
<1> HIDE DEF ss
<1>7. PICK f \in [1..L + 1 -> Seq(S)] :
          /\ f[1] = ss[1]
          /\ \A i \in 2..L + 1 : f[i] = f[i - 1] \o ss[i]
          /\ FlattenSeq(ss) = f[L + 1]
  <2>1. \E f \in [1..Len(ss) -> Seq(S)] :
          /\ f[1] = ss[1]
          /\ \A i \in 2..Len(ss) : f[i] = f[i - 1] \o ss[i]
          /\ FlattenSeq(ss) = f[Len(ss)]
    BY <1>4, <1>6, FlattenUnfold
  <2> HIDE DEF L
  <2> QED BY <1>4, <2>1
<1> HIDE DEF L
<1> DEFINE Off == {i \in 1..L + 1 : f[i] # SubSeq(s, 1, upTo(i))}
<1>8. Off = {}
  <2> SUFFICES ASSUME Off # {} PROVE FALSE
    OBVIOUS
  <2>1. Off \in SUBSET Nat
    BY <1>1
  <2>2. PICK m \in Off : \A k \in Off : m <= k
    BY <2>1, LeastNatural
  <2>3. f[1] = SubSeq(s, 1, upTo(1))
    <3>1. 1 \in 1..L + 1 /\ size * (1 - 1) = 0 /\ size * 1 = size
      BY <1>1
    <3>2. ss[1] = PageOf(s, 0, size)
      BY <1>5, <3>1
    <3>3. 0 + 1 = 1 /\ 0 + size = size
      OBVIOUS
    <3> QED BY <1>7, <3>1, <3>2, <3>3 DEF PageOf, L
  <2>4. m \in 2..L + 1 /\ m - 1 \in 1..L + 1 /\ ~(m <= m - 1)
    <3>1. m # 1 /\ m \in 1..L + 1
      BY <2>2, <2>3
    <3> QED BY <1>1, <3>1
  <2>5. f[m - 1] = SubSeq(s, 1, upTo(m - 1))
    BY <2>2, <2>4
  <2> DEFINE a == size * (m - 1)
             b == size * m
  <2>6. a \in Nat /\ b \in Nat /\ a + size = b
    BY <1>1, <1>2, <1>3, <2>4
  <2>7. ss[m] = SubSeq(s, a + 1, upTo(m))
    <3>1. ss[m] = PageOf(s, a, size)
      BY <1>5, <2>4, <1>1
    <3> HIDE DEF a
    <3> QED BY <2>6, <3>1 DEF PageOf, L
  <2>8. f[m] = SubSeq(s, 1, upTo(m - 1)) \o SubSeq(s, a + 1, upTo(m))
    BY <1>7, <2>4, <2>5, <2>7
  <2>9. CASE a < L
    <3> DEFINE u == upTo(m)
    <3>1. upTo(m - 1) = a /\ a \in 0..L /\ u \in a..L
      BY <1>1, <2>6, <2>9
    <3> HIDE DEF a, u
    <3>2. SubSeq(s, 1, a) \o SubSeq(s, a + 1, u) = SubSeq(s, 1, u)
      <4>1. 1 \in 1..Len(s) + 1 /\ a \in 1 - 1..Len(s) /\ u \in a..Len(s)
        BY <1>1, <3>1 DEF L
      <4> QED BY <4>1, ConcatAdjacentSubSeq
    <3>3. f[m] = SubSeq(s, 1, u)
      BY <2>8, <3>1, <3>2 DEF u
    <3> QED BY <2>2, <3>3 DEF u
  <2>10. CASE ~(a < L)
    <3>1. upTo(m - 1) = L /\ upTo(m) = L
      BY <1>1, <2>6, <2>10
    <3> HIDE DEF a
    <3>2. SubSeq(s, a + 1, L) = <<>>
      BY <1>1, <2>6, <2>10, SubSeqEmpty
    <3>3. SubSeq(s, 1, L) = s
      BY SubSeqFull DEF L
    <3>4. f[m] = s \o <<>>
      BY <2>8, <3>1, <3>2, <3>3
    <3>5. f[m] = SubSeq(s, 1, upTo(m))
      BY <3>1, <3>3, <3>4
    <3> QED BY <2>2, <3>5
  <2> QED BY <2>9, <2>10
<1>9. L + 1 \in 1..L + 1
  BY <1>1
<1>10. upTo(L + 1) = L
  <2>1. size * (L + 1) >= L + 1
    <3>1. (size - 1) \in Nat /\ (L + 1) \in Nat
      BY <1>1
    <3>2. (size - 1) * (L + 1) >= 0
      BY <3>1
    <3> QED BY <1>1, <3>2
  <2> QED BY <1>1, <1>2, <2>1
<1>11. f[L + 1] = SubSeq(s, 1, L)
  BY <1>8, <1>9, <1>10
<1>12. SubSeq(s, 1, L) = s
  BY SubSeqFull DEF L
<1>13. FlattenSeq(ss) = s
  BY <1>7, <1>11, <1>12
<1> QED BY <1>13 DEF ss, L

(* Rows with different ids are listed in one way up, and in one way down.  *)
SortedBoth(T, c, d) ==
    /\ d \in SetToSeqs(T)
    /\ Sorted(T, c, "asc") = {d} /\ Sorted(T, c, "desc") = {Reverse(d)}

LEMMA SortedOnce ==
    ASSUME NEW T, IsFiniteSet(T), NEW c,
           \A r \in T : \E x \in DOMAIN Cast["text"] : r[c] = {x},
           \A r, s \in T : r[c] = s[c] => r = s
    PROVE  \E d : SortedBoth(T, c, d)
<1> DEFINE R == {p \in T \X T : Ascending(p[1][c], p[2][c])}
<1>1. \A r, s \in T : <<r, s>> \in R <=> Ascending(r[c], s[c])
  OBVIOUS
<1> HIDE DEF R
<1>2. ASSUME NEW r \in T, NEW s \in T, NEW x, NEW y, r[c] = {x}, s[c] = {y}
      PROVE  Ascending(r[c], s[c]) <=> Before(x, y)
  BY <1>2 DEF Ascending
<1>3. IsOrder(R, T)
  <2> SUFFICES ASSUME NEW r \in T, NEW s \in T, NEW t \in T
               PROVE  /\ ~Ascending(r[c], r[c])
                      /\ r = s \/ Ascending(r[c], s[c]) \/ Ascending(s[c], r[c])
                      /\ Ascending(r[c], s[c]) /\ Ascending(s[c], t[c]) => Ascending(r[c], t[c])
    BY <1>1 DEF IsOrder
  <2>1. PICK x \in DOMAIN Cast["text"] : r[c] = {x}
    OBVIOUS
  <2>2. PICK y \in DOMAIN Cast["text"] : s[c] = {y}
    OBVIOUS
  <2>3. PICK z \in DOMAIN Cast["text"] : t[c] = {z}
    OBVIOUS
  <2>4. /\ ~Before(x, x)
        /\ x = y \/ Before(x, y) \/ Before(y, x)
        /\ Before(x, y) /\ Before(y, z) => Before(x, z)
    BY OrderAssumption DEF OrderAssumption
  <2>5. x = y => r = s
    BY <2>1, <2>2
  <2>6. Ascending(r[c], r[c]) <=> Before(x, x)
    BY <1>2, <2>1
  <2>7. Ascending(r[c], s[c]) <=> Before(x, y)
    BY <1>2, <2>1, <2>2
  <2>8. Ascending(s[c], r[c]) <=> Before(y, x)
    BY <1>2, <2>1, <2>2
  <2>9. (Ascending(s[c], t[c]) <=> Before(y, z)) /\ (Ascending(r[c], t[c]) <=> Before(x, z))
    BY <1>2, <2>1, <2>2, <2>3
  <2> QED BY <2>4, <2>5, <2>6, <2>7, <2>8, <2>9
<1>4. \A r, s \in T : r # s => (~Ascending(s[c], r[c]) <=> <<r, s>> \in R)
  BY <1>1, <1>3 DEF IsOrder
<1>5. ASSUME NEW t \in SetToSeqs(T)
      PROVE  t \in Sorted(T, c, "asc") <=> Ordered(t, R)
  <2>1. /\ DOMAIN t = 1..Len(t) /\ Len(t) \in Nat
        /\ \A i \in 1..Len(t) : t[i] \in T
        /\ \A i, j \in 1..Len(t) : t[i] = t[j] => i = j
    BY ListingProperties
  <2>2. \A i, j \in DOMAIN t : i < j => (~Ascending(t[j][c], t[i][c]) <=> <<t[i], t[j]>> \in R)
    <3> SUFFICES ASSUME NEW i \in DOMAIN t, NEW j \in DOMAIN t, i < j
                 PROVE  ~Ascending(t[j][c], t[i][c]) <=> <<t[i], t[j]>> \in R
      OBVIOUS
    <3>1. t[i] \in T /\ t[j] \in T /\ t[i] # t[j]
      BY <2>1
    <3> QED BY <1>4, <3>1
  <2> QED BY <2>2 DEF Sorted, Ordered
<1>6. ASSUME NEW t \in SetToSeqs(T)
      PROVE  t \in Sorted(T, c, "desc") <=> Ordered(Reverse(t), R)
  <2> DEFINE N == Len(t)
  <2>1. /\ t \in Seq(T) /\ DOMAIN t = 1..N /\ N \in Nat
        /\ \A i \in 1..N : t[i] \in T
        /\ \A i, j \in 1..N : t[i] = t[j] => i = j
    BY ListingProperties
  <2>2. /\ Reverse(t) \in Seq(T) /\ Len(Reverse(t)) = N
        /\ \A i \in 1..N : Reverse(t)[i] = t[N - i + 1]
    BY <2>1, ReverseProperties
  <2>3. DOMAIN Reverse(t) = 1..N
    BY <2>2
  <2> HIDE DEF N
  <2>4. \A i, j \in 1..N : i < j => (~Ascending(t[i][c], t[j][c]) <=> <<t[j], t[i]>> \in R)
    <3> SUFFICES ASSUME NEW i \in 1..N, NEW j \in 1..N, i < j
                 PROVE  ~Ascending(t[i][c], t[j][c]) <=> <<t[j], t[i]>> \in R
      OBVIOUS
    <3>1. t[i] \in T /\ t[j] \in T /\ t[i] # t[j]
      BY <2>1
    <3> QED BY <1>4, <3>1
  <2>5. t \in Sorted(T, c, "desc") <=> \A i, j \in 1..N : i < j => <<t[j], t[i]>> \in R
    BY <2>1, <2>4 DEF Sorted
  <2>6. (\A i, j \in 1..N : i < j => <<t[j], t[i]>> \in R)
        <=> (\A i, j \in 1..N : i < j => <<Reverse(t)[i], Reverse(t)[j]>> \in R)
    <3>1. \A i \in 1..N : N - i + 1 \in 1..N /\ N - (N - i + 1) + 1 = i
      BY <2>1
    <3>2. \A i, j \in 1..N : i < j => N - j + 1 < N - i + 1
      BY <2>1
    <3>3. ASSUME \A i, j \in 1..N : i < j => <<t[j], t[i]>> \in R, NEW i \in 1..N, NEW j \in 1..N, i < j
          PROVE  <<Reverse(t)[i], Reverse(t)[j]>> \in R
      <4>1. <<t[N - i + 1], t[N - j + 1]>> \in R
        BY <3>1, <3>2, <3>3
      <4> QED BY <2>2, <4>1
    <3>4. ASSUME \A i, j \in 1..N : i < j => <<Reverse(t)[i], Reverse(t)[j]>> \in R,
                 NEW i \in 1..N, NEW j \in 1..N, i < j
          PROVE  <<t[j], t[i]>> \in R
      <4>1. <<Reverse(t)[N - j + 1], Reverse(t)[N - i + 1]>> \in R
        BY <3>1, <3>2, <3>4
      <4>2. Reverse(t)[N - j + 1] = t[j] /\ Reverse(t)[N - i + 1] = t[i]
        BY <2>2, <3>1
      <4> QED BY <4>1, <4>2
    <3> QED BY <3>3, <3>4
  <2> QED BY <2>3, <2>5, <2>6 DEF Ordered
<1>7. PICK d \in SetToSeqs(T) : Ordered(d, R)
  BY <1>3, OrderedListing
<1>8. \A t \in SetToSeqs(T) : Ordered(t, R) => t = d
  BY <1>3, <1>7, OrderedOnce
<1>9. \A t \in Sorted(T, c, "asc") \union Sorted(T, c, "desc") : t \in SetToSeqs(T)
  BY DEF Sorted
<1>10. Sorted(T, c, "asc") = {d}
  BY <1>5, <1>7, <1>8, <1>9
<1>11. Reverse(d) \in SetToSeqs(T)
  BY <1>7, ReversedListing
<1>12. \A t \in SetToSeqs(T) : Reverse(t) \in SetToSeqs(T) /\ Reverse(Reverse(t)) = t
  BY ReversedListing, ListingProperties, ReverseProperties
<1>13. Sorted(T, c, "desc") = {Reverse(d)}
  BY <1>6, <1>7, <1>8, <1>9, <1>11, <1>12
<1> QED BY <1>7, <1>10, <1>13 DEF SortedBoth

-----------------------------------------------------------------------------
(* Cast has every type a column may have.                                  *)
LEMMA CastOfColumn ==
    /\ "text" \in DOMAIN Cast
    /\ \A f : f.is_array \/ f.base_type \in DOMAIN ColumnTypes => ColumnType(f) \in DOMAIN Cast
<1>1. \A x \in DOMAIN ColumnTypes : ColumnTypes[x] \in DOMAIN Cast
  BY CastAssumption DEF CastAssumption, Range
<1>2. /\ "ID" \in DOMAIN ColumnTypes /\ ColumnTypes["ID"] = "text"
      /\ "Json" \in DOMAIN ColumnTypes /\ ColumnTypes["Json"] = "jsonb"
  BY DEF ColumnTypes
<1>3. "text" \in DOMAIN Cast /\ "jsonb" \in DOMAIN Cast
  BY <1>1, <1>2
<1> HIDE DEF ColumnTypes
<1>4. ASSUME NEW f, f.is_array \/ f.base_type \in DOMAIN ColumnTypes
      PROVE  ColumnType(f) \in DOMAIN Cast
  BY <1>1, <1>3, <1>4 DEF ColumnType
<1> QED BY <1>3, <1>4

(* The rows of a model's table: one per id, each with values its columns   *)
(* print.                                                                  *)
LEMMA RowsOfTable ==
    ASSUME project \in Projects, ProjectAccepted, NEW rows, AreRows(rows),
           NEW n \in DOMAIN Models
    PROVE  /\ IsFiniteSet(TableRows(rows, Models[n]))
           /\ \A r \in TableRows(rows, Models[n]) :
                 /\ \E x \in DOMAIN Cast["text"] :
                       r[IdColumn] = {x} /\ GetEntity(rows, Models[n], x) = {r}
                 /\ \A j \in DOMAIN Models[n].fields :
                       r[Underscored(Models[n].fields[j].name)]
                       \subseteq Range(Cast[ColumnType(Models[n].fields[j])])
           /\ \A r, s \in TableRows(rows, Models[n]) : r[IdColumn] = s[IdColumn] => r = s
<1> DEFINE model == Models[n]
           entries == {e \in rows : e[1][1] = TableName(model.name)}
<1>1. \A e \in entries : IsRowOf(model, e)
  <2> SUFFICES ASSUME NEW e \in rows, e[1][1] = TableName(model.name) PROVE IsRowOf(model, e)
    OBVIOUS
  <2>1. PICK m \in DOMAIN Models : IsRowOf(Models[m], e)
    BY DEF AreRows
  <2>2. e[1] = <<TableName(Models[m].name), e[1][2]>>
    BY <2>1 DEF IsRowOf, KeyOf
  <2>3. TableName(Models[m].name) = TableName(Models[n].name)
    BY <2>2
  <2>4. \A i, k \in DOMAIN Models : TableName(Models[i].name) = TableName(Models[k].name) => i = k
    BY ProjectsRegular DEF Regular, Models
  <2>5. m = n
    BY <2>3, <2>4
  <2> QED BY <2>1, <2>5
<1>2. TableRows(rows, model) = {e[2] : e \in entries}
  BY DEF TableRows
<1>3. \A e \in entries : e \in rows
  OBVIOUS
<1>4. IsFiniteSet(entries)
  <2>1. entries \in SUBSET rows
    OBVIOUS
  <2> HIDE DEF entries
  <2> QED BY <2>1, FS_Subset DEF AreRows
<1>5. \A e \in entries : e[1] = KeyOf(model, e[1][2])
  BY <1>1 DEF IsRowOf
<1>6. PICK j \in DOMAIN model.fields :
          model.fields[j].name = IdName /\ ~model.fields[j].is_array /\ model.fields[j].base_type = "ID"
  BY ProjectsRegular DEF Regular, Models
<1>7. \A e \in entries : e[2][IdColumn] = {e[1][2]} /\ e[1][2] \in DOMAIN Cast["text"]
  <2> SUFFICES ASSUME NEW e \in entries
               PROVE  e[2][IdColumn] = {e[1][2]} /\ e[1][2] \in DOMAIN Cast["text"]
    OBVIOUS
  <2>1. e[2][IdColumn] = {e[1][2]}
    BY <1>1 DEF IsRowOf
  <2>2. Underscored(model.fields[j].name) = IdColumn /\ ColumnType(model.fields[j]) = "text"
    BY <1>6 DEF IdColumn, ColumnType, ColumnTypes
  <2>3. e[2][IdColumn] \subseteq Range(Cast["text"])
    BY <1>1, <2>2 DEF IsRowOf
  <2>4. e[1][2] \in Range(Cast["text"])
    BY <2>1, <2>3
  <2>5. "text" \in DOMAIN Cast
    BY CastOfColumn
  <2>6. e[1][2] \in DOMAIN Cast["text"]
    BY <2>4, <2>5, CastAssumption DEF CastAssumption
  <2> QED BY <2>1, <2>6
<1>8. \A d, e \in entries : d[1][2] = e[1][2] => d = e
  <2> SUFFICES ASSUME NEW d \in entries, NEW e \in entries, d[1][2] = e[1][2] PROVE d = e
    OBVIOUS
  <2>1. d[1] = e[1]
    BY <1>5
  <2> QED BY <1>3, <2>1 DEF AreRows
<1>9. \A e \in entries : GetEntity(rows, model, e[1][2]) = {e[2]}
  <2> SUFFICES ASSUME NEW e \in entries PROVE GetEntity(rows, model, e[1][2]) = {e[2]}
    OBVIOUS
  <2>1. e[1] = KeyOf(model, e[1][2])
    BY <1>5
  <2>2. \A d \in rows : d[1] = e[1] => d = e
    BY <1>3 DEF AreRows
  <2>3. {x \in rows : x[1] = KeyOf(model, e[1][2])} = {e}
    BY <1>3, <2>1, <2>2
  <2> QED BY <2>3 DEF GetEntity
<1>10. \A e \in entries, i \in DOMAIN model.fields :
          e[2][Underscored(model.fields[i].name)] \subseteq Range(Cast[ColumnType(model.fields[i])])
  BY <1>1 DEF IsRowOf
<1> HIDE DEF entries, model
<1>11. IsFiniteSet({e[2] : e \in entries})
  <2> DEFINE f == [e \in entries |-> e[2]]
             T == {e[2] : e \in entries}
  <2>1. f \in Surjection(entries, T)
    BY DEF Surjection
  <2> HIDE DEF f, T
  <2>2. IsFiniteSet(T)
    BY <1>4, <2>1, FS_Surjection
  <2> QED BY <2>2 DEF T
<1>12. \A r \in TableRows(rows, model) :
          /\ \E x \in DOMAIN Cast["text"] : r[IdColumn] = {x} /\ GetEntity(rows, model, x) = {r}
          /\ \A i \in DOMAIN model.fields :
                r[Underscored(model.fields[i].name)] \subseteq Range(Cast[ColumnType(model.fields[i])])
  <2> SUFFICES ASSUME NEW e \in entries
               PROVE  /\ \E x \in DOMAIN Cast["text"] :
                            e[2][IdColumn] = {x} /\ GetEntity(rows, model, x) = {e[2]}
                      /\ \A i \in DOMAIN model.fields :
                            e[2][Underscored(model.fields[i].name)]
                            \subseteq Range(Cast[ColumnType(model.fields[i])])
    BY <1>2
  <2> QED BY <1>7, <1>9, <1>10
<1>13. \A r, s \in TableRows(rows, model) : r[IdColumn] = s[IdColumn] => r = s
  <2> SUFFICES ASSUME NEW d \in entries, NEW e \in entries, d[2][IdColumn] = e[2][IdColumn] PROVE d = e
    BY <1>2
  <2>1. d[1][2] = e[1][2]
    BY <1>7
  <2> QED BY <1>8, <2>1
<1> QED BY <1>2, <1>11, <1>12, <1>13 DEF model

(* The rows of a table, or some of them, have one order by id.             *)
LEMMA RowsInOrder ==
    ASSUME project \in Projects, ProjectAccepted, NEW rows, AreRows(rows),
           NEW n \in DOMAIN Models, NEW T \in SUBSET TableRows(rows, Models[n])
    PROVE  IsFiniteSet(T) /\ \E d : SortedBoth(T, IdColumn, d)
<1>1. IsFiniteSet(T)
  BY RowsOfTable, FS_Subset
<1>2. /\ \A r \in T : \E x \in DOMAIN Cast["text"] : r[IdColumn] = {x}
      /\ \A r, s \in T : r[IdColumn] = s[IdColumn] => r = s
  BY RowsOfTable
<1>3. \E d : SortedBoth(T, IdColumn, d)
  BY <1>1, <1>2, SortedOnce
<1> QED BY <1>1, <1>3

(* A query without filters is a page of the one listing.                   *)
LEMMA PagesOfTable ==
    ASSUME project \in Projects, ProjectAccepted, NEW rows,
           NEW n \in DOMAIN Models, NEW d, SortedBoth(TableRows(rows, Models[n]), IdColumn, d),
           NEW first \in Nat, NEW size \in Nat
    PROVE  LET page(dir) == GetByFields(rows, Models[n], <<>>,
                  [order_by |-> IdName, order_direction |-> dir, offset |-> first, limit |-> size])
           IN  page("asc") = {PageOf(d, first, size)} /\ page("desc") = {PageOf(Reverse(d), first, size)}
<1> DEFINE model == Models[n]
           T == TableRows(rows, model)
           options(dir) == [order_by |-> IdName, order_direction |-> dir, offset |-> first, limit |-> size]
<1>1. {r \in T : Selects(model, <<>>, r)} = T
  BY DEF Selects
<1>2. IdColumn \in ColumnsOf(model)
  BY IdField
<1>3. ~QueryFails(model, <<>>, options("asc")) /\ ~QueryFails(model, <<>>, options("desc"))
  BY <1>2 DEF QueryFails, IdColumn
<1>4. Sorted(T, IdColumn, "asc") = {d} /\ Sorted(T, IdColumn, "desc") = {Reverse(d)}
  BY DEF SortedBoth
<1>5. Underscored(IdName) = IdColumn
  BY DEF IdColumn
<1>6. \A s : Page(s, options("asc")) = PageOf(s, first, size) /\ Page(s, options("desc")) = PageOf(s, first, size)
  BY DEF Page, PageOf
<1> HIDE DEF T
<1>7. GetByFields(rows, model, <<>>, options("asc")) = {Page(s, options("asc")) : s \in Sorted(T, IdColumn, "asc")}
  BY <1>1, <1>3, <1>5 DEF GetByFields, T
<1>8. GetByFields(rows, model, <<>>, options("desc")) = {Page(s, options("desc")) : s \in Sorted(T, IdColumn, "desc")}
  BY <1>1, <1>3, <1>5 DEF GetByFields, T
<1> QED BY <1>4, <1>6, <1>7, <1>8

(* Filtering by a value read back finds the rows with it.                  *)
LEMMA ValueEncoded ==
    ASSUME NEW f, f.is_array \/ f.base_type \in DOMAIN ColumnTypes,
           NEW value \in Range(Cast[ColumnType(f)])
    PROVE  /\ Encode(f, Member([field |-> f.name, value |-> {[json |-> "string", text |-> value]}])) = {value}
           /\ Accepts(f, value) /\ Cast[ColumnType(f)][value] = value
<1> DEFINE type == ColumnType(f)
           member == [json |-> "string", text |-> value]
           entity == Member([field |-> f.name, value |-> {member}])
<1>1. type \in DOMAIN Cast
  BY CastOfColumn
<1>2. /\ value \in DOMAIN Cast[type] /\ Cast[type][value] = value
      /\ type \in {"bytea", "jsonb"} => [value EXCEPT !.prefix = ""] = value
  BY <1>1, CastAssumption DEF CastAssumption
<1>3. f.base_type = "Bytes" => type \in {"bytea", "jsonb"}
  BY DEF ColumnType, ColumnTypes
<1>4. DOMAIN entity = {f.name} /\ entity[f.name] = {member}
  BY DEF Member
<1>5. member.json = "string" /\ member.text = value
  OBVIOUS
<1> HIDE DEF entity, member, type
<1>6. Encode(f, entity) = {IF f.base_type = "Bytes" THEN [value EXCEPT !.prefix = ""] ELSE value}
  <2>1. Encode(f, entity) = {IF f.base_type = "Bytes" /\ v.json = "string" THEN [v.text EXCEPT !.prefix = ""]
                             ELSE v.text : v \in {member}}
    BY <1>4 DEF Encode
  <2>2. Encode(f, entity) = {IF f.base_type = "Bytes" /\ member.json = "string"
                             THEN [member.text EXCEPT !.prefix = ""] ELSE member.text}
    BY <2>1
  <2> QED BY <1>5, <2>2
<1>7. Encode(f, entity) = {value}
  BY <1>2, <1>3, <1>6
<1> QED BY <1>2, <1>7 DEF Accepts, type, entity, member

LEMMA FieldOfColumn ==
    ASSUME ProjectAccepted, NEW n \in DOMAIN Models, NEW j \in DOMAIN Models[n].fields
    PROVE  /\ FieldOf(Models[n], Underscored(Models[n].fields[j].name)) = Models[n].fields[j]
           /\ Models[n].fields[j].is_array \/ Models[n].fields[j].base_type \in DOMAIN ColumnTypes
<1> DEFINE fields == Models[n].fields
           c == Underscored(fields[j].name)
<1>1. /\ \A k, l \in DOMAIN fields : Underscored(fields[k].name) = Underscored(fields[l].name) => k = l
      /\ fields[j].is_array \/ fields[j].base_type \in DOMAIN ColumnTypes
  BY DEF ProjectAccepted, CreatesTables
<1>2. (CHOOSE k \in DOMAIN fields : Underscored(fields[k].name) = c) = j
  BY <1>1
<1> QED BY <1>1, <1>2 DEF FieldOf

LEMMA ValueFound ==
    ASSUME project \in Projects, ProjectAccepted, NEW rows, AreRows(rows),
           NEW n \in DOMAIN Models, NEW d, SortedBoth(TableRows(rows, Models[n]), IdColumn, d),
           NEW row \in TableRows(rows, Models[n]), NEW j \in DOMAIN Models[n].fields,
           NEW value \in row[Underscored(Models[n].fields[j].name)]
    PROVE  LET found == GetByFields(rows, Models[n],
                  <<[field |-> Models[n].fields[j].name, value |-> {[json |-> "string", text |-> value]}]>>,
                  [order_by |-> IdName, order_direction |-> "asc", offset |-> 0, limit |-> Len(d)])
           IN  found # {} /\ \A result \in found : Contains(result, row)
<1> DEFINE model == Models[n]
           f == model.fields[j]
           c == Underscored(f.name)
           wanted == {[json |-> "string", text |-> value]}
           filters == <<[field |-> f.name, value |-> wanted]>>
           options == [order_by |-> IdName, order_direction |-> "asc", offset |-> 0, limit |-> Len(d)]
           T == TableRows(rows, model)
           selected == {r \in T : Selects(model, filters, r)}
<1>1. FieldOf(model, c) = f /\ (f.is_array \/ f.base_type \in DOMAIN ColumnTypes)
  BY FieldOfColumn
<1>2. value \in Range(Cast[ColumnType(f)])
  BY RowsOfTable
<1>3. Encode(f, Member(filters[1])) = {value} /\ Accepts(f, value) /\ Cast[ColumnType(f)][value] = value
    BY <1>1, <1>2, ValueEncoded
<1>4. DOMAIN filters = {1} /\ filters[1].field = f.name /\ filters[1].value = wanted
  OBVIOUS
<1>5. IdColumn \in ColumnsOf(model) /\ Underscored(IdName) = IdColumn
  BY IdField DEF IdColumn
<1>6. options.order_by = IdName /\ options.order_direction = "asc" /\ options.offset = 0 /\ options.limit = Len(d)
  OBVIOUS
<1> HIDE DEF filters, wanted, options
<1>7. ~QueryFails(model, filters, options)
  BY <1>1, <1>3, <1>4, <1>5, <1>6 DEF QueryFails
<1>8. row \in selected
  <2>1. value \in row[c]
    OBVIOUS
  <2>2. Selects(model, filters, row)
    BY <1>1, <1>3, <1>4, <2>1 DEF Selects
  <2> QED BY <2>2
<1>9. selected \in SUBSET T
  OBVIOUS
<1>10. GetByFields(rows, model, filters, options) = {Page(s, options) : s \in Sorted(selected, IdColumn, "asc")}
  BY <1>5, <1>6, <1>7 DEF GetByFields
<1> HIDE DEF selected
<1>11. IsFiniteSet(selected) /\ \E s : SortedBoth(selected, IdColumn, s)
  BY <1>9, RowsInOrder
<1>12. PICK s : SortedBoth(selected, IdColumn, s)
  BY <1>11
<1>13. s \in SetToSeqs(selected) /\ Sorted(selected, IdColumn, "asc") = {s} /\ d \in SetToSeqs(T)
  BY <1>12 DEF SortedBoth
<1>14. IsFiniteSet(T)
  BY RowsOfTable
<1> HIDE DEF T
<1>15. /\ s \in Seq(selected) /\ Len(s) = Cardinality(selected) /\ Len(s) \in Nat
       /\ \A x \in selected : \E i \in 1..Len(s) : s[i] = x
  BY <1>11, <1>13, ListingProperties
<1>16. Len(d) = Cardinality(T) /\ Len(d) \in Nat
  BY <1>13, <1>14, ListingProperties
<1>17. Cardinality(selected) <= Cardinality(T)
  BY <1>9, <1>14, FS_Subset
<1>18. Page(s, options) = s
  <2>1. (IF 0 + Len(d) < Len(s) THEN 0 + Len(d) ELSE Len(s)) = Len(s) /\ 0 + 1 = 1
    BY <1>15, <1>16, <1>17
  <2>2. Page(s, options) = SubSeq(s, 1, Len(s))
    BY <1>6, <2>1 DEF Page
  <2> QED BY <1>15, <2>2, SubSeqFull
<1>19. GetByFields(rows, model, filters, options) = {s}
  BY <1>10, <1>13, <1>18
<1>20. Contains(s, row)
  BY <1>8, <1>15 DEF Contains
<1> QED BY <1>19, <1>20 DEF filters, wanted, options

LEMMA Chosen == \A x : (CHOOSE p \in {x} : TRUE) = x
OBVIOUS

(* The queries of one table of such rows.                                  *)
LEMMA QueriesAnswered ==
    ASSUME project \in Projects, ProjectAccepted, NEW rows, AreRows(rows),
           NEW n \in DOMAIN Models
    PROVE  LET model == Models[n]
               dump == DumpCanonical(rows, model)
               page(size, i, dir) == GetByFields(rows, model, <<>>,
                   [order_by |-> IdName, order_direction |-> dir, offset |-> size * (i - 1), limit |-> size])
               read(size, dir) == FlattenSeq([i \in 1..Len(dump) + 1 |-> CHOOSE p \in page(size, i, dir) : TRUE])
           IN  /\ SortedBoth(TableRows(rows, model), IdColumn, dump)
               /\ Range(dump) = TableRows(rows, model)
               /\ \A i, j \in DOMAIN dump : dump[i][IdColumn] = dump[j][IdColumn] => i = j
               /\ \A size \in 1..Len(dump) + 1 :
                     /\ \A i \in 1..Len(dump) + 1, dir \in {"asc", "desc"} : Cardinality(page(size, i, dir)) = 1
                     /\ read(size, "asc") = dump /\ Reverse(read(size, "desc")) = dump
               /\ \A row \in Range(dump) : \A id \in row[IdColumn] : GetEntity(rows, model, id) = {row}
<1> DEFINE model == Models[n]
           T == TableRows(rows, model)
           d == DumpCanonical(rows, model)
           page(size, i, dir) == GetByFields(rows, model, <<>>,
                   [order_by |-> IdName, order_direction |-> dir, offset |-> size * (i - 1), limit |-> size])
           read(size, dir) == FlattenSeq([i \in 1..Len(d) + 1 |-> CHOOSE p \in page(size, i, dir) : TRUE])
<1>1. /\ IsFiniteSet(T)
      /\ \A r \in T : \E x \in DOMAIN Cast["text"] : r[IdColumn] = {x} /\ GetEntity(rows, model, x) = {r}
      /\ \A r, s \in T : r[IdColumn] = s[IdColumn] => r = s
  BY RowsOfTable
<1>2. SortedBoth(T, IdColumn, d)
  <2>1. PICK e : SortedBoth(T, IdColumn, e)
    BY RowsInOrder
  <2>2. d = e
    BY <2>1 DEF SortedBoth, DumpCanonical
  <2> QED BY <2>1, <2>2
<1> HIDE DEF d
<1>3. /\ d \in Seq(T) /\ Len(d) \in Nat /\ DOMAIN d = 1..Len(d)
      /\ \A i \in 1..Len(d) : d[i] \in T
      /\ \A i, j \in 1..Len(d) : d[i] = d[j] => i = j
      /\ \A x \in T : \E i \in 1..Len(d) : d[i] = x
  BY <1>1, <1>2, ListingProperties DEF SortedBoth
<1>4. Range(d) = T
  BY <1>3 DEF Range
<1>5. \A i, j \in DOMAIN d : d[i][IdColumn] = d[j][IdColumn] => i = j
  BY <1>1, <1>3
<1>6. \A row \in Range(d) : \A id \in row[IdColumn] : GetEntity(rows, model, id) = {row}
  BY <1>1, <1>4
<1>7. ASSUME NEW size \in 1..Len(d) + 1
      PROVE  /\ \A i \in 1..Len(d) + 1, dir \in {"asc", "desc"} : Cardinality(page(size, i, dir)) = 1
             /\ read(size, "asc") = d /\ Reverse(read(size, "desc")) = d
  <2>1. size \in Nat \ {0} /\ size \in Nat
    BY <1>3
  <2>2. \A i \in 1..Len(d) + 1 : size * (i - 1) \in Nat
    <3> SUFFICES ASSUME NEW i \in 1..Len(d) + 1 PROVE size * (i - 1) \in Nat
      OBVIOUS
    <3>1. i - 1 \in Nat
      BY <1>3
    <3> QED BY <2>1, <3>1
  <2>3. ASSUME NEW i \in 1..Len(d) + 1
        PROVE  /\ page(size, i, "asc") = {PageOf(d, size * (i - 1), size)}
               /\ page(size, i, "desc") = {PageOf(Reverse(d), size * (i - 1), size)}
    <3> DEFINE first == size * (i - 1)
    <3>1. first \in Nat
      BY <2>2
    <3> HIDE DEF first
    <3>2. LET pg(dir) == GetByFields(rows, model, <<>>,
                  [order_by |-> IdName, order_direction |-> dir, offset |-> first, limit |-> size])
          IN  pg("asc") = {PageOf(d, first, size)} /\ pg("desc") = {PageOf(Reverse(d), first, size)}
      BY <1>2, <2>1, <3>1, PagesOfTable
    <3> QED BY <3>2 DEF first
  <2>4. \A i \in 1..Len(d) + 1, dir \in {"asc", "desc"} : Cardinality(page(size, i, dir)) = 1
    <3> SUFFICES ASSUME NEW i \in 1..Len(d) + 1, NEW dir \in {"asc", "desc"}
                 PROVE  Cardinality(page(size, i, dir)) = 1
      OBVIOUS
    <3>1. \E x : page(size, i, dir) = {x}
      BY <2>3
    <3> HIDE DEF page
    <3> QED BY <3>1, FS_Singleton
  <2>5. read(size, "asc") = FlattenSeq([i \in 1..Len(d) + 1 |-> PageOf(d, size * (i - 1), size)])
    <3> HIDE DEF page
    <3>1. \A i \in 1..Len(d) + 1 : (CHOOSE p \in page(size, i, "asc") : TRUE) = PageOf(d, size * (i - 1), size)
      BY <2>3, Chosen
    <3> QED BY <3>1
  <2>6. read(size, "desc") = FlattenSeq([i \in 1..Len(d) + 1 |-> PageOf(Reverse(d), size * (i - 1), size)])
    <3> HIDE DEF page
    <3>1. \A i \in 1..Len(d) + 1 :
             (CHOOSE p \in page(size, i, "desc") : TRUE) = PageOf(Reverse(d), size * (i - 1), size)
      BY <2>3, Chosen
    <3> QED BY <3>1
  <2>7. read(size, "asc") = d
    BY <1>3, <2>1, <2>5, PagesRead
  <2>8. Reverse(d) \in Seq(T) /\ Len(Reverse(d)) = Len(d) /\ Reverse(Reverse(d)) = d
    BY <1>3, ReverseProperties
  <2>9. read(size, "desc") = Reverse(d)
    <3> DEFINE r == Reverse(d)
    <3> HIDE DEF r
    <3>1. FlattenSeq([i \in 1..Len(r) + 1 |-> PageOf(r, size * (i - 1), size)]) = r
      BY <2>1, <2>8, PagesRead DEF r
    <3>2. Len(r) = Len(d)
      BY <2>8 DEF r
    <3> HIDE DEF read
    <3> QED BY <2>6, <3>1, <3>2 DEF r
  <2> QED BY <2>4, <2>7, <2>8, <2>9
<1> QED BY <1>2, <1>4, <1>5, <1>6, <1>7 DEF d

-----------------------------------------------------------------------------
(* The rows a table may hold under a key.                                  *)
MayHold(key, r) == \E n \in DOMAIN Models : IsRowOf(Models[n], <<key, r>>)

(* A statement PostgreSQL accepts writes values it prints, under the id.   *)
LEMMA CallWritesRow ==
    ASSUME project \in Projects, ProjectAccepted, NEW call, Effective(call),
           ~StatementFails(OperationOf(call)), NEW r \in RowOf(call)
    PROVE  MayHold(CallKey(call), r)
<1> DEFINE model == ModelOf(call.entity)
           entity == call.data.members
           op == OperationOf(call)
<1>1. call.function = "sq_store_set" /\ r = Row(model, entity)
  BY DEF RowOf, Effective
<1>2. PICK n \in DOMAIN Models : model = Models[n] /\ Models[n].name = call.entity
  BY KeyOfCall
<1>3. r[IdColumn] = {call.id}
  BY <1>1, KeyOfCall
<1>4. op.operation = "Set" /\ op.entity_type = call.entity /\ op.data = entity
  BY <1>1 DEF OperationOf
<1> HIDE DEF op
<1>5. ~UpsertFails(model, entity)
  BY <1>4 DEF StatementFails, op
<1> HIDE DEF model, entity
<1>6. ASSUME NEW j \in DOMAIN model.fields
      PROVE  r[Underscored(model.fields[j].name)] \subseteq Range(Cast[ColumnType(model.fields[j])])
  <2> DEFINE f == model.fields[j]
             c == Underscored(f.name)
  <2>1. FieldOf(model, c) = f
    BY <1>2, FieldOfColumn
  <2>2. c \in ColumnsOf(model)
    BY DEF ColumnsOf
  <2>3. r[c] = Stored(f, Encode(f, entity))
    <3>1. r[c] = Stored(FieldOf(model, c), Encode(FieldOf(model, c), entity))
      BY <1>1, <2>2 DEF Row
    <3> HIDE DEF c, f
    <3> QED BY <2>1, <3>1
  <2>4. \A t \in Encode(f, entity) : Accepts(f, t)
    BY <1>5 DEF UpsertFails
  <2> HIDE DEF f, c
  <2>5. r[c] \subseteq Range(Cast[ColumnType(f)])
    BY <2>3, <2>4 DEF Stored, Accepts, Range
  <2> QED BY <2>5 DEF f, c
<1>7. CallKey(call) = KeyOf(model, CallKey(call)[2]) /\ CallKey(call)[2] = call.id
  BY <1>2 DEF CallKey, KeyOf
<1>8. IsRowOf(model, <<CallKey(call), r>>)
  BY <1>3, <1>6, <1>7 DEF IsRowOf
<1> QED BY <1>2, <1>8 DEF MayHold

(* Giving a key its one row, or none, makes rows of rows.                  *)
LEMMA RowsChanged ==
    ASSUME NEW rows, AreRows(rows), NEW changes, IsFiniteSet(DOMAIN changes),
           \A key \in DOMAIN changes : \A r, s \in changes[key] : r = s,
           \A key \in DOMAIN changes : \A r \in changes[key] : MayHold(key, r)
    PROVE  AreRows(Changed(rows, changes))
<1> DEFINE kept == {e \in rows : e[1] \notin DOMAIN changes}
           new == UNION {{<<k, r>> : r \in changes[k]} : k \in DOMAIN changes}
<1>1. \A e \in new : e[1] \in DOMAIN changes /\ e[2] \in changes[e[1]] /\ e = <<e[1], e[2]>>
  OBVIOUS
<1>2. \A d, e \in new : d[1] = e[1] => d = e
  <2> SUFFICES ASSUME NEW d \in new, NEW e \in new, d[1] = e[1] PROVE d = e
    OBVIOUS
  <2>1. d[2] = e[2]
    BY <1>1
  <2> QED BY <1>1, <2>1
<1>3. \A e \in new : \E n \in DOMAIN Models : IsRowOf(Models[n], e)
  <2> SUFFICES ASSUME NEW e \in new PROVE \E n \in DOMAIN Models : IsRowOf(Models[n], e)
    OBVIOUS
  <2>1. MayHold(e[1], e[2])
    BY <1>1
  <2>2. \E n \in DOMAIN Models : IsRowOf(Models[n], <<e[1], e[2]>>)
    BY <2>1 DEF MayHold
  <2> QED BY <1>1, <2>2
<1>4. \A e \in kept : e \in rows /\ e[1] \notin DOMAIN changes
  OBVIOUS
<1>5. IsFiniteSet(kept)
  <2>1. kept \in SUBSET rows
    OBVIOUS
  <2> HIDE DEF kept
  <2> QED BY <2>1, FS_Subset DEF AreRows
<1> HIDE DEF kept, new
<1>6. IsFiniteSet(new)
  <2> DEFINE f == [e \in new |-> e[1]]
  <2>1. f \in Injection(new, DOMAIN changes)
    BY <1>1, <1>2 DEF Injection, IsInjective
  <2> HIDE DEF f
  <2> QED BY <2>1, FS_Injection
<1>7. IsFiniteSet(kept \union new)
  BY <1>5, <1>6, FS_Union
<1>8. \A d, e \in kept \union new : d[1] = e[1] => d = e
  <2> SUFFICES ASSUME NEW d \in kept \union new, NEW e \in kept \union new, d[1] = e[1] PROVE d = e
    OBVIOUS
  <2>1. CASE d \in kept /\ e \in kept
    BY <1>4, <2>1 DEF AreRows
  <2>2. CASE d \in new /\ e \in new
    BY <1>2, <2>2
  <2>3. CASE (d \in kept /\ e \in new) \/ (d \in new /\ e \in kept)
    BY <1>1, <1>4, <2>3
  <2> QED BY <2>1, <2>2, <2>3
<1>9. \A e \in kept \union new : \E n \in DOMAIN Models : IsRowOf(Models[n], e)
  BY <1>3, <1>4 DEF AreRows
<1>10. AreRows(kept \union new)
  BY <1>7, <1>8, <1>9 DEF AreRows
<1>11. Changed(rows, changes) = kept \union new
  BY DEF Changed, kept, new
<1> QED BY <1>10, <1>11

(* A statement, and all operations of a block in one go.                   *)
LEMMA StatementKeepsRows ==
    ASSUME StoreInvariant, IndexesAccepted, phase = "writing", statements # <<>>,
           ~StatementFails(Head(statements)), AreRows(table)
    PROVE  AreRows(Executed(table, Head(statements)))
<1>1. PICK b : /\ IsBlock(b) /\ IdsMatch(table)
               /\ \E k \in 0..Len(EffectiveCalls(b)) : WrittenUpTo(b, k)
  BY WritingBlock
<1>2. PICK k \in 0..Len(EffectiveCalls(b)) : WrittenUpTo(b, k)
  BY <1>1
<1> DEFINE calls == EffectiveCalls(b)
           len == Len(calls)
           call == calls[k + 1]
           key == CallKey(call)
           left == [i \in 1..(len - k) |-> OperationOf(calls[k + i])]
<1>3. len \in Nat /\ \A i \in 1..len : Effective(calls[i])
  <2>1. IsList(calls) /\ \A i \in 1..len : Effective(calls[i])
    BY <1>1, OperationsAsCalls
  <2> QED BY <2>1, ListProperties
<1>4. statements = left
  BY <1>2 DEF WrittenUpTo
<1> HIDE DEF calls, len
<1>5. len - k \in Nat /\ len - k # 0
  <2>1. CASE len - k = 0
    <3>1. left = <<>>
      BY <2>1
    <3> QED BY <1>4, <3>1
  <2> QED BY <1>3, <2>1 DEF len, calls
<1>6. k + 1 \in 1..len /\ 1 \in 1..(len - k)
  BY <1>3, <1>5 DEF len, calls
<1>7. Head(statements) = OperationOf(call)
  <2>1. \E S : left \in Seq(S)
    <3> DEFINE S == {OperationOf(calls[k + i]) : i \in 1..(len - k)}
               n == len - k
    <3>1. left \in [1..n -> S] /\ n \in Nat
      BY <1>5
    <3> HIDE DEF S, n, left
    <3>2. left \in Seq(S)
      BY <3>1
    <3> QED BY <3>2
  <2>2. left[1] = OperationOf(call)
    BY <1>6
  <2> HIDE DEF left, call
  <2> QED BY <1>4, <2>1, <2>2
<1>8. Effective(call) /\ ~StatementFails(OperationOf(call))
  BY <1>3, <1>6, <1>7
<1>9. project \in Projects /\ ProjectAccepted
  BY <1>1 DEF IsBlock
<1> HIDE DEF call
<1>10. Executed(table, OperationOf(call)) = {e \in table : e[1] # key} \union {<<key, r>> : r \in RowOf(call)}
  BY <1>1, <1>8, <1>9, ExecutedSets
<1> DEFINE changes == [x \in {key} |-> RowOf(call)]
<1>11. Changed(table, changes) = {e \in table : e[1] # key} \union {<<key, r>> : r \in RowOf(call)}
  BY DEF Changed
<1>12. DOMAIN changes = {key} /\ changes[key] = RowOf(call)
  OBVIOUS
<1>13. \A r, s \in RowOf(call) : r = s
  BY DEF RowOf
<1>14. \A r \in RowOf(call) : MayHold(key, r)
  BY <1>8, <1>9, CallWritesRow
<1> HIDE DEF changes, key
<1>15. IsFiniteSet(DOMAIN changes)
  BY <1>12, FS_Singleton
<1>16. AreRows(Changed(table, changes))
  BY <1>12, <1>13, <1>14, <1>15, RowsChanged
<1> QED BY <1>7, <1>10, <1>11, <1>16

LEMMA BlockKeepsRows ==
    ASSUME NEW b, IsBlock(b), NEW ops, ops = OperationsUpTo(b, Len(Wanted(b))),
           ~ \E i \in DOMAIN ops : StatementFails(ops[i]), NEW rows, AreRows(rows)
    PROVE  AreRows(Changed(rows, Meaning(b)))
<1> DEFINE calls == EffectiveCalls(b)
           len == Len(calls)
           m == Meaning(b)
<1>1. /\ len \in Nat /\ DOMAIN calls = 1..len
      /\ \A i \in 1..len : Effective(calls[i]) /\ ~StatementFails(OperationOf(calls[i]))
  <2>1. /\ IsList(calls) /\ IsList(ops) /\ Len(ops) = len
        /\ \A i \in 1..len : Effective(calls[i]) /\ ops[i] = OperationOf(calls[i])
    BY OperationsAsCalls
  <2>2. len \in Nat /\ DOMAIN calls = 1..len /\ DOMAIN ops = 1..len
    BY <2>1, ListProperties
  <2> QED BY <2>1, <2>2
<1>2. DOMAIN m = Touched(b) /\ \A key \in Touched(b) : m[key] = NewRow(b, key)
  BY DEF Meaning
<1>3. ASSUME NEW key \in Touched(b)
      PROVE  /\ \A r, s \in m[key] : r = s
             /\ \A r \in m[key] : MayHold(key, r)
  <2> DEFINE n == Max({i \in DOMAIN calls : CallKey(calls[i]) = key})
             call == calls[n]
  <2>1. n \in 1..len /\ CallKey(call) = key /\ NewRow(b, key) = RowOf(call)
    BY LastCall
  <2>2. Effective(call) /\ ~StatementFails(OperationOf(call)) /\ m[key] = RowOf(call)
    BY <1>1, <1>2, <2>1
  <2> HIDE DEF call, m
  <2>3. \A r, s \in RowOf(call) : r = s
    BY DEF RowOf
  <2>4. \A r \in RowOf(call) : MayHold(key, r)
    BY <2>1, <2>2, CallWritesRow DEF IsBlock
  <2> QED BY <2>2, <2>3, <2>4
<1>4. IsFiniteSet(Touched(b))
  <2> DEFINE f == [i \in 1..len |-> CallKey(calls[i])]
  <2>1. f \in Surjection(1..len, Touched(b))
    <3>1. Touched(b) = {CallKey(calls[i]) : i \in 1..len}
      BY <1>1 DEF Touched
    <3> HIDE DEF calls, len
    <3> QED BY <3>1 DEF Surjection
  <2>2. IsFiniteSet(1..len)
    BY <1>1, FS_Interval
  <2> HIDE DEF f, len
  <2> QED BY <2>1, <2>2, FS_Surjection
<1> HIDE DEF m
<1> QED BY <1>2, <1>3, <1>4, RowsChanged DEF m

-----------------------------------------------------------------------------
(* What is kept where nothing is written.                                  *)
LEMMA SameTables ==
    ASSUME TablesKept,
           UNCHANGED <<config, project, table, height, past>>
    PROVE  TablesKept'
<1>1. Plain' <=> Plain
  BY DEF Plain
<1>3. AreRows(table)' <=> AreRows(table)
  BY DEF AreRows, IsRowOf, Models
<1>4. \A k : AreRows(past[k])' <=> AreRows(past[k])
  BY DEF AreRows, IsRowOf, Models
<1> QED BY <1>1, <1>3, <1>4 DEF TablesKept

LEMMA StoreKeepsTables ==
    ASSUME TablesKept, StoreInvariant, IndexesAccepted, Store \/ StoreUnanswered
    PROVE  TablesKept'
<1>1. /\ UNCHANGED <<config, project, indexed, historyVars>>
      /\ phase = "writing" /\ statements # <<>>
  BY DEF Store, StoreUnanswered
<1>2. CASE table' = table
  BY <1>1, <1>2, SameTables DEF historyVars
<1>3. CASE table' # table
  <2>1. ~StatementFails(Head(statements)) /\ table' = Executed(table, Head(statements))
    BY <1>3 DEF Store, StoreUnanswered
  <2>2. Plain /\ AreRows(table)
    BY <1>1 DEF StoreInvariant, TablesKept
  <2>3. AreRows(Executed(table, Head(statements)))
    BY <1>1, <2>1, <2>2, StatementKeepsRows
  <2>4. AreRows(table)'
    <3> DEFINE after == Executed(table, Head(statements))
    <3> HIDE DEF after
    <3>1. AreRows(after) /\ table' = after
      BY <2>1, <2>3 DEF after
    <3> QED BY <1>1, <3>1 DEF AreRows, IsRowOf, Models
  <2>5. Plain'
    BY <1>1, <2>2 DEF Plain
  <2> QED BY <2>4, <2>5 DEF TablesKept
<1> QED BY <1>2, <1>3

LEMMA CommitKeepsTables ==
    ASSUME TablesKept, StoreInvariant, IndexesAccepted, HistoryInvariant, CommitBlock
    PROVE  TablesKept'
<1>1. UNCHANGED <<config, project, table>> /\ phase = "running" /\ todo = <<>> /\ ~Plain
  BY DEF CommitBlock
<1>2. PICK c \in context :
          LET ops == TakeOperations(c).taken
          IN  \/ /\ ~\E i \in DOMAIN ops : StatementFails(ops[i])
                 /\ WriteBlock(NetChanges(ops))
              \/ UNCHANGED historyVars
  BY DEF CommitBlock
<1> DEFINE ops == TakeOperations(c).taken
<1>3. PICK b : block = {b} /\ IsBlock(b) /\ ops = OperationsUpTo(b, Len(Wanted(b)))
  BY <1>1, AllBuffered
<1>4. CASE UNCHANGED historyVars
  BY <1>1, <1>4, SameTables DEF historyVars
<1>5. CASE ~(UNCHANGED historyVars)
  <2> DEFINE m == Meaning(b)
  <2>1. ~(\E i \in DOMAIN ops : StatementFails(ops[i])) /\ WriteBlock(NetChanges(ops))
    BY <1>2, <1>5
  <2> HIDE DEF ops
  <2>2. NetChanges(ops) = m
    BY <1>3, <2>1, NetAsMeant
  <2>3. height \in Nat /\ \A k \in 0..height : AreRows(past[k])
    BY <1>1 DEF TablesKept, HistoryInvariant, HistoryShape, Height
  <2>4. AreRows(Changed(past[height], m))
    <3>1. AreRows(past[height])
      BY <2>3
    <3> QED BY <1>3, <2>1, <3>1, BlockKeepsRows
  <2> HIDE DEF m
  <2>5. /\ height' = height + 1
        /\ past' = [k \in 0..height + 1 |-> IF k = height + 1 THEN Changed(past[height], m) ELSE past[k]]
    BY <2>1, <2>2 DEF WriteBlock
  <2>6. \A k \in 0..height' : AreRows(past'[k])
    <3> SUFFICES ASSUME NEW k \in 0..height + 1 PROVE AreRows(past'[k])
      BY <2>5
    <3>1. CASE k = height + 1
      BY <2>4, <2>5, <3>1
    <3>2. CASE k # height + 1
      <4>1. k \in 0..height
        BY <2>3, <3>2
      <4>2. past'[k] = past[k]
        BY <2>5, <3>2
      <4> QED BY <2>3, <4>1, <4>2
    <3> QED BY <3>1, <3>2
  <2>7. ~Plain'
    BY <1>1 DEF Plain
  <2>8. \A k \in 0..height' : AreRows(past[k])'
    BY <1>1, <2>6 DEF AreRows, IsRowOf, Models
  <2> QED BY <2>7, <2>8 DEF TablesKept
<1> QED BY <1>4, <1>5

LEMMA RewindKeepsTables ==
    ASSUME TablesKept, HistoryInvariant, FinishRewind
    PROVE  TablesKept'
<1>1. /\ UNCHANGED <<config, project, table>>
      /\ target # NoTarget /\ height' = target /\ past' = [k \in 0..target |-> past[k]]
  BY DEF FinishRewind, EndRewind
<1>2. height \in Nat /\ target \in Nat /\ target < height
  BY <1>1 DEF HistoryInvariant, HistoryShape, Height
<1>3. Plain' <=> Plain
  BY <1>1 DEF Plain
<1>4. AreRows(table)' <=> AreRows(table)
  BY <1>1 DEF AreRows, IsRowOf, Models
<1>5. ASSUME ~Plain, NEW k \in 0..height' PROVE AreRows(past[k])'
  <2>1. k \in 0..height /\ past'[k] = past[k]
    BY <1>1, <1>2, <1>5
  <2>2. AreRows(past[k])
    BY <1>5, <2>1 DEF TablesKept
  <2> QED BY <1>1, <2>1, <2>2 DEF AreRows, IsRowOf, Models
<1> QED BY <1>3, <1>4, <1>5 DEF TablesKept

LEMMA TablesStart == IndexingInit => TablesKept
<1> SUFFICES ASSUME IndexingInit PROVE TablesKept
  OBVIOUS
<1>1. table = {} /\ height = 0 /\ past = [k \in {0} |-> {}]
  BY DEF IndexingInit, HistoryInit
<1>2. AreRows({})
  BY FS_EmptySet DEF AreRows
<1>3. \A k \in 0..height : past[k] = {}
  BY <1>1
<1> QED BY <1>1, <1>2, <1>3 DEF TablesKept

LEMMA StepKeepsTables ==
    ASSUME TablesKept, StoreInvariant, IndexesAccepted, HistoryInvariant, [IndexingNext]_allVars
    PROVE  TablesKept'
<1>1. CASE UNCHANGED allVars
  BY <1>1, SameTables DEF allVars, indexVars, historyVars
<1>2. CASE StartRewind
  BY <1>2, SameTables DEF StartRewind, BeginRewind, indexVars
<1>3. CASE RewindStatement
  BY <1>3, SameTables DEF RewindStatement, RunDelete, RunReopen, RewindInterrupted, indexVars
<1>4. CASE \/ Load \/ Invoke \/ Fail \/ BeginWriting \/ FinishWriting
           \/ \E h \in DOMAIN Blocks \intersect {Len(indexed) + 1} : \E b \in Blocks[h] : BeginBlock(b)
  BY <1>4, SameTables DEF Load, Invoke, Fail, BeginWriting, FinishWriting, BeginBlock, historyVars
<1> QED BY <1>1, <1>2, <1>3, <1>4, StoreKeepsTables, CommitKeepsTables, RewindKeepsTables DEF IndexingNext

LEMMA IndexingKeepsTables == IndexingSpec => []TablesKept
<1>1. IndexingInit => TablesKept
  BY TablesStart
<1>2. TablesKept /\ StoreInvariant /\ IndexesAccepted /\ HistoryInvariant /\ [IndexingNext]_allVars
      => TablesKept'
  BY StepKeepsTables
<1>3. IndexingSpec => []StoreInvariant /\ []IndexesAccepted /\ []HistoryInvariant
  BY IndexingKeepsStore, ProjectStaysAccepted, IndexingKeepsHistory
<1> QED BY <1>1, <1>2, <1>3, PTL DEF IndexingSpec

(* Whatever blocks have been indexed, failed, tried again and rewound:     *)
(* between blocks the pages of a table, of any size and in either          *)
(* direction, join up to all its rows, and every row is found by its id    *)
(* and by each of its values as read back.                                 *)
THEOREM IndexingQueriesFindEveryRow == IndexingSpec => []QueriesFindEveryRow
<1>1. ASSUME TablesKept, IndexesAccepted, HistoryInvariant
      PROVE  QueriesFindEveryRow
  <2> SUFFICES ASSUME phase = "idle", target = NoTarget PROVE QueriesFindEveryRow
    BY DEF QueriesFindEveryRow
  <2>1. project \in Projects /\ ProjectAccepted
    BY <1>1 DEF IndexesAccepted
  <2> DEFINE rows == Visible
  <2>2. AreRows(rows)
    <3>1. CASE Plain
      BY <1>1, <3>1 DEF Visible, TablesKept
    <3>2. CASE ~Plain
      <4>1. height \in 0..height
        BY <1>1 DEF HistoryInvariant, HistoryShape, Height
      <4>2. AsOf(versions, height) = past[height]
        BY <1>1, <4>1 DEF HistoryInvariant, HistoryIntact, Settled
      <4> QED BY <1>1, <3>2, <4>1, <4>2 DEF Visible, TablesKept
    <3> QED BY <3>1, <3>2
  <2>3. ASSUME NEW n \in DOMAIN Models
        PROVE  LET model == Models[n]
                   dump == DumpCanonical(rows, model)
                   page(size, i, dir) == GetByFields(rows, model, <<>>,
                       [order_by |-> IdName, order_direction |-> dir, offset |-> size * (i - 1), limit |-> size])
                   read(size, dir) == FlattenSeq([i \in 1..Len(dump) + 1 |-> CHOOSE p \in page(size, i, dir) : TRUE])
                   found(f, value) == GetByFields(rows, model,
                       <<[field |-> f.name, value |-> {[json |-> "string", text |-> value]}]>>,
                       [order_by |-> IdName, order_direction |-> "asc", offset |-> 0, limit |-> Len(dump)])
               IN  /\ Range(dump) = TableRows(rows, model)
                   /\ \A i, j \in DOMAIN dump : dump[i][IdColumn] = dump[j][IdColumn] => i = j
                   /\ \A size \in 1..Len(dump) + 1 :
                         /\ \A i \in 1..Len(dump) + 1, dir \in {"asc", "desc"} : Cardinality(page(size, i, dir)) = 1
                         /\ read(size, "asc") = dump /\ Reverse(read(size, "desc")) = dump
                   /\ \A row \in Range(dump) : \A id \in row[IdColumn] : GetEntity(rows, model, id) = {row}
                   /\ \A row \in Range(dump), j \in DOMAIN model.fields :
                         LET f == model.fields[j] IN \A value \in row[Underscored(f.name)] :
                             /\ found(f, value) # {}
                             /\ \A result \in found(f, value) : Contains(result, row)
    <3> HIDE DEF rows
    <3> DEFINE model == Models[n]
               dump == DumpCanonical(rows, model)
               page(size, i, dir) == GetByFields(rows, model, <<>>,
                   [order_by |-> IdName, order_direction |-> dir, offset |-> size * (i - 1), limit |-> size])
               read(size, dir) == FlattenSeq([i \in 1..Len(dump) + 1 |-> CHOOSE p \in page(size, i, dir) : TRUE])
               found(f, value) == GetByFields(rows, model,
                   <<[field |-> f.name, value |-> {[json |-> "string", text |-> value]}]>>,
                   [order_by |-> IdName, order_direction |-> "asc", offset |-> 0, limit |-> Len(dump)])
    <3>1. /\ SortedBoth(TableRows(rows, model), IdColumn, dump)
          /\ Range(dump) = TableRows(rows, model)
          /\ \A i, j \in DOMAIN dump : dump[i][IdColumn] = dump[j][IdColumn] => i = j
          /\ \A size \in 1..Len(dump) + 1 :
                /\ \A i \in 1..Len(dump) + 1, dir \in {"asc", "desc"} : Cardinality(page(size, i, dir)) = 1
                /\ read(size, "asc") = dump /\ Reverse(read(size, "desc")) = dump
          /\ \A row \in Range(dump) : \A id \in row[IdColumn] : GetEntity(rows, model, id) = {row}
      BY <2>1, <2>2, QueriesAnswered
    <3> HIDE DEF dump
    <3>2. ASSUME NEW row \in Range(dump), NEW j \in DOMAIN model.fields,
                 NEW value \in row[Underscored(model.fields[j].name)]
          PROVE  /\ found(model.fields[j], value) # {}
                 /\ \A result \in found(model.fields[j], value) : Contains(result, row)
      <4>1. row \in TableRows(rows, model)
        BY <3>1
      <4> QED BY <2>1, <2>2, <3>1, <4>1, ValueFound
    <3> HIDE DEF page, read, found, model
    <3>3. \A row \in Range(dump), j \in DOMAIN model.fields :
             LET f == model.fields[j] IN \A value \in row[Underscored(f.name)] :
                 /\ found(f, value) # {}
                 /\ \A result \in found(f, value) : Contains(result, row)
      BY <3>2
    <3> QED BY <3>1, <3>3 DEF page, read, found, model, dump
  <2> QED BY <2>3 DEF QueriesFindEveryRow
<1> QED BY <1>1, IndexingKeepsTables, ProjectStaysAccepted, IndexingKeepsHistory, PTL
=============================================================================
