----------------------- MODULE FinalityTrackerProofs -----------------------
(***************************************************************************)
(* Proofs about the finality tracker and the header chain it walks: for    *)
(* every set of forks, every length of the chain and every search depth,   *)
(* the header table stays one branch under the checkpoint, a decision      *)
(* keeps nothing that is off the canonical chain, and the walk finds the   *)
(* fork.                                                                   *)
(***************************************************************************)
EXTENDS FinalityTracker, SequenceTheorems, FiniteSetTheorems, WellFoundedInduction, TLAPS

-----------------------------------------------------------------------------
(* Branches.  Everything about them is reduced to their elements here.     *)

(* A branch is a sequence that begins with the genesis block.              *)
LEMMA BranchElements ==
    ASSUME NEW b \in Branches
    PROVE  /\ b \in Seq(Forks) /\ Len(b) \in 1..(MaxChain + 1)
           /\ b \in [1..Len(b) -> Forks] /\ b[1] = Genesis
<1>0. MaxChain \in Nat
  BY ChainBound
<1>1. PICK n \in 1..(MaxChain + 1) : b \in [1..n -> Forks] /\ b[1] = Genesis
  BY DEF Branches
<1>2. b \in Seq(Forks) /\ Len(b) = n
  BY <1>0, <1>1
<1>. QED BY <1>0, <1>1, <1>2

(* The chain of the genesis block alone.                                   *)
LEMMA GenesisIsBranch == <<Genesis>> \in Branches
<1>1. <<Genesis>> \in [1..1 -> Forks] /\ <<Genesis>>[1] = Genesis
  BY ForkAssumption
<1>2. 1 \in 1..(MaxChain + 1)
  BY ChainBound
<1>. QED BY <1>1, <1>2 DEF Branches

(* The hash at a height is the beginning of the branch, and a branch.      *)
LEMMA HashIsBranch ==
    ASSUME NEW b \in Branches, NEW h \in Nat, h < Len(b)
    PROVE  /\ HashAt(b, h) \in Branches /\ Len(HashAt(b, h)) = h + 1
           /\ \A i \in 1..(h + 1) : HashAt(b, h)[i] = b[i]
<1>. DEFINE p == HashAt(b, h)
<1>1. /\ Len(b) \in 1..(MaxChain + 1) /\ MaxChain \in Nat
      /\ b \in [1..Len(b) -> Forks] /\ b[1] = Genesis
  BY BranchElements, ChainBound
<1>2. h + 1 \in 1..(MaxChain + 1) /\ \A i \in 1..(h + 1) : b[i] \in Forks
  BY <1>1
<1>3. /\ p \in Seq(Forks) /\ Len(p) = h + 1
      /\ \A i \in 1..(h + 1) : p[i] = b[i]
  <2>1. /\ SubSeq(b, 1, h + 1) \in Seq(Forks)
        /\ Len(SubSeq(b, 1, h + 1)) = IF 1 <= h + 1 THEN h + 1 - 1 + 1 ELSE 0
        /\ \A i \in 1..(h + 1 - 1 + 1) : SubSeq(b, 1, h + 1)[i] = b[1 + i - 1]
    BY ONLY <1>2, h \in Nat, SubSeqProperties
  <2>. HIDE DEF p
  <2>2. p = SubSeq(b, 1, h + 1)
    BY DEF p, HashAt
  <2>. QED BY <2>1, <2>2
<1>. HIDE DEF p
<1>4. p \in [1..(h + 1) -> Forks] /\ p[1] = Genesis
  BY <1>1, <1>2, <1>3
<1>5. p \in Branches
  BY <1>2, <1>4 DEF Branches
<1>. QED BY <1>3, <1>5 DEF p

(* Two branches of the same length with the same elements are equal.       *)
LEMMA SameBranch ==
    ASSUME NEW a \in Branches, NEW b \in Branches, Len(a) = Len(b),
           \A i \in 1..Len(a) : a[i] = b[i]
    PROVE  a = b
BY BranchElements

(* A block lies on a branch iff their elements agree.                      *)
LEMMA OnBranchElements ==
    ASSUME NEW a \in Branches, NEW b \in Branches
    PROVE  /\ OnBranch(a, b) <=> Len(a) <= Len(b) /\ \A i \in 1..Len(a) : a[i] = b[i]
           /\ OnBranch(a, b) <=> Len(a) <= Len(b) /\ a = HashAt(b, Len(a) - 1)
<1>1. Len(a) \in Nat /\ Len(a) >= 1 /\ Len(b) \in Nat
  BY BranchElements, ChainBound
<1>2. CASE Len(a) <= Len(b)
  <2>. DEFINE h == Len(a) - 1
  <2>1. h \in Nat /\ h < Len(b) /\ h + 1 = Len(a)
    BY <1>1, <1>2
  <2>. HIDE DEF h
  <2>2. HashAt(b, h) = SubSeq(b, 1, Len(a))
    BY <2>1 DEF HashAt
  <2>3. /\ HashAt(b, h) \in Branches /\ Len(HashAt(b, h)) = Len(a)
        /\ \A i \in 1..Len(a) : HashAt(b, h)[i] = b[i]
    BY <2>1, HashIsBranch
  <2>4. (\A i \in 1..Len(a) : a[i] = b[i]) => a = HashAt(b, h)
    BY <2>3, SameBranch
  <2>5. OnBranch(a, b) <=> a = HashAt(b, h)
    BY <1>2, <2>2 DEF OnBranch
  <2>. QED BY <1>2, <2>3, <2>4, <2>5 DEF h
<1>3. CASE ~(Len(a) <= Len(b))
  BY <1>3 DEF OnBranch
<1>. QED BY <1>2, <1>3

(* Ancestry is transitive, and the ancestors of one block are in line.     *)
LEMMA Ancestry ==
    ASSUME NEW a \in Branches, NEW b \in Branches, NEW c \in Branches
    PROVE  /\ OnBranch(a, b) /\ OnBranch(b, c) => OnBranch(a, c)
           /\ OnBranch(a, c) /\ OnBranch(b, c) /\ Len(a) <= Len(b) => OnBranch(a, b)
           /\ OnBranch(a, c) /\ OnBranch(b, c) /\ Len(a) = Len(b) => a = b
           /\ OnBranch(a, a)
<1>1. Len(a) \in Nat /\ Len(b) \in Nat /\ Len(c) \in Nat
  BY BranchElements, ChainBound
<1>2. OnBranch(a, b) /\ OnBranch(b, c) => OnBranch(a, c)
  BY <1>1, OnBranchElements
<1>3. OnBranch(a, c) /\ OnBranch(b, c) /\ Len(a) <= Len(b) => OnBranch(a, b)
  BY <1>1, OnBranchElements
<1>4. OnBranch(a, c) /\ OnBranch(b, c) /\ Len(a) = Len(b) => a = b
  BY <1>1, OnBranchElements
<1>5. OnBranch(a, a)
  BY <1>1, OnBranchElements
<1>. QED BY <1>2, <1>3, <1>4, <1>5

(* What stays final: a branch that agrees with the canonical one up to its *)
(* last final block keeps every final block.                               *)
LEMMA FinalStays ==
    ASSUME NEW a \in Branches, NEW b \in Branches, NEW c \in Branches,
           NEW n \in Nat, n <= Len(b), n <= Len(c), Len(a) <= n,
           \A i \in 1..n : b[i] = c[i], OnBranch(a, b)
    PROVE  OnBranch(a, c)
<1>1. Len(a) \in Nat /\ Len(b) \in Nat /\ Len(c) \in Nat
  BY BranchElements, ChainBound
<1>. QED BY <1>1, OnBranchElements

-----------------------------------------------------------------------------
(* The highest header and the fork.                                        *)

(* A set of natural numbers that is not empty has a least element.         *)
LEMMA LeastNumber ==
    ASSUME NEW S \in SUBSET Nat, S # {}
    PROVE  \E n \in S : \A m \in S : n <= m
<1>1. PICK n \in S : \A m \in S : ~(<<m, n>> \in OpToRel(<, Nat))
  BY NatLessThanWellFounded, WFMin
<1>2. \A m \in S : <<m, n>> \in Nat \X Nat
  OBVIOUS
<1>3. \A m \in S : ~(m < n)
  BY <1>1, <1>2 DEF OpToRel
<1>. QED BY <1>3

(* Highest finds a highest record of a set whose heights are bounded.      *)
LEMMA HighestIsHighest ==
    ASSUME NEW S, NEW top \in Nat, S # {},
           \A s \in S : s.height \in Nat /\ s.height <= top
    PROVE  Highest(S) \in S /\ \A q \in S : q.height <= Highest(S).height
<1>. DEFINE below == {top - s.height : s \in S}
<1>1. below \in SUBSET Nat /\ below # {}
  OBVIOUS
<1>2. PICK n \in below : \A m \in below : n <= m
  BY <1>1, LeastNumber
<1>3. PICK s \in S : n = top - s.height
  OBVIOUS
<1>4. \A q \in S : top - s.height <= top - q.height
  BY <1>2, <1>3
<1>5. \A q \in S : q.height <= s.height
  BY <1>4
<1>. QED BY <1>5 DEF Highest

(* Every two branches share the genesis block, so there is a last block    *)
(* that they share: the fork.                                              *)
LEMMA ForkIsLastShared ==
    ASSUME NEW b \in Branches, checkpoint.hash \in Branches, checkpoint.height \in Nat,
           Len(checkpoint.hash) = checkpoint.height + 1
    PROVE  /\ ForkHeight(b) \in 0..checkpoint.height
           /\ OnBranch(HashAt(checkpoint.hash, ForkHeight(b)), b)
           /\ \A g \in (ForkHeight(b) + 1)..checkpoint.height :
                 ~OnBranch(HashAt(checkpoint.hash, g), b)
<1>. DEFINE top == checkpoint.height
            Shared(h) == OnBranch(HashAt(checkpoint.hash, h), b)
            above == {k \in Nat : k <= top /\ Shared(top - k)}
<1>1. Shared(0)
  <2>. DEFINE root == HashAt(checkpoint.hash, 0)
  <2>1. /\ root \in Branches /\ Len(root) = 0 + 1
        /\ \A i \in 1..(0 + 1) : root[i] = checkpoint.hash[i]
    <3>1. 0 < Len(checkpoint.hash)
      OBVIOUS
    <3>. QED BY <3>1, HashIsBranch
  <2>2. checkpoint.hash[1] = b[1] /\ 1 <= Len(b)
    BY BranchElements, ChainBound
  <2>. HIDE DEF root
  <2>3. root \in Branches /\ Len(root) = 1 /\ root[1] = b[1]
    BY <2>1, <2>2
  <2>4. Len(root) <= Len(b) /\ \A i \in 1..Len(root) : root[i] = b[i]
    BY <2>2, <2>3
  <2>5. OnBranch(root, b)
    BY <2>3, <2>4, OnBranchElements
  <2>. QED BY <2>5 DEF root
<1>. HIDE DEF Shared
<1>2. above \in SUBSET Nat /\ top \in above
  BY <1>1
<1>3. PICK k \in above : \A m \in above : k <= m
  BY <1>2, LeastNumber
<1>4. /\ top - k \in 0..top /\ Shared(top - k)
      /\ \A g \in (top - k + 1)..top : ~Shared(g)
  <2>1. ASSUME NEW g \in (top - k + 1)..top, Shared(g)
        PROVE  FALSE
    <3>1. top - g \in Nat /\ top - (top - g) = g /\ top - g < k
      BY <1>3
    <3>2. top - g \in above
      BY <2>1, <3>1
    <3>. QED BY <1>3, <3>1, <3>2
  <2>. QED BY <1>3, <2>1
<1>. QED BY <1>4 DEF ForkHeight, Shared

-----------------------------------------------------------------------------
(* The invariant, action by action.                                        *)

(* The initial state: an empty header table and a chain of one block.      *)
LEMMA TrackerStartsWell == Init => TrackerInvariant
<1>. SUFFICES ASSUME Init PROVE TrackerInvariant
  OBVIOUS
<1>. USE DEF Init, CheckpointInit
<1>1. <<Genesis>> \in Branches
  BY GenesisIsBranch
<1>2. Len(<<Genesis>>) = 1
  OBVIOUS
<1>3. TrackerTypeOK
  <2>1. canon \in Branches /\ decidedOn \in Branches /\ fin \in 1..Len(canon)
    BY <1>1, <1>2
  <2>2. finalized \in 0..(fin - 1) /\ reorgs \in Nat /\ faults \in Nat
    OBVIOUS
  <2>4. clean \in BOOLEAN /\ verdict = NoVerdict
    OBVIOUS
  <2>3. rows \union todo = {} /\ seen = {} /\ checkpoint = NoCheckpoint /\ hand = NoHeader
    OBVIOUS
  <2>. QED BY <2>1, <2>2, <2>3, <2>4 DEF TrackerTypeOK
<1>4. OneAtATime /\ FinalityStands /\ OneHeaderPerHeight /\ WalkDescends /\ VerdictOnBranch
  BY DEF OneAtATime, FinalityStands, OneHeaderPerHeight, WalkDescends, VerdictOnBranch,
     Idle, Checking, NoVerdict
<1>5. HeadersBelowCheckpoint /\ KeptIsCanonical /\ WalkFindsFork
  BY DEF HeadersBelowCheckpoint, KeptIsCanonical, WalkFindsFork, NoVerdict
<1>. QED BY <1>3, <1>4, <1>5 DEF TrackerInvariant

(* A block that is final stays final when the chain moves above the last   *)
(* final block.                                                            *)
LEMMA FinalKept ==
    ASSUME TrackerTypeOK, canon' \in Branches, fin' \in 1..Len(canon'), fin <= fin',
           \A i \in 1..fin : canon[i] = canon'[i]
    PROVE  \A a \in Branches : Len(a) <= fin /\ OnBranch(a, canon)
                                => Len(a) <= fin' /\ OnBranch(a, canon')
<1>1. canon \in Branches /\ Len(canon) \in Nat /\ Len(canon') \in Nat /\ fin \in Nat /\ fin <= Len(canon)
  BY BranchElements, ChainBound DEF TrackerTypeOK
<1>2. fin' \in Nat /\ fin <= Len(canon')
  BY <1>1
<1>. SUFFICES ASSUME NEW a \in Branches, Len(a) <= fin, OnBranch(a, canon)
              PROVE  Len(a) <= fin' /\ OnBranch(a, canon')
  OBVIOUS
<1>3. Len(a) \in Nat
  BY BranchElements, ChainBound
<1>4. OnBranch(a, canon')
  BY <1>1, <1>2, <1>3, FinalStays
<1>5. Len(a) <= fin'
  BY <1>1, <1>2, <1>3
<1>. QED BY <1>4, <1>5

(* Steps that leave the check and the checkpoint alone: the chain moves    *)
(* above its last final block, rows that were final are pruned, a block is *)
(* fetched.                                                                *)
LEMMA QuietKeepsInvariant ==
    ASSUME TrackerInvariant,
           UNCHANGED <<checkpoint, todo, seen, verdict, decidedOn>>,
           rows' \subseteq rows, \A r \in rows : r \in rows' \/ r.final,
           canon' \in Branches, fin' \in 1..Len(canon'), fin <= fin',
           \A i \in 1..fin : canon[i] = canon'[i],
           finalized' \in 0..(fin' - 1), reorgs' \in Nat, faults' \in Nat,
           clean' \in BOOLEAN, clean' => clean /\ canon' = canon,
           \/ hand' = NoHeader
           \/ hand' = hand
           \/ Idle /\ hand' \in [header : Blocks, final : BOOLEAN]
                   /\ (hand'.final => IsFinal(hand.header.hash)')
    PROVE  TrackerInvariant'
<1>. USE DEF TrackerInvariant, IsFinal
<1>1. TrackerTypeOK'
  BY DEF TrackerTypeOK, NoVerdict
<1>2. OneAtATime'
  BY DEF OneAtATime, Idle, Checking, NoVerdict
<1>3. \A a \in Branches : Len(a) <= fin /\ OnBranch(a, canon)
                          => Len(a) <= fin' /\ OnBranch(a, canon')
  BY FinalKept
<1>4. FinalityStands'
  <2>1. /\ \A r \in rows \union todo : r.hash \in Branches
        /\ checkpoint # NoCheckpoint => checkpoint.hash \in Branches
        /\ hand # NoHeader => hand.header.hash \in Branches
        /\ verdict.kind = "rewind" => verdict.hash \in Branches /\ checkpoint # NoCheckpoint
    <3>1. verdict.kind = "rewind" => verdict.hash \in Branches
      BY DEF TrackerTypeOK, NoVerdict
    <3>2. verdict.kind = "rewind" => checkpoint # NoCheckpoint
      BY DEF NoVerdict, OneAtATime, Idle
    <3>3. hand # NoHeader => hand.header.hash \in Branches
      BY DEF TrackerTypeOK, Blocks
    <3>. QED BY <3>1, <3>2, <3>3 DEF TrackerTypeOK
  <2>2. \A r \in (rows \union todo)' : r.final => IsFinal(r.hash)'
    BY <1>3, <2>1 DEF FinalityStands
  <2>3. (hand # NoHeader)' => (hand'.final => IsFinal(hand.header.hash)')
    BY <1>3, <2>1 DEF FinalityStands
  <2>4. \A r \in todo' : r \in rows' \/ IsFinal(r.hash)'
    BY <1>3, <2>1 DEF FinalityStands
  <2>5. (checkpoint # NoCheckpoint)' =>
          (\E r \in rows' : r.height = checkpoint'.height) \/ IsFinal(checkpoint.hash)'
    <3>. SUFFICES ASSUME checkpoint # NoCheckpoint,
                         ~(\E r \in rows' : r.height = checkpoint.height)
                  PROVE  IsFinal(checkpoint.hash)'
      OBVIOUS
    <3>1. CASE IsFinal(checkpoint.hash)
      BY <1>3, <2>1, <3>1
    <3>2. ASSUME NEW r \in rows, r.height = checkpoint.height
          PROVE  IsFinal(checkpoint.hash)'
      <4>1. IsFinal(r.hash)
        BY <3>2 DEF FinalityStands
      <4>2. Len(r.hash) = Len(checkpoint.hash) /\ OnBranch(r.hash, checkpoint.hash)
        BY <3>2 DEF TrackerTypeOK, HeadersBelowCheckpoint
      <4>3. r.hash \in Branches /\ checkpoint.hash \in Branches
        BY <2>1
      <4>4. r.hash = checkpoint.hash
        BY <4>2, <4>3, Ancestry
      <4>. QED BY <1>3, <4>1, <4>3, <4>4
    <3>. QED BY <3>1, <3>2 DEF FinalityStands
  <2>6. (verdict.kind = "rewind")' =>
          (\E r \in rows' : r.height = verdict'.height) \/ IsFinal(verdict.hash)'
    <3>. SUFFICES ASSUME verdict.kind = "rewind",
                         ~(\E r \in rows' : r.height = verdict.height)
                  PROVE  IsFinal(verdict.hash)'
      OBVIOUS
    <3>1. CASE IsFinal(verdict.hash)
      BY <1>3, <2>1, <3>1
    <3>2. ASSUME NEW r \in rows, r.height = verdict.height
          PROVE  IsFinal(verdict.hash)'
      <4>1. IsFinal(r.hash)
        BY <3>2 DEF FinalityStands
      <4>2. /\ Len(r.hash) = Len(verdict.hash) /\ OnBranch(r.hash, checkpoint.hash)
            /\ OnBranch(verdict.hash, checkpoint.hash)
        <5>1. Len(verdict.hash) = verdict.height + 1
          BY DEF TrackerTypeOK, NoVerdict
        <5>2. Len(r.hash) = r.height + 1 /\ OnBranch(r.hash, checkpoint.hash)
          BY <3>2 DEF TrackerTypeOK, HeadersBelowCheckpoint
        <5>. QED BY <3>2, <5>1, <5>2 DEF VerdictOnBranch
      <4>3. r.hash \in Branches /\ verdict.hash \in Branches /\ checkpoint.hash \in Branches
        BY <2>1
      <4>4. r.hash = verdict.hash
        BY <4>2, <4>3, Ancestry
      <4>. QED BY <1>3, <4>1, <4>3, <4>4
    <3>. QED BY <3>1, <3>2 DEF FinalityStands
  <2>. QED BY <2>2, <2>3, <2>4, <2>5, <2>6 DEF FinalityStands
<1>5. OneHeaderPerHeight' /\ VerdictOnBranch' /\ HeadersBelowCheckpoint'
  BY DEF OneHeaderPerHeight, VerdictOnBranch, HeadersBelowCheckpoint, OnBranch
<1>6. WalkDescends'
  <2>. SUFFICES ASSUME Checking PROVE WalkDescends'
    BY DEF WalkDescends, Checking
  <2>1. checkpoint # NoCheckpoint /\ checkpoint.hash \in Branches
    BY DEF OneAtATime, Idle, Checking, TrackerTypeOK
  <2>2. Examined(checkpoint.height)' \/ IsFinal(checkpoint.hash)'
    BY <1>3, <2>1 DEF WalkDescends, Examined
  <2>3. \A c \in seen : clean' => c.canonical = Answer(c.height)'
    BY DEF WalkDescends, Answer, HashAt
  <2>. QED BY <2>2, <2>3 DEF WalkDescends, Examined, OnBranch, Floor, Matches
<1>7. KeptIsCanonical'
  BY DEF KeptIsCanonical, OnBranch
<1>8. WalkFindsFork'
  <2>1. ForkHeight(decidedOn)' = ForkHeight(decidedOn) /\ RightVerdict(decidedOn)' = RightVerdict(decidedOn)
    BY DEF ForkHeight, RightVerdict, OnBranch, HashAt
  <2>2. HistoryDownTo(ForkHeight(decidedOn))' => HistoryDownTo(ForkHeight(decidedOn))
    BY <2>1 DEF HistoryDownTo
  <2>. QED BY <2>1, <2>2 DEF WalkFindsFork, NoVerdict
<1>. QED BY <1>1, <1>2, <1>4, <1>5, <1>6, <1>7, <1>8

(* The chain grows, reorganizes above its last final block, and finalizes. *)
LEMMA ChainKeepsInvariant ==
    ASSUME TrackerInvariant, Extend \/ Reorganise \/ Finalize
    PROVE  TrackerInvariant'
<1>1. /\ canon \in Branches /\ Len(canon) \in Nat /\ canon \in Seq(Forks)
      /\ canon \in [1..Len(canon) -> Forks] /\ canon[1] = Genesis /\ Len(canon) >= 1
      /\ fin \in 1..Len(canon) /\ fin \in Nat /\ finalized \in 0..(fin - 1) /\ MaxChain \in Nat
      /\ reorgs \in Nat /\ faults \in Nat /\ clean \in BOOLEAN
  BY BranchElements, ChainBound DEF TrackerInvariant, TrackerTypeOK
<1>2. CASE Extend
  <2>1. PICK f \in Forks : canon' = Append(canon, f)
    BY <1>2 DEF Extend
  <2>2. Len(canon) <= MaxChain
    BY <1>2 DEF Extend
  <2>3. /\ canon' \in Seq(Forks) /\ Len(canon') = Len(canon) + 1
        /\ \A i \in 1..Len(canon) : canon'[i] = canon[i]
    BY <1>1, <2>1
  <2>4. canon' \in [1..(Len(canon) + 1) -> Forks] /\ canon'[1] = Genesis
    BY <1>1, <2>3
  <2>5. Len(canon) + 1 \in 1..(MaxChain + 1)
    BY <1>1, <2>2
  <2>6. canon' \in Branches
    BY <2>4, <2>5 DEF Branches
  <2>7. fin' \in 1..Len(canon') /\ fin <= fin' /\ finalized' \in 0..(fin' - 1)
    BY <1>1, <1>2, <2>3 DEF Extend
  <2>8. \A i \in 1..fin : canon[i] = canon'[i]
    BY <1>1, <2>3
  <2>. QED BY <1>1, <1>2, <2>6, <2>7, <2>8, QuietKeepsInvariant DEF Extend, checkpointVars
<1>3. CASE Reorganise
  <2>1. PICK b \in Branches : /\ fin <= Len(b) /\ SubSeq(b, 1, fin) = SubSeq(canon, 1, fin)
                             /\ canon' = b
    BY <1>3 DEF Reorganise
  <2>2. Len(b) \in Nat
    BY BranchElements, ChainBound
  <2>3. \A i \in 1..fin : canon[i] = b[i]
    <3>. DEFINE h == fin - 1
    <3>1. h \in Nat /\ h < Len(b) /\ h < Len(canon) /\ h + 1 = fin
      BY <1>1, <2>1, <2>2
    <3>. HIDE DEF h
    <3>2. HashAt(b, h) = HashAt(canon, h)
      BY <2>1, <3>1 DEF HashAt
    <3>3. \A i \in 1..(h + 1) : HashAt(b, h)[i] = b[i] /\ HashAt(canon, h)[i] = canon[i]
      BY <1>1, <3>1, HashIsBranch
    <3>. QED BY <3>1, <3>2, <3>3
  <2>4. fin' \in 1..Len(canon') /\ fin <= fin' /\ finalized' \in 0..(fin' - 1) /\ reorgs' \in Nat
    BY <1>1, <1>3, <2>1, <2>2 DEF Reorganise
  <2>. QED BY <1>1, <1>3, <2>1, <2>3, <2>4, QuietKeepsInvariant DEF Reorganise, checkpointVars
<1>4. CASE Finalize
  <2>1. fin' \in 1..Len(canon') /\ fin <= fin' /\ finalized' \in 0..(fin' - 1) /\ canon' = canon
    BY <1>1, <1>4 DEF Finalize, trackerVars
  <2>. QED BY <1>1, <1>4, <2>1, QuietKeepsInvariant
           DEF Finalize, checkpointVars, trackerVars, checkVars
<1>. QED BY <1>2, <1>3, <1>4

(* refresh() moves the finalized height forward, below what is final;      *)
(* pruning drops final rows; and a fetched block is known to be final only *)
(* if it is.                                                               *)
LEMMA FetchKeepsInvariant ==
    ASSUME TrackerInvariant, Refresh \/ Prune \/ Fetch
    PROVE  TrackerInvariant'
<1>1. /\ canon \in Branches /\ Len(canon) \in Nat
      /\ fin \in 1..Len(canon) /\ fin \in Nat /\ finalized \in 0..(fin - 1)
      /\ reorgs \in Nat /\ faults \in Nat /\ clean \in BOOLEAN
  BY BranchElements, ChainBound DEF TrackerInvariant, TrackerTypeOK
<1>2. CASE Refresh
  <2>1. finalized' \in 0..(fin - 1)
    BY <1>1, <1>2 DEF Refresh
  <2>. QED BY <1>1, <1>2, <2>1, QuietKeepsInvariant
           DEF Refresh, checkpointVars, chainVars, checkVars
<1>3. CASE Prune
  <2>1. rows' \subseteq rows /\ \A r \in rows : r \in rows' \/ r.final
    BY <1>3 DEF Prune, PruneBelow
  <2>. QED BY <1>1, <1>3, <2>1, QuietKeepsInvariant
           DEF Prune, PruneBelow, chainVars, trackerVars, checkVars
<1>4. CASE Fetch
  <2>. DEFINE h == NextHeight
  <2>1. h \in Nat /\ h < Len(canon)
    BY <1>4 DEF Fetch, NextHeight, TrackerInvariant, TrackerTypeOK
  <2>2. hand' = [header |-> BlockAt(canon, h), final |-> h <= finalized] /\ Idle
    BY <1>4 DEF Fetch
  <2>. HIDE DEF h
  <2>3. /\ HashAt(canon, h) \in Branches /\ Len(HashAt(canon, h)) = h + 1
        /\ \A i \in 1..(h + 1) : HashAt(canon, h)[i] = canon[i]
    BY <1>1, <2>1, HashIsBranch
  <2>4. BlockAt(canon, h) \in Blocks
    <3>1. SubSeq(canon, 1, h) = SubSeq(HashAt(canon, h), 1, h) /\ SubSeq(canon, 1, h) \in Seq(Forks)
      <4>1. \A i \in 1..h : canon[i] \in Forks /\ HashAt(canon, h)[i] = canon[i]
        BY <1>1, <2>1, <2>3, BranchElements
      <4>2. /\ SubSeq(canon, 1, h) \in Seq(Forks)
            /\ Len(SubSeq(canon, 1, h)) = IF 1 <= h THEN h - 1 + 1 ELSE 0
            /\ \A i \in 1..(h - 1 + 1) : SubSeq(canon, 1, h)[i] = canon[1 + i - 1]
        BY ONLY <2>1, <4>1, SubSeqProperties
      <4>3. /\ SubSeq(HashAt(canon, h), 1, h) \in Seq(Forks)
            /\ Len(SubSeq(HashAt(canon, h), 1, h)) = IF 1 <= h THEN h - 1 + 1 ELSE 0
            /\ \A i \in 1..(h - 1 + 1) :
                  SubSeq(HashAt(canon, h), 1, h)[i] = HashAt(canon, h)[1 + i - 1]
        BY ONLY <2>1, <4>1, SubSeqProperties
      <4>. DEFINE p == SubSeq(canon, 1, h)
                  q == SubSeq(HashAt(canon, h), 1, h)
      <4>4. /\ p \in Seq(Forks) /\ q \in Seq(Forks) /\ Len(p) = h /\ Len(q) = h
            /\ \A i \in 1..h : p[i] = q[i]
        BY <2>1, <4>1, <4>2, <4>3
      <4>. HIDE DEF p, q
      <4>5. p = q
        BY <4>4
      <4>. QED BY <4>4, <4>5 DEF p, q
    <3>. QED BY <2>1, <2>3, <3>1 DEF BlockAt, Blocks
  <2>5. hand'.final => Len(HashAt(canon, h)) <= fin /\ OnBranch(HashAt(canon, h), canon)
    <3>. SUFFICES ASSUME h <= finalized
                  PROVE  Len(HashAt(canon, h)) <= fin /\ OnBranch(HashAt(canon, h), canon)
      BY <2>2
    <3>1. Len(HashAt(canon, h)) <= fin /\ Len(HashAt(canon, h)) <= Len(canon)
      BY <1>1, <2>1, <2>3
    <3>. QED BY <1>1, <2>3, <3>1, OnBranchElements
  <2>6. /\ hand' \in [header : Blocks, final : BOOLEAN]
        /\ hand'.final => IsFinal(hand.header.hash)'
    <3>1. hand'.header.hash = HashAt(canon, h) /\ canon' = canon /\ fin' = fin
      BY <1>4, <2>2 DEF BlockAt, Fetch, chainVars
    <3>. QED BY <2>2, <2>4, <2>5, <3>1 DEF IsFinal
  <2>. QED BY <1>1, <1>4, <2>2, <2>6, QuietKeepsInvariant
           DEF Fetch, checkpointVars, chainVars, checkVars
<1>. QED BY <1>2, <1>3, <1>4

(* The check is over: nothing is being compared and nothing is decided.    *)
LEMMA EndCheckKeepsInvariant ==
    ASSUME TrackerInvariant, EndCheck,
           UNCHANGED <<canon, fin, reorgs>>, finalized' \in 0..(fin - 1), faults' \in Nat,
           hand' = NoHeader \/ hand' = hand,
           rows' \subseteq rows,
           checkpoint' # NoCheckpoint =>
              /\ checkpoint' \in [height : Nat, hash : Branches, finalized : Nat]
              /\ Len(checkpoint'.hash) = checkpoint'.height + 1
              /\ \/ \E r \in rows' : r.height = checkpoint'.height
                 \/ Len(checkpoint'.hash) <= fin /\ OnBranch(checkpoint'.hash, canon),
           \A r \in rows' : checkpoint' # NoCheckpoint /\ OnBranch(r.hash, checkpoint'.hash)
    PROVE  TrackerInvariant'
<1>. USE DEF TrackerInvariant, EndCheck
<1>0. verdict'.kind # "rewind" /\ verdict'.kind # "canonical"
  BY DEF NoVerdict
<1>1. TrackerTypeOK'
  BY GenesisIsBranch DEF TrackerTypeOK, NoVerdict
<1>2. OneAtATime'
  BY DEF OneAtATime, Idle, Checking, NoVerdict
<1>3. FinalityStands'
  BY <1>0 DEF FinalityStands, IsFinal
<1>4. OneHeaderPerHeight' /\ WalkDescends' /\ HeadersBelowCheckpoint'
  BY DEF OneHeaderPerHeight, WalkDescends, Checking, HeadersBelowCheckpoint, OnBranch
<1>5. VerdictOnBranch' /\ KeptIsCanonical' /\ WalkFindsFork'
  BY <1>0 DEF VerdictOnBranch, KeptIsCanonical, WalkFindsFork, NoVerdict
<1>. QED BY <1>1, <1>2, <1>3, <1>4, <1>5

(* A failed check, a decision to go on, and a crash leave the header table *)
(* and the checkpoint as they are.                                         *)
LEMMA GivingUpKeepsInvariant ==
    ASSUME TrackerInvariant, CheckFails \/ Resume \/ Crash
    PROVE  TrackerInvariant'
<1>1. /\ EndCheck /\ UNCHANGED <<rows, checkpoint, canon, fin, reorgs>>
      /\ hand' = NoHeader \/ hand' = hand
      /\ finalized' \in 0..(fin - 1) /\ faults' \in Nat
  <2>1. /\ canon \in Branches /\ fin \in 1..Len(canon) /\ finalized \in 0..(fin - 1)
        /\ Len(canon) \in Nat /\ faults \in Nat
    BY BranchElements, ChainBound DEF TrackerInvariant, TrackerTypeOK
  <2>2. CASE CheckFails
    BY <2>1, <2>2 DEF CheckFails, checkpointVars, chainVars
  <2>3. CASE Resume
    BY <2>1, <2>3 DEF Resume, checkpointVars, chainVars
  <2>4. CASE Crash
    BY <2>1, <2>4 DEF Crash, checkpointVars, chainVars
  <2>. QED BY <2>2, <2>3, <2>4
<1>2. checkpoint # NoCheckpoint =>
        /\ checkpoint \in [height : Nat, hash : Branches, finalized : Nat]
        /\ Len(checkpoint.hash) = checkpoint.height + 1
        /\ \/ \E r \in rows : r.height = checkpoint.height
           \/ Len(checkpoint.hash) <= fin /\ OnBranch(checkpoint.hash, canon)
  BY DEF TrackerInvariant, TrackerTypeOK, FinalityStands, IsFinal
<1>3. \A r \in rows : checkpoint # NoCheckpoint /\ OnBranch(r.hash, checkpoint.hash)
  BY DEF TrackerInvariant, HeadersBelowCheckpoint
<1>. QED BY <1>1, <1>2, <1>3, EndCheckKeepsInvariant

(* A rewind keeps the rows up to the ancestor, which lie on the ancestor's *)
(* own branch, and puts the checkpoint there.                              *)
LEMMA RewindKeepsInvariant ==
    ASSUME TrackerInvariant, Rewind
    PROVE  TrackerInvariant'
<1>1. /\ EndCheck /\ UNCHANGED <<canon, fin, reorgs, finalized, hand>>
      /\ finalized \in 0..(fin - 1) /\ faults' \in Nat
  BY DEF Rewind, chainVars, TrackerInvariant, TrackerTypeOK
<1>2. /\ checkpoint # NoCheckpoint
      /\ checkpoint \in [height : Nat, hash : Branches, finalized : Nat]
      /\ Len(checkpoint.hash) = checkpoint.height + 1
  BY DEF Rewind, TrackerInvariant, TrackerTypeOK, OneAtATime, Idle, NoVerdict
<1>3. /\ verdict.hash \in Branches /\ verdict.height \in Nat
      /\ Len(verdict.hash) = verdict.height + 1
      /\ OnBranch(verdict.hash, checkpoint.hash)
      /\ \/ \E r \in rows : r.height = verdict.height
         \/ Len(verdict.hash) <= fin /\ OnBranch(verdict.hash, canon)
  <2>1. verdict.kind = "rewind"
    BY DEF Rewind
  <2>2. verdict.hash \in Branches /\ verdict.height \in Nat /\ Len(verdict.hash) = verdict.height + 1
    BY <2>1 DEF TrackerInvariant, TrackerTypeOK, NoVerdict
  <2>. QED BY <2>1, <2>2 DEF TrackerInvariant, VerdictOnBranch, FinalityStands, IsFinal
<1>4. \A r \in rows : /\ r.hash \in Branches /\ r.height \in Nat /\ Len(r.hash) = r.height + 1
                      /\ OnBranch(r.hash, checkpoint.hash)
  BY DEF TrackerInvariant, TrackerTypeOK, HeadersBelowCheckpoint
<1>5. CASE /\ TruncateAboveTx(verdict.height)
           /\ checkpoint' = [checkpoint EXCEPT !.height = verdict.height, !.hash = verdict.hash]
  <2>1. rows' = {r \in rows : r.height <= verdict.height}
    BY <1>5 DEF TruncateAboveTx
  <2>2. /\ checkpoint' \in [height : Nat, hash : Branches, finalized : Nat]
        /\ checkpoint'.hash = verdict.hash /\ checkpoint'.height = verdict.height
    BY <1>2, <1>3, <1>5
  <2>3. checkpoint' # NoCheckpoint
    BY <2>2, AbsenceAssumption
  <2>4. \A r \in rows' : OnBranch(r.hash, checkpoint'.hash)
    <3>. SUFFICES ASSUME NEW r \in rows, r.height <= verdict.height
                  PROVE  OnBranch(r.hash, verdict.hash)
      BY <2>1, <2>2
    <3>1. Len(r.hash) <= Len(verdict.hash)
      BY <1>3, <1>4
    <3>. QED BY <1>2, <1>3, <1>4, <3>1, Ancestry
  <2>5. \/ \E r \in rows' : r.height = checkpoint'.height
        \/ Len(checkpoint'.hash) <= fin /\ OnBranch(checkpoint'.hash, canon)
    BY <1>3, <2>1, <2>2
  <2>. QED BY <1>1, <1>3, <2>1, <2>2, <2>3, <2>4, <2>5, EndCheckKeepsInvariant
<1>6. CASE UNCHANGED checkpointVars
  <2>1. \/ \E r \in rows : r.height = checkpoint.height
        \/ Len(checkpoint.hash) <= fin /\ OnBranch(checkpoint.hash, canon)
    BY <1>2 DEF TrackerInvariant, FinalityStands, IsFinal
  <2>. QED BY <1>1, <1>2, <1>4, <1>6, <2>1, EndCheckKeepsInvariant DEF checkpointVars
<1>. QED BY <1>5, <1>6 DEF Rewind

(* The block's transaction puts its header on top of the branch it         *)
(* continues.                                                              *)
LEMMA CommitKeepsInvariant ==
    ASSUME TrackerInvariant, Commit
    PROVE  TrackerInvariant'
<1>. USE DEF TrackerInvariant
<1>. DEFINE header == hand.header
<1>1. /\ hand # NoHeader /\ hand' = NoHeader /\ Idle /\ ContinuesChain(header)
      /\ UNCHANGED <<canon, fin, reorgs, finalized, todo, seen, verdict, clean, decidedOn>>
      /\ todo = {} /\ verdict = NoVerdict
  BY DEF Commit, chainVars, checkVars, OneAtATime, Idle
<1>2. CASE UNCHANGED checkpointVars /\ faults' = faults + 1
  <2>1. rows' = rows /\ checkpoint' = checkpoint /\ faults' \in Nat
    BY <1>2 DEF checkpointVars, TrackerTypeOK
  <2>2. /\ canon \in Branches /\ fin \in 1..Len(canon) /\ finalized \in 0..(fin - 1)
        /\ clean \in BOOLEAN /\ reorgs \in Nat /\ fin <= fin
    BY BranchElements, ChainBound DEF TrackerTypeOK
  <2>. QED BY <1>1, <2>1, <2>2, QuietKeepsInvariant
<1>3. CASE CommitTx(header, hand.final, finalized) /\ UNCHANGED faults
  <2>1. /\ header \in Blocks /\ hand.final \in BOOLEAN
        /\ hand.final => Len(header.hash) <= fin /\ OnBranch(header.hash, canon)
    BY <1>1 DEF TrackerTypeOK, FinalityStands, IsFinal
  <2>. DEFINE row == Row(header, hand.final)
  <2>2. /\ rows' = {r \in rows : r.height # header.height} \union {row}
        /\ checkpoint' = [height |-> header.height, hash |-> header.hash, finalized |-> finalized]
    BY <1>3 DEF CommitTx
  <2>3. /\ header.height \in Nat /\ header.hash \in Branches /\ Len(header.hash) = header.height + 1
        /\ header.parent \in Seq(Forks) /\ header.parent = SubSeq(header.hash, 1, header.height)
    BY <2>1 DEF Blocks
  <2>4. /\ row.height = header.height /\ row.hash = header.hash /\ row.final = hand.final
        /\ row \in [height : Nat, hash : Branches, parent : Seq(Forks), final : BOOLEAN]
    BY <2>1, <2>3 DEF Row
  <2>. HIDE DEF header, row
  <2>5. finalized \in Nat /\ fin \in Nat
    BY BranchElements, ChainBound DEF TrackerTypeOK
  <2>6. /\ checkpoint' \in [height : Nat, hash : Branches, finalized : Nat]
        /\ checkpoint'.hash = header.hash /\ checkpoint'.height = header.height
    BY <2>2, <2>3, <2>5
  <2>7. checkpoint' # NoCheckpoint
    BY <2>6, AbsenceAssumption
  <2>8. \A r \in rows : /\ r.hash \in Branches /\ r.height \in Nat /\ Len(r.hash) = r.height + 1
                        /\ checkpoint # NoCheckpoint /\ OnBranch(r.hash, checkpoint.hash)
    BY DEF TrackerTypeOK, HeadersBelowCheckpoint
  <2>9. \A r \in rows : OnBranch(r.hash, header.hash)
    <3>. SUFFICES ASSUME NEW r \in rows PROVE OnBranch(r.hash, header.hash)
      OBVIOUS
    <3>1. /\ checkpoint # NoCheckpoint /\ checkpoint.hash \in Branches
          /\ Len(checkpoint.hash) = checkpoint.height + 1 /\ checkpoint.height \in Nat
      BY <2>8 DEF TrackerTypeOK
    <3>2. header.height = checkpoint.height + 1 /\ header.parent = checkpoint.hash
      BY <1>1, <3>1 DEF ContinuesChain
    <3>3. Len(checkpoint.hash) = header.height /\ Len(checkpoint.hash) <= Len(header.hash)
      BY <2>3, <3>1, <3>2
    <3>4. OnBranch(checkpoint.hash, header.hash)
      BY <2>3, <3>2, <3>3 DEF OnBranch
    <3>. QED BY <2>3, <2>8, <3>1, <3>4, Ancestry
  <2>10. TrackerTypeOK'
    <3>1. /\ canon' \in Branches /\ fin' \in 1..Len(canon') /\ finalized' \in 0..(fin' - 1)
          /\ decidedOn' \in Branches /\ clean' \in BOOLEAN /\ reorgs' \in Nat /\ faults' \in Nat
          /\ hand' = NoHeader /\ verdict' = NoVerdict
      BY <1>1, <1>3 DEF TrackerTypeOK
    <3>2. \A r \in (rows \union todo)' :
             /\ r \in [height : Nat, hash : Branches, parent : Seq(Forks), final : BOOLEAN]
             /\ Len(r.hash) = r.height + 1
      BY <1>1, <2>2, <2>3, <2>4 DEF TrackerTypeOK
    <3>3. \A c \in seen' :
             /\ c \in [height : Nat, stored : Branches, canonical : Branches \union {NoHash}]
             /\ Len(c.stored) = c.height + 1
      BY <1>1 DEF TrackerTypeOK
    <3>. QED BY <2>3, <2>6, <3>1, <3>2, <3>3 DEF TrackerTypeOK
  <2>11. OneAtATime' /\ OneHeaderPerHeight'
    BY <1>1, <2>2, <2>4, <2>7 DEF OneAtATime, Idle, Checking, OneHeaderPerHeight
  <2>12. FinalityStands'
    <3>1. \A r \in (rows \union todo)' : r.final => Len(r.hash) <= fin /\ OnBranch(r.hash, canon)
      <4>1. \A r \in rows : r.final => Len(r.hash) <= fin /\ OnBranch(r.hash, canon)
        BY DEF FinalityStands, IsFinal
      <4>2. row.final => Len(row.hash) <= fin /\ OnBranch(row.hash, canon)
        BY <2>1, <2>4
      <4>. QED BY <1>1, <2>2, <4>1, <4>2
    <3>2. \E r \in rows' : r.height = checkpoint'.height
      BY <2>2, <2>4, <2>6
    <3>3. todo' = {} /\ hand' = NoHeader /\ verdict'.kind # "rewind"
      BY <1>1 DEF NoVerdict
    <3>. QED BY <1>1, <3>1, <3>2, <3>3 DEF FinalityStands, IsFinal
  <2>13. HeadersBelowCheckpoint'
    <3>1. OnBranch(header.hash, header.hash)
      BY <2>3, Ancestry
    <3>2. \A r \in rows' : OnBranch(r.hash, checkpoint'.hash)
      BY <2>2, <2>4, <2>6, <2>9, <3>1
    <3>. QED BY <2>7, <3>2 DEF HeadersBelowCheckpoint
  <2>14. WalkDescends' /\ VerdictOnBranch' /\ KeptIsCanonical' /\ WalkFindsFork'
    <3>1. todo' = {} /\ verdict' = NoVerdict /\ verdict'.kind # "rewind" /\ verdict'.kind # "canonical"
      BY <1>1 DEF NoVerdict
    <3>. QED BY <3>1 DEF WalkDescends, Checking, VerdictOnBranch, KeptIsCanonical, WalkFindsFork
  <2>. QED BY <2>10, <2>11, <2>12, <2>13, <2>14
<1>. QED BY <1>2, <1>3 DEF Commit

-----------------------------------------------------------------------------
(* The walk and its decision.                                              *)

(* One comparison at every height of an interval: as many as heights.      *)
LEMMA OnePerHeight ==
    ASSUME NEW S, NEW low \in Nat, NEW top \in Nat, low <= top,
           \A s \in S : s.height \in (low + 1)..top,
           \A g \in (low + 1)..top : \E s \in S : s.height = g,
           \A s, r \in S : s.height = r.height => s = r
    PROVE  Cardinality(S) = top - low
<1>. DEFINE I == (low + 1)..top
            f == [g \in I |-> CHOOSE s \in S : s.height = g]
<1>1. \A g \in I : f[g] \in S /\ f[g].height = g
  OBVIOUS
<1>2. f \in [I -> S]
  BY <1>1
<1>3. \A g, h \in I : f[g] = f[h] => g = h
  BY <1>1
<1>4. \A s \in S : \E g \in I : f[g] = s
  BY <1>1
<1>5. IsFiniteSet(I) /\ Cardinality(I) = top - low
  <2>1. low + 1 \in Int /\ top \in Int
    OBVIOUS
  <2>2. /\ IsFiniteSet((low + 1)..top)
        /\ Cardinality((low + 1)..top) = IF low + 1 > top THEN 0 ELSE top - (low + 1) + 1
    BY ONLY <2>1, FS_Interval
  <2>. QED BY <2>2
<1>. HIDE DEF f, I
<1>6. f \in Bijection(I, S)
  BY <1>2, <1>3, <1>4 DEF Bijection, Injection, Surjection, IsInjective
<1>7. ExistsBijection(I, S)
  BY <1>6 DEF ExistsBijection
<1>. QED BY <1>5, <1>7, FS_Bijection

(* What find_common_ancestor draws from a walk that ends with comparison   *)
(* c, the lowest, and in which no earlier one agreed.                      *)
LEMMA OutcomeOfWalk ==
    ASSUME NEW S, NEW c, NEW top \in Nat, c.height \in Nat, c.height <= top,
           \A s \in S : /\ s.height \in Nat /\ s.height <= top /\ c.height < s.height
                       /\ ~Matches(s)
    PROVE  /\ Matches(c) /\ S = {} =>
                 FindCommonAncestor(S \union {c}) = [kind |-> "canonical"]
           /\ Matches(c) /\ S # {} =>
                 FindCommonAncestor(S \union {c}) =
                    [kind |-> "rewind", height |-> c.height, hash |-> c.stored,
                     depth |-> Cardinality(S)]
           /\ ~Matches(c) =>
                 FindCommonAncestor(S \union {c}) = [kind |-> "beyond", oldest |-> c.height]
<1>. DEFINE cs == S \union {c}
            matching == {x \in cs : Matches(x)}
<1>1. cs # {} /\ \A x \in cs : x.height \in Nat /\ x.height <= top
  OBVIOUS
<1>2. Highest(cs) \in cs /\ \A q \in cs : q.height <= Highest(cs).height
  <2>. HIDE DEF cs
  <2>. QED BY <1>1, HighestIsHighest
<1>3. S = {} => Highest(cs) = c
  BY <1>2
<1>4. S # {} => Highest(cs) \in S
  BY <1>2
<1>5. Lowest(cs).height = c.height
  <2>1. \A q \in cs : c.height <= q.height
    OBVIOUS
  <2>2. Lowest(cs) \in cs /\ \A q \in cs : Lowest(cs).height <= q.height
    <3>. HIDE DEF cs
    <3>1. c \in cs
      BY DEF cs
    <3>. QED BY <2>1, <3>1 DEF Lowest
  <2>3. Lowest(cs).height <= c.height /\ c.height <= Lowest(cs).height /\ Lowest(cs).height \in Nat
    BY <1>1, <2>1, <2>2
  <2>. QED BY <2>3
<1>6. CASE Matches(c) /\ S = {}
  <2>1. Matches(Highest(cs))
    BY <1>3, <1>6
  <2>. QED BY <1>6, <2>1 DEF FindCommonAncestor
<1>7. CASE Matches(c) /\ S # {}
  <2>1. cs # {} /\ ~Matches(Highest(cs))
    BY <1>4, <1>7
  <2>2. matching = {c}
    BY <1>7
  <2>3. Highest(matching) = c
    <3>1. c.height <= c.height
      OBVIOUS
    <3>. QED BY <2>2, <3>1 DEF Highest
  <2>4. {x \in cs : x.height > c.height} = S
    OBVIOUS
  <2>5. FindCommonAncestor(cs) =
          [kind |-> "rewind", height |-> Highest(matching).height,
           hash |-> Highest(matching).stored,
           depth |-> Cardinality({x \in cs : x.height > Highest(matching).height})]
    <3>1. matching # {}
      BY <2>2
    <3>. HIDE DEF cs
    <3>. QED BY <2>1, <3>1 DEF FindCommonAncestor
  <2>. QED BY <1>7, <2>3, <2>4, <2>5
<1>8. CASE ~Matches(c)
  <2>1. cs # {} /\ ~Matches(Highest(cs)) /\ matching = {}
    BY <1>2, <1>8
  <2>2. FindCommonAncestor(cs) = [kind |-> "beyond", oldest |-> Lowest(cs).height]
    <3>. HIDE DEF cs
    <3>. QED BY <2>1 DEF FindCommonAncestor
  <2>. QED BY <1>5, <1>8, <2>2
<1>. QED BY <1>6, <1>7, <1>8

(* The next header to compare is the highest that is left.                 *)
LEMMA NextIsHighest ==
    ASSUME TrackerInvariant, Checking
    PROVE  /\ Highest(todo) \in todo
           /\ \A r \in todo : r.height <= Highest(todo).height
           /\ \A r \in todo \ {Highest(todo)} : r.height < Highest(todo).height
<1>. USE DEF TrackerInvariant
<1>1. checkpoint.height \in Nat
  BY DEF OneAtATime, Idle, Checking, TrackerTypeOK
<1>2. \A r \in todo : r.height \in Nat /\ r.height <= checkpoint.height
  BY DEF TrackerTypeOK, WalkDescends
<1>3. todo # {}
  BY DEF Checking
<1>4. Highest(todo) \in todo /\ \A r \in todo : r.height <= Highest(todo).height
  BY ONLY <1>1, <1>2, <1>3, HighestIsHighest
<1>5. \A r \in todo \ {Highest(todo)} : r.height # Highest(todo).height
  BY <1>4 DEF OneHeaderPerHeight
<1>6. \A r \in todo \ {Highest(todo)} : r.height < Highest(todo).height
  BY <1>2, <1>4, <1>5
<1>. QED BY <1>4, <1>6

(* If the chain stood still, nothing was reported missing and the headers  *)
(* down to the fork are there, the walk that ends here finds the fork.     *)
LEMMA WalkIsRight ==
    ASSUME TrackerInvariant, Checking, clean, HistoryDownTo(ForkHeight(canon)),
           NEW c,
           c = [height |-> Highest(todo).height, stored |-> Highest(todo).hash,
                canonical |-> Answer(Highest(todo).height)],
           Matches(c) \/ todo = {Highest(todo)}
    PROVE  FindCommonAncestor(seen \union {c}) = RightVerdict(canon)
<1>. DEFINE row  == Highest(todo)
            top  == checkpoint.height
            fork == ForkHeight(canon)
            low  == Floor(checkpoint)
<1>1. /\ checkpoint # NoCheckpoint /\ checkpoint.hash \in Branches /\ top \in Nat
      /\ Len(checkpoint.hash) = top + 1
      /\ canon \in Branches /\ Len(canon) \in Nat
      /\ low \in Nat /\ low = IF top > SearchDepth THEN top - SearchDepth ELSE 0
      /\ SearchDepth \in Nat
  <2>1. /\ checkpoint # NoCheckpoint /\ checkpoint.hash \in Branches /\ top \in Nat
        /\ Len(checkpoint.hash) = top + 1 /\ canon \in Branches
    BY DEF TrackerInvariant, OneAtATime, Idle, Checking, TrackerTypeOK
  <2>. QED BY <2>1, BranchElements, ChainBound, DepthAssumption DEF Floor
<1>2. /\ fork \in 0..top /\ OnBranch(HashAt(checkpoint.hash, fork), canon)
      /\ \A g \in (fork + 1)..top : ~OnBranch(HashAt(checkpoint.hash, g), canon)
  BY <1>1, ForkIsLastShared
<1>3. /\ row \in todo /\ \A r \in todo : r.height <= row.height
      /\ row.height \in Nat /\ row.hash \in Branches /\ Len(row.hash) = row.height + 1
      /\ OnBranch(row.hash, checkpoint.hash) /\ low <= row.height /\ row.height <= top
  <2>1. row \in todo /\ \A r \in todo : r.height <= row.height
    BY NextIsHighest
  <2>. QED BY <2>1 DEF TrackerInvariant, TrackerTypeOK, WalkDescends
<1>4. \A x \in seen \union {c} :
         /\ x.height \in Nat /\ x.stored \in Branches /\ Len(x.stored) = x.height + 1
         /\ OnBranch(x.stored, checkpoint.hash) /\ low <= x.height /\ x.height <= top
         /\ x.canonical = Answer(x.height)
  BY <1>3 DEF TrackerInvariant, TrackerTypeOK, WalkDescends
<1>5. \A x \in seen : /\ ~Matches(x) /\ row.height < x.height
                     /\ \A y \in seen : x.height = y.height => x = y
  BY <1>3 DEF TrackerInvariant, WalkDescends
<1>6. \A g \in fork..top : low <= g =>
         \E x \in todo \union seen : x.height = g
  <2>. SUFFICES ASSUME NEW g \in fork..top, low <= g
                PROVE  Examined(g)
    BY DEF Examined
  <2>1. \E r \in rows : r.height = g
    BY DEF HistoryDownTo
  <2>. QED BY <2>1 DEF TrackerInvariant, WalkDescends
<1>. HIDE DEF row, top, fork, low
<1>7. c.height = row.height /\ c.stored = row.hash /\ c.canonical = Answer(row.height)
  BY DEF row
<1>8. \A x \in seen \union {c} : Matches(x) <=> x.height <= fork
  <2>. SUFFICES ASSUME NEW x \in seen \union {c}
                PROVE  Matches(x) <=> x.height <= fork
    OBVIOUS
  <2>1. /\ x.height \in Nat /\ x.stored \in Branches /\ Len(x.stored) = x.height + 1
        /\ OnBranch(x.stored, checkpoint.hash) /\ x.height <= top
        /\ x.canonical = Answer(x.height)
    BY <1>4
  <2>2. x.stored = HashAt(checkpoint.hash, x.height)
    <3>1. checkpoint.hash \in Branches
      BY <1>1
    <3>2. x.stored = HashAt(checkpoint.hash, Len(x.stored) - 1)
      BY <2>1, <3>1, OnBranchElements
    <3>3. Len(x.stored) - 1 = x.height
      BY <2>1
    <3>. QED BY <3>2, <3>3
  <2>3. ASSUME Matches(x) PROVE x.height <= fork
    <3>1. x.height < Len(canon) /\ HashAt(canon, x.height) = x.stored
      <4>1. Answer(x.height) = x.stored /\ x.stored # NoHash
        BY <2>1, <2>3, AbsenceAssumption DEF Matches
      <4>. QED BY <4>1 DEF Answer
    <3>2. OnBranch(x.stored, canon)
      <4>1. Len(x.stored) <= Len(canon) /\ Len(x.stored) - 1 = x.height
        BY <1>1, <2>1, <3>1
      <4>. QED BY <1>1, <2>1, <3>1, <4>1, OnBranchElements
    <3>. QED BY <1>1, <1>2, <2>1, <2>2, <3>2
  <2>4. ASSUME x.height <= fork PROVE Matches(x)
    <3>1. /\ fork \in Nat /\ fork < Len(checkpoint.hash) /\ fork <= top
      BY <1>1, <1>2
    <3>2. /\ HashAt(checkpoint.hash, fork) \in Branches
          /\ Len(HashAt(checkpoint.hash, fork)) = fork + 1
          /\ \A i \in 1..(fork + 1) : HashAt(checkpoint.hash, fork)[i] = checkpoint.hash[i]
      BY <1>1, <3>1, HashIsBranch
    <3>3. OnBranch(HashAt(checkpoint.hash, fork), checkpoint.hash)
      <4>1. Len(HashAt(checkpoint.hash, fork)) <= Len(checkpoint.hash)
        BY <1>1, <3>1, <3>2
      <4>. QED BY <1>1, <3>2, <4>1, OnBranchElements
    <3>4. Len(x.stored) <= Len(HashAt(checkpoint.hash, fork))
      BY <2>1, <2>4, <3>1, <3>2
    <3>5. OnBranch(x.stored, canon)
      BY <1>1, <1>2, <2>1, <3>2, <3>3, <3>4, Ancestry
    <3>6. /\ x.stored = HashAt(canon, Len(x.stored) - 1) /\ Len(x.stored) - 1 = x.height
          /\ x.height < Len(canon)
      BY <1>1, <2>1, <3>5, OnBranchElements
    <3>. QED BY <2>1, <3>6 DEF Matches, Answer
  <2>. QED BY <2>3, <2>4
<1>9. \A x \in seen : x.height > fork /\ x.height \in Nat /\ x.height <= top
  BY <1>2, <1>4, <1>5, <1>8
<1>10. /\ \A s \in seen : /\ s.height \in Nat /\ s.height <= top /\ c.height < s.height
                          /\ ~Matches(s)
       /\ c.height \in Nat /\ c.height <= top
  BY <1>3, <1>5, <1>7, <1>9
<1>11. CASE Matches(c)
  <2>1. row.height = fork
    <3>1. row.height <= fork /\ row.height \in Nat /\ fork \in Nat /\ low <= fork
      BY <1>1, <1>2, <1>3, <1>7, <1>8, <1>11
    <3>2. ASSUME row.height < fork PROVE FALSE
      <4>1. PICK x \in todo \union seen : x.height = fork
        BY <1>1, <1>2, <1>6, <3>1
      <4>2. ~(x.height <= row.height)
        BY <3>1, <3>2, <4>1
      <4>3. x \in seen
        BY <1>3, <4>1, <4>2
      <4>. QED BY <1>9, <3>1, <4>1, <4>3
    <3>. QED BY <3>1, <3>2
  <2>2. fork \in Nat /\ fork <= top /\ low <= fork
    BY <1>1, <1>2, <1>3, <2>1
  <2>3. \A g \in (fork + 1)..top : \E s \in seen : s.height = g
    <3>. SUFFICES ASSUME NEW g \in (fork + 1)..top PROVE \E s \in seen : s.height = g
      OBVIOUS
    <3>1. g \in fork..top /\ low <= g /\ ~(g <= row.height)
      BY <1>1, <2>1, <2>2
    <3>2. PICK x \in todo \union seen : x.height = g
      BY <1>6, <3>1
    <3>. QED BY <1>3, <3>1, <3>2
  <2>4. \A s \in seen : s.height \in (fork + 1)..top
    BY <1>1, <1>9, <2>2
  <2>5. \A s, r \in seen : s.height = r.height => s = r
    BY <1>5
  <2>6. Cardinality(seen) = top - fork
    BY <1>1, <2>2, <2>3, <2>4, <2>5, OnePerHeight
  <2>7. c.stored = HashAt(canon, fork)
    BY <1>3, <1>7, <1>11, <2>1, AbsenceAssumption DEF Matches, Answer
  <2>8. top - fork <= SearchDepth /\ top - fork \in Nat
    BY <1>1, <2>2
  <2>9. RightVerdict(canon) =
          IF top - fork = 0 THEN [kind |-> "canonical"]
          ELSE [kind |-> "rewind", height |-> fork, hash |-> HashAt(canon, fork),
                depth |-> top - fork]
    BY <2>8 DEF RightVerdict, top, fork
  <2>10. seen = {} <=> top - fork = 0
    <3>1. ASSUME seen = {} PROVE top - fork = 0
      <4>1. top \notin (fork + 1)..top
        BY <2>3, <3>1
      <4>. QED BY <1>1, <2>2, <4>1
    <3>2. ASSUME top - fork = 0 PROVE seen = {}
      BY <1>1, <2>2, <2>4, <3>2
    <3>. QED BY <3>1, <3>2
  <2>11. /\ seen = {} => FindCommonAncestor(seen \union {c}) = [kind |-> "canonical"]
         /\ seen # {} => FindCommonAncestor(seen \union {c}) =
              [kind |-> "rewind", height |-> c.height, hash |-> c.stored,
               depth |-> Cardinality(seen)]
    BY <1>1, <1>10, <1>11, OutcomeOfWalk
  <2>. QED BY <1>7, <2>1, <2>6, <2>7, <2>9, <2>10, <2>11
<1>12. CASE ~Matches(c)
  <2>1. todo = {row} /\ row.height \in Nat /\ fork \in Nat /\ row.height > fork
    BY <1>2, <1>3, <1>7, <1>8, <1>12 DEF row
  <2>2. ~(low <= fork)
    <3>. SUFFICES ASSUME low <= fork PROVE FALSE
      OBVIOUS
    <3>1. PICK x \in todo \union seen : x.height = fork
      BY <1>1, <1>2, <1>6
    <3>2. x.height > fork
      BY <1>9, <2>1, <3>1
    <3>. QED BY <2>1, <3>1, <3>2
  <2>3. low = top - SearchDepth /\ fork < low /\ low <= top /\ top - fork > SearchDepth /\ top - fork \in Nat
    BY <1>1, <1>2, <2>1, <2>2
  <2>4. row.height = low
    <3>1. low \in fork..top
      BY <1>1, <2>1, <2>3
    <3>2. PICK x \in todo \union seen : x.height = low
      BY <1>1, <1>6, <3>1
    <3>3. row.height <= x.height
      BY <1>3, <1>5, <1>9, <2>1, <3>2
    <3>. QED BY <1>1, <1>3, <3>2, <3>3
  <2>5. RightVerdict(canon) = [kind |-> "beyond", oldest |-> top - SearchDepth]
    <3>1. top - fork # 0 /\ ~(top - fork <= SearchDepth)
      BY <1>1, <2>3
    <3>. QED BY <3>1 DEF RightVerdict, top, fork
  <2>6. FindCommonAncestor(seen \union {c}) = [kind |-> "beyond", oldest |-> c.height]
    BY <1>1, <1>10, <1>12, OutcomeOfWalk
  <2>. QED BY <1>7, <2>3, <2>4, <2>5, <2>6
<1>. QED BY <1>11, <1>12

(* A check begins with every stored header in reach, from the checkpoint   *)
(* down.                                                                   *)
LEMMA BeginCheckKeepsInvariant ==
    ASSUME TrackerInvariant, BeginCheck
    PROVE  TrackerInvariant'
<1>. USE DEF TrackerInvariant
<1>. DEFINE stored == HeadersBetween(checkpoint.height, Floor(checkpoint))
<1>1. /\ UNCHANGED <<rows, checkpoint, canon, fin, reorgs, finalized, faults>>
      /\ hand' = NoHeader /\ todo' = stored /\ seen' = {} /\ clean' = TRUE
      /\ verdict = NoVerdict /\ checkpoint # NoCheckpoint
  BY DEF BeginCheck, Idle, checkpointVars, chainVars
<1>2. /\ checkpoint.height \in Nat /\ checkpoint.hash \in Branches
      /\ Len(checkpoint.hash) = checkpoint.height + 1
  BY <1>1 DEF TrackerTypeOK
<1>3. Floor(checkpoint) \in 0..checkpoint.height
  BY <1>2, DepthAssumption DEF Floor
<1>4. \A r \in rows : /\ r.height \in Nat /\ r.height <= checkpoint.height /\ r.hash \in Branches
                      /\ Len(r.hash) = r.height + 1 /\ OnBranch(r.hash, checkpoint.hash)
  <2>. SUFFICES ASSUME NEW r \in rows
                PROVE  /\ r.height \in Nat /\ r.height <= checkpoint.height /\ r.hash \in Branches
                       /\ Len(r.hash) = r.height + 1 /\ OnBranch(r.hash, checkpoint.hash)
    OBVIOUS
  <2>1. /\ r.height \in Nat /\ r.hash \in Branches /\ Len(r.hash) = r.height + 1
        /\ OnBranch(r.hash, checkpoint.hash)
    BY DEF TrackerTypeOK, HeadersBelowCheckpoint
  <2>2. Len(r.hash) <= Len(checkpoint.hash)
    BY <2>1 DEF OnBranch
  <2>. QED BY <1>2, <2>1, <2>2
<1>5. stored = {r \in rows : Floor(checkpoint) <= r.height}
  BY <1>4 DEF HeadersBetween
<1>6. \/ stored # {} /\ verdict' = NoVerdict /\ decidedOn' = decidedOn
      \/ stored = {} /\ verdict' = [kind |-> "canonical"] /\ decidedOn' = canon
  BY <1>1 DEF BeginCheck, Decide, FindCommonAncestor
<1>. HIDE DEF stored
<1>7. TrackerTypeOK'
  BY <1>1, <1>5, <1>6 DEF TrackerTypeOK, NoVerdict
<1>8. OneAtATime'
  BY <1>1, <1>6 DEF OneAtATime, Idle, Checking
<1>9. FinalityStands'
  <2>1. verdict'.kind # "rewind"
    BY <1>6 DEF NoVerdict
  <2>. QED BY <1>1, <1>5, <2>1 DEF FinalityStands, IsFinal
<1>10. OneHeaderPerHeight' /\ HeadersBelowCheckpoint'
  BY <1>1, <1>5 DEF OneHeaderPerHeight, HeadersBelowCheckpoint
<1>11. \/ \E r \in stored : r.height = checkpoint.height
       \/ Len(checkpoint.hash) <= fin /\ OnBranch(checkpoint.hash, canon)
  BY <1>1, <1>2, <1>3, <1>5 DEF FinalityStands, IsFinal
<1>12. WalkDescends'
  <2>1. \A r \in stored : /\ OnBranch(r.hash, checkpoint.hash)
                         /\ Floor(checkpoint) <= r.height /\ r.height <= checkpoint.height
    BY <1>4, <1>5
  <2>2. \A r \in rows : Floor(checkpoint) <= r.height => \E x \in stored : x.height = r.height
    BY <1>5
  <2>. QED BY <1>1, <1>11, <2>1, <2>2 DEF WalkDescends, Examined, IsFinal, Floor
<1>13. VerdictOnBranch'
  BY <1>6 DEF VerdictOnBranch, NoVerdict
<1>14. CASE stored # {}
  BY <1>6, <1>7, <1>8, <1>9, <1>10, <1>12, <1>13, <1>14 DEF KeptIsCanonical, WalkFindsFork, NoVerdict
<1>15. CASE stored = {}
  <2>1. verdict' = [kind |-> "canonical"] /\ decidedOn' = canon
    BY <1>6, <1>15
  <2>2. KeptIsCanonical'
    BY <1>1, <1>11, <1>15, <2>1 DEF KeptIsCanonical
  <2>3. WalkFindsFork'
    <3>. DEFINE fork == ForkHeight(canon)
    <3>1. ForkHeight(decidedOn)' = fork
      BY <1>1, <2>1 DEF ForkHeight
    <3>2. fork \in 0..checkpoint.height
      BY <1>2, ForkIsLastShared DEF TrackerTypeOK
    <3>. HIDE DEF fork
    <3>3. ~(\E r \in rows : r.height = checkpoint.height)
      BY <1>3, <1>5, <1>15
    <3>4. ~HistoryDownTo(fork)
      <4>1. checkpoint.height \in fork..checkpoint.height
        BY <1>2, <3>2
      <4>. QED BY <3>3, <4>1 DEF HistoryDownTo
    <3>5. HistoryDownTo(ForkHeight(decidedOn))' => HistoryDownTo(fork)
      BY <1>1, <3>1 DEF HistoryDownTo
    <3>. QED BY <3>4, <3>5 DEF WalkFindsFork
  <2>. QED BY <1>7, <1>8, <1>9, <1>10, <1>12, <1>13, <2>2, <2>3
<1>. QED BY <1>14, <1>15

(* An answer moves the walk down, or ends it with a decision: at the first *)
(* height that agrees, or when every header has been compared.             *)
LEMMA CompareKeepsInvariant ==
    ASSUME TrackerInvariant, Checking,
           NEW answer, Compare(answer),
           \/ answer = NoHash
           \/ Highest(todo).height < Len(canon) /\ answer = HashAt(canon, Highest(todo).height),
           clean' \in BOOLEAN,
           clean' => clean /\ answer = Answer(Highest(todo).height),
           faults' \in Nat
    PROVE  TrackerInvariant'
<1>. USE DEF TrackerInvariant
<1>. DEFINE row == Highest(todo)
            c   == [height |-> row.height, stored |-> row.hash, canonical |-> answer]
            cs  == seen \union {c}
            rest == Rest(row, c)
<1>1. /\ UNCHANGED <<rows, checkpoint, canon, fin, reorgs, finalized, hand>>
      /\ todo' = rest
      /\ rest = {} => seen' = {} /\ verdict' = FindCommonAncestor(cs) /\ decidedOn' = canon
      /\ rest # {} => seen' = cs /\ verdict' = verdict /\ decidedOn' = decidedOn
  BY DEF Compare, Decide, checkpointVars, chainVars
<1>2. /\ checkpoint # NoCheckpoint /\ checkpoint.height \in Nat /\ checkpoint.hash \in Branches
      /\ Len(checkpoint.hash) = checkpoint.height + 1
      /\ canon \in Branches /\ verdict = NoVerdict /\ hand = NoHeader
  BY DEF OneAtATime, Idle, Checking, TrackerTypeOK
<1>3. /\ row \in todo /\ \A r \in todo : r.height <= row.height
      /\ \A r \in todo \ {row} : r.height < row.height
  BY NextIsHighest
<1>4. /\ row.height \in Nat /\ row.hash \in Branches /\ Len(row.hash) = row.height + 1
      /\ OnBranch(row.hash, checkpoint.hash)
      /\ Floor(checkpoint) <= row.height /\ row.height <= checkpoint.height
      /\ row \in rows \/ (Len(row.hash) <= fin /\ OnBranch(row.hash, canon))
  BY <1>3 DEF TrackerTypeOK, WalkDescends, FinalityStands, IsFinal
<1>5. answer \in Branches \union {NoHash}
  BY <1>2, <1>4, HashIsBranch
<1>6. /\ c \in [height : Nat, stored : Branches, canonical : Branches \union {NoHash}]
      /\ c.height = row.height /\ c.stored = row.hash /\ c.canonical = answer
      /\ Matches(c) <=> answer = row.hash
  BY <1>4, <1>5 DEF Matches
<1>7. \A s \in seen : /\ s.height \in Nat /\ s.height <= checkpoint.height /\ row.height < s.height
                     /\ ~Matches(s)
  BY <1>3 DEF TrackerTypeOK, WalkDescends
<1>8. rest = IF Matches(c) THEN {} ELSE todo \ {row}
  BY DEF Rest
<1>9. Matches(c) => OnBranch(row.hash, canon)
  <2>. SUFFICES ASSUME Matches(c) PROVE OnBranch(row.hash, canon)
    OBVIOUS
  <2>1. row.height < Len(canon) /\ row.hash = HashAt(canon, row.height)
    BY <1>4, <1>6, AbsenceAssumption
  <2>2. Len(row.hash) <= Len(canon) /\ Len(row.hash) - 1 = row.height
    BY <1>2, <1>4, <2>1, BranchElements, ChainBound
  <2>. QED BY <1>2, <1>4, <2>1, <2>2, OnBranchElements
<1>. HIDE DEF row, c, rest
<1>10. CASE rest # {}
  <2>1. /\ ~Matches(c) /\ todo' = todo \ {row} /\ todo' # {}
        /\ seen' = cs /\ verdict' = NoVerdict /\ decidedOn' = decidedOn
    BY <1>1, <1>2, <1>8, <1>10
  <2>2. TrackerTypeOK'
    <3>1. \A r \in (rows \union todo)' :
            /\ r \in [height : Nat, hash : Branches, parent : Seq(Forks), final : BOOLEAN]
            /\ Len(r.hash) = r.height + 1
      BY <1>1, <2>1 DEF TrackerTypeOK
    <3>2. \A x \in seen' :
            /\ x \in [height : Nat, stored : Branches, canonical : Branches \union {NoHash}]
            /\ Len(x.stored) = x.height + 1
      BY <1>4, <1>6, <2>1 DEF TrackerTypeOK
    <3>. QED BY <1>1, <1>2, <2>1, <3>1, <3>2 DEF TrackerTypeOK
  <2>3. OneAtATime' /\ OneHeaderPerHeight' /\ HeadersBelowCheckpoint'
    BY <1>1, <1>2, <2>1
       DEF OneAtATime, Idle, Checking, OneHeaderPerHeight, HeadersBelowCheckpoint
  <2>4. verdict'.kind # "rewind" /\ verdict'.kind # "canonical"
    BY <2>1 DEF NoVerdict
  <2>5. FinalityStands'
    BY <1>1, <1>2, <2>1, <2>4 DEF FinalityStands, IsFinal
  <2>6. VerdictOnBranch' /\ KeptIsCanonical' /\ WalkFindsFork'
    BY <2>1, <2>4 DEF VerdictOnBranch, KeptIsCanonical, WalkFindsFork
  <2>7. WalkDescends'
    <3>1. \A r \in todo' : /\ OnBranch(r.hash, checkpoint.hash)
                          /\ Floor(checkpoint) <= r.height /\ r.height <= checkpoint.height
      BY <2>1 DEF WalkDescends
    <3>2. \A x \in seen' : /\ OnBranch(x.stored, checkpoint.hash) /\ ~Matches(x)
                          /\ Floor(checkpoint) <= x.height /\ x.height <= checkpoint.height
      BY <1>4, <1>6, <2>1 DEF WalkDescends
    <3>3. \A x \in seen' : \A r \in todo' : r.height < x.height
      BY <1>3, <1>6, <2>1 DEF WalkDescends
    <3>4. \A x, y \in seen' : x.height = y.height => x = y
      <4>1. \A x, y \in seen : x.height = y.height => x = y
        BY DEF WalkDescends, Checking
      <4>2. \A x \in seen : x.height # c.height
        BY <1>4, <1>6, <1>7
      <4>. QED BY <2>1, <4>1, <4>2
    <3>5. \A x \in seen' : clean' => x.canonical = Answer(x.height)'
      <4>. SUFFICES ASSUME clean', NEW x \in seen' PROVE x.canonical = Answer(x.height)
        BY <1>1 DEF Answer
      <4>1. CASE x \in seen
        BY <4>1 DEF WalkDescends
      <4>2. CASE x = c
        BY <1>6, <4>2 DEF row
      <4>. QED BY <2>1, <4>1, <4>2
    <3>6. \A h \in Nat : Examined(h) => Examined(h)'
      BY <1>6, <2>1 DEF Examined
    <3>7. \A r \in rows : Floor(checkpoint) <= r.height => Examined(r.height)'
      BY <3>6 DEF WalkDescends, TrackerTypeOK
    <3>8. Examined(checkpoint.height)' \/ IsFinal(checkpoint.hash)'
      BY <1>1, <1>2, <3>6 DEF WalkDescends, IsFinal, Examined
    <3>. QED BY <1>1, <3>1, <3>2, <3>3, <3>4, <3>5, <3>7, <3>8 DEF WalkDescends, Floor, Examined
  <2>. QED BY <2>2, <2>3, <2>5, <2>6, <2>7
<1>11. CASE rest = {}
  <2>1. /\ todo' = {} /\ seen' = {} /\ verdict' = FindCommonAncestor(cs) /\ decidedOn' = canon
    BY <1>1, <1>11
  <2>2. /\ Matches(c) /\ seen = {} => verdict' = [kind |-> "canonical"]
        /\ Matches(c) /\ seen # {} =>
              verdict' = [kind |-> "rewind", height |-> row.height, hash |-> row.hash,
                          depth |-> Cardinality(seen)]
        /\ ~Matches(c) => verdict' = [kind |-> "beyond", oldest |-> row.height]
    <3>1. /\ c.height \in Nat /\ c.height <= checkpoint.height
          /\ \A s \in seen : /\ s.height \in Nat /\ s.height <= checkpoint.height
                             /\ c.height < s.height /\ ~Matches(s)
      BY <1>4, <1>6, <1>7
    <3>. QED BY <1>2, <1>6, <2>1, <3>1, OutcomeOfWalk
  <2>3. Cardinality(seen) \in Nat
    <3>. DEFINE H == {s.height : s \in seen}
    <3>1. H \in SUBSET Nat /\ \A h \in H : h <= checkpoint.height
      BY <1>7
    <3>2. IsFiniteSet(H)
      <4>. HIDE DEF H
      <4>. QED BY <1>2, <3>1, FS_BoundedSetOfNaturals
    <3>. DEFINE f == [h \in H |-> CHOOSE s \in seen : s.height = h]
    <3>3. \A h \in H : f[h] \in seen /\ f[h].height = h
      OBVIOUS
    <3>4. \A x, y \in seen : x.height = y.height => x = y
      BY DEF WalkDescends, Checking
    <3>5. \A x \in seen : x.height \in H /\ f[x.height] = x
      BY <3>3, <3>4
    <3>6. f \in Bijection(H, seen)
      <4>1. f \in [H -> seen] /\ \A g, h \in H : f[g] = f[h] => g = h
        BY <3>3
      <4>2. \A x \in seen : \E h \in H : f[h] = x
        BY <3>5
      <4>. HIDE DEF f, H
      <4>. QED BY <4>1, <4>2 DEF Bijection, Injection, Surjection, IsInjective
    <3>. HIDE DEF f, H
    <3>7. ExistsBijection(H, seen)
      BY <3>6 DEF ExistsBijection
    <3>. QED BY <3>2, <3>7, FS_Bijection, FS_CardinalityType
  <2>4. verdict' # NoVerdict
    BY <2>2 DEF NoVerdict
  <2>5. TrackerTypeOK'
    <3>1. \/ verdict' \in [kind : {"canonical"}]
          \/ verdict' \in [kind : {"rewind"}, height : Nat, hash : Branches, depth : Nat]
             /\ Len(verdict'.hash) = verdict'.height + 1
          \/ verdict' \in [kind : {"beyond"}, oldest : Nat]
      BY <1>4, <2>2, <2>3
    <3>. QED BY <1>1, <1>2, <2>1, <3>1 DEF TrackerTypeOK
  <2>6. OneAtATime' /\ OneHeaderPerHeight' /\ HeadersBelowCheckpoint' /\ WalkDescends'
    BY <1>1, <1>2, <2>1
       DEF OneAtATime, Checking, OneHeaderPerHeight, HeadersBelowCheckpoint, WalkDescends
  <2>7. verdict'.kind = "rewind" =>
          Matches(c) /\ verdict'.hash = row.hash /\ verdict'.height = row.height
    BY <2>2
  <2>8. FinalityStands'
    BY <1>1, <1>2, <1>4, <2>1, <2>7 DEF FinalityStands, IsFinal
  <2>9. VerdictOnBranch'
    BY <1>1, <1>4, <2>7 DEF VerdictOnBranch
  <2>10. KeptIsCanonical'
    <3>1. ASSUME verdict'.kind = "canonical" PROVE OnBranch(checkpoint.hash, canon)
      <4>1. Matches(c) /\ seen = {}
        BY <2>2, <3>1
      <4>2. CASE Examined(checkpoint.height)
        <5>1. PICK r \in todo : r.height = checkpoint.height
          BY <4>1, <4>2 DEF Examined
        <5>2. row.height = checkpoint.height
          BY <1>2, <1>3, <1>4, <5>1
        <5>3. row.hash = checkpoint.hash
          BY <1>2, <1>4, <5>2, Ancestry
        <5>. QED BY <1>9, <4>1, <5>3
      <4>3. CASE IsFinal(checkpoint.hash)
        BY <4>3 DEF IsFinal
      <4>. QED BY <4>2, <4>3 DEF WalkDescends
    <3>2. ASSUME verdict'.kind = "rewind"
          PROVE  /\ OnBranch(verdict'.hash, canon)
                 /\ \A r \in rows : r.height <= verdict'.height => OnBranch(r.hash, canon)
      <4>1. Matches(c) /\ verdict'.hash = row.hash /\ verdict'.height = row.height
        BY <2>7, <3>2
      <4>2. OnBranch(row.hash, canon)
        BY <1>9, <4>1
      <4>3. ASSUME NEW r \in rows, r.height <= row.height
            PROVE  OnBranch(r.hash, canon)
        <5>1. /\ r.hash \in Branches /\ Len(r.hash) = r.height + 1 /\ r.height \in Nat
              /\ OnBranch(r.hash, checkpoint.hash)
          BY DEF TrackerTypeOK, HeadersBelowCheckpoint
        <5>2. Len(r.hash) <= Len(row.hash)
          BY <1>4, <4>3, <5>1
        <5>3. OnBranch(r.hash, row.hash)
          BY <1>2, <1>4, <5>1, <5>2, Ancestry
        <5>. QED BY <1>2, <1>4, <4>2, <5>1, <5>3, Ancestry
      <4>. QED BY <4>1, <4>2, <4>3
    <3>. QED BY <1>1, <2>1, <3>1, <3>2 DEF KeptIsCanonical
  <2>11. WalkFindsFork'
    <3>1. ForkHeight(decidedOn)' = ForkHeight(canon)
      BY <1>1, <2>1 DEF ForkHeight
    <3>2. RightVerdict(decidedOn)' = RightVerdict(canon)
      BY <1>1, <2>1 DEF RightVerdict, ForkHeight
    <3>3. HistoryDownTo(ForkHeight(decidedOn))' => HistoryDownTo(ForkHeight(canon))
      BY <1>1, <3>1 DEF HistoryDownTo
    <3>. SUFFICES ASSUME clean', HistoryDownTo(ForkHeight(canon))
                  PROVE  verdict' = RightVerdict(canon)
      BY <3>2, <3>3 DEF WalkFindsFork
    <3>4. Matches(c) \/ todo = {row}
      BY <1>3, <1>8, <1>11
    <3>5. c = [height |-> Highest(todo).height, stored |-> Highest(todo).hash,
               canonical |-> Answer(Highest(todo).height)]
      BY DEF c, row
    <3>6. FindCommonAncestor(cs) = RightVerdict(canon)
      BY <3>4, <3>5, WalkIsRight DEF row
    <3>. QED BY <2>1, <3>6
  <2>. QED BY <2>5, <2>6, <2>8, <2>9, <2>10, <2>11
<1>. QED BY <1>10, <1>11

(* Every step keeps the invariant.                                         *)
LEMMA TrackerInvariantStep == TrackerInvariant /\ [Next]_vars => TrackerInvariant'
<1>. SUFFICES ASSUME TrackerInvariant, [Next]_vars PROVE TrackerInvariant'
  OBVIOUS
<1>1. CASE Extend \/ Reorganise \/ Finalize
  BY <1>1, ChainKeepsInvariant
<1>2. CASE Refresh \/ Prune \/ Fetch
  BY <1>2, FetchKeepsInvariant
<1>3. CASE Commit
  BY <1>3, CommitKeepsInvariant
<1>4. CASE BeginCheck
  BY <1>4, BeginCheckKeepsInvariant
<1>5. CASE Answered
  <2>. DEFINE answer == Answer(Highest(todo).height)
  <2>1. Checking /\ Compare(answer) /\ clean' = clean /\ faults' = faults
    BY <1>5 DEF Answered, Answer
  <2>2. \/ answer = NoHash
        \/ Highest(todo).height < Len(canon) /\ answer = HashAt(canon, Highest(todo).height)
    BY DEF Answer
  <2>3. clean \in BOOLEAN /\ faults \in Nat
    BY DEF TrackerInvariant, TrackerTypeOK
  <2>. HIDE DEF answer
  <2>4. answer = Answer(Highest(todo).height)
    BY DEF answer
  <2>. QED BY <2>1, <2>2, <2>3, <2>4, CompareKeepsInvariant
<1>6. CASE Unavailable
  <2>1. Checking /\ Compare(NoHash) /\ clean' = FALSE /\ faults' \in Nat
    BY <1>6 DEF Unavailable, TrackerInvariant, TrackerTypeOK
  <2>. QED BY <2>1, CompareKeepsInvariant
<1>7. CASE CheckFails \/ Resume \/ Crash
  BY <1>7, GivingUpKeepsInvariant
<1>8. CASE Rewind
  BY <1>8, RewindKeepsInvariant
<1>9. CASE UNCHANGED vars
  <2>1. /\ canon \in Branches /\ fin \in 1..Len(canon) /\ finalized \in 0..(fin - 1) /\ fin <= fin
        /\ clean \in BOOLEAN /\ reorgs \in Nat /\ faults \in Nat
    BY BranchElements, ChainBound DEF TrackerInvariant, TrackerTypeOK
  <2>. QED BY <1>9, <2>1, QuietKeepsInvariant
           DEF vars, checkpointVars, chainVars, trackerVars, checkVars
<1>. QED BY <1>1, <1>2, <1>3, <1>4, <1>5, <1>6, <1>7, <1>8, <1>9 DEF Next

LEMMA TrackerKeepsInvariant == Spec => []TrackerInvariant
BY TrackerStartsWell, TrackerInvariantStep, PTL DEF Spec

-----------------------------------------------------------------------------
(* The header table and the checkpoint are one branch that the checkpoint  *)
(* tops, through every commit, rewind, prune, failure and crash.           *)
THEOREM TrackerHeadersBelowCheckpoint == Spec => []HeadersBelowCheckpoint
<1>1. TrackerInvariant => HeadersBelowCheckpoint
  BY DEF TrackerInvariant
<1>. QED BY <1>1, TrackerKeepsInvariant, PTL

(* Whatever the chain does while check() compares, and whatever cannot be  *)
(* served: when the decision is drawn, what it keeps is canonical.         *)
THEOREM TrackerKeptIsCanonical == Spec => []KeptIsCanonical
<1>1. TrackerInvariant => KeptIsCanonical
  BY DEF TrackerInvariant
<1>. QED BY <1>1, TrackerKeepsInvariant, PTL

(* find_common_ancestor finds the last shared block and counts what is     *)
(* discarded, or says that the fork is older than the search depth, if the *)
(* chain stood still and the headers are there.                            *)
THEOREM TrackerWalkFindsFork == Spec => []WalkFindsFork
<1>1. TrackerInvariant => WalkFindsFork
  BY DEF TrackerInvariant
<1>. QED BY <1>1, TrackerKeepsInvariant, PTL

=============================================================================
