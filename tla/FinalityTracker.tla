-------------------------- MODULE FinalityTracker --------------------------
(***************************************************************************)
(* Reorg detection: FinalityTracker (crates/core/src/finality/tracker.rs)  *)
(* and the decision it draws (reorg.rs), over the header chain of          *)
(* CheckpointStore and a chain that reorganizes between any two requests.  *)
(*                                                                         *)
(* check() asks the chain for one header after the other, from the tip     *)
(* down, and stops at the first that agrees; each request is a step.  The  *)
(* task that indexes blocks is not written yet.  What is modelled of it is *)
(* what finality/rewind.rs and reorg.rs lay down: a block that continues   *)
(* the chain is committed with its checkpoint, anything else calls for a   *)
(* check, and a rewind truncates the header chain and moves the checkpoint *)
(* to the ancestor in one transaction.  A block is recorded as final when  *)
(* it was known to be final before it was fetched.                         *)
(***************************************************************************)
EXTENDS Chain, CheckpointStore, FiniteSets

CONSTANTS
    SearchDepth,   \* with_search_depth
    NoHeader,      \* no fetched block in hand
    NoHash,        \* HeightComparison.canonical_hash = None
    MaxReorgs,     \* bound: how often the chain changes branch
    MaxFaults      \* bound: failed and missing answers, crashes

ASSUME DepthAssumption == SearchDepth \in Nat \ {0}
ASSUME TrackerBounds == MaxReorgs \in Nat /\ MaxFaults \in Nat
(* Nothing is none of what it stands for the absence of.                   *)
ASSUME AbsenceAssumption ==
    /\ NoCheckpoint \notin [height : Nat, hash : Branches, finalized : Nat]
    /\ NoHeader \notin [header : [height : Nat, hash : Branches, parent : Seq(Forks)],
                        final : BOOLEAN]
    /\ NoHash \notin Branches

VARIABLES
    canon,        \* the canonical branch
    fin,          \* how many of its blocks are final
    finalized,    \* FinalityTracker::finalized_height
    hand,         \* a fetched header, with its finality
    todo,         \* the stored headers check() has not compared yet
    seen,         \* its comparisons so far
    verdict,      \* the ReorgDecision, until it is acted on
    reorgs, faults,
    clean,        \* history: since check() began the chain stood still and
                  \* no header it has was reported missing
    decidedOn     \* history: the canonical branch when the verdict was drawn

chainVars   == <<canon, fin, reorgs>>
checkVars   == <<todo, seen, verdict, clean, decidedOn>>
trackerVars == <<finalized, hand, checkVars, faults>>
vars        == <<checkpointVars, chainVars, trackerVars>>

NoVerdict == [kind |-> "none"]
Idle      == todo = {} /\ verdict = NoVerdict
Checking  == todo # {}

-----------------------------------------------------------------------------
(* The chain.                                                              *)

Extend ==
    /\ Len(canon) <= MaxChain
    /\ \E f \in Forks : canon' = Append(canon, f)
    /\ clean' = FALSE
    /\ UNCHANGED <<checkpointVars, fin, reorgs, finalized, hand, todo, seen, verdict,
                   decidedOn, faults>>

(* Another branch wins, longer or shorter, from above the last final block. *)
Reorganise ==
    /\ reorgs < MaxReorgs
    /\ \E b \in Branches :
          /\ fin <= Len(b) /\ SubSeq(b, 1, fin) = SubSeq(canon, 1, fin)
          /\ ~OnBranch(canon, b)
          /\ canon' = b
    /\ reorgs' = reorgs + 1
    /\ clean' = FALSE
    /\ UNCHANGED <<checkpointVars, fin, finalized, hand, todo, seen, verdict, decidedOn, faults>>

Finalize ==
    /\ fin < Len(canon)
    /\ fin' = fin + 1
    /\ UNCHANGED <<checkpointVars, canon, reorgs, trackerVars>>

-----------------------------------------------------------------------------
(* Refreshing, fetching and committing.                                    *)

Init ==
    /\ CheckpointInit
    /\ canon = <<Genesis>> /\ fin = 1 /\ reorgs = 0
    /\ finalized = 0
    /\ hand = NoHeader
    /\ todo = {} /\ seen = {} /\ verdict = NoVerdict
    /\ clean = FALSE /\ decidedOn = <<Genesis>>
    /\ faults = 0

(* refresh(): the endpoint may lag behind, but finality only moves forward. *)
Refresh ==
    /\ \E reported \in 0..(fin - 1) :
          finalized' = IF reported > finalized THEN reported ELSE finalized
    /\ UNCHANGED <<checkpointVars, chainVars, hand, checkVars, faults>>

NextHeight == IF checkpoint = NoCheckpoint THEN 0 ELSE checkpoint.height + 1

Fetch ==
    /\ Idle /\ hand = NoHeader
    /\ NextHeight < Len(canon)
    /\ hand' = [header |-> BlockAt(canon, NextHeight), final |-> NextHeight <= finalized]
    /\ UNCHANGED <<checkpointVars, chainVars, finalized, checkVars, faults>>

(* Mutant: the height alone decides.                                       *)
ContinuesByHeight(header) ==
    checkpoint # NoCheckpoint => header.height = checkpoint.height + 1

(* continues_chain; the first block of a fresh schema continues nothing.   *)
ContinuesChain(header) ==
    checkpoint # NoCheckpoint =>
        /\ header.height = checkpoint.height + 1
        /\ header.parent = checkpoint.hash

(* The block's transaction; an error rolls it back and the block is        *)
(* fetched again.                                                          *)
Commit ==
    /\ hand # NoHeader
    /\ ContinuesChain(hand.header)
    /\ hand' = NoHeader
    /\ \/ CommitTx(hand.header, hand.final, finalized) /\ UNCHANGED faults
       \/ faults < MaxFaults /\ faults' = faults + 1 /\ UNCHANGED checkpointVars
    /\ UNCHANGED <<chainVars, finalized, checkVars>>

(* Rows below the finalized height can be pruned (checkpoint.rs:13).       *)
Prune ==
    /\ PruneBelow(finalized) /\ rows' # rows
    /\ UNCHANGED <<chainVars, trackerVars>>

-----------------------------------------------------------------------------
(* The reorg check.                                                        *)

Matches(c) == c.canonical = c.stored

(* Mutant: the height that matched is counted as discarded.                *)
DepthOffByOne(cs) ==
    LET matching == {c \in cs : Matches(c)}
        ancestor == Highest(matching)
    IN  IF cs = {} \/ Matches(Highest(cs)) THEN [kind |-> "canonical"]
        ELSE IF matching # {}
        THEN [kind |-> "rewind", height |-> ancestor.height, hash |-> ancestor.stored,
              depth |-> Cardinality(cs)]
        ELSE [kind |-> "beyond", oldest |-> Lowest(cs).height]

(* Mutant: a fork older than the history is guessed to end at the oldest   *)
(* header.                                                                 *)
GuessAncestor(cs) ==
    LET matching == {c \in cs : Matches(c)}
        ancestor == IF matching # {} THEN Highest(matching) ELSE Lowest(cs)
    IN  IF cs = {} \/ Matches(Highest(cs)) THEN [kind |-> "canonical"]
        ELSE [kind |-> "rewind", height |-> ancestor.height, hash |-> ancestor.stored,
              depth |-> Cardinality({c \in cs : c.height > ancestor.height})]

(* find_common_ancestor over the comparisons made, from the highest down.  *)
FindCommonAncestor(cs) ==
    LET matching == {c \in cs : Matches(c)}
        ancestor == Highest(matching)
    IN  IF cs = {} \/ Matches(Highest(cs)) THEN [kind |-> "canonical"]
        ELSE IF matching # {}
        THEN [kind |-> "rewind", height |-> ancestor.height, hash |-> ancestor.stored,
              depth |-> Cardinality({c \in cs : c.height > ancestor.height})]
        ELSE [kind |-> "beyond", oldest |-> Lowest(cs).height]

Decide(cs) == verdict' = FindCommonAncestor(cs) /\ decidedOn' = canon

Floor(tip) == IF tip.height > SearchDepth THEN tip.height - SearchDepth ELSE 0

(* check(), for a fetched block that does not continue the chain, or while *)
(* there is no block to fetch.                                             *)
BeginCheck ==
    /\ Idle /\ checkpoint # NoCheckpoint
    /\ IF hand = NoHeader THEN NextHeight >= Len(canon) ELSE ~ContinuesChain(hand.header)
    /\ hand' = NoHeader
    /\ LET stored == HeadersBetween(checkpoint.height, Floor(checkpoint))
       IN  /\ todo' = stored
           /\ seen' = {}
           /\ clean' = TRUE
           /\ IF stored = {} THEN Decide({}) ELSE UNCHANGED <<verdict, decidedOn>>
    /\ UNCHANGED <<checkpointVars, chainVars, finalized, faults>>

(* What is left to compare after an answer: nothing once a height agrees.  *)
Rest(row, c) == IF Matches(c) THEN {} ELSE todo \ {row}

Compare(canonical) ==
    LET row == Highest(todo)
        c   == [height |-> row.height, stored |-> row.hash, canonical |-> canonical]
        cs  == seen \union {c}
    IN  /\ todo' = Rest(row, c)
        /\ seen' = IF Rest(row, c) = {} THEN {} ELSE cs
        /\ IF Rest(row, c) = {} THEN Decide(cs) ELSE UNCHANGED <<verdict, decidedOn>>
        /\ UNCHANGED <<checkpointVars, chainVars, finalized, hand>>

EndCheck ==
    /\ todo' = {} /\ seen' = {} /\ verdict' = NoVerdict
    /\ clean' = FALSE /\ decidedOn' = <<Genesis>>

(* Mutant: a height the endpoint does not have ends the check.             *)
AnsweredOrFails ==
    /\ Checking
    /\ LET h == Highest(todo).height
       IN  IF h < Len(canon)
           THEN Compare(HashAt(canon, h)) /\ UNCHANGED clean
           ELSE EndCheck /\ UNCHANGED <<checkpointVars, chainVars, finalized, hand>>
    /\ UNCHANGED faults

(* header_at answers; a height beyond the head is unavailable.             *)
Answered ==
    /\ Checking
    /\ LET h == Highest(todo).height
       IN  Compare(IF h < Len(canon) THEN HashAt(canon, h) ELSE NoHash)
    /\ UNCHANGED <<clean, faults>>

(* A permanent error, such as a header the endpoint has pruned, counts as  *)
(* diverged.                                                               *)
Unavailable ==
    /\ Checking /\ faults < MaxFaults
    /\ faults' = faults + 1
    /\ clean' = FALSE
    /\ Compare(NoHash)

(* A retryable error that outlasted its attempts: check() returns it.      *)
CheckFails ==
    /\ Checking /\ faults < MaxFaults
    /\ faults' = faults + 1
    /\ EndCheck
    /\ UNCHANGED <<checkpointVars, chainVars, finalized, hand>>

Resume ==
    /\ verdict.kind = "canonical"
    /\ EndCheck
    /\ UNCHANGED <<checkpointVars, chainVars, finalized, hand, faults>>

(* The rewind transaction; RewindReport::resume_height is NextHeight.  If  *)
(* it fails the decision is dropped and a later check draws it again.      *)
Rewind ==
    /\ verdict.kind = "rewind"
    /\ EndCheck
    /\ \/ /\ TruncateAboveTx(verdict.height)
          /\ checkpoint' = [checkpoint EXCEPT !.height = verdict.height, !.hash = verdict.hash]
          /\ UNCHANGED faults
       \/ faults < MaxFaults /\ faults' = faults + 1 /\ UNCHANGED checkpointVars
    /\ UNCHANGED <<chainVars, finalized, hand>>

(* The process dies: only the database and the chain remain.               *)
Crash ==
    /\ faults < MaxFaults
    /\ faults' = faults + 1
    /\ finalized' = 0 /\ hand' = NoHeader
    /\ EndCheck
    /\ UNCHANGED <<checkpointVars, chainVars>>

-----------------------------------------------------------------------------
Next ==
    \/ Extend \/ Reorganise \/ Finalize
    \/ Refresh \/ Fetch \/ Commit \/ Prune
    \/ BeginCheck \/ Answered \/ Unavailable \/ CheckFails
    \/ Resume \/ Rewind \/ Crash

Spec == Init /\ [][Next]_vars

(* The indexing task keeps running and its requests end; the chain moves   *)
(* as it likes and faults need not happen.                                 *)
Driver == Fetch \/ Commit \/ BeginCheck \/ Answered \/ Resume \/ Rewind

FairSpec == Spec /\ WF_vars(Driver)

-----------------------------------------------------------------------------
(* The highest block that the indexed branch shares with branch b.         *)
ForkHeight(b) ==
    CHOOSE h \in 0..checkpoint.height :
        /\ OnBranch(HashAt(checkpoint.hash, h), b)
        /\ \A g \in (h + 1)..checkpoint.height : ~OnBranch(HashAt(checkpoint.hash, g), b)

(* The header table still has every height a check down to h would need.   *)
HistoryDownTo(h) == \A g \in h..checkpoint.height : \E r \in rows : r.height = g

(* The decision by definition: rewind to the last shared block if it lies  *)
(* within the search depth.                                                *)
RightVerdict(b) ==
    LET fork  == ForkHeight(b)
        depth == checkpoint.height - fork
    IN  IF depth = 0 THEN [kind |-> "canonical"]
        ELSE IF depth <= SearchDepth
        THEN [kind |-> "rewind", height |-> fork, hash |-> HashAt(b, fork), depth |-> depth]
        ELSE [kind |-> "beyond", oldest |-> checkpoint.height - SearchDepth]

(* The header table and the checkpoint are one branch that the checkpoint  *)
(* tops, through every commit, rewind, prune, failure and crash.           *)
HeadersBelowCheckpoint ==
    \A r \in rows : checkpoint # NoCheckpoint /\ OnBranch(r.hash, checkpoint.hash)

(* Whatever the chain did during the walk, and whatever the endpoint could *)
(* not serve: when the decision is drawn, everything that is kept lies on  *)
(* the canonical chain.                                                    *)
KeptIsCanonical ==
    /\ verdict.kind = "canonical" => OnBranch(checkpoint.hash, decidedOn)
    /\ verdict.kind = "rewind" =>
          /\ OnBranch(verdict.hash, decidedOn)
          /\ \A r \in rows : r.height <= verdict.height => OnBranch(r.hash, decidedOn)

(* If the chain stood still, nothing was reported missing and the headers  *)
(* are retained, the decision is the right one: the last shared block, the *)
(* number of blocks discarded, and an escalation exactly when the fork is  *)
(* older than the search depth.                                            *)
WalkFindsFork ==
    clean /\ verdict # NoVerdict /\ HistoryDownTo(ForkHeight(decidedOn)) =>
        verdict = RightVerdict(decidedOn)

-----------------------------------------------------------------------------
(* The inductive invariant.                                                *)

Blocks ==
    {b \in [height : Nat, hash : Branches, parent : Seq(Forks)] :
        Len(b.hash) = b.height + 1 /\ b.parent = SubSeq(b.hash, 1, b.height)}

TrackerTypeOK ==
    /\ canon \in Branches /\ fin \in 1..Len(canon) /\ finalized \in 0..(fin - 1)
    /\ decidedOn \in Branches /\ clean \in BOOLEAN
    /\ reorgs \in Nat /\ faults \in Nat
    /\ checkpoint # NoCheckpoint =>
          /\ checkpoint \in [height : Nat, hash : Branches, finalized : Nat]
          /\ Len(checkpoint.hash) = checkpoint.height + 1
    /\ \A r \in rows \union todo :
          /\ r \in [height : Nat, hash : Branches, parent : Seq(Forks), final : BOOLEAN]
          /\ Len(r.hash) = r.height + 1
    /\ \A c \in seen :
          /\ c \in [height : Nat, stored : Branches, canonical : Branches \union {NoHash}]
          /\ Len(c.stored) = c.height + 1
    /\ hand # NoHeader => hand \in [header : Blocks, final : BOOLEAN]
    /\ \/ verdict = NoVerdict
       \/ verdict \in [kind : {"canonical"}]
       \/ verdict \in [kind : {"rewind"}, height : Nat, hash : Branches, depth : Nat]
          /\ Len(verdict.hash) = verdict.height + 1
       \/ verdict \in [kind : {"beyond"}, oldest : Nat]

(* One operation at a time, and nothing to check before the first commit.  *)
OneAtATime ==
    /\ hand # NoHeader => Idle
    /\ Checking => verdict = NoVerdict
    /\ checkpoint = NoCheckpoint => Idle

IsFinal(hash) == Len(hash) <= fin /\ OnBranch(hash, canon)

(* What is recorded as final is final, and so is what was pruned: the      *)
(* checkpoint's own row is there until then.                               *)
FinalityStands ==
    /\ \A r \in rows \union todo : r.final => IsFinal(r.hash)
    /\ hand # NoHeader => (hand.final => IsFinal(hand.header.hash))
    /\ \A r \in todo : r \in rows \/ IsFinal(r.hash)
    /\ checkpoint # NoCheckpoint =>
          (\E r \in rows : r.height = checkpoint.height) \/ IsFinal(checkpoint.hash)
    /\ verdict.kind = "rewind" =>
          (\E r \in rows : r.height = verdict.height) \/ IsFinal(verdict.hash)

OneHeaderPerHeight == \A q, r \in rows \union todo : q.height = r.height => q = r

Examined(h) == \E x \in todo \union seen : x.height = h

Answer(h) == IF h < Len(canon) THEN HashAt(canon, h) ELSE NoHash

(* The walk goes down the indexed branch within the search depth, has left *)
(* no header out, and has not met one that agrees.                         *)
WalkDescends ==
    Checking =>
        /\ \A r \in todo : /\ OnBranch(r.hash, checkpoint.hash)
                           /\ Floor(checkpoint) <= r.height /\ r.height <= checkpoint.height
        /\ \A c \in seen : /\ OnBranch(c.stored, checkpoint.hash) /\ ~Matches(c)
                           /\ Floor(checkpoint) <= c.height /\ c.height <= checkpoint.height
                           /\ \A r \in todo : r.height < c.height
                           /\ \A d \in seen : c.height = d.height => c = d
                           /\ clean => c.canonical = Answer(c.height)
        /\ \A r \in rows : Floor(checkpoint) <= r.height => Examined(r.height)
        /\ Examined(checkpoint.height) \/ IsFinal(checkpoint.hash)

VerdictOnBranch == verdict.kind = "rewind" => OnBranch(verdict.hash, checkpoint.hash)

TrackerInvariant ==
    /\ TrackerTypeOK /\ OneAtATime /\ FinalityStands /\ OneHeaderPerHeight
    /\ WalkDescends /\ VerdictOnBranch
    /\ HeadersBelowCheckpoint /\ KeptIsCanonical /\ WalkFindsFork

-----------------------------------------------------------------------------
(* Once the chain stands still and faults cease, the node has indexed its  *)
(* head, or has given up on a fork beyond its history.                     *)
EventuallyOnChain ==
    <>[](verdict.kind = "beyond" \/ (checkpoint # NoCheckpoint /\ checkpoint.hash = canon))
=============================================================================
