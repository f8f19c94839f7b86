------------------------ MODULE OrderedCommitBuffer ------------------------
(***************************************************************************)
(* The reorder buffer (crates/dispatcher/src/ordered_commit.rs) behind the *)
(* mutex of TokioDispatcher (crates/dispatcher/src/dispatcher.rs), and the *)
(* workers that use it: a worker captures generation() when it picks up a  *)
(* block, and hands its output back through take_committable().            *)
(*                                                                         *)
(* Every call takes the mutex, so each is one step; blocks may be picked   *)
(* up and completed in any order, twice, or across a reset.                *)
(***************************************************************************)
EXTENDS Integers, FiniteSets

CONSTANTS Workers,
          Payloads,        \* what a completed block carries
          MaxHeight,       \* bound: the highest block
          MaxGeneration    \* bound: resets

ASSUME HeightAssumption == MaxHeight \in Nat
ASSUME GenerationAssumption == MaxGeneration \in Nat

Heights == 0..MaxHeight
Cursor  == 0..(MaxHeight + 1)      \* next_expected may stand past the last block

Entry == [height : Heights, gen : Nat, payload : Payloads]
HeightsOf(entries) == {e.height : e \in entries}

VARIABLES
    next_expected, pending, generation,  \* the buffer's own fields
    work,        \* per worker: the entry it is working on, as a set
    start,       \* history: where the current generation began
    out,         \* history: the entries released in this generation
    completed    \* history: the heights completed in this generation

bufferVars == <<next_expected, pending, generation, start, out, completed>>
vars == <<next_expected, pending, generation, start, out, completed, work>>

(* OrderedCommitBuffer::new *)
BufferInit(h) ==
    /\ next_expected = h
    /\ pending = {}
    /\ generation = 0
    /\ start = h
    /\ out = {}
    /\ completed = {}

WorkersInit == work = [w \in Workers |-> {}]

Init == \E h \in Heights : BufferInit(h) /\ WorkersInit

(* A worker takes a block and captures the generation.                     *)
PickUp(w, h, p) ==
    /\ work[w] = {}
    /\ work' = [work EXCEPT ![w] = {[height |-> h, gen |-> generation, payload |-> p]}]
    /\ UNCHANGED bufferVars

(* Mutant: the generation is not compared.                                 *)
StaleByHeightOnly(e) == e.height < next_expected

(* complete_from drops an entry of an older generation, and one below the  *)
(* expected height.                                                        *)
IsStale(e) == e.gen # generation \/ e.height < next_expected

(* BTreeMap::insert replaces what was held for the height.                 *)
Inserted(e) == {p \in pending : p.height # e.height} \union {e}

(* Mutant: `if let` for `while let`, at most one block is released.        *)
IsSingleRelease(held, m) ==
    m = IF next_expected \in HeightsOf(held) THEN next_expected + 1 ELSE next_expected

(* The removal loop stops at the first height that is not buffered.        *)
IsRunEnd(held, m) ==
    /\ m \notin HeightsOf(held)
    /\ \A k \in next_expected..(m - 1) : k \in HeightsOf(held)

(* Release everything below m.                                             *)
Release(held, m) ==
    /\ next_expected' = m
    /\ pending' = {p \in held : p.height >= m}
    /\ out' = out \union {p \in held : p.height < m}

(* complete_from, for the output of worker w.                              *)
CompleteFrom(e) ==
    /\ IF IsStale(e)
       THEN UNCHANGED <<next_expected, pending, out>>
       ELSE \E m \in next_expected..(MaxHeight + 1) :
               IsRunEnd(Inserted(e), m) /\ Release(Inserted(e), m)
    /\ completed' = IF e.gen = generation /\ e.height >= start
                    THEN completed \union {e.height} ELSE completed
    /\ UNCHANGED <<generation, start>>

(* take_committable: the worker is free again.                             *)
Complete(w) ==
    /\ \E e \in work[w] : CompleteFrom(e)
    /\ work' = [work EXCEPT ![w] = {}]

(* reset_to: forget what is held, resume at h, begin a new generation.     *)
ResetTo(h) ==
    /\ generation < MaxGeneration
    /\ pending' = {}
    /\ next_expected' = h
    /\ generation' = generation + 1
    /\ start' = h /\ out' = {} /\ completed' = {}
    /\ UNCHANGED work

Next ==
    \/ \E w \in Workers :
          \/ \E h \in Heights, p \in Payloads : PickUp(w, h, p)
          \/ Complete(w)
    \/ \E h \in Heights : ResetTo(h)

Spec == Init /\ [][Next]_vars

-----------------------------------------------------------------------------
(* The buffer's fields and the workers' entries are well formed.           *)
TypeOK ==
    /\ next_expected \in Cursor
    /\ pending \subseteq Entry
    /\ generation \in Nat
    /\ start \in Heights
    /\ out \subseteq Entry
    /\ completed \subseteq Heights
    /\ work \in [Workers -> SUBSET Entry]

(* What has been released depends only on which blocks completed, not on   *)
(* the order they arrived in: it is exactly the longest run of completed   *)
(* heights from where the generation began, each height once, and what is  *)
(* completed beyond the run is held for later.                             *)
ReleasedIsLongestRun ==
    /\ HeightsOf(out) = {k \in completed : \A j \in start..k : j \in completed}
    /\ HeightsOf(pending) = completed \ HeightsOf(out)
    /\ \A e, f \in out \union pending : e.height = f.height => e = f

(* Work begun before a reset is never released or held after it.           *)
OnlyCurrentGeneration ==
    \A e \in out \union pending : e.gen = generation

-----------------------------------------------------------------------------
(* What makes the two inductive: the run released so far is                *)
(* start..next_expected-1, everything held lies strictly above it, and     *)
(* nothing else has been completed.                                        *)
RunReleased ==
    /\ start <= next_expected
    /\ HeightsOf(out) = start..(next_expected - 1)
    /\ \A e \in pending : e.height > next_expected
    /\ completed = HeightsOf(out) \union HeightsOf(pending)
    /\ \A e, f \in out \union pending : e.height = f.height => e = f

BufferInvariant == TypeOK /\ RunReleased /\ OnlyCurrentGeneration
=============================================================================
