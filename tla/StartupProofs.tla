--------------------------- MODULE StartupProofs ---------------------------
(***************************************************************************)
(* The metadata table, and the runs that use it.  For any number of        *)
(* processes and any lists of facts, a schema has one identity, stamped    *)
(* whole and never changed, and a verified process runs on a schema that   *)
(* holds its own.  Whatever commands, faults and crashes, the runs of all  *)
(* processes use the table as Metadata.tla says, so this holds of them; a  *)
(* ready node serves the chain its schema is stamped with, and has a block *)
(* to ingest.                                                              *)
(***************************************************************************)
EXTENDS Startup, WellFoundedInduction, TLAPS

-----------------------------------------------------------------------------
(* The metadata table.                                                     *)

USE AbsentAssumption, VerifierAssumption, CheckListAssumption

(* Writing facts whose keys differ stores each under its key and leaves    *)
(* every other key alone.                                                  *)
LEMMA WithStores ==
    ASSUME NEW fs \in [Keys -> Values \union {Absent}],
           NEW written \in SUBSET Fact,
           \A c, d \in written : c.key = d.key => c = d
    PROVE  /\ With(fs, written) \in [Keys -> Values \union {Absent}]
           /\ \A c \in written : With(fs, written)[c.key] = c.value
           /\ \A k \in Keys : (\A c \in written : c.key # k) => With(fs, written)[k] = fs[k]
<1>1. \A c \in written : c.key \in Keys /\ c.value \in Values
  BY DEF Fact
<1>2. ASSUME NEW k \in Keys, \E c \in written : c.key = k
      PROVE  /\ (CHOOSE c \in written : c.key = k) \in written
             /\ (CHOOSE c \in written : c.key = k).key = k
  BY <1>2
<1>3. ASSUME NEW c \in written
      PROVE  With(fs, written)[c.key] = c.value
  <2>1. (CHOOSE d \in written : d.key = c.key) = c
    BY <1>1, <1>2
  <2>. QED BY <1>1, <2>1 DEF With
<1>4. ASSUME NEW k \in Keys
      PROVE  With(fs, written)[k] \in Values \union {Absent}
  BY <1>1, <1>2 DEF With
<1>. QED BY <1>3, <1>4 DEF With

(* Writing a fact that holds changes nothing.                              *)
LEMMA WithHeldFact ==
    ASSUME NEW fs \in [Keys -> Values \union {Absent}],
           NEW c \in Fact, fs[c.key] = c.value
    PROVE  With(fs, {c}) = fs
<1>1. /\ With(fs, {c}) \in [Keys -> Values \union {Absent}]
      /\ With(fs, {c})[c.key] = c.value
      /\ \A k \in Keys : c.key # k => With(fs, {c})[k] = fs[k]
  BY WithStores
<1>. DEFINE g == With(fs, {c})
<1>2. \A k \in Keys : g[k] = fs[k]
  BY <1>1
<1>3. g = [k \in Keys |-> g[k]] /\ fs = [k \in Keys |-> fs[k]]
  BY <1>1
<1>. HIDE DEF g
<1>4. g = fs
  BY <1>2, <1>3
<1>. QED BY <1>4 DEF g

(* The facts a committing transaction wrote were missing, so what held     *)
(* goes on holding, and all that the process was given holds.              *)
LEMMA CommitStoresGiven ==
    ASSUME MetaTypeOK, GivenIsList, ReadsStand,
           NEW v \in Verifiers, check[v].phase = "stamping", check[v].missing = {},
           facts' = With(facts, check[v].written)
    PROVE  /\ facts' \in [Keys -> Values \union {Absent}]
           /\ \A k \in Keys : facts[k] # Absent => facts'[k] = facts[k]
           /\ \A c \in check[v].given : Holds(c)'
           /\ \A k \in Keys : facts'[k] # facts[k] => \E c \in check[v].given : c.key = k
<1>1. /\ check[v].written \in SUBSET Fact
      /\ check[v].given \in CheckLists
      /\ check[v].written \subseteq check[v].given
      /\ \A c \in check[v].written : facts[c.key] = Absent
      /\ \A c \in check[v].given : Holds(c) \/ c \in check[v].written
  BY DEF MetaTypeOK, GivenIsList, ReadsStand, Locked
<1>2. \A c, d \in check[v].written : c.key = d.key => c = d
  BY <1>1
<1>3. facts \in [Keys -> Values \union {Absent}]
  BY DEF MetaTypeOK
<1>4. /\ facts' \in [Keys -> Values \union {Absent}]
      /\ \A c \in check[v].written : facts'[c.key] = c.value
      /\ \A k \in Keys : (\A c \in check[v].written : c.key # k) => facts'[k] = facts[k]
  BY <1>1, <1>2, <1>3, WithStores
<1>5. \A k \in Keys : facts[k] # Absent => facts'[k] = facts[k]
  BY <1>1, <1>4
<1>6. \A c \in check[v].given : c.key \in Keys /\ c.value \in Values
  BY <1>1 DEF Fact
<1>7. \A c \in check[v].given : Holds(c)'
  BY <1>1, <1>4, <1>5, <1>6 DEF Holds
<1>. QED BY <1>1, <1>4, <1>5, <1>7

(* Verification that ends without COMMIT leaves a well-formed invariant.   *)
LEMMA EndCallKeepsInvariant ==
    ASSUME MetaInvariant, UNCHANGED facts,
           NEW v \in Verifiers, check[v].phase # "idle",
           NEW phase \in {"conflict", "err"}, EndCall(v, phase),
           phase = "conflict" => \E c \in check[v].given : facts[c.key] \notin {c.value, Absent}
    PROVE  MetaInvariant'
<1>. USE DEF MetaInvariant, EndCall, Call, Locked
<1>1. /\ check'[v] = Call(phase, check[v].given, {}, {}, {})
      /\ \A w \in Verifiers : w # v => check'[w] = check[w]
  BY DEF MetaTypeOK
<1>2. MetaTypeOK'
  BY DEF MetaTypeOK, Phases
<1>3. LockIsHeld'
  BY <1>1 DEF LockIsHeld
<1>4. GivenIsList' /\ FreshCall'
  BY <1>1 DEF GivenIsList, FreshCall
<1>5. ReadsStand'
  BY <1>1 DEF ReadsStand, Holds
<1>6. VerifiedIdentityHolds' /\ RefusedByForeignFact'
  BY <1>1 DEF VerifiedIdentityHolds, RefusedByForeignFact, Holds
<1>7. NeverHalfStamped'
  BY DEF NeverHalfStamped, Holds
<1>. QED BY <1>2, <1>3, <1>4, <1>5, <1>6, <1>7

(* COMMIT keeps the invariant: under the lock nobody else has read the     *)
(* table, and only missing facts were written.                             *)
LEMMA CommitKeepsInvariant ==
    ASSUME MetaInvariant, NEW v \in Verifiers, CommitFacts(v)
    PROVE  /\ MetaInvariant'
           /\ \A k \in Keys : facts[k] # Absent => facts'[k] = facts[k]
<1>. USE DEF MetaInvariant
<1>1. /\ check[v].phase = "stamping" /\ check[v].missing = {}
      /\ facts' = With(facts, check[v].written)
      /\ lock = v /\ lock' = NoVerifier
  BY DEF CommitFacts, EndCall, LockIsHeld, Locked
<1>2. PICK phase \in {"ok", "err"} :
        check' = [check EXCEPT ![v] = Call(phase, @.given, {}, {}, {})]
  BY DEF CommitFacts, EndCall
<1>3. /\ check'[v] = Call(phase, check[v].given, {}, {}, {})
      /\ \A w \in Verifiers : w # v => check'[w] = check[w] /\ check[w].phase \notin Locked
  BY <1>1, <1>2 DEF MetaTypeOK, LockIsHeld
<1>4. /\ facts' \in [Keys -> Values \union {Absent}]
      /\ \A k \in Keys : facts[k] # Absent => facts'[k] = facts[k]
      /\ \A c \in check[v].given : Holds(c)'
      /\ \A k \in Keys : facts'[k] # facts[k] => \E c \in check[v].given : c.key = k
  BY <1>1, CommitStoresGiven
<1>5. \A c \in Fact : /\ Holds(c) => Holds(c)'
                      /\ facts[c.key] # Absent => facts'[c.key] = facts[c.key]
  BY <1>4 DEF Fact, Holds
<1>6. /\ \A w \in Verifiers : check[w].given \subseteq Fact
      /\ check[v].given \in CheckLists
  BY <1>1 DEF MetaTypeOK, GivenIsList
<1>7. MetaTypeOK'
  BY <1>1, <1>2, <1>4 DEF MetaTypeOK, Phases, Call
<1>8. LockIsHeld' /\ ReadsStand'
  BY <1>1, <1>3 DEF LockIsHeld, ReadsStand, Locked, Call
<1>9. GivenIsList' /\ FreshCall'
  BY <1>1, <1>3 DEF GivenIsList, FreshCall, Call
<1>10. VerifiedIdentityHolds'
  BY <1>3, <1>4, <1>5, <1>6 DEF VerifiedIdentityHolds, Call
<1>11. RefusedByForeignFact'
  <2>. SUFFICES ASSUME NEW w \in Verifiers, check'[w].phase = "conflict"
                PROVE  \E c \in check'[w].given : facts'[c.key] \notin {c.value, Absent}
    BY DEF RefusedByForeignFact
  <2>1. w # v
    BY <1>3 DEF Call
  <2>2. PICK c \in check[w].given : facts[c.key] \notin {c.value, Absent}
    BY <1>3, <2>1 DEF RefusedByForeignFact
  <2>. QED BY <1>3, <1>5, <1>6, <2>1, <2>2
<1>12. NeverHalfStamped'
  <2>. SUFFICES ASSUME NEW k \in Keys, facts'[k] # Absent
                PROVE  \E cs \in CheckLists : /\ \E c \in cs : c.key = k
                                              /\ \A c \in cs : Holds(c)'
    BY DEF NeverHalfStamped
  <2>1. CASE facts'[k] # facts[k]
    BY <1>4, <1>6, <2>1
  <2>2. CASE facts'[k] = facts[k]
    <3>1. PICK cs \in CheckLists : (\E c \in cs : c.key = k) /\ (\A c \in cs : Holds(c))
      BY <2>2 DEF NeverHalfStamped
    <3>2. \A c \in cs : Holds(c)'
      BY <1>5, <3>1
    <3>. QED BY <3>1, <3>2
  <2>. QED BY <2>1, <2>2
<1>. QED BY <1>4, <1>7, <1>8, <1>9, <1>10, <1>11, <1>12

(* A step of a locked transaction keeps the invariant if what the process  *)
(* has read still stands after it.                                         *)
LEMMA LockedStepKeepsInvariant ==
    ASSUME MetaInvariant, UNCHANGED facts, MetaTypeOK',
           NEW v \in Verifiers, check[v].phase # "idle",
           lock = v \/ lock = NoVerifier, lock' = v,
           \A w \in Verifiers : w # v => check'[w] = check[w],
           check'[v].phase \in Locked,
           check'[v].given = check[v].given,
           check'[v].todo \subseteq check[v].given,
           check'[v].missing \union check'[v].written \subseteq check[v].given,
           \A c \in check[v].given :
              c \in check'[v].todo \/ Holds(c) \/ c \in check'[v].missing \union check'[v].written,
           \A c \in check'[v].missing \union check'[v].written : facts[c.key] = Absent,
           check'[v].phase = "stamping" => check'[v].todo = {}
    PROVE  MetaInvariant'
<1>. USE DEF MetaInvariant
<1>1. \A w \in Verifiers : w # v => check[w].phase \notin Locked
  BY DEF LockIsHeld
<1>2. LockIsHeld'
  BY <1>1 DEF LockIsHeld
<1>3. GivenIsList' /\ FreshCall'
  BY DEF GivenIsList, FreshCall, Locked
<1>4. ReadsStand'
  BY <1>1 DEF ReadsStand, Holds
<1>5. VerifiedIdentityHolds' /\ RefusedByForeignFact'
  BY DEF VerifiedIdentityHolds, RefusedByForeignFact, Holds, Locked
<1>6. NeverHalfStamped'
  BY DEF NeverHalfStamped, Holds
<1>. QED BY <1>2, <1>3, <1>4, <1>5, <1>6

(* Every step of verification keeps the inductive invariant and every      *)
(* committed fact.                                                         *)
LEMMA MetaInvariantStep ==
    ASSUME MetaInvariant, [MetaNext]_metaVars
    PROVE  /\ MetaInvariant'
           /\ \A k \in Keys : facts[k] # Absent => facts'[k] = facts[k]
<1>. USE DEF MetaInvariant
<1>1. ASSUME NEW v \in Verifiers, NEW given \in CheckLists, CallVerify(v, given)
      PROVE  MetaInvariant' /\ facts' = facts
  <2>1. /\ check'[v] = Call("begun", given, given, {}, {})
        /\ \A w \in Verifiers : w # v => check'[w] = check[w]
        /\ given \in SUBSET Fact
    BY <1>1 DEF CallVerify, MetaTypeOK
  <2>2. MetaTypeOK'
    BY <1>1, <2>1 DEF CallVerify, MetaTypeOK, Phases, Call
  <2>3. LockIsHeld' /\ GivenIsList' /\ FreshCall'
    BY <1>1, <2>1 DEF CallVerify, LockIsHeld, GivenIsList, FreshCall, Locked, Call
  <2>4. ReadsStand'
    BY <1>1, <2>1 DEF CallVerify, ReadsStand, Locked, Call, Holds
  <2>5. VerifiedIdentityHolds' /\ RefusedByForeignFact' /\ NeverHalfStamped'
    BY <1>1, <2>1 DEF CallVerify, VerifiedIdentityHolds, RefusedByForeignFact,
       NeverHalfStamped, Call, Holds
  <2>. QED BY <1>1, <2>2, <2>3, <2>4, <2>5 DEF CallVerify
<1>2. ASSUME NEW v \in Verifiers, LockMetadata(v)
      PROVE  MetaInvariant' /\ facts' = facts
  <2>. USE <1>2 DEF LockMetadata
  <2>1. /\ check'[v].phase = "comparing"
        /\ check'[v].given = check[v].given /\ check'[v].todo = check[v].todo
        /\ check'[v].missing = check[v].missing /\ check'[v].written = check[v].written
        /\ \A w \in Verifiers : w # v => check'[w] = check[w]
    BY DEF MetaTypeOK
  <2>2. MetaTypeOK'
    BY DEF MetaTypeOK, Phases, Locked
  <2>3. /\ check[v].todo = check[v].given
        /\ check[v].missing = {} /\ check[v].written = {}
    BY DEF FreshCall
  <2>. QED BY <2>1, <2>2, <2>3, LockedStepKeepsInvariant DEF Locked
<1>3. ASSUME NEW v \in Verifiers, NEW c \in Fact, Compare(v, c)
      PROVE  MetaInvariant' /\ facts' = facts
  <2>0. /\ check[v].phase = "comparing" /\ c \in check[v].todo /\ UNCHANGED facts
        /\ lock = v
    BY <1>3 DEF Compare, LockIsHeld, Locked
  <2>1. CASE facts[c.key] = c.value /\ UNCHANGED lock
             /\ check' = [check EXCEPT ![v].todo = @ \ {c}]
    <3>1. /\ check'[v].phase = "comparing"
          /\ check'[v].given = check[v].given /\ check'[v].todo = check[v].todo \ {c}
          /\ check'[v].missing = check[v].missing /\ check'[v].written = check[v].written
          /\ \A w \in Verifiers : w # v => check'[w] = check[w]
      BY <2>0, <2>1 DEF MetaTypeOK
    <3>2. MetaTypeOK'
      BY <2>0, <2>1 DEF MetaTypeOK
    <3>. QED BY <2>0, <2>1, <3>1, <3>2, LockedStepKeepsInvariant DEF ReadsStand, Locked, Holds
  <2>2. CASE facts[c.key] = Absent /\ UNCHANGED lock
             /\ check' = [check EXCEPT ![v] = Call(@.phase, @.given, @.todo \ {c},
                                                   @.missing \union {c}, @.written)]
    <3>1. /\ check'[v].phase = "comparing"
          /\ check'[v].given = check[v].given /\ check'[v].todo = check[v].todo \ {c}
          /\ check'[v].missing = check[v].missing \union {c}
          /\ check'[v].written = check[v].written
          /\ \A w \in Verifiers : w # v => check'[w] = check[w]
      BY <2>0, <2>2 DEF MetaTypeOK, Call
    <3>2. MetaTypeOK'
      BY <2>0, <2>2 DEF MetaTypeOK, Call
    <3>3. /\ check[v].todo \subseteq check[v].given
          /\ check[v].missing \union check[v].written \subseteq check[v].given
          /\ \A d \in check[v].given :
                d \in check[v].todo \/ Holds(d) \/ d \in check[v].missing \union check[v].written
          /\ \A d \in check[v].missing \union check[v].written : facts[d.key] = Absent
      BY <2>0 DEF ReadsStand, Locked
    <3>4. check'[v].missing \union check'[v].written
             = (check[v].missing \union check[v].written) \union {c}
      BY <3>1
    <3>5. \A d \in check[v].given :
             d \in check'[v].todo \/ Holds(d) \/ d \in check'[v].missing \union check'[v].written
      BY <3>1, <3>3, <3>4
    <3>6. /\ check'[v].todo \subseteq check[v].given
          /\ check'[v].missing \union check'[v].written \subseteq check[v].given
          /\ \A d \in check'[v].missing \union check'[v].written : facts[d.key] = Absent
      BY <2>0, <2>2, <3>1, <3>3, <3>4
    <3>. QED BY <2>0, <2>2, <3>1, <3>2, <3>5, <3>6, LockedStepKeepsInvariant DEF Locked
  <2>3. CASE facts[c.key] \notin {c.value, Absent} /\ EndCall(v, "conflict")
    <3>1. c \in check[v].given
      BY <2>0 DEF ReadsStand, Locked
    <3>. QED BY <2>0, <2>3, <3>1, EndCallKeepsInvariant
  <2>. QED BY <1>3, <2>0, <2>1, <2>2, <2>3 DEF Compare
<1>4. ASSUME NEW v \in Verifiers, Compared(v)
      PROVE  MetaInvariant' /\ facts' = facts
  <2>. USE <1>4 DEF Compared
  <2>1. /\ check'[v].phase = "stamping"
        /\ check'[v].given = check[v].given /\ check'[v].todo = {}
        /\ check'[v].missing = check[v].missing /\ check'[v].written = check[v].written
        /\ \A w \in Verifiers : w # v => check'[w] = check[w]
    BY DEF MetaTypeOK
  <2>2. MetaTypeOK'
    BY DEF MetaTypeOK, Phases, Locked
  <2>3. lock = v
    BY DEF LockIsHeld, Locked
  <2>. QED BY <2>1, <2>2, <2>3, LockedStepKeepsInvariant DEF ReadsStand, Locked
<1>5. ASSUME NEW v \in Verifiers, NEW c \in Fact, Stamp(v, c)
      PROVE  MetaInvariant' /\ facts' = facts
  <2>. USE <1>5 DEF Stamp
  <2>1. /\ check'[v].phase = "stamping"
        /\ check'[v].given = check[v].given /\ check'[v].todo = check[v].todo
        /\ check'[v].missing = check[v].missing \ {c}
        /\ check'[v].written = check[v].written \union {c}
        /\ \A w \in Verifiers : w # v => check'[w] = check[w]
    BY DEF MetaTypeOK, Call
  <2>2. MetaTypeOK'
    BY DEF MetaTypeOK, Call
  <2>3. lock = v /\ UNCHANGED <<facts, lock>>
    BY DEF LockIsHeld, Locked
  <2>4. check'[v].missing \union check'[v].written = check[v].missing \union check[v].written
    BY <2>1
  <2>. HIDE DEF Stamp
  <2>5. /\ check[v].phase = "stamping"
        /\ check[v].todo \subseteq check[v].given
        /\ check[v].missing \union check[v].written \subseteq check[v].given
        /\ \A d \in check[v].given :
              d \in check[v].todo \/ Holds(d) \/ d \in check[v].missing \union check[v].written
        /\ \A d \in check[v].missing \union check[v].written : facts[d.key] = Absent
        /\ check[v].todo = {}
    BY DEF Stamp, ReadsStand, Locked
  <2>. QED BY <2>1, <2>2, <2>3, <2>4, <2>5, LockedStepKeepsInvariant DEF Locked
<1>6. ASSUME NEW v \in Verifiers, FailVerify(v)
      PROVE  MetaInvariant' /\ facts' = facts
  BY <1>6, EndCallKeepsInvariant DEF FailVerify, Locked
<1>7. ASSUME NEW v \in Verifiers, NEW c \in Fact, SetVerified(v, c)
      PROVE  MetaInvariant' /\ facts' = facts
  <2>1. facts' = facts
    BY <1>7, WithHeldFact DEF SetVerified, VerifiedIdentityHolds, Holds, MetaTypeOK
  <2>2. UNCHANGED metaVars
    BY <1>7, <2>1 DEF SetVerified, metaVars
  <2>. QED BY <2>1, <2>2 DEF metaVars, MetaTypeOK, LockIsHeld, GivenIsList, FreshCall,
          ReadsStand, VerifiedIdentityHolds, NeverHalfStamped, RefusedByForeignFact, Holds
<1>8. ASSUME NEW v \in Verifiers, VerifierLeaves(v)
      PROVE  MetaInvariant' /\ facts' = facts
  <2>1. /\ check'[v] = NoCall
        /\ \A w \in Verifiers : w # v => check'[w] = check[w]
        /\ facts' = facts
    BY <1>8 DEF VerifierLeaves, MetaTypeOK
  <2>2. MetaTypeOK'
    BY <1>8 DEF VerifierLeaves, MetaTypeOK, NoCall, Call, Phases
  <2>3. LockIsHeld'
    BY <1>8, <2>1 DEF VerifierLeaves, LockIsHeld, NoCall, Call, Locked
  <2>4. GivenIsList' /\ FreshCall'
    BY <2>1 DEF GivenIsList, FreshCall, NoCall, Call
  <2>5. ReadsStand'
    BY <2>1 DEF ReadsStand, NoCall, Call, Locked, Holds
  <2>6. VerifiedIdentityHolds' /\ RefusedByForeignFact' /\ NeverHalfStamped'
    BY <2>1 DEF VerifiedIdentityHolds, RefusedByForeignFact, NeverHalfStamped, NoCall, Call, Holds
  <2>. QED BY <2>1, <2>2, <2>3, <2>4, <2>5, <2>6
<1>9. CASE UNCHANGED metaVars
  BY <1>9 DEF metaVars, MetaTypeOK, LockIsHeld, GivenIsList, FreshCall,
     ReadsStand, VerifiedIdentityHolds, NeverHalfStamped, RefusedByForeignFact, Holds
<1>. HIDE DEF MetaInvariant
<1>. QED BY <1>1, <1>2, <1>3, <1>4, <1>5, <1>6, <1>7, <1>8, <1>9, CommitKeepsInvariant DEF MetaNext

(* A table without rows and processes that have not called satisfy it.     *)
LEMMA MetaInitInvariant == MetaInit => MetaInvariant
<1>. SUFFICES ASSUME MetaInit PROVE MetaInvariant
  OBVIOUS
<1>1. /\ \A v \in Verifiers : check[v].phase = "idle" /\ lock # v
      /\ \A k \in Keys : facts[k] = Absent
  BY DEF MetaInit, NoCall, Call
<1>2. MetaTypeOK
  BY DEF MetaInit, MetaTypeOK, NoCall, Call, Phases
<1>3. LockIsHeld /\ GivenIsList /\ FreshCall /\ ReadsStand
  BY <1>1 DEF LockIsHeld, GivenIsList, FreshCall, ReadsStand, Locked
<1>4. VerifiedIdentityHolds /\ NeverHalfStamped /\ RefusedByForeignFact
  BY <1>1 DEF VerifiedIdentityHolds, NeverHalfStamped, RefusedByForeignFact
<1>. QED BY <1>2, <1>3, <1>4 DEF MetaInvariant

(* The inductive invariant holds in every state verify_facts can reach,    *)
(* with any number of processes and crashes at any statement.              *)
THEOREM MetadataKeepsInvariant == MetaSpec => []MetaInvariant
<1>1. MetaInit => MetaInvariant
  BY MetaInitInvariant
<1>2. MetaInvariant /\ [MetaNext]_metaVars => MetaInvariant'
  BY MetaInvariantStep
<1>. QED BY <1>1, <1>2, PTL DEF MetaSpec

(* verify_facts returning Ok means that the schema holds every fact it was *)
(* given, then and from then on, whoever else verifies the same schema.    *)
THEOREM MetadataVerifiedIdentityHolds == MetaSpec => []VerifiedIdentityHolds
<1>1. MetaInvariant => VerifiedIdentityHolds
  BY DEF MetaInvariant
<1>. QED BY <1>1, MetadataKeepsInvariant, PTL

(* The facts of one process are stamped together or not at all.            *)
THEOREM MetadataNeverHalfStamped == MetaSpec => []NeverHalfStamped
<1>1. MetaInvariant => NeverHalfStamped
  BY DEF MetaInvariant
<1>. QED BY <1>1, MetadataKeepsInvariant, PTL

(* No step of any process changes a committed fact.                        *)
THEOREM MetadataFactsNeverChange == MetaSpec => FactsNeverChange
<1>1. MetaInvariant /\ [MetaNext]_metaVars =>
        [\A k \in Keys : facts[k] # Absent => facts'[k] = facts[k]]_metaVars
  BY MetaInvariantStep
<1>. QED BY <1>1, MetadataKeepsInvariant, PTL DEF MetaSpec, FactsNeverChange

-----------------------------------------------------------------------------
(* The runs that use it.                                                   *)

(* An optional value is its element, and the default where it has none.    *)
LEMMA OrElseIsElement ==
    ASSUME NEW S, NEW opt \in Optional(S), NEW default
    PROVE  /\ opt = {} => OrElse(opt, default) = default
           /\ opt # {} => OrElse(opt, default) \in opt /\ \A x \in opt : x = OrElse(opt, default)
BY DEF Optional, OrElse

(* A set of heights that is not empty has a lowest.                        *)
LEMMA LowestHeight ==
    ASSUME NEW S \in SUBSET Nat, S # {}
    PROVE  (CHOOSE s \in S : \A t \in S : s <= t) \in S
<1>1. PICK s \in S : \A t \in S : ~(<<t, s>> \in OpToRel(<, Nat))
  BY NatLessThanWellFounded, WFMin
<1>2. \A t \in S : <<t, s>> \in Nat \X Nat
  OBVIOUS
<1>3. \A t \in S : ~(t < s)
  BY <1>1, <1>2 DEF OpToRel
<1>4. \A t \in S : s <= t
  BY <1>3
<1>. QED BY <1>4

(* The manifest of every node names a height to start from, with or        *)
(* without data sources (ProjectManifest::min_start_block).                *)
LEMMA ManifestNamesStart ==
    ASSUME NEW p \in Commands, ~p.setup
    PROVE  MinStartBlock(p.dir.manifest) \in Nat
<1>. DEFINE m == p.dir.manifest
            starts_of == {EffectiveStart(m, m.data_sources[i]) : i \in DOMAIN m.data_sources}
<1>1. /\ m.start_block \in Optional(Nat)
      /\ \A i \in DOMAIN m.data_sources : m.data_sources[i].start_block \in Optional(Nat)
  BY CommandAssumption
<1>2. \A o \in Optional(Nat), d \in Nat : OrElse(o, d) \in Nat
  <2>. SUFFICES ASSUME NEW o \in Optional(Nat), NEW d \in Nat PROVE OrElse(o, d) \in Nat
    OBVIOUS
  <2>1. o \subseteq Nat
    BY DEF Optional
  <2>. QED BY <2>1, OrElseIsElement
<1>3. starts_of \in SUBSET Nat
  BY <1>1, <1>2 DEF EffectiveStart
<1>4. OrElse(m.start_block, 0) \in Nat
  BY <1>1, <1>2
<1>5. starts_of # {} => (CHOOSE s \in starts_of : \A t \in starts_of : s <= t) \in Nat
  BY <1>3, LowestHeight
<1>6. MinStartBlock(m) = IF starts_of = {} THEN OrElse(m.start_block, 0)
                         ELSE CHOOSE s \in starts_of : \A t \in starts_of : s <= t
  BY DEF MinStartBlock
<1>. QED BY <1>4, <1>5, <1>6

(* Leaving keeps the invariant: nothing of the run is left.                *)
LEMMA LeaveKeepsInvariant ==
    ASSUME MetaTypeOK, StartupInvariant, NEW v \in Verifiers,
           NEW how \in Over, Leave(v, how)
    PROVE  StartupInvariant'
<1>1. /\ pc'[v] = how /\ check'[v].phase = "idle"
      /\ \A w \in Verifiers : w # v =>
            pc'[w] = pc[w] /\ check'[w] = check[w] /\ command'[w] = command[w]
  BY DEF Leave, Goto, VerifierLeaves, NoCall, Call, MetaTypeOK, StartupInvariant, StartedAsCommand
<1>2. /\ pc' \in [Verifiers -> Starting \union Over \union {"ready"}]
      /\ command' \in [Verifiers -> Commands \union {NoCommand}]
  BY DEF Leave, Goto, StartupInvariant, StartedAsCommand
<1>3. how \notin Starting \union {"ready"}
  BY DEF Over, Starting
<1>4. StartedAsCommand'
  BY <1>1, <1>2, <1>3 DEF StartupInvariant, StartedAsCommand
<1>5. VerifiesItsCommand'
  BY <1>1, <1>3 DEF StartupInvariant, VerifiesItsCommand
<1>6. PassedBootstrap'
  BY <1>1, <1>3 DEF StartupInvariant, PassedBootstrap, ServesItsChain, Starting
<1>. QED BY <1>4, <1>5, <1>6 DEF StartupInvariant

(* A step that leaves pc and command alone and only moves the call of v    *)
(* on keeps the invariant.                                                 *)
LEMMA CallMovesOn ==
    ASSUME StartupInvariant, NEW v \in Verifiers, UNCHANGED <<pc, command>>,
           \A w \in Verifiers : w # v => check'[w] = check[w],
           check[v].phase \notin {"idle", "ok"},
           check'[v].given = check[v].given
    PROVE  StartupInvariant'
<1>1. StartedAsCommand'
  BY DEF StartupInvariant, StartedAsCommand
<1>2. VerifiesItsCommand'
  BY DEF StartupInvariant, VerifiesItsCommand
<1>3. PassedBootstrap'
  BY DEF StartupInvariant, PassedBootstrap, ServesItsChain
<1>. QED BY <1>1, <1>2, <1>3 DEF StartupInvariant

(* Every step of a process is a step of Metadata, or leaves its variables  *)
(* alone: bootstrap() and the statements around verification do not write. *)
LEMMA StepIsMetadataStep ==
    ASSUME MetaTypeOK, StartupInvariant, [Next]_vars
    PROVE  [MetaNext]_metaVars
<1>1. ASSUME NEW v \in Verifiers, Prepare(v)
      PROVE  MetaNext
  <2>1. command[v].facts \in CheckLists
    BY <1>1, CommandAssumption DEF Prepare, StartupInvariant, StartedAsCommand, Starting
  <2>. QED BY <1>1, <2>1 DEF Prepare, MetaNext
<1>2. ASSUME NEW v \in Verifiers, Finish(v)
      PROVE  [MetaNext]_metaVars
  <2>1. check[v].given \subseteq Fact
    BY DEF MetaTypeOK
  <2>. QED BY <1>2, <2>1 DEF Finish, MetaNext
<1>3. ASSUME NEW v \in Verifiers, TakeLock(v) \/ RunCheck(v) \/ EndCheck(v) \/ BreakCheck(v)
      PROVE  MetaNext
  BY <1>3 DEF TakeLock, RunCheck, EndCheck, BreakCheck, MetaNext
<1>4. ASSUME NEW v \in Verifiers, NEW how, Leave(v, how)
      PROVE  MetaNext
  BY <1>4 DEF Leave, MetaNext
<1>5. ASSUME NEW v \in Verifiers, Start(v) \/ Signal(v)
      PROVE  UNCHANGED metaVars
  BY <1>5 DEF Start, Signal
<1>6. ASSUME NEW v \in Verifiers, Bootstrap(v)
      PROVE  [MetaNext]_metaVars
  BY <1>4, <1>6 DEF Bootstrap
<1>7. ASSUME NEW v \in Verifiers,
             Stop(v) \/ NotVerified(v) \/ StepFails(v) \/ Return(v) \/ Crash(v)
      PROVE  MetaNext
  BY <1>4, <1>7 DEF Stop, NotVerified, StepFails, Return, Crash
<1>8. CASE UNCHANGED vars
  BY <1>8 DEF vars
<1>. QED BY <1>1, <1>2, <1>3, <1>5, <1>6, <1>7, <1>8 DEF Next

(* Every step keeps the strengthening: what a process verifies is what it  *)
(* was started as, and it got there through bootstrap().                   *)
LEMMA StartupInvariantStep ==
    ASSUME MetaTypeOK, StartupInvariant, [Next]_vars
    PROVE  StartupInvariant'
<1>1. ASSUME NEW v \in Verifiers, Start(v)
      PROVE  StartupInvariant'
  <2>1. PICK p \in Commands :
          IF p.setup \/ (Validate(p.config) /\ p.config.ingest_only)
          THEN /\ command' = [command EXCEPT ![v] = p]
               /\ Goto(v, IF p.setup THEN "prepare" ELSE "bootstrap")
          ELSE Goto(v, "failed") /\ UNCHANGED command
    BY <1>1 DEF Start
  <2>2. /\ UNCHANGED check /\ pc[v] \in Over
        /\ pc'[v] \in {"prepare", "bootstrap", "failed"}
        /\ pc'[v] # "failed" => command'[v] = p
        /\ pc'[v] = "prepare" => p.setup
        /\ pc'[v] = "bootstrap" => ~p.setup
        /\ \A w \in Verifiers : w # v => pc'[w] = pc[w] /\ command'[w] = command[w]
    BY <1>1, <2>1 DEF Start, Goto, metaVars, StartupInvariant, StartedAsCommand
  <2>3. /\ pc' \in [Verifiers -> Starting \union Over \union {"ready"}]
        /\ command' \in [Verifiers -> Commands \union {NoCommand}]
    BY <2>1 DEF Goto, StartupInvariant, StartedAsCommand, Starting, Over
  <2>4. StartedAsCommand'
    BY <2>2, <2>3 DEF StartupInvariant, StartedAsCommand, Starting
  <2>5. VerifiesItsCommand'
    BY <2>2 DEF StartupInvariant, VerifiesItsCommand, Over
  <2>6. PassedBootstrap'
    BY <2>2 DEF StartupInvariant, PassedBootstrap, ServesItsChain
  <2>. QED BY <2>4, <2>5, <2>6 DEF StartupInvariant
<1>2. ASSUME NEW v \in Verifiers, Bootstrap(v)
      PROVE  StartupInvariant'
  <2>1. CASE Leave(v, "failed")
    BY <2>1, LeaveKeepsInvariant DEF Over
  <2>2. CASE ~Leave(v, "failed")
    <3>1. /\ LocalChecks(command[v].config, command[v].dir) /\ ServesItsChain(v)
          /\ pc[v] = "bootstrap" /\ pc' = [pc EXCEPT ![v] = "prepare"]
          /\ UNCHANGED <<check, command>>
      BY <1>2, <2>2 DEF Bootstrap, Goto, metaVars
    <3>2. /\ pc'[v] = "prepare"
          /\ \A w \in Verifiers : w # v => pc'[w] = pc[w]
      BY <3>1 DEF StartupInvariant, StartedAsCommand
    <3>3. StartedAsCommand'
      BY <3>1, <3>2 DEF StartupInvariant, StartedAsCommand, Starting
    <3>4. VerifiesItsCommand'
      BY <3>1, <3>2 DEF StartupInvariant, VerifiesItsCommand
    <3>5. PassedBootstrap'
      BY <3>1, <3>2 DEF StartupInvariant, PassedBootstrap, ServesItsChain, LocalChecks
    <3>. QED BY <3>3, <3>4, <3>5 DEF StartupInvariant
  <2>. QED BY <2>1, <2>2
<1>3. ASSUME NEW v \in Verifiers, Prepare(v)
      PROVE  StartupInvariant'
  <2>1. /\ pc[v] = "prepare" /\ pc' = [pc EXCEPT ![v] = "verifying"] /\ UNCHANGED command
        /\ check'[v].given = command[v].facts
        /\ \A w \in Verifiers : w # v => check'[w] = check[w]
    BY <1>3 DEF Prepare, CallVerify, Goto, Call, MetaTypeOK
  <2>2. /\ pc'[v] = "verifying"
        /\ \A w \in Verifiers : w # v => pc'[w] = pc[w]
    BY <2>1 DEF StartupInvariant, StartedAsCommand
  <2>3. StartedAsCommand'
    BY <2>1, <2>2 DEF StartupInvariant, StartedAsCommand, Starting
  <2>4. VerifiesItsCommand'
    BY <2>1, <2>2 DEF StartupInvariant, VerifiesItsCommand
  <2>5. PassedBootstrap'
    BY <2>1, <2>2 DEF StartupInvariant, PassedBootstrap, ServesItsChain
  <2>. QED BY <2>3, <2>4, <2>5 DEF StartupInvariant
<1>4. ASSUME NEW v \in Verifiers, TakeLock(v)
      PROVE  StartupInvariant'
  <2>1. /\ check[v].phase = "begun" /\ check'[v].given = check[v].given
        /\ \A w \in Verifiers : w # v => check'[w] = check[w]
    BY <1>4 DEF TakeLock, LockMetadata, MetaTypeOK
  <2>. QED BY <1>4, <2>1, CallMovesOn DEF TakeLock
<1>5. ASSUME NEW v \in Verifiers, RunCheck(v)
      PROVE  StartupInvariant'
  <2>1. /\ check[v].phase \in Locked /\ check'[v].given = check[v].given
        /\ \A w \in Verifiers : w # v => check'[w] = check[w]
    BY <1>5 DEF RunCheck, Compared, Compare, Stamp, EndCall, Call, Locked, MetaTypeOK
  <2>. QED BY <1>5, <2>1, CallMovesOn DEF RunCheck, Locked
<1>6. ASSUME NEW v \in Verifiers, EndCheck(v) \/ BreakCheck(v)
      PROVE  StartupInvariant'
  <2>1. /\ check[v].phase \in {"begun"} \union Locked /\ check'[v].given = check[v].given
        /\ \A w \in Verifiers : w # v => check'[w] = check[w]
    BY <1>6 DEF EndCheck, BreakCheck, CommitFacts, FailVerify, EndCall, Call, Locked, MetaTypeOK
  <2>. QED BY <1>6, <2>1, CallMovesOn DEF EndCheck, BreakCheck, Locked
<1>7. ASSUME NEW v \in Verifiers, Finish(v)
      PROVE  StartupInvariant'
  <2>1. /\ pc[v] = "verifying" /\ check[v].phase = "ok"
        /\ pc' = [pc EXCEPT ![v] = "ready"] /\ UNCHANGED <<check, command>>
    BY <1>7 DEF Finish, SetVerified, Goto, metaVars
  <2>2. /\ pc'[v] = "ready"
        /\ \A w \in Verifiers : w # v => pc'[w] = pc[w]
    BY <2>1 DEF StartupInvariant, StartedAsCommand
  <2>3. StartedAsCommand'
    BY <2>1, <2>2 DEF StartupInvariant, StartedAsCommand, Starting
  <2>4. VerifiesItsCommand'
    BY <2>1, <2>2 DEF StartupInvariant, VerifiesItsCommand
  <2>5. PassedBootstrap'
    BY <2>1, <2>2 DEF StartupInvariant, PassedBootstrap, ServesItsChain
  <2>. QED BY <2>3, <2>4, <2>5 DEF StartupInvariant
<1>8. ASSUME NEW v \in Verifiers,
             Stop(v) \/ NotVerified(v) \/ StepFails(v) \/ Return(v) \/ Crash(v)
      PROVE  StartupInvariant'
  BY <1>8, LeaveKeepsInvariant DEF Stop, NotVerified, StepFails, Return, Crash, Over
<1>9. ASSUME UNCHANGED <<check, pc, command>>
      PROVE  StartupInvariant'
  BY <1>9 DEF StartupInvariant, StartedAsCommand, VerifiesItsCommand, PassedBootstrap, ServesItsChain
<1>10. ASSUME NEW v \in Verifiers, Signal(v)
       PROVE  StartupInvariant'
  BY <1>9, <1>10 DEF Signal, metaVars
<1>11. CASE UNCHANGED vars
  BY <1>9, <1>11 DEF vars, metaVars
<1>. QED BY <1>1, <1>2, <1>3, <1>4, <1>5, <1>6, <1>7, <1>8, <1>10, <1>11 DEF Next

(* Both invariants hold together in every state of every run.              *)
LEMMA StartupKeepsInvariants == Spec => [](MetaInvariant /\ StartupInvariant)
<1>1. Init => MetaInvariant /\ StartupInvariant
  <2>. SUFFICES ASSUME Init PROVE MetaInvariant /\ StartupInvariant
    OBVIOUS
  <2>1. MetaInvariant
    BY MetaInitInvariant DEF Init
  <2>2. StartupInvariant
    BY DEF Init, MetaInit, StartupInvariant, StartedAsCommand, VerifiesItsCommand,
       PassedBootstrap, NoCall, Call, Over, Starting
  <2>. QED BY <2>1, <2>2
<1>2. ASSUME MetaInvariant, StartupInvariant, [Next]_vars
      PROVE  MetaInvariant' /\ StartupInvariant'
  <2>1. MetaTypeOK
    BY <1>2 DEF MetaInvariant
  <2>2. [MetaNext]_metaVars /\ StartupInvariant'
    BY <1>2, <2>1, StepIsMetadataStep, StartupInvariantStep
  <2>. QED BY <1>2, <2>2, MetaInvariantStep
<1>. QED BY <1>1, <1>2, PTL DEF Spec

(* Node processes and initialize_schema, with whatever fails, is signalled *)
(* or crashes, use the table only as verify_facts does.                    *)
THEOREM StartupImplementsMetadata == Spec => MetaSpec
<1>1. Init => MetaInit
  BY DEF Init
<1>2. MetaInvariant /\ StartupInvariant /\ [Next]_vars => [MetaNext]_metaVars
  BY StepIsMetadataStep DEF MetaInvariant
<1>. QED BY <1>1, <1>2, StartupKeepsInvariants, PTL DEF Spec, MetaSpec

(* So a process that was told Ok runs on a schema that holds its identity, *)
(* while other processes start, fail and are killed around it.             *)
THEOREM StartupVerifiedIdentityHolds == Spec => []VerifiedIdentityHolds
BY StartupImplementsMetadata, MetadataVerifiedIdentityHolds, PTL

(* A process that dies anywhere in its start leaves no half of an identity.*)
THEOREM StartupNeverHalfStamped == Spec => []NeverHalfStamped
BY StartupImplementsMetadata, MetadataNeverHalfStamped, PTL

(* No later start, with an edited manifest or another chain, and no run of *)
(* initialize_schema changes what the schema was stamped with.             *)
THEOREM StartupFactsNeverChange == Spec => FactsNeverChange
BY StartupImplementsMetadata, MetadataFactsNeverChange, PTL

(* Every node that is ready serves the one chain its schema is stamped     *)
(* with: validate_network compares the endpoints to the manifest before,   *)
(* and verify_project the manifest to the schema.                          *)
THEOREM StartupOneChainPerSchema == Spec => []OneChainPerSchema
<1>1. MetaInvariant /\ StartupInvariant => OneChainPerSchema
  <2>. SUFFICES ASSUME MetaInvariant, StartupInvariant,
                       NEW v \in Verifiers, pc[v] = "ready", ~command[v].setup
                PROVE  facts["chain_id"] = command[v].served
    BY DEF OneChainPerSchema
  <2>. DEFINE c == [key |-> "chain_id", value |-> command[v].served]
  <2>1. c \in check[v].given /\ check[v].phase = "ok"
    BY DEF StartupInvariant, VerifiesItsCommand, PassedBootstrap, ServesItsChain
  <2>2. Holds(c)
    BY <2>1 DEF MetaInvariant, VerifiedIdentityHolds
  <2>. QED BY <2>2 DEF Holds
<1>. QED BY <1>1, StartupKeepsInvariants, PTL

(* Every node that has come as far as the schema has a height to ingest    *)
(* that its column can hold, whichever of flag and manifest names it.      *)
THEOREM StartupReachesSchemaWithWork == Spec => []ReachesSchemaWithWork
<1>1. StartupInvariant => ReachesSchemaWithWork
  <2>. SUFFICES ASSUME StartupInvariant, NEW v \in Verifiers, ~command[v].setup,
                       pc[v] \in {"prepare", "verifying", "ready"}
                PROVE  LET c == command[v].config
                           starts_at == c.start_height \union
                               (IF c.start_height # {} THEN {}
                                ELSE {MinStartBlock(command[v].dir.manifest)})
                       IN  \E h \in 0..MaxSqlHeight :
                               h \in starts_at /\ \A e \in c.end_height : h <= e
    BY DEF ReachesSchemaWithWork
  <2>. DEFINE c     == command[v].config
              lowest == MinStartBlock(command[v].dir.manifest)
              start == OrElse(c.start_height, lowest)
  <2>1. command[v] \in Commands
    BY DEF StartupInvariant, StartedAsCommand, Starting
  <2>2. /\ start <= MaxSqlHeight
        /\ \A e \in c.end_height : start <= e
    BY DEF StartupInvariant, PassedBootstrap, EffectiveRangeValid, EffectiveStartHeight
  <2>3. c.start_height \in Optional(Nat) /\ c.start_height \subseteq Nat /\ lowest \in Nat
    BY <2>1, CommandAssumption, ManifestNamesStart DEF Optional
  <2>4. /\ start \in Nat
        /\ c.start_height = {} => start = lowest
        /\ c.start_height # {} => start \in c.start_height
    BY <2>3, OrElseIsElement
  <2>5. start \in 0..MaxSqlHeight
    BY <2>2, <2>4, SqlHeightAssumption
  <2>. QED BY <2>2, <2>4, <2>5
<1>. QED BY <1>1, StartupKeepsInvariants, PTL
=============================================================================
