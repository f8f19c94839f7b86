-------------------------- MODULE IngestionProofs --------------------------
(***************************************************************************)
(* The journal and the nodes that write it.  For any clients, heights and  *)
(* hashes the table is one contiguous hash chain, success means durable,   *)
(* and the transactions implement the abstract Journal.  For any           *)
(* endpoints, nodes, chain and faults, a node uses the journal as          *)
(* IngestionStore specifies it, and its cursor never gets ahead of it.     *)
(* With one endpoint that serves the finalized tag only finalized blocks   *)
(* are stored, and with one start height a node that reports its range     *)
(* done has stored all of it.                                              *)
(***************************************************************************)
EXTENDS Ingestion, RangePlanProofs

(* A row that ReadLatest finds is a highest row.                           *)
LEMMA LatestIsTop ==
    ASSUME HasTop, journal # {}
    PROVE  AbstractJournal!IsTop(journal, Latest(journal))
BY DEF HasTop, Latest, AbstractJournal!IsTop

(* Adding a header that extends the journal keeps it a linked chain with a *)
(* highest row.                                                            *)
LEMMA ExtendKeepsLinked ==
    ASSUME NEW h \in Header, journal \subseteq Header,
           AbstractJournal!CanExtend(journal, h),
           JournalLinked, HasTop,
           journal' = journal \union {h}
    PROVE  JournalLinked' /\ HasTop'
<1>. USE HeightAssumption, HashAssumption, ClientAssumption, MaxSqlHeightAssumption
<1>1. CASE journal = {}
  <2>1. journal' = {h} /\ h.height \in Nat
    BY <1>1 DEF Header
  <2>2. AbstractJournal!IsTop(journal', h)
    BY <2>1 DEF AbstractJournal!IsTop
  <2>. QED BY <2>1, <2>2 DEF JournalLinked, HasTop, AbstractJournal!IsTop
<1>2. CASE journal # {}
  <2>1. PICK t \in journal : AbstractJournal!IsTop(journal, t) /\ IsChildOf(h, t)
    BY <1>2 DEF AbstractJournal!CanExtend, AbstractJournal!IsChildOf, IsChildOf
  <2>2. /\ h.height \in Nat
        /\ \A r \in journal : r.height \in Nat /\ r.height < h.height
    <3>1. h.height \in Nat /\ \A r \in journal : r.height \in Nat
      BY DEF Header
    <3>2. \A r \in journal : r.height <= t.height
      BY <2>1 DEF AbstractJournal!IsTop
    <3>3. h.height = t.height + 1
      BY <2>1 DEF IsChildOf
    <3>. QED BY <3>1, <3>2, <3>3
  <2>3. JournalLinked'
    BY <2>1, <2>2 DEF JournalLinked
  <2>4. AbstractJournal!IsTop(journal', h)
    BY <2>2 DEF AbstractJournal!IsTop
  <2>. QED BY <2>3, <2>4 DEF HasTop, AbstractJournal!IsTop
<1>. QED BY <1>1, <1>2

(* Every step of the store keeps the inductive invariant.                  *)
LEMMA StoreInvariantStep ==
    StoreInvariant /\ [StoreNext]_storeVars => StoreInvariant'
<1>. USE HeightAssumption, HashAssumption, ClientAssumption, MaxSqlHeightAssumption
<1>. SUFFICES ASSUME StoreInvariant, [StoreNext]_storeVars PROVE StoreInvariant'
  OBVIOUS
<1>. USE DEF StoreInvariant, Tx
<1>1. ASSUME NEW c \in Clients, NEW h \in Header, CallCommit(c, h)
      PROVE  StoreInvariant'
  <2>. USE <1>1 DEF CallCommit
  <2>1. StoreTypeOK'
    BY DEF StoreTypeOK, Phases
  <2>2. LockHeld'
    BY DEF LockHeld, StoreTypeOK, InTransaction
  <2>3. HasTop' /\ JournalLinked'
    BY DEF HasTop, JournalLinked, AbstractJournal!IsTop
  <2>4. DecisionStands' /\ OkMeansDurable'
    BY DEF DecisionStands, OkMeansDurable, StoreTypeOK, AbstractJournal!CanExtend, AbstractJournal!IsTop
  <2>. QED BY <2>1, <2>2, <2>3, <2>4
<1>2. ASSUME NEW c \in Clients, LockTable(c)
      PROVE  StoreInvariant'
  <2>. USE <1>2 DEF LockTable
  <2>1. StoreTypeOK'
    BY DEF StoreTypeOK, Phases
  <2>2. LockHeld'
    BY DEF LockHeld, StoreTypeOK, InTransaction
  <2>3. HasTop' /\ JournalLinked'
    BY DEF HasTop, JournalLinked, AbstractJournal!IsTop
  <2>4. DecisionStands' /\ OkMeansDurable'
    BY DEF DecisionStands, OkMeansDurable, StoreTypeOK, AbstractJournal!CanExtend, AbstractJournal!IsTop
  <2>. QED BY <2>1, <2>2, <2>3, <2>4
<1>3. ASSUME NEW c \in Clients, ReadLatest(c)
      PROVE  StoreInvariant'
  <2>. DEFINE d == Decision(journal, tx[c].header)
  <2>. USE <1>3 DEF ReadLatest
  <2>0. tx[c].header \in Header
    BY DEF DecisionStands
  <2>1. /\ d \in {"insert", "finish", "err"}
        /\ d = "insert" => AbstractJournal!CanExtend(journal, tx[c].header)
        /\ d = "finish" => tx[c].header \in journal
    BY LatestIsTop DEF Decision, AbstractJournal!CanExtend, AbstractJournal!IsTop,
       AbstractJournal!IsChildOf, IsChildOf
  <2>. HIDE DEF d
  <2>2. StoreTypeOK'
    BY <2>1 DEF StoreTypeOK, Phases, d
  <2>3. LockHeld'
    BY <2>1 DEF LockHeld, StoreTypeOK, InTransaction, d
  <2>4. HasTop' /\ JournalLinked'
    BY DEF HasTop, JournalLinked, AbstractJournal!IsTop
  <2>5. DecisionStands' /\ OkMeansDurable'
    BY <2>0, <2>1 DEF DecisionStands, OkMeansDurable, StoreTypeOK, AbstractJournal!CanExtend, AbstractJournal!IsTop, d
  <2>. QED BY <2>2, <2>3, <2>4, <2>5
<1>4. ASSUME NEW c \in Clients, Insert(c)
      PROVE  StoreInvariant'
  <2>. USE <1>4 DEF Insert
  <2>0. /\ \A d \in Clients : d # c => tx'[d] = tx[d]
        /\ tx'[c].header = tx[c].header
        /\ \/ tx'[c].phase = "err" /\ tx'[c].row = {}
           \/ tx'[c].phase = "finish" /\ tx'[c].row = {tx[c].header}
    BY DEF StoreTypeOK
  <2>1. StoreTypeOK'
    BY DEF StoreTypeOK, Phases, DecisionStands
  <2>2. LockHeld'
    BY DEF LockHeld, StoreTypeOK, InTransaction
  <2>3. HasTop' /\ JournalLinked'
    BY DEF HasTop, JournalLinked, AbstractJournal!IsTop
  <2>4. DecisionStands'
    BY <2>0 DEF DecisionStands, AbstractJournal!CanExtend, AbstractJournal!IsTop
  <2>5. OkMeansDurable'
    BY <2>0 DEF OkMeansDurable
  <2>. QED BY <2>1, <2>2, <2>3, <2>4, <2>5
<1>5. ASSUME NEW c \in Clients, CommitTx(c)
      PROVE  StoreInvariant'
  <2>. USE <1>5 DEF CommitTx
  <2>0. PICK answer \in {"ok", "err"} :
          tx' = [tx EXCEPT ![c] = Tx(answer, tx[c].header, {})]
    OBVIOUS
  <2>1. StoreTypeOK'
    BY <2>0 DEF StoreTypeOK, Phases
  <2>2. LockHeld'
    BY DEF LockHeld, StoreTypeOK, InTransaction
  <2>3. HasTop' /\ JournalLinked'
    <3>1. CASE tx[c].row = {}
      BY <3>1 DEF HasTop, JournalLinked, AbstractJournal!IsTop
    <3>2. CASE tx[c].row # {}
      BY <3>2, ExtendKeepsLinked DEF DecisionStands, StoreTypeOK
    <3>. QED BY <3>1, <3>2
  <2>4. tx[c].header \in journal'
    BY DEF DecisionStands
  <2>5. \A d \in Clients : d # c => tx'[d] = tx[d] /\ tx[d].phase \notin InTransaction
    BY DEF LockHeld, InTransaction, StoreTypeOK
  <2>6. OkMeansDurable'
    BY <2>4, <2>5 DEF OkMeansDurable, StoreTypeOK
  <2>7. DecisionStands'
    BY <2>5 DEF DecisionStands, StoreTypeOK, InTransaction
  <2>. QED BY <2>1, <2>2, <2>3, <2>6, <2>7
<1>6. ASSUME NEW c \in Clients, FailTx(c) \/ TakeResult(c) \/ ClientDies(c)
      PROVE  StoreInvariant'
  <2>. USE <1>6 DEF FailTx, TakeResult, ClientDies
  <2>1. StoreTypeOK'
    BY DEF StoreTypeOK, Phases, NoTx
  <2>2. LockHeld'
    BY DEF LockHeld, StoreTypeOK, InTransaction, NoTx
  <2>3. HasTop' /\ JournalLinked'
    BY DEF HasTop, JournalLinked, AbstractJournal!IsTop
  <2>4. DecisionStands' /\ OkMeansDurable'
    BY DEF DecisionStands, OkMeansDurable, StoreTypeOK, AbstractJournal!CanExtend, AbstractJournal!IsTop, NoTx, InTransaction
  <2>. QED BY <2>1, <2>2, <2>3, <2>4
<1>7. CASE UNCHANGED storeVars
  BY <1>7 DEF storeVars, StoreTypeOK, LockHeld, HasTop, DecisionStands, JournalLinked,
     OkMeansDurable, AbstractJournal!IsTop, AbstractJournal!CanExtend
<1>. QED BY <1>1, <1>2, <1>3, <1>4, <1>5, <1>6, <1>7 DEF StoreNext

(* An empty table with idle clients (ensure_table) satisfies it.           *)
LEMMA StoreInvariantInit == StoreInit => StoreInvariant
BY HeightAssumption, HashAssumption, ClientAssumption, MaxSqlHeightAssumption
DEF StoreInit, StoreInvariant, StoreTypeOK, LockHeld, HasTop, DecisionStands,
   JournalLinked, OkMeansDurable, NoTx, Tx, Phases, InTransaction

(* The journal is always one contiguous hash chain, with one row per       *)
(* height, whatever the clients offer and however their transactions       *)
(* interleave, fail or lose their answer.                                  *)
THEOREM StoreKeepsJournalLinked == StoreSpec => []JournalLinked
<1>1. StoreInvariant => JournalLinked
  BY DEF StoreInvariant
<1>. QED BY <1>1, StoreInvariantInit, StoreInvariantStep, PTL DEF StoreSpec

(* IngestionStore::commit returns Ok only for a header that is stored.     *)
THEOREM StoreOkMeansDurable == StoreSpec => []OkMeansDurable
<1>1. StoreInvariant => OkMeansDurable
  BY DEF StoreInvariant
<1>. QED BY <1>1, StoreInvariantInit, StoreInvariantStep, PTL DEF StoreSpec

(* Every COMMIT is an Extend step of the abstract journal or leaves it as  *)
(* it was: the locked read-check-insert transaction is atomic.             *)
THEOREM StoreImplementsJournal == StoreSpec => ImplementsJournal
<1>1. StoreInit => AbstractJournal!Init
  BY DEF StoreInit, AbstractJournal!Init
<1>2. StoreInvariant /\ [StoreNext]_storeVars => [AbstractJournal!Next]_journal
  <2>. SUFFICES ASSUME StoreInvariant, StoreNext, journal' # journal
                PROVE  AbstractJournal!Next
    BY DEF storeVars
  <2>1. PICK c \in Clients : CommitTx(c)
    BY DEF StoreNext, CallCommit, LockTable, ReadLatest, Insert, FailTx, TakeResult, ClientDies
  <2>2. /\ tx[c].row = {tx[c].header}
        /\ tx[c].header \in Header
        /\ AbstractJournal!CanExtend(journal, tx[c].header)
    BY <2>1 DEF CommitTx, StoreInvariant, DecisionStands
  <2>. QED BY <2>1, <2>2 DEF CommitTx, AbstractJournal!Next, AbstractJournal!Extend,
         AbstractJournal!Header, Header
<1>. QED BY <1>1, <1>2, StoreInvariantInit, StoreInvariantStep, PTL
         DEF StoreSpec, ImplementsJournal, AbstractJournal!Spec

-----------------------------------------------------------------------------
(* A node.                                                                 *)

(* What the configuration of a node hands over.                            *)
LEMMA ConfigIsValid ==
    ASSUME NEW n \in Clients
    PROVE  /\ Config[n].start \in Height /\ Config[n].end \in Height \union {NoHeight}
           /\ Config[n].batch \in Nat /\ Config[n].batch > 0
           /\ Config[n].bp.maxInFlight \in Nat /\ Config[n].bp.queueCapacity \in Nat
           /\ Config[n].plan = <<>>
BY NodeAssumption

-----------------------------------------------------------------------------
(* The chain: a branch is a sequence that begins with the genesis block.   *)
LEMMA BranchIsSequence ==
    ASSUME NEW b \in Branches
    PROVE  /\ b \in Seq(Forks) /\ Len(b) \in 1..(MaxChain + 1)
           /\ b \in [1..Len(b) -> Forks] /\ b[1] = Genesis
<1>1. PICK n \in 1..(MaxChain + 1) : b \in [1..n -> Forks] /\ b[1] = Genesis
  BY DEF Branches
<1>0. MaxChain \in Nat
  BY ChainBound
<1>2. b \in Seq(Forks) /\ Len(b) = n
  BY <1>0, <1>1
<1>. QED BY <1>0, <1>1, <1>2

(* A prefix of a branch is a branch, or empty.                             *)
LEMMA PrefixIsBranch ==
    ASSUME NEW b \in Branches, NEW h \in 0..Len(b)
    PROVE  SubSeq(b, 1, h) \in Branches \union {<<>>}
<1>1. /\ b \in Seq(Forks) /\ Len(b) \in 1..(MaxChain + 1)
      /\ b \in [1..Len(b) -> Forks] /\ b[1] = Genesis
  BY BranchIsSequence
<1>2. CASE h = 0
  BY <1>2, SubSeqEmpty
<1>3. CASE h # 0
  <2>1. h \in 1..(MaxChain + 1) /\ \A i \in 1..h : b[i] \in Forks
    BY <1>1, <1>3, ChainBound
  <2>2. /\ SubSeq(b, 1, h) \in Seq(Forks) /\ Len(SubSeq(b, 1, h)) = h
        /\ \A i \in 1..h : SubSeq(b, 1, h)[i] = b[i]
    BY <2>1, SubSeqProperties
  <2>. DEFINE p == SubSeq(b, 1, h)
  <2>3. p \in [1..h -> Forks] /\ p[1] = Genesis
    <3>. HIDE DEF p
    <3>1. p \in Seq(Forks) /\ Len(p) = h /\ \A i \in 1..h : p[i] = b[i]
      BY <2>2 DEF p
    <3>. QED BY <1>1, <2>1, <3>1
  <2>. HIDE DEF p
  <2>4. p \in Branches
    BY <2>1, <2>3 DEF Branches
  <2>. QED BY <2>4 DEF p
<1>. QED BY <1>2, <1>3

(* What an endpoint answers is a header.                                   *)
LEMMA BlockIsHeader ==
    ASSUME NEW b \in Branches, NEW h \in Heights, h < Len(b)
    PROVE  BlockAt(b, h) \in Header /\ BlockAt(b, h).height = h
<1>1. Len(b) \in Nat /\ h \in Nat
  <2>1. Len(b) \in 1..(MaxChain + 1)
    BY BranchIsSequence
  <2>. QED BY <2>1, HeightAssumption, ChainBound
<1>2. SubSeq(b, 1, h + 1) \in Hashes /\ SubSeq(b, 1, h) \in Hashes
  <2>1. h + 1 \in 0..Len(b) /\ h \in 0..Len(b)
    BY <1>1
  <2>2. SubSeq(b, 1, h + 1) \in Branches \union {<<>>} /\ SubSeq(b, 1, h) \in Branches \union {<<>>}
    BY <2>1, PrefixIsBranch
  <2>. QED BY <2>2, NodeAssumption
<1>. QED BY <1>2 DEF BlockAt, HashAt, Header

-----------------------------------------------------------------------------
(* What next_heights returns is the beginning of what is pending.          *)
LEMMA RequestsArePending ==
    ASSUME NodeTypeOK, NEW n \in Clients
    PROVE  LET hs == NextHeights(Config[n], s[n], 0, 0)
           IN  /\ hs \in Seq(Height) /\ Len(hs) \in Nat /\ Len(hs) <= Len(s[n].pending)
               /\ DOMAIN hs = 1..Len(hs)
               /\ \A i \in 1..Len(hs) : hs[i] = s[n].pending[i]
<1>. DEFINE p  == s[n].pending
            k  == Least(Len(p), Budget(Config[n], 0, 0))
            hs == NextHeights(Config[n], s[n], 0, 0)
<1>1. p \in Seq(Height) /\ Len(p) \in Nat
  BY DEF NodeTypeOK
<1>2. Budget(Config[n], 0, 0) \in Nat
  BY ConfigIsValid DEF Budget, ClampBatch, Available, Least, SatSub
<1>3. k \in 0..Len(p)
  BY <1>1, <1>2 DEF Least
<1>. HIDE DEF k
<1>4. hs = <<>> \/ hs = SubSeq(p, 1, k)
  BY DEF NextHeights, k
<1>5. CASE hs = <<>>
  <2>1. Len(hs) = 0 /\ hs \in Seq(Height)
    BY <1>5, EmptySeq
  <2>. HIDE DEF hs, p
  <2>2. DOMAIN hs = 1..Len(hs)
    BY <2>1
  <2>. QED BY <1>1, <2>1, <2>2 DEF hs, p
<1>6. CASE hs = SubSeq(p, 1, k)
  <2>1. \A i \in 1..k : p[i] \in Height
    BY <1>1, <1>3
  <2>2. /\ SubSeq(p, 1, k) \in Seq(Height)
        /\ Len(SubSeq(p, 1, k)) = IF 1 <= k THEN k ELSE 0
        /\ \A i \in 1..k : SubSeq(p, 1, k)[i] = p[i]
    BY <1>3, <2>1, SubSeqProperties
  <2>. HIDE DEF hs, p
  <2>3. hs \in Seq(Height) /\ Len(hs) = k /\ \A i \in 1..k : hs[i] = p[i]
    BY <1>3, <1>6, <2>2
  <2>4. DOMAIN hs = 1..Len(hs)
    BY <2>3
  <2>. QED BY <1>1, <1>3, <2>3, <2>4 DEF hs, p
<1>. QED BY <1>4, <1>5, <1>6

(* The heights planned from a safe head: the next ones, up to that head.   *)
LEMMA PlannedFromCursor ==
    ASSUME NodeTypeOK, NEW n \in Clients, NEW head \in Height,
           NeedsHead(Config[n], s[n], 0, 0)
    PROVE  LET p == PlanFrom(Config[n], s[n], head, 0, 0).pending
           IN  /\ p \in Seq(Height)
               /\ DOMAIN p = 1..Len(p)
               /\ \A i \in DOMAIN p : p[i] = s[n].next + i - 1 /\ p[i] <= head
<1>. DEFINE size == Budget(Config[n], 0, 0)
<1>1. size \in Nat
  BY ConfigIsValid DEF Budget, ClampBatch, Available, Least, SatSub
<1>2. s[n].next \in Height
  BY DEF NodeTypeOK
<1>3. PlanFrom(Config[n], s[n], head, 0, 0).pending =
        HeightsIn(<<>>, NextBatch(<<>>, s[n].next, head, size, Config[n].end))
  BY ConfigIsValid DEF PlanFrom, NodeTypeOK
<1>4. Config[n].end \in Height \union {NoHeight}
  BY ConfigIsValid
<1>. DEFINE next == s[n].next
            end  == Config[n].end
            hs   == HeightsIn(<<>>, NextBatch(<<>>, next, head, size, end))
<1>. HIDE DEF size, next, end
<1>5. /\ hs \in Seq(Height) /\ DOMAIN hs = 1..Len(hs)
      /\ \A i \in DOMAIN hs : hs[i] = next + i - 1 /\ hs[i] <= head
  <2>1. next \in Height /\ end \in Height \union {NoHeight}
    BY <1>2, <1>4 DEF next, end
  <2>. QED BY <1>1, <2>1, PlainBatchIsExact
<1>. QED BY <1>3, <1>5 DEF size, next, end

-----------------------------------------------------------------------------
(* The invariant of the nodes.  A step of one node leaves the others       *)
(* alone, and rows are only added.                                         *)
LEMMA OneNodeSteps ==
    ASSUME NodeInvariant, NEW n \in Clients,
           StoreInvariant', NodeTypeOK', RowsFit', NodeOK(n)',
           journal \subseteq journal',
           \A m \in Clients \ {n} :
              /\ pc'[m] = pc[m] /\ s'[m] = s[m] /\ last'[m] = last[m]
              /\ batch'[m] = batch[m] /\ tx'[m] = tx[m]
    PROVE  NodeInvariant'
<1>1. ASSUME NEW m \in Clients, m # n
      PROVE  NodeOK(m)'
  <2>1. NodeOK(m)
    BY DEF NodeInvariant
  <2>2. /\ pc'[m] = pc[m] /\ s'[m] = s[m] /\ last'[m] = last[m]
        /\ batch'[m] = batch[m] /\ tx'[m] = tx[m]
    BY <1>1
  <2>. QED BY <2>1, <2>2 DEF NodeOK, PendingFromCursor, BatchIsPending, CommitsHead, RowsStored, CommitFits
<1>. QED BY <1>1 DEF NodeInvariant

(* Where a process ends it holds nothing.                                  *)
LEMMA LeavingKeepsInvariant ==
    ASSUME NodeInvariant, StoreInvariant', NEW n \in Clients, NEW how \in Ended,
           Leave(n, how), UNCHANGED chainVars, UNCHANGED journal,
           tx'[n].phase = "idle", \A m \in Clients \ {n} : tx'[m] = tx[m]
    PROVE  NodeInvariant'
<1>1. NewScheduler(Config[n]) \in [next : Height, exhausted : BOOLEAN, pending : Seq(Height)]
  BY ConfigIsValid, EmptySeq DEF NewScheduler
<1>2. <<>> \in Seq(Header) /\ Len(<<>>) = 0 /\ 0 \in Height
  BY EmptySeq, MaxU64Assumption DEF Height
<1>3. NodeTypeOK'
  BY <1>1, <1>2 DEF NodeInvariant, NodeTypeOK, Leave, chainVars
<1>4. /\ pc'[n] = how /\ s'[n] = NewScheduler(Config[n]) /\ batch'[n] = <<>>
      /\ \A m \in Clients \ {n} : /\ pc'[m] = pc[m] /\ s'[m] = s[m] /\ last'[m] = last[m]
                                  /\ batch'[m] = batch[m]
  BY DEF NodeInvariant, NodeTypeOK, Leave
<1>5. NodeOK(n)'
  <2>1. how \notin InLoop /\ how # "verify" /\ how # "accepting"
    BY DEF Ended, InLoop
  <2>2. PendingFromCursor(n)' /\ BatchIsPending(n)'
    BY <1>2, <1>4, <2>1, ConfigIsValid, MaxU64Assumption
       DEF PendingFromCursor, BatchIsPending, NewScheduler, Height
  <2>3. CommitsHead(n)' /\ RowsStored(n)' /\ CommitFits(n)'
    BY <1>4, <2>1 DEF CommitsHead, RowsStored, CommitFits
  <2>. QED BY <2>2, <2>3 DEF NodeOK
<1>. QED BY <1>3, <1>4, <1>5, OneNodeSteps DEF NodeInvariant, RowsFit

(* Starting and loading: the scheduler resumes behind the loaded row.      *)
LEMMA StartKeepsInvariant ==
    ASSUME NodeInvariant, StoreInvariant', NEW n \in Clients,
           Start(n) \/ Load(n)
    PROVE  NodeInvariant'
<1>. USE DEF Goto, chainVars
<1>1. /\ UNCHANGED <<storeVars, fin, view, known, s, latest, got, batch>>
      /\ \A m \in Clients \ {n} : pc'[m] = pc[m] /\ last'[m] = last[m]
      /\ \/ pc[n] \in {"down", "stopped", "failed"} /\ pc'[n] = "load"
         \/ pc[n] = "load" /\ pc'[n] = "loop"
         \/ /\ pc[n] = "load" /\ pc'[n] = "verify"
            /\ journal # {} /\ last'[n] = Latest(journal)
  BY DEF Start, Load, NodeInvariant, NodeTypeOK
<1>2. journal # {} => Latest(journal) \in journal
  BY LatestIsTop DEF NodeInvariant, StoreInvariant, AbstractJournal!IsTop
<1>3. NodeTypeOK'
  <2>1. pc \in [Clients -> Ended \union Running] /\ last \in [Clients -> Header \union {NoHeader}]
    BY DEF NodeInvariant, NodeTypeOK
  <2>2. journal # {} => Latest(journal) \in Header
    BY <1>2 DEF NodeInvariant, StoreInvariant, StoreTypeOK
  <2>3. pc' \in [Clients -> Ended \union Running]
    BY <2>1 DEF Start, Load, Running, InLoop
  <2>4. last' \in [Clients -> Header \union {NoHeader}]
    BY <2>1, <2>2 DEF Start, Load
  <2>. QED BY <1>1, <2>3, <2>4 DEF NodeInvariant, NodeTypeOK
<1>4. NodeOK(n)'
  <2>1. NodeOK(n)
    BY DEF NodeInvariant
  <2>2. tx' = tx /\ journal' = journal
    BY <1>1 DEF storeVars
  <2>3. pc[n] \notin InLoop /\ s'[n] = s[n] /\ batch'[n] = batch[n]
    BY <1>1 DEF InLoop
  <2>4. s[n] = NewScheduler(Config[n])
    BY <2>1, <2>3 DEF NodeOK, PendingFromCursor
  <2>5. PendingFromCursor(n)' /\ BatchIsPending(n)'
    BY <1>1, <2>1, <2>3 DEF NodeOK, PendingFromCursor, BatchIsPending, InLoop
  <2>6. CommitsHead(n)' /\ CommitFits(n)'
    BY <1>1, <2>1, <2>2, <2>3 DEF NodeOK, CommitsHead, CommitFits
  <2>7. RowsStored(n)'
    BY <1>1, <1>2, <2>2, <2>3, <2>4, ConfigIsValid, MaxU64Assumption
       DEF RowsStored, NewScheduler, InLoop, Height
  <2>. QED BY <2>5, <2>6, <2>7 DEF NodeOK
<1>. QED BY <1>1, <1>3, <1>4, OneNodeSteps DEF NodeInvariant, RowsFit, storeVars

(* The loaded row is checked, or the process ends.                         *)
LEMMA VerifyKeepsInvariant ==
    ASSUME NodeInvariant, StoreInvariant', NEW n \in Clients, NEW e \in Endpoints, Verify(n, e)
    PROVE  NodeInvariant'
<1>0. NodeOK(n) /\ UNCHANGED <<storeVars, chainVars>> /\ tx[n].phase = "idle"
  BY DEF Verify, NodeInvariant, NodeOK, CommitsHead
<1>1. CASE ~MayResume(n, e)
  BY <1>0, <1>1, LeavingKeepsInvariant DEF Verify, storeVars, Ended
<1>2. CASE MayResume(n, e)
  <2>. DEFINE h == last[n].height
  <2>1. /\ pc[n] = "verify" /\ pc' = [pc EXCEPT ![n] = "loop"]
        /\ s' = [s EXCEPT ![n] = ResumeFrom(Config[n], s[n], h)]
        /\ UNCHANGED <<last, latest, got, batch>>
    BY <1>2 DEF Verify, Goto
  <2>2. /\ last[n] \in journal /\ h \in Nat /\ h < MaxU64
        /\ Config[n].start \in Height /\ Config[n].start <= SatAdd(h, 1)
    <3>1. last[n] \in journal /\ last[n] \in Header /\ h <= MaxSqlHeight
      BY <1>0, <2>1 DEF NodeOK, RowsStored, NodeInvariant, RowsFit, StoreInvariant, StoreTypeOK
    <3>2. h \in Nat
      BY <3>1, HeightAssumption DEF Header
    <3>. QED BY <1>2, <3>1, <3>2, ConfigIsValid, NodeAssumption, MaxSqlHeightAssumption, MaxU64Assumption DEF MayResume
  <2>. HIDE DEF h
  <2>3. /\ s'[n] = [next |-> h + 1, exhausted |-> FALSE, pending |-> <<>>]
        /\ Config[n].start <= h + 1 /\ h + 1 \in Height
    <3>1. SatAdd(h, 1) = h + 1 /\ h + 1 \in Height /\ h # MaxU64
      BY <2>2, MaxU64Assumption DEF SatAdd, Height
    <3>2. Greatest(h + 1, Config[n].start) = h + 1
      BY <2>2, <3>1, MaxU64Assumption DEF Greatest, Height
    <3>3. s'[n] = ResumeFrom(Config[n], s[n], h)
      BY <2>1 DEF NodeInvariant, NodeTypeOK
    <3>. QED BY <2>2, <3>1, <3>2, <3>3 DEF ResumeFrom
  <2>4. /\ pc'[n] = "loop" /\ batch'[n] = <<>>
        /\ \A m \in Clients \ {n} : pc'[m] = pc[m] /\ s'[m] = s[m]
    BY <1>0, <2>1 DEF NodeInvariant, NodeTypeOK, NodeOK, BatchIsPending
  <2>5. <<>> \in Seq(Height) /\ Len(<<>>) = 0
    BY EmptySeq
  <2>6. NodeTypeOK'
    <3>1. s'[n] \in [next : Height, exhausted : BOOLEAN, pending : Seq(Height)]
      BY <2>3, <2>5
    <3>2. s' \in [Clients -> [next : Height, exhausted : BOOLEAN, pending : Seq(Height)]]
      BY <2>1, <2>4, <3>1 DEF NodeInvariant, NodeTypeOK
    <3>3. pc' \in [Clients -> Ended \union Running]
      BY <2>1 DEF NodeInvariant, NodeTypeOK, Running, InLoop
    <3>. QED BY <1>0, <2>1, <3>2, <3>3 DEF NodeInvariant, NodeTypeOK, chainVars
  <2>7. NodeOK(n)'
    <3>1. PendingFromCursor(n)' /\ BatchIsPending(n)'
      BY <2>3, <2>4, <2>5 DEF PendingFromCursor, BatchIsPending, InLoop
    <3>2. CommitsHead(n)' /\ CommitFits(n)'
      BY <1>0, <2>4 DEF CommitsHead, CommitFits, storeVars
    <3>3. RowsStored(n)'
      <4>1. s'[n].next - 1 = h /\ last[n] \in journal' /\ pc'[n] # "verify"
        BY <1>0, <2>2, <2>3, <2>4 DEF storeVars
      <4>. QED BY <4>1 DEF RowsStored, h
    <3>. QED BY <3>1, <3>2, <3>3 DEF NodeOK
  <2>. QED BY <1>0, <2>1, <2>4, <2>6, <2>7, OneNodeSteps DEF NodeInvariant, RowsFit, storeVars
<1>. QED BY <1>1, <1>2

(* A step that changes neither the schedulers, nor the batches, nor the    *)
(* journal: the chain moves on, a head is read, a signal arrives.          *)
LEMMA OutsideKeepsInvariant ==
    ASSUME NodeInvariant, StoreInvariant',
           \/ Finalize
           \/ \E e \in Endpoints : EndpointMoves(e)
           \/ \E n \in Clients : Signal(n)
    PROVE  NodeInvariant'
<1>1. UNCHANGED <<storeVars, pc, s, last, latest, got, batch>>
  BY DEF Finalize, EndpointMoves, Signal, nodeVars
<1>2. NodeTypeOK'
  <2>1. fin' \in Branches /\ view' \in [Endpoints -> Branches] /\ known' \in [Endpoints -> Nat]
    <3>0. fin \in Branches /\ view \in [Endpoints -> Branches] /\ known \in [Endpoints -> Nat]
      BY DEF NodeInvariant, NodeTypeOK
    <3>1. CASE Finalize
      <4>1. PICK f \in Forks : fin' = Append(fin, f)
        BY <3>1 DEF Finalize
      <4>2. /\ fin \in Seq(Forks) /\ Len(fin) \in 1..(MaxChain + 1) /\ fin[1] = Genesis
            /\ Len(fin) <= MaxChain
        BY <3>0, <3>1, BranchIsSequence DEF Finalize
      <4>3. /\ fin' \in Seq(Forks) /\ Len(fin') = Len(fin) + 1
            /\ \A i \in 1..Len(fin) : fin'[i] = fin[i]
        BY <4>1, <4>2, AppendProperties
      <4>4. /\ Len(fin) + 1 \in 1..(MaxChain + 1) /\ fin' \in [1..(Len(fin) + 1) -> Forks]
            /\ fin'[1] = Genesis
        BY <4>2, <4>3, ChainBound
      <4>5. fin' \in Branches
        BY <4>4 DEF Branches
      <4>. QED BY <3>0, <3>1, <4>5 DEF Finalize
    <3>2. ASSUME NEW e \in Endpoints, EndpointMoves(e)
          PROVE  fin' \in Branches /\ view' \in [Endpoints -> Branches] /\ known' \in [Endpoints -> Nat]
      <4>1. PICK b \in Branches, k \in known[e]..Len(fin) :
              view' = [view EXCEPT ![e] = b] /\ known' = [known EXCEPT ![e] = k]
        BY <3>2 DEF EndpointMoves
      <4>2. k \in Nat
        <5>1. Len(fin) \in 1..(MaxChain + 1) /\ known[e] \in Nat
          BY <3>0, BranchIsSequence
        <5>. QED BY <4>1, <5>1, ChainBound
      <4>. QED BY <3>0, <3>2, <4>1, <4>2 DEF EndpointMoves
    <3>3. CASE \E n \in Clients : Signal(n)
      BY <3>0, <3>3 DEF Signal, chainVars
    <3>. QED BY <3>1, <3>2, <3>3
  <2>. QED BY <1>1, <2>1 DEF NodeInvariant, NodeTypeOK
<1>. QED BY <1>1, <1>2 DEF NodeInvariant, RowsFit, NodeOK, PendingFromCursor, BatchIsPending,
            CommitsHead, RowsStored, CommitFits, storeVars

(* The head height is read.                                                *)
LEMMA AskLatestKeepsInvariant ==
    ASSUME NodeInvariant, StoreInvariant', NEW n \in Clients, NEW e \in Endpoints, AskLatest(n, e)
    PROVE  NodeInvariant'
<1>1. /\ pc[n] = "loop" /\ pc' = [pc EXCEPT ![n] = "finalized"]
      /\ latest' = [latest EXCEPT ![n] = Len(view[e]) - 1]
      /\ UNCHANGED <<storeVars, chainVars, s, last, got, batch>>
  BY DEF AskLatest, Goto, LatestHeight
<1>2. Len(view[e]) - 1 \in Height
  <2>1. Len(view[e]) \in 1..(MaxChain + 1)
    BY BranchIsSequence DEF NodeInvariant, NodeTypeOK
  <2>. QED BY <2>1, ChainBound, NodeAssumption, MaxU64Assumption DEF Height
<1>3. NodeTypeOK'
  BY <1>1, <1>2 DEF NodeInvariant, NodeTypeOK, chainVars, Running, InLoop
<1>4. pc'[n] = "finalized" /\ \A m \in Clients \ {n} : pc'[m] = pc[m]
  BY <1>1 DEF NodeInvariant, NodeTypeOK
<1>5. NodeOK(n)'
  BY <1>1, <1>4 DEF NodeInvariant, NodeOK, PendingFromCursor, BatchIsPending, CommitsHead,
                   RowsStored, CommitFits, InLoop, storeVars
<1>. QED BY <1>1, <1>3, <1>4, <1>5, OneNodeSteps DEF NodeInvariant, RowsFit, storeVars

(* The safe head is a height.                                              *)
LEMMA SafeHeadIsHeight ==
    ASSUME NodeTypeOK, NEW n \in Clients, NEW e \in Endpoints
    PROVE  /\ SafeHead(latest[n], FinalizedHeight(e), FALSE) \in Height
           /\ SafeHead(latest[n], FinalizedHeight(e), FALSE) <= FinalizedHeight(e)
<1>1. latest[n] \in Height
  BY DEF NodeTypeOK
<1>2. FinalizedHeight(e) \in Nat
  <2>1. Len(view[e]) \in 1..(MaxChain + 1) /\ known[e] \in Nat
    BY BranchIsSequence DEF NodeTypeOK
  <2>. QED BY <2>1, ChainBound, BoundAssumption DEF FinalizedHeight, LatestHeight, SatSub
<1>. QED BY <1>1, <1>2, MaxU64Assumption DEF SafeHead, Least, Height

(* The batch is planned from the cursor.                                   *)
LEMMA AskFinalizedKeepsInvariant ==
    ASSUME NodeInvariant, StoreInvariant', NEW n \in Clients, NEW e \in Endpoints, AskFinalized(n, e)
    PROVE  NodeInvariant'
<1>. DEFINE head == SafeHead(latest[n], FinalizedHeight(e), FALSE)
            plan == PlanFrom(Config[n], s[n], head, 0, 0)
<1>1. /\ pc[n] = "finalized" /\ s' = [s EXCEPT ![n] = plan]
      /\ \E where \in {"loop", "fetching"} : pc' = [pc EXCEPT ![n] = where]
      /\ latest' = [latest EXCEPT ![n] = 0]
      /\ UNCHANGED <<storeVars, chainVars, last, got, batch>>
  BY DEF AskFinalized, Goto
<1>2. NodeOK(n) /\ NodeTypeOK /\ head \in Height
  BY SafeHeadIsHeight DEF NodeInvariant
<1>3. /\ plan \in [next : Height, exhausted : BOOLEAN, pending : Seq(Height)]
      /\ plan.next = s[n].next /\ plan.exhausted = s[n].exhausted
      /\ \A i \in DOMAIN plan.pending : plan.pending[i] = s[n].next + i - 1
  <2>1. CASE NeedsHead(Config[n], s[n], 0, 0)
    <3>. HIDE DEF head
    <3>1. /\ plan.pending \in Seq(Height)
          /\ \A i \in DOMAIN plan.pending : plan.pending[i] = s[n].next + i - 1
      BY <1>2, <2>1, PlannedFromCursor
    <3>2. plan = [s[n] EXCEPT !.pending = plan.pending]
      BY <1>2, <2>1 DEF PlanFrom, NodeTypeOK
    <3>. HIDE DEF plan
    <3>. QED BY <1>2, <3>1, <3>2 DEF NodeTypeOK
  <2>2. CASE ~NeedsHead(Config[n], s[n], 0, 0)
    BY <1>2, <2>2 DEF PlanFrom, NodeTypeOK, NodeOK, PendingFromCursor
  <2>. QED BY <2>1, <2>2
<1>. HIDE DEF plan, head
<1>4. /\ s'[n] = plan /\ pc'[n] \in {"loop", "fetching"} /\ batch'[n] = batch[n]
      /\ \A m \in Clients \ {n} : pc'[m] = pc[m] /\ s'[m] = s[m]
  BY <1>1, <1>2 DEF NodeTypeOK
<1>5. NodeTypeOK'
  BY <1>1, <1>2, <1>3, MaxU64Assumption DEF NodeTypeOK, chainVars, Running, InLoop, Height
<1>6. NodeOK(n)'
  <2>1. batch[n] = <<>> /\ Len(<<>>) = 0 /\ Len(plan.pending) \in Nat
    BY <1>1, <1>2, <1>3, EmptySeq DEF NodeOK, BatchIsPending
  <2>2. PendingFromCursor(n)' /\ BatchIsPending(n)'
    BY <1>1, <1>2, <1>3, <1>4, <2>1 DEF NodeOK, PendingFromCursor, BatchIsPending, InLoop
  <2>3. CommitsHead(n)' /\ RowsStored(n)' /\ CommitFits(n)'
    BY <1>1, <1>2, <1>3, <1>4 DEF NodeOK, CommitsHead, RowsStored, CommitFits, InLoop, storeVars
  <2>. QED BY <2>2, <2>3 DEF NodeOK
<1>. QED BY <1>1, <1>4, <1>5, <1>6, OneNodeSteps DEF NodeInvariant, RowsFit, storeVars

(* A block is fetched, or the process ends.                                *)
LEMMA FetchBlockKeepsInvariant ==
    ASSUME NodeInvariant, StoreInvariant', NEW n \in Clients, NEW e \in Endpoints,
           NEW h \in Heights, FetchBlock(n, e, h)
    PROVE  NodeInvariant'
<1>0. NodeOK(n) /\ UNCHANGED <<storeVars, chainVars>> /\ pc[n] = "fetching" /\ tx[n].phase = "idle"
  BY DEF FetchBlock, NodeInvariant, NodeOK, CommitsHead
<1>1. CASE ~HasBlock(e, h)
  BY <1>0, <1>1, LeavingKeepsInvariant DEF FetchBlock, storeVars, Ended
<1>2. CASE HasBlock(e, h)
  <2>1. /\ got' = [got EXCEPT ![n] = got[n] \union {BlockAt(view[e], h)}]
        /\ UNCHANGED <<pc, s, last, latest, batch>>
    BY <1>2 DEF FetchBlock
  <2>2. BlockAt(view[e], h) \in Header
    BY <1>2, BlockIsHeader DEF HasBlock, NodeInvariant, NodeTypeOK
  <2>3. NodeTypeOK'
    BY <1>0, <2>1, <2>2 DEF NodeInvariant, NodeTypeOK, chainVars
  <2>4. NodeOK(n)'
    BY <1>0, <2>1 DEF NodeOK, PendingFromCursor, BatchIsPending, CommitsHead,
                      RowsStored, CommitFits, storeVars
  <2>. QED BY <1>0, <2>1, <2>3, <2>4, OneNodeSteps DEF NodeInvariant, RowsFit, storeVars
<1>. QED BY <1>1, <1>2

(* The fetched headers, put in order, are those of the pending heights.    *)
LEMMA OrderedIsPending ==
    ASSUME NodeTypeOK, NEW n \in Clients, {b.height : b \in got[n]} = Requested(n)
    PROVE  /\ InOrder(n) \in Seq(Header)
           /\ Len(InOrder(n)) <= Len(s[n].pending)
           /\ \A i \in DOMAIN InOrder(n) : /\ InOrder(n)[i] \in got[n]
                                           /\ InOrder(n)[i].height = s[n].pending[i]
<1>. DEFINE hs == NextHeights(Config[n], s[n], 0, 0)
            m  == Len(hs)
            bs == [i \in 1..m |-> CHOOSE b \in got[n] : b.height = hs[i]]
<1>1. /\ m \in Nat /\ m <= Len(s[n].pending) /\ DOMAIN hs = 1..m
      /\ \A i \in 1..m : hs[i] = s[n].pending[i]
  BY RequestsArePending
<1>2. Requested(n) = {hs[i] : i \in DOMAIN hs}
  BY DEF Requested
<1>3. InOrder(n) = bs
  BY DEF InOrder
<1>. HIDE DEF hs, m
<1>4. ASSUME NEW i \in 1..m
      PROVE  bs[i] \in got[n] /\ bs[i].height = hs[i]
  <2>1. hs[i] \in {b.height : b \in got[n]}
    BY <1>1, <1>2
  <2>2. \E b \in got[n] : b.height = hs[i]
    BY <2>1
  <2>. QED BY <2>2
<1>5. \A i \in 1..m : bs[i] \in Header
  BY <1>4 DEF NodeTypeOK
<1>6. bs \in Seq(Header) /\ Len(bs) = m /\ DOMAIN bs = 1..m
  BY <1>1, <1>5
<1>. HIDE DEF bs
<1>. QED BY <1>1, <1>3, <1>4, <1>6

(* A batch that is not linked ends the process; one that is, is handed on. *)
LEMMA FetchDoneKeepsInvariant ==
    ASSUME NodeInvariant, StoreInvariant', NEW n \in Clients, FetchDone(n)
    PROVE  NodeInvariant'
<1>0. NodeOK(n) /\ UNCHANGED <<storeVars, chainVars>> /\ pc[n] = "fetching" /\ tx[n].phase = "idle"
  BY DEF FetchDone, NodeInvariant, NodeOK, CommitsHead
<1>1. CASE ~Linked(InOrder(n))
  BY <1>0, <1>1, LeavingKeepsInvariant DEF FetchDone, storeVars, Ended
<1>2. CASE Linked(InOrder(n))
  <2>1. /\ pc' = [pc EXCEPT ![n] = "next_block"]
        /\ batch' = [batch EXCEPT ![n] = InOrder(n)]
        /\ got' = [got EXCEPT ![n] = {}]
        /\ UNCHANGED <<s, last, latest>>
    BY <1>2 DEF FetchDone, Goto
  <2>2. /\ InOrder(n) \in Seq(Header)
        /\ Len(InOrder(n)) <= Len(s[n].pending)
        /\ \A i \in DOMAIN InOrder(n) : InOrder(n)[i].height = s[n].pending[i]
    BY OrderedIsPending DEF FetchDone, NodeInvariant
  <2>3. NodeTypeOK'
    <3>1. pc' \in [Clients -> Ended \union Running]
      BY <2>1 DEF NodeInvariant, NodeTypeOK, Running, InLoop
    <3>. QED BY <1>0, <2>1, <2>2, <3>1 DEF NodeInvariant, NodeTypeOK, chainVars
  <2>4. /\ pc'[n] = "next_block" /\ batch'[n] = InOrder(n)
        /\ \A m \in Clients \ {n} : pc'[m] = pc[m] /\ batch'[m] = batch[m]
    BY <2>1 DEF NodeInvariant, NodeTypeOK
  <2>5. NodeOK(n)'
    <3>1. PendingFromCursor(n)' /\ BatchIsPending(n)'
      BY <1>0, <2>1, <2>2, <2>4 DEF NodeOK, PendingFromCursor, BatchIsPending, InLoop
    <3>2. CommitsHead(n)' /\ RowsStored(n)' /\ CommitFits(n)'
      BY <1>0, <2>1, <2>4 DEF NodeOK, CommitsHead, RowsStored, CommitFits, InLoop, storeVars
    <3>. QED BY <3>1, <3>2 DEF NodeOK
  <2>. QED BY <1>0, <2>1, <2>3, <2>4, <2>5, OneNodeSteps DEF NodeInvariant, RowsFit, storeVars
<1>. QED BY <1>1, <1>2

(* The batch is used up, or its head is offered to the journal.            *)
LEMMA NextBlockKeepsInvariant ==
    ASSUME NodeInvariant, StoreInvariant', NEW n \in Clients, BatchDone(n) \/ BeginAccept(n)
    PROVE  NodeInvariant'
<1>0. NodeOK(n) /\ NodeTypeOK /\ pc[n] = "next_block" /\ tx[n].phase = "idle"
  BY DEF BatchDone, BeginAccept, NodeInvariant, NodeOK, CommitsHead
<1>1. CASE BatchDone(n)
  <2>1. /\ pc' = [pc EXCEPT ![n] = "loop"] /\ batch[n] = <<>>
        /\ UNCHANGED <<storeVars, chainVars, s, last, latest, got, batch>>
    BY <1>1 DEF BatchDone, Goto
  <2>2. NodeTypeOK'
    BY <1>0, <2>1 DEF NodeTypeOK, chainVars, Running, InLoop
  <2>3. pc'[n] = "loop" /\ \A m \in Clients \ {n} : pc'[m] = pc[m]
    BY <1>0, <2>1 DEF NodeTypeOK
  <2>4. NodeOK(n)'
    BY <1>0, <2>1, <2>3 DEF NodeOK, PendingFromCursor, BatchIsPending, CommitsHead, RowsStored,
                           CommitFits, InLoop, storeVars
  <2>. QED BY <2>1, <2>2, <2>3, <2>4, OneNodeSteps DEF NodeInvariant, RowsFit, storeVars
<1>2. CASE BeginAccept(n)
  <2>. DEFINE h == Head(batch[n])
  <2>1. /\ pc' = [pc EXCEPT ![n] = "accepting"] /\ batch[n] # <<>>
        /\ tx' = [tx EXCEPT ![n] = Tx(IF h.height > MaxSqlHeight \/ h.hash = EmptyHash
                                      THEN "err" ELSE "begun", h, {})]
        /\ UNCHANGED <<journal, chainVars, s, last, latest, got, batch>>
    BY <1>2 DEF BeginAccept, Goto, CallCommit
  <2>2. NodeTypeOK'
    BY <1>0, <2>1 DEF NodeTypeOK, chainVars, Running, InLoop
  <2>3. h \in Header /\ h.height \in Nat
    <3>1. batch[n] \in Seq(Header)
      BY <1>0 DEF NodeTypeOK
    <3>2. h \in Header
      BY <2>1, <3>1, HeadTailProperties
    <3>. QED BY <3>2, HeightAssumption DEF Header
  <2>. HIDE DEF h
  <2>4. /\ pc'[n] = "accepting" /\ tx'[n].header = h
        /\ tx'[n].phase \in {"err", "begun"}
        /\ tx'[n].phase = "begun" => ~(h.height > MaxSqlHeight)
        /\ \A m \in Clients \ {n} : pc'[m] = pc[m] /\ tx'[m] = tx[m]
    BY <1>0, <2>1 DEF NodeTypeOK, Tx, NodeInvariant, StoreInvariant, StoreTypeOK
  <2>5. NodeOK(n)'
    <3>1. PendingFromCursor(n)' /\ BatchIsPending(n)' /\ RowsStored(n)'
      BY <1>0, <2>1, <2>4 DEF NodeOK, PendingFromCursor, BatchIsPending, RowsStored, InLoop
    <3>2. CommitsHead(n)'
      BY <2>1, <2>4 DEF CommitsHead, h
    <3>3. CommitFits(n)'
      BY <2>3, <2>4, MaxSqlHeightAssumption DEF CommitFits
    <3>. QED BY <3>1, <3>2, <3>3 DEF NodeOK
  <2>. QED BY <2>1, <2>2, <2>4, <2>5, OneNodeSteps DEF NodeInvariant, RowsFit
<1>. QED BY <1>1, <1>2

(* The transaction proceeds, fails or is committed.                        *)
LEMMA TransactionKeepsInvariant ==
    ASSUME NodeInvariant, StoreInvariant', NEW n \in Clients, RunTx(n) \/ EndTx(n) \/ BreakTx(n)
    PROVE  NodeInvariant'
<1>0. NodeOK(n) /\ StoreInvariant
  BY DEF NodeInvariant
<1>1. UNCHANGED <<chainVars, nodeVars>>
  BY DEF RunTx, EndTx, BreakTx
<1>2. /\ tx[n].phase # "idle" /\ tx'[n].phase # "idle" /\ tx'[n].header = tx[n].header
      /\ tx'[n].phase \notin {"idle", "err"} => tx[n].phase \notin {"idle", "err"}
      /\ \A m \in Clients \ {n} : tx'[m] = tx[m]
  BY <1>0 DEF RunTx, EndTx, BreakTx, LockTable, ReadLatest, Insert, CommitTx, FailTx, Decision,
     Tx, InTransaction, StoreInvariant, StoreTypeOK
<1>3. journal \subseteq journal' /\ \A r \in journal' \ journal : r.height <= MaxSqlHeight
  <2>1. CASE UNCHANGED journal
    BY <2>1
  <2>2. CASE CommitTx(n)
    <3>1. /\ journal' = journal \union tx[n].row /\ tx[n].phase = "finish"
          /\ tx[n].row # {} => tx[n].row = {tx[n].header}
      BY <1>0, <2>2 DEF CommitTx, StoreInvariant, DecisionStands
    <3>2. tx[n].header.height <= MaxSqlHeight
      BY <1>0, <3>1 DEF NodeOK, CommitFits
    <3>. QED BY <3>1, <3>2
  <2>. QED BY <2>1, <2>2 DEF RunTx, EndTx, BreakTx, LockTable, ReadLatest, Insert, FailTx
<1>4. NodeTypeOK'
  BY <1>1 DEF NodeInvariant, NodeTypeOK, chainVars, nodeVars
<1>5. NodeOK(n)'
  <2>1. PendingFromCursor(n)' /\ BatchIsPending(n)'
    BY <1>0, <1>1 DEF NodeOK, PendingFromCursor, BatchIsPending, nodeVars
  <2>2. CommitsHead(n)' /\ RowsStored(n)' /\ CommitFits(n)'
    BY <1>0, <1>1, <1>2, <1>3 DEF NodeOK, CommitsHead, RowsStored, CommitFits, nodeVars
  <2>. QED BY <2>1, <2>2 DEF NodeOK
<1>6. RowsFit'
  BY <1>3 DEF NodeInvariant, RowsFit
<1>. QED BY <1>1, <1>2, <1>3, <1>4, <1>5, <1>6, OneNodeSteps DEF nodeVars

(* accept() succeeded: the row is stored and the cursor moves past it.     *)
LEMMA AcceptedKeepsInvariant ==
    ASSUME NodeInvariant, StoreInvariant', NEW n \in Clients, Accepted(n)
    PROVE  NodeInvariant'
<1>0. /\ NodeOK(n) /\ NodeTypeOK /\ StoreInvariant
      /\ pc[n] = "accepting" /\ tx[n].phase = "ok" /\ UNCHANGED <<journal, chainVars>>
  BY DEF Accepted, NodeInvariant, TakeResult
<1>1. tx'[n].phase = "idle" /\ \A m \in Clients \ {n} : tx'[m] = tx[m]
  BY <1>0 DEF Accepted, TakeResult, NoTx, Tx, StoreInvariant, StoreTypeOK
<1>. DEFINE h == Head(batch[n]).height
<1>2. CASE ~CanAcknowledge(s[n], h)
  BY <1>0, <1>1, <1>2, LeavingKeepsInvariant DEF Accepted, Ended
<1>3. CASE CanAcknowledge(s[n], h)
  <2>. DEFINE p == s[n].pending
              bs == batch[n]
  <2>1. /\ s' = [s EXCEPT ![n] = Acknowledge(s[n], h)]
        /\ batch' = [batch EXCEPT ![n] = Tail(bs)]
        /\ pc' = [pc EXCEPT ![n] = "next_block"]
        /\ UNCHANGED <<last, latest, got>>
    BY <1>3 DEF Accepted, Goto
  <2>2. /\ bs \in Seq(Header) /\ bs # <<>> /\ p \in Seq(Height) /\ p # <<>>
        /\ Head(p) = h /\ Len(bs) <= Len(p)
        /\ \A i \in DOMAIN p : p[i] = s[n].next + i - 1
        /\ \A i \in DOMAIN bs : bs[i].height = p[i]
        /\ s[n].next \in Nat /\ Config[n].start \in Nat /\ Config[n].start <= s[n].next
    <3>1. bs \in Seq(Header) /\ p \in Seq(Height) /\ s[n].next \in Nat
      BY <1>0, MaxU64Assumption DEF NodeTypeOK, Height
    <3>2. bs # <<>> /\ p # <<>> /\ Head(p) = h
      BY <1>0, <1>3 DEF NodeOK, CommitsHead, CanAcknowledge
    <3>3. /\ Len(bs) <= Len(p) /\ Config[n].start <= s[n].next
          /\ \A i \in DOMAIN p : p[i] = s[n].next + i - 1
          /\ \A i \in DOMAIN bs : bs[i].height = p[i]
      BY <1>0 DEF NodeOK, BatchIsPending, PendingFromCursor
    <3>4. Config[n].start \in Nat
      BY ConfigIsValid, MaxU64Assumption DEF Height
    <3>. QED BY <3>1, <3>2, <3>3, <3>4
  <2>3. \E r \in journal : r.height = h
    BY <1>0 DEF NodeOK, CommitsHead, StoreInvariant, OkMeansDurable
  <2>. HIDE DEF p, bs, h
  <2>4. /\ Tail(p) \in Seq(Height) /\ Len(Tail(p)) = Len(p) - 1
        /\ \A i \in 1..Len(Tail(p)) : Tail(p)[i] = p[i+1]
        /\ p[1] = h /\ Len(p) \in Nat /\ Len(p) > 0
        /\ DOMAIN p = 1..Len(p) /\ DOMAIN Tail(p) = 1..Len(Tail(p))
    BY <2>2, HeadTailProperties, LenProperties
  <2>5. /\ Tail(bs) \in Seq(Header) /\ Len(Tail(bs)) = Len(bs) - 1
        /\ \A i \in 1..Len(Tail(bs)) : Tail(bs)[i] = bs[i+1]
        /\ Len(bs) \in Nat /\ Len(bs) > 0
        /\ DOMAIN bs = 1..Len(bs) /\ DOMAIN Tail(bs) = 1..Len(Tail(bs))
    BY <2>2, HeadTailProperties, LenProperties
  <2>6. h = s[n].next
    BY <2>2, <2>4
  <2>7. h + 1 \in Height /\ SatAdd(h, 1) = h + 1 /\ h # MaxU64
    <3>1. h \in Nat /\ h <= MaxSqlHeight
      BY <2>2, <2>3, <2>6 DEF NodeInvariant, RowsFit
    <3>. QED BY <3>1, NodeAssumption, MaxSqlHeightAssumption, MaxU64Assumption DEF SatAdd, Height
  <2>8. Acknowledge(s[n], h) = [next |-> h + 1, exhausted |-> FALSE, pending |-> Tail(p)]
    BY <2>7 DEF Acknowledge, p
  <2>9. /\ s'[n] = [next |-> h + 1, exhausted |-> FALSE, pending |-> Tail(p)]
        /\ batch'[n] = Tail(bs) /\ pc'[n] = "next_block"
        /\ \A m \in Clients \ {n} : pc'[m] = pc[m] /\ s'[m] = s[m] /\ batch'[m] = batch[m]
    BY <1>0, <2>1, <2>8 DEF NodeTypeOK
  <2>10. NodeTypeOK'
    <3>1. s' \in [Clients -> [next : Height, exhausted : BOOLEAN, pending : Seq(Height)]]
      BY <1>0, <2>1, <2>4, <2>7, <2>8 DEF NodeTypeOK
    <3>2. pc' \in [Clients -> Ended \union Running]
      BY <1>0, <2>1 DEF NodeTypeOK, Running, InLoop
    <3>3. batch' \in [Clients -> Seq(Header)]
      BY <1>0, <2>1, <2>5 DEF NodeTypeOK
    <3>. QED BY <1>0, <2>1, <3>1, <3>2, <3>3 DEF NodeTypeOK, chainVars
  <2>11. PendingFromCursor(n)'
    <3>1. \A i \in DOMAIN Tail(p) : Tail(p)[i] = (h + 1) + i - 1
      <4>. SUFFICES ASSUME NEW i \in 1..Len(Tail(p)) PROVE Tail(p)[i] = (h + 1) + i - 1
        BY <2>4
      <4>1. Tail(p)[i] = p[i+1] /\ i + 1 \in DOMAIN p
        BY <2>4
      <4>. QED BY <2>2, <2>6, <4>1
    <3>2. /\ pc'[n] \in InLoop /\ s'[n].exhausted = FALSE /\ s'[n].next = h + 1
          /\ s'[n].pending = Tail(p)
      BY <2>9 DEF InLoop
    <3>3. Config[n].start <= h + 1
      BY <2>2, <2>6
    <3>. HIDE DEF h, p
    <3>. QED BY ONLY <3>1, <3>2, <3>3 DEF PendingFromCursor
  <2>12. BatchIsPending(n)'
    <3>1. \A i \in DOMAIN Tail(bs) : Tail(bs)[i].height = Tail(p)[i]
      <4>. SUFFICES ASSUME NEW i \in 1..Len(Tail(bs)) PROVE Tail(bs)[i].height = Tail(p)[i]
        BY <2>5
      <4>1. Tail(bs)[i] = bs[i+1] /\ i + 1 \in DOMAIN bs
        BY <2>5
      <4>2. Tail(p)[i] = p[i+1]
        BY <2>2, <2>4, <2>5
      <4>. QED BY <2>2, <4>1, <4>2
    <3>. QED BY <2>2, <2>4, <2>5, <2>9, <3>1 DEF BatchIsPending
  <2>13. CommitsHead(n)' /\ RowsStored(n)' /\ CommitFits(n)'
    <3>1. s'[n].next - 1 = h
      BY <2>2, <2>6, <2>9
    <3>. QED BY <1>0, <1>1, <2>3, <2>9, <3>1 DEF CommitsHead, RowsStored, CommitFits
  <2>. QED BY <1>0, <1>1, <2>1, <2>9, <2>10, <2>11, <2>12, <2>13, OneNodeSteps
           DEF NodeInvariant, RowsFit, NodeOK
<1>. QED BY <1>2, <1>3

(* The process ends: complete, refused, stopped, failed or crashed.        *)
LEMMA EndKeepsInvariant ==
    ASSUME NodeInvariant, StoreInvariant', NEW n \in Clients,
           Finish(n) \/ Refused(n) \/ Stop(n) \/ RequestFails(n) \/ Crash(n)
    PROVE  NodeInvariant'
<1>1. UNCHANGED chainVars /\ \E how \in Ended : Leave(n, how)
  BY DEF Finish, Refused, Stop, RequestFails, Crash, Ended
<1>2. UNCHANGED journal
  BY DEF Finish, Refused, Stop, RequestFails, Crash, TakeResult, ClientDies, storeVars
<1>3. tx'[n].phase = "idle" /\ \A m \in Clients \ {n} : tx'[m] = tx[m]
  <2>1. CASE Refused(n)
    BY <2>1 DEF Refused, TakeResult, NoTx, Tx, NodeInvariant, StoreInvariant, StoreTypeOK
  <2>2. CASE Crash(n) /\ tx[n].phase # "idle"
    BY <2>2 DEF Crash, ClientDies, NoTx, Tx, NodeInvariant, StoreInvariant, StoreTypeOK
  <2>3. CASE Crash(n) /\ tx[n].phase = "idle"
    BY <2>3 DEF Crash, storeVars
  <2>4. CASE Finish(n) \/ Stop(n) \/ RequestFails(n)
    BY <2>4 DEF Finish, Stop, RequestFails, storeVars, NodeInvariant, NodeOK, CommitsHead
  <2>. QED BY <2>1, <2>2, <2>3, <2>4
<1>. QED BY <1>1, <1>2, <1>3, LeavingKeepsInvariant

(* Every step of the nodes is a step of the store's specification.         *)
LEMMA NodeStepOfStore ==
    ASSUME NodeInvariant, [Next]_vars
    PROVE  [StoreNext]_storeVars
<1>1. ASSUME NEW n \in Clients, BeginAccept(n)
      PROVE  StoreNext
  <2>1. batch[n] \in Seq(Header) /\ batch[n] # <<>>
    BY <1>1 DEF BeginAccept, NodeInvariant, NodeTypeOK
  <2>2. Head(batch[n]) \in Header
    BY <2>1, HeadTailProperties
  <2>. QED BY <1>1, <2>2 DEF BeginAccept, StoreNext
<1>2. ASSUME NEW n \in Clients, RunTx(n) \/ EndTx(n) \/ BreakTx(n)
      PROVE  StoreNext
  BY <1>2 DEF RunTx, EndTx, BreakTx, StoreNext
<1>3. ASSUME NEW n \in Clients, Accepted(n) \/ Refused(n)
      PROVE  StoreNext
  BY <1>3 DEF Accepted, Refused, StoreNext
<1>4. ASSUME NEW n \in Clients, Crash(n)
      PROVE  [StoreNext]_storeVars
  BY <1>4 DEF Crash, StoreNext
<1>5. ASSUME NEW n \in Clients,
             Load(n) \/ Finish(n) \/ FetchDone(n) \/ BatchDone(n) \/ Stop(n) \/ RequestFails(n)
               \/ Signal(n) \/ Start(n)
      PROVE  UNCHANGED storeVars
  BY <1>5 DEF Load, Finish, FetchDone, BatchDone, Stop, RequestFails, Signal, Start
<1>6. ASSUME NEW n \in Clients, NEW e \in Endpoints,
             Verify(n, e) \/ AskLatest(n, e) \/ AskFinalized(n, e)
               \/ \E h \in Heights : FetchBlock(n, e, h)
      PROVE  UNCHANGED storeVars
  BY <1>6 DEF Verify, AskLatest, AskFinalized, FetchBlock
<1>7. ASSUME Finalize \/ \E e \in Endpoints : EndpointMoves(e)
      PROVE  UNCHANGED storeVars
  BY <1>7 DEF Finalize, EndpointMoves
<1>8. CASE UNCHANGED vars
  BY <1>8 DEF vars
<1>. QED BY <1>1, <1>2, <1>3, <1>4, <1>5, <1>6, <1>7, <1>8 DEF Next

(* Every step preserves the invariant of the nodes.                        *)
LEMMA NodeInvariantStep ==
    NodeInvariant /\ [Next]_vars => NodeInvariant'
<1>. SUFFICES ASSUME NodeInvariant, [Next]_vars PROVE NodeInvariant'
  OBVIOUS
<1>0. StoreInvariant'
  <2>1. [StoreNext]_storeVars
    BY NodeStepOfStore
  <2>. QED BY <2>1, StoreInvariantStep DEF NodeInvariant
<1>1. ASSUME Finalize \/ (\E e \in Endpoints : EndpointMoves(e)) \/ \E n \in Clients : Signal(n)
      PROVE  NodeInvariant'
  BY <1>0, <1>1, OutsideKeepsInvariant
<1>2. ASSUME NEW n \in Clients, Load(n) \/ Start(n)
      PROVE  NodeInvariant'
  BY <1>0, <1>2, StartKeepsInvariant
<1>3. ASSUME NEW n \in Clients, Finish(n) \/ Refused(n) \/ Stop(n) \/ RequestFails(n) \/ Crash(n)
      PROVE  NodeInvariant'
  BY <1>0, <1>3, EndKeepsInvariant
<1>4. ASSUME NEW n \in Clients, FetchDone(n)
      PROVE  NodeInvariant'
  BY <1>0, <1>4, FetchDoneKeepsInvariant
<1>5. ASSUME NEW n \in Clients, BatchDone(n) \/ BeginAccept(n)
      PROVE  NodeInvariant'
  BY <1>0, <1>5, NextBlockKeepsInvariant
<1>6. ASSUME NEW n \in Clients, RunTx(n) \/ EndTx(n) \/ BreakTx(n)
      PROVE  NodeInvariant'
  BY <1>0, <1>6, TransactionKeepsInvariant
<1>7. ASSUME NEW n \in Clients, Accepted(n)
      PROVE  NodeInvariant'
  BY <1>0, <1>7, AcceptedKeepsInvariant
<1>8. ASSUME NEW n \in Clients, NEW e \in Endpoints,
             Verify(n, e) \/ AskLatest(n, e) \/ AskFinalized(n, e)
               \/ \E h \in Heights : FetchBlock(n, e, h)
      PROVE  NodeInvariant'
  BY <1>0, <1>8, VerifyKeepsInvariant, AskLatestKeepsInvariant, AskFinalizedKeepsInvariant,
     FetchBlockKeepsInvariant
<1>9. CASE UNCHANGED vars
  BY <1>0, <1>9 DEF vars, storeVars, chainVars, nodeVars, NodeInvariant, NodeTypeOK, RowsFit,
     NodeOK, PendingFromCursor, BatchIsPending, CommitsHead, RowsStored, CommitFits
<1>. QED BY <1>1, <1>2, <1>3, <1>4, <1>5, <1>6, <1>7, <1>8, <1>9 DEF Next

(* The invariant of the nodes holds when the chain is at its genesis block *)
(* and every process is about to load.                                     *)
LEMMA NodeInvariantInit == Init => NodeInvariant
<1>. SUFFICES ASSUME Init PROVE NodeInvariant
  OBVIOUS
<1>0. StoreInvariant
  BY StoreInvariantInit DEF Init
<1>1. <<>> \in Seq(Height) /\ <<>> \in Seq(Header) /\ Len(<<>>) = 0 /\ 0 \in Height
  BY EmptySeq, MaxU64Assumption DEF Height
<1>2. <<Genesis>> \in Branches
  <2>1. <<Genesis>> \in [1..1 -> Forks] /\ <<Genesis>>[1] = Genesis
    BY ForkAssumption
  <2>2. 1 \in 1..(MaxChain + 1)
    BY ChainBound
  <2>. QED BY <2>1, <2>2 DEF Branches
<1>3. NodeTypeOK
  <2>1. \A n \in Clients : NewScheduler(Config[n]) \in
                              [next : Height, exhausted : BOOLEAN, pending : Seq(Height)]
    BY <1>1, ConfigIsValid DEF NewScheduler
  <2>. QED BY <1>1, <1>2, <2>1 DEF Init, ChainInit, NodeTypeOK, Running
<1>4. ASSUME NEW n \in Clients
      PROVE  NodeOK(n)
  <2>1. PendingFromCursor(n) /\ BatchIsPending(n)
    BY <1>1, ConfigIsValid, MaxU64Assumption
       DEF Init, PendingFromCursor, BatchIsPending, NewScheduler, Height
  <2>2. CommitsHead(n) /\ RowsStored(n) /\ CommitFits(n)
    BY DEF Init, StoreInit, NoTx, Tx, CommitsHead, RowsStored, CommitFits, InLoop
  <2>. QED BY <2>1, <2>2 DEF NodeOK
<1>5. RowsFit
  BY DEF Init, StoreInit, RowsFit
<1>. QED BY <1>0, <1>3, <1>4, <1>5 DEF NodeInvariant

(* The invariant of the nodes holds of every reachable state.              *)
LEMMA NodeInvariantHolds == Spec => []NodeInvariant
  BY NodeInvariantInit, NodeInvariantStep, PTL DEF Spec

(* The nodes use the journal as its specification allows, whatever the     *)
(* endpoints answer and whenever the processes die.                        *)
THEOREM IngestionImplementsStore == Spec => StoreSpec
<1>1. Init => StoreInit
  BY DEF Init
<1>2. NodeInvariant /\ [Next]_vars => [StoreNext]_storeVars
  BY NodeStepOfStore
<1>. QED BY <1>1, <1>2, NodeInvariantHolds, PTL DEF Spec, StoreSpec

(* So the journal the nodes share is one hash chain that only ever grows.  *)
THEOREM IngestionImplementsJournal == Spec => ImplementsJournal
  BY IngestionImplementsStore, StoreImplementsJournal, PTL

(* A scheduler within the invariant is not ahead of the database.          *)
LEMMA CursorFollowsJournal == NodeInvariant => CursorBehindJournal
<1>. SUFFICES ASSUME NodeInvariant, NEW n \in Clients, pc[n] \in InLoop
              PROVE  /\ s[n].next > Config[n].start =>
                           \E r \in journal : r.height = s[n].next - 1
                     /\ batch[n] # <<>> => Head(batch[n]).height = s[n].next
  BY DEF CursorBehindJournal
<1>1. NodeOK(n) /\ NodeTypeOK
  BY DEF NodeInvariant
<1>2. ASSUME batch[n] # <<>>
      PROVE  Head(batch[n]).height = s[n].next
  <2>1. /\ batch[n] \in Seq(Header) /\ s[n].pending \in Seq(Height) /\ s[n].next \in Int
        /\ Len(batch[n]) <= Len(s[n].pending)
    BY <1>1 DEF NodeOK, BatchIsPending, NodeTypeOK, Height
  <2>2. Len(batch[n]) \in Nat \ {0} /\ Len(s[n].pending) \in Nat
    BY <1>2, <2>1, EmptySeq, LenProperties
  <2>3. 1 \in DOMAIN batch[n] /\ 1 \in DOMAIN s[n].pending /\ Head(batch[n]) = batch[n][1]
    BY <1>2, <2>1, <2>2
  <2>4. batch[n][1].height = s[n].pending[1] /\ s[n].pending[1] = s[n].next + 1 - 1
    BY <1>1, <2>3 DEF NodeOK, BatchIsPending, PendingFromCursor
  <2>. QED BY <2>1, <2>3, <2>4
<1>. QED BY <1>1, <1>2 DEF NodeOK, RowsStored

(* A scheduler never gets ahead of the database, across crashes, lost      *)
(* answers and other nodes, for any endpoints.                             *)
THEOREM IngestionCursorBehindJournal == Spec => []CursorBehindJournal
  BY CursorFollowsJournal, NodeInvariantHolds, PTL

-----------------------------------------------------------------------------
(* What is stored.  The journal changes only by a COMMIT, which adds the   *)
(* head of a batch, and only as a child of the highest row.                *)
LEMMA JournalTakesHead ==
    ASSUME NodeInvariant, [Next]_vars, journal' # journal
    PROVE  \E n \in Clients :
              /\ batch[n] # <<>> /\ pc[n] \in InLoop
              /\ journal' = journal \union {Head(batch[n])}
              /\ AbstractJournal!CanExtend(journal, Head(batch[n]))
<1>1. [StoreNext]_storeVars
  BY NodeStepOfStore
<1>2. PICK n \in Clients : CommitTx(n)
  BY <1>1 DEF storeVars, StoreNext, CallCommit, LockTable, ReadLatest, Insert, FailTx, TakeResult,
     ClientDies
<1>3. /\ journal' = journal \union {tx[n].header}
      /\ AbstractJournal!CanExtend(journal, tx[n].header)
  BY <1>2 DEF CommitTx, NodeInvariant, StoreInvariant, DecisionStands
<1>4. pc[n] = "accepting" /\ tx[n].header = Head(batch[n]) /\ batch[n] # <<>>
  BY <1>2 DEF CommitTx, NodeInvariant, NodeOK, CommitsHead
<1>. QED BY <1>3, <1>4 DEF InLoop

(* Branches that agree up to a height have the same blocks up to it.       *)
LEMMA SameBlock ==
    ASSUME NEW b \in Branches, NEW c \in Branches, NEW h \in Nat, h < Len(b), h < Len(c),
           \A i \in 1..(h + 1) : b[i] = c[i]
    PROVE  BlockAt(b, h) = BlockAt(c, h)
<1>1. /\ b \in Seq(Forks) /\ c \in Seq(Forks) /\ Len(b) \in Nat /\ Len(c) \in Nat
  <2>1. Len(b) \in 1..(MaxChain + 1) /\ Len(c) \in 1..(MaxChain + 1)
    BY BranchIsSequence
  <2>. QED BY <2>1, ChainBound, BranchIsSequence
<1>2. ASSUME NEW k \in 0..(h + 1)
      PROVE  SubSeq(b, 1, k) = SubSeq(c, 1, k)
  <2>1. \A i \in 1..k : b[i] \in Forks /\ c[i] \in Forks /\ b[i] = c[i]
    BY <1>1
  <2>0. /\ k \in Int /\ 1 \in Int /\ (IF 1 <= k THEN k - 1 + 1 ELSE 0) = k /\ k - 1 + 1 = k
        /\ \A i \in 1..k : 1 + i - 1 = i
    OBVIOUS
  <2>2. /\ SubSeq(b, 1, k) \in Seq(Forks) /\ Len(SubSeq(b, 1, k)) = k
        /\ \A i \in 1..k : SubSeq(b, 1, k)[i] = b[i]
    <3>1. /\ SubSeq(b, 1, k) \in Seq(Forks)
          /\ Len(SubSeq(b, 1, k)) = IF 1 <= k THEN k - 1 + 1 ELSE 0
          /\ \A i \in 1..(k - 1 + 1) : SubSeq(b, 1, k)[i] = b[1 + i - 1]
      BY ONLY <2>0, <2>1, SubSeqProperties
    <3>. QED BY ONLY <2>0, <3>1
  <2>3. /\ SubSeq(c, 1, k) \in Seq(Forks) /\ Len(SubSeq(c, 1, k)) = k
        /\ \A i \in 1..k : SubSeq(c, 1, k)[i] = c[i]
    BY <2>1, SubSeqProperties
  <2>. QED BY <2>1, <2>2, <2>3, SeqEqual
<1>3. SubSeq(b, 1, h + 1) = SubSeq(c, 1, h + 1) /\ SubSeq(b, 1, h) = SubSeq(c, 1, h)
  <2>1. h + 1 \in 0..(h + 1) /\ h \in 0..(h + 1)
    OBVIOUS
  <2>. QED BY <1>2, <2>1
<1>. QED BY <1>3 DEF BlockAt, HashAt

(* What a node asks an endpoint for, the endpoint answers with the         *)
(* finalized block.                                                        *)
LEMMA AnswersAreFinalized ==
    ASSUME NodeTypeOK, ViewsAgree, NEW e \in Endpoints, NEW h \in Nat,
           h <= SatSub(known[e], 1), h < Len(view[e])
    PROVE  IsFinalized(BlockAt(view[e], h))
<1>1. /\ view[e] \in Branches /\ fin \in Branches /\ known[e] \in Nat
      /\ view[e][1] = Genesis /\ fin[1] = Genesis
      /\ Len(fin) \in Nat /\ Len(fin) > 0
  <2>1. view[e] \in Branches /\ fin \in Branches /\ known[e] \in Nat
    BY DEF NodeTypeOK
  <2>. QED BY <2>1, BranchIsSequence, ChainBound
<1>2. h < Len(fin) /\ \A i \in 1..(h + 1) : view[e][i] = fin[i]
  <2>1. CASE known[e] = 0
    <3>1. h = 0
      BY <2>1 DEF SatSub
    <3>. QED BY <1>1, <3>1
  <2>2. CASE known[e] # 0
    <3>1. h + 1 <= known[e]
      BY <1>1, <2>2 DEF SatSub
    <3>2. known[e] <= Len(fin) /\ \A i \in 1..known[e] : view[e][i] = fin[i]
      BY DEF ViewsAgree
    <3>. QED BY <1>1, <3>1, <3>2
  <2>. QED BY <2>1, <2>2
<1>3. BlockAt(view[e], h) = BlockAt(fin, h)
  BY <1>1, <1>2, SameBlock
<1>. QED BY <1>2, <1>3 DEF IsFinalized, BlockAt

(* The finalized branch grows: what is finalized stays finalized, and an   *)
(* endpoint moves only above what it knows to be final.                    *)
LEMMA ChainKeepsFinality ==
    ASSUME FinalityInvariant, NodeInvariant', Finalize \/ \E e \in Endpoints : EndpointMoves(e)
    PROVE  FinalityInvariant'
<1>1. UNCHANGED <<journal, s, got, batch>>
  BY DEF Finalize, EndpointMoves, storeVars, nodeVars
<1>2. /\ fin \in Branches /\ fin' \in Branches /\ known \in [Endpoints -> Nat]
      /\ view \in [Endpoints -> Branches] /\ known' \in [Endpoints -> Nat]
      /\ fin \in Seq(Forks) /\ Len(fin) \in Nat
  <2>1. fin \in Branches /\ fin' \in Branches /\ known \in [Endpoints -> Nat]
        /\ view \in [Endpoints -> Branches] /\ known' \in [Endpoints -> Nat]
    BY DEF FinalityInvariant, NodeInvariant, NodeTypeOK
  <2>. QED BY <2>1, BranchIsSequence, ChainBound
<1>3. /\ Len(fin') \in Nat /\ Len(fin) <= Len(fin')
      /\ \A i \in 1..Len(fin) : fin'[i] = fin[i]
  <2>1. CASE Finalize
    <3>1. PICK f \in Forks : fin' = Append(fin, f)
      BY <2>1 DEF Finalize
    <3>. QED BY <1>2, <3>1, AppendProperties
  <2>2. CASE fin' = fin
    BY <1>2, <2>2
  <2>. QED BY <2>1, <2>2 DEF EndpointMoves
<1>4. ViewsAgree' /\ \A e \in Endpoints : known[e] <= known'[e]
  <2>0. ViewsAgree
    BY DEF FinalityInvariant
  <2>1. CASE Finalize
    <3>1. UNCHANGED <<view, known>>
      BY <2>1 DEF Finalize
    <3>. QED BY <1>2, <1>3, <2>0, <3>1 DEF ViewsAgree
  <2>2. ASSUME NEW e \in Endpoints, EndpointMoves(e)
        PROVE  ViewsAgree' /\ \A d \in Endpoints : known[d] <= known'[d]
    <3>1. PICK b \in Branches, k \in known[e]..Len(fin) :
            /\ k <= Len(b)
            /\ SubSeq(b, 1, k) = SubSeq(fin, 1, k)
            /\ view' = [view EXCEPT ![e] = b]
            /\ known' = [known EXCEPT ![e] = k]
      BY <2>2 DEF EndpointMoves
    <3>2. b \in Seq(Forks) /\ Len(b) \in Nat /\ k \in Nat /\ fin' = fin
      BY <1>2, <2>2, <3>1, BranchIsSequence, ChainBound DEF EndpointMoves
    <3>3. \A i \in 1..k : b[i] = fin[i]
      <4>1. \A i \in 1..k : b[i] \in Forks /\ fin[i] \in Forks
        BY <1>2, <3>1, <3>2
      <4>2. \A i \in 1..k : SubSeq(b, 1, k)[i] = b[i] /\ SubSeq(fin, 1, k)[i] = fin[i]
        BY <3>2, <4>1, SubSeqProperties
      <4>. QED BY <3>1, <4>2
    <3>4. \A d \in Endpoints : \/ known'[d] = k /\ view'[d] = b /\ known[d] <= k
                               \/ known'[d] = known[d] /\ view'[d] = view[d]
      BY <1>2, <3>1, <3>2
    <3>. QED BY <1>2, <2>0, <3>1, <3>2, <3>3, <3>4 DEF ViewsAgree
  <2>. QED BY <2>1, <2>2
<1>5. ASSUME NEW b, b.height \in Nat, IsFinalized(b)
      PROVE  IsFinalized(b)'
  <2>1. b.height < Len(fin) /\ b = BlockAt(fin, b.height)
    BY <1>5 DEF IsFinalized
  <2>2. BlockAt(fin, b.height) = BlockAt(fin', b.height)
    <3>. DEFINE h == b.height
    <3>1. h \in Nat /\ h < Len(fin)
      BY <1>5, <2>1
    <3>. HIDE DEF h
    <3>2. h < Len(fin') /\ \A i \in 1..(h + 1) : fin[i] = fin'[i]
      BY <1>2, <1>3, <3>1
    <3>3. BlockAt(fin, h) = BlockAt(fin', h)
      BY <1>2, <3>1, <3>2, SameBlock
    <3>. QED BY <3>3 DEF h
  <2>. QED BY <1>2, <1>3, <1>5, <2>1, <2>2 DEF IsFinalized
<1>6. ASSUME NEW n \in Clients
      PROVE  HoldsFinalized(n)'
  <2>1. HoldsFinalized(n)
    BY DEF FinalityInvariant
  <2>2. got[n] \subseteq Header /\ batch[n] \in Seq(Header) /\ s[n].pending \in Seq(Height)
    BY DEF FinalityInvariant, NodeInvariant, NodeTypeOK
  <2>3. \A b \in Header : b.height \in Nat
    BY HeightAssumption DEF Header
  <2>4. \A e \in Endpoints, i \in DOMAIN s[n].pending : s[n].pending[i] <= SatSub(known'[e], 1)
    <3>1. \A i \in DOMAIN s[n].pending : s[n].pending[i] \in Nat
      <4>. DEFINE p == s[n].pending
      <4>1. p \in Seq(Height)
        BY <2>2
      <4>. HIDE DEF p
      <4>2. \A i \in DOMAIN p : p[i] \in Height
        BY <4>1
      <4>3. Height \subseteq Nat
        BY MaxU64Assumption DEF Height
      <4>. QED BY <4>2, <4>3 DEF p
    <3>. QED BY <1>2, <1>4, <2>1, <3>1 DEF HoldsFinalized, SatSub
  <2>5. \A b \in got[n] : IsFinalized(b)'
    BY <1>5, <2>1, <2>2, <2>3 DEF HoldsFinalized
  <2>6. \A i \in DOMAIN batch[n] : batch[n][i] \in Header
    BY <2>2
  <2>7. \A i \in DOMAIN batch[n] : IsFinalized(batch[n][i])'
    <3>. SUFFICES ASSUME NEW i \in DOMAIN batch[n] PROVE IsFinalized(batch[n][i])'
      OBVIOUS
    <3>1. batch[n][i].height \in Nat /\ IsFinalized(batch[n][i])
      BY <2>1, <2>3, <2>6 DEF HoldsFinalized
    <3>2. PICK b : b = batch[n][i]
      OBVIOUS
    <3>3. IsFinalized(b)'
      BY <1>5, <3>1, <3>2
    <3>4. batch'[n][i] = b
      BY <1>1, <3>2
    <3>. QED BY <3>3, <3>4 DEF IsFinalized
  <2>. QED BY <1>1, <2>4, <2>5, <2>7 DEF HoldsFinalized
<1>7. JournalIsFinalized'
  <2>1. \A r \in journal : r.height \in Nat /\ IsFinalized(r)
    BY HeightAssumption
       DEF FinalityInvariant, JournalIsFinalized, IsFinalized, NodeInvariant, StoreInvariant, StoreTypeOK, Header
  <2>2. \A r \in journal : IsFinalized(r)'
    BY <1>5, <2>1
  <2>. QED BY <1>1, <2>2 DEF JournalIsFinalized, IsFinalized
<1>. QED BY <1>4, <1>6, <1>7 DEF FinalityInvariant
(* With the finalized tag and one endpoint.  A batch is committed from its *)
(* head, so the rows stay on the finalized branch ...                      *)
LEMMA StoredIsFinalized ==
    ASSUME FinalityInvariant, [Next]_vars, UNCHANGED fin
    PROVE  JournalIsFinalized'
<1>0. NodeInvariant /\ JournalIsFinalized
  BY DEF FinalityInvariant
<1>1. CASE journal' = journal
  BY <1>0, <1>1 DEF JournalIsFinalized
<1>2. CASE journal' # journal
  <2>1. PICK n \in Clients : batch[n] # <<>> /\ journal' = journal \union {Head(batch[n])}
    BY <1>0, <1>2, JournalTakesHead
  <2>2. batch[n] \in Seq(Header)
    BY <1>0 DEF NodeInvariant, NodeTypeOK
  <2>3. 1 \in DOMAIN batch[n] /\ Head(batch[n]) = batch[n][1]
    BY <2>1, <2>2, HeadTailProperties, LenProperties
  <2>4. IsFinalized(Head(batch[n]))
    BY <2>3 DEF FinalityInvariant, HoldsFinalized
  <2>. QED BY <1>0, <2>1, <2>4 DEF JournalIsFinalized, IsFinalized
<1>. QED BY <1>1, <1>2

(* ... as long as the node that steps asks for finalized heights only and  *)
(* holds finalized blocks only.                                            *)
LEMMA OneNodeHolds ==
    ASSUME FinalityInvariant, NodeInvariant', [Next]_vars, UNCHANGED chainVars,
           NEW n \in Clients, HoldsFinalized(n)',
           \A m \in Clients \ {n} : s'[m] = s[m] /\ got'[m] = got[m] /\ batch'[m] = batch[m]
    PROVE  FinalityInvariant'
<1>1. ASSUME NEW m \in Clients
      PROVE  HoldsFinalized(m)'
  <2>1. CASE m = n
    BY <2>1
  <2>2. CASE m # n
    BY <2>2 DEF FinalityInvariant, HoldsFinalized, IsFinalized, chainVars
  <2>. QED BY <2>1, <2>2
<1>2. JournalIsFinalized'
  BY StoredIsFinalized DEF chainVars
<1>. QED BY <1>1, <1>2 DEF FinalityInvariant, ViewsAgree, chainVars

(* Most steps of a node leave what it holds alone, or drop all of it.      *)
LEMMA HoldingKeepsFinality ==
    ASSUME FinalityInvariant, NodeInvariant', [Next]_vars, UNCHANGED chainVars,
           NEW n \in Clients,
           \/ UNCHANGED <<s, got, batch>>
           \/ \E how \in Ended : Leave(n, how)
           \/ \E e \in Endpoints : Verify(n, e) /\ MayResume(n, e)
    PROVE  FinalityInvariant'
<1>0. NodeTypeOK /\ HoldsFinalized(n)
  BY DEF FinalityInvariant, NodeInvariant
<1>1. /\ \/ s'[n].pending = s[n].pending /\ got'[n] = got[n] /\ batch'[n] = batch[n]
         \/ s'[n].pending = <<>> /\ got'[n] = {} /\ batch'[n] = <<>>
         \/ s'[n].pending = <<>> /\ got'[n] = got[n] /\ batch'[n] = batch[n]
      /\ \A m \in Clients \ {n} : s'[m] = s[m] /\ got'[m] = got[m] /\ batch'[m] = batch[m]
  BY <1>0 DEF NodeTypeOK, Leave, Verify, NewScheduler, ResumeFrom
<1>2. HoldsFinalized(n)'
  BY <1>0, <1>1 DEF HoldsFinalized, IsFinalized, chainVars
<1>. QED BY <1>1, <1>2, OneNodeHolds

(* The planned heights do not exceed the finalized height of the only      *)
(* endpoint.                                                               *)
LEMMA AskFinalizedKeepsFinality ==
    ASSUME FinalityInvariant, NodeInvariant', [Next]_vars, NEW n \in Clients, NEW e \in Endpoints,
           AskFinalized(n, e), FinalizedTag, \A d \in Endpoints : d = e
    PROVE  FinalityInvariant'
<1>. DEFINE head == SafeHead(latest[n], FinalizedHeight(e), FALSE)
            plan == PlanFrom(Config[n], s[n], head, 0, 0)
<1>0. NodeTypeOK /\ HoldsFinalized(n)
  BY DEF FinalityInvariant, NodeInvariant
<1>1. s' = [s EXCEPT ![n] = plan] /\ UNCHANGED <<chainVars, got, batch>>
  BY DEF AskFinalized
<1>2. head \in Height /\ head <= SatSub(known[e], 1)
  BY <1>0, SafeHeadIsHeight DEF FinalizedHeight
<1>. HIDE DEF head
<1>3. \A i \in DOMAIN plan.pending : plan.pending[i] <= SatSub(known[e], 1)
  <2>1. CASE NeedsHead(Config[n], s[n], 0, 0)
    <3>. DEFINE p == plan.pending
    <3>1. /\ p \in Seq(Height)
          /\ \A i \in DOMAIN p : p[i] <= head
      BY <1>0, <1>2, <2>1, PlannedFromCursor
    <3>2. known[e] \in Nat
      BY <1>0 DEF NodeTypeOK
    <3>. HIDE DEF p
    <3>3. \A i \in DOMAIN p : p[i] \in Height
      BY <3>1
    <3>. QED BY <1>2, <3>1, <3>2, <3>3, MaxU64Assumption DEF p, Height, SatSub
  <2>2. CASE ~NeedsHead(Config[n], s[n], 0, 0)
    BY <1>0, <2>2 DEF PlanFrom, HoldsFinalized
  <2>. QED BY <2>1, <2>2
<1>. HIDE DEF plan
<1>4. s'[n] = plan /\ \A m \in Clients \ {n} : s'[m] = s[m]
  BY <1>0, <1>1 DEF NodeTypeOK
<1>5. HoldsFinalized(n)'
  BY <1>0, <1>1, <1>3, <1>4 DEF HoldsFinalized, IsFinalized, chainVars
<1>. QED BY <1>1, <1>4, <1>5, OneNodeHolds

(* An answer to a planned height is finalized.                             *)
LEMMA FetchBlockKeepsFinality ==
    ASSUME FinalityInvariant, NodeInvariant', [Next]_vars, NEW n \in Clients, NEW e \in Endpoints,
           NEW h \in Heights, FetchBlock(n, e, h)
    PROVE  FinalityInvariant'
<1>0. NodeTypeOK /\ HoldsFinalized(n) /\ ViewsAgree /\ UNCHANGED chainVars
  BY DEF FinalityInvariant, NodeInvariant, FetchBlock
<1>1. CASE ~HasBlock(e, h)
  BY <1>0, <1>1, HoldingKeepsFinality DEF FetchBlock, Ended
<1>2. CASE HasBlock(e, h)
  <2>1. got' = [got EXCEPT ![n] = got[n] \union {BlockAt(view[e], h)}] /\ UNCHANGED <<s, batch>>
    BY <1>2 DEF FetchBlock
  <2>2. h <= SatSub(known[e], 1)
    <3>. DEFINE hs == NextHeights(Config[n], s[n], 0, 0)
                p  == s[n].pending
    <3>1. p \in Seq(Height) /\ Len(p) \in Nat /\ DOMAIN p = 1..Len(p)
      BY <1>0, LenProperties DEF NodeTypeOK
    <3>2. /\ Len(hs) \in Nat /\ Len(hs) <= Len(p) /\ DOMAIN hs = 1..Len(hs)
          /\ \A i \in 1..Len(hs) : hs[i] = p[i]
      BY <1>0, RequestsArePending
    <3>3. \E i \in DOMAIN hs : h = hs[i]
      BY DEF FetchBlock, Requested
    <3>4. \A i \in DOMAIN p : p[i] <= SatSub(known[e], 1)
      BY <1>0 DEF HoldsFinalized
    <3>. HIDE DEF hs, p
    <3>. QED BY <3>1, <3>2, <3>3, <3>4
  <2>3. IsFinalized(BlockAt(view[e], h))
    BY <1>0, <1>2, <2>2, AnswersAreFinalized, HeightAssumption DEF HasBlock
  <2>4. got'[n] = got[n] \union {BlockAt(view[e], h)} /\ \A m \in Clients \ {n} : got'[m] = got[m]
    BY <1>0, <2>1 DEF NodeTypeOK
  <2>5. HoldsFinalized(n)'
    BY <1>0, <2>1, <2>3, <2>4 DEF HoldsFinalized, IsFinalized, chainVars
  <2>. QED BY <1>0, <2>1, <2>4, <2>5, OneNodeHolds
<1>. QED BY <1>1, <1>2

(* The batch is made of the blocks fetched.                                *)
LEMMA FetchDoneKeepsFinality ==
    ASSUME FinalityInvariant, NodeInvariant', [Next]_vars, NEW n \in Clients, FetchDone(n)
    PROVE  FinalityInvariant'
<1>0. NodeTypeOK /\ HoldsFinalized(n) /\ UNCHANGED chainVars
  BY DEF FinalityInvariant, NodeInvariant, FetchDone
<1>1. CASE ~Linked(InOrder(n))
  BY <1>0, <1>1, HoldingKeepsFinality DEF FetchDone, Ended
<1>2. CASE Linked(InOrder(n))
  <2>1. /\ batch' = [batch EXCEPT ![n] = InOrder(n)] /\ got' = [got EXCEPT ![n] = {}]
        /\ UNCHANGED s
    BY <1>2 DEF FetchDone
  <2>2. \A i \in DOMAIN InOrder(n) : InOrder(n)[i] \in got[n]
    BY <1>0, OrderedIsPending DEF FetchDone
  <2>3. /\ batch'[n] = InOrder(n) /\ got'[n] = {}
        /\ \A m \in Clients \ {n} : batch'[m] = batch[m] /\ got'[m] = got[m]
    BY <1>0, <2>1 DEF NodeTypeOK
  <2>4. \A i \in DOMAIN InOrder(n) : IsFinalized(InOrder(n)[i])
    BY <1>0, <2>2 DEF HoldsFinalized
  <2>5. HoldsFinalized(n)'
    BY <1>0, <2>1, <2>3, <2>4 DEF HoldsFinalized, IsFinalized, chainVars
  <2>. QED BY <1>0, <2>1, <2>3, <2>5, OneNodeHolds
<1>. QED BY <1>1, <1>2

(* An acknowledged block leaves the rest of the batch.                     *)
LEMMA AcceptedKeepsFinality ==
    ASSUME FinalityInvariant, NodeInvariant', [Next]_vars, NEW n \in Clients, Accepted(n)
    PROVE  FinalityInvariant'
<1>0. NodeTypeOK /\ HoldsFinalized(n) /\ NodeOK(n) /\ pc[n] = "accepting" /\ UNCHANGED chainVars
  BY DEF FinalityInvariant, NodeInvariant, Accepted
<1>. DEFINE h == Head(batch[n]).height
<1>1. CASE ~CanAcknowledge(s[n], h)
  BY <1>0, <1>1, HoldingKeepsFinality DEF Accepted, Ended
<1>2. CASE CanAcknowledge(s[n], h)
  <2>. DEFINE p == s[n].pending
              bs == batch[n]
  <2>1. /\ s' = [s EXCEPT ![n] = Acknowledge(s[n], h)] /\ batch' = [batch EXCEPT ![n] = Tail(bs)]
        /\ UNCHANGED got
    BY <1>2 DEF Accepted
  <2>2. /\ s'[n].pending = Tail(p) /\ batch'[n] = Tail(bs)
        /\ \A m \in Clients \ {n} : s'[m] = s[m] /\ batch'[m] = batch[m]
    BY <1>0, <2>1 DEF NodeTypeOK, Acknowledge
  <2>3. p \in Seq(Height) /\ p # <<>> /\ bs \in Seq(Header) /\ bs # <<>>
    BY <1>0, <1>2 DEF NodeTypeOK, NodeOK, CommitsHead, CanAcknowledge
  <2>4. \A e \in Endpoints, i \in DOMAIN p : p[i] <= SatSub(known[e], 1)
    BY <1>0 DEF HoldsFinalized
  <2>5. \A i \in DOMAIN bs : IsFinalized(bs[i])
    BY <1>0 DEF HoldsFinalized
  <2>. HIDE DEF p, bs
  <2>6. \A i \in DOMAIN Tail(p) : i + 1 \in DOMAIN p /\ Tail(p)[i] = p[i+1]
    BY <2>3, HeadTailProperties, LenProperties
  <2>7. \A i \in DOMAIN Tail(bs) : i + 1 \in DOMAIN bs /\ Tail(bs)[i] = bs[i+1]
    BY <2>3, HeadTailProperties, LenProperties
  <2>8. HoldsFinalized(n)'
    <3>1. \A e \in Endpoints, i \in DOMAIN Tail(p) : Tail(p)[i] <= SatSub(known[e], 1)
      BY <2>4, <2>6
    <3>2. \A i \in DOMAIN Tail(bs) : IsFinalized(Tail(bs)[i])
      BY <2>5, <2>7
    <3>. QED BY <1>0, <2>1, <2>2, <3>1, <3>2 DEF HoldsFinalized, IsFinalized, chainVars
  <2>. QED BY <1>0, <2>1, <2>2, <2>8, OneNodeHolds
<1>. QED BY <1>1, <1>2

(* Every step keeps to the finalized branch.                               *)
LEMMA FinalityInvariantStep ==
    ASSUME FinalizedTag, \A d, e \in Endpoints : d = e, FinalityInvariant, [Next]_vars
    PROVE  FinalityInvariant'
<1>0. NodeInvariant'
  BY NodeInvariantStep DEF FinalityInvariant
<1>1. ASSUME Finalize \/ \E e \in Endpoints : EndpointMoves(e)
      PROVE  FinalityInvariant'
  BY <1>0, <1>1, ChainKeepsFinality
<1>2. ASSUME NEW n \in Clients,
             Load(n) \/ BatchDone(n) \/ BeginAccept(n) \/ RunTx(n) \/ EndTx(n) \/ BreakTx(n)
               \/ Signal(n) \/ Start(n) \/ \E e \in Endpoints : AskLatest(n, e)
      PROVE  FinalityInvariant'
  <2>1. UNCHANGED <<chainVars, s, got, batch>>
    BY <1>2 DEF Load, BatchDone, BeginAccept, RunTx, EndTx, BreakTx, Signal, Start, AskLatest, nodeVars
  <2>. QED BY <1>0, <2>1, HoldingKeepsFinality
<1>3. ASSUME NEW n \in Clients, Finish(n) \/ Refused(n) \/ Stop(n) \/ RequestFails(n) \/ Crash(n)
      PROVE  FinalityInvariant'
  <2>1. UNCHANGED chainVars /\ \E how \in Ended : Leave(n, how)
    BY <1>3 DEF Finish, Refused, Stop, RequestFails, Crash, Ended
  <2>. QED BY <1>0, <2>1, HoldingKeepsFinality
<1>4. ASSUME NEW n \in Clients, NEW e \in Endpoints, Verify(n, e)
      PROVE  FinalityInvariant'
  <2>1. UNCHANGED chainVars /\ (MayResume(n, e) \/ \E how \in Ended : Leave(n, how))
    BY <1>4 DEF Verify, Ended
  <2>. QED BY <1>0, <1>4, <2>1, HoldingKeepsFinality
<1>5. ASSUME NEW n \in Clients, NEW e \in Endpoints, AskFinalized(n, e)
      PROVE  FinalityInvariant'
  BY <1>0, <1>5, AskFinalizedKeepsFinality
<1>6. ASSUME NEW n \in Clients, NEW e \in Endpoints, NEW h \in Heights, FetchBlock(n, e, h)
      PROVE  FinalityInvariant'
  BY <1>0, <1>6, FetchBlockKeepsFinality
<1>7. ASSUME NEW n \in Clients, FetchDone(n) \/ Accepted(n)
      PROVE  FinalityInvariant'
  BY <1>0, <1>7, FetchDoneKeepsFinality, AcceptedKeepsFinality
<1>8. CASE UNCHANGED vars
  BY <1>0, <1>8 DEF vars, storeVars, chainVars, nodeVars, FinalityInvariant, ViewsAgree,
     HoldsFinalized, IsFinalized, JournalIsFinalized
<1>. QED BY <1>1, <1>2, <1>3, <1>4, <1>5, <1>6, <1>7, <1>8 DEF Next

(* With one endpoint, and that one serving the finalized tag, every stored *)
(* row is on the branch the network finalized, whatever the endpoint's     *)
(* head does above it and whenever the processes die.                      *)
THEOREM IngestionJournalIsFinalized ==
    ASSUME FinalizedTag, \A d, e \in Endpoints : d = e
    PROVE  Spec => []JournalIsFinalized
<1>1. Init => FinalityInvariant
  <2>. SUFFICES ASSUME Init PROVE FinalityInvariant
    OBVIOUS
  <2>1. NodeInvariant
    BY NodeInvariantInit
  <2>2. fin = <<Genesis>> /\ journal = {} /\ \A e \in Endpoints : view[e] = <<Genesis>> /\ known[e] = 0
    BY DEF Init, ChainInit, StoreInit
  <2>3. \A n \in Clients : s[n].pending = <<>> /\ got[n] = {} /\ batch[n] = <<>>
    BY DEF Init, NewScheduler
  <2>4. DOMAIN <<>> = {}
    OBVIOUS
  <2>. QED BY <2>1, <2>2, <2>3, <2>4 DEF FinalityInvariant, ViewsAgree, HoldsFinalized, JournalIsFinalized
<1>2. FinalityInvariant /\ [Next]_vars => FinalityInvariant'
  BY FinalityInvariantStep
<1>3. FinalityInvariant => JournalIsFinalized
  BY DEF FinalityInvariant
<1>. QED BY <1>1, <1>2, <1>3, PTL DEF Spec
-----------------------------------------------------------------------------
(* What is complete.  A chain of rows from a height on has every height up *)
(* to its highest row.                                                     *)
LEMMA RowsHaveNoGap ==
    ASSUME StoreInvariant, NEW b \in journal, NEW q \in journal,
           NEW h \in Nat, b.height <= h, h <= q.height
    PROVE  \E r \in journal : r.height = h
<1>. DEFINE S == {i \in Nat : i >= h /\ \E r \in journal : r.height = i}
<1>0. \A r \in journal : r.height \in Nat
  BY HeightAssumption DEF StoreInvariant, StoreTypeOK, Header
<1>1. S \in SUBSET Nat /\ S # {}
  <2>1. q.height \in S
    BY <1>0
  <2>. QED BY <2>1
<1>2. PICK m \in S : \A i \in S : m <= i
  <2>. HIDE DEF S
  <2>. QED BY <1>1, LeastNatural
<1>3. PICK r \in journal : r.height = m
  BY <1>2
<1>4. CASE m # h
  <2>1. b.height < r.height
    BY <1>0, <1>2, <1>3, <1>4
  <2>2. PICK p \in journal : IsChildOf(r, p)
    BY <2>1 DEF StoreInvariant, JournalLinked
  <2>3. p.height + 1 = m /\ p.height >= h
    BY <1>0, <1>2, <1>3, <1>4, <2>2 DEF IsChildOf
  <2>4. p.height \in S
    BY <1>0, <2>3
  <2>. QED BY <1>0, <1>2, <2>3, <2>4
<1>. QED BY <1>3, <1>4

(* When all nodes start at one height the journal begins there: the first  *)
(* row is the head of a batch at a cursor that has not moved.              *)
LEMMA JournalBeginsAtStart ==
    ASSUME \A n, m \in Clients : Config[n].start = Config[m].start,
           NodeInvariant, BeginsAtStart, [Next]_vars
    PROVE  BeginsAtStart'
<1>1. CASE journal' = journal
  BY <1>1 DEF BeginsAtStart
<1>2. CASE journal' # journal
  <2>1. PICK n \in Clients :
          /\ batch[n] # <<>> /\ pc[n] \in InLoop
          /\ journal' = journal \union {Head(batch[n])}
          /\ AbstractJournal!CanExtend(journal, Head(batch[n]))
    BY <1>2, JournalTakesHead
  <2>. DEFINE h == Head(batch[n]).height
  <2>2. Config[n].start \in Nat /\ s[n].next \in Nat /\ Config[n].start <= s[n].next
    BY ConfigIsValid, MaxU64Assumption DEF NodeInvariant, NodeTypeOK, NodeOK, PendingFromCursor, Height
  <2>3. h = s[n].next /\ (s[n].next > Config[n].start => journal # {})
    BY <2>1, CursorFollowsJournal DEF CursorBehindJournal
  <2>4. CASE journal = {}
    <3>1. h = Config[n].start
      BY <2>2, <2>3, <2>4
    <3>. QED BY <2>1, <2>2, <2>4, <3>1 DEF BeginsAtStart
  <2>5. CASE journal # {}
    <3>1. PICK t \in journal : h = t.height + 1
      BY <2>1, <2>5 DEF AbstractJournal!CanExtend, AbstractJournal!IsChildOf
    <3>2. t.height \in Nat
      BY HeightAssumption DEF NodeInvariant, StoreInvariant, StoreTypeOK, Header
    <3>3. ASSUME NEW m \in Clients
          PROVE  Config[m].start <= h
      <4>1. Config[m].start \in Nat /\ Config[m].start <= t.height
        BY ConfigIsValid, MaxU64Assumption DEF BeginsAtStart, Height
      <4>. QED BY <3>1, <3>2, <4>1
    <3>. QED BY <2>1, <2>5, <3>3 DEF BeginsAtStart
  <2>. QED BY <2>4, <2>5
<1>. QED BY <1>1, <1>2

(* A node that ends as done has stored everything up to its end height.    *)
LEMMA FinishedIsIngested ==
    ASSUME NodeInvariant, BeginsAtStart, NEW n \in Clients, Finish(n),
           NEW h \in Config[n].start..Config[n].end
    PROVE  \E r \in journal : r.height = h
<1>. DEFINE c == Config[n]
<1>1. /\ c.start \in Height /\ c.end \in Height \union {NoHeight} /\ c.batch \in Nat /\ c.batch > 0
      /\ c.plan = <<>>
  BY ConfigIsValid
<1>2. /\ s[n].next \in Height /\ ~s[n].exhausted /\ pc[n] \in InLoop
      /\ s[n].next > c.start => \E r \in journal : r.height = s[n].next - 1
  BY DEF NodeInvariant, NodeTypeOK, NodeOK, PendingFromCursor, RowsStored, Finish, InLoop
<1>3. c.end # NoHeight /\ IsNone(NextBatch(<<>>, s[n].next, c.end, c.batch, c.end))
  BY <1>1, <1>2 DEF Finish, IsComplete
<1>4. h \in Nat /\ c.start <= h /\ h <= c.end /\ c.end \in Height
  BY <1>1, <1>3, MaxU64Assumption DEF Height
<1>5. s[n].next > c.end
  <2>. DEFINE next == s[n].next
              end  == c.end
              size == c.batch
  <2>1. /\ next \in Height /\ end \in Height /\ size \in Nat /\ size > 0 /\ end # NoHeight
        /\ IsNone(NextBatch(<<>>, next, end, size, end))
    BY <1>1, <1>2, <1>3, <1>4
  <2>. HIDE DEF next, end, size
  <2>2. size = 0 \/ next > end
    BY <2>1, PlainBatchIsExact
  <2>. QED BY <2>1, <2>2 DEF next, end
<1>6. s[n].next > c.start /\ h <= s[n].next - 1
  BY <1>1, <1>2, <1>4, <1>5, MaxU64Assumption DEF Height
<1>7. PICK q \in journal : q.height = s[n].next - 1
  BY <1>2, <1>6
<1>8. PICK b \in journal : b.height = c.start
  BY <1>7 DEF BeginsAtStart
<1>. QED BY <1>4, <1>6, <1>7, <1>8, RowsHaveNoGap DEF NodeInvariant

(* A node is done only by finishing.                                       *)
LEMMA OnlyFinishIsDone ==
    ASSUME NodeInvariant, [Next]_vars, NEW n \in Clients, pc'[n] = "done"
    PROVE  pc[n] = "done" \/ Finish(n)
<1>0. pc \in [Clients -> Ended \union Running]
  BY DEF NodeInvariant, NodeTypeOK
<1>1. ASSUME NEW m \in Clients,
             \/ \E how \in Ended \ {"done"} : Leave(m, how)
             \/ \E where \in InLoop \union {"verify", "load"} : Goto(m, where)
             \/ UNCHANGED pc
      PROVE  pc[n] = "done"
  BY <1>0, <1>1 DEF Leave, Goto, InLoop
<1>2. ASSUME NEW m \in Clients, Finish(m)
      PROVE  pc[n] = "done" \/ Finish(n)
  <2>1. pc' = [pc EXCEPT ![m] = "done"]
    BY <1>2 DEF Finish, Leave
  <2>. QED BY <1>0, <1>2, <2>1
<1>3. ASSUME NEW m \in Clients,
             \/ Load(m) \/ FetchDone(m) \/ BatchDone(m) \/ BeginAccept(m) \/ Accepted(m) \/ Refused(m)
             \/ Stop(m) \/ RequestFails(m) \/ Crash(m) \/ Start(m)
      PROVE  pc[n] = "done"
  <2>1. \/ \E how \in Ended \ {"done"} : Leave(m, how)
        \/ \E where \in InLoop \union {"verify", "load"} : Goto(m, where)
    BY <1>3 DEF Load, FetchDone, BatchDone, BeginAccept, Accepted, Refused, Stop, RequestFails,
       Crash, Start, Ended, InLoop
  <2>. QED BY <1>1, <2>1
<1>4. ASSUME NEW m \in Clients, NEW e \in Endpoints,
             Verify(m, e) \/ AskLatest(m, e) \/ AskFinalized(m, e)
               \/ \E h \in Heights : FetchBlock(m, e, h)
      PROVE  pc[n] = "done"
  <2>1. \/ \E how \in Ended \ {"done"} : Leave(m, how)
        \/ \E where \in InLoop \union {"verify", "load"} : Goto(m, where)
        \/ UNCHANGED pc
    BY <1>4 DEF Verify, AskLatest, AskFinalized, FetchBlock, Ended, InLoop
  <2>. QED BY <1>1, <2>1
<1>5. ASSUME UNCHANGED pc
      PROVE  pc[n] = "done"
  BY <1>5
<1>. QED BY <1>2, <1>3, <1>4, <1>5
     DEF Next, RunTx, EndTx, BreakTx, Signal, Finalize, EndpointMoves, nodeVars, vars

(* When all nodes start at one height, a node that reports its range done  *)
(* has every height of it in the journal, whichever nodes stored them.     *)
THEOREM IngestionDoneMeansRangeIngested ==
    ASSUME \A n, m \in Clients : Config[n].start = Config[m].start
    PROVE  Spec => []DoneMeansRangeIngested
<1>1. Init => RangeInvariant
  BY NodeInvariantInit DEF RangeInvariant, Init, StoreInit, BeginsAtStart, DoneMeansRangeIngested
<1>2. RangeInvariant /\ [Next]_vars => RangeInvariant'
  <2>. SUFFICES ASSUME RangeInvariant, [Next]_vars PROVE RangeInvariant'
    OBVIOUS
  <2>1. NodeInvariant' /\ BeginsAtStart'
    BY NodeInvariantStep, JournalBeginsAtStart DEF RangeInvariant
  <2>2. journal \subseteq journal'
    BY JournalTakesHead DEF RangeInvariant
  <2>3. ASSUME NEW n \in Clients, pc'[n] = "done", NEW h \in Config[n].start..Config[n].end
        PROVE  \E r \in journal' : r.height = h
    <3>1. pc[n] = "done" \/ Finish(n)
      BY <2>3, OnlyFinishIsDone DEF RangeInvariant
    <3>2. \E r \in journal : r.height = h
      BY <3>1, FinishedIsIngested DEF RangeInvariant, DoneMeansRangeIngested
    <3>. QED BY <2>2, <3>2
  <2>. QED BY <2>1, <2>3 DEF RangeInvariant, DoneMeansRangeIngested
<1>3. RangeInvariant => DoneMeansRangeIngested
  BY DEF RangeInvariant
<1>. QED BY <1>1, <1>2, <1>3, PTL DEF Spec
=============================================================================
