------------------------- MODULE ReplayWorker_proofs -------------------------
(***************************************************************************)
(* Proofs about the redo worker composed with ASR: for every stream length *)
(* and every ASR configuration, each step of the composition is a step of  *)
(* the abstract replay or leaves it as it is.  The liveness half of the    *)
(* refinement (WF of Apply) rests on ENABLED and stays with TLC.           *)
(***************************************************************************)
EXTENDS ReplayWorker, ASR_proofs, TLAPS

\* Inside a call the loop has replayed fewer records than the budget it
\* read: the break at records_replayed >= replay_budget leaves it otherwise.
BatchInv ==
    /\ replayed <= B
    /\ wpc = "loop" => replayed < B

\* ASR's inductive invariant with the worker's types.
TIInv == IInv /\ ReplayTypeOK

-----------------------------------------------------------------------------
(* Type correctness of the composition.                                    *)

\* A collaborator's ingest call keeps ASR's invariant, whatever it adds:
\* the counter wraps and the ghost grows, nothing else of ASR moves.
LEMMA RecordIngestIInv ==
    ASSUME IInv, NEW k \in Counters, NEW n \in Nat, RecordIngest(k, n), KeepAsr
    PROVE  IInv'
<1>1. /\ count' \in [Counters -> 0 .. (CounterMod - 1)]
      /\ pending' \in [Counters -> Nat]
    <2>1. CASE config.enable
        BY <2>1, ConstantsAssumption DEF RecordIngest, FetchAdd, IInv, TypeOK
    <2>2. CASE ~config.enable
        BY <2>2 DEF RecordIngest, IInv, TypeOK
    <2>. QED
        BY <2>1, <2>2
<1>. QED
    BY <1>1 DEF KeepAsr, lockVars, IInv, TypeOK, ConfigInstalled,
                NoThreadBeforeInit

\* A step that leaves ASR's variables alone keeps ASR's invariant.
LEMMA KeepIInv == IInv /\ UNCHANGED vars => IInv'
BY NextIInv

\* The non-ingest ASR steps are steps of ASR's own next-state relation.
LEMMA AsrStepIsNext == AsrStep => Next
BY DEF AsrStep, Next

LEMMA RInitTIInv == RInit => TIInv
<1> SUFFICES ASSUME RInit PROVE TIInv
    OBVIOUS
<1>1. IInv
    BY InitIInv DEF RInit
<1>. QED
    BY <1>1, WorkerAssumption DEF RInit, TIInv, IInv, ReplayTypeOK

LEMMA RNextTIInv == TIInv /\ [RNext]_allVars => TIInv'
<1> SUFFICES ASSUME TIInv, [RNext]_allVars PROVE TIInv'
    OBVIOUS
<1>0. IInv /\ TypeOK
    BY DEF TIInv, IInv
<1>1. CASE WalReceive
    <2>1. IInv'
        BY <1>0, <1>1, RecordIngestIInv DEF WalReceive, Counters
    <2>2. /\ received \in 0 .. MaxRecords /\ applied \in 0 .. received
          /\ target \in 0 .. MaxRecords /\ B \in Int /\ replayed \in Nat
          /\ wpc \in {"idle", "loop"}
        BY DEF TIInv, ReplayTypeOK
    <2>3. /\ received' \in 0 .. MaxRecords /\ applied' \in 0 .. received'
          /\ target' \in 0 .. MaxRecords /\ B' \in Int /\ replayed' \in Nat
          /\ wpc' \in {"idle", "loop"}
        <3>1. received' = received + 1 /\ received < MaxRecords
            BY <1>1 DEF WalReceive
        <3>2. UNCHANGED <<applied, target, B, replayed, wpc>>
            BY <1>1 DEF WalReceive
        <3>. QED
            BY <2>2, <3>1, <3>2, WorkerAssumption
    <2>. QED
        BY <2>1, <2>3 DEF TIInv, ReplayTypeOK, IInv
<1>2. CASE ReadHotMiss
    <2>1. IInv'
        BY <1>0, <1>2, NextIInv DEF ReadHotMiss, Next
    <2>. QED
        BY <1>2, <2>1 DEF ReadHotMiss, workerVars, TIInv, ReplayTypeOK, IInv
<1>3. CASE WorkerEnter
    <2>1. IInv'
        BY <1>0, <1>3, KeepIInv DEF WorkerEnter
    <2>2. budget \in Int
        BY <1>0 DEF TypeOK
    <2>. QED
        BY <1>3, <2>1, <2>2 DEF WorkerEnter, TIInv, ReplayTypeOK, IInv
<1>4. CASE WorkerReached \/ WorkerReadNull
    <2>1. IInv'
        BY <1>0, <1>4, KeepIInv DEF WorkerReached, WorkerReadNull
    <2>. QED
        BY <1>4, <2>1 DEF WorkerReached, WorkerReadNull, TIInv, ReplayTypeOK, IInv
<1>5. CASE WorkerApply
    <2>1. IInv'
        BY <1>0, <1>5, RecordIngestIInv DEF WorkerApply, Counters
    <2>. QED
        BY <1>5, <2>1 DEF WorkerApply, TIInv, ReplayTypeOK, IInv
<1>6. CASE AsrStep /\ UNCHANGED workerVars
    <2>1. IInv'
        BY <1>0, <1>6, AsrStepIsNext, NextIInv
    <2>. QED
        BY <1>6, <2>1 DEF workerVars, TIInv, ReplayTypeOK, IInv
<1>7. CASE UNCHANGED allVars
    <2>1. IInv'
        BY <1>0, <1>7, KeepIInv DEF allVars
    <2>. QED
        BY <1>7, <2>1 DEF allVars, workerVars, TIInv, ReplayTypeOK, IInv
<1>. QED
    BY <1>1, <1>2, <1>3, <1>4, <1>5, <1>6, <1>7 DEF RNext

\* Every variable of the worker composed with ASR keeps its type, for every
\* stream length and every configuration: the collaborators' unbounded
\* ingest calls wrap the counters, and applied never passes received.
THEOREM ReplayTypeCorrect == RSpec => []ReplayTypeOK
<1>1. RInit => TIInv
    BY RInitTIInv
<1>2. TIInv /\ [RNext]_allVars => TIInv'
    BY RNextTIInv
<1>3. TIInv => ReplayTypeOK
    BY DEF TIInv
<1>. QED
    BY <1>1, <1>2, <1>3, PTL DEF RSpec

-----------------------------------------------------------------------------
(* A call never replays more than the budget it read.                     *)

LEMMA RNextBatch ==
    ASSUME PositiveBounds, TIInv, BudgetPositive, BatchInv, [RNext]_allVars
    PROVE  (BudgetPositive /\ BatchInv)'
<1>0. /\ budget \in Int /\ B \in Int /\ replayed \in Nat
      /\ wpc \in {"idle", "loop"}
    BY DEF TIInv, IInv, TypeOK, ReplayTypeOK
<1>1. CASE WalReceive
    BY <1>1 DEF WalReceive, KeepAsr, BudgetPositive, BatchInv
<1>2. CASE ReadHotMiss
    BY <1>2 DEF ReadHotMiss, ASR_RecordHotMiss, Ingest, workerVars,
                BudgetPositive, BatchInv
<1>3. CASE WorkerEnter
    <2>1. B' = budget /\ replayed' = 0 /\ budget' = budget
        BY <1>3 DEF WorkerEnter, vars
    <2>. QED
        BY <1>0, <2>1 DEF BudgetPositive, BatchInv
<1>4. CASE WorkerReached \/ WorkerReadNull
    <2>1. /\ wpc' = "idle" /\ UNCHANGED <<B, replayed, budget>>
        BY <1>4 DEF WorkerReached, WorkerReadNull, vars
    <2>. QED
        BY <1>0, <2>1 DEF BudgetPositive, BatchInv
<1>5. CASE WorkerApply
    <2>1. /\ wpc = "loop"
          /\ replayed' = replayed + 1
          /\ wpc' = IF replayed + 1 >= B THEN "idle" ELSE "loop"
          /\ UNCHANGED <<B, budget>>
        BY <1>5 DEF WorkerApply, KeepAsr
    <2>2. replayed < B
        BY <2>1 DEF BatchInv
    <2>. QED
        BY <1>0, <2>1, <2>2 DEF BudgetPositive, BatchInv
<1>6. CASE AsrStep /\ UNCHANGED workerVars
    <2>1. BudgetPositive'
        BY <1>6, AsrStepIsNext, NextBudgetPositive DEF TIInv
    <2>. QED
        BY <1>6, <2>1 DEF workerVars, BatchInv
<1>7. CASE UNCHANGED allVars
    BY <1>7 DEF allVars, vars, workerVars, BudgetPositive, BatchInv
<1>. QED
    BY <1>1, <1>2, <1>3, <1>4, <1>5, <1>6, <1>7 DEF RNext

\* Spec 4.4 (iv) for every stream length: when every installable
\* configuration has 1 <= BMIN <= BMAX, an ApplyXlogUntil call replays at
\* most the replay_budget it read on entry, however the controller moves
\* the published budget during the call.  The hypothesis is spec 3's
\* b_min >= 1; a budget of 0 would still let the apply-then-test loop
\* replay one record.
THEOREM BatchAlwaysWithinBudget ==
    ASSUME PositiveBounds
    PROVE  RSpec => []BatchWithinBudget
<1>1. RInit => TIInv /\ BudgetPositive /\ BatchInv
    BY RInitTIInv DEF RInit, Init, BudgetPositive, BatchInv
<1>2. TIInv /\ BudgetPositive /\ BatchInv /\ [RNext]_allVars
        => (TIInv /\ BudgetPositive /\ BatchInv)'
    BY RNextTIInv, RNextBatch
<1>3. BatchInv => BatchWithinBudget
    BY DEF BatchInv, BatchWithinBudget
<1>. QED
    BY <1>1, <1>2, <1>3, PTL DEF RSpec

\* The abstract variables seen through the refinement mapping.
absVars == <<received, applied>>

\* The initial state of the composition is an initial state of the replay.
LEMMA RInitRefines == RInit => Abs!Init
BY DEF RInit, Abs!Init

\* Every step of the composition: the receiver's flush is Receive, a replayed
\* record is Apply, and every other step (the budget breaks, NULL reads,
\* entries and the ASR steps) leaves received and applied alone.
LEMMA RNextRefines == [RNext]_allVars => [Abs!Next]_absVars
<1> SUFFICES ASSUME [RNext]_allVars PROVE [Abs!Next]_absVars
    OBVIOUS
<1>1. CASE WalReceive
    BY <1>1 DEF WalReceive, Abs!Next, Abs!Receive
<1>2. CASE WorkerApply
    BY <1>2 DEF WorkerApply, Abs!Next, Abs!Apply
<1>3. CASE ReadHotMiss \/ WorkerEnter \/ WorkerReached \/ WorkerReadNull
    BY <1>3 DEF ReadHotMiss, WorkerEnter, WorkerReached, WorkerReadNull,
                workerVars, absVars
<1>4. CASE AsrStep /\ UNCHANGED workerVars
    BY <1>4 DEF workerVars, absVars
<1>5. CASE UNCHANGED allVars
    BY <1>5 DEF allVars, workerVars, absVars
<1>. QED
    BY <1>1, <1>2, <1>3, <1>4, <1>5 DEF RNext

\* The composition implements the abstract replay, for every MaxRecords and
\* every ASR configuration: the redo worker of ApplyXlogUntil, however the budget
\* breaks its loop, replays exactly the flushed records one at a time in
\* LSN order and never a record the receiver has not flushed.
THEOREM ReplaySafetyRefinement == RSpec => Abs!Init /\ [][Abs!Next]_absVars
<1>1. RInit => Abs!Init
    BY RInitRefines
<1>2. [RNext]_allVars => [Abs!Next]_absVars
    BY RNextRefines
<1>. QED
    BY <1>1, <1>2, PTL DEF RSpec
====
