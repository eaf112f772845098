---------------------------- MODULE ReplayWorker ----------------------------
(***************************************************************************)
(* The ASR core composed with the collaborators the integration guide      *)
(* lists (src/unnamed/part_000, part_002): the WAL receiver flushes        *)
(* records and calls ASR_RecordWalIngest, the GetPage@LSN handler calls    *)
(* ASR_RecordHotMiss when a page waits on replay, and the redo worker's    *)
(* ApplyXlogUntil reads the budget once on entry, replays records in LSN   *)
(* order, calls ASR_RecordReplayTask(1) for each and stops when            *)
(* records_replayed reaches the budget it read.  The free ingest callers   *)
(* of ASR give way to these three, so the load the controller sees is the  *)
(* replay it governs.  Records are numbered by LSN; a byte count is one    *)
(* unit per record.                                                        *)
(***************************************************************************)
EXTENDS ASR

CONSTANT MaxRecords     \* the length of the WAL stream in a model

ASSUME WorkerAssumption == MaxRecords \in Nat \ {0}

VARIABLES
    received,   \* records the WAL receiver has flushed (their last LSN)
    applied,    \* reader_state->EndRecPtr: records replayed so far
    target,     \* the lsn argument of the ApplyXlogUntil call in progress
    B,          \* replay_budget, read once on entry
    replayed,   \* records_replayed of that call
    wpc         \* the redo worker: "idle" between calls, "loop" inside one

workerVars == <<received, applied, target, B, replayed, wpc>>

allVars == <<vars, workerVars>>

\* The abstract replay the worker is to implement.
Abs == INSTANCE ReplayAbstract WITH flushed <- received, replayedUpTo <- applied

\* An ingest call from a collaborator: the enable test, then the add.
RecordIngest(k, n) ==
    IF config.enable THEN FetchAdd(k, n) ELSE UNCHANGED <<count, pending>>

\* Everything of ASR but the counters stays as it is.
KeepAsr ==
    /\ UNCHANGED <<config, last, queueEwma, missRateEwma, walBpsEwma,
                   aggressiveness, budget, measured, shutdownRequested, tid,
                   ctl, main, starts>>
    /\ UNCHANGED lockVars

RInit ==
    /\ Init
    /\ received = 0 /\ applied = 0
    /\ target = 0 /\ B = 0 /\ replayed = 0
    /\ wpc = "idle"

-----------------------------------------------------------------------------
(* The collaborators' hot paths.                                           *)

\* XLogWalRcvWrite: a segment is written, then ASR_RecordWalIngest(segbytes).
WalReceive ==
    /\ received < MaxRecords
    /\ received' = received + 1
    /\ RecordIngest("wal", 1)
    /\ KeepAsr
    /\ UNCHANGED <<applied, target, B, replayed, wpc>>

\* ReadBufferCommon: a GetPage@LSN whose page still waits on replay calls
\* ASR_RecordHotMiss before it waits.
ReadHotMiss ==
    /\ applied < received
    /\ ASR_RecordHotMiss
    /\ UNCHANGED workerVars

-----------------------------------------------------------------------------
(* The redo worker: ApplyXlogUntil(lsn).                                    *)

\* Entry: replay_budget = ASR_GetCurrentBudget() (under metrics_lock);
\* records_replayed = 0.  The caller asks for an LSN not yet replayed,
\* possibly beyond what the receiver has flushed.
WorkerEnter ==
    /\ wpc = "idle"
    /\ \E lsn \in (applied + 1) .. MaxRecords : target' = lsn
    /\ B' = budget
    /\ replayed' = 0
    /\ wpc' = "loop"
    /\ UNCHANGED vars
    /\ UNCHANGED <<received, applied>>

\* while (reader_state->EndRecPtr < lsn) fails: the call returns.
WorkerReached ==
    /\ wpc = "loop"
    /\ applied >= target
    /\ wpc' = "idle"
    /\ UNCHANGED vars
    /\ UNCHANGED <<received, applied, target, B, replayed>>

\* XLogReadRecord returns NULL at the end of the flushed WAL: break.
WorkerReadNull ==
    /\ wpc = "loop"
    /\ applied < target
    /\ applied = received
    /\ wpc' = "idle"
    /\ UNCHANGED vars
    /\ UNCHANGED <<received, applied, target, B, replayed>>

\* Mutant: the budget test written with > instead of >=.
WorkerApplyPastBudget ==
    /\ wpc = "loop"
    /\ applied < target
    /\ applied < received
    /\ applied' = applied + 1
    /\ replayed' = replayed + 1
    /\ RecordIngest("tasks", 1)
    /\ KeepAsr
    /\ wpc' = IF replayed + 1 > B THEN "idle" ELSE "loop"
    /\ UNCHANGED <<received, target, B>>

\* Mutant: the record == NULL test dropped.
WorkerApplyNoNullCheck ==
    /\ wpc = "loop"
    /\ applied < target
    /\ applied' = applied + 1
    /\ replayed' = replayed + 1
    /\ RecordIngest("tasks", 1)
    /\ KeepAsr
    /\ wpc' = IF replayed + 1 >= B THEN "idle" ELSE "loop"
    /\ UNCHANGED <<received, target, B>>

\* One iteration that reads a record: rm_redo applies it, records_replayed++,
\* ASR_RecordReplayTask(1), and break once records_replayed >= replay_budget.
WorkerApply ==
    /\ wpc = "loop"
    /\ applied < target
    /\ applied < received
    /\ applied' = applied + 1
    /\ replayed' = replayed + 1
    /\ RecordIngest("tasks", 1)
    /\ KeepAsr
    /\ wpc' = IF replayed + 1 >= B THEN "idle" ELSE "loop"
    /\ UNCHANGED <<received, target, B>>

-----------------------------------------------------------------------------
(* The composition.                                                        *)

\* The ASR steps that are not ingest calls: controller, lifecycle, config.
AsrStep ==
    \/ \E t \in Threads : CtlCheck(t) \/ CtlTick(t)
    \/ ASR_Init
    \/ ASR_StartController
    \/ ASR_Shutdown
    \/ JoinController
    \/ ASR_GetConfig
    \/ \E c \in Configs : ASR_UpdateConfig(c)
    \/ ConfigWriteLocked

RNext ==
    \/ WalReceive
    \/ ReadHotMiss
    \/ WorkerEnter
    \/ WorkerReached
    \/ WorkerReadNull
    \/ WorkerApply
    \/ AsrStep /\ UNCHANGED workerVars

RSpec == RInit /\ [][RNext]_allVars

-----------------------------------------------------------------------------
(* Properties.                                                             *)

\* The variables of the composition, ASR's included, range over their types.
ReplayTypeOK ==
    /\ TypeOK
    /\ received \in 0 .. MaxRecords
    /\ applied \in 0 .. received
    /\ target \in 0 .. MaxRecords
    /\ B \in Int
    /\ replayed \in Nat
    /\ wpc \in {"idle", "loop"}

\* Spec 4.4 (iv): an ApplyXlogUntil call never replays more records than
\* the replay_budget it read on entry, however the controller moves the
\* published budget during the call.
BatchWithinBudget == replayed <= B

=============================================================================
