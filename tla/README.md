# A verification project for the Web Alarm control plane

This directory holds TLA+ modules, TLC configurations and TLAPS proofs about
the core of this repository: `src/web_alarm`, the control plane that lets
several agents change files of a workspace under declared operations, restore
points, persistent ownership and recovery decisions, and the run store and chat
turns that the plane shares with the Ultra desktop runtime.

The repository also holds the rest of the Ultra runtime (root-level
`server.py`, `ultra_ui.py`, ...) and large archives (`Alarm/`, `reports/`,
`Документация/`, `Dev-archive/`). The control plane is where several processes
share durable state and must get a physical side effect right across crashes,
so it comes first.

## 1. Inventory

| Component (src/web_alarm) | State it keeps | Operations | What makes it correct |
| --- | --- | --- | --- |
| `mutation_executor.py` (WA4-E) | none of its own | `execute`: begin, drive, admit, acquire, boundary, write, prove, release | one physical effect per decision; a write only under live authority |
| `target_claim_service.py`, `target_claim_store.py` (RC-3) | one claim file per physical target: active claim, history, next generation | acquire, authorize, mutation_boundary, release | one owner; a released basis is finished; an open fate keeps its claim |
| `operation_store.py` | operation records (status, revision, contract) | begin, transition, settle, R-OP reconcile | lifecycle table; DONE only on the exact post-state |
| `reconciliation*.py` (RC-1) | none | collect evidence, decide | decision follows from evidence alone |
| `resolver_service.py`, `resolution_store.py` (RC-2) | accepted, rejected and stale resolutions | apply, freshness, authority | a resolution counts only on its own basis |
| `microtask_gate.py` | none | execution, activation, verification and rollback gates | recovery dispositions speak for the whole microtask |
| `state_machine.py`, R-MT journal in `event_checkpoint_store.py` | microtask status and history | prepare, transition, reaffirm | no stale transition wins; each step is done or abandoned once |
| `manifest_store.py` | restore points | prepare, verify, restore, reconcile | an interrupted preparation resumes or is discarded |
| `recovery_coordinator.py` (RC-6) | settlements | inspect, settle, re-arm | a settlement is completed, never repeated |
| `rollback_service.py`, `rollback_store.py` (RC-4) | rollback sessions, preserved bytes | start, resume, apply | real bytes are proved after a crash; ownership of all targets first |
| `task_store.py`, `closeout.py` | TASK directories, microtask records | create, complete | nothing is left open in a completed TASK |
| `transport_event_store.py`, `transport_event_recovery.py` | hash-chained transport history | append, plan, apply | an acknowledged event is never lost |
| `turn_service.py` | the turn's projection in a run summary | submit, attempt, cancel, get | a cancelled result is discarded; no turn runs twice; no death looks like damage |
| `run_store.py` (Ultra) | the streams of a run, their index, one append intent | append, recover, read | a confirmed record stays; an interrupted append is resolved |
| `context_storage.py` (Ultra) | chats, messages, the workspace writer lock | publish a message, hold the lock | one writer of a workspace; a message is written once |
| `store_lock.py` | OS file locks | acquire with timeout, release | one holder; freed by death |
| projection, reports, views, UI, CLI, launcher, sanitizer | derived or none | read and present | grant nothing |

Components interact through files, under three kinds of inter-process lock:
the TASK operations lock (`OperationStore.task_lock`), the TASK mutation lock
(`TaskStore.mutation_lock`) and one lock per physical target. The boundary takes
them in the order TASK, mutation, target; a rollback takes TASK, then all of its
targets in the order of their hashes. Turns know a single lock, the writer lock
of the workspace. Everything a process learned before it took a lock may be out
of date when it holds it; the code answers with compare-and-set on statuses,
revisions, claim generations, evidence fingerprints and file bytes.

The hard behaviour is there: a request delivered twice, a crash around the
physical write, a recovery decision arriving between the acquisition of a
target and its use, two TASKs that name one file, an activation decided before
a lock, a release or a closeout meeting a late delivery. `PROJECT.json` lists
these as `hazards`, each with the properties that cover it or a note.

## 2. Modules

Six families. Each has its own state, because the real components meet through
files and a common state of all of them would be out of TLC's reach; what one
family leaves to another is named under its abstractions.

    ControlPlane        durable state, locks, workers, Init, TypeOK
      Resolver          evidence, decision, accepted resolutions and their freshness
        TargetClaims    ownership: acquire, release, the boundary compare-and-set
          RecoveryOutcome   settlements, RETRY re-arm, tracked rollbacks
            Lifecycle   the other writers: stage machine, gates, operation API,
                        closeout, foreign edits
              MutationExecution   the executor's steps, crashes, Next, Spec, FairSpec
                MutationSafety    the properties
                  MCMutation      instances for TLC
                  MutationProofs -> OwnershipProofs    TLAPS
    MutationPromise     abstract: targets with one owner at a time; MutationSafety instantiates it

    Preparation         restore point: capture, publish, reconcile, transitions, Spec
      MCPreparation     instance for TLC
      PreparationProofs TLAPS

    RollbackSession     RC-4 sessions: state, accept, prepare, close, the locks
      RollbackApply     apply and release write by write, operations beside it, Spec
        RollbackSafety  the properties; instance of RestorePromise
          MCRollback    instances for TLC
          RollbackProofs -> RollbackRefinement    TLAPS
    RestorePromise      abstract: an exclusive, atomic, truthful restore

    Settlement          RC-6 facts: authority, evidence, aggregated disposition
      RecoveryCoordination  recover: look, lock, prove again, write, complete
        RecoverySystem  stage machine, operations, direct requests, editor, Spec
          RecoverySafety    the properties
            MCRecovery  instances for TLC
            RecoveryProofs  TLAPS

    EventHistory        R-MT journal and R-OP intent events, Spec
      HistorySafety     the properties
        HistoryProofs   TLAPS

    RunStream           append and recovery of one stream of a run
      OfflineTurn       one turn over it: submit, attempt, cancel, deaths, Spec
        TurnSafety      the properties
          TurnProofs    TLAPS

### Mutation (ControlPlane to MutationSafety)

**State and code.** `rec[o]` is the operation record (status, revision, the
bytes its contract bound as pre-state); `file[t]` the physical target;
`active[t]`, `released`, `generation[t]` the claim file; `accepted[o]` the
accepted resolutions with the basis each was decided on (revision, bytes of
every manifest target, restore-point integrity); `settled[o]` the settlement inside
the record, written once, with the status of the microtask it was decided on;
`rollbacks` the tracked rollbacks that ended, and how; `stage[k]`, `open[k]`,
`intact[k]` the microtask, the TASK and the restore point. `pc[w]`, `call[w]`
is one worker's place in `MutationExecutor.execute` and the local variables it
carries across lock releases: the record it read at begin, whether it goes on
as a RETRY, its claim. `writes` and `author` are history variables that no
action reads.

**Atomicity.** One action is one section of the code under its locks. Begin,
admission and acquisition each take and release locks, so each is an action
that is enabled when the locks are free. The boundary holds its locks over
several actions (start, write, prove), because foreign editors, crashes and
restore-point damage happen inside it. `asked` models the one check the code
makes before any lock: an ACTIVE request that verified the restore point may
commit at any later time at which the microtask has the status the request saw.

**Faults.** `Crash` ends a worker anywhere: the process dies, or a storage
error (an event that cannot be appended after the record was written) ends the
request. Durable state stays; locks go. `ApplyFails` is a write that raised.
`LockTimeout` is a lock wait that expired. `ForeignEdit` is an editor that
takes no lock. `RestorePointBreaks` is damage to the captured bytes.

**Left open on purpose.** `SettleRecovery`, `FinishSettlement`, `RearmRetry` and
`RollbackPreflight` may be taken for any operation whose facts, proved under the
locks, allow them, where the code takes them for the one operation recover has
picked: a superset of the code's behaviour. Clients of the HTTP API call it in any
order and at any time.

**Recovery beside the executor.** `SettleRecovery` is the two writes of a settlement,
the operation record and the microtask; a death may fall between them
(`FinishSettlement` completes it), and the claim is released later by RC-3. `Restore`
stands for a whole rollback session: from the first claim, which takes over the
claim of the source operation, to its end, VERIFIED with every target restored and
proved or CLOSED with any part of them restored, it owns all targets, and it is
one step here. The interleavings inside it are the rollback family's subject;
`AllOrNothing` and `ImplementsPromise` there justify it. What is left of a session
is that it ended, so the gates and settlements that look at it can.

**Abstractions.** One microtask per TASK, its restore point already captured.
Contents are model values. What a target should become is exact for an operation's
own one, and for an entry of the restore point that says it is to be deleted
(`Deletions`, which the code reads out of the entry's text); of any other entry the
code can say only that it changed. So ADOPT and a RETRY of what has STARTED need a
manifest of such entries: one target in `mut_retry`, a rewritten and a deleted one
in `mut_pair`. Rejected and stale resolutions grant nothing and are left out, with
one exception: an unsettled operation shows its *latest* outcome when nothing fresh
was accepted, so a rejected request hides a rollback that ended. `OpenRecovery`, and
`Stale` in the recovery family, therefore never count on such a rollback to hold the
verification gate or the closeout. The code also refuses an action on a basis once
it is recorded as stale, so the model accepts more than the code. The claim's audit list of authorizations, contract-text comparison,
payload integrity and contract v1 are left out. The boundary's three locks are
taken in one step; the order of single locks is modelled in the rollback family.

### Preparation

**State and code.** One microtask and its targets: `stage`, `file`; `staged` the
unpublished stage directory and `point` the published `restore_point`, each with
the entries captured so far; `seals` whether the manifest says VERIFIED and the
snapshots are undamaged; `lock` the preparation lock, `life` the mutation lock
while it spans two writes. `pc`, `job`, `basis`, `read` are one call of
`prepare_microtask`, `reconcile_interrupted_preparation` or `transition`, with
the status it decided on. A caller in `Cli` is the command line, which prepares
without stating a basis.

**Atomicity.** Every read of a target, every durable write and every verification
is one action, and `Die` may follow any of them. A request reads the status
before any lock (`AskPrepare`, `AskTransition`) and writes it later by
compare-and-set. Each status write may also fail, as a lock of the TASK is not
free in time or the disk refuses; the alternative is what the code does then.
`Mutate` is any tracked mutation of the ACTIVE microtask, `ForeignEdit` an editor
between any two steps of a capture, `Damage` a snapshot that rots.

**Abstractions.** One leftover stage at a time: a stage that could not be removed
is read by nobody. The order of the targets is free. The journal around a
transition is the history family's, the gates of the previous microtask and of
ACTIVE are the mutation family's. What this family proves of a restore point is
what the others start from: an ACTIVE microtask with its pre-state captured.

### Rollback (RollbackSession to RollbackSafety)

**State and code.** `status`, `part`, `kept`, `known`, `freed` are the session
record of `rollback_store.py`: its status, the status and the preserved bytes of
each target, whether it names its claims, `claims_released`. `claim[t]` is the
claim file with its owner and the basis it is bound to; `fate[o]` what is
recorded of an operation; `basis[r]` the evidence the ROLLBACK was accepted on.
`pc[r]`, `call[r]`, `plan` are one call of prepare, apply or close.

**Atomicity.** Every durable write is one action: the session record, each claim
file, each target file, each release. The locks are taken one at a time, the
TASK lock first and then the targets in hash order, which the numbering of the
targets stands for. A `Crash` may follow any of them; a resumed call starts from
the record alone. Operations of any TASK claim, execute and release beside the
sessions (`OpClaim`, `OpExecute`, `OpRelease`, `OpRecord`), without the stage
and settlement gates of the other families, so more may happen here than there.

**Abstractions.** One session per accepted ROLLBACK. The manifest's other
entries are expected to be deleted or unchanged, which is what decides whether
RC-1 may answer ROLLBACK. Preserved bytes, receipts and hashes are the bytes.

### Recovery (Settlement to RecoverySafety)

**State and code.** One microtask: `stage`, `executed`, its operations `op[o]`,
their accepted resolutions, the settlement `settled[o]` inside the record, the
claims, the state `session[o][i]` of the rollback each resolution may have, and
`process`, the place of each recover call. `Recovery(o)` is the projected
recovery of an operation and `OfAction` the step it asks for.

**Atomicity.** `recover` looks without a lock (`Look`), then takes its locks and
proves the step again (`Act`). A settlement is three writes: the operation
record, the microtask, the release of the claim; a death may fall between them
and the next call completes it.

**Abstractions.** The RC-4 calls are one step each (the rollback family has
their writes), and a session that ended PARTIAL or FAILED is not told apart from
one that can be closed. The projection is read at one instant; the code reads
several files and proves the step under the locks afterwards, which the model
keeps. Rejected requests are not recorded; what they change is said above. An
operation recorded FAILED whose ROLLBACK was performed refuses settlement as in the
code. An operation in INTENT gives its claim up freely.
`rec_all` runs one recover call beside agents and direct requests. The status an
agent records there is STARTED (`PairDriven`); FAILED in its place reaches four million states,
with the same result.

### Event history (EventHistory, HistorySafety)

**State and code.** `micro` is the microtask record (status, updated_at);
`intents` the journal of transition intents with the events that close them;
`torn` an unterminated last line; `record` and `log` an operation record and its
events. A transition is `Read`, then `Enter` (which resolves what an earlier
death left open), `Begin` or `Refused`, `WriteIntent`, `WriteStatus`,
`WriteCommit`, each of them a point of failure. `RecoveryWrite` is the RC-6
status write, which closes open intents first.

**Abstractions.** The gates are a free choice between `Begin` and `Refused`;
operation events are appended under the TASK lock and are atomic with the record
except for the intent event, whose loss is the subject. BLOCKED_PREPARE is
terminal here: what prepare does next is the preparation family's.

### Turns (RunStream, OfflineTurn)

**State and code.** `log` is what the index of the run's stream confirms and
`pending` the append intent with the progress of its append
(`append.pending.json`, stream, index). `state`, `cancelled`, `schema` are the
turn's projection in the run summary; `user`, `assistant` its two messages in
the chat; `writer` the workspace writer lock; `pc[c]` a request in flight.
`attempts` is a history variable that no action reads.

**Atomicity.** Each section of `submit`, `_execute`, `_execute_offline` and
`cancel` under the lock is a sequence of steps, one per durable write, and the
attempt runs between two sections without it. `Dies` ends a caller at any of
these points, `GivesUp` is a lock wait that timed out. `Sound` is everything
`_view` verifies before it answers; what it refuses a client sees as damaged
storage.

**Abstractions.** The text of the request, its references and their digest are
data: the model has one request and no conflicting one. `get` writes nothing.
An in-memory registry shows ATTEMPTING of a dead owner as UNKNOWN; only the
stored state is modelled. The summary is replaced atomically.

A remark on what the model shows and no property claims: cancelling a schema 1
turn whose result is durable but not yet published leaves it UNKNOWN, and the
answer may already be in the chat; a schema 2 turn is settled first.

## 3. Properties

Mutation:

- `TypeOK` — well-typed state; also that revisions never go below zero. Every
  family has one.
- `AuthorityHolds` — between the compare-and-set and the end of the boundary a
  worker is alone on its TASK and target, holds its claim, and its TASK is open,
  ACTIVE and carries no accepted ABORT.
- `EffectAccounted` — an operation that wrote is past INTENT, and keeps its
  target while its fate is open, until an ABORT or ADOPT has spoken or a tracked
  rollback has taken the target over and ended, verified or given up.
- `VerifiedStageSettled` — a VERIFIED microtask has a written operation of open
  fate only if a rollback of it was settled and a RETRY accepted later. The gate
  asks for the fate of unsettled operations only (`microtask_gate.py:463`), so
  this one kind passes; no other can be there, then or later.
- `ClosedTaskOwnsNothing` — a completed TASK owns nothing, and what an operation
  of it has written is VERIFIED, FAILED, or closed by a settled ABORT, which
  leaves the record at DONE or STARTED (`closeout_blockers` skips the status then).
- `ReleasedBasisNeverReowned` — a released (operation, revision) is finished.
- `NoBlindRepeat` — a second physical write needs an accepted RETRY of the
  present revision that saw the pre-state.
- `NoLostUpdate` — bytes of a tracked mutation are replaced only by one that
  observed exactly those bytes.
- `ImplementsPromise` — refinement of `MutationPromise`: a client that knows nothing of
  workers, locks, revisions and retries sees targets with one owner at a time, whose
  bytes go from declared to announced or are put back, operations that are DONE only of
  bytes that are there and that keep a target while their fate is undecided unless they
  are undone, and TASKs that change nothing once halted and have nothing once closed.
- `RequestsTerminate`, `LocksReturned` — liveness.

Preparation:

- `OriginalKept` — a microtask past its preparation has a complete restore point
  of bytes it has not written itself.
- `RunningUntouched` — a running preparation keeps its stage directory and, for a
  request to the server, the status PREPARING, whatever recover, repeats and
  transitions do.

Rollback:

- `AllOrNothing` — a session that may change bytes owns all of its targets.
- `VerifiedStands` — what a VERIFIED session still owns is as the restore point
  has it, unless an outsider wrote.
- `NothingUnpreservedLost` — only preserved bytes are overwritten, also when an
  interrupted write is resumed.
- `OwnershipEndsByOwner` — nobody is evicted but by a rollback of the very
  operation.
- `RestoresEnd` — a started restore ends, in spite of deaths and a second session.
- `ImplementsPromise` — refinement of `RestorePromise`.

Recovery:

- `NeverLifted` — a settled ABORT or ROLLBACK keeps the stage at the manual
  boundary.
- `VerificationRespectsRecovery` — when a stage is verified, none of its operations
  is aborted or has an open session, and one of open fate or with a settled ROLLBACK
  had a RETRY accepted later than that ROLLBACK. It does *not* say that nothing open
  or undone is verified: that RETRY need not have run to its end, which
  `OpenFateNeverVerified` shows, and a rollback that ended without being settled is
  no obstacle once a later request was rejected.
- `NeverExecutedNeverRestored` — bytes are restored only for a stage that was
  ACTIVE and is not verified.
- `NoRestoreAfterSettlement` — a settlement is final.
- `HalfDoneCompletable` — a half-written settlement can always be completed.

History:

- `HistoryTellsTruth`, `OperatorOnlyIfBlocked`, `EvidenceDurable`,
  `IntentEventOnce`, and the liveness property `IntentsClose`.

Turns:

- `RunsOnce` — one attempt, however often the request is repeated.
- `CancelIsFinal` — nothing is decided or published after a recorded cancel.
- `NoFalseDamage` — no death leaves a state that the reader refuses as damage.
- `ConfirmedStays` — a confirmed record is never cut off.
- `InterruptedIsRepaired` — with repeats of the request, acceptance completes and
  an interrupted append is resolved.

`NoLostUpdate` speaks of tracked mutations only. An outside editor may still
lose a change made between the compare-and-set and a replacing write: the code
does not, and cannot, exclude it (a create is exclusive, a replace is not).
`NoBlindRepeat` does not bound how often one RETRY is used: freshness compares
content, so bytes that return to the basis make it authority again.

## 4. Runs

| Run | Instance | Question |
| --- | --- | --- |
| `mut_rival` | two TASKs, one file, write against delete, two workers, one crash, one restore point may break, no decisions | do target lock and claim suffice alone; is a released basis finished |
| `mut_pair` | one TASK, a rewrite and a delete of two files, one worker, two decisions on the rewrite and none on the delete, settlements and rollbacks, API lifecycle of the delete, one crash | does a sibling's disposition close the boundary; what may a verified stage and a completed TASK hold; do they implement single ownership |
| `mut_retry` | one write, two workers, one crash, one outside edit, two resolutions, settlements and rollbacks, fairness | is every repeat decided; do requests end and locks return |
| `prep_all` | three callers (two to the server, one command line), two targets, one of them missing, one edit, two deaths, failed captures or damages | is the original kept; is a running preparation left alone |
| `rb_crash` | one session over three targets, two deaths, an outside edit, a failing disk, a damaged restore point, an ABORT | is ownership whole, VERIFIED true, nothing lost |
| `rb_rival` | two TASKs and two sessions over two targets, two deaths, one lock timeout, fairness | does the session implement the atomic restore, and end |
| `rb_close` | one session, one death | violation: a CLOSED session that owns a target |
| `rec_all` | two operations, two resolutions of one of them, one death, an edit, direct requests, stages reported DONE or failed | are settlements final, completable and respected |
| `rec_verify` | the same without deaths | violation: a stage verified over an open fate |
| `rec_abort` | one operation, one ABORT, fairness | violation: an ABORT that never settles |
| `hist_all` | two transition calls, four intents, one recovery write, two faults, one operation, fairness | does the history tell the truth and repair itself |
| `turn_all` | one turn of either schema, two callers, three deaths or timeouts, fairness | one attempt, final cancel, no false damage, repair |

Bounds, all named constants. `MaxResolutions` (per operation), `MaxForeignEdits`, `MaxCrashes`,
`MaxTimeouts`, `MaxEdits`, `MaxPreparations`, `MaxSteps`, `MaxRecoveries`, `MaxFaults` count
events; `Breakable`, `Driven`, `Abortable`, `FailingWrites`, `Direct`,
`Reported`, `Once`, `Edits` say which of them may happen to what. Two workers
(sessions, callers, steppers) and two operations are the smallest instances with
every pairwise race; two resolutions let one be superseded or repeated; two
deaths reach a repair that dies itself, three in a turn also a death after that
repair. Three targets are a rewritten one, a created one and one that is to stay
as it is. Revisions, generations and physical writes need no bound: the
lifecycle table and the resolutions limit them. Workers are symmetric, and
`mut_rival` and `prep_all`, which check no liveness, use that. `CHECK_DEADLOCK FALSE`
everywhere: a system in which every TASK is completed, every session closed or
every turn answered rightly stops.

Each property of each passing run has a mutant in `PROJECT.json`: a definition
with a plausible bug (a dropped lock, gate, revision or owner check, a swapped
order) under which the run finds the property violated. The mutated forms stand
beside the originals.

**Fairness.** In every family a step of a running call is weakly fair, because
it waits for nothing but a lock and a lock wait ends by itself
(`InterProcessLock.acquire`, 10 s by default; the writer lock of the workspace
the same way). Agents, editors and faults are under no fairness, and neither
are requests, except as follows.

- *Mutation*: weak fairness of each worker's own step and of nothing else. A
  DONE operation whose release failed keeps its claim until somebody redelivers
  it or calls release, so its release is not claimed.
- *Rollback*: a session's steps and the repetition of `apply` and of an
  unfinished release are weakly fair: the coordinator asks for them again as
  long as the session is open. `TakeLock` is strongly fair: a lock is polled,
  and others keep giving it back. So is `Close` of a session that has lost its
  claim, which recover chooses whenever the TASK lock is free.
- *Recovery*: `Look` and `Act` are weakly fair, that is, recover is called again
  while it asks for a step, and a preparation ends.
- *History*: a running transition goes on, and recover is called while it
  reports an interrupted journal entry (`ReconcileHistory`).
- *Turns*: a caller with the lock goes on; one that waits for it gets it at last
  (strong fairness of `Execute` and `Publish`); the client repeats its request
  with the same key (`Submit`), as the answer of the service tells it to.
  Nobody has to cancel.

## 5. Findings

Three runs show a disagreement between the code and what it says of itself.

- `rb_close`: `close` releases the targets whose claim the record names.
  Acquisition writes each claim file before the record names it, so an apply
  that dies in between and is then closed leaves a CLOSED session that owns a
  target (`rollback_service.py:693`; `rollback_store.py:11` says "claims
  released").
- `rec_verify`: the verification gate looks at the fate of operations without a
  settlement only, and skips a stale resolution as advice. STARTED, rolled back,
  settled, re-armed by a RETRY that an outside edit made stale: the operation is
  STARTED again and its stage becomes VERIFIED (`microtask_gate.py:463`, against
  the docstring at `:447`).
- `rec_abort`: a settlement compares the operation's revision with the one the
  resolution was decided on, for ABORT as well. An operation that goes on to
  DONE or VERIFIED after its ABORT was accepted is never settled
  (`operation_store.py:914`, against `:945`).

A fourth observation has no run of its own: the journal *can* become
contradictory, when a transition dies after its intent and another call finds
the restore point broken and blocks the microtask without a journal entry. The
docstrings (`recovery_coordinator.py:306`, `state_machine.py:323`) say it
resolves from durable facts alone; `OperatorOnlyIfBlocked` states exactly this
exception.

## 6. Proofs

### Mutation

For every number of TASKs, operations, targets and workers, from
`ConstantsAssumption` alone, TLAPS proves as theorems of `Spec`: every
invariant of the family, both action properties and the refinement. Three arguments
carry them.

*Interference freedom (`MutationProofs`).* `AuthorityHolds` is not inductive:
it does not say why nobody else can move the stage or the claim. `BoundaryInv`
adds that a worker in a boundary holds its three locks (`Holding`), keeps what
the compare-and-set established (`Authority`), finds its operation where it
left it (`Standing`: STARTED once it may write, the target's bytes the observed
ones or an outsider's), and that only an operation found STARTED is driven as a
RETRY. For each other action the proof shows that it needs a free lock which
the worker holds, or leaves alone everything the invariant reads of that worker
(`Untouched`). A foreign edit takes no lock; it clears `author`, which is why
the invariant speaks of it.

*Ownership over time (`OwnershipProofs`).* `BasisInv` adds that a claim belongs
to an operation that names its target, at a revision its record has reached,
and that released revisions lie below the one owned now; from it a released
basis stays finished. `EffectAccounted` is inductive beside `BoundaryInv`: a write happens
only in a boundary, so the writer owns its target, a claim of an operation with an
open fate is given up only by `Releasable` or taken by a restore, and what a
restore undid stays undone until the operation writes again (`UndoneStays`).
The gates are evaluated under the same locks that every later writer must take.
`ClosedInv`, the inductive form of `ClosedTaskOwnsNothing`, says that each record of
a completed TASK is final or its ABORT was settled. `VerifiedStageSettled` rests on
`SettledInv`, what a settlement leaves behind (ADOPT a VERIFIED record, ABORT a halted
TASK): so the only settlement under which the gate can pass over an open fate is
that of a ROLLBACK, silent because of a later RETRY, and that stays so
(`OvertakenStays`). `NoBlindRepeat` needs `DecidedInv`, that a worker in a boundary
with an operation past INTENT has an accepted RETRY of the present revision
behind it, and `RetrySawPreState`, that such a decision is only taken on the
restore point's bytes.

*Refinement (end of `OwnershipProofs`).* `StepKinds` sorts the steps of `Next` by what
a client can see of them: eleven kinds, the last of which is nothing. Each kind has a
lemma (`...Shown`) that names the step of `MutationPromise` it is. A grant to the
operation that has the target already (a new revision after a RETRY) and an accepted
RETRY or ROLLBACK are invisible; a settled ADOPT is seen as a step to verified, any
other settlement not at all, and a rollback that ends as `Undo`. The mapping reads the holder from the active claim,
the fate from the status (STARTED and UNKNOWN are one fate: begun), the decisions from
the accepted ABORTs and ADOPTs. It needs `TypeOK`, `BoundaryInv` (a write is the
owner's, of a begun operation, from the bytes it declared, in a TASK that is neither
halted nor closed), `ClosedInv` (a closed TASK declares nothing a claim could be
granted on) and `RollbackSound` (a ROLLBACK was decided for an operation that has
begun, on its own bytes or the original ones), which itself needs of `BasisInv` that
an undeclared operation has no revision yet. `mut_pair` checks the refinement within one TASK, with decisions,
settlements and rollbacks; for TASKs that name one file, `mut_rival` checks
`AuthorityHolds` with two workers, and the theorem covers the refinement.

`TypeCorrect` is the base of all of them. The proofs have one step per action of
`Next`.

### Preparation

For any number of callers, targets, edits and faults, from `PreparationAssumption`
alone: type correctness, `OriginalKept`, `RunningUntouched`, and that a published
restore point is never replaced or taken away (`PointStays`). Neither invariant is
inductive. `IInv` adds who holds the two locks at which place (`Locks`); what a
transition or a block decided on, so that one that was decided on PREPARING is a
lock holder's (`Bases`); that between the first check and publication there is no
restore point, and between the first stage and publication a stage
(`Directories`); and the crux (`Originals`): the microtask's own bytes are in a
file only once a restore point is there, so nothing captured before, or still
being captured, can be its own work.

### Rollback

For every number of targets, sessions, operations and TASKs, with any manifests
that overlap in any way, from `RollbackAssumption` alone. Beside type correctness,
`AllOrNothing`, `VerifiedStands`, `NothingUnpreservedLost` and
`OwnershipEndsByOwner` (`RollbackProofs`) rest on `IInv`, which says of each session: from its first compare-and-set it holds the locks of all its
targets (`LocksHeld`); while it acquires, every target is free, its source
operation's or its own (`Claimable`); while it restores it owns them all
(`OwnsAll`); outside a write no target is APPLYING (`Quiet`), inside one
exactly one is and its bytes are the preserved ones (`OneInFlight`); what was
proved stays true until the result is stored (`Proven`); and no call works on a
VERIFIED session (`Running`, `Stands`). None of the four properties is inductive
without it: each compares a record with bytes or claims that others may write,
and only the locks say that they do not. A step of another session, of an
operation or of an editor disturbs a session only through what no lock protects
(`OthersTouch`), which one lemma settles for all of them.

`ImplementsPromise` (`RollbackRefinement`) needs in addition, for each session
(`RInv`): claims lie within its targets (`ClaimsWithin`), the record names its
claims from AUTHORIZED on (`Named`), the place of a call bounds the status of
the record (`Placed`), a proof that stops has a drifted or failed target
(`Stopped`), and a proof about to become VERIFIED owns everything at the restore
state (`Proved`). The mapping: the abstract outcome is read from the session
status; the holder of a target is the session that owns it *and* is recorded to
own it, so that the claims an interrupted acquisition left behind are invisible
until the durable AUTHORIZED takes all of them at once; a tampered target is one
an outsider wrote last.

### Recovery

For any operations, targets, recover calls, resolutions and bounds, from
`SettlementAssumption` alone (`RecoveryProofs`): every safety property of the
family. None of them is inductive, since each speaks of a projection (authority,
voice, next step) of facts that others go on writing. `IInv` adds what those facts
keep:

- a resolution was accepted on a revision its operation has or had
  (`AcceptedOnRevision`), and a settlement repeats the resolution it carries out and
  outdates every ROLLBACK of its operation (`SettledByResolution`): settling raises
  the revision, and afterwards no new ROLLBACK is admitted. A restore needs a fresh
  ROLLBACK with a PREPARED session (`SessionsOfRollbacks`), so a settlement is final
  (`SettlementsAreFinal`);
- what a recover call decided under no lock stays a step of an accepted resolution,
  and between its first and its second write the settlement is there (`JobFits`);
- a microtask that never was ACTIVE has nothing settled, or a settlement that
  remembers it (`BegunOrKnown`): RECOVERY_REQUIRED alone proves no execution, and
  `OnlyExecutedIsRestored` rests on that memory;
- before ACTIVE only an ABORT settles anything (`AbortedBeforeBegun`), because the
  targets of ADOPT and ROLLBACK cannot be reached from there; so a half-written
  destructive settlement finds a stage it may leave (`HalfDoneCanBeFinished`).

`DispositionHolds` and `VerifiedOnlyWhenRecovered` go over the writers of the stage
(`StageWritten`). The second shows for each of the three reasons the gate accepts
(nothing asked for, stale advice, an accepted effect) that no abort, open session,
unsettled open fate or speaking ROLLBACK hides behind it. What may hide there is a
settled ROLLBACK that is silent, and that takes a later RETRY (`SilentMeansRetried`,
from `AuthoritySpeaks`); no other settlement leaves a fate open, because an adopted
record is VERIFIED and stays so (`AdoptedVerified`). Authority is the latest of a set of resolutions;
that it exists and is one of them is `LatestIsOne`, from the well-foundedness of the
naturals.

The order of the last activities is a relation, `recent`: the pairs of operations of
which the second was active later. It says the same as a list of the operations by
last activity, and can be reasoned about without recursion.

### History

For any number of transition calls, operations, steps and faults, from
`HistoryAssumption` alone (`HistoryProofs`): type correctness,
`HistoryTellsTruth`, `OperatorOnlyIfBlocked`, `EvidenceDurable` and
`IntentEventOnce`, and that no entry and no closure is ever changed or taken away
(`JournalOnlyGrows`). The argument: a step in flight is the last entry
(`EntriesOK`), and the record is on that entry's basis before its write and at its
target after it (`InFlight`), since whoever else writes the record closes the
journal first or blocks the stage (`OpenDecided`). So what a later call reads off
the record is what happened. For operations, `EventsOK` relates the record to the
number of its intent events and to what is recorded after them; `VerifiedByStep` is
the evidence before anybody asks for it.

### Turns

For any number of callers, deaths and timeouts, from `TurnAssumption` alone
(`TurnProofs`): `TypeOK`, `RunsOnce`, `CancelIsFinal`, `ConfirmedStays` and
`NoFalseDamage`. The invariant: a caller inside a section holds the writer lock
(`LockHeld`); before ATTEMPTING is stored nobody has begun the attempt
(`Unbegun`); one caller at most has begun and not yet run it (`OneBegun`); what a
caller has read of the turn is still so at its place (`Standing`); a cancelled turn
is CANCELLED or UNKNOWN (`CancelledState`). `RunsOnce` alone is not inductive, as
it says nothing of a second caller that is about to run.

`NoFalseDamage` needs `StoryInv`. `Story` says which stream each stored state may
have: a turn's state is written after the event that justifies it and before the
next. `PendingFits` says the same of a record whose append a death left undecided,
which any later call may finish or undo: both ways must be a story. `OneAttempting`
and `Known` keep the outcome of the running attempt, which is decided outside the
lock, apart from a cancel that arrives meanwhile. Short streams are taken apart
record by record.

Every inductive invariant was checked with TLC on its family's runs before it
was proved. The proofs have one step per action of `Next`, or per group of actions
that write the same variables.

### Only model-checked

The liveness properties `RequestsTerminate`, `LocksReturned`, `RestoresEnd`,
`IntentsClose` and `InterruptedIsRepaired`, which are out of the prover's reach, and
the three properties that are refuted. Every safety property the passing runs check
is a theorem.

## 7. Not modelled, and the plan

In the order in which they would add most:

1. TASK completion: the directory move and the status written after it
   (`task_store.py`), which needs a model of where a record lives and of every
   reader that resolves it;
2. the transport history with its torn tail and offline repair
   (`transport_event_store.py`, `transport_event_recovery.py`);
3. the composite move over `MutationExecution`: a CREATE and a DELETE that share
   one request;
4. the other streams and the usage accounting of the run store.

Left out for good: user interfaces, launchers, CLI, the sanitizer (a pure text
transformation), reports and views (derived documents that grant nothing), the
Ultra tool loop and provider transports (calls to external models), and the
archives. `PROJECT.json` gives the reason component by component. The map covers
the control plane's decisions and durable writes: a small part of a repository
most of whose lines are pages, archived reports, vendored copies and tool code
without shared state.
