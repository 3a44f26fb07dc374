# Verification of the ScoreMosaic platform

ScoreMosaic turns a scanned score into MusicXML. A gateway accepts an upload,
plans one run per recognition engine, and drives each run through durable
states to one dispatch over a private network. Each engine service receives
the plan, the dispatch, the source and an execution trigger, and starts its
recognition program once. What the engines made is ingested, compared without
choosing a winner, corrected by teachers revision by revision, approved and
handed over for publication.

The models follow that way from the external call to the publication request.
The deepest are those whose failures cost most and show least in tests: the
durable run protocol of the gateway, the engine receiver, and the proposals of
a teacher review, with processes and threads that interleave, crashes, lost
answers and power failures. TLC checks small instances; TLAPS proves the main
results of these for all.

- [Inventory](#inventory)
- [Modules](#modules)
- [How the models abstract](#how-the-models-abstract)
- [Runs](#runs)
- [Fairness](#fairness)
- [What is proved](#what-is-proved)
- [What the checks found](#what-the-checks-found)
- [What is not modelled](#what-is-not-modelled)
- [Plan](#plan)
- [Running it](#running-it)

## Inventory

Paths are relative to `src/services/`; `G` is `omr-gateway/src/scoremosaic_gateway`,
`E` is `audiveris-service/src/scoremosaic_audiveris` (the receiver files of the
homr and clarity services are the same, byte for byte), `T` is
`teacher-review-service/src/scoremosaic_teacher_review`.

| Component | State | Operations | What is hard | What makes it correct |
|---|---|---|---|---|
| Durable job state, D.1 (`G/durable_job_state.py`) | a snapshot per run: state, revision | build, transition | two hand-kept tables must agree | a revision is decided once; no reachable position is stuck |
| Idempotency ledger, D.2 (`G/durable_idempotency.py`) | a frozen list of decisions | apply | stale or restored snapshots | the ledger stays valid; two callers never hear different outcomes |
| Staging provider (`G/minimum_staging_vertical_slice.py`) | create-once files, a lock file per job, the stored source | reserve, finalize, write the source, persist and read the lifecycle record | a check before and after each link, roll-back, sync, killed holders | what was reported stays; a roll-back takes nothing others built on |
| Staging transitions (`G/controlled_staging_*.py`) | sealed records: planned(0), plan, queued(1), intent, cancelled(2) or dispatching(2) | write or replay each, recover each | races for one revision; checks in two critical sections | one winner per revision; records form a chain; the plan precedes transitions |
| Private messages (`G/controlled_private_*.py`) | claim files; result objects held by callers | provision + dispatch, deliver the source, execute | claims without the lock, lost answers, restarts | each message at most once, in order, never before its record is durable |
| Preflights, replay reservation, wire; credentials (`G/authenticated_*.py`, `G/credential_rotation.py`, ...) | create-once replay records, generations | sign, preflight, reserve, accept | a request read, delayed, copied or relabelled while generations rotate and reservations expire | a request is accepted at most once |
| Deadline policy (`G/dispatch_deadline_lifecycle.py`) | a decision per dispatch | evaluate, cancel, take a result | cancellation, deadline and result race | a dispatch ends once |
| Artifacts and provenance, D.3/D.4; restart recovery, D.5 (`G/artifact_lifecycle.py`, `G/durable_*.py`) | ledger, lifecycle, manifest, provenance: append-only values | transition, bind, append, evaluate | each is saved on its own; which mixtures a crash can leave | one content per artifact; what is preserved is whole |
| Result ingestion and handoff (`G/engine_result_ingestion.py`, `G/candidate_handoff.py`) | three artifacts and a sealed record per candidate | ingest, persist, load, hand over | partial persistence, several deliveries at once | a record seals exactly what lies beside it |
| External boundary, upload and intake (`G/external_*.py`, `G/safe_*.py`) | rate slots, idempotency slots, sessions, finalizations, sources | authenticate, authorize, admit, reserve, inspect, finalize, bind | lost answers and retries at each store, lifetimes | at most one source per key |
| Engine receiver (`E`) | plan, nonce, acceptance, source, claim, workspace files | accept the four requests, execute | threads, repeated and reordered requests, restarts, rotation | the engine starts once per run, on what the gateway was told is there; one plan per job |
| Engine runtimes (`E/runtime.py`, `candidate_safety.py`, and those of homr and clarity) | a tree of processes and its files | probe, run, validate, read | timeouts of a tree, files rewritten between two reads | the result is what was validated; a tree that timed out is dead |
| Ensemble comparison (`ensemble-service/.../comparator.py`, `convergence.py`, `admission.py`) | none that lasts | admit, compare, converge | candidates of different shape | every disagreement is shown, and nothing else |
| Teacher review, revisions (`T/api_harness.py`, `write_boundary.py`, `durable_revision_store.py`) | a revision chain in SQLite, a ledger of keys, reservations | propose, submit, append | concurrent editors, failures around the commit | one chain; an answer is true |
| Teacher review, approval and publication (`T/approval_*.py`, `publication_*.py`) | documents and grants built one from another | evidence, handoff, record, request | revisions that go on meanwhile | what is published was approved as it is |
| Teacher review, score and navigation (`T/musical_state.py`, `corrected_musicxml.py`, `review_transport.py`, ...) | a score, plans and cursors | read, edit, validate, export; plan, move | edits in any order, old plans | an export reads back as the score; a cursor stands in its score |
| Orchestration plan, ST-OMR, prototypes, scripts, evaluation metrics | none that lasts | plan, score, report | none of the above | functions of frozen inputs |

The gateway's operations interact through the files of a job. Those that write
take the job lock; recoveries read under it; claims and the plan resolver do
not take it. Gateway and engine interact through four HTTP requests only, and
share no file. The handoff to the ensemble and the records of the teacher
review are values passed by a caller, which the receiving side checks again.

## Modules

| Module | What it is |
|---|---|
| `DurableJobState` | D.1: the graph, the revision table, the transition |
| `IdempotentLedger` | D.2: any number of callers against one ledger; implements `DurableJobState` |
| `DispatchPromise` | abstract: a run follows the graph, and its four messages leave at most once, in order, while it stands at dispatching |
| `GatewayRun` | the staging operations and the three senders over the files of a job; implements `DispatchPromise` |
| `EngineReceiver` | the four handlers of an engine service over its files |
| `EngineAuthentication` | the same four requests with credentials, generations and clocks: which plan and which generation an engine goes by |
| `DispatchProof` | signing, preflight under the job's lock, replay reservation, acceptance, deadline and result of a dispatch |
| `SourceIntake` | from an authenticated external call to the one source of its job |
| `RunEvidence` | ledger, lifecycle, manifest and provenance, each losing a suffix in a crash, and the recovery's decision |
| `CandidateIngestion` | concurrent deliveries that write three artifacts and a record, the coordinator's report, the handoff |
| `EngineRuntime` | the process tree of one transcription, its timeout, the validations and the last read |
| `EnsembleComparison` | admission and comparison of candidates place by place |
| `RevisionChain` | abstract: revisions form one chain, each made from the head its author saw, and a key writes at most one |
| `RevisionApi` | proposals and direct commands down to the store's transaction; implements `RevisionChain` |
| `ApprovalChain` | the five documents from eligibility to the publication request, over a chain that grows |
| `ReviewScore` | reading, editing, validating and exporting a score |
| `ReviewNavigation` | cursor plans and transport states over the revisions; extends `ReviewScore` |
| `MCGatewayRun`, `MCEngineReceiver` | the symmetry sets of their instances |
| `MCProtocols`, `MCResults` | several machines in one instance, one per behaviour |
| `MCScore` | the documents and texts of the instance of `ReviewScore` and `ReviewNavigation` |
| `JobProofs` | theorems about `DurableJobState`, `SourceIntake` and `DispatchProof` |
| `GatewayProofs`, `EngineReceiverProofs`, `EngineAuthenticationProofs` | theorems about the gateway and the receivers |
| `ResultProofs` | theorems about `IdempotentLedger`, `CandidateIngestion` and `EngineRuntime` |
| `ReviewProofs` | theorems about `RevisionApi` and `ApprovalChain` |
| `ScoreProofs` | theorems about `ReviewScore` and `ReviewNavigation` |
| `ExportProofs` | that `ReviewScore` exports exactly what a document can say |

**GatewayRun and the code.** `disk[f]` is what a reader of record `f` finds,
`stable[f]` what is left of it for certain after a power failure; a record is
`absent`, `present`, or, at revision 2, `cancelled` or `dispatching`. `lock` is
the flock of `_job_lock`, `source` the outcome of `_source_fd_matches_binding`.
A process `p` walks through `pc[p]`:

| `pc` | Where the code is |
|---|---|
| `first`, `entry` | before the first, the only, or the second `with provider._job_lock(...)` |
| `linking` | in `_atomic_create`, up to `linkat` |
| `published` | linked, before the post-publish check |
| `syncing` | before the `fsync` of the parent directory |
| `leaving` | before the source guard's last check and the release of the lock |
| `provisioning`, `awaitingPlan`, `sending`, `awaiting` | before and after each `_send_once` |

`Lifecycle`, `PersistPlan`, `Queue`, `PersistIntent`, `Cancel`, `Dispatch`,
`Deliver`, `Execute` and the five `Recover...` are the public functions up to
the creation of their record; `Link`, `Replay`, `Refuse`, `Claim`, `Confirm`,
`Rollback`, `SyncDirectory`, `Leave` and the sends are what they share.
`evidence` stands for the result objects that a caller passes from one function
to the next: `deliver` asks for a dispatch result, `execute` for a dispatch and
a delivery result. They do not survive a power failure, but another process may
hold them. `told` and `sent` are history.

**EngineReceiver and the code.** `disk` and `stable` are sets of files.
`serving[t]` is the request of thread `t`, `target[t]` the file it is about to
create or has just found, `created[t]` the boolean that the create-once helper
returned. `Receive` is the handler up to its first write, with all it
requires; one action follows for each create, sync, read-back, and for the
staging, start and end of the engine. A nonce of a dispatch keys a file of its
own; that of a trigger is keyed together with its payload, as in `_replay_key`.
`content[r]` is the source directory: its two files are synced, their entries
are not, so until the first power failure it is `unsettled`.

**RevisionApi and the code.** `chain` is the revision table, `slot` the ledger
of the API harness, `reserved` the reservations of the write boundary, `pc[c]`
the place of a call in `handle_revision_proposal`:

| `pc` | Where the code is |
|---|---|
| `inspect`, `resolve`, `read`, `verify` | the ledger's first look, the resolver, the two reads of `load_history`, `_verify_snapshot` |
| `begin`, `issue` | the ledger's `begin`, the grant and command of the server |
| `load`, `authorize`, `reserve` | the write boundary: the head again, grant and edit, the reserver |
| `append`, `audit` | the store's transaction, the audit event and the ledger's `commit` |

A direct caller of the boundary enters at `load`. Each error is one of those the
code tells apart: a certain one gives the key back, an ambiguous one keeps it.

**The other modules.** `SourceIntake` has a program counter per call, whose
points are the durable steps of `external_admission`, `safe_upload_session`,
`safe_upload_finalization`, `safe_source_job_binding` and the vertical slice;
each step may fail before or after it took effect. `DispatchProof` has one
preflight at a time, since that is done under the job's lock, and a set of
messages that may arrive whenever. `EngineAuthentication` has no program
counter: an engine reads all it compares in one handler, and what the create-once
files add to that is `EngineReceiver`'s. `RunEvidence` saves nothing itself: the
code leaves that to its caller, so a restart finds any prefix of each value that
is not shorter than the one the restart before it read. `CandidateIngestion`
writes with one action per file. `EngineRuntime` lets every process of the tree
act between any two steps of the call. `ApprovalChain` builds a document in two
steps, its checks and its return, so that the chain may grow between them.
`ReviewScore` has the reader, the scan of the validator and the writer as
functions over sequences, and the state is the score alone. The code sorts the
events of a voice, and the points of a plan, by keys of which no two are equal;
`InOrder` says what comes of it by rank: the i-th has i - 1 before it.

## How the models abstract

- **Messages and records** are members of small sets. A record that carries a
  seal is either the one its writer derives or in conflict with it; the digests
  and MACs only decide that, and every writer of a path derives the same bytes
  from the same job, except at revision 2.
- **A request is authentic or refused.** In `GatewayRun` and `EngineReceiver`
  what the signature, time-window and rotation checks refuse changes nothing, so
  only its absence is modelled. The checks themselves are `DispatchProof`'s and
  `EngineAuthentication`'s, where a message is a record of what was signed and a
  MAC is equality of it.
- **Time** is a clock that ticks to a bound in `SourceIntake`, `DispatchProof`
  and `EngineAuthentication`. The constants of the code (ages, skews, lifetimes)
  are constants of the modules, given small values of the same order.
- **Scores** count time in units of which a quarter has `Unit`; staff and voice
  are one name. Pitch, tab, dots and written type are one "look". What the
  exporter and the reader decide by them is kept: whether the look of an event
  can be written (`ExactLook`: an alteration is an exact decimal, as
  `_exact_decimal` wants), as what it is read (`LookRead`: blanks around a text
  are lost in `_text`, a negative octave is refused in `_nonnegative_int`), and
  the same of a voice (`VoiceRead`). A time can be written if the measure has
  divisions in which all its times count (`Countable`), within `MaxDivisions`
  and `MaxUnits`. Left out are the limits on the size of a document (parts,
  measures, events, XML elements, bytes).
- **Refusals** of one kind are one: categories are kept only where a caller
  decides by them.
- **A section that only reads under the lock is one step**, since no writer
  of those records is without the lock. A section that writes is split at every
  point where the process may be killed and others may look.
- **Crash.** A process may end at any point, and so may any call with an I/O
  error: what it linked stays linked, its lock is released. The engine's
  `GiveUp` is the same for a thread.
- **Power failure.** As POSIX and fsync(2) have it: file data is durable once
  the file is synced, a directory entry once its directory is. A link that was
  not synced may or may not survive. All processes end.
- **Bounds.** Create-once files count the messages of `GatewayRun` and
  `EngineReceiver`; the source's answers are capped at one in `answered`,
  because a source may be redelivered for ever. The clocks (`MaxTime`), the
  revisions (`MaxRevisions`, `MaxEdits`), the rotations (`MaxRotations`,
  `MaxGen`), the requests accepted (`MaxAccepted`) and the restarts
  (`MaxCrashes`) have bounds named in their modules. `MaxOutputs`,
  `MaxCandidates`, `MaxDifferences`, `MaxDivisions` and `MaxUnits` are bounds
  of the code.
  `MaxAccepted` is 4, so that a trigger is reached: its engine wants a
  provision, a dispatch and a source accepted before it. An intake session
  lives for a `Ttl` of 2, one more than the `Window` in which a caller makes
  one request, so that a second call of a key finds the session of the first:
  its creation is replayed, a second document is put, a second finalization
  asked for. A score has a `Unit` of 6 and a `MaxDivisions` of 5: halves and
  thirds of a quarter can each be written, and no divisions hold both.
  `MaxUnusual`: at most one pitch, text or voice of a score is out of the
  ordinary at a time, so each refusal is seen to suffice alone.
  The scores that are navigated have none of these and keep their lengths
  (`Even`): a cursor stands by measures and onsets, which no edit of a length
  moves.

## Runs

| Run | Instance | What it shows |
|---|---|---|
| `gateway` | 2 processes, 1 run, 10 operations, crashes | `SentAtMostOnce`, `ToldIsTrue`, `PlanBeforeTransitions`, `TypeOK`, and `PromiseKept`: the gateway implements `DispatchPromise` |
| `gateway_live` | 2 processes, 1 run, 6 operations, source altered, fair | `CallsReturn`; `PromiseKept` and `ChainComplete` with roll-backs |
| `gateway_power` | 2 processes, 1 run, 10 operations with the other recoveries, source altered, power failures | `SentIsRecorded` |
| `gateway_power_winner` | 2 processes, 1 run, power failures, fair | violates `OneWinner` |
| `receiver` | 2 threads, 1 run, 2 nonces, power failures, a gateway that waits | `StartedOnce`, `AnsweredOnce`, `AnsweredIsStable`, `StartIsGrounded` |
| `receiver_any_order` | 2 threads, 2 runs, 1 nonce, power failures, any order | `StartsPrepared` |
| `receiver_source` | as `receiver` | violates `SourceKept` |
| `protocols` | eight machines, see below | `RevisionsDecideOnce`; `AnswerIsTrue`, `ChainPromise`; `JobHasOnePlan`, `AcceptedInItsGeneration`, `RotationIsSeamless`; `OneSourcePerKey`, `RecordsAreFinal`; `AcceptedOnce`, `OneEnd`; `PublicationIsApproved`, `SupersededIsFinal`; `OverlapIsSaid`, `ExportIsExact`; `CursorIsInItsScore` |
| `results` | five machines, see below | `LedgerValid`, `AnswersAgree`, `FollowsTheGraph`; `OneContent`, `PreservedIsWhole`; `OneResultPerRun`, `HandoffIsReported`, `NothingIsReplaced`; `TimedOutTreeIsDead`, `ResultWasValidated`; `DisagreementIsShown` |
| `review_stale` | 2 calls, 1 key | violates `StaleIsSaid` |
| `score_time`, `score_overlap` | the machines of the score, eight documents to edit and two to navigate | violate `MidMeasureOnly` and `OverlapBlocks` |

`protocols` and `results` put machines that share no state into one instance. A
behaviour chooses one of them at the start (`active`) and the others stand
still, so their states add up and do not multiply; each property looks at its
own machine. The machines may share model values: `x1` and `x2` are calls in
one of them, engines or plans in another, and since only one runs, exchanging
the two is a symmetry of the whole. A third call `c3`, where there is one, has
no such double. `protocols` and `results` end in states where every call is
over and every clock has stopped, and do not check for deadlock; neither do
`review_stale` and the two runs of a score, which may lose its last event to an
edit. All others do.

Two processes (or threads) are enough for each race over create-once files:
every one has one creator, and all that a third could add is another loser. A
process can make any number of calls, so long sequences are covered with two.
The runs of a job share its initial record and its plan; that two
of them never break each other's chain is left to the theorem, which holds for
any number. Two nonces are the fewest that let a
run be triggered anew. Proposals and ingestion have three calls, each made
once: one that writes, one that replays it, one that moves the head or delivers
something else. The clocks reach the end of the longest interval of
their module, so that a reservation, an overlap and a lifetime each end while
something of theirs may still be in flight.

The properties, in words:

- `SentAtMostOnce`: no message leaves for a run twice, whatever is retried,
  killed, or run in parallel. `SentIsRecorded`: nothing leaves before the record
  that accounts for it is on stable storage.
- `ToldIsTrue`: a record some call vouched for (as written, replayed or
  recovered) is there with that content ever after. Roll-backs, races and
  crashes do not change that; a power failure does.
- `ChainComplete`: no record stands without those it was derived from.
- `PlanBeforeTransitions`: a missing plan is never added under a job that moved.
- `PromiseKept`: the run as a reader sees it takes only D.1 steps, and messages
  leave in order, once, at dispatching. A record its publisher may still roll
  back does not count.
- `StartedOnce`, `AnsweredOnce`: the engine starts once per run; no plan,
  dispatch or trigger is accepted twice.
- `AnsweredIsStable`: what an answer reports survives a power failure,
  whichever thread created the file.
- `StartsPrepared`, `StartIsGrounded`: what the trigger was checked against is
  there when the engine starts; with a gateway that waits for its answers, it
  also stays.
- `JobHasOnePlan`, `AcceptedInItsGeneration`, `RotationIsSeamless`: all an
  engine accepts for a job is of one plan, under the generation of its time,
  and no request in time is lost to a rotation, but for the source or trigger
  signed with the old generation when the new one was active already.
- `AcceptedOnce`, `OneEnd`: a reservation outlives every copy of the request it
  is for; a dispatch ends once, by its deadline.
- `OneSourcePerKey`, `RecordsAreFinal`: retries with whatever payloads and
  documents make one source of a key, and move no time of a record.
- `OneContent`, `PreservedIsWhole`: no restart lets two contents of an artifact
  stand in the evidence, and an ended run that is preserved lacks nothing.
- `OneResultPerRun`, `HandoffIsReported`, `NothingIsReplaced`: a record seals
  the one result beside it; what is handed over is what was reported.
- `TimedOutTreeIsDead`, `ResultWasValidated`: what a call of an engine leaves
  running, and what its result names.
- `DisagreementIsShown`: the comparison shows each disagreement and no other.
- `AnswerIsTrue`, `ChainPromise`: an editor's answer says what is in the chain;
  the calls implement `RevisionChain`.
- `PublicationIsApproved`, `SupersededIsFinal`: a request for publication rests
  on a decision about that very revision; nothing new comes of one superseded.
- `OverlapIsSaid`, `ExportIsExact`: the validator's scan, which remembers one
  event, finds a measure at fault exactly if two events of it overlap, but for
  the chords of finding 5; a score is exported exactly if a document can say it.
  What none can say: a pitch altered by no exact decimal or of a negative octave
  (`set_pitch` takes octaves from -2), a text with blanks around it, a time past
  the bound of divisions or durations, and the chords, signatures and events the
  writer has no form for.
- `CursorIsInItsScore`: no mixture of plans leads a cursor out of its score.

Each property has a mutant: a definition with a plausible fault, kept beside
the original in its module and used by no specification, under which TLC finds
the property violated.

## Fairness

`FairSpec` is used for `CallsReturn` and for the run with power failures.
`WF(Proceed(p))`: a process that waits for nothing but the processor or a file
goes on, and an HTTP request ends, since every one has a timeout
(`_require_timeout`). `SF(pc[p] # "idle" /\ Operate(p))`: a call that waits for
the job lock gets it if the lock is free again and again. The code waits in a
blocking `flock(LOCK_EX)`, whose waiters the kernel wakes when the lock is
freed; the strong form is the assumption that none of them loses for ever.
New calls, crashes and power failures are not assumed to happen.

## What is proved

The theorems hold for any set of processes, threads, runs, nonces and callers.
They assume what the modules' named ASSUMEs say (that the stand-ins for "no
process", "no run", "no request" and "no plan" are none, that no artifact has
the name that stands for the candidate, that switches are Boolean and spans of
time natural numbers, that a document that can be read has a score, that
documents are made of elements with natural lengths, that a length an edit sets
counts in some divisions within the bound, and that a look without a pitch can be
written),
and nothing else unless the theorem says so.

- **D.1** (`JobProofs`). The invariant is that every run stands at a
  position the table accepts. `PositionsStayValid`, `TablesNeverDisagree` and
  `DecidedOnce` follow by cases over the states.
- **D.2** (`ResultProofs`). `LedgerAlwaysValid`, `CallersAgree`, and
  `Refinement`: the ledger implements D.1. The invariant ties the record at
  index i to revision i - 1, so that a free slot is the one after the last.
- **Gateway** (`GatewayProofs`). `SendsOnce` and `SendsRecorded` rest on an
  invariant about ownership. A process owns the record it created from the link
  until it has sent or given up; a record has one owner, because it is created
  only where none is; what an owner has still to send has not been sent; once it
  was sent the gate is stable, so it is never absent again and nobody can create
  it anew. `SentAtMostOnce` alone is not inductive: without ownership, a second
  process might stand before the same send. The job lock and the source guard
  are not needed for it.
- **Gateway, what was told** (`GatewayProofs`). `SectionsExclude`: two
  processes are never in a writing section at once, power failures included. If
  the power does not fail, also `ToldStaysTrue` and `OneWinnerWithoutPowerLoss`.
  Here the lock is needed. A record is settled when it is there and nobody is
  about to roll it back; `TInv` says that every record that was told, that its
  publisher is about to tell, or that a recovery of the planned state found in
  its first section, is settled. `ToldIsTrue` alone is not inductive: it does
  not exclude a roll-back that is still to come. Settled records stay settled,
  since records are created only where none is; and a record found with the lock
  in hand is settled, since a publisher that may still roll back has the lock.
- **Gateway, chain and promise** (`GatewayProofs`). `ChainStaysComplete` and
  the refinement `PromiseIsKept`, if the power does not fail; `PlanComesFirst` in
  any case. The invariant `ChainInv` adds two halves. `Grounded`: where a record
  is, those it was derived from are settled, since a publisher found them with
  the lock in hand and keeps the lock until it has linked its own. A claimer has
  no lock; its grounds are evidence of a message that was sent, and what was sent
  is recorded (`OrderInv`). `ChainComplete` alone is not inductive: a record whose
  ground may still be rolled back satisfies it for the moment. For the
  refinement, a transition of a run is the step at which its publisher can no
  longer roll back, by confirming or by being killed; every other step leaves
  what is settled of a run as it is, or is a send in its turn. `PlanComesFirst`
  needs only the lock: between the check for transitions and the link of the plan
  nobody else creates a record under it, and no claim is one of a transition.
- **Receiver** (`EngineReceiverProofs`). `StartsOnce`, `AnswersOnce`,
  `AnswersAreStable`, `StartsGrounded` (for a gateway that waits) and
  `StartsOnPrepared` (for any). A thread that created a file is its only creator,
  what it does in consequence it does after the sync, and from then on the file
  turns every other thread away. A thread does not survive the power failure
  that may take its file.
- **Rotation** (`EngineAuthenticationProofs`). `OnePlanForTheJob` and
  `InItsGeneration` for any plans, rotations, delays and skews. The invariant
  has two halves. `ClockInv`: the gateway took up each generation between its
  activation and `Lag` after it, it is at most one behind, and a generation that
  was followed by another had its overlap. `EngineInv`: all that was accepted is
  of the held plan, of a generation the engine knows and not of the future.
  `NoRequestIsLost` assumes that `Lag + Skew + Age < Overlap`: the rotations keep
  an overlap longer than a request can be under way. The code fixes the age and
  the skew, the other two are the operator's; with a shorter overlap a request
  may be lost to a rotation.
- **Proposals** (`ReviewProofs`). `AnswersAreTrue`, and `ChainKept`: the
  calls implement `RevisionChain`. The proof first reduces the thirteen actions
  to eight effects on keys, chain and answers (`StepEffect`). The invariant has
  two halves. `KeyInv`: between `begin` and its answer a call owns its key, has
  its own entry there, and no revision has been written with that key; a key
  that wrote is never free. `AnswerInv`: revisions stand in the order of what
  their authors saw; an owner about to be sealed has its revision in the chain;
  a sealed entry names a revision of its binding; and no revision bears the
  identity of a call that has not reached the append or was refused.
  `AnswerIsTrue` alone is not inductive: a sealed entry outlives the call that
  made it and answers another.
- **Approvals** (`ReviewProofs`). `PublicationsAreApproved` and
  `SupersededStaysFinal`. The invariant `Sound` holds of every document handed
  out and of every one a builder is about to return: it is of one eligible
  revision and its own artifact, and from the decision on, the handoff and the
  decision it rests on have been handed out. `PublicationIsApproved` alone is
  not inductive: a publication is built of a grant, the grant of evidence, the
  evidence of a record, and only the record was compared with both.
- **Intake** (`JobProofs`). `KeyHasOneSource` and
  `IntakeRecordsStay`, for any documents and limits, any clock, and steps that
  fail before or after they took effect. The invariant follows what a call has
  behind it: past its admission its key is bound to its payload (`Bound`), past
  its finalization its document is in the record of its session (`FinalDoc`);
  neither is ever taken back, and every source has both. Two sources of one key
  then have one payload, so one session, so one document.
- **Dispatch** (`JobProofs`). `AcceptsOnce` assumes
  `MaxAge + Delay < ReplayTtl`: a reservation outlives the last moment at which a
  copy of its request may be accepted. The code fixes the age at 120 seconds and
  the reservation at 600 (`G/authenticated_request.py`), so a preflight may take
  up to 479 seconds under the job's lock. The invariant says that a request that
  was accepted, or whose preflight has reserved, has its reservation for as long
  as a fresh copy may be about. `DispatchEndsOnce` holds for any times.
- **Evidence** (`ResultProofs`). `OneContentForever` and `PreservedStaysWhole`,
  for any artifacts, contents and number of crashes. Neither is inductive: a
  recovery may take back a suffix of each of the four values, so the invariant
  must say what holds of every prefix. It says that the bindings of the chain only
  grow along it, that in every prefix of the events whose candidate has ended the
  artifacts have ended too, and that a run preserved as terminal has ended. The
  bindings are then those of one lifecycle, and the recovery's comparison of the
  last record with the restored events leaves nothing out. A crash may be followed
  by any number of others before the run goes on.
- **Ingestion** (`ResultProofs`). `RecordsAreWhole`, `HandsOverReports`,
  `StoredResultsStay`, for any deliveries, engines and contents. What a delivery
  has behind it is its own (`DeliveryHolds`): it created the artifact or found it
  equal, and what is stored stays. So at the record all three artifacts are of
  its frame. `OneResultPerRun` alone is not inductive: it says nothing of a
  delivery that is about to write the record. The proof assumes that a result
  has its three artifacts and that the engines are finitely many.
- **Call of an engine** (`ResultProofs`). `TimeOutEndsTree` and
  `ResultsAreValidated`, for any number of descendants and outputs. A process
  that is alive and cannot be heard is known to have closed its output
  (`SilentAreLoose`). If none has, the tree has ended when the outputs are
  looked at, nobody is left to start another process, and so what was accepted
  is what is read. After the time limit whatever lives in the session descends
  from somebody who ignored the termination (`SessionEnded`).
- **Comparison** (`ResultProofs`). `DisagreementIsAlwaysShown`, for any scores.
  Parts, measures and events have one form: places that not all candidates have,
  fields that differ, and what is below. `LevelShows` says of any such level what
  is found at it; `EventsTold`, `MeasuresTold` and `ScoresTold` say of each of the
  three that a difference is found wherever two say different things, that each
  is one, that none is found exactly if all are equal, and that they are finitely
  many, without which the counts would mean nothing. `ComparisonInvariant` is that
  a comparison holds just what was found.

- **Chords and overlaps** (`ScoreProofs`). `EditsKeepChords` and
  `OverlapsAreSaid`, for any document and any edits. Reader and scan are folds,
  and what a fold of an arbitrary operator computes cannot be proved here; so
  `ReadSteps`, `PartSteps` and `ScanSteps` say of each of the three folds that it
  ends a chain of values, each the step taken from the one before. The values
  exist by counting up to the length of the sequence (`CountsUpTo`, from the
  well-foundedness of the numbers). The invariant, `SoundScore`: the events of a
  measure stand in the order of their identities, those of a chord next to each
  other, with indices that grow. The scan remembers the event that ends last (`ScanRemembers`). Of
  two events that overlap, the later also begins before the remembered one ends;
  if the two are of one chord, so are all between them, and either the earlier of
  the first pair is at fault, or the chord mixes grace notes that have a length
  with others. `OverlapIsSaid` excludes just these (`GraceInChord`), and the run
  `score_overlap` shows that it must.
- **Export** (`ExportProofs`). `ExportsAreExact`, for any document and any edits.
  The writer is a fold too (`WriteSteps`), and its states say which events can be
  written (`WriterRuns`). Whether times count enters both sides as it stands
  (`Countable`). A text the reader refuses is still written, so the reader is
  first shown to refuse the measure it is in, whatever follows (`IllegibleMeasure`,
  `IllegiblePart`). Otherwise it is followed through what was written:
  `Caught` says that it has read back the first k events, but for their
  identities and the numbers of their chords, and stands where the writer stood.
  `MovementIsRead`, `NoteIsReadBack` and `ChordIsReadBack` keep it so for the
  three things that are written, and `MeasureIsReadBack` counts through the
  measure. Since an identity is a place, a chord comes back numbered after its
  first member as soon as it has a second; so a chord of one is lost, and only
  that (`Paired`). `OrdinalsAgree` shows that chords are told alike by their order
  however they are numbered, by maps between the chords that begin up to a
  place; `WholeIffWritable` that what can be written and is paired is what
  `Expressible` says of chords, which counts through a chord from where it begins
  and needs the indices of `SoundScore` to grow; `StartsAgain` that signatures
  come back exactly if a measure without one follows none that has one.
- **Navigation** (`ScoreProofs`). `CursorStaysInItsScore`, for any scores, edits,
  plans and orders of use. The points of a score are finitely many, and each has
  as many before it as its index says (`PointsAreOrdered`, by `Ranked`). The
  invariant `NavInv`: a plan is of the score of its revision, which is kept; a
  state stands at a point of the plan of its revision, whichever plan of it was
  used.

The inductive invariants were checked by TLC on the instances of the runs
before they were proved.

Only model-checked: liveness (`CallsReturn`) and all that is about ENABLED.
`gateway_power` and `gateway_live` leave
`SentAtMostOnce` and `ToldIsTrue` to the theorems, which hold under power
failures and a changing source respectively.

## What the checks found

The first two are about power failures and need a file system that uses the
freedom fsync(2) leaves it; many journaling file systems make them rare.

1. **Two winners** (`gateway_power_winner`). The documentation
   (`src/docs/architecture-stage5-7-current.md:43`) has "exactly-one-winner
   durable revision semantics". `_atomic_create` syncs the directory only if it
   made the link; a caller that finds the link (`G/minimum_staging_vertical_slice.py:541`)
   and every recovery report it without a sync. Cancel links and is killed;
   recovery reports cancelled; the power fails; dispatch then wins the same
   revision. The engine's `_atomic_create` syncs in that case too, and
   `AnsweredIsStable` holds there.
2. **A source is not kept** (`receiver_source`). `E/source_delivery.py:448`
   renames a directory whose own entries were never synced. After a power
   failure it may hold one file of two: it cannot be read, and no redelivery can
   replace it.

3. **A stale snapshot called unavailable** (`review_stale`). The contract
   (`src/docs/teacher-review-api-contract-v1.md:138`) has any mismatch with the
   durable head fail as stale. `_verify_snapshot` (`T/api_harness.py:677`)
   compares the head with what was resolved a moment ago first, and calls a
   difference an invalid state of the server: 503, retryable. The retry with the
   same snapshot is then told it is stale.
4. **A time signature at the start of a measure** (`score_time`). The documents
   refuse the edit and the export of a measure with *mid-measure* changes
   (`src/docs/stage8c-deterministic-revision-materialization.md:43`,
   `src/docs/stage8f-corrected-musicxml-derivative.md:50`). The normalizer notes
   every time element as a change, one at the start too, so a measure that
   states its signature where every score does can be neither edited nor exported.

5. **A grace note hides an overlap** (`score_overlap`). Overlapping events of a
   voice that are no chord are blocking
   (`src/docs/stage8c-deterministic-revision-materialization.md:59`). The scan
   (`T/musical_state.py:640`) compares an event with the one that ends last so
   far. A grace note may be given a length, is then remembered, and is never at
   fault itself; the other notes of its chord are not compared with what sounds
   before it. A half note with such a chord above it in its own voice passes
   without a blocking issue.

## What is not modelled

- The orchestration plan, the HTTP shells and status surfaces (`app.py`) and the
  configuration: fixed functions of their inputs.
- The recognition programs, and ST-OMR: offline inference behind a disabled
  runtime.
- Evaluation, polyphony metrics, calibration, workload and projection reports:
  statistics of frozen inputs, without a state or an order of events.
- Cryptography: an authentic message is one its signer built. Path walking
  against symbolic links, file modes and sizes.
- The unlocked resolver of the trusted plan: it only reads, and every operation
  checks what it returned against the records again, under the lock.
- The stores behind the external boundary (identity provider, rate, idempotency)
  are injected; they are modelled as the calling code uses them.
- The prototypes, scripts and contracts hold no state.

## Plan

In order of what a failure would cost.

1. Done: the modules above, the proofs of D.1, D.2, the gateway with its
   refinement, the receiver, the rotation, the intake, the dispatch, the
   evidence and its recovery, the ingestion, the call of an engine, the
   comparison, the proposals, the approvals, the score with its export, and the
   navigation.
2. `PrivateRun`: gateway and receiver composed over a network that loses,
   repeats and delays requests; abstract specification: a run is executed at
   most once and reported executed only if it was.
3. The metrics of the ensemble, against reference definitions over bounded
   corpora.

## Running it

    tlc -workers 2 -config GatewayRun.cfg MCGatewayRun.tla
    tlapm GatewayProofs.tla

`PROJECT.json` lists the runs with their configurations, the source lines of
each definition, the hazards and the properties that watch for them.
