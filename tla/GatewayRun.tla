------------------------------ MODULE GatewayRun ------------------------------
(***************************************************************************)
(* One staging job in the gateway: the sealed records it keeps on disk,    *)
(* the processes that publish and read them under the job lock, and the    *)
(* private messages they send to the engine of a run.                      *)
(*                                                                         *)
(* A record is created once, by linking a synced temporary file into its   *)
(* directory; the directory is synced afterwards.  Between the two a       *)
(* process may be killed, and a link that was not synced may be lost with  *)
(* the power.  The job lock dies with its holder.                          *)
(***************************************************************************)
EXTENDS Naturals, FiniteSets

CONSTANTS
  Proc,              \* processes and threads of the gateway
  Run,               \* the engine runs of the job
  Job,               \* stands for the job in the records that have no run
  NoProc,            \* the owner of a free lock
  Operations,        \* the operations that are called
  SourceMayChange,   \* whether the stored source can be altered and restored
  PowerMayFail       \* whether a power failure can happen

JobRecord == {"initial", "plan"}
RunRecord == {"queued", "intent", "second", "sourceClaim", "executionClaim"}
Path      == (JobRecord \X {Job}) \union (RunRecord \X Run)
Content   == {"absent", "present", "cancelled", "dispatching"}

Publishers == {"lifecycle", "plan", "queue", "intent", "cancel", "dispatch"}
Claimers   == {"deliver", "execute"}
Readers    == {"recoverPlanned", "recoverQueued", "recoverIntent",
               "recoverCancelled", "recoverDispatching"}
Kind       == Publishers \union Claimers \union Readers
JobKind    == {"none", "lifecycle", "plan", "recoverPlanned"}
Operation  == ((JobKind) \X {Job}) \union ((Kind \ JobKind) \X Run)
NoOperation == <<"none", Job>>

Message == {"provision", "dispatch", "source", "execute"}

ASSUME NoProcAssumption == NoProc \notin Proc
ASSUME JobAssumption    == Job \notin Run
ASSUME SwitchAssumption == /\ Operations \subseteq Kind
                           /\ SourceMayChange \in BOOLEAN
                           /\ PowerMayFail \in BOOLEAN

VARIABLES
  disk,      \* disk[f]: what a reader of path f finds
  stable,    \* stable[f]: what f holds for certain after a power failure
  source,    \* whether the stored source still has the bound bytes
  lock,      \* the holder of the job lock
  pc,        \* pc[p]: the point process p has reached
  op,        \* op[p]: the call p is serving, <<kind, run or Job>>
  result,    \* result[p]: how p found its record, to be returned
  evidence,  \* result objects of finished sends that callers still hold
  sent,      \* sent[r][m]: how often message m left for the engine of r
  told       \* history: <<path, content>> some returned call vouched for

vars == <<disk, stable, source, lock, pc, op, result, evidence, sent, told>>
files == <<disk, stable>>
history == <<evidence, sent, told>>

Point == {"idle", "first", "entry", "linking", "published", "syncing",
          "leaving", "provisioning", "awaitingPlan", "sending", "awaiting"}
Result == {"none", "written", "replay"}

KindOf(p) == op[p][1]
RunOf(p)  == op[p][2]

-----------------------------------------------------------------------------
(* Records and the directories that hold them.                             *)

RecordOf(k) ==
  CASE k = "lifecycle" -> "initial"
    [] k = "plan"      -> "plan"
    [] k = "queue"     -> "queued"
    [] k = "intent"    -> "intent"
    [] k \in {"cancel", "dispatch"} -> "second"
    [] k = "deliver"   -> "sourceClaim"
    [] OTHER           -> "executionClaim"

\* Mutant: the record names the operation instead of the state.
OperationAsContent(k) == IF k \in {"cancel", "dispatch"} THEN k ELSE "present"

ContentOf(k) ==
  CASE k = "cancel"   -> "cancelled"
    [] k = "dispatch" -> "dispatching"
    [] OTHER          -> "present"

Target(p) == <<RecordOf(KindOf(p)), RunOf(p)>>

\* Revision 1 and 2 of every run of the job share a directory, the intents
\* of the job share another; each of the other records has its own.
SameDirectory(f, g) ==
  \/ f = g
  \/ f[1] \in {"queued", "second"} /\ g[1] \in {"queued", "second"}
  \/ f[1] = "intent" /\ g[1] = "intent"

\* Mutant: the directory is not synced.
NoSync(f) == UNCHANGED stable

Sync(f) ==
  stable' = [g \in Path |-> IF SameDirectory(f, g) THEN disk[g] ELSE stable[g]]

Has(record, r) == disk[<<record, r>>] # "absent"
HasInitial     == Has("initial", Job)
HasTransition  == \E r \in Run : Has("queued", r) \/ Has("second", r)
Intact         == source = "intact"

-----------------------------------------------------------------------------
(* What each operation requires of the records, read under the job lock.   *)

QueuedVerified(r)      == HasInitial /\ Has("queued", r)
QueuedNotTerminal(r)   == QueuedVerified(r) /\ ~Has("second", r)
CancelledVerified(r)   == QueuedVerified(r) /\ disk[<<"second", r>>] = "cancelled"
DispatchingVerified(r) == /\ QueuedVerified(r)
                          /\ Has("intent", r)
                          /\ disk[<<"second", r>>] = "dispatching"

-----------------------------------------------------------------------------
(* Steps shared by the operations.                                         *)

Init ==
  /\ disk = [f \in Path |-> "absent"]
  /\ stable = disk
  /\ source = "intact"
  /\ lock = NoProc
  /\ pc = [p \in Proc |-> "idle"]
  /\ op = [p \in Proc |-> NoOperation]
  /\ result = [p \in Proc |-> "none"]
  /\ evidence = {}
  /\ sent = [r \in Run |-> [m \in Message |-> 0]]
  /\ told = {}

Goto(p, point) == pc' = [pc EXCEPT ![p] = point]

\* The call returns to its caller, with its result or with an error.
Return(p) ==
  /\ Goto(p, "idle")
  /\ op' = [op EXCEPT ![p] = NoOperation]
  /\ result' = [result EXCEPT ![p] = "none"]

Tell(claims) == told' = told \union claims

Begin(p, k, r, point) ==
  /\ pc[p] = "idle"
  /\ k \in Operations
  /\ op' = [op EXCEPT ![p] = <<k, r>>]
  /\ Goto(p, point)
  /\ UNCHANGED <<files, source, lock, result, history>>

\* The critical section of a call that writes: it takes the lock and keeps
\* it when what it requires is there, otherwise it fails and lets go.
Enter(p, k, required) ==
  /\ pc[p] = "entry" /\ KindOf(p) = k
  /\ lock = NoProc
  /\ IF Intact /\ required
       THEN /\ lock' = p /\ Goto(p, "linking")
            /\ UNCHANGED <<op, result>>
       ELSE /\ Return(p) /\ UNCHANGED lock
  /\ UNCHANGED <<files, source, history>>

\* A critical section that only reads is one step: nothing it reads can
\* change while it holds the lock.
Read(p, k, confirmed, claims) ==
  /\ pc[p] = "entry" /\ KindOf(p) = k
  /\ lock = NoProc
  /\ Return(p)
  /\ Tell(IF confirmed THEN claims ELSE {})
  /\ UNCHANGED <<files, source, lock, evidence, sent>>

\* What a call that has to be repeated under the lock checks beforehand, in a
\* critical section of its own.
FirstSection(p, k, required) ==
  /\ pc[p] = "first" /\ KindOf(p) = k
  /\ lock = NoProc
  /\ IF Intact /\ required
       THEN Goto(p, "entry") /\ UNCHANGED <<op, result>>
       ELSE Return(p)
  /\ UNCHANGED <<files, source, lock, history>>

-----------------------------------------------------------------------------
(* The operations, up to the creation of their record.                     *)

Lifecycle(p) ==
  \/ Begin(p, "lifecycle", Job, "first")
  \/ FirstSection(p, "lifecycle", TRUE)
  \/ Enter(p, "lifecycle", TRUE)

\* Mutant: the transitions are looked for in the first section only.
PersistPlanUnchecked(p) ==
  \/ Begin(p, "plan", Job, "first")
  \/ FirstSection(p, "plan", HasInitial /\ (Has("plan", Job) \/ ~HasTransition))
  \/ Enter(p, "plan", TRUE)

PersistPlan(p) ==
  \/ Begin(p, "plan", Job, "first")
  \/ FirstSection(p, "plan", HasInitial)
  \/ Enter(p, "plan", Has("plan", Job) \/ ~HasTransition)

\* Mutant: the initial record is not asked for.
QueueUnchained(p) ==
  \/ \E r \in Run : Begin(p, "queue", r, "entry")
  \/ Enter(p, "queue", ~Has("second", RunOf(p)))

Queue(p) ==
  \/ \E r \in Run : Begin(p, "queue", r, "entry")
  \/ Enter(p, "queue", HasInitial /\ ~Has("second", RunOf(p)))

PersistIntent(p) ==
  \/ \E r \in Run : Begin(p, "intent", r, "entry")
  \/ Enter(p, "intent", QueuedNotTerminal(RunOf(p)))

Cancel(p) ==
  \/ \E r \in Run : Begin(p, "cancel", r, "entry")
  \/ Enter(p, "cancel", QueuedVerified(RunOf(p)))

Dispatch(p) ==
  \/ \E r \in Run : Begin(p, "dispatch", r, "entry")
  \/ Enter(p, "dispatch", QueuedVerified(RunOf(p)) /\ Has("intent", RunOf(p)))

\* Mutant: no dispatch result is asked for.
DeliverEarly(p) == \E r \in Run : Begin(p, "deliver", r, "linking")

\* Source delivery asks for the result object of a dispatch, not for a record.
Deliver(p) ==
  \E r \in Run : /\ <<"dispatch", r>> \in evidence
                 /\ Begin(p, "deliver", r, "linking")

\* Execution looks for the source claim without the lock, then verifies the
\* dispatching record under it, then claims without it.
Execute(p) ==
  \/ \E r \in Run : /\ {<<"dispatch", r>>, <<"source", r>>} \subseteq evidence
                    /\ Begin(p, "execute", r, "first")
  \/ /\ pc[p] = "first" /\ KindOf(p) = "execute"
     /\ IF Has("sourceClaim", RunOf(p))
          THEN Goto(p, "entry") /\ UNCHANGED <<op, result>>
          ELSE Return(p)
     /\ UNCHANGED <<files, source, lock, history>>
  \/ /\ pc[p] = "entry" /\ KindOf(p) = "execute"
     /\ lock = NoProc
     /\ IF Intact /\ DispatchingVerified(RunOf(p))
          THEN Goto(p, "linking") /\ UNCHANGED <<op, result>>
          ELSE Return(p)
     /\ UNCHANGED <<files, source, lock, history>>

RecoverPlanned(p) ==
  \/ Begin(p, "recoverPlanned", Job, "first")
  \/ FirstSection(p, "recoverPlanned", HasInitial)
  \/ Read(p, "recoverPlanned", ~HasTransition,
          {<<<<"initial", Job>>, "present">>})

RecoverQueued(p) ==
  \/ \E r \in Run : Begin(p, "recoverQueued", r, "entry")
  \/ Read(p, "recoverQueued", Intact /\ QueuedNotTerminal(RunOf(p)),
          {<<<<"queued", RunOf(p)>>, "present">>})

RecoverIntent(p) ==
  \/ \E r \in Run : Begin(p, "recoverIntent", r, "entry")
  \/ Read(p, "recoverIntent",
          /\ Intact
          /\ QueuedNotTerminal(RunOf(p)) /\ Has("intent", RunOf(p)),
          {<<<<"intent", RunOf(p)>>, "present">>})

RecoverCancelled(p) ==
  \/ \E r \in Run : Begin(p, "recoverCancelled", r, "entry")
  \/ Read(p, "recoverCancelled", Intact /\ CancelledVerified(RunOf(p)),
          {<<<<"second", RunOf(p)>>, "cancelled">>})

RecoverDispatching(p) ==
  \/ \E r \in Run : Begin(p, "recoverDispatching", r, "entry")
  \/ Read(p, "recoverDispatching", Intact /\ DispatchingVerified(RunOf(p)),
          {<<<<"second", RunOf(p)>>, "dispatching">>})

-----------------------------------------------------------------------------
(* The creation of a record.                                               *)

\* Mutant: the lock is never let go.
KeepLock(p) == UNCHANGED lock

Unlock(p) == lock' = IF lock = p THEN NoProc ELSE lock

\* Mutant: an existing record is overwritten.
OverwriteRecord(p) ==
  /\ disk' = [disk EXCEPT ![Target(p)] = ContentOf(KindOf(p))]
  /\ result' = [result EXCEPT ![p] = "written"]
  /\ UNCHANGED <<stable, source, lock, op, history>>

CreateRecord(p) ==
  /\ disk[Target(p)] = "absent"
  /\ disk' = [disk EXCEPT ![Target(p)] = ContentOf(KindOf(p))]
  /\ result' = [result EXCEPT ![p] = "written"]
  /\ UNCHANGED <<stable, source, lock, op, history>>

\* Under the lock and the source guard: create, or compare with what is there.
Link(p) ==
  /\ pc[p] = "linking" /\ KindOf(p) \in Publishers
  /\ Intact
  /\ CreateRecord(p)
  /\ Goto(p, "published")

\* Mutant: an existing record is taken for one's own without comparing.
ReplayUncompared(p) ==
  /\ pc[p] = "linking" /\ KindOf(p) \in Publishers
  /\ Intact
  /\ disk[Target(p)] # "absent"
  /\ result' = [result EXCEPT ![p] = "replay"]
  /\ Goto(p, "leaving")
  /\ UNCHANGED <<files, source, lock, op, history>>

Replay(p) ==
  /\ pc[p] = "linking" /\ KindOf(p) \in Publishers
  /\ Intact
  /\ disk[Target(p)] = ContentOf(KindOf(p))
  /\ result' = [result EXCEPT ![p] = "replay"]
  /\ Goto(p, "leaving")
  /\ UNCHANGED <<files, source, lock, op, history>>

Refuse(p) ==
  /\ pc[p] = "linking" /\ KindOf(p) \in Publishers
  /\ ~Intact \/ disk[Target(p)] \notin {"absent", ContentOf(KindOf(p))}
  /\ Return(p) /\ Unlock(p)
  /\ UNCHANGED <<files, source, history>>

\* Claims are created without lock and guard, and never replayed.
Claim(p) ==
  /\ pc[p] = "linking" /\ KindOf(p) \in Claimers
  /\ CreateRecord(p)
  /\ Goto(p, "syncing")

AlreadyClaimed(p) ==
  /\ pc[p] = "linking" /\ KindOf(p) \in Claimers
  /\ disk[Target(p)] # "absent"
  /\ Return(p)
  /\ UNCHANGED <<files, source, lock, history>>

\* The source is checked once more after the link.
Confirm(p) ==
  /\ pc[p] = "published"
  /\ Intact
  /\ Goto(p, "syncing")
  /\ UNCHANGED <<files, source, lock, op, result, history>>

Rollback(p) ==
  /\ pc[p] = "published"
  /\ ~Intact
  /\ disk' = [disk EXCEPT ![Target(p)] = "absent"]
  /\ stable' = [g \in Path |->
                  IF SameDirectory(Target(p), g) THEN disk'[g] ELSE stable[g]]
  /\ Return(p) /\ Unlock(p)
  /\ UNCHANGED <<source, history>>

SyncDirectory(p) ==
  /\ pc[p] = "syncing"
  /\ Sync(Target(p))
  /\ Goto(p, IF KindOf(p) \in Claimers THEN "sending" ELSE "leaving")
  /\ UNCHANGED <<disk, source, lock, op, result, history>>

\* Mutant: a replayed transition is dispatched again.
DispatchesAgain(p) == KindOf(p) = "dispatch"

\* Only the call that wrote the transition goes on to dispatch.
Dispatches(p) == KindOf(p) = "dispatch" /\ result[p] = "written"

\* The source guard checks a last time on its way out.
Leave(p) ==
  /\ pc[p] = "leaving"
  /\ Unlock(p)
  /\ Tell(IF Intact THEN {<<Target(p), ContentOf(KindOf(p))>>} ELSE {})
  /\ IF Intact /\ Dispatches(p)
       THEN Goto(p, "provisioning") /\ UNCHANGED <<op, result>>
       ELSE Return(p)
  /\ UNCHANGED <<files, source, evidence, sent>>

-----------------------------------------------------------------------------
(* The private messages.  An attempt counts as sent; its answer may be an  *)
(* acceptance, a refusal or a timeout.                                     *)

MessageOf(k) == CASE k = "dispatch" -> "dispatch"
                  [] k = "deliver"  -> "source"
                  [] OTHER          -> "execute"

Provision(p) ==
  /\ pc[p] = "provisioning"
  /\ sent' = [sent EXCEPT ![RunOf(p)]["provision"] = @ + 1]
  /\ Goto(p, "awaitingPlan")
  /\ UNCHANGED <<files, source, lock, op, result, evidence, told>>

PlanAnswered(p) ==
  /\ pc[p] = "awaitingPlan"
  /\ \/ Goto(p, "sending") /\ UNCHANGED <<op, result>>
     \/ Return(p)
  /\ UNCHANGED <<files, source, lock, history>>

Send(p) ==
  /\ pc[p] = "sending"
  /\ sent' = [sent EXCEPT ![RunOf(p)][MessageOf(KindOf(p))] = @ + 1]
  /\ Goto(p, "awaiting")
  /\ UNCHANGED <<files, source, lock, op, result, evidence, told>>

Answered(p) ==
  /\ pc[p] = "awaiting"
  /\ \/ evidence' = evidence \union {<<MessageOf(KindOf(p)), RunOf(p)>>}
     \/ UNCHANGED evidence
  /\ Return(p)
  /\ UNCHANGED <<files, source, lock, sent, told>>

-----------------------------------------------------------------------------
(* The environment.                                                        *)

\* A call is cut short: its process is killed, or an error of the file
\* system makes it give up.  What it linked stays linked.
Crash(p) ==
  /\ pc[p] # "idle"
  /\ Return(p) /\ Unlock(p)
  /\ UNCHANGED <<files, source, history>>

PowerFail ==
  /\ PowerMayFail
  /\ \E lost \in SUBSET {f \in Path : disk[f] # stable[f]} :
        disk' = [f \in Path |-> IF f \in lost THEN stable[f] ELSE disk[f]]
  /\ stable' = disk'
  /\ lock' = NoProc
  /\ pc' = [p \in Proc |-> "idle"]
  /\ op' = [p \in Proc |-> NoOperation]
  /\ result' = [p \in Proc |-> "none"]
  /\ evidence' = {}
  /\ UNCHANGED <<source, sent, told>>

ChangeSource ==
  /\ SourceMayChange
  /\ source' = IF Intact THEN "altered" ELSE "intact"
  /\ UNCHANGED <<files, lock, pc, op, result, history>>

-----------------------------------------------------------------------------

Operate(p) ==
  \/ Lifecycle(p) \/ PersistPlan(p) \/ Queue(p) \/ PersistIntent(p)
  \/ Cancel(p) \/ Dispatch(p) \/ Deliver(p) \/ Execute(p)
  \/ RecoverPlanned(p) \/ RecoverQueued(p) \/ RecoverIntent(p)
  \/ RecoverCancelled(p) \/ RecoverDispatching(p)

Proceed(p) ==
  \/ Link(p) \/ Replay(p) \/ Refuse(p) \/ Claim(p) \/ AlreadyClaimed(p)
  \/ Confirm(p) \/ Rollback(p) \/ SyncDirectory(p) \/ Leave(p)
  \/ Provision(p) \/ PlanAnswered(p) \/ Send(p) \/ Answered(p)

Next ==
  \/ \E p \in Proc : Operate(p) \/ Proceed(p) \/ Crash(p)
  \/ PowerFail
  \/ ChangeSource

Spec == Init /\ [][Next]_vars

\* A process that waits for nothing runs; one that waits for the lock gets
\* it if it is free again and again; a message is answered or times out.
Fairness ==
  \A p \in Proc : /\ WF_vars(Proceed(p))
                  /\ SF_vars(pc[p] # "idle" /\ Operate(p))

FairSpec == Spec /\ Fairness

-----------------------------------------------------------------------------
(* Properties.                                                             *)

TypeOK ==
  /\ disk \in [Path -> Content]
  /\ stable \in [Path -> Content]
  /\ source \in {"intact", "altered"}
  /\ lock \in Proc \union {NoProc}
  /\ pc \in [Proc -> Point]
  /\ op \in [Proc -> Operation]
  /\ result \in [Proc -> Result]
  /\ evidence \subseteq Message \X Run
  /\ sent \in [Run -> [Message -> Nat]]
  /\ told \subseteq Path \X Content

\* No call, crash, replay or race sends a message for a run a second time:
\* no automatic resend and no re-execution.
SentAtMostOnce == \A r \in Run, m \in Message : sent[r][m] <= 1

GatePath(m, r) == CASE m = "source"  -> <<"sourceClaim", r>>
                    [] m = "execute" -> <<"executionClaim", r>>
                    [] OTHER         -> <<"second", r>>
GateContent(m) == IF m \in {"source", "execute"} THEN "present" ELSE "dispatching"

\* Whatever left the gateway is accounted for by a record no power failure
\* can take back: the durable state is published before any transport.
SentIsRecorded ==
  \A r \in Run, m \in Message :
     sent[r][m] > 0 => /\ disk[GatePath(m, r)] = GateContent(m)
                       /\ stable[GatePath(m, r)] = GateContent(m)

\* A record some call vouched for, as written, replayed or recovered, is
\* there with the same content ever after.
ToldIsTrue == \A claim \in told : disk[claim[1]] = claim[2]

\* Cancellation and dispatch of a run compete for one revision, and at most
\* one of them is ever reported to have won.
OneWinner ==
  \A r \in Run : ~ /\ <<<<"second", r>>, "cancelled">> \in told
                   /\ <<<<"second", r>>, "dispatching">> \in told

\* A record never stands without the records it was derived from.
ChainComplete ==
  \A r \in Run :
    /\ Has("queued", r) => HasInitial
    /\ Has("second", r) => Has("queued", r)
    /\ Has("intent", r) => Has("queued", r)
    /\ disk[<<"second", r>>] = "dispatching" => Has("intent", r)
    /\ Has("sourceClaim", r) => disk[<<"second", r>>] = "dispatching"
    /\ Has("executionClaim", r) => Has("sourceClaim", r)

\* The trusted plan is stored before the first transition of the job: a plan
\* that was missing is never slipped in under a job already under way.
PlanBeforeTransitions ==
  [][~Has("plan", Job) /\ Has("plan", Job)' => ~HasTransition]_vars

\* Every call returns: nobody holds the lock for ever, nobody starves.
CallsReturn == \A p \in Proc : pc[p] # "idle" ~> pc[p] = "idle"

-----------------------------------------------------------------------------
(* The gateway keeps the promise.  A record that its publisher may still   *)
(* roll back does not count.                                               *)

Settled(f) ==
  /\ disk[f] # "absent"
  /\ ~\E p \in Proc : pc[p] = "published" /\ Target(p) = f

SnapshotOf(r) ==
  IF Settled(<<"second", r>>)
    THEN [state |-> disk[<<"second", r>>], revision |-> 2]
    ELSE IF Settled(<<"queued", r>>)
      THEN [state |-> "queued", revision |-> 1]
      ELSE [state |-> "planned", revision |-> 0]

Promise == INSTANCE DispatchPromise
             WITH snapshot <- [r \in Run |-> SnapshotOf(r)]

PromiseKept == Promise!PromiseSpec

=============================================================================
