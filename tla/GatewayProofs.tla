--------------------------- MODULE GatewayProofs ----------------------------
(***************************************************************************)
(* Theorems about GatewayRun, for any set of processes and runs, with      *)
(* crashes and altered sources. A message is sent at most once, also when  *)
(* the power fails. As long as it does not, what a call vouched for stays  *)
(* true, the records form a chain, the plan comes before every             *)
(* transition, and GatewayRun implements DispatchPromise.                  *)
(*                                                                         *)
(* The argument for SentAtMostOnce: a message is sent only by the process  *)
(* that created the record which gates it, a path is created only when it  *)
(* is absent, and a gate stays on stable storage once something was sent.  *)
(* Neither the job lock nor the source guard is needed for it.             *)
(*                                                                         *)
(* The argument for the rest: a record is settled when it is there and no  *)
(* publisher is about to roll it back. A settled record stays settled,     *)
(* because records are created only where none is. Whoever vouches for a   *)
(* record does so with the job lock, which every publisher holds until     *)
(* its record is past the roll-back; so the record it finds is settled.    *)
(*                                                                         *)
(* Who creates a record has found, with the lock in hand, the records it   *)
(* derives it from, so these are settled and stay; who claims without the  *)
(* lock has evidence of a message that was sent, and what was sent is      *)
(* recorded. So a run never has a record whose grounds may still be        *)
(* rolled back, and what is settled of it grows one D.1 step at a time.    *)
(***************************************************************************)
EXTENDS GatewayRun, TLAPS

-----------------------------------------------------------------------------
(* One message at most.                                                    *)

WritingKind == Publishers \union Claimers

\* p created its record and may still act on that.
Owns(p) ==
  \/ pc[p] \in {"published", "syncing", "provisioning", "awaitingPlan", "sending"}
  \/ pc[p] = "leaving" /\ result[p] = "written"

Sender(m) == CASE m = "source"  -> "deliver"
               [] m = "execute" -> "execute"
               [] OTHER         -> "dispatch"

\* m is one of the messages that p has yet to send.
Pending(p, m) ==
  /\ KindOf(p) = Sender(m)
  /\ pc[p] = "awaitingPlan" => m = "dispatch"
  /\ pc[p] = "sending" => m # "provision"

KindsFit ==
  \A p \in Proc :
    /\ pc[p] = "published" => KindOf(p) \in Publishers
    /\ pc[p] = "leaving" => KindOf(p) \in Publishers
    /\ pc[p] = "syncing" => KindOf(p) \in WritingKind
    /\ pc[p] \in {"provisioning", "awaitingPlan"} => KindOf(p) = "dispatch"
    /\ pc[p] \in {"sending", "awaiting"} =>
         KindOf(p) \in {"dispatch"} \union Claimers

OwnedIsThere ==
  \A p \in Proc : Owns(p) => disk[Target(p)] = ContentOf(KindOf(p))

OwnedIsStable ==
  \A p \in Proc :
    Owns(p) /\ pc[p] \notin {"published", "syncing"} =>
       stable[Target(p)] = ContentOf(KindOf(p))

OneOwner ==
  \A p, q \in Proc : Owns(p) /\ Owns(q) /\ Target(p) = Target(q) => p = q

PendingIsUnsent ==
  \A p \in Proc, m \in Message :
    Owns(p) /\ Pending(p, m) => sent[RunOf(p)][m] = 0

IInv ==
  /\ TypeOK
  /\ KindsFit
  /\ OwnedIsThere
  /\ OwnedIsStable
  /\ OneOwner
  /\ PendingIsUnsent
  /\ SentIsRecorded
  /\ SentAtMostOnce

-----------------------------------------------------------------------------

\* The path a writing call creates is one of the paths of the job.
LEMMA TargetIsPath ==
  ASSUME TypeOK, NEW p \in Proc, KindOf(p) \in WritingKind
  PROVE  Target(p) \in Path
BY DEF TypeOK, WritingKind, Target, Path, KindOf, RunOf, RecordOf, Operation,
       Kind, JobKind, Publishers, Claimers, Readers, JobRecord, RunRecord

\* The gate of a message is a path of the job.
LEMMA GateIsPath ==
  ASSUME NEW r \in Run, NEW m \in Message
  PROVE  GatePath(m, r) \in Path
BY DEF GatePath, Path, RunRecord, JobRecord, Message

\* A process that writes the gate of a message for a run is a sender of that
\* message, for that run, provided it writes what the gate asks for.
LEMMA GateOwner ==
  ASSUME TypeOK, NEW p \in Proc, KindOf(p) \in WritingKind,
         NEW r \in Run, NEW m \in Message,
         Target(p) = GatePath(m, r), ContentOf(KindOf(p)) = GateContent(m)
  PROVE  KindOf(p) = Sender(m) /\ RunOf(p) = r
BY DEF TypeOK, WritingKind, Target, GatePath, GateContent, ContentOf, RecordOf,
       Sender, Message, Publishers, Claimers

\* And a sender writes the gates of its messages.
LEMMA SenderWritesGate ==
  ASSUME NEW p, NEW m \in Message, KindOf(p) = Sender(m)
  PROVE  Target(p) = GatePath(m, RunOf(p)) /\ ContentOf(KindOf(p)) = GateContent(m)
BY DEF Target, GatePath, GateContent, ContentOf, RecordOf, Sender, Message

\* A sender serves a run.
LEMMA SenderHasRun ==
  ASSUME TypeOK, NEW p \in Proc, NEW m \in Message, KindOf(p) = Sender(m)
  PROVE  RunOf(p) \in Run
BY DEF TypeOK, Operation, KindOf, RunOf, Sender, Message, Kind, JobKind,
       Publishers, Claimers, Readers

-----------------------------------------------------------------------------
(* Types.                                                                  *)

\* Returning keeps the types of what it changes.
LEMMA ReturnType ==
  ASSUME TypeOK, NEW p \in Proc, Return(p)
  PROVE  /\ pc' \in [Proc -> Point]
         /\ op' \in [Proc -> Operation]
         /\ result' \in [Proc -> Result]
BY DEF TypeOK, Return, Goto, Point, Operation, NoOperation, JobKind, Result

\* A step of a process up to the creation of its record keeps the types.
LEMMA OperateType ==
  ASSUME TypeOK, NEW p \in Proc, Operate(p)
  PROVE  TypeOK'
<1> USE DEF files, history, Tell, Goto, Point
<1>1. ASSUME NEW k \in Kind, NEW r, <<k, r>> \in Operation,
             NEW point \in Point, Begin(p, k, r, point)
      PROVE  TypeOK'
  BY <1>1 DEF TypeOK, Begin
<1>2. ASSUME NEW k, NEW STATE c, Enter(p, k, c)
      PROVE  TypeOK'
  BY <1>2, ReturnType DEF TypeOK, Enter
<1>3. ASSUME NEW k, NEW STATE c, FirstSection(p, k, c)
      PROVE  TypeOK'
  BY <1>3, ReturnType DEF TypeOK, FirstSection
<1>4. ASSUME NEW k, NEW STATE c, NEW STATE claims,
             claims \in SUBSET (Path \X Content),
             Read(p, k, c, claims)
      PROVE  TypeOK'
  BY <1>4, ReturnType DEF TypeOK, Read
<1>5. \A r \in Run : \A k \in Kind \ JobKind : <<k, r>> \in Operation
  BY DEF Operation
<1>6. \A k \in Kind \intersect JobKind : <<k, Job>> \in Operation
  BY DEF Operation
<1>7. RunOf(p) \in Run \/ RunOf(p) = Job
  BY DEF TypeOK, RunOf, Operation
<1>8. CASE Lifecycle(p)
  BY <1>8, <1>1, <1>2, <1>3, <1>6 DEF Lifecycle, Kind, JobKind, Publishers
<1>9. CASE PersistPlan(p)
  BY <1>9, <1>1, <1>2, <1>3, <1>6 DEF PersistPlan, Kind, JobKind, Publishers
<1>10. CASE Queue(p)
  BY <1>10, <1>1, <1>2, <1>5 DEF Queue, Kind, JobKind, Publishers
<1>11. CASE PersistIntent(p)
  BY <1>11, <1>1, <1>2, <1>5 DEF PersistIntent, Kind, JobKind, Publishers
<1>12. CASE Cancel(p)
  BY <1>12, <1>1, <1>2, <1>5 DEF Cancel, Kind, JobKind, Publishers
<1>13. CASE Dispatch(p)
  BY <1>13, <1>1, <1>2, <1>5 DEF Dispatch, Kind, JobKind, Publishers
<1>14. CASE Deliver(p)
  BY <1>14, <1>1, <1>5 DEF Deliver, Kind, JobKind, Claimers
<1>15. CASE Execute(p)
  <2>1. CASE \E r \in Run : Begin(p, "execute", r, "first")
    BY <2>1, <1>1, <1>5 DEF Kind, JobKind, Claimers
  <2>2. CASE ~ \E r \in Run : Begin(p, "execute", r, "first")
    BY <2>2, <1>15, ReturnType DEF TypeOK, Execute
  <2> QED BY <2>1, <2>2
<1>16. CASE RecoverPlanned(p)
  <2>1. {<<<<"initial", Job>>, "present">>} \in SUBSET (Path \X Content)
    BY DEF Path, JobRecord, Content
  <2> QED BY <2>1, <1>16, <1>1, <1>3, <1>4, <1>6
          DEF RecoverPlanned, Kind, JobKind, Readers
<1>17. ASSUME NEW k \in Readers \ JobKind, NEW STATE c,
              NEW f \in RunRecord, NEW v \in Content,
              \/ \E r \in Run : Begin(p, k, r, "entry")
              \/ Read(p, k, c, {<<<<f, RunOf(p)>>, v>>})
       PROVE  TypeOK'
  <2>1. CASE \E r \in Run : Begin(p, k, r, "entry")
    BY <2>1, <1>1, <1>5 DEF Kind
  <2>2. CASE Read(p, k, c, {<<<<f, RunOf(p)>>, v>>})
    <3>1. KindOf(p) = k
      BY <2>2 DEF Read
    <3>2. RunOf(p) \in Run
      BY <3>1 DEF TypeOK, RunOf, KindOf, Operation
    <3>3. {<<<<f, RunOf(p)>>, v>>} \in SUBSET (Path \X Content)
      BY <3>2 DEF Path
    <3> QED BY <2>2, <3>3, <1>4
  <2> QED BY <1>17, <2>1, <2>2
<1>18. CASE RecoverQueued(p)
  BY <1>18, <1>17 DEF RecoverQueued, Readers, JobKind, RunRecord, Content
<1>19. CASE RecoverIntent(p)
  BY <1>19, <1>17 DEF RecoverIntent, Readers, JobKind, RunRecord, Content
<1>20. CASE RecoverCancelled(p)
  BY <1>20, <1>17 DEF RecoverCancelled, Readers, JobKind, RunRecord, Content
<1>21. CASE RecoverDispatching(p)
  BY <1>21, <1>17 DEF RecoverDispatching, Readers, JobKind, RunRecord, Content
<1> QED
  BY <1>8, <1>9, <1>10, <1>11, <1>12, <1>13, <1>14, <1>15, <1>16, <1>18, <1>19,
     <1>20, <1>21 DEF Operate

\* Counting a message keeps the type of the counters.
LEMMA CountType ==
  ASSUME NEW s \in [Run -> [Message -> Nat]], NEW r \in Run, NEW m \in Message
  PROVE  /\ [s EXCEPT ![r][m] = @ + 1] \in [Run -> [Message -> Nat]]
         /\ \A r2 \in Run, m2 \in Message :
               [s EXCEPT ![r][m] = @ + 1][r2][m2] =
                 IF r2 = r /\ m2 = m THEN s[r][m] + 1 ELSE s[r2][m2]
<1>1. s[r] \in [Message -> Nat] /\ s[r][m] + 1 \in Nat
  OBVIOUS
<1>2. [s[r] EXCEPT ![m] = @ + 1] \in [Message -> Nat]
  BY <1>1
<1>3. [s EXCEPT ![r][m] = @ + 1] = [s EXCEPT ![r] = [s[r] EXCEPT ![m] = @ + 1]]
  OBVIOUS
<1> QED BY <1>1, <1>2, <1>3

\* A step of a process from the creation of its record on keeps the types.
LEMMA ProceedType ==
  ASSUME TypeOK, KindsFit, NEW p \in Proc, Proceed(p)
  PROVE  TypeOK'
<1> USE DEF files, history, Tell, Goto, Unlock, Point, Result
<1>1. ContentOf(KindOf(p)) \in Content
  BY DEF ContentOf, Content
<1>2. CASE Link(p)
  BY <1>1, <1>2 DEF TypeOK, Link, CreateRecord
<1>3. CASE Replay(p)
  BY <1>3 DEF TypeOK, Replay
<1>4. CASE Refuse(p)
  BY <1>4, ReturnType DEF TypeOK, Refuse
<1>5. CASE Claim(p)
  BY <1>1, <1>5 DEF TypeOK, Claim, CreateRecord
<1>6. CASE AlreadyClaimed(p)
  BY <1>6, ReturnType DEF TypeOK, AlreadyClaimed
<1>7. CASE Confirm(p)
  BY <1>7 DEF TypeOK, Confirm
<1>8. CASE Rollback(p)
  <2>1. disk' \in [Path -> Content] /\ stable' \in [Path -> Content]
    BY <1>8 DEF TypeOK, Rollback, Content
  <2> QED BY <1>8, <2>1, ReturnType DEF TypeOK, Rollback
<1>9. CASE SyncDirectory(p)
  BY <1>9 DEF TypeOK, SyncDirectory, Sync
<1>10. CASE Leave(p)
  <2>1. Target(p) \in Path
    BY <1>10, TargetIsPath DEF Leave, KindsFit, WritingKind
  <2>2. told' \subseteq Path \X Content
    BY <1>1, <1>10, <2>1 DEF Leave, TypeOK
  <2> QED BY <1>10, <2>2, ReturnType DEF TypeOK, Leave
<1>11. CASE Provision(p)
  <2>1. RunOf(p) \in Run
    BY <1>11, SenderHasRun DEF Provision, KindsFit, Sender, Message
  <2>2. sent' \in [Run -> [Message -> Nat]]
    BY <1>11, <2>1, CountType DEF Provision, TypeOK, Message
  <2> QED BY <1>11, <2>2 DEF TypeOK, Provision
<1>12. CASE PlanAnswered(p)
  BY <1>12, ReturnType DEF TypeOK, PlanAnswered
<1>13. CASE Send(p)
  <2>1. RunOf(p) \in Run /\ MessageOf(KindOf(p)) \in Message
    BY <1>13, SenderHasRun
       DEF Send, KindsFit, Sender, Message, MessageOf, Claimers
  <2>2. sent' \in [Run -> [Message -> Nat]]
    BY <1>13, <2>1, CountType DEF Send, TypeOK
  <2> QED BY <1>13, <2>2 DEF TypeOK, Send
<1>14. CASE Answered(p)
  <2>1. RunOf(p) \in Run /\ MessageOf(KindOf(p)) \in Message
    BY <1>14, SenderHasRun
       DEF Answered, KindsFit, Sender, Message, MessageOf, Claimers
  <2>2. evidence' \subseteq Message \X Run
    BY <1>14, <2>1 DEF TypeOK, Answered
  <2> QED BY <1>14, <2>2, ReturnType DEF TypeOK, Answered
<1> QED
  BY <1>2, <1>3, <1>4, <1>5, <1>6, <1>7, <1>8, <1>9, <1>10, <1>11, <1>12,
     <1>13, <1>14 DEF Proceed

\* Crashes, power failures and alterations of the source keep the types.
LEMMA EnvironmentType ==
  ASSUME TypeOK
  PROVE  /\ \A p \in Proc : Crash(p) => TypeOK'
         /\ PowerFail => TypeOK'
         /\ ChangeSource => TypeOK'
<1>1. ASSUME NEW p \in Proc, Crash(p) PROVE TypeOK'
  BY <1>1, ReturnType DEF TypeOK, Crash, Unlock, files, history
<1>2. ASSUME PowerFail PROVE TypeOK'
  <2>1. disk' \in [Path -> Content]
    BY <1>2 DEF PowerFail, TypeOK
  <2>2. NoOperation \in Operation
    BY DEF NoOperation, Operation, JobKind
  <2> QED BY <1>2, <2>1, <2>2 DEF PowerFail, TypeOK, Point, Result
<1>3. ASSUME ChangeSource PROVE TypeOK'
  BY <1>3 DEF TypeOK, ChangeSource, files, history
<1> QED BY <1>1, <1>2, <1>3

-----------------------------------------------------------------------------
(* The invariant.                                                          *)

\* Sends, creations and syncs apart, a step leaves the records, the counters
\* and every other process alone, and gives its own process no record.
Quiet(p) ==
  /\ UNCHANGED <<files, sent>>
  /\ \A q \in Proc \ {p} : /\ pc'[q] = pc[q]
                           /\ op'[q] = op[q]
                           /\ result'[q] = result[q]
  /\ \/ pc'[p] \in {"idle", "first", "entry", "linking"}
     \/ /\ pc'[p] = "leaving" /\ result'[p] = "replay"
        /\ op'[p] = op[p] /\ KindOf(p) \in Publishers

\* A quiet step keeps the invariant: nobody owns more than before.
LEMMA QuietStep ==
  ASSUME IInv, NEW p \in Proc, Quiet(p), TypeOK'
  PROVE  IInv'
<1> USE DEF Quiet, files
<1>1. ~Owns(p)' 
  BY DEF Owns, TypeOK
<1>2. \A q \in Proc \ {p} : /\ Owns(q)' = Owns(q)
                           /\ Target(q)' = Target(q)
                           /\ KindOf(q)' = KindOf(q)
                           /\ RunOf(q)' = RunOf(q)
  BY DEF Owns, Target, KindOf, RunOf
<1>3. KindsFit'
  BY <1>2 DEF IInv, KindsFit, KindOf
<1>4. OwnedIsThere'
  BY <1>1, <1>2 DEF IInv, OwnedIsThere
<1>5. OwnedIsStable'
  BY <1>1, <1>2 DEF IInv, OwnedIsStable
<1>6. OneOwner'
  BY <1>1, <1>2 DEF IInv, OneOwner
<1>7. PendingIsUnsent'
  BY <1>1, <1>2 DEF IInv, PendingIsUnsent, Pending
<1>8. SentIsRecorded' /\ SentAtMostOnce'
  BY DEF IInv, SentIsRecorded, SentAtMostOnce
<1> QED BY <1>3, <1>4, <1>5, <1>6, <1>7, <1>8 DEF IInv

\* Returning gives up every record.
LEMMA ReturnIsQuiet ==
  ASSUME TypeOK, NEW p \in Proc, Return(p), UNCHANGED <<files, sent>>
  PROVE  Quiet(p)
BY DEF TypeOK, Return, Goto, Quiet

\* So is every step that comes before the creation of a record.
LEMMA OperateIsQuiet ==
  ASSUME TypeOK, NEW p \in Proc, Operate(p)
  PROVE  Quiet(p)
<1> USE DEF history
<1>1. ASSUME NEW k, NEW r, NEW point \in {"first", "entry", "linking"},
             Begin(p, k, r, point)
      PROVE  Quiet(p)
  BY <1>1 DEF Begin, Goto, Quiet, TypeOK
<1>2. ASSUME NEW k, NEW STATE c, Enter(p, k, c)
      PROVE  Quiet(p)
  BY <1>2, ReturnIsQuiet DEF Enter, Goto, Quiet, TypeOK
<1>3. ASSUME NEW k, NEW STATE c, FirstSection(p, k, c)
      PROVE  Quiet(p)
  BY <1>3, ReturnIsQuiet DEF FirstSection, Goto, Quiet, TypeOK
<1>4. ASSUME NEW k, NEW STATE c, NEW STATE claims, Read(p, k, c, claims)
      PROVE  Quiet(p)
  BY <1>4, ReturnIsQuiet DEF Read
<1>5. CASE Execute(p)
  <2>1. CASE \E r \in Run : Begin(p, "execute", r, "first")
    BY <2>1, <1>1
  <2>2. CASE ~ \E r \in Run : Begin(p, "execute", r, "first")
    BY <2>2, <1>5, ReturnIsQuiet DEF Execute, Goto, Quiet, TypeOK
  <2> QED BY <2>1, <2>2
<1>6. CASE ~Execute(p)
  BY <1>6, <1>1, <1>2, <1>3, <1>4
     DEF Operate, Lifecycle, PersistPlan, Queue, PersistIntent, Cancel, Dispatch,
         Deliver, RecoverPlanned, RecoverQueued, RecoverIntent, RecoverCancelled,
         RecoverDispatching
<1> QED BY <1>5, <1>6

\* Creating a record keeps the invariant: the path was absent, so it had no
\* owner and, if it is a gate, nothing was sent through it.
LEMMA CreateStep ==
  ASSUME IInv, TypeOK', NEW p \in Proc,
         KindOf(p) \in WritingKind, pc[p] = "linking",
         CreateRecord(p),
         \/ Goto(p, "published") /\ KindOf(p) \in Publishers
         \/ Goto(p, "syncing")
  PROVE  IInv'
<1> DEFINE f == Target(p)
           c == ContentOf(KindOf(p))
<1> USE DEF history, CreateRecord, Goto
<1>1. f \in Path /\ c # "absent"
  BY TargetIsPath DEF IInv, ContentOf
<1>2. \A g \in Path : disk'[g] = IF g = f THEN c ELSE disk[g]
  BY <1>1 DEF IInv, TypeOK
<1>3. \A q \in Proc : /\ KindOf(q)' = KindOf(q)
                     /\ RunOf(q)' = RunOf(q)
                     /\ Target(q)' = Target(q)
  BY DEF KindOf, RunOf, Target
<1>4. \A q \in Proc \ {p} : pc'[q] = pc[q] /\ Owns(q)' = Owns(q)
  BY DEF IInv, TypeOK, Owns
<1>5. pc'[p] \in {"published", "syncing"} /\ Owns(p)'
  BY DEF IInv, TypeOK, Owns
<1>6. \A q \in Proc : Owns(q) => Target(q) \in Path /\ Target(q) # f
  BY <1>1, TargetIsPath
     DEF IInv, KindsFit, OwnedIsThere, Owns, WritingKind, Publishers, Claimers,
         ContentOf
<1>7. KindsFit'
  BY <1>3, <1>4, <1>5 DEF IInv, KindsFit, TypeOK
<1>8. OwnedIsThere'
  BY <1>1, <1>2, <1>3, <1>4, <1>6 DEF IInv, OwnedIsThere
<1>9. OwnedIsStable'
  BY <1>3, <1>4, <1>5 DEF IInv, OwnedIsStable
<1>10. OneOwner'
  BY <1>3, <1>4, <1>6 DEF IInv, OneOwner
<1>11. PendingIsUnsent'
  <2> SUFFICES ASSUME NEW q \in Proc, NEW m \in Message,
                      Owns(q)', Pending(q, m)'
               PROVE  sent[RunOf(q)][m] = 0
    BY <1>3 DEF PendingIsUnsent
  <2>1. CASE q # p
    BY <2>1, <1>3, <1>4 DEF IInv, PendingIsUnsent, Pending
  <2>2. CASE q = p
    <3>1. KindOf(p) = Sender(m)
      BY <2>2, <1>3 DEF Pending
    <3>2. f = GatePath(m, RunOf(p)) /\ RunOf(p) \in Run
      BY <3>1, SenderWritesGate, SenderHasRun DEF IInv
    <3>3. sent[RunOf(p)][m] \in Nat
      BY <3>2 DEF IInv, TypeOK
    <3>4. ~(sent[RunOf(p)][m] > 0)
      BY <3>2 DEF IInv, SentIsRecorded, GateContent
    <3> QED BY <2>2, <3>3, <3>4
  <2> QED BY <2>1, <2>2
<1>12. SentIsRecorded'
  BY <1>1, <1>2, GateIsPath DEF IInv, SentIsRecorded, GateContent
<1>13. SentAtMostOnce'
  BY DEF IInv, SentAtMostOnce
<1> QED BY <1>7, <1>8, <1>9, <1>10, <1>11, <1>12, <1>13 DEF IInv

\* Rolling back keeps the invariant: the path has no other owner, and its
\* publisher has not sent anything yet.
LEMMA RollbackStep ==
  ASSUME IInv, TypeOK', NEW p \in Proc, Rollback(p)
  PROVE  IInv'
<1> DEFINE f == Target(p)
<1> USE DEF history, Rollback
<1>1. f \in Path /\ Owns(p) /\ KindOf(p) \in Publishers
  BY TargetIsPath DEF IInv, KindsFit, WritingKind, Owns
<1>2. \A g \in Path : disk'[g] = IF g = f THEN "absent" ELSE disk[g]
  BY <1>1 DEF IInv, TypeOK
<1>3. \A g \in Path : stable'[g] = disk'[g] \/ stable'[g] = stable[g]
  OBVIOUS
<1>4. \A q \in Proc \ {p} : /\ pc'[q] = pc[q]
                           /\ KindOf(q)' = KindOf(q)
                           /\ RunOf(q)' = RunOf(q)
                           /\ Target(q)' = Target(q)
                           /\ Owns(q)' = Owns(q)
  BY DEF Return, Goto, IInv, TypeOK, KindOf, RunOf, Target, Owns
<1>5. pc'[p] = "idle" /\ ~Owns(p)'
  BY DEF Return, Goto, IInv, TypeOK, Owns
<1>6. \A q \in Proc \ {p} : Owns(q) => Target(q) # f /\ Target(q) \in Path
  BY <1>1, TargetIsPath
     DEF IInv, OneOwner, KindsFit, WritingKind, Owns, Publishers, Claimers
<1>7. KindsFit'
  BY <1>4, <1>5 DEF IInv, KindsFit
<1>8. OwnedIsThere'
  BY <1>2, <1>4, <1>5, <1>6 DEF IInv, OwnedIsThere
<1>9. OwnedIsStable'
  BY <1>2, <1>3, <1>4, <1>5, <1>6, <1>8 DEF IInv, OwnedIsStable, OwnedIsThere
<1>10. OneOwner'
  BY <1>4, <1>5 DEF IInv, OneOwner
<1>11. PendingIsUnsent'
  BY <1>4, <1>5 DEF IInv, PendingIsUnsent, Pending
<1>12. ASSUME NEW r \in Run, NEW m \in Message, sent[r][m] > 0
       PROVE  GatePath(m, r) # f
  <2> SUFFICES ASSUME GatePath(m, r) = f PROVE FALSE
    OBVIOUS
  <2>1. ContentOf(KindOf(p)) = GateContent(m)
    BY <1>1, <1>12 DEF IInv, OwnedIsThere, SentIsRecorded
  <2>2. KindOf(p) = Sender(m) /\ RunOf(p) = r
    BY <1>1, <2>1, GateOwner DEF IInv, WritingKind
  <2>3. Pending(p, m)
    BY <2>2 DEF Pending
  <2> QED BY <1>1, <1>12, <2>2, <2>3 DEF IInv, PendingIsUnsent, TypeOK
<1>13. SentIsRecorded'
  BY <1>2, <1>3, <1>12, GateIsPath DEF IInv, SentIsRecorded
<1>14. SentAtMostOnce'
  BY DEF IInv, SentAtMostOnce
<1> QED BY <1>7, <1>8, <1>9, <1>10, <1>11, <1>13, <1>14 DEF IInv

\* Syncing a directory only makes what is on disk stable.
LEMMA SyncStep ==
  ASSUME IInv, TypeOK', NEW p \in Proc, SyncDirectory(p)
  PROVE  IInv'
<1> USE DEF history, SyncDirectory, Goto
<1>1. Target(p) \in Path /\ Owns(p)
  BY TargetIsPath DEF IInv, KindsFit, Owns
<1>2. \A g \in Path : stable'[g] = disk[g] \/ stable'[g] = stable[g]
  BY DEF Sync
<1>3. stable'[Target(p)] = disk[Target(p)]
  BY <1>1 DEF Sync, SameDirectory
<1>4. \A q \in Proc : /\ KindOf(q)' = KindOf(q)
                     /\ RunOf(q)' = RunOf(q)
                     /\ Target(q)' = Target(q)
  BY DEF KindOf, RunOf, Target
<1>41. \A q \in Proc : Owns(q)' => Owns(q)
  BY <1>1 DEF IInv, TypeOK, Owns
<1>5. /\ pc'[p] = IF KindOf(p) \in Claimers THEN "sending" ELSE "leaving"
      /\ \A q \in Proc \ {p} : pc'[q] = pc[q]
  BY DEF IInv, TypeOK
<1>6. KindsFit'
  BY <1>4, <1>5 DEF IInv, KindsFit, WritingKind
<1>7. OwnedIsThere' /\ OneOwner'
  BY <1>4, <1>41 DEF IInv, OwnedIsThere, OneOwner
<1>8. \A q \in Proc : Owns(q) => Target(q) \in Path
  BY TargetIsPath DEF IInv, KindsFit, WritingKind, Owns, Publishers, Claimers
<1>9. OwnedIsStable'
  BY <1>2, <1>3, <1>4, <1>41, <1>5, <1>8 DEF IInv, OwnedIsStable, OwnedIsThere
<1>10. PendingIsUnsent'
  <2> SUFFICES ASSUME NEW q \in Proc, NEW m \in Message,
                      Owns(q)', Pending(q, m)'
               PROVE  sent[RunOf(q)][m] = 0
    BY <1>4 DEF PendingIsUnsent
  <2>1. Pending(q, m)
    BY <1>4, <1>5 DEF Pending
  <2> QED BY <2>1, <1>4, <1>41 DEF IInv, PendingIsUnsent
<1>11. SentIsRecorded' /\ SentAtMostOnce'
  BY <1>2, GateIsPath DEF IInv, SentIsRecorded, SentAtMostOnce
<1> QED BY <1>6, <1>7, <1>9, <1>10, <1>11 DEF IInv

\* Steps that keep what their process owns and move it towards its sends.
LEMMA OnwardStep ==
  ASSUME IInv, TypeOK', NEW p \in Proc,
         UNCHANGED <<files, sent, op, result>>,
         \/ /\ pc[p] = "published" /\ pc' = [pc EXCEPT ![p] = "syncing"]
         \/ /\ pc[p] = "leaving" /\ result[p] = "written"
            /\ KindOf(p) = "dispatch"
            /\ pc' = [pc EXCEPT ![p] = "provisioning"]
         \/ pc[p] = "awaitingPlan" /\ pc' = [pc EXCEPT ![p] = "sending"]
  PROVE  IInv'
<1> USE DEF files
<1>1. \A q \in Proc : /\ KindOf(q)' = KindOf(q)
                     /\ RunOf(q)' = RunOf(q)
                     /\ Target(q)' = Target(q)
                     /\ Owns(q)' = Owns(q)
  BY DEF IInv, TypeOK, KindOf, RunOf, Target, Owns
<1>2. KindsFit'
  BY <1>1 DEF IInv, KindsFit, TypeOK, WritingKind
<1>3. OwnedIsThere' /\ OneOwner'
  BY <1>1 DEF IInv, OwnedIsThere, OneOwner
<1>4. OwnedIsStable'
  BY <1>1 DEF IInv, OwnedIsStable, TypeOK
<1>5. PendingIsUnsent'
  <2> SUFFICES ASSUME NEW q \in Proc, NEW m \in Message,
                      Owns(q)', Pending(q, m)'
               PROVE  sent[RunOf(q)][m] = 0
    BY <1>1 DEF PendingIsUnsent
  <2>1. Pending(q, m)
    <3>1. KindOf(q) = Sender(m)
      BY <1>1 DEF Pending
    <3>2. pc[q] = "awaitingPlan" => m = "dispatch"
      <4> SUFFICES ASSUME pc[q] = "awaitingPlan" PROVE m = "dispatch"
        OBVIOUS
      <4>1. pc'[q] \in {"sending", "awaitingPlan"} /\ KindOf(q) = "dispatch"
        BY DEF IInv, TypeOK, KindsFit
      <4>2. m # "provision" \/ m = "dispatch"
        BY <4>1 DEF Pending
      <4> QED BY <3>1, <4>1, <4>2 DEF Sender, Message
    <3>3. pc[q] = "sending" => m # "provision"
      BY DEF Pending, IInv, TypeOK
    <3> QED BY <3>1, <3>2, <3>3 DEF Pending
  <2> QED BY <2>1, <1>1 DEF IInv, PendingIsUnsent
<1>7. SentIsRecorded' /\ SentAtMostOnce'
  BY DEF IInv, SentIsRecorded, SentAtMostOnce
<1> QED BY <1>2, <1>3, <1>4, <1>5, <1>7 DEF IInv

\* Sending keeps the invariant: the gate is stable, the message was not sent
\* before, and no other process has the record to send it.
LEMMA SendStep ==
  ASSUME IInv, TypeOK', NEW p \in Proc, NEW m \in Message,
         Owns(p), Pending(p, m),
         \/ /\ pc[p] = "provisioning" /\ m = "provision"
            /\ pc' = [pc EXCEPT ![p] = "awaitingPlan"]
         \/ pc[p] = "sending" /\ pc' = [pc EXCEPT ![p] = "awaiting"],
         sent' = [sent EXCEPT ![RunOf(p)][m] = @ + 1],
         UNCHANGED <<files, op, result>>
  PROVE  IInv'
<1> USE DEF files
<1>1. RunOf(p) \in Run /\ KindOf(p) = Sender(m)
  BY SenderHasRun DEF IInv, Pending
<1>2. \A r \in Run, n \in Message :
        sent'[r][n] = IF r = RunOf(p) /\ n = m THEN sent[r][n] + 1 ELSE sent[r][n]
  BY <1>1, CountType DEF IInv, TypeOK
<1>3. sent[RunOf(p)][m] = 0
  BY DEF IInv, PendingIsUnsent
<1>4. \A q \in Proc : /\ KindOf(q)' = KindOf(q)
                     /\ RunOf(q)' = RunOf(q)
                     /\ Target(q)' = Target(q)
  BY DEF KindOf, RunOf, Target
<1>5. \A q \in Proc \ {p} : pc'[q] = pc[q] /\ Owns(q)' = Owns(q)
  BY DEF IInv, TypeOK, Owns
<1>6. pc'[p] \in {"awaitingPlan", "awaiting"}
  BY DEF IInv, TypeOK
<1>7. pc'[p] = "awaitingPlan" => pc[p] = "provisioning" /\ m = "provision"
  BY DEF IInv, TypeOK
<1>8. KindsFit'
  BY <1>4, <1>5, <1>6, <1>7 DEF IInv, KindsFit, TypeOK
<1>9. OwnedIsThere'
  BY <1>4, <1>5 DEF IInv, OwnedIsThere
<1>10. stable[Target(p)] = ContentOf(KindOf(p)) /\ disk[Target(p)] = ContentOf(KindOf(p))
  BY DEF IInv, OwnedIsStable, OwnedIsThere
<1>11. OwnedIsStable'
  BY <1>4, <1>5, <1>10 DEF IInv, OwnedIsStable
<1>12. OneOwner'
  BY <1>4, <1>5 DEF IInv, OneOwner
<1>13. PendingIsUnsent'
  <2> SUFFICES ASSUME NEW q \in Proc, NEW n \in Message,
                      Owns(q)', Pending(q, n)'
               PROVE  sent'[RunOf(q)][n] = 0
    BY <1>4 DEF PendingIsUnsent
  <2>1. RunOf(q) \in Run /\ KindOf(q) = Sender(n)
    BY <1>4, SenderHasRun DEF IInv, Pending
  <2>2. CASE q = p
    <3>1. n = "dispatch" /\ m = "provision"
      BY <1>6, <1>7, <2>2 DEF Pending, Owns, IInv, TypeOK
    <3>2. Pending(p, n)
      BY <2>1, <2>2, <3>1, <1>6, <1>7 DEF Pending, Owns, IInv, TypeOK
    <3> QED BY <1>2, <2>1, <2>2, <3>1, <3>2 DEF IInv, PendingIsUnsent
  <2>3. CASE q # p
    <3>1. Owns(q) /\ Pending(q, n)
      BY <1>4, <1>5, <2>3 DEF Pending
    <3>2. sent[RunOf(q)][n] = 0
      BY <3>1 DEF IInv, PendingIsUnsent
    <3>3. ~(RunOf(q) = RunOf(p) /\ n = m)
      BY <1>1, <2>1, <2>3, <3>1, SenderWritesGate DEF IInv, OneOwner
    <3> QED BY <1>2, <2>1, <3>2, <3>3
  <2> QED BY <2>2, <2>3
<1>14. SentIsRecorded'
  BY <1>1, <1>2, <1>10, SenderWritesGate DEF IInv, SentIsRecorded
<1>15. SentAtMostOnce'
  BY <1>2, <1>3 DEF IInv, SentAtMostOnce
<1> QED BY <1>8, <1>9, <1>11, <1>12, <1>13, <1>14, <1>15 DEF IInv

\* A power failure keeps the invariant: nobody owns anything afterwards, and
\* the gates of what was sent survive.
LEMMA PowerFailStep ==
  ASSUME IInv, TypeOK', PowerFail
  PROVE  IInv'
<1>1. \A f \in Path : disk'[f] \in {disk[f], stable[f]} /\ stable'[f] = disk'[f]
  BY DEF PowerFail
<1>2. \A p \in Proc : pc'[p] = "idle" /\ ~Owns(p)'
  BY DEF PowerFail, Owns
<1>3. KindsFit'
  BY <1>2 DEF KindsFit
<1>4. OwnedIsThere' /\ OwnedIsStable' /\ OneOwner' /\ PendingIsUnsent'
  BY <1>2 DEF OwnedIsThere, OwnedIsStable, OneOwner, PendingIsUnsent
<1>5. SentIsRecorded' /\ SentAtMostOnce'
  BY <1>1, GateIsPath DEF PowerFail, IInv, SentIsRecorded, SentAtMostOnce
<1> QED BY <1>3, <1>4, <1>5 DEF IInv

\* Every step of the specification keeps the invariant.
LEMMA IInvStep ==
  ASSUME IInv, [Next]_vars
  PROVE  IInv'
<1> USE DEF files, history
<1>1. ASSUME NEW p \in Proc, Operate(p) PROVE IInv'
  BY <1>1, OperateType, OperateIsQuiet, QuietStep DEF IInv
<1>2. ASSUME NEW p \in Proc, Proceed(p) PROVE IInv'
  <2>1. TypeOK'
    BY <1>2, ProceedType DEF IInv
  <2>2. CASE Link(p)
    BY <2>1, <2>2, CreateStep DEF Link, WritingKind
  <2>3. CASE Claim(p)
    BY <2>1, <2>3, CreateStep DEF Claim, WritingKind
  <2>4. CASE Replay(p)
    <3>1. Quiet(p)
      BY <2>4 DEF Replay, Quiet, Goto, IInv, TypeOK
    <3> QED BY <2>1, <3>1, QuietStep
  <2>5. CASE Refuse(p) \/ AlreadyClaimed(p)
    <3>1. Quiet(p)
      BY <2>5, ReturnIsQuiet DEF Refuse, AlreadyClaimed, IInv
    <3> QED BY <2>1, <3>1, QuietStep
  <2>6. CASE Confirm(p)
    BY <2>1, <2>6, OnwardStep DEF Confirm, Goto
  <2>7. CASE Rollback(p)
    BY <2>1, <2>7, RollbackStep
  <2>8. CASE SyncDirectory(p)
    BY <2>1, <2>8, SyncStep
  <2>9. CASE Leave(p)
    <3>1. CASE Intact /\ Dispatches(p)
      BY <2>1, <2>9, <3>1, OnwardStep DEF Leave, Dispatches, Goto
    <3>2. CASE ~(Intact /\ Dispatches(p))
      <4>1. Quiet(p)
        BY <2>9, <3>2, ReturnIsQuiet DEF Leave, Dispatches, IInv
      <4> QED BY <2>1, <4>1, QuietStep
    <3> QED BY <3>1, <3>2
  <2>10. CASE Provision(p)
    <3>1. Owns(p) /\ Pending(p, "provision")
      BY <2>10 DEF Provision, Owns, Pending, Sender, IInv, KindsFit
    <3> QED BY <2>1, <2>10, <3>1, SendStep DEF Provision, Goto, Message
  <2>11. CASE PlanAnswered(p)
    <3>1. CASE Return(p)
      <4>1. Quiet(p)
        BY <2>11, <3>1, ReturnIsQuiet DEF PlanAnswered, IInv
      <4> QED BY <2>1, <4>1, QuietStep
    <3>2. CASE ~Return(p)
      BY <2>1, <2>11, <3>2, OnwardStep DEF PlanAnswered, Goto
    <3> QED BY <3>1, <3>2
  <2>12. CASE Send(p)
    <3>1. /\ MessageOf(KindOf(p)) \in Message
          /\ Owns(p) /\ Pending(p, MessageOf(KindOf(p)))
      BY <2>12 DEF Send, Owns, Pending, Sender, MessageOf, Message, IInv,
                   KindsFit, Claimers
    <3> QED BY <2>1, <2>12, <3>1, SendStep DEF Send, Goto
  <2>13. CASE Answered(p)
    <3>1. Quiet(p)
      BY <2>13, ReturnIsQuiet DEF Answered, IInv
    <3> QED BY <2>1, <3>1, QuietStep
  <2> QED
    BY <1>2, <2>2, <2>3, <2>4, <2>5, <2>6, <2>7, <2>8, <2>9, <2>10, <2>11,
       <2>12, <2>13 DEF Proceed
<1>3. ASSUME NEW p \in Proc, Crash(p) PROVE IInv'
  <2>1. Quiet(p)
    BY <1>3, ReturnIsQuiet DEF Crash, IInv
  <2> QED BY <1>3, <2>1, QuietStep, EnvironmentType DEF IInv
<1>4. ASSUME PowerFail PROVE IInv'
  BY <1>4, PowerFailStep, EnvironmentType DEF IInv
<1>5. ASSUME ChangeSource \/ UNCHANGED vars PROVE IInv'
  <2>1. UNCHANGED <<disk, stable, pc, op, result, sent>>
    BY <1>5 DEF ChangeSource, vars
  <2>2. TypeOK'
    BY <1>5, EnvironmentType DEF IInv, vars, TypeOK
  <2> QED BY <2>1, <2>2
          DEF IInv, KindsFit, OwnedIsThere, OwnedIsStable, OneOwner,
              PendingIsUnsent, Pending, SentIsRecorded, SentAtMostOnce, Owns,
              KindOf, RunOf, Target
<1> QED BY <1>1, <1>2, <1>3, <1>4, <1>5 DEF Next

\* The empty store satisfies the invariant.
LEMMA IInvInit == Init => IInv
<1> SUFFICES ASSUME Init PROVE IInv
  OBVIOUS
<1>1. TypeOK
  BY DEF Init, TypeOK, Content, Point, Operation, NoOperation, JobKind, Result
<1>2. \A p \in Proc : pc[p] = "idle" /\ ~Owns(p)
  BY DEF Init, Owns
<1> QED BY <1>1, <1>2
        DEF Init, IInv, KindsFit, OwnedIsThere, OwnedIsStable, OneOwner,
            PendingIsUnsent, SentIsRecorded, SentAtMostOnce, Message

-----------------------------------------------------------------------------

\* The invariant holds of every behaviour.
THEOREM Invariance == Spec => []IInv
BY IInvInit, IInvStep, PTL DEF Spec

\* The state of the gateway keeps its types.
THEOREM TypeCorrect == Spec => []TypeOK
BY Invariance, PTL DEF IInv

\* No message leaves for a run twice, whatever crashes, races, alters the
\* source or loses the power.
THEOREM SendsOnce == Spec => []SentAtMostOnce
BY Invariance, PTL DEF IInv

\* Whatever was sent is accounted for by a record on stable storage.
THEOREM SendsRecorded == Spec => []SentIsRecorded
BY Invariance, PTL DEF IInv

-----------------------------------------------------------------------------
(* What a call was told.                                                   *)

\* p is in a critical section that writes.
InSection(p) ==
  \/ pc[p] \in {"published", "leaving"}
  \/ pc[p] \in {"linking", "syncing"} /\ KindOf(p) \in Publishers

LockHeld == \A p \in Proc : InSection(p) => lock = p

ContentFits ==
  \A f \in Path :
    disk[f] \in IF f[1] = "second" THEN {"absent", "cancelled", "dispatching"}
                                   ELSE {"absent", "present"}

LeavingIsSettled ==
  \A p \in Proc : pc[p] = "leaving" =>
    Settled(Target(p)) /\ disk[Target(p)] = ContentOf(KindOf(p))

InitialIsSettled ==
  \A p \in Proc : pc[p] = "entry" /\ KindOf(p) = "recoverPlanned" =>
    Settled(<<"initial", Job>>)

ToldIsSettled ==
  \A claim \in told : Settled(claim[1]) /\ disk[claim[1]] = claim[2]

LockInv == IInv /\ LockHeld

TInv ==
  /\ LockInv
  /\ ContentFits
  /\ LeavingIsSettled
  /\ InitialIsSettled
  /\ ToldIsSettled

-----------------------------------------------------------------------------
(* The lock.                                                               *)

\* One step of one process, which may begin, enter, or leave a section.
LockStep(p) ==
  /\ \A q \in Proc \ {p} : pc'[q] = pc[q] /\ op'[q] = op[q]
  /\ \/ lock' = lock /\ (InSection(p)' => InSection(p))
     \/ lock = NoProc /\ lock' = p
     \/ lock' = (IF lock = p THEN NoProc ELSE lock) /\ ~InSection(p)'

\* Such a step keeps the lock with whoever is in a section.
LEMMA LockStepKeeps ==
  ASSUME LockHeld, NEW p \in Proc, LockStep(p)
  PROVE  LockHeld'
<1>1. \A q \in Proc \ {p} : InSection(q)' = InSection(q)
  BY DEF LockStep, InSection, KindOf
<1>2. \A q \in Proc : InSection(q) => lock = q /\ lock # NoProc
  BY NoProcAssumption DEF LockHeld
<1> QED
  BY <1>1, <1>2 DEF LockStep, LockHeld

\* A call that returns and unlocks, or never had the lock, is such a step.
LEMMA ReturnLocks ==
  ASSUME TypeOK, NEW p \in Proc, Return(p), Unlock(p) \/ lock' = lock
  PROVE  LockStep(p)
BY DEF TypeOK, Return, Goto, Unlock, LockStep, InSection

\* The steps up to the creation of a record.
LEMMA OperateLocks ==
  ASSUME TypeOK, NEW p \in Proc, Operate(p)
  PROVE  LockStep(p)
<1>1. ASSUME NEW k, NEW r, NEW point \in {"first", "entry"}, Begin(p, k, r, point)
      PROVE  LockStep(p)
  BY <1>1 DEF Begin, Goto, LockStep, InSection, TypeOK
<1>2. ASSUME NEW k, NEW STATE c, Enter(p, k, c)
      PROVE  LockStep(p)
  BY <1>2, ReturnLocks DEF Enter, Goto, LockStep, InSection, TypeOK
<1>3. ASSUME NEW k, NEW STATE c, FirstSection(p, k, c)
      PROVE  LockStep(p)
  BY <1>3, ReturnLocks DEF FirstSection, Goto, LockStep, InSection, TypeOK
<1>4. ASSUME NEW k, NEW STATE c, NEW STATE claims, Read(p, k, c, claims)
      PROVE  LockStep(p)
  BY <1>4, ReturnLocks DEF Read
<1>5. CASE Deliver(p)
  <2>1. PICK r \in Run : Begin(p, "deliver", r, "linking")
    BY <1>5 DEF Deliver
  <2>2. KindOf(p)' = "deliver"
    BY <2>1 DEF Begin, KindOf, TypeOK
  <2> QED
    BY <2>1, <2>2 DEF Begin, Goto, LockStep, InSection, TypeOK, Publishers
<1>6. CASE Execute(p)
  <2>1. CASE \E r \in Run : Begin(p, "execute", r, "first")
    BY <2>1, <1>1
  <2>2. CASE ~ \E r \in Run : Begin(p, "execute", r, "first")
    <3>1. KindOf(p) = "execute"
      BY <1>6, <2>2 DEF Execute
    <3>2. CASE Return(p)
      BY <1>6, <2>2, <3>2, ReturnLocks DEF Execute
    <3>3. CASE ~Return(p)
      BY <1>6, <2>2, <3>1, <3>3
         DEF Execute, Goto, LockStep, InSection, TypeOK, Publishers, KindOf
    <3> QED
      BY <3>2, <3>3
  <2> QED
    BY <2>1, <2>2
<1>7. CASE ~(Deliver(p) \/ Execute(p))
  BY <1>7, <1>1, <1>2, <1>3, <1>4
     DEF Operate, Lifecycle, PersistPlan, Queue, PersistIntent, Cancel, Dispatch,
         RecoverPlanned, RecoverQueued, RecoverIntent, RecoverCancelled,
         RecoverDispatching
<1> QED
  BY <1>5, <1>6, <1>7

\* The steps from the creation of a record on.
LEMMA ProceedLocks ==
  ASSUME IInv, NEW p \in Proc, Proceed(p)
  PROVE  LockStep(p)
<1> USE DEF Goto
<1>1. CASE Link(p) \/ Replay(p) \/ Claim(p) \/ Confirm(p)
  BY <1>1 DEF Link, Replay, Claim, Confirm, CreateRecord, LockStep, InSection,
              IInv, TypeOK, KindsFit, KindOf, Publishers, Claimers
<1>2. CASE Refuse(p) \/ Rollback(p) \/ AlreadyClaimed(p)
  BY <1>2, ReturnLocks DEF Refuse, Rollback, AlreadyClaimed, IInv
<1>3. CASE SyncDirectory(p)
  BY <1>3 DEF SyncDirectory, LockStep, InSection, IInv, TypeOK, KindsFit,
              WritingKind, KindOf
<1>4. CASE Leave(p)
  <2>1. CASE Return(p)
    BY <1>4, <2>1, ReturnLocks DEF Leave, IInv
  <2>2. CASE ~Return(p)
    BY <1>4, <2>2 DEF Leave, Unlock, LockStep, InSection, IInv, TypeOK
  <2> QED
    BY <2>1, <2>2
<1>5. CASE Provision(p) \/ Send(p)
  BY <1>5 DEF Provision, Send, LockStep, InSection, IInv, TypeOK
<1>6. CASE PlanAnswered(p) \/ Answered(p)
  <2>1. CASE Return(p)
    BY <1>6, <2>1, ReturnLocks DEF PlanAnswered, Answered, IInv
  <2>2. CASE ~Return(p)
    BY <1>6, <2>2 DEF PlanAnswered, Answered, LockStep, InSection, IInv, TypeOK
  <2> QED
    BY <2>1, <2>2
<1> QED
  BY <1>1, <1>2, <1>3, <1>4, <1>5, <1>6 DEF Proceed

\* Every step leaves the lock with whoever is in a section.
LEMMA LockInvStep ==
  ASSUME LockInv, [Next]_vars
  PROVE  LockInv'
<1>1. IInv'
  BY IInvStep DEF LockInv
<1>2. ASSUME NEW p \in Proc, LockStep(p) PROVE LockHeld'
  BY <1>2, LockStepKeeps DEF LockInv
<1>3. ASSUME NEW p \in Proc, Crash(p) PROVE LockStep(p)
  BY <1>3, ReturnLocks DEF Crash, LockInv, IInv
<1>4. ASSUME PowerFail PROVE LockHeld'
  BY <1>4 DEF PowerFail, LockHeld, InSection
<1>5. ASSUME ChangeSource \/ UNCHANGED vars PROVE LockHeld'
  <2>1. UNCHANGED <<lock, pc, op>>
    BY <1>5 DEF ChangeSource, vars
  <2> QED
    BY <2>1 DEF LockInv, LockHeld, InSection, KindOf
<1>6. LockHeld'
  BY <1>2, <1>3, <1>4, <1>5, OperateLocks, ProceedLocks DEF Next, LockInv, IInv
<1> QED
  BY <1>1, <1>6 DEF LockInv

\* No two processes are in a writing section of the job at once, and the one
\* that is there holds the lock: it is never let go too early or taken over.
THEOREM SectionsExclude ==
  Spec => [](\A p, q \in Proc : InSection(p) /\ InSection(q) => p = q)
<1>1. Init => LockInv
  BY IInvInit DEF Init, LockInv, LockHeld, InSection
<1>2. LockInv => \A p, q \in Proc : InSection(p) /\ InSection(q) => p = q
  BY DEF LockInv, LockHeld
<1> QED
  BY <1>1, <1>2, LockInvStep, PTL DEF Spec
-----------------------------------------------------------------------------
(* Records that are settled.                                               *)

\* A step of p that leaves the records alone and publishes nothing.
Still(p) ==
  /\ disk' = disk
  /\ \A q \in Proc : pc'[q] = "published" =>
                      pc[q] = "published" /\ op'[q] = op[q]

\* A step of p that creates its record.
Creates(p) ==
  /\ pc[p] = "linking" /\ KindOf(p) \in WritingKind
  /\ CreateRecord(p)
  /\ Goto(p, "published") \/ Goto(p, "syncing")

\* Nothing but creations and roll-backs disturbs the records.
LEMMA StepKinds ==
  ASSUME IInv, NEW p \in Proc, Operate(p) \/ Proceed(p) \/ Crash(p)
  PROVE  Still(p) \/ Creates(p) \/ Rollback(p)
<1> USE DEF files
<1>1. CASE Operate(p)
  <2>1. Quiet(p)
    BY <1>1, OperateIsQuiet DEF IInv
  <2> QED
    BY <2>1 DEF Quiet, Still
<1>2. CASE Crash(p)
  BY <1>2 DEF Crash, Return, Goto, Still, IInv, TypeOK
<1>3. CASE Proceed(p)
  <2>1. CASE Link(p) \/ Claim(p)
    BY <2>1 DEF Link, Claim, Creates, WritingKind
  <2>2. CASE Refuse(p) \/ AlreadyClaimed(p) \/ Answered(p)
    BY <2>2 DEF Refuse, AlreadyClaimed, Answered, Return, Goto, Still, IInv, TypeOK
  <2>3. CASE Replay(p) \/ Confirm(p) \/ SyncDirectory(p) \/ Provision(p) \/ Send(p)
    BY <2>3 DEF Replay, Confirm, SyncDirectory, Provision, Send, Goto, Still,
                IInv, TypeOK
  <2>4. CASE Leave(p) \/ PlanAnswered(p)
    BY <2>4 DEF Leave, PlanAnswered, Return, Goto, Still, IInv, TypeOK
  <2> QED
    BY <1>3, <2>1, <2>2, <2>3, <2>4 DEF Proceed
<1> QED
  BY <1>1, <1>2, <1>3

\* A settled record stays as it is.
LEMMA SettledStays ==
  ASSUME IInv, ~PowerMayFail, [Next]_vars, NEW f \in Path, Settled(f)
  PROVE  Settled(f)' /\ disk'[f] = disk[f]
<1>1. ASSUME NEW p \in Proc, Still(p) PROVE Settled(f)' /\ disk'[f] = disk[f]
  BY <1>1 DEF Still, Settled, Target, KindOf, RunOf
<1>2. ASSUME NEW p \in Proc, Creates(p) PROVE Settled(f)' /\ disk'[f] = disk[f]
  <2>1. f # Target(p)
    BY <1>2 DEF Creates, CreateRecord, Settled
  <2>2. disk'[f] = disk[f]
    BY <1>2, <2>1 DEF Creates, CreateRecord, IInv, TypeOK
  <2>3. \A q \in Proc : Target(q)' = Target(q) /\ (q # p => pc'[q] = pc[q])
    BY <1>2 DEF Creates, CreateRecord, Goto, IInv, TypeOK, Target, KindOf, RunOf
  <2> QED
    BY <2>1, <2>2, <2>3 DEF Settled
<1>3. ASSUME NEW p \in Proc, Rollback(p) PROVE Settled(f)' /\ disk'[f] = disk[f]
  <2>1. f # Target(p)
    BY <1>3 DEF Rollback, Settled
  <2>2. disk'[f] = disk[f]
    BY <1>3, <2>1 DEF Rollback, IInv, TypeOK
  <2>3. \A q \in Proc : pc'[q] = "published" =>
                          pc[q] = "published" /\ Target(q)' = Target(q)
    BY <1>3 DEF Rollback, Return, Goto, IInv, TypeOK, Target, KindOf, RunOf
  <2> QED
    BY <2>2, <2>3 DEF Settled
<1>4. ASSUME ChangeSource \/ UNCHANGED vars
      PROVE  Settled(f)' /\ disk'[f] = disk[f]
  <2>1. UNCHANGED <<disk, pc, op>>
    BY <1>4 DEF ChangeSource, vars, files
  <2> QED
    BY <2>1 DEF Settled, Target, KindOf, RunOf
<1> QED
  BY <1>1, <1>2, <1>3, <1>4, StepKinds DEF Next, PowerFail

\* What is there while nobody is in a section of its own is settled.
LEMMA PresentIsSettled ==
  ASSUME LockInv, NEW f, disk[f] # "absent",
         \/ lock = NoProc
         \/ \E p \in Proc : lock = p /\ pc[p] # "published"
  PROVE  Settled(f)
BY NoProcAssumption DEF LockInv, LockHeld, InSection, Settled

-----------------------------------------------------------------------------
(* The strengthened invariant, one part at a time.                         *)

\* A record only ever has the content its publishers write.
LEMMA ContentStep ==
  ASSUME IInv, ContentFits, ~PowerMayFail, [Next]_vars
  PROVE  ContentFits'
<1>1. ASSUME NEW p \in Proc, Creates(p) PROVE ContentFits'
  <2>1. Target(p) \in Path
    BY <1>1, TargetIsPath DEF Creates, IInv
  <2>2. ContentOf(KindOf(p)) \in IF Target(p)[1] = "second"
                                   THEN {"absent", "cancelled", "dispatching"}
                                   ELSE {"absent", "present"}
    BY <1>1 DEF Creates, Target, RecordOf, ContentOf, WritingKind, Publishers,
                Claimers
  <2> QED
    BY <1>1, <2>1, <2>2 DEF Creates, CreateRecord, ContentFits, IInv, TypeOK
<1>2. ASSUME NEW p \in Proc, Rollback(p) PROVE ContentFits'
  BY <1>2 DEF Rollback, ContentFits, IInv, TypeOK
<1>3. ASSUME disk' = disk PROVE ContentFits'
  BY <1>3 DEF ContentFits
<1> QED
  BY <1>1, <1>2, <1>3, StepKinds
     DEF Next, PowerFail, Still, ChangeSource, vars, files

\* No step up to the creation of a record ends on the way out.
LEMMA OperateNeverLeaves ==
  ASSUME TypeOK, NEW q \in Proc, Operate(q), NEW p \in Proc, pc'[p] = "leaving"
  PROVE  op'[p] = op[p] /\ pc[p] = "leaving"
<1> USE DEF Goto, Return, TypeOK
<1>1. ASSUME NEW k, NEW r, NEW point \in {"first", "entry", "linking"},
             Begin(q, k, r, point)
      PROVE  op'[p] = op[p] /\ pc[p] = "leaving"
  BY <1>1 DEF Begin
<1>2. ASSUME NEW k, NEW STATE c, NEW STATE claims,
             Enter(q, k, c) \/ FirstSection(q, k, c) \/ Read(q, k, c, claims)
      PROVE  op'[p] = op[p] /\ pc[p] = "leaving"
  BY <1>2 DEF Enter, FirstSection, Read
<1>3. CASE Execute(q)
  <2>1. CASE \E r \in Run : Begin(q, "execute", r, "first")
    BY <2>1, <1>1
  <2>2. CASE ~ \E r \in Run : Begin(q, "execute", r, "first")
    BY <2>2, <1>3 DEF Execute
  <2> QED
    BY <2>1, <2>2
<1>4. CASE ~Execute(q)
  BY <1>4, <1>1, <1>2
     DEF Operate, Lifecycle, PersistPlan, Queue, PersistIntent, Cancel, Dispatch,
         Deliver, RecoverPlanned, RecoverQueued, RecoverIntent, RecoverCancelled,
         RecoverDispatching
<1> QED
  BY <1>3, <1>4

\* A publisher on its way out leaves a settled record.
LEMMA LeavingStep ==
  ASSUME LockInv, LeavingIsSettled, ~PowerMayFail, [Next]_vars
  PROVE  LeavingIsSettled'
<1> SUFFICES ASSUME NEW p \in Proc, pc'[p] = "leaving"
             PROVE  /\ Settled(Target(p))'
                    /\ disk'[Target(p)'] = ContentOf(KindOf(p)')
  BY DEF LeavingIsSettled
<1>1. op'[p] = op[p] /\ \/ pc[p] = "leaving"
                        \/ Replay(p)
                        \/ SyncDirectory(p) /\ KindOf(p) \notin Claimers
  <2>1. ASSUME NEW q \in Proc, Operate(q) PROVE op'[p] = op[p] /\ pc[p] = "leaving"
    BY <2>1, OperateNeverLeaves DEF LockInv, IInv
  <2>2. ASSUME NEW q \in Proc, Crash(q) PROVE op'[p] = op[p] /\ pc[p] = "leaving"
    BY <2>2 DEF Crash, Return, Goto, LockInv, IInv, TypeOK
  <2>3. ASSUME NEW q \in Proc, q # p, Proceed(q)
        PROVE  op'[p] = op[p] /\ pc[p] = "leaving"
    <3>1. LockStep(q)
      BY <2>3, ProceedLocks DEF LockInv
    <3> QED
      BY <2>3, <3>1 DEF LockStep
  <2>4. ASSUME Proceed(p)
        PROVE  op'[p] = op[p] /\ (Replay(p) \/ (SyncDirectory(p) /\ KindOf(p) \notin Claimers))
    BY <2>4 DEF Proceed, Link, Replay, Refuse, Claim, AlreadyClaimed, Confirm,
                Rollback, SyncDirectory, Leave, Provision, PlanAnswered, Send,
                Answered, CreateRecord, Return, Goto, LockInv, IInv, TypeOK
  <2>5. ASSUME ChangeSource \/ UNCHANGED vars
        PROVE  op'[p] = op[p] /\ pc[p] = "leaving"
    BY <2>5 DEF ChangeSource, vars
  <2> QED
    BY <2>1, <2>2, <2>3, <2>4, <2>5 DEF Next, PowerFail
<1>2. Target(p)' = Target(p) /\ KindOf(p)' = KindOf(p)
  BY <1>1 DEF Target, KindOf, RunOf
<1>3. Target(p) \in Path
  BY <1>1, TargetIsPath DEF LockInv, IInv, KindsFit, Replay, SyncDirectory, WritingKind
<1>4. Settled(Target(p)) /\ disk[Target(p)] = ContentOf(KindOf(p))
  <2>1. CASE pc[p] = "leaving"
    BY <2>1 DEF LeavingIsSettled
  <2>2. CASE Replay(p) \/ (SyncDirectory(p) /\ KindOf(p) \notin Claimers)
    <3>1. InSection(p) /\ pc[p] # "published"
      BY <2>2 DEF InSection, Replay, SyncDirectory, LockInv, IInv, KindsFit, WritingKind
    <3>2. disk[Target(p)] = ContentOf(KindOf(p))
      BY <2>2 DEF Replay, SyncDirectory, LockInv, IInv, OwnedIsThere, Owns
    <3>3. disk[Target(p)] # "absent"
      BY <3>2 DEF ContentOf
    <3> QED
      BY <3>1, <3>2, <3>3, PresentIsSettled DEF LockInv, LockHeld
  <2> QED
    BY <1>1, <2>1, <2>2
<1> QED
  BY <1>2, <1>3, <1>4, SettledStays DEF LockInv

\* The initial record is one of the paths of the job.
LEMMA InitialIsPath == <<"initial", Job>> \in Path
BY DEF Path, JobRecord

\* A recovery of the planned state has found a settled initial record.
LEMMA InitialStep ==
  ASSUME LockInv, InitialIsSettled, ~PowerMayFail, [Next]_vars
  PROVE  InitialIsSettled'
<1> SUFFICES ASSUME NEW p \in Proc, pc'[p] = "entry", KindOf(p)' = "recoverPlanned"
             PROVE  Settled(<<"initial", Job>>)
  BY SettledStays, InitialIsPath DEF InitialIsSettled, LockInv
<1> DEFINE Before == pc[p] = "entry" /\ KindOf(p) = "recoverPlanned"
           Found  == lock = NoProc /\ HasInitial
<1>1. Before \/ Found
  <2>1. ASSUME NEW q \in Proc, q # p, LockStep(q) PROVE Before
    BY <2>1 DEF LockStep, KindOf
  <2>2. ASSUME Proceed(p) \/ Crash(p) PROVE FALSE
    BY <2>2 DEF Proceed, Link, Replay, Refuse, Claim, AlreadyClaimed, Confirm,
                Rollback, SyncDirectory, Leave, Provision, PlanAnswered, Send,
                Answered, Crash, CreateRecord, Return, Goto, LockInv, IInv, TypeOK
  <2>3. ASSUME Operate(p) PROVE Before \/ Found
    <3> USE DEF Goto, Return, LockInv, IInv, TypeOK, KindOf
    <3>1. ASSUME NEW k, NEW r, k # "recoverPlanned", NEW point, Begin(p, k, r, point)
          PROVE  FALSE
      BY <3>1 DEF Begin
    <3>2. ASSUME NEW k, k # "recoverPlanned", NEW STATE c, FirstSection(p, k, c)
          PROVE  FALSE
      BY <3>2 DEF FirstSection
    <3>3. ASSUME NEW k, NEW STATE c, NEW STATE claims,
                 Enter(p, k, c) \/ Read(p, k, c, claims)
          PROVE  FALSE
      BY <3>3 DEF Enter, Read
    <3>4. CASE RecoverPlanned(p)
      BY <3>3, <3>4 DEF RecoverPlanned, Begin, FirstSection
    <3>5. CASE Execute(p)
      <4>1. CASE \E r \in Run : Begin(p, "execute", r, "first")
        BY <4>1, <3>1
      <4>2. CASE ~ \E r \in Run : Begin(p, "execute", r, "first")
        BY <4>2, <3>5 DEF Execute
      <4> QED
        BY <4>1, <4>2
    <3>6. CASE ~Execute(p) /\ ~RecoverPlanned(p)
      BY <2>3, <3>6, <3>1, <3>2, <3>3
         DEF Operate, Lifecycle, PersistPlan, Queue, PersistIntent, Cancel,
             Dispatch, Deliver, RecoverQueued, RecoverIntent, RecoverCancelled,
             RecoverDispatching
    <3> QED
      BY <3>4, <3>5, <3>6
  <2>4. ASSUME ChangeSource \/ UNCHANGED vars PROVE Before
    BY <2>4 DEF ChangeSource, vars, KindOf
  <2>5. ASSUME NEW q \in Proc, q # p, Operate(q) \/ Proceed(q) \/ Crash(q)
        PROVE  Before
    BY <2>5, <2>1, OperateLocks, ProceedLocks, ReturnLocks
       DEF Crash, LockInv, IInv
  <2> QED
    BY <2>2, <2>3, <2>4, <2>5 DEF Next, PowerFail
<1> QED
  BY <1>1, PresentIsSettled DEF InitialIsSettled, HasInitial, Has

\* What a recovery vouches for is what it found under the lock; for the
\* planned state, what it found in its first section.
LEMMA OperateTells ==
  ASSUME TypeOK, ContentFits, NEW p \in Proc, Operate(p),
         NEW claim \in told', claim \notin told
  PROVE  /\ lock = NoProc
         /\ \/ /\ pc[p] = "entry" /\ KindOf(p) = "recoverPlanned"
               /\ claim = <<<<"initial", Job>>, "present">>
            \/ /\ claim[1] \in Path
               /\ disk[claim[1]] = claim[2] /\ disk[claim[1]] # "absent"
<1> USE DEF history, Tell
<1>1. ASSUME NEW k, NEW r, NEW point, Begin(p, k, r, point) PROVE FALSE
  BY <1>1 DEF Begin
<1>2. ASSUME NEW k, NEW STATE c, Enter(p, k, c) \/ FirstSection(p, k, c)
      PROVE  FALSE
  BY <1>2 DEF Enter, FirstSection
<1>3. ASSUME NEW k, NEW STATE c, NEW STATE claims, Read(p, k, c, claims)
      PROVE  lock = NoProc /\ pc[p] = "entry" /\ KindOf(p) = k /\ c /\ claim \in claims
  BY <1>3 DEF Read
<1>4. ~Execute(p)
  BY <1>1 DEF Execute
<1>5. ASSUME NEW k \in Readers \ JobKind, NEW STATE c, NEW f \in RunRecord, NEW v,
             \/ \E r \in Run : Begin(p, k, r, "entry")
             \/ Read(p, k, c, {<<<<f, RunOf(p)>>, v>>})
      PROVE  /\ lock = NoProc /\ c /\ RunOf(p) \in Run
             /\ claim[1] = <<f, RunOf(p)>> /\ claim[2] = v /\ claim[1] \in Path
  <2>1. Read(p, k, c, {<<<<f, RunOf(p)>>, v>>})
    BY <1>1, <1>5
  <2>2. lock = NoProc /\ KindOf(p) = k /\ c /\ claim = <<<<f, RunOf(p)>>, v>>
    BY <1>3, <2>1
  <2>3. RunOf(p) \in Run
    BY <2>2 DEF TypeOK, KindOf, RunOf, Operation
  <2> QED
    BY <2>2, <2>3 DEF Path
<1>6. \A r \in Run : /\ Has("queued", r) => disk[<<"queued", r>>] = "present"
                     /\ Has("intent", r) => disk[<<"intent", r>>] = "present"
  <2>1. \A r \in Run, f \in RunRecord : <<f, r>> \in Path
    BY DEF Path
  <2> QED
    BY <2>1 DEF ContentFits, Has, RunRecord
<1>7. CASE RecoverPlanned(p)
  BY <1>7, <1>1, <1>2, <1>3 DEF RecoverPlanned
<1>8. CASE RecoverQueued(p)
  <2>1. /\ lock = NoProc /\ QueuedNotTerminal(RunOf(p)) /\ RunOf(p) \in Run
        /\ claim[1] = <<"queued", RunOf(p)>> /\ claim[2] = "present"
        /\ claim[1] \in Path
    BY <1>8, <1>5 DEF RecoverQueued, Readers, JobKind, RunRecord
  <2> QED
    BY <2>1, <1>6 DEF QueuedNotTerminal, QueuedVerified
<1>9. CASE RecoverIntent(p)
  <2>1. /\ lock = NoProc /\ Has("intent", RunOf(p)) /\ RunOf(p) \in Run
        /\ claim[1] = <<"intent", RunOf(p)>> /\ claim[2] = "present"
        /\ claim[1] \in Path
    BY <1>9, <1>5 DEF RecoverIntent, Readers, JobKind, RunRecord
  <2> QED
    BY <2>1, <1>6
<1>10. CASE RecoverCancelled(p)
  <2>1. /\ lock = NoProc /\ CancelledVerified(RunOf(p))
        /\ claim[1] = <<"second", RunOf(p)>> /\ claim[2] = "cancelled"
        /\ claim[1] \in Path
    BY <1>10, <1>5 DEF RecoverCancelled, Readers, JobKind, RunRecord
  <2> QED
    BY <2>1 DEF CancelledVerified
<1>11. CASE RecoverDispatching(p)
  <2>1. /\ lock = NoProc /\ DispatchingVerified(RunOf(p))
        /\ claim[1] = <<"second", RunOf(p)>> /\ claim[2] = "dispatching"
        /\ claim[1] \in Path
    BY <1>11, <1>5 DEF RecoverDispatching, Readers, JobKind, RunRecord
  <2> QED
    BY <2>1 DEF DispatchingVerified
<1> QED
  BY <1>1, <1>2, <1>4, <1>7, <1>8, <1>9, <1>10, <1>11
     DEF Operate, Lifecycle, PersistPlan, Queue, PersistIntent, Cancel, Dispatch,
         Deliver

\* What was told stays settled, and what is told is settled.
LEMMA ToldStep ==
  ASSUME TInv, ~PowerMayFail, [Next]_vars
  PROVE  ToldIsSettled'
<1> SUFFICES ASSUME NEW claim \in told'
             PROVE  /\ claim[1] \in Path
                    /\ Settled(claim[1]) /\ disk[claim[1]] = claim[2]
  BY SettledStays DEF ToldIsSettled, TInv, LockInv
<1>1. CASE claim \in told
  BY <1>1 DEF TInv, ToldIsSettled, LockInv, IInv, TypeOK
<1>2. ASSUME NEW p \in Proc, Operate(p), claim \notin told
      PROVE  /\ claim[1] \in Path
             /\ Settled(claim[1]) /\ disk[claim[1]] = claim[2]
  <2>1. lock = NoProc
    BY <1>2, OperateTells DEF TInv, LockInv, IInv
  <2>2. CASE /\ pc[p] = "entry" /\ KindOf(p) = "recoverPlanned"
             /\ claim = <<<<"initial", Job>>, "present">>
    <3>1. Settled(<<"initial", Job>>)
      BY <2>2 DEF TInv, InitialIsSettled
    <3>2. disk[<<"initial", Job>>] = "present"
      BY <3>1, InitialIsPath DEF Settled, TInv, ContentFits
    <3> QED
      BY <2>2, <3>1, <3>2, InitialIsPath
  <2>3. CASE /\ claim[1] \in Path
             /\ disk[claim[1]] = claim[2] /\ disk[claim[1]] # "absent"
    BY <2>1, <2>3, PresentIsSettled DEF TInv
  <2> QED
    BY <1>2, <2>2, <2>3, OperateTells DEF TInv, LockInv, IInv
<1>3. ASSUME NEW p \in Proc, Leave(p), claim \notin told
      PROVE  /\ claim[1] \in Path
             /\ Settled(claim[1]) /\ disk[claim[1]] = claim[2]
  <2>1. claim = <<Target(p), ContentOf(KindOf(p))>> /\ pc[p] = "leaving"
    BY <1>3 DEF Leave, Tell
  <2>2. Target(p) \in Path
    BY <2>1, TargetIsPath DEF TInv, LockInv, IInv, KindsFit, WritingKind
  <2> QED
    BY <2>1, <2>2 DEF TInv, LeavingIsSettled
<1>4. ASSUME NEW p \in Proc, Proceed(p) \/ Crash(p), ~Leave(p)
      PROVE  claim \in told
  BY <1>4 DEF Proceed, Link, Replay, Refuse, Claim, AlreadyClaimed, Confirm,
              Rollback, SyncDirectory, Provision, PlanAnswered, Send, Answered,
              Crash, CreateRecord, history
<1>5. ASSUME ChangeSource \/ UNCHANGED vars PROVE claim \in told
  BY <1>5 DEF ChangeSource, vars, history
<1> QED
  BY <1>1, <1>2, <1>3, <1>4, <1>5 DEF Next, PowerFail

-----------------------------------------------------------------------------

\* The strengthened invariant holds of every behaviour without a power failure.
THEOREM ToldInvariance ==
  ASSUME ~PowerMayFail
  PROVE  Spec => []TInv
<1>1. Init => TInv
  <2> SUFFICES ASSUME Init PROVE TInv
    OBVIOUS
  <2>1. LockInv
    BY IInvInit DEF Init, LockInv, LockHeld, InSection
  <2> QED
    BY <2>1 DEF Init, TInv, ContentFits, LeavingIsSettled, InitialIsSettled,
                ToldIsSettled
<1>2. TInv /\ [Next]_vars => TInv'
  BY LockInvStep, ContentStep, LeavingStep, InitialStep, ToldStep
     DEF TInv, LockInv
<1> QED
  BY <1>1, <1>2, PTL DEF Spec

\* A record that some call returned as written, replayed or recovered is there
\* with the same content ever after, unless the power fails.
THEOREM ToldStaysTrue ==
  ASSUME ~PowerMayFail
  PROVE  Spec => []ToldIsTrue
<1>1. TInv => ToldIsTrue
  BY DEF TInv, ToldIsSettled, ToldIsTrue
<1> QED
  BY <1>1, ToldInvariance, PTL

\* Of the cancellation and the dispatch of a run at most one is ever reported
\* to have won, unless the power fails.
THEOREM OneWinnerWithoutPowerLoss ==
  ASSUME ~PowerMayFail
  PROVE  Spec => []OneWinner
<1>1. TInv => OneWinner
  <2> SUFFICES ASSUME TInv, NEW r \in Run,
                      <<<<"second", r>>, "cancelled">> \in told,
                      <<<<"second", r>>, "dispatching">> \in told
               PROVE  FALSE
    BY DEF OneWinner
  <2>1. disk[<<"second", r>>] = "cancelled" /\ disk[<<"second", r>>] = "dispatching"
    BY DEF TInv, ToldIsSettled
  <2> QED
    BY <2>1
<1> QED
  BY <1>1, ToldInvariance, PTL

-----------------------------------------------------------------------------
(* The records form a chain.                                               *)

\* The run stands at dispatching for good.
AtDispatching(r) ==
  Settled(<<"second", r>>) /\ disk[<<"second", r>>] = "dispatching"

\* The records the one that k creates for r is derived from, settled.
Grounds(k, r) ==
  /\ k = "queue" => Settled(<<"initial", Job>>)
  /\ k \in {"intent", "cancel", "dispatch"} => Settled(<<"queued", r>>)
  /\ k = "dispatch" => Settled(<<"intent", r>>)
  /\ k \in Claimers => AtDispatching(r)
  /\ k = "execute" => Settled(<<"sourceClaim", r>>)

RunKind == WritingKind \ JobKind

Grounded ==
  \A k \in RunKind, r \in Run :
    disk[<<RecordOf(k), r>>] = ContentOf(k) => Grounds(k, r)

LinkingGrounded ==
  \A p \in Proc :
    pc[p] = "linking" /\ KindOf(p) \in Publishers \ JobKind => Grounds(KindOf(p), RunOf(p))

\* Evidence is of what was sent, and a sender has sent what comes before.
EvidenceIsSent == \A e \in evidence : sent[e[2]][e[1]] > 0

WasSent(m, p) == sent[RunOf(p)][m] > 0

OrderKept ==
  \A p \in Proc :
    /\ pc[p] = "awaiting" => WasSent(MessageOf(KindOf(p)), p)
    /\ pc[p] \in {"awaitingPlan", "sending"} /\ KindOf(p) = "dispatch" =>
         WasSent("provision", p)
    /\ pc[p] # "idle" /\ KindOf(p) = "deliver" => WasSent("dispatch", p)
    /\ pc[p] # "idle" /\ KindOf(p) = "execute" => WasSent("source", p)

OrderInv == EvidenceIsSent /\ OrderKept

ChainInv == TInv /\ OrderInv /\ Grounded /\ LinkingGrounded

-----------------------------------------------------------------------------
(* Steps.                                                                  *)

ProcStep(p) == Operate(p) \/ Proceed(p) \/ Crash(p)

Aside == disk' = disk /\ UNCHANGED <<stable, lock, pc, op, result, evidence, sent>>

\* A step is one of a process, a power failure, or changes the source at most.
LEMMA StepOf ==
  ASSUME [Next]_vars
  PROVE  (\E p \in Proc : ProcStep(p)) \/ PowerFail \/ Aside
BY DEF Next, ProcStep, ChangeSource, vars, Aside, files, history

\* A process leaves the others where they are.
LEMMA OthersStay ==
  ASSUME IInv, NEW p \in Proc, ProcStep(p), NEW q \in Proc, q # p
  PROVE  /\ pc'[q] = pc[q] /\ KindOf(q)' = KindOf(q) /\ RunOf(q)' = RunOf(q)
         /\ Target(q)' = Target(q)
<1>1. LockStep(p)
  BY OperateLocks, ProceedLocks, ReturnLocks DEF ProcStep, Crash, IInv
<1> QED
  BY <1>1 DEF LockStep, KindOf, RunOf, Target

\* Once a process has set out to create its record it does not go back.
LEMMA ProceedPoint ==
  ASSUME IInv, NEW p \in Proc, Proceed(p)
  PROVE  /\ pc'[p] \notin {"first", "entry", "linking"}
         /\ pc'[p] # "idle" => op'[p] = op[p]
BY DEF Proceed, Link, Replay, Refuse, Claim, AlreadyClaimed, Confirm, Rollback,
       SyncDirectory, Leave, Provision, PlanAnswered, Send, Answered,
       CreateRecord, Return, Goto, IInv, TypeOK

LEMMA OperatePoint ==
  ASSUME IInv, NEW p \in Proc, Operate(p)
  PROVE  pc'[p] \in {"idle", "first", "entry", "linking"}
<1>1. Quiet(p)
  BY OperateIsQuiet DEF IInv
<1>2. pc'[p] = "leaving" => pc[p] = "leaving"
  BY OperateNeverLeaves DEF IInv
<1>3. pc[p] # "leaving"
  <2>1. ASSUME NEW k, NEW r, NEW point, Begin(p, k, r, point) PROVE pc[p] # "leaving"
    BY <2>1 DEF Begin
  <2>2. ASSUME NEW k, NEW STATE c, NEW STATE claims,
               Enter(p, k, c) \/ FirstSection(p, k, c) \/ Read(p, k, c, claims)
        PROVE  pc[p] # "leaving"
    BY <2>2 DEF Enter, FirstSection, Read
  <2>3. CASE Execute(p)
    <3>1. CASE \E r \in Run : Begin(p, "execute", r, "first")
      BY <3>1, <2>1
    <3>2. CASE ~ \E r \in Run : Begin(p, "execute", r, "first")
      BY <3>2, <2>3 DEF Execute
    <3> QED
      BY <3>1, <3>2
  <2>4. CASE ~Execute(p)
    BY <2>4, <2>1, <2>2
       DEF Operate, Lifecycle, PersistPlan, Queue, PersistIntent, Cancel, Dispatch,
           Deliver, RecoverPlanned, RecoverQueued, RecoverIntent, RecoverCancelled,
           RecoverDispatching
  <2> QED
    BY <2>3, <2>4
<1> QED
  BY <1>1, <1>2, <1>3 DEF Quiet

-----------------------------------------------------------------------------
(* The order of the messages.  It is kept through power failures.          *)

LEMMA SentGrows ==
  ASSUME IInv, [Next]_vars, NEW r \in Run, NEW m \in Message, sent[r][m] > 0
  PROVE  sent'[r][m] > 0
<1>1. ASSUME NEW p \in Proc, NEW n \in Message, RunOf(p) \in Run,
             sent' = [sent EXCEPT ![RunOf(p)][n] = @ + 1]
      PROVE  sent'[r][m] > 0
  <2>1. sent \in [Run -> [Message -> Nat]] /\ sent[r][m] \in Nat
    BY DEF IInv, TypeOK
  <2>2. sent'[r][m] = IF r = RunOf(p) /\ m = n THEN sent[RunOf(p)][n] + 1 ELSE sent[r][m]
    BY <1>1, <2>1, CountType
  <2> QED
    BY <2>1, <2>2
<1>2. ASSUME NEW p \in Proc, Provision(p) \/ Send(p) PROVE sent'[r][m] > 0
  <2>1. /\ KindOf(p) \in {"dispatch"} \union Claimers
        /\ Provision(p) => KindOf(p) = "dispatch"
    BY <1>2 DEF Provision, Send, IInv, KindsFit
  <2>2. RunOf(p) \in Run
    BY <2>1 DEF IInv, TypeOK, KindOf, RunOf, Operation, JobKind, Claimers
  <2>3. MessageOf(KindOf(p)) \in Message /\ "provision" \in Message
    BY DEF MessageOf, Message
  <2> QED
    BY <1>1, <1>2, <2>2, <2>3 DEF Provision, Send
<1>3. ASSUME NEW p \in Proc, ProcStep(p), ~(Provision(p) \/ Send(p))
      PROVE  sent' = sent
  <2>1. CASE Operate(p)
    BY <2>1, OperateIsQuiet DEF Quiet, IInv
  <2>2. CASE Crash(p)
    BY <2>2 DEF Crash, history
  <2>3. CASE Proceed(p)
    BY <1>3, <2>3 DEF Proceed, Link, Replay, Refuse, Claim, AlreadyClaimed, Confirm,
        Rollback, SyncDirectory, Leave, PlanAnswered, Answered, CreateRecord, history
  <2> QED
    BY <1>3, <2>1, <2>2, <2>3 DEF ProcStep
<1>4. ASSUME PowerFail \/ Aside PROVE sent' = sent
  BY <1>4 DEF PowerFail, Aside
<1> QED
  BY <1>2, <1>3, <1>4, StepOf

\* A process that serves a run with a message is named by it.
LEMMA ServesRun ==
  ASSUME IInv, NEW p \in Proc, KindOf(p) \in RunKind
  PROVE  RunOf(p) \in Run
BY DEF IInv, TypeOK, KindOf, RunOf, Operation, RunKind

\* Evidence of a message is kept by the process that sent it.
LEMMA EvidenceStep ==
  ASSUME IInv, OrderInv, [Next]_vars
  PROVE  EvidenceIsSent'
<1> SUFFICES ASSUME NEW e \in evidence' PROVE sent'[e[2]][e[1]] > 0
  BY DEF EvidenceIsSent
<1>1. CASE e \in evidence
  <2>1. e[1] \in Message /\ e[2] \in Run
    BY <1>1 DEF IInv, TypeOK
  <2> QED
    BY <1>1, <2>1, SentGrows DEF OrderInv, EvidenceIsSent
<1>2. ASSUME e \notin evidence, NEW p \in Proc, ProcStep(p) PROVE Answered(p)
  <2>1. ~Operate(p) /\ ~Crash(p)
    <3>1. ASSUME NEW k, NEW r, NEW point, Begin(p, k, r, point) PROVE FALSE
      BY <1>2, <3>1 DEF Begin, history
    <3>2. ASSUME NEW k, NEW STATE c, NEW STATE claims,
                 Enter(p, k, c) \/ FirstSection(p, k, c) \/ Read(p, k, c, claims)
          PROVE  FALSE
      BY <1>2, <3>2 DEF Enter, FirstSection, Read, history
    <3>3. ~Execute(p)
      BY <1>2, <3>1 DEF Execute, history
    <3>4. ~Crash(p)
      BY <1>2 DEF Crash, history
    <3> QED
      BY <3>1, <3>2, <3>3, <3>4
         DEF Operate, Lifecycle, PersistPlan, Queue, PersistIntent, Cancel, Dispatch,
             Deliver, RecoverPlanned, RecoverQueued, RecoverIntent, RecoverCancelled,
             RecoverDispatching
  <2> QED
    BY <1>2, <2>1 DEF ProcStep, Proceed, Link, Replay, Refuse, Claim, AlreadyClaimed,
        Confirm, Rollback, SyncDirectory, Leave, Provision, PlanAnswered, Send,
        CreateRecord, history
<1>3. ASSUME e \notin evidence, NEW p \in Proc, Answered(p) PROVE sent'[e[2]][e[1]] > 0
  <2>1. e = <<MessageOf(KindOf(p)), RunOf(p)>> /\ sent' = sent /\ pc[p] = "awaiting"
    BY <1>3 DEF Answered
  <2> QED
    BY <2>1 DEF OrderInv, OrderKept, WasSent
<1>4. ASSUME PowerFail \/ Aside PROVE e \in evidence
  BY <1>4 DEF PowerFail, Aside
<1> QED
  BY <1>1, <1>2, <1>3, <1>4, StepOf

\* A call begins where nothing is sent; one that claims, on evidence.
LEMMA OperateServes ==
  ASSUME IInv, NEW p \in Proc, Operate(p), pc'[p] # "idle"
  PROVE  \/ op'[p] = op[p] /\ pc[p] # "idle"
         \/ op'[p][1] \notin Claimers
         \/ op'[p][1] = "deliver" /\ <<"dispatch", op'[p][2]>> \in evidence
         \/ op'[p][1] = "execute" /\ <<"source", op'[p][2]>> \in evidence
<1> DEFINE Good == \/ op'[p] = op[p] /\ pc[p] # "idle"
                   \/ op'[p][1] \notin Claimers
                   \/ op'[p][1] = "deliver" /\ <<"dispatch", op'[p][2]>> \in evidence
                   \/ op'[p][1] = "execute" /\ <<"source", op'[p][2]>> \in evidence
<1> USE DEF Goto, Return, IInv, TypeOK
<1>1. ASSUME NEW k, NEW r, NEW point, Begin(p, k, r, point)
      PROVE  op'[p] = <<k, r>>
  BY <1>1 DEF Begin
<1>2. ASSUME NEW k, NEW r, NEW point, k \notin Claimers, Begin(p, k, r, point)
      PROVE  Good
  BY <1>1, <1>2
<1>3. ASSUME NEW k, NEW STATE c, NEW STATE claims,
             Enter(p, k, c) \/ FirstSection(p, k, c) \/ Read(p, k, c, claims)
      PROVE  Good
  BY <1>3 DEF Enter, FirstSection, Read
<1>4. CASE Execute(p)
  <2>1. CASE \E r \in Run : /\ {<<"dispatch", r>>, <<"source", r>>} \subseteq evidence
                            /\ Begin(p, "execute", r, "first")
    <3>1. PICK r \in Run : /\ {<<"dispatch", r>>, <<"source", r>>} \subseteq evidence
                           /\ Begin(p, "execute", r, "first")
      BY <2>1
    <3>2. op'[p] = <<"execute", r>>
      BY <3>1, <1>1
    <3> QED
      BY <3>1, <3>2
  <2>2. CASE ~ \E r \in Run : /\ {<<"dispatch", r>>, <<"source", r>>} \subseteq evidence
                              /\ Begin(p, "execute", r, "first")
    BY <1>4, <2>2 DEF Execute
  <2> QED
    BY <2>1, <2>2
<1>5. CASE Deliver(p)
  <2>1. PICK r \in Run : <<"dispatch", r>> \in evidence /\ Begin(p, "deliver", r, "linking")
    BY <1>5 DEF Deliver
  <2>2. op'[p] = <<"deliver", r>>
    BY <2>1, <1>1
  <2> QED
    BY <2>1, <2>2
<1>6. CASE ~Execute(p) /\ ~Deliver(p)
  <2>1. CASE Lifecycle(p) \/ PersistPlan(p)
    <3>1. ASSUME FirstSection(p, "lifecycle", TRUE) \/ Enter(p, "lifecycle", TRUE)
          PROVE  Good
      BY <3>1 DEF FirstSection, Enter
    <3>2. ASSUME Begin(p, "lifecycle", Job, "first") PROVE Good
      BY <1>2, <3>2 DEF Claimers
    <3>3. CASE Lifecycle(p)
      BY <3>1, <3>2, <3>3 DEF Lifecycle
    <3>4. CASE PersistPlan(p)
      BY <1>2, <1>3, <3>4 DEF PersistPlan, Claimers
    <3> QED
      BY <2>1, <3>3, <3>4
  <2>2. CASE Queue(p) \/ PersistIntent(p)
    BY <1>2, <1>3, <2>2 DEF Queue, PersistIntent, Claimers
  <2>3. CASE Cancel(p) \/ Dispatch(p)
    BY <1>2, <1>3, <2>3 DEF Cancel, Dispatch, Claimers
  <2>4. CASE RecoverPlanned(p) \/ RecoverQueued(p)
    BY <1>2, <1>3, <2>4 DEF RecoverPlanned, RecoverQueued, Claimers
  <2>5. CASE RecoverIntent(p) \/ RecoverCancelled(p) \/ RecoverDispatching(p)
    BY <1>2, <1>3, <2>5 DEF RecoverIntent, RecoverCancelled, RecoverDispatching, Claimers
  <2> QED
    BY <1>6, <2>1, <2>2, <2>3, <2>4, <2>5 DEF Operate
<1> QED
  BY <1>4, <1>5, <1>6

\* A message that was sent is counted.
LEMMA Counted ==
  ASSUME IInv, NEW p \in Proc, KindOf(p) \in RunKind, NEW m \in Message,
         sent' = [sent EXCEPT ![RunOf(p)][m] = @ + 1]
  PROVE  sent'[RunOf(p)][m] > 0
<1>1. RunOf(p) \in Run /\ sent \in [Run -> [Message -> Nat]]
  BY ServesRun DEF IInv, TypeOK
<1>2. sent[RunOf(p)][m] \in Nat
  BY <1>1
<1>3. sent'[RunOf(p)][m] = sent[RunOf(p)][m] + 1
  BY <1>1, CountType
<1> QED
  BY <1>2, <1>3

\* A process only comes to wait for an answer by sending.
LEMMA ProceedSends ==
  ASSUME IInv, NEW p \in Proc, Proceed(p)
  PROVE  /\ pc'[p] = "awaiting" => Send(p)
         /\ pc'[p] = "awaitingPlan" => Provision(p)
         /\ pc'[p] = "sending" =>
              \/ PlanAnswered(p) /\ pc[p] = "awaitingPlan"
              \/ SyncDirectory(p) /\ KindOf(p) \in Claimers
BY DEF Proceed, Link, Replay, Refuse, Claim, AlreadyClaimed, Confirm, Rollback,
       SyncDirectory, Leave, Provision, PlanAnswered, Send, Answered,
       CreateRecord, Return, Goto, IInv, TypeOK

LEMMA OrderStep ==
  ASSUME IInv, OrderInv, [Next]_vars
  PROVE  OrderInv'
<1> DEFINE Kept(p) ==
             /\ pc[p] = "awaiting" => WasSent(MessageOf(KindOf(p)), p)
             /\ pc[p] \in {"awaitingPlan", "sending"} /\ KindOf(p) = "dispatch" =>
                  WasSent("provision", p)
             /\ pc[p] # "idle" /\ KindOf(p) = "deliver" => WasSent("dispatch", p)
             /\ pc[p] # "idle" /\ KindOf(p) = "execute" => WasSent("source", p)
<1> USE DEF Message
<1>1. \A p \in Proc : Kept(p)
  BY DEF OrderInv, OrderKept
<1>2. ASSUME NEW p \in Proc, pc'[p] = pc[p], op'[p] = op[p] PROVE Kept(p)'
  <2>1. KindOf(p)' = KindOf(p) /\ RunOf(p)' = RunOf(p)
    BY <1>2 DEF KindOf, RunOf
  <2>2. KindOf(p) \in RunKind => RunOf(p) \in Run
    BY ServesRun
  <2>3. ASSUME NEW m \in Message, KindOf(p) \in RunKind, WasSent(m, p)
        PROVE  WasSent(m, p)'
    BY <2>1, <2>2, <2>3, SentGrows DEF WasSent
  <2>4. pc[p] = "awaiting" => KindOf(p) \in RunKind /\ MessageOf(KindOf(p)) \in Message
    BY DEF IInv, KindsFit, RunKind, WritingKind, Publishers, Claimers, JobKind, MessageOf
  <2>5. {"dispatch", "deliver", "execute"} \subseteq RunKind
    BY DEF RunKind, WritingKind, Publishers, Claimers, JobKind
  <2>6. (pc[p] = "awaiting" => WasSent(MessageOf(KindOf(p)), p))'
    BY <1>1, <1>2, <2>1, <2>3, <2>4
  <2>7. \A m \in Message : KindOf(p) \in RunKind /\ WasSent(m, p) => WasSent(m, p)'
    BY <2>3
  <2> QED
    BY <1>1, <1>2, <2>1, <2>5, <2>6, <2>7
<1>3. ASSUME NEW p \in Proc, Crash(p) PROVE Kept(p)'
  <2>1. pc'[p] = "idle"
    BY <1>3 DEF Crash, Return, Goto, IInv, TypeOK
  <2> QED
    BY <2>1
<1>4. ASSUME NEW p \in Proc, Operate(p) PROVE Kept(p)'
  <2>1. pc'[p] \in {"idle", "first", "entry", "linking"}
    BY <1>4, OperatePoint
  <2>2. \A e \in evidence : e[1] \in Message /\ e[2] \in Run /\ sent'[e[2]][e[1]] > 0
    BY SentGrows DEF OrderInv, EvidenceIsSent, IInv, TypeOK
  <2>3. ASSUME pc'[p] # "idle", KindOf(p)' = "deliver" PROVE WasSent("dispatch", p)'
    <3>1. CASE op'[p] = op[p] /\ pc[p] # "idle"
      <4>1. KindOf(p) = "deliver" /\ RunOf(p)' = RunOf(p)
        BY <2>3, <3>1 DEF KindOf, RunOf
      <4>2. RunOf(p) \in Run /\ WasSent("dispatch", p)
        BY <1>1, <3>1, <4>1, ServesRun
           DEF RunKind, WritingKind, Claimers, JobKind
      <4> QED
        BY <4>1, <4>2, SentGrows DEF WasSent
    <3>2. CASE <<"dispatch", op'[p][2]>> \in evidence
      BY <2>2, <3>2 DEF WasSent, RunOf
    <3> QED
      BY <1>4, <2>3, <3>1, <3>2, OperateServes DEF KindOf, Claimers
  <2>4. ASSUME pc'[p] # "idle", KindOf(p)' = "execute" PROVE WasSent("source", p)'
    <3>1. CASE op'[p] = op[p] /\ pc[p] # "idle"
      <4>1. KindOf(p) = "execute" /\ RunOf(p)' = RunOf(p)
        BY <2>4, <3>1 DEF KindOf, RunOf
      <4>2. RunOf(p) \in Run /\ WasSent("source", p)
        BY <1>1, <3>1, <4>1, ServesRun
           DEF RunKind, WritingKind, Claimers, JobKind
      <4> QED
        BY <4>1, <4>2, SentGrows DEF WasSent
    <3>2. CASE <<"source", op'[p][2]>> \in evidence
      BY <2>2, <3>2 DEF WasSent, RunOf
    <3> QED
      BY <1>4, <2>4, <3>1, <3>2, OperateServes DEF KindOf, Claimers
  <2> QED
    BY <2>1, <2>3, <2>4
<1>5. ASSUME NEW p \in Proc, Proceed(p) PROVE Kept(p)'
  <2>1. CASE pc'[p] = "idle"
    BY <2>1
  <2>2. CASE pc'[p] # "idle"
    <3>1. KindOf(p)' = KindOf(p) /\ RunOf(p)' = RunOf(p) /\ pc[p] # "idle"
      <4>1. op'[p] = op[p]
        BY <1>5, <2>2, ProceedPoint
      <4>2. pc[p] # "idle"
        BY <1>5 DEF Proceed, Link, Replay, Refuse, Claim, AlreadyClaimed, Confirm,
           Rollback, SyncDirectory, Leave, Provision, PlanAnswered, Send, Answered
      <4> QED
        BY <4>1, <4>2 DEF KindOf, RunOf
    <3>2. {"dispatch", "deliver", "execute"} \subseteq RunKind
      BY DEF RunKind, WritingKind, Publishers, Claimers, JobKind
    <3>3. ASSUME NEW m \in Message, KindOf(p) \in RunKind, WasSent(m, p)
          PROVE  WasSent(m, p)'
      BY <3>1, <3>3, ServesRun, SentGrows DEF WasSent
    <3>4. ASSUME pc'[p] = "awaiting" PROVE WasSent(MessageOf(KindOf(p)), p)'
      <4>1. Send(p)
        BY <1>5, <3>4, ProceedSends
      <4>2. KindOf(p) \in RunKind /\ MessageOf(KindOf(p)) \in Message
        BY <4>1 DEF Send, IInv, KindsFit, RunKind, WritingKind, Publishers, Claimers,
                    JobKind, MessageOf
      <4>3. sent'[RunOf(p)][MessageOf(KindOf(p))] > 0
        BY <4>1, <4>2, Counted DEF Send
      <4> QED
        BY <3>1, <4>3 DEF WasSent
    <3>5. ASSUME pc'[p] \in {"awaitingPlan", "sending"}, KindOf(p) = "dispatch"
          PROVE  WasSent("provision", p)'
      <4>1. CASE Provision(p)
        <5>1. sent'[RunOf(p)]["provision"] > 0
          BY <3>2, <3>5, <4>1, Counted DEF Provision
        <5> QED
          BY <3>1, <5>1 DEF WasSent
      <4>2. CASE pc[p] = "awaitingPlan"
        BY <1>1, <3>2, <3>3, <3>5, <4>2
      <4> QED
        BY <1>5, <3>5, <4>1, <4>2, ProceedSends DEF Claimers
    <3> QED
      BY <1>1, <2>2, <3>1, <3>2, <3>3, <3>4, <3>5
  <2> QED
    BY <2>1, <2>2
<1>6. ASSUME NEW p \in Proc, ProcStep(p), NEW q \in Proc PROVE Kept(q)'
  <2>1. CASE q = p
    BY <1>3, <1>4, <1>5, <1>6, <2>1 DEF ProcStep
  <2>2. CASE q # p
    <3>1. LockStep(p)
      BY <1>6, OperateLocks, ProceedLocks, ReturnLocks DEF ProcStep, Crash, IInv
    <3>2. pc'[q] = pc[q] /\ op'[q] = op[q]
      BY <2>2, <3>1 DEF LockStep
    <3> QED
      BY <1>2, <3>2
  <2> QED
    BY <2>1, <2>2
<1>7. ASSUME PowerFail, NEW q \in Proc PROVE Kept(q)'
  BY <1>7 DEF PowerFail
<1>8. ASSUME Aside, NEW q \in Proc PROVE Kept(q)'
  BY <1>2, <1>8 DEF Aside
<1>9. OrderKept'
  BY <1>6, <1>7, <1>8, StepOf DEF OrderKept
<1> QED
  BY <1>9, EvidenceStep DEF OrderInv

-----------------------------------------------------------------------------
(* The chain of the records.                                               *)

\* The records of a run are paths of the job.
LEMMA RunPaths ==
  ASSUME NEW r \in Run
  PROVE  /\ <<"queued", r>> \in Path /\ <<"intent", r>> \in Path
         /\ <<"second", r>> \in Path /\ <<"sourceClaim", r>> \in Path
         /\ <<"executionClaim", r>> \in Path
BY DEF Path, RunRecord

\* A claim is never rolled back: where there is one it is settled.
LEMMA ClaimIsSettled ==
  ASSUME IInv, NEW r, disk[<<"sourceClaim", r>>] # "absent"
  PROVE  Settled(<<"sourceClaim", r>>)
<1>1. \A p \in Proc : pc[p] = "published" => Target(p) # <<"sourceClaim", r>>
  BY DEF IInv, KindsFit, Publishers, Target, RecordOf
<1> QED
  BY <1>1 DEF Settled

\* What was dispatched is settled: its publisher would still have to send it.
LEMMA DispatchedIsSettled ==
  ASSUME IInv, NEW r \in Run, NEW m \in {"provision", "dispatch"}, sent[r][m] > 0
  PROVE  AtDispatching(r)
<1>1. m \in Message /\ GatePath(m, r) = <<"second", r>> /\ GateContent(m) = "dispatching"
  BY DEF Message, GatePath, GateContent
<1>2. disk[<<"second", r>>] = "dispatching"
  BY <1>1 DEF IInv, SentIsRecorded
<1>3. ASSUME NEW p \in Proc, pc[p] = "published", Target(p) = <<"second", r>> PROVE FALSE
  <2>1. Owns(p) /\ KindOf(p) \in WritingKind
    BY <1>3 DEF Owns, IInv, KindsFit, WritingKind
  <2>2. ContentOf(KindOf(p)) = "dispatching"
    BY <1>2, <1>3, <2>1 DEF IInv, OwnedIsThere
  <2>3. KindOf(p) = Sender(m) /\ RunOf(p) = r
    BY <1>1, <1>3, <2>1, <2>2, GateOwner DEF IInv
  <2>4. Pending(p, m)
    BY <1>3, <2>3 DEF Pending
  <2>5. sent[r][m] = 0
    BY <1>1, <2>1, <2>3, <2>4 DEF IInv, PendingIsUnsent
  <2> QED
    BY <2>5
<1> QED
  BY <1>2, <1>3 DEF AtDispatching, Settled

\* Grounds stay.
LEMMA GroundsStay ==
  ASSUME IInv, ~PowerMayFail, [Next]_vars, NEW k, NEW r \in Run, Grounds(k, r)
  PROVE  Grounds(k, r)'
<1>1. \A f \in Path : Settled(f) => Settled(f)' /\ disk'[f] = disk[f]
  BY SettledStays
<1> QED
  BY <1>1, InitialIsPath, RunPaths DEF Grounds, AtDispatching

\* Whoever is about to claim has evidence of what was sent.
LEMMA ClaimerIsGrounded ==
  ASSUME ChainInv, NEW p \in Proc, pc[p] = "linking", KindOf(p) \in Claimers
  PROVE  Grounds(KindOf(p), RunOf(p))
<1> USE DEF ChainInv, TInv, LockInv, OrderInv
<1>1. RunOf(p) \in Run
  BY ServesRun DEF RunKind, WritingKind, Claimers, JobKind
<1>2. CASE KindOf(p) = "deliver"
  <2>1. sent[RunOf(p)]["dispatch"] > 0
    BY <1>2 DEF OrderKept, WasSent
  <2> QED
    BY <1>1, <1>2, <2>1, DispatchedIsSettled DEF Grounds
<1>3. CASE KindOf(p) = "execute"
  <2>1. sent[RunOf(p)]["source"] > 0
    BY <1>3 DEF OrderKept, WasSent
  <2>2. disk[<<"sourceClaim", RunOf(p)>>] = "present"
    BY <1>1, <2>1 DEF IInv, SentIsRecorded, Message, GatePath, GateContent
  <2>3. Settled(<<"sourceClaim", RunOf(p)>>)
    BY <2>2, ClaimIsSettled
  <2>4. Grounds("deliver", RunOf(p))
    BY <1>1, <2>2 DEF Grounded, RunKind, WritingKind, Claimers, JobKind, RecordOf, ContentOf
  <2> QED
    BY <1>3, <2>3, <2>4 DEF Grounds, Claimers
<1> QED
  BY <1>2, <1>3 DEF Claimers

\* Record and content name the kind that creates it.
LEMMA KindIsNamed ==
  ASSUME NEW k \in RunKind, NEW j \in WritingKind,
         RecordOf(k) = RecordOf(j), ContentOf(k) = ContentOf(j)
  PROVE  k = j
BY DEF RunKind, WritingKind, Publishers, Claimers, JobKind, RecordOf, ContentOf

\* A record is created on its grounds.
LEMMA GroundedStep ==
  ASSUME ChainInv, ~PowerMayFail, [Next]_vars
  PROVE  Grounded'
<1> USE DEF ChainInv, TInv, LockInv
<1> SUFFICES ASSUME NEW k \in RunKind, NEW r \in Run,
                    disk'[<<RecordOf(k), r>>] = ContentOf(k)
             PROVE  Grounds(k, r)
  BY GroundsStay DEF Grounded
<1> DEFINE f == <<RecordOf(k), r>>
<1>1. f \in Path /\ ContentOf(k) # "absent"
  BY RunPaths DEF RunKind, WritingKind, Publishers, Claimers, JobKind, RecordOf, ContentOf
<1>2. CASE disk[f] = ContentOf(k)
  BY <1>2 DEF Grounded
<1>3. ASSUME NEW p \in Proc, Creates(p), disk[f] # ContentOf(k) PROVE Grounds(k, r)
  <2>1. Target(p) = f /\ ContentOf(KindOf(p)) = ContentOf(k)
    <3>1. disk' = [disk EXCEPT ![Target(p)] = ContentOf(KindOf(p))] /\ disk \in [Path -> Content]
      BY <1>3 DEF Creates, CreateRecord, IInv, TypeOK
    <3> QED
      BY <1>1, <1>3, <3>1
  <2>2. KindOf(p) = k /\ RunOf(p) = r /\ pc[p] = "linking"
    BY <1>3, <2>1, KindIsNamed DEF Creates, Target
  <2>3. CASE k \in Claimers
    BY <2>2, <2>3, ClaimerIsGrounded
  <2>4. CASE k \notin Claimers
    BY <2>2, <2>4 DEF LinkingGrounded, RunKind, WritingKind
  <2> QED
    BY <2>3, <2>4
<1>4. ASSUME NEW p \in Proc, Still(p) \/ Rollback(p) PROVE disk[f] = ContentOf(k)
  <2>1. CASE Still(p)
    BY <2>1 DEF Still
  <2>2. CASE Rollback(p)
    <3>1. disk' = [disk EXCEPT ![Target(p)] = "absent"] /\ disk \in [Path -> Content]
      BY <2>2 DEF Rollback, IInv, TypeOK
    <3> QED
      BY <1>1, <3>1
  <2> QED
    BY <1>4, <2>1, <2>2
<1>5. ASSUME Aside PROVE disk[f] = ContentOf(k)
  BY <1>5 DEF Aside
<1> QED
  BY <1>2, <1>3, <1>4, <1>5, StepOf, StepKinds DEF ProcStep, PowerFail

\* What is required when the lock is taken, for each record of a run.
LEMMA EntryIsGrounded ==
  ASSUME ChainInv, NEW p \in Proc, Operate(p), pc'[p] = "linking",
         KindOf(p)' \in Publishers \ JobKind
  PROVE  Grounds(KindOf(p)', RunOf(p)') /\ RunOf(p)' \in Run
<1> USE DEF ChainInv, TInv, LockInv
<1>1. ASSUME NEW k, NEW r, NEW point, point # "linking", Begin(p, k, r, point) PROVE FALSE
  BY <1>1 DEF Begin, Goto, IInv, TypeOK
<1>2. ASSUME NEW k, NEW STATE c, NEW STATE claims,
             FirstSection(p, k, c) \/ Read(p, k, c, claims) PROVE FALSE
  BY <1>2 DEF FirstSection, Read, Return, Goto, IInv, TypeOK
<1>3. ASSUME NEW k, NEW STATE c, Enter(p, k, c)
      PROVE  /\ lock = NoProc /\ c /\ KindOf(p) = k
             /\ KindOf(p)' = k /\ RunOf(p)' = RunOf(p)
  BY <1>3 DEF Enter, Return, Goto, IInv, TypeOK, KindOf, RunOf
<1>4. ~Deliver(p) /\ ~Execute(p)
  <2>1. ~Deliver(p)
    <3>1. ASSUME NEW r \in Run, Begin(p, "deliver", r, "linking") PROVE FALSE
      <4>1. op'[p] = <<"deliver", r>>
        BY <3>1 DEF Begin, IInv, TypeOK
      <4>2. KindOf(p)' = "deliver"
        BY <4>1 DEF KindOf
      <4> QED
        BY <4>2 DEF Publishers
    <3> QED
      BY <3>1 DEF Deliver
  <2>2. CASE Execute(p)
    <3>1. CASE \E r \in Run : Begin(p, "execute", r, "first")
      BY <3>1, <1>1
    <3>2. CASE ~ \E r \in Run : Begin(p, "execute", r, "first")
      BY <2>2, <3>2 DEF Execute, Goto, Return, IInv, TypeOK, KindOf, Publishers
    <3> QED
      BY <3>1, <3>2
  <2> QED
    BY <2>1, <2>2
<1>5. ~(Lifecycle(p) \/ PersistPlan(p) \/ RecoverPlanned(p) \/ RecoverQueued(p)
        \/ RecoverIntent(p) \/ RecoverCancelled(p) \/ RecoverDispatching(p))
  BY <1>1, <1>2, <1>3
     DEF Lifecycle, PersistPlan, RecoverPlanned, RecoverQueued, RecoverIntent,
         RecoverCancelled, RecoverDispatching, Publishers, JobKind
<1>6. \A k \in RunKind : KindOf(p) = k => RunOf(p) \in Run
  BY ServesRun
<1>7. \A f : disk[f] # "absent" /\ lock = NoProc => Settled(f)
  BY PresentIsSettled
<1>8. CASE Queue(p)
  <2>1. /\ lock = NoProc /\ HasInitial
        /\ KindOf(p) = "queue" /\ KindOf(p)' = "queue" /\ RunOf(p)' = RunOf(p)
    BY <1>8, <1>1, <1>3 DEF Queue
  <2> QED
    BY <2>1, <1>6, <1>7 DEF Grounds, HasInitial, Has, RunKind, WritingKind, Publishers,
                            JobKind, Claimers
<1>9. CASE PersistIntent(p)
  <2>1. /\ lock = NoProc /\ Has("queued", RunOf(p))
        /\ KindOf(p) = "intent" /\ KindOf(p)' = "intent" /\ RunOf(p)' = RunOf(p)
    BY <1>9, <1>1, <1>3 DEF PersistIntent, QueuedNotTerminal, QueuedVerified
  <2> QED
    BY <2>1, <1>6, <1>7 DEF Grounds, Has, RunKind, WritingKind, Publishers,
                            JobKind, Claimers
<1>10. CASE Cancel(p)
  <2>1. /\ lock = NoProc /\ Has("queued", RunOf(p))
        /\ KindOf(p) = "cancel" /\ KindOf(p)' = "cancel" /\ RunOf(p)' = RunOf(p)
    BY <1>10, <1>1, <1>3 DEF Cancel, QueuedVerified
  <2> QED
    BY <2>1, <1>6, <1>7 DEF Grounds, Has, RunKind, WritingKind, Publishers,
                            JobKind, Claimers
<1>11. CASE Dispatch(p)
  <2>1. /\ lock = NoProc /\ Has("queued", RunOf(p)) /\ Has("intent", RunOf(p))
        /\ KindOf(p) = "dispatch" /\ KindOf(p)' = "dispatch" /\ RunOf(p)' = RunOf(p)
    BY <1>11, <1>1, <1>3 DEF Dispatch, QueuedVerified
  <2> QED
    BY <2>1, <1>6, <1>7 DEF Grounds, Has, RunKind, WritingKind, Publishers,
                            JobKind, Claimers
<1> QED
  BY <1>4, <1>5, <1>8, <1>9, <1>10, <1>11 DEF Operate

LEMMA LinkingStep ==
  ASSUME ChainInv, ~PowerMayFail, [Next]_vars
  PROVE  LinkingGrounded'
<1> USE DEF ChainInv, TInv, LockInv
<1> SUFFICES ASSUME NEW p \in Proc, pc'[p] = "linking", KindOf(p)' \in Publishers \ JobKind
             PROVE  Grounds(KindOf(p)', RunOf(p)') /\ RunOf(p)' \in Run
  <2>1. \A k, r : r \in Run /\ Grounds(k, r) => Grounds(k, r)'
    BY GroundsStay
  <2> QED
    BY <2>1 DEF LinkingGrounded, Grounds, AtDispatching, Settled
<1>1. CASE pc[p] = "linking" /\ KindOf(p)' = KindOf(p) /\ RunOf(p)' = RunOf(p)
  BY <1>1, ServesRun DEF LinkingGrounded, RunKind, WritingKind
<1>2. ASSUME NEW q \in Proc, ProcStep(q), q # p
      PROVE  pc[p] = "linking" /\ KindOf(p)' = KindOf(p) /\ RunOf(p)' = RunOf(p)
  BY <1>2, OthersStay
<1>3. CASE Operate(p)
  BY <1>3, EntryIsGrounded
<1>4. ~Proceed(p)
  BY ProceedPoint
<1>5. ~Crash(p)
  BY DEF Crash, Return, Goto, IInv, TypeOK
<1>6. ASSUME Aside
      PROVE  pc[p] = "linking" /\ KindOf(p)' = KindOf(p) /\ RunOf(p)' = RunOf(p)
  BY <1>6 DEF Aside, KindOf, RunOf
<1> QED
  BY <1>1, <1>2, <1>3, <1>4, <1>5, <1>6, StepOf DEF ProcStep, PowerFail

-----------------------------------------------------------------------------

\* The chain is kept by every behaviour without a power failure.
THEOREM ChainInvariance ==
  ASSUME ~PowerMayFail
  PROVE  Spec => []ChainInv
<1>1. Init => OrderInv /\ Grounded /\ LinkingGrounded
  BY RunPaths DEF Init, OrderInv, EvidenceIsSent, OrderKept, Grounded, LinkingGrounded,
                  RunKind, WritingKind, Publishers, Claimers, JobKind, RecordOf, ContentOf
<1>2. TInv /\ TInv' /\ OrderInv /\ Grounded /\ LinkingGrounded /\ [Next]_vars
        => OrderInv' /\ Grounded' /\ LinkingGrounded'
  BY OrderStep, GroundedStep, LinkingStep DEF ChainInv, TInv, LockInv
<1>3. Spec => []TInv
  BY ToldInvariance
<1> QED
  BY <1>1, <1>2, <1>3, PTL DEF Spec, ChainInv

\* No record stands without those it was derived from, unless the power fails.
THEOREM ChainStaysComplete ==
  ASSUME ~PowerMayFail
  PROVE  Spec => []ChainComplete
<1>1. ASSUME ChainInv PROVE ChainComplete
  <2> SUFFICES ASSUME NEW r \in Run
               PROVE  /\ Has("queued", r) => HasInitial
                      /\ Has("second", r) => Has("queued", r)
                      /\ Has("intent", r) => Has("queued", r)
                      /\ disk[<<"second", r>>] = "dispatching" => Has("intent", r)
                      /\ Has("sourceClaim", r) => disk[<<"second", r>>] = "dispatching"
                      /\ Has("executionClaim", r) => Has("sourceClaim", r)
    BY DEF ChainComplete
  <2>1. /\ disk[<<"queued", r>>] \in {"absent", "present"}
        /\ disk[<<"intent", r>>] \in {"absent", "present"}
        /\ disk[<<"sourceClaim", r>>] \in {"absent", "present"}
        /\ disk[<<"executionClaim", r>>] \in {"absent", "present"}
        /\ disk[<<"second", r>>] \in {"absent", "cancelled", "dispatching"}
    BY <1>1, RunPaths DEF ChainInv, TInv, ContentFits
  <2>2. \A k \in RunKind : disk[<<RecordOf(k), r>>] = ContentOf(k) => Grounds(k, r)
    BY <1>1 DEF ChainInv, Grounded
  <2>3. /\ disk[<<"queued", r>>] = "present" => Grounds("queue", r)
        /\ disk[<<"intent", r>>] = "present" => Grounds("intent", r)
        /\ disk[<<"second", r>>] = "cancelled" => Grounds("cancel", r)
        /\ disk[<<"second", r>>] = "dispatching" => Grounds("dispatch", r)
        /\ disk[<<"sourceClaim", r>>] = "present" => Grounds("deliver", r)
        /\ disk[<<"executionClaim", r>>] = "present" => Grounds("execute", r)
    BY <2>2 DEF RunKind, WritingKind, Publishers, Claimers, JobKind, RecordOf, ContentOf
  <2> QED
    BY <2>1, <2>3 DEF Has, HasInitial, Grounds, AtDispatching, Settled, Claimers
<1> QED
  BY <1>1, ChainInvariance, PTL

-----------------------------------------------------------------------------
(* The plan and the transitions.                                           *)

\* What is absent is not on stable storage either.
AbsentIsStable == \A f \in Path : disk[f] = "absent" => stable[f] = "absent"

\* Who is about to create the plan found no transition, or no need to.
PlanGuarded ==
  \A p \in Proc :
    pc[p] = "linking" /\ KindOf(p) = "plan" => Has("plan", Job) \/ ~HasTransition

PlanInv == LockInv /\ AbsentIsStable /\ PlanGuarded

LEMMA AbsentStep ==
  ASSUME IInv, AbsentIsStable, [Next]_vars
  PROVE  AbsentIsStable'
<1>1. ASSUME UNCHANGED files PROVE AbsentIsStable'
  BY <1>1 DEF AbsentIsStable, files
<1>2. ASSUME NEW p \in Proc, Link(p) \/ Claim(p) PROVE AbsentIsStable'
  <2>1. Creates(p) /\ stable' = stable
    BY <1>2 DEF Link, Claim, Creates, CreateRecord, WritingKind
  <2>2. disk' = [disk EXCEPT ![Target(p)] = ContentOf(KindOf(p))] /\ disk \in [Path -> Content]
    BY <2>1 DEF Creates, CreateRecord, IInv, TypeOK
  <2>3. ContentOf(KindOf(p)) # "absent"
    BY DEF ContentOf
  <2> QED
    BY <2>1, <2>2, <2>3 DEF AbsentIsStable
<1>3. ASSUME NEW p \in Proc, Rollback(p) PROVE AbsentIsStable'
  <2>1. /\ disk' = [disk EXCEPT ![Target(p)] = "absent"] /\ disk \in [Path -> Content]
        /\ stable' = [g \in Path |-> IF SameDirectory(Target(p), g) THEN disk'[g] ELSE stable[g]]
    BY <1>3 DEF Rollback, IInv, TypeOK
  <2>2. \A f \in Path : disk'[f] = IF f = Target(p) THEN "absent" ELSE disk[f]
    BY <2>1
  <2>3. \A f \in Path : f = Target(p) => SameDirectory(Target(p), f)
    BY DEF SameDirectory
  <2> QED
    BY <2>1, <2>2, <2>3 DEF AbsentIsStable
<1>4. ASSUME NEW p \in Proc, SyncDirectory(p) PROVE AbsentIsStable'
  <2>1. \A f \in Path : stable'[f] \in {disk[f], stable[f]} /\ disk'[f] = disk[f]
    BY <1>4 DEF SyncDirectory, Sync
  <2> QED
    BY <2>1 DEF AbsentIsStable
<1>5. ASSUME NEW p \in Proc, ProcStep(p),
             ~(Link(p) \/ Claim(p) \/ Rollback(p) \/ SyncDirectory(p))
      PROVE  UNCHANGED files
  <2>1. CASE Operate(p)
    BY <2>1, OperateIsQuiet DEF Quiet, IInv
  <2>2. CASE ~Operate(p)
    BY <1>5, <2>2 DEF ProcStep, Proceed, Crash, Replay, Refuse, AlreadyClaimed, Confirm,
        Leave, Provision, PlanAnswered, Send, Answered
  <2> QED
    BY <2>1, <2>2
<1>6. ASSUME PowerFail PROVE AbsentIsStable'
  <2>1. \A f \in Path : stable'[f] = disk'[f]
    BY <1>6 DEF PowerFail
  <2> QED
    BY <2>1 DEF AbsentIsStable
<1>7. ASSUME Aside PROVE UNCHANGED files
  BY <1>7 DEF Aside, files
<1> QED
  BY <1>1, <1>2, <1>3, <1>4, <1>5, <1>6, <1>7, StepOf

\* While one process is in a writing section, no other creates or takes away a
\* record of the job that a claim does not make.
LEMMA SectionKeepsRecords ==
  ASSUME LockInv, NEW p \in Proc, InSection(p), NEW q \in Proc, q # p, ProcStep(q),
         NEW f \in Path, f[1] \notin {"sourceClaim", "executionClaim"}
  PROVE  disk'[f] = disk[f]
<1>1. ~InSection(q)
  BY DEF LockInv, LockHeld
<1>2. CASE Still(q)
  BY <1>2 DEF Still
<1>3. CASE Creates(q)
  <2>1. KindOf(q) \in Claimers
    BY <1>1, <1>3 DEF Creates, InSection, WritingKind
  <2>2. f # Target(q)
    BY <2>1 DEF Claimers, Target, RecordOf
  <2> QED
    BY <1>3, <2>2 DEF Creates, CreateRecord, LockInv, IInv, TypeOK
<1>4. ~Rollback(q)
  BY <1>1 DEF Rollback, InSection
<1> QED
  BY <1>2, <1>3, <1>4, StepKinds DEF ProcStep, LockInv

LEMMA PlanPaths ==
  /\ <<"plan", Job>> \in Path
  /\ \A r \in Run : <<"queued", r>> \in Path /\ <<"second", r>> \in Path
BY DEF Path, JobRecord, RunRecord

LEMMA PlanGuardStep ==
  ASSUME PlanInv, [Next]_vars
  PROVE  PlanGuarded'
<1> USE DEF PlanInv, LockInv
<1> SUFFICES ASSUME NEW p \in Proc, pc'[p] = "linking", KindOf(p)' = "plan"
             PROVE  (Has("plan", Job) \/ ~HasTransition)'
  BY DEF PlanGuarded
<1>1. ASSUME UNCHANGED disk, Has("plan", Job) \/ ~HasTransition
      PROVE  (Has("plan", Job) \/ ~HasTransition)'
  BY <1>1 DEF Has, HasTransition
<1>2. ASSUME NEW q \in Proc, q # p, ProcStep(q)
      PROVE  (Has("plan", Job) \/ ~HasTransition)'
  <2>1. pc[p] = "linking" /\ KindOf(p) = "plan"
    BY <1>2, OthersStay
  <2>2. InSection(p)
    BY <2>1 DEF InSection, Publishers
  <2>3. /\ disk'[<<"plan", Job>>] = disk[<<"plan", Job>>]
        /\ \A r \in Run : /\ disk'[<<"queued", r>>] = disk[<<"queued", r>>]
                          /\ disk'[<<"second", r>>] = disk[<<"second", r>>]
    BY <1>2, <2>2, SectionKeepsRecords, PlanPaths
  <2>4. Has("plan", Job) \/ ~HasTransition
    BY <2>1 DEF PlanGuarded
  <2> QED
    BY <2>3, <2>4 DEF Has, HasTransition
<1>3. ASSUME Operate(p) PROVE UNCHANGED disk /\ (Has("plan", Job) \/ ~HasTransition)
  <2>1. UNCHANGED disk
    BY <1>3, OperateIsQuiet DEF Quiet, files, IInv
  <2>2. ASSUME NEW k, NEW r, NEW point, point # "linking", Begin(p, k, r, point) PROVE FALSE
    BY <2>2 DEF Begin, Goto, IInv, TypeOK
  <2>3. ASSUME NEW k, NEW STATE c, NEW STATE claims,
               FirstSection(p, k, c) \/ Read(p, k, c, claims) PROVE FALSE
    BY <2>3 DEF FirstSection, Read, Return, Goto, IInv, TypeOK
  <2>4. ASSUME NEW k, NEW STATE c, Enter(p, k, c) PROVE c /\ k = "plan"
    BY <2>4 DEF Enter, Return, Goto, IInv, TypeOK, KindOf
  <2>5. ~Deliver(p)
    <3>1. ASSUME NEW r \in Run, Begin(p, "deliver", r, "linking") PROVE FALSE
      <4>1. op'[p] = <<"deliver", r>>
        BY <3>1 DEF Begin, IInv, TypeOK
      <4> QED
        BY <4>1 DEF KindOf
    <3> QED
      BY <3>1 DEF Deliver
  <2>6. ~Execute(p)
    <3>1. CASE \E r \in Run : Begin(p, "execute", r, "first")
      BY <3>1, <2>2
    <3>2. CASE ~ \E r \in Run : Begin(p, "execute", r, "first")
      BY <3>2 DEF Execute, Goto, Return, IInv, TypeOK, KindOf
    <3> QED
      BY <3>1, <3>2
  <2>7. PersistPlan(p)
    <3>1. ~Lifecycle(p)
      <4>1. ~Begin(p, "lifecycle", Job, "first")
        BY <2>2
      <4>2. ~FirstSection(p, "lifecycle", TRUE)
        BY DEF FirstSection, Return, Goto, IInv, TypeOK
      <4>3. ~Enter(p, "lifecycle", TRUE)
        BY DEF Enter, Return, Goto, IInv, TypeOK, KindOf
      <4> QED
        BY <4>1, <4>2, <4>3 DEF Lifecycle
    <3>2. ~Queue(p)
      BY <2>2, <2>3, <2>4 DEF Queue
    <3>3. ~PersistIntent(p)
      BY <2>2, <2>3, <2>4 DEF PersistIntent
    <3>4. ~Cancel(p)
      BY <2>2, <2>3, <2>4 DEF Cancel
    <3>5. ~Dispatch(p)
      BY <2>2, <2>3, <2>4 DEF Dispatch
    <3>6. ~RecoverPlanned(p)
      BY <2>2, <2>3, <2>4 DEF RecoverPlanned
    <3>7. ~RecoverQueued(p)
      BY <2>2, <2>3, <2>4 DEF RecoverQueued
    <3>8. ~RecoverIntent(p)
      BY <2>2, <2>3, <2>4 DEF RecoverIntent
    <3>9. ~RecoverCancelled(p)
      BY <2>2, <2>3, <2>4 DEF RecoverCancelled
    <3>10. ~RecoverDispatching(p)
      BY <2>2, <2>3, <2>4 DEF RecoverDispatching
    <3> QED
      BY <1>3, <2>5, <2>6, <3>1, <3>2, <3>3, <3>4, <3>5, <3>6, <3>7, <3>8, <3>9, <3>10
         DEF Operate
  <2> QED
    BY <2>1, <2>2, <2>3, <2>4, <2>7 DEF PersistPlan
<1>4. ~Proceed(p) /\ ~Crash(p)
  BY ProceedPoint DEF Crash, Return, Goto, IInv, TypeOK
<1>5. ASSUME Aside PROVE (Has("plan", Job) \/ ~HasTransition)'
  <2>1. pc[p] = "linking" /\ KindOf(p) = "plan" /\ UNCHANGED disk
    BY <1>5 DEF Aside, KindOf
  <2> QED
    BY <1>1, <2>1 DEF PlanGuarded
<1>6. ~PowerFail
  BY DEF PowerFail
<1> QED
  BY <1>1, <1>2, <1>3, <1>4, <1>5, <1>6, StepOf DEF ProcStep

\* A plan is created by whoever found that none of the transitions was there.
LEMMA PlanIsFirst ==
  ASSUME PlanInv, [Next]_vars, ~Has("plan", Job), Has("plan", Job)'
  PROVE  ~HasTransition
<1> USE DEF PlanInv, LockInv
<1> DEFINE f == <<"plan", Job>>
<1>1. f \in Path /\ disk[f] = "absent" /\ disk'[f] # "absent" /\ stable[f] = "absent"
  BY PlanPaths DEF Has, AbsentIsStable
<1>2. ASSUME NEW p \in Proc, ProcStep(p) PROVE ~HasTransition
  <2>1. ~Still(p)
    BY <1>1 DEF Still
  <2>2. ~Rollback(p)
    <3>1. ASSUME Rollback(p) PROVE disk'[f] \in {"absent", disk[f]}
      BY <1>1, <3>1 DEF Rollback, IInv, TypeOK
    <3> QED
      BY <1>1, <3>1
  <2>3. Creates(p)
    BY <1>2, <2>1, <2>2, StepKinds DEF ProcStep
  <2>4. Target(p) = f
    <3>1. disk' = [disk EXCEPT ![Target(p)] = ContentOf(KindOf(p))] /\ disk \in [Path -> Content]
      BY <2>3 DEF Creates, CreateRecord, IInv, TypeOK
    <3> QED
      BY <1>1, <3>1
  <2>5. KindOf(p) = "plan" /\ pc[p] = "linking"
    BY <2>3, <2>4 DEF Creates, Target, RecordOf, WritingKind, Publishers, Claimers
  <2> QED
    BY <2>5 DEF PlanGuarded
<1>3. ~PowerFail
  <2>1. ASSUME PowerFail PROVE disk'[f] \in {disk[f], stable[f]}
    BY <1>1, <2>1 DEF PowerFail
  <2> QED
    BY <1>1, <2>1
<1>4. ~Aside
  BY <1>1 DEF Aside
<1> QED
  BY <1>2, <1>3, <1>4, StepOf

\* The plan of a job is stored before its first transition or not at all,
\* through crashes, an altered source and power failures.
THEOREM PlanComesFirst == Spec => PlanBeforeTransitions
<1>1. Init => PlanInv
  BY IInvInit DEF Init, PlanInv, LockInv, LockHeld, InSection, AbsentIsStable, PlanGuarded
<1>2. PlanInv /\ [Next]_vars => PlanInv'
  BY LockInvStep, AbsentStep, PlanGuardStep DEF PlanInv, LockInv
<1>3. PlanInv /\ [Next]_vars =>
        [~Has("plan", Job) /\ Has("plan", Job)' => ~HasTransition]_vars
  BY PlanIsFirst
<1> QED
  BY <1>1, <1>2, <1>3, PTL DEF Spec, PlanBeforeTransitions

-----------------------------------------------------------------------------
(* The promise.                                                            *)

\* Only a send changes what was sent.
LEMMA SentUnlessSending ==
  ASSUME IInv, NEW p \in Proc, ProcStep(p), ~Provision(p), ~Send(p)
  PROVE  sent' = sent
<1>1. CASE Operate(p)
  BY <1>1, OperateIsQuiet DEF Quiet, IInv
<1>2. CASE Crash(p)
  BY <1>2 DEF Crash, history
<1>3. CASE Proceed(p)
  BY <1>3 DEF Proceed, Link, Replay, Refuse, Claim, AlreadyClaimed, Confirm, Rollback,
              SyncDirectory, Leave, PlanAnswered, Answered, CreateRecord, history
<1> QED
  BY <1>1, <1>2, <1>3 DEF ProcStep

\* A creation publishes the record or claims it.
LEMMA CreationIsLinkOrClaim ==
  ASSUME IInv, NEW p \in Proc, ProcStep(p), Creates(p)
  PROVE  pc'[p] = "published" \/ KindOf(p) \in Claimers
<1>1. ~Operate(p) /\ ~Crash(p)
  BY OperatePoint DEF Creates, Crash, Return, Goto, IInv, TypeOK
<1> QED
  BY <1>1 DEF ProcStep, Proceed, Link, Replay, Refuse, Claim, AlreadyClaimed, Confirm,
              Rollback, SyncDirectory, Leave, Provision, PlanAnswered, Send, Answered,
              Creates, Return, Goto, IInv, TypeOK

\* A record gets settled when its publisher is past the roll-back, or at once
\* when it is a claim.
LEMMA NewlySettled ==
  ASSUME IInv, NEW p \in Proc, ProcStep(p), NEW f \in Path, Settled(f)', ~Settled(f)
  PROVE  /\ f = Target(p)
         /\ \/ pc[p] = "published" /\ disk' = disk
            \/ KindOf(p) \in Claimers
<1>1. ASSUME NEW q \in Proc, pc[q] = "published", Target(q) = f PROVE q = p
  BY <1>1, OthersStay DEF Settled
<1>2. disk[f] # "absent" => pc[p] = "published" /\ Target(p) = f
  BY <1>1 DEF Settled
<1>3. CASE Still(p)
  BY <1>2, <1>3 DEF Still, Settled
<1>4. CASE Creates(p)
  <2>1. disk[f] = "absent" /\ disk'[f] # "absent"
    BY <1>2, <1>4 DEF Creates, Settled
  <2>2. f = Target(p)
    BY <1>4, <2>1 DEF Creates, CreateRecord, IInv, TypeOK
  <2>3. Target(p)' = Target(p)
    BY <1>4 DEF Creates, CreateRecord, Target, KindOf, RunOf
  <2>4. pc'[p] # "published"
    BY <2>2, <2>3 DEF Settled
  <2> QED
    BY <1>4, <2>2, <2>4, CreationIsLinkOrClaim
<1>5. CASE Rollback(p)
  <2>1. f # Target(p) /\ disk'[f] = disk[f]
    BY <1>5 DEF Rollback, Settled, IInv, TypeOK
  <2> QED
    BY <1>2, <2>1 DEF Settled
<1> QED
  BY <1>3, <1>4, <1>5, StepKinds DEF ProcStep

\* As long as nothing of a run gets settled its snapshot stays.
LEMMA SnapshotStays ==
  ASSUME IInv, ~PowerMayFail, [Next]_vars, NEW r \in Run,
         Settled(<<"second", r>>)' => Settled(<<"second", r>>),
         Settled(<<"queued", r>>)' => Settled(<<"queued", r>>)
  PROVE  SnapshotOf(r)' = SnapshotOf(r)
<1>1. \A f \in {<<"second", r>>, <<"queued", r>>} :
        Settled(f) => Settled(f)' /\ disk'[f] = disk[f]
  BY RunPaths, SettledStays
<1> QED
  BY <1>1 DEF SnapshotOf

\* The records that make up a snapshot are settled by their publisher.
LEMMA PublisherSettles ==
  ASSUME IInv, NEW p \in Proc, ProcStep(p), NEW r \in Run,
         NEW record \in {"queued", "second"},
         Settled(<<record, r>>)', ~Settled(<<record, r>>)
  PROVE  /\ pc[p] = "published" /\ disk' = disk /\ RunOf(p) = r
         /\ KindOf(p) \in Publishers /\ RecordOf(KindOf(p)) = record
         /\ disk[<<record, r>>] = ContentOf(KindOf(p))
<1>1. <<record, r>> = Target(p)
  BY NewlySettled, RunPaths
<1>2. RecordOf(KindOf(p)) = record /\ RunOf(p) = r
  BY <1>1 DEF Target
<1>3. KindOf(p) \notin Claimers
  BY <1>2 DEF Claimers, RecordOf
<1>4. pc[p] = "published" /\ disk' = disk
  BY <1>3, NewlySettled, RunPaths
<1>5. KindOf(p) \in Publishers
  BY <1>4 DEF IInv, KindsFit
<1>6. disk[Target(p)] = ContentOf(KindOf(p))
  BY <1>4 DEF IInv, OwnedIsThere, Owns
<1> QED
  BY <1>1, <1>2, <1>4, <1>5, <1>6

\* The second transition of a run rests on the first.
LEMMA SecondIsGrounded ==
  ASSUME ChainInv, NEW r \in Run, disk[<<"second", r>>] # "absent"
  PROVE  Settled(<<"queued", r>>)
<1>1. disk[<<"second", r>>] \in {"cancelled", "dispatching"}
  BY RunPaths DEF ChainInv, TInv, ContentFits
<1>2. Grounds("cancel", r) \/ Grounds("dispatch", r)
  BY <1>1 DEF ChainInv, Grounded, RunKind, WritingKind, Publishers, JobKind, RecordOf,
              ContentOf
<1> QED
  BY <1>2 DEF Grounds

\* Settling a transition moves the run along an edge of the D.1 graph.
LEMMA SettlingAdvances ==
  ASSUME ChainInv, ~PowerMayFail, [Next]_vars, NEW p \in Proc, ProcStep(p), NEW r \in Run,
         SnapshotOf(r)' # SnapshotOf(r)
  PROVE  /\ pc[p] = "published" /\ RunOf(p) = r
         /\ \E s \in Promise!State :
               /\ Promise!ValidTransition(SnapshotOf(r), s)
               /\ SnapshotOf(r)' = Promise!Successor(SnapshotOf(r), s)
<1>0. IInv
  BY DEF ChainInv, TInv, LockInv
<1>1. \/ Settled(<<"second", r>>)' /\ ~Settled(<<"second", r>>)
      \/ Settled(<<"queued", r>>)' /\ ~Settled(<<"queued", r>>)
  BY <1>0, SnapshotStays
<1>2. CASE Settled(<<"second", r>>)' /\ ~Settled(<<"second", r>>)
  <2>1. /\ pc[p] = "published" /\ disk' = disk /\ RunOf(p) = r
        /\ KindOf(p) \in Publishers /\ RecordOf(KindOf(p)) = "second"
        /\ disk[<<"second", r>>] = ContentOf(KindOf(p))
    BY <1>0, <1>2, PublisherSettles
  <2>2. disk[<<"second", r>>] \in {"cancelled", "dispatching"}
    BY <2>1 DEF Publishers, RecordOf, ContentOf
  <2>3. Settled(<<"queued", r>>)
    BY <2>2, SecondIsGrounded
  <2>4. /\ SnapshotOf(r) = [state |-> "queued", revision |-> 1]
        /\ SnapshotOf(r)' = [state |-> disk[<<"second", r>>], revision |-> 2]
    BY <1>2, <2>1, <2>3 DEF SnapshotOf
  <2>5. ASSUME NEW s \in {"cancelled", "dispatching"}
        PROVE  /\ Promise!ValidTransition([state |-> "queued", revision |-> 1], s)
               /\ Promise!Successor([state |-> "queued", revision |-> 1], s)
                    = [state |-> s, revision |-> 2]
    BY DEF Promise!ValidTransition, Promise!ValidPosition, Promise!Position, Promise!State,
           Promise!NonTerminal, Promise!Terminal, Promise!ValidRevisions,
           Promise!RevisionTable, Promise!Targets, Promise!MaxRevision, Promise!Successor
  <2>6. disk[<<"second", r>>] \in Promise!State
    BY <2>2 DEF Promise!State, Promise!NonTerminal, Promise!Terminal
  <2> QED
    BY <2>1, <2>2, <2>4, <2>5, <2>6
<1>3. CASE /\ Settled(<<"queued", r>>)' /\ ~Settled(<<"queued", r>>)
           /\ ~(Settled(<<"second", r>>)' /\ ~Settled(<<"second", r>>))
  <2>1. pc[p] = "published" /\ RunOf(p) = r
    BY <1>0, <1>3, PublisherSettles
  <2>2. disk[<<"second", r>>] = "absent"
    BY <1>3, SecondIsGrounded
  <2>3. ~Settled(<<"second", r>>) /\ ~Settled(<<"second", r>>)'
    BY <1>3, <2>2 DEF Settled
  <2>4. /\ SnapshotOf(r) = [state |-> "planned", revision |-> 0]
        /\ SnapshotOf(r)' = [state |-> "queued", revision |-> 1]
    BY <1>3, <2>3 DEF SnapshotOf
  <2>5. /\ Promise!ValidTransition([state |-> "planned", revision |-> 0], "queued")
        /\ Promise!Successor([state |-> "planned", revision |-> 0], "queued")
             = [state |-> "queued", revision |-> 1]
        /\ "queued" \in Promise!State
    BY DEF Promise!ValidTransition, Promise!ValidPosition, Promise!Position, Promise!State,
           Promise!NonTerminal, Promise!Terminal, Promise!ValidRevisions,
           Promise!RevisionTable, Promise!Targets, Promise!MaxRevision, Promise!Successor
  <2> QED
    BY <2>1, <2>4, <2>5
<1> QED
  BY <1>1, <1>2, <1>3

\* The owner of a dispatching record that is past the roll-back has it settled.
LEMMA OwnerIsDispatching ==
  ASSUME IInv, NEW p \in Proc, Owns(p), pc[p] # "published", KindOf(p) = "dispatch"
  PROVE  AtDispatching(RunOf(p))
<1>1. Target(p) = <<"second", RunOf(p)>> /\ ContentOf(KindOf(p)) = "dispatching"
  BY DEF Target, RecordOf, ContentOf
<1>2. disk[<<"second", RunOf(p)>>] = "dispatching"
  BY <1>1 DEF IInv, OwnedIsThere
<1>3. \A q \in Proc : pc[q] = "published" => Target(q) # Target(p)
  BY DEF IInv, OneOwner, Owns
<1> QED
  BY <1>1, <1>2, <1>3 DEF AtDispatching, Settled

\* A message leaves in its turn, for a run that stands at dispatching.
LEMMA SendsInTurn ==
  ASSUME ChainInv, NEW p \in Proc, NEW m \in Message,
         \/ Provision(p) /\ m = "provision"
         \/ Send(p) /\ m = MessageOf(KindOf(p))
  PROVE  /\ RunOf(p) \in Run
         /\ AtDispatching(RunOf(p))
         /\ sent[RunOf(p)][m] = 0
         /\ m # "provision" => sent[RunOf(p)][Promise!Before(m)] = 1
         /\ sent' = [sent EXCEPT ![RunOf(p)][m] = 1]
<1> USE DEF ChainInv, TInv, LockInv, OrderInv
<1>1. /\ Owns(p) /\ pc[p] \in {"provisioning", "sending"}
      /\ KindOf(p) \in {"dispatch"} \union Claimers
      /\ m = "provision" => pc[p] = "provisioning" /\ KindOf(p) = "dispatch"
      /\ m # "provision" => pc[p] = "sending" /\ m = MessageOf(KindOf(p))
  BY DEF Provision, Send, Owns, IInv, KindsFit, MessageOf, Claimers
<1>2. RunOf(p) \in Run
  BY <1>1, ServesRun DEF RunKind, WritingKind, Publishers, Claimers, JobKind
<1>3. Pending(p, m)
  BY <1>1 DEF Pending, Sender, MessageOf, Claimers
<1>4. sent[RunOf(p)][m] = 0
  BY <1>1, <1>3 DEF IInv, PendingIsUnsent
<1>5. ASSUME NEW n \in Message, WasSent(n, p) PROVE sent[RunOf(p)][n] = 1
  <2>1. sent[RunOf(p)][n] \in Nat
    BY <1>2 DEF IInv, TypeOK
  <2> QED
    BY <1>2, <1>5, <2>1 DEF IInv, SentAtMostOnce, WasSent
<1>6. /\ m = "dispatch" => WasSent("provision", p)
      /\ KindOf(p) = "deliver" => WasSent("dispatch", p)
      /\ KindOf(p) = "execute" => WasSent("source", p)
  BY <1>1 DEF OrderKept, MessageOf, Claimers
<1>7. m # "provision" => sent[RunOf(p)][Promise!Before(m)] = 1
  <2>1. \/ m = "provision"
        \/ m = "dispatch" /\ WasSent("provision", p)
        \/ m = "source" /\ WasSent("dispatch", p)
        \/ m = "execute" /\ WasSent("source", p)
    BY <1>1, <1>6 DEF MessageOf, Claimers
  <2>2. /\ Promise!Before("dispatch") = "provision"
        /\ Promise!Before("source") = "dispatch"
        /\ Promise!Before("execute") = "source"
    BY DEF Promise!Before
  <2>3. {"provision", "dispatch", "source"} \subseteq Message
    BY DEF Message
  <2>4. CASE m = "dispatch" /\ WasSent("provision", p)
    BY <1>5, <2>2, <2>3, <2>4
  <2>5. CASE m = "source" /\ WasSent("dispatch", p)
    BY <1>5, <2>2, <2>3, <2>5
  <2>6. CASE m = "execute" /\ WasSent("source", p)
    BY <1>5, <2>2, <2>3, <2>6
  <2> QED
    BY <2>1, <2>4, <2>5, <2>6
<1>8. AtDispatching(RunOf(p))
  <2>1. CASE KindOf(p) = "dispatch"
    BY <1>1, <2>1, OwnerIsDispatching
  <2>2. CASE KindOf(p) = "deliver"
    BY <1>2, <1>6, <2>2, DispatchedIsSettled DEF WasSent
  <2>3. CASE KindOf(p) = "execute"
    <3>1. disk[<<"sourceClaim", RunOf(p)>>] = "present"
      BY <1>2, <1>6, <2>3 DEF WasSent, IInv, SentIsRecorded, Message, GatePath, GateContent
    <3>2. Grounds("deliver", RunOf(p))
      BY <1>2, <3>1 DEF Grounded, RunKind, WritingKind, Claimers, JobKind, RecordOf, ContentOf
    <3> QED
      BY <3>2 DEF Grounds, Claimers
  <2> QED
    BY <1>1, <2>1, <2>2, <2>3 DEF Claimers
<1>9. sent' = [sent EXCEPT ![RunOf(p)][m] = 1]
  <2>1. sent' = [sent EXCEPT ![RunOf(p)][m] = @ + 1]
    BY DEF Provision, Send
  <2>2. [sent EXCEPT ![RunOf(p)][m] = @ + 1] = [sent EXCEPT ![RunOf(p)][m] = 1]
    BY <1>4
  <2> QED
    BY <2>1, <2>2
<1> QED
  BY <1>2, <1>4, <1>7, <1>8, <1>9

\* Every step is a step of the promise or none.
LEMMA PromiseStep ==
  ASSUME ChainInv, ~PowerMayFail, [Next]_vars
  PROVE  [Promise!PromiseNext]_<<[r \in Run |-> SnapshotOf(r)], sent>>
<1> DEFINE snap == [r \in Run |-> SnapshotOf(r)]
<1>1. ASSUME \A r \in Run : SnapshotOf(r)' = SnapshotOf(r) PROVE snap' = snap
  BY <1>1
<1>2. CASE Aside
  <2>1. \A r \in Run : SnapshotOf(r)' = SnapshotOf(r)
    BY <1>2 DEF Aside, SnapshotOf, Settled, Target, KindOf, RunOf
  <2> QED
    BY <1>1, <1>2, <2>1 DEF Aside
<1>3. ASSUME NEW p \in Proc, ProcStep(p), NEW m \in Message,
             \/ Provision(p) /\ m = "provision"
             \/ Send(p) /\ m = MessageOf(KindOf(p))
      PROVE  Promise!PromiseNext
  <2>1. pc[p] # "published"
    BY <1>3 DEF Provision, Send
  <2>2. snap' = snap
    BY <1>1, <1>3, <2>1, SettlingAdvances
  <2>3. snap[RunOf(p)].state = "dispatching"
    BY <1>3, SendsInTurn DEF AtDispatching, SnapshotOf
  <2>4. Promise!Send(RunOf(p), m)
    BY <1>3, <2>2, <2>3, SendsInTurn DEF Promise!Send
  <2> QED
    BY <1>3, <2>4, SendsInTurn DEF Promise!PromiseNext, Promise!Message, Message
<1>4. ASSUME NEW p \in Proc, ProcStep(p), ~Provision(p), ~Send(p),
             NEW r \in Run, SnapshotOf(r)' # SnapshotOf(r)
      PROVE  Promise!PromiseNext
  <2>1. PICK s \in Promise!State : /\ Promise!ValidTransition(SnapshotOf(r), s)
                                   /\ SnapshotOf(r)' = Promise!Successor(SnapshotOf(r), s)
    BY <1>4, SettlingAdvances
  <2>2. \A q \in Run \ {r} : SnapshotOf(q)' = SnapshotOf(q)
    BY <1>4, SettlingAdvances
  <2>3. snap' = [snap EXCEPT ![r] = Promise!Successor(@, s)]
    BY <2>1, <2>2
  <2>4. sent' = sent
    BY <1>4, SentUnlessSending DEF ChainInv, TInv, LockInv
  <2>5. Promise!Advance(r, s)
    BY <2>1, <2>3, <2>4 DEF Promise!Advance, Promise!Transition
  <2> QED
    BY <2>5 DEF Promise!PromiseNext
<1>5. ASSUME NEW p \in Proc, ProcStep(p)
      PROVE  Promise!PromiseNext \/ (snap' = snap /\ sent' = sent)
  <2>1. CASE Provision(p)
    BY <1>3, <1>5, <2>1 DEF Message
  <2>2. CASE Send(p)
    BY <1>3, <1>5, <2>2 DEF Message, MessageOf
  <2>3. CASE ~Provision(p) /\ ~Send(p)
    BY <1>1, <1>4, <1>5, <2>3, SentUnlessSending DEF ChainInv, TInv, LockInv
  <2> QED
    BY <2>1, <2>2, <2>3
<1> QED
  BY <1>2, <1>5, StepOf DEF PowerFail

\* The gateway keeps its promise: a run follows the D.1 graph, and the four
\* messages leave at most once each, in their order, at dispatching only,
\* whatever is called, crashes or races, unless the power fails.
THEOREM PromiseIsKept ==
  ASSUME ~PowerMayFail
  PROVE  Spec => PromiseKept
<1>1. Init => Promise!PromiseInit
  <2> SUFFICES ASSUME Init PROVE Promise!PromiseInit
    OBVIOUS
  <2>1. \A r \in Run : SnapshotOf(r) = Promise!Planned
    BY RunPaths DEF Init, SnapshotOf, Settled, Promise!Planned
  <2> QED
    BY <2>1 DEF Init, Promise!PromiseInit, Promise!Init, Promise!Message, Message
<1>2. ChainInv /\ [Next]_vars
        => [Promise!PromiseNext]_<<[r \in Run |-> SnapshotOf(r)], sent>>
  BY PromiseStep
<1> QED
  BY <1>1, <1>2, ChainInvariance, PTL DEF Spec, PromiseKept, Promise!PromiseSpec

=============================================================================
