------------------------- MODULE EngineReceiverProofs -------------------------
(***************************************************************************)
(* Theorems about EngineReceiver, for any set of threads, runs and nonces, *)
(* whether the gateway waits for its answers or not, with power failures.  *)
(*                                                                         *)
(* The argument: a thread that created a file is its only creator, because *)
(* a file is created only where none is and a thread does not survive the  *)
(* loss of one; what it does in consequence it does after the sync, and    *)
(* then the file keeps every later thread from doing it again.             *)
(***************************************************************************)
EXTENDS EngineReceiver, TLAPS

\* The file that is created after the nonce of a request.
SecondFile(m) ==
  <<IF KindOf(m) = "dispatch" THEN "acceptance" ELSE "claim", RunOf(m)>>

\* t has the only right to act on the request it serves.
Owns(t) ==
  /\ serving[t] \in Request
  /\ KindOf(serving[t]) # "source"
  /\ created[t] \/ target[t] = SecondFile(serving[t])

ThreadShape ==
  \A t \in Thread :
    IF pc[t] = "idle"
      THEN serving[t] = None /\ target[t] = None /\ ~created[t]
      ELSE /\ serving[t] \in Request
           /\ \/ target[t] = FirstFile(serving[t])
              \/ /\ KindOf(serving[t]) \in {"dispatch", "execute"}
                 /\ target[t] = SecondFile(serving[t])
           /\ pc[t] = "linking" => ~created[t]
           /\ pc[t] # "linking" => target[t] \in disk
           /\ pc[t] = "reading" => KindOf(serving[t]) = "source"
           /\ pc[t] \in {"staging", "starting", "running"} =>
                /\ KindOf(serving[t]) = "execute"
                /\ target[t] = SecondFile(serving[t])
                /\ target[t] \in stable
                /\ created[t]

StableIsThere == stable \subseteq disk

OneCreator ==
  \A t, u \in Thread :
    created[t] /\ created[u] /\ target[t] = target[u] => t = u

OneOwner ==
  \A t, u \in Thread :
    Owns(t) /\ Owns(u) /\ serving[t] = serving[u] => t = u

OwnerIsFirst ==
  \A t \in Thread : Owns(t) =>
    /\ answered[serving[t]] = 0
    /\ FirstFile(serving[t]) \in disk
    /\ target[t] = SecondFile(serving[t]) => FirstFile(serving[t]) \in stable

ClaimantIsFirst ==
  \A t \in Thread, r \in Run :
    created[t] /\ target[t] = <<"claim", r>> /\ pc[t] # "running" => started[r] = 0

StartIsClaimed == \A r \in Run : started[r] > 0 => <<"claim", r>> \in stable

IInv ==
  /\ TypeOK
  /\ StableIsThere
  /\ ThreadShape
  /\ OneCreator
  /\ OneOwner
  /\ OwnerIsFirst
  /\ ClaimantIsFirst
  /\ StartIsClaimed
  /\ AnsweredIsStable
  /\ AnsweredOnce
  /\ StartedOnce

\* What a gateway that waits adds.
WaitInv ==
  GatewayWaits =>
    /\ \A t \in Thread, m \in Request : serving[t] = m => AnswersSeen(m)
    /\ \A m \in Request : answered[m] > 0 => AnswersSeen(m)
    /\ \A r \in Run : started[r] > 0 => Answered("dispatch", r)

\* The files of the store only grow.
StoreGrows ==
  /\ disk \subseteq disk' /\ disk' \subseteq File
  /\ stable \subseteq stable' /\ stable' \subseteq disk'
  /\ content' \in [Run -> Content]

-----------------------------------------------------------------------------

\* Where the parts of a request come from.
LEMMA RequestParts ==
  ASSUME NEW m \in Request
  PROVE  /\ KindOf(m) \in {"provision", "dispatch", "source", "execute"}
         /\ RunOf(m) \in Run
         /\ m = <<<<KindOf(m), RunOf(m)>>, NonceOf(m)>>
         /\ KindOf(m) \in {"dispatch", "execute"} => NonceOf(m) \in Nonce
BY DEF Request, KindOf, RunOf, NonceOf

\* The first file of a request, kind by kind.
LEMMA FirstFiles ==
  ASSUME NEW m \in Request
  PROVE  /\ FirstFile(m) \in File
         /\ KindOf(m) = "provision" => FirstFile(m) = <<"plan", RunOf(m)>>
         /\ KindOf(m) = "source" => FirstFile(m) = <<"source", RunOf(m)>>
         /\ KindOf(m) = "dispatch" => FirstFile(m) = <<"dispatchNonce", NonceOf(m)>>
         /\ KindOf(m) = "execute" => FirstFile(m)[1] = "executionNonce"
BY RequestParts DEF FirstFile, TriggerFile, File, RunFile

\* The second file of a request that has one.
LEMMA SecondFiles ==
  ASSUME NEW m \in Request, KindOf(m) \in {"dispatch", "execute"}
  PROVE  /\ SecondFile(m) \in File
         /\ KindOf(m) = "dispatch" => SecondFile(m) = <<"acceptance", RunOf(m)>>
         /\ KindOf(m) = "execute" => SecondFile(m) = <<"claim", RunOf(m)>>
         /\ SecondFile(m) # FirstFile(m)
BY RequestParts, FirstFiles DEF SecondFile, File, RunFile

\* A thread that is at work knows its request, and its file is one of two.
LEMMA AtWork ==
  ASSUME IInv, NEW t \in Thread, pc[t] # "idle"
  PROVE  /\ serving[t] \in Request
         /\ target[t] \in File
         /\ \/ target[t] = FirstFile(serving[t])
            \/ /\ KindOf(serving[t]) \in {"dispatch", "execute"}
               /\ target[t] = SecondFile(serving[t])
BY FirstFiles, SecondFiles DEF IInv, ThreadShape

\* A synced directory keeps the file it was synced for.
LEMMA SyncGrows ==
  ASSUME IInv, NEW t \in Thread, pc[t] = "syncing", Sync(t), UNCHANGED <<disk, content>>
  PROVE  StoreGrows /\ target[t] \in stable'
<1>1. target[t] \in disk
  BY DEF IInv, ThreadShape
<1>2. SameDirectory(target[t], target[t])
  BY DEF SameDirectory
<1> QED
  BY <1>1, <1>2 DEF Sync, StoreGrows, IInv, TypeOK, StableIsThere

\* A step that leaves the store alone lets it grow, in the weak sense.
LEMMA SameStore ==
  ASSUME IInv, UNCHANGED store
  PROVE  StoreGrows
BY DEF StoreGrows, store, IInv, TypeOK, StableIsThere

-----------------------------------------------------------------------------
(* The steps that end a request.                                           *)

\* A thread that leaves disturbs no other.
LEMMA Leaving ==
  ASSUME IInv, NEW t \in Thread, Finish(t), StoreGrows
  PROVE  /\ pc' \in [Thread -> Point]
         /\ serving' \in [Thread -> Request \union {None}]
         /\ target' \in [Thread -> File \union {None}]
         /\ created' \in [Thread -> BOOLEAN]
         /\ StableIsThere' /\ ThreadShape' /\ OneCreator' /\ OneOwner'
         /\ \A u \in Thread : Owns(u)' =>
              /\ u # t /\ Owns(u) /\ serving'[u] = serving[u] /\ target'[u] = target[u]
<1> USE DEF Finish, Goto
<1>1. /\ pc' \in [Thread -> Point]
      /\ serving' \in [Thread -> Request \union {None}]
      /\ target' \in [Thread -> File \union {None}]
      /\ created' \in [Thread -> BOOLEAN]
      /\ pc'[t] = "idle" /\ serving'[t] = None /\ target'[t] = None /\ ~created'[t]
      /\ \A u \in Thread \ {t} :
           /\ pc'[u] = pc[u] /\ serving'[u] = serving[u]
           /\ target'[u] = target[u] /\ created'[u] = created[u]
  BY DEF IInv, TypeOK, Point
<1>2. StableIsThere'
  BY DEF StoreGrows, StableIsThere
<1>3. ThreadShape'
  BY <1>1 DEF StoreGrows, ThreadShape, IInv
<1>4. OneCreator'
  BY <1>1 DEF OneCreator, IInv
<1>5. \A u \in Thread : Owns(u)' =>
        /\ u # t /\ Owns(u) /\ serving'[u] = serving[u] /\ target'[u] = target[u]
  BY <1>1, NoneAssumption DEF Owns
<1>6. OneOwner'
  BY <1>5 DEF OneOwner, IInv
<1> QED
  BY <1>1, <1>2, <1>3, <1>4, <1>5, <1>6

\* What was answered stays recorded while the store only grows.
LEMMA AnswersStay ==
  ASSUME IInv, UNCHANGED answered, StoreGrows
  PROVE  AnsweredIsStable' /\ AnsweredOnce'
BY DEF IInv, AnsweredIsStable, AnsweredOnce, StoreGrows

\* The first file of a request that was answered is stable.
LEMMA AnsweredFirst ==
  ASSUME IInv, NEW m \in Request, answered[m] > 0, KindOf(m) # "source"
  PROVE  FirstFile(m) \in stable
BY RequestParts, FirstFiles DEF IInv, AnsweredIsStable

\* A request that is refused, given up or cut short keeps the invariant.
LEMMA Refusal ==
  ASSUME IInv, NEW t \in Thread, Refuse(t), StoreGrows
  PROVE  IInv'
<1> USE DEF Refuse, history
<1>1. TypeOK'
  BY Leaving DEF IInv, TypeOK, StoreGrows
<1>2. OwnerIsFirst'
  BY Leaving DEF IInv, OwnerIsFirst, StoreGrows
<1>3. ClaimantIsFirst'
  BY DEF IInv, TypeOK, ClaimantIsFirst, Finish, Goto, Point
<1>4. StartIsClaimed' /\ StartedOnce'
  BY DEF IInv, StartIsClaimed, StartedOnce, StoreGrows
<1> QED
  BY <1>1, <1>2, <1>3, <1>4, Leaving, AnswersStay DEF IInv

\* The file that a positive answer to m vouches for.
Vouched(m) ==
  CASE KindOf(m) = "provision" -> <<"plan", RunOf(m)>>
    [] KindOf(m) = "dispatch"  -> <<"acceptance", RunOf(m)>>
    [] OTHER                   -> <<"claim", RunOf(m)>>

\* A positive answer keeps the invariant if its request is owned, and what it
\* vouches for is stable by now.
LEMMA Acceptance ==
  ASSUME IInv, NEW t \in Thread, pc[t] # "idle", Accept(t), StoreGrows,
         KindOf(serving[t]) # "source" =>
           /\ Owns(t)
           /\ {FirstFile(serving[t]), Vouched(serving[t])} \subseteq stable'
  PROVE  IInv'
<1> DEFINE m == serving[t]
<1> USE DEF Accept, Answer
<1>1. m \in Request
  BY AtWork
<1>2. /\ answered' \in [Request -> Nat]
      /\ \A n \in Request \ {m} : answered'[n] = answered[n]
      /\ answered'[m] <= 1
  <2>1. KindOf(m) # "source" => answered[m] = 0
    BY DEF IInv, OwnerIsFirst
  <2> QED
    BY <1>1, <2>1 DEF IInv, TypeOK
<1>3. TypeOK'
  BY <1>2, Leaving DEF IInv, TypeOK, StoreGrows
<1>4. OwnerIsFirst'
  <2> SUFFICES ASSUME NEW u \in Thread, Owns(u)'
               PROVE  /\ answered'[serving'[u]] = 0
                      /\ FirstFile(serving'[u]) \in disk'
                      /\ target'[u] = SecondFile(serving'[u]) =>
                           FirstFile(serving'[u]) \in stable'
    BY DEF OwnerIsFirst, FirstFile, TriggerFile, SecondFile
  <2>1. u # t /\ Owns(u) /\ serving'[u] = serving[u] /\ target'[u] = target[u]
    BY Leaving
  <2>2. serving[u] # m
    BY <2>1 DEF IInv, OneOwner, Owns
  <2> QED
    BY <1>2, <2>1, <2>2 DEF IInv, OwnerIsFirst, StoreGrows, Owns
<1>5. ClaimantIsFirst'
  BY DEF IInv, TypeOK, ClaimantIsFirst, Finish, Goto, Point
<1>6. StartIsClaimed' /\ StartedOnce'
  BY DEF IInv, StartIsClaimed, StartedOnce, StoreGrows
<1>7. AnsweredOnce'
  BY <1>2 DEF AnsweredOnce, IInv
<1>8. AnsweredIsStable'
  <2> SUFFICES ASSUME NEW n \in Request, answered'[n] > 0, KindOf(n) # "source"
               PROVE  {FirstFile(n), Vouched(n)} \subseteq stable'
    BY FirstFiles, RequestParts DEF AnsweredIsStable, Vouched
  <2>1. CASE n = m
    BY <2>1
  <2>2. CASE n # m
    <3>1. {FirstFile(n), Vouched(n)} \subseteq stable
      BY <1>2, <2>2, FirstFiles, RequestParts DEF IInv, AnsweredIsStable, Vouched
    <3> QED
      BY <3>1 DEF StoreGrows
  <2> QED
    BY <2>1, <2>2
<1> QED
  BY <1>3, <1>4, <1>5, <1>6, <1>7, <1>8, Leaving DEF IInv

-----------------------------------------------------------------------------
(* The steps in the midst of a request.                                    *)

\* A step of t that changes no history and no other thread keeps what the
\* history says.
LEMMA HistoryStays ==
  ASSUME IInv, UNCHANGED history, StoreGrows
  PROVE  /\ AnsweredIsStable' /\ AnsweredOnce'
         /\ StartIsClaimed' /\ StartedOnce' /\ StableIsThere'
BY AnswersStay DEF history, IInv, StartIsClaimed, StartedOnce, StoreGrows, StableIsThere

\* A thread that starts on a file has created nothing yet.
LEMMA Creating ==
  ASSUME IInv, NEW t \in Thread, NEW m \in Request, NEW f \in File,
         Create(t, f), StoreGrows, UNCHANGED history,
         serving' = [serving EXCEPT ![t] = m],
         \/ f = FirstFile(m)
         \/ /\ KindOf(m) \in {"dispatch", "execute"}
            /\ f = SecondFile(m)
            /\ Owns(t) /\ serving[t] = m /\ FirstFile(m) \in stable'
  PROVE  IInv'
<1> USE DEF Create, Goto
<1>1. /\ pc'[t] = "linking" /\ serving'[t] = m /\ target'[t] = f /\ ~created'[t]
      /\ \A u \in Thread \ {t} :
           /\ pc'[u] = pc[u] /\ serving'[u] = serving[u]
           /\ target'[u] = target[u] /\ created'[u] = created[u]
  BY DEF IInv, TypeOK
<1>2. TypeOK'
  BY DEF IInv, TypeOK, Point, StoreGrows, history
<1>3. ThreadShape'
  BY <1>1 DEF IInv, ThreadShape, StoreGrows
<1>4. OneCreator'
  BY <1>1 DEF IInv, OneCreator
<1>5. \A u \in Thread : Owns(u)' => Owns(u) /\ serving'[u] = serving[u]
  BY <1>1, SecondFiles, RequestParts, FirstFiles DEF Owns, SecondFile
<1>6. OneOwner'
  BY <1>5 DEF IInv, OneOwner
<1>7. OwnerIsFirst'
  <2> SUFFICES ASSUME NEW u \in Thread, Owns(u)'
               PROVE  /\ answered[serving[u]] = 0
                      /\ FirstFile(serving[u]) \in disk'
                      /\ target'[u] = SecondFile(serving[u]) =>
                           FirstFile(serving[u]) \in stable'
    BY <1>5 DEF OwnerIsFirst, history
  <2>1. Owns(u)
    BY <1>5
  <2>2. CASE u = t
    <3>1. serving[t] = m /\ FirstFile(m) \in stable'
      BY <1>1, <2>2, RequestParts, FirstFiles DEF Owns, SecondFile
    <3> QED
      BY <2>1, <2>2, <3>1 DEF IInv, OwnerIsFirst, StoreGrows
  <2>3. CASE u # t
    BY <1>1, <2>1, <2>3 DEF IInv, OwnerIsFirst, StoreGrows
  <2> QED
    BY <2>2, <2>3
<1>8. ClaimantIsFirst'
  BY <1>1 DEF IInv, ClaimantIsFirst, history
<1> QED
  BY <1>2, <1>3, <1>4, <1>6, <1>7, <1>8, HistoryStays DEF IInv

\* A thread takes up a request.
LEMMA ReceiveKeeps ==
  ASSUME IInv, NEW t \in Thread, NEW m \in Request, Receive(t, m)
  PROVE  IInv'
BY Creating, FirstFiles, SameStore DEF Receive

\* A thread creates its file, or finds it there.
LEMMA LinkKeeps ==
  ASSUME IInv, NEW t \in Thread, Link(t) \/ Rename(t)
  PROVE  IInv'
<1> DEFINE f == target[t]
<1>1. /\ pc[t] = "linking" /\ ~created[t] /\ f \in File /\ serving[t] \in Request
      /\ disk' = disk \union {f} /\ stable' = stable
      /\ created' = [created EXCEPT ![t] = f \notin disk]
      /\ pc' = [pc EXCEPT ![t] = "syncing"]
      /\ UNCHANGED <<serving, target, history>>
  BY AtWork DEF Link, Rename, Goto, IInv, ThreadShape
<1>2. content' \in [Run -> Content]
  BY DEF IInv, TypeOK, Link, Rename, Content
<1>3. StoreGrows
  BY <1>1, <1>2 DEF StoreGrows, IInv, TypeOK, StableIsThere
<1>4. TypeOK'
  BY <1>1, <1>3 DEF IInv, TypeOK, Point, StoreGrows, history
<1>5. ThreadShape'
  BY <1>1 DEF IInv, TypeOK, ThreadShape
<1>6. OneCreator'
  <2>1. \A u \in Thread : created[u] => target[u] \in disk
    BY DEF IInv, TypeOK, ThreadShape
  <2> QED
    BY <1>1, <2>1 DEF IInv, TypeOK, OneCreator
<1>7. \A u \in Thread : Owns(u)' /\ ~Owns(u) =>
        u = t /\ f \notin disk /\ f = FirstFile(serving[t])
  BY <1>1, AtWork DEF Owns, SecondFile, IInv, TypeOK
<1>8. OneOwner'
  BY <1>1, <1>7 DEF IInv, OneOwner, OwnerIsFirst, Owns
<1>9. OwnerIsFirst'
  <2> SUFFICES ASSUME NEW u \in Thread, Owns(u)'
               PROVE  /\ answered[serving[u]] = 0
                      /\ FirstFile(serving[u]) \in disk'
                      /\ target[u] = SecondFile(serving[u]) =>
                           FirstFile(serving[u]) \in stable
    BY <1>1 DEF OwnerIsFirst, history
  <2>1. CASE Owns(u)
    BY <1>1, <2>1 DEF IInv, OwnerIsFirst
  <2>2. CASE ~Owns(u)
    <3>1. u = t /\ f \notin disk /\ f = FirstFile(serving[t]) /\ f \notin stable
      BY <1>7, <2>2 DEF IInv, StableIsThere
    <3>2. KindOf(serving[t]) # "source"
      BY <1>1, <3>1 DEF Owns
    <3>3. answered[serving[t]] = 0
      BY <1>1, <3>1, <3>2, AnsweredFirst DEF IInv, TypeOK
    <3>4. f # SecondFile(serving[t])
      BY <1>1, <3>1, <3>2, RequestParts, FirstFiles DEF SecondFile
    <3> QED
      BY <1>1, <3>1, <3>3, <3>4
  <2> QED
    BY <2>1, <2>2
<1>10. ClaimantIsFirst'
  <2>1. \A r \in Run : f = <<"claim", r>> /\ f \notin disk => started[r] = 0
    BY DEF IInv, TypeOK, StartIsClaimed, StableIsThere
  <2> QED
    BY <1>1, <2>1 DEF IInv, TypeOK, ClaimantIsFirst, history
<1> QED
  BY <1>1, <1>3, <1>4, <1>5, <1>6, <1>8, <1>9, <1>10, HistoryStays DEF IInv

\* A thread that goes on without touching its file.
LEMMA Moving ==
  ASSUME IInv, NEW t \in Thread, NEW point \in Point, StoreGrows,
         pc[t] \notin {"idle", "linking"}, point \notin {"idle", "linking"},
         Goto(t, point), UNCHANGED <<serving, target, created, answered>>,
         point = "reading" => KindOf(serving[t]) = "source",
         point \in {"staging", "starting", "running"} =>
           /\ KindOf(serving[t]) = "execute"
           /\ target[t] = SecondFile(serving[t])
           /\ target[t] \in stable'
           /\ created[t],
         pc[t] = "running" => point = "running"
  PROVE  /\ pc' \in [Thread -> Point]
         /\ StableIsThere' /\ ThreadShape' /\ OneCreator' /\ OneOwner'
         /\ OwnerIsFirst'
         /\ UNCHANGED history => TypeOK' /\ ClaimantIsFirst'
<1> USE DEF Goto
<1>1. pc'[t] = point /\ pc' \in [Thread -> Point]
      /\ \A u \in Thread \ {t} : pc'[u] = pc[u]
  BY DEF IInv, TypeOK
<1>2. StableIsThere'
  BY DEF StoreGrows, StableIsThere
<1>3. ThreadShape'
  BY <1>1 DEF IInv, ThreadShape, StoreGrows
<1>4. OneCreator' /\ OneOwner'
  BY DEF IInv, OneCreator, OneOwner, Owns
<1>5. OwnerIsFirst'
  BY DEF IInv, OwnerIsFirst, Owns, StoreGrows
<1>6. ASSUME UNCHANGED history PROVE TypeOK' /\ ClaimantIsFirst'
  BY <1>1, <1>6 DEF IInv, TypeOK, StoreGrows, ClaimantIsFirst, history
<1> QED
  BY <1>1, <1>2, <1>3, <1>4, <1>5, <1>6

\* After the sync of a nonce its creator turns to the second file.
LEMMA SyncNonceKeeps ==
  ASSUME IInv, NEW t \in Thread, SyncNonce(t)
  PROVE  IInv'
<1> DEFINE m == serving[t]
<1>1. /\ pc[t] = "syncing" /\ Sync(t) /\ UNCHANGED <<disk, content>>
      /\ target[t][1] \in {"dispatchNonce", "executionNonce"}
  BY DEF SyncNonce, Syncing
<1>2. StoreGrows /\ target[t] \in stable'
  BY <1>1, SyncGrows
<1>3. CASE created[t]
  <2>1. m \in Request /\ target[t] = FirstFile(m) /\ KindOf(m) \in {"dispatch", "execute"}
    BY <1>1, AtWork, RequestParts, FirstFiles, SecondFiles
  <2>2. AfterNonce(t) = SecondFile(m) /\ SecondFile(m) \in File
    BY <1>1, <2>1, FirstFiles, SecondFiles DEF AfterNonce, SecondFile, RunAt
  <2>3. Owns(t)
    BY <1>3, <2>1 DEF Owns
  <2>4. Create(t, SecondFile(m)) /\ UNCHANGED history /\ serving' = serving
    BY <1>3, <2>2 DEF SyncNonce
  <2>5. serving' = [serving EXCEPT ![t] = m]
    BY <2>4 DEF IInv, TypeOK
  <2> QED
    BY <1>2, <2>1, <2>2, <2>3, <2>4, <2>5, Creating
<1>4. CASE ~created[t]
  BY <1>2, <1>4, Refusal DEF SyncNonce
<1> QED
  BY <1>3, <1>4

\* A plan is answered by its creator, an acceptance by whoever finds it.
LEMMA SyncAnsweredKeeps ==
  ASSUME IInv, NEW t \in Thread, SyncPlan(t) \/ SyncAcceptance(t)
  PROVE  IInv'
<1> DEFINE m == serving[t]
<1>1. /\ pc[t] = "syncing" /\ Sync(t) /\ UNCHANGED <<disk, content>>
      /\ target[t][1] \in {"plan", "acceptance"}
      /\ target[t][1] = "plan" => SyncPlan(t)
      /\ target[t][1] = "acceptance" => SyncAcceptance(t)
  BY DEF SyncPlan, SyncAcceptance, Syncing
<1>2. StoreGrows /\ target[t] \in stable'
  BY <1>1, SyncGrows
<1>3. CASE SyncPlan(t) /\ created[t]
  <2>1. /\ m \in Request /\ KindOf(m) = "provision"
        /\ target[t] = FirstFile(m) /\ FirstFile(m) = <<"plan", RunOf(m)>>
    BY <1>1, <1>3, AtWork, RequestParts, FirstFiles, SecondFiles DEF SyncPlan, Syncing
  <2>2. Owns(t)
    BY <1>3, <2>1 DEF Owns
  <2> QED
    BY <1>1, <1>2, <1>3, <2>1, <2>2, Acceptance DEF SyncPlan, Vouched
<1>4. CASE SyncPlan(t) /\ ~created[t]
  BY <1>2, <1>4, Refusal DEF SyncPlan
<1>5. CASE SyncAcceptance(t)
  <2>1. /\ m \in Request /\ KindOf(m) = "dispatch"
        /\ target[t] = SecondFile(m) /\ SecondFile(m) = <<"acceptance", RunOf(m)>>
    BY <1>1, <1>5, AtWork, RequestParts, FirstFiles, SecondFiles
       DEF SyncAcceptance, Syncing
  <2>2. Owns(t)
    BY <2>1 DEF Owns
  <2>3. FirstFile(m) \in stable'
    BY <1>2, <2>1, <2>2 DEF IInv, OwnerIsFirst, StoreGrows
  <2> QED
    BY <1>1, <1>2, <1>5, <2>1, <2>2, <2>3, Acceptance DEF SyncAcceptance, Vouched
<1> QED
  BY <1>3, <1>4, <1>5

\* A source is read back before it is answered.
LEMMA SourceKeeps ==
  ASSUME IInv, NEW t \in Thread, SyncSource(t) \/ ReadBack(t)
  PROVE  IInv'
<1>1. CASE SyncSource(t)
  <2>1. /\ pc[t] = "syncing" /\ Sync(t) /\ UNCHANGED <<disk, content>>
        /\ target[t][1] = "source"
    BY <1>1 DEF SyncSource, Syncing
  <2>2. StoreGrows
    BY <2>1, SyncGrows
  <2>3. KindOf(serving[t]) = "source"
    BY <2>1, AtWork, RequestParts, FirstFiles, SecondFiles
  <2> QED
    BY <1>1, <2>1, <2>2, <2>3, Moving, HistoryStays DEF SyncSource, Point, IInv, history
<1>2. CASE ReadBack(t)
  <2>1. StoreGrows /\ pc[t] = "reading" /\ KindOf(serving[t]) = "source"
    BY <1>2, SameStore DEF ReadBack, IInv, ThreadShape
  <2> QED
    BY <1>2, <2>1, Acceptance, Refusal DEF ReadBack
<1> QED
  BY <1>1, <1>2

\* The claim and the workspace come before the engine.
LEMMA ClaimKeeps ==
  ASSUME IInv, NEW t \in Thread, SyncClaim(t) \/ Stage(t)
  PROVE  IInv'
<1>1. CASE SyncClaim(t)
  <2>1. /\ pc[t] = "syncing" /\ Sync(t) /\ UNCHANGED <<disk, content>>
        /\ target[t][1] = "claim"
    BY <1>1 DEF SyncClaim, Syncing
  <2>2. StoreGrows /\ target[t] \in stable'
    BY <2>1, SyncGrows
  <2>3. KindOf(serving[t]) = "execute" /\ target[t] = SecondFile(serving[t])
    BY <2>1, AtWork, RequestParts, FirstFiles, SecondFiles
  <2>4. CASE created[t]
    BY <1>1, <2>1, <2>2, <2>3, <2>4, Moving, HistoryStays
       DEF SyncClaim, Point, IInv, history
  <2>5. CASE ~created[t]
    BY <1>1, <2>2, <2>5, Refusal DEF SyncClaim
  <2> QED
    BY <2>4, <2>5
<1>2. CASE Stage(t)
  <2>1. /\ pc[t] = "staging" /\ serving[t] \in Request
        /\ KindOf(serving[t]) = "execute" /\ target[t] = SecondFile(serving[t])
        /\ target[t] \in stable /\ created[t]
    BY <1>2 DEF Stage, IInv, ThreadShape
  <2>2. <<"workspace", RunAt(t)>> \in File
    BY <2>1, RequestParts DEF RunAt, File, RunFile
  <2>3. StoreGrows
    BY <1>2, <2>2 DEF Stage, StoreGrows, IInv, TypeOK, StableIsThere
  <2>4. CASE <<"workspace", RunAt(t)>> \in disk
    BY <1>2, <2>3, <2>4, Refusal DEF Stage
  <2>5. CASE <<"workspace", RunAt(t)>> \notin disk
    BY <1>2, <2>1, <2>3, <2>5, Moving, HistoryStays
       DEF Stage, Point, IInv, history, StoreGrows
  <2> QED
    BY <2>4, <2>5
<1> QED
  BY <1>1, <1>2

\* The engine is started by the creator of the claim.
LEMMA StartKeeps ==
  ASSUME IInv, NEW t \in Thread, StartEngine(t)
  PROVE  IInv'
<1> DEFINE r == RunAt(t)
<1>1. /\ pc[t] = "starting" /\ serving[t] \in Request /\ r \in Run
      /\ KindOf(serving[t]) = "execute" /\ target[t] = SecondFile(serving[t])
      /\ target[t] = <<"claim", r>> /\ target[t] \in stable /\ created[t]
  BY RequestParts, SecondFiles DEF StartEngine, IInv, ThreadShape, RunAt
<1>2. started[r] = 0
  BY <1>1 DEF IInv, ClaimantIsFirst
<1>3. /\ started' = [started EXCEPT ![r] = 1]
      /\ started' \in [Run -> Nat] /\ started'[r] = 1
      /\ \A other \in Run \ {r} : started'[other] = started[other]
  BY <1>1, <1>2 DEF StartEngine, IInv, TypeOK
<1>4. StoreGrows
  BY SameStore DEF StartEngine
<1>5. /\ pc' \in [Thread -> Point] /\ pc'[t] = "running"
      /\ StableIsThere' /\ ThreadShape' /\ OneCreator' /\ OneOwner' /\ OwnerIsFirst'
  BY <1>1, <1>4, Moving DEF StartEngine, Point, Goto, IInv, TypeOK, StoreGrows
<1>6. TypeOK'
  BY <1>3, <1>4, <1>5 DEF IInv, TypeOK, StartEngine, StoreGrows
<1>7. ClaimantIsFirst'
  <2> SUFFICES ASSUME NEW u \in Thread, NEW other \in Run, created[u],
                      target[u] = <<"claim", other>>, pc'[u] # "running"
               PROVE  started'[other] = 0
    BY DEF ClaimantIsFirst, StartEngine
  <2>1. u # t
    BY <1>5
  <2>2. target[u] # target[t]
    BY <1>1, <2>1 DEF IInv, OneCreator
  <2>3. other # r
    BY <1>1, <2>2
  <2>4. pc[u] # "running"
    BY <2>1 DEF StartEngine, Goto, IInv, TypeOK
  <2> QED
    BY <1>3, <2>3, <2>4 DEF IInv, ClaimantIsFirst
<1>8. StartIsClaimed' /\ StartedOnce'
  BY <1>1, <1>3, <1>4 DEF IInv, StartIsClaimed, StartedOnce, StoreGrows
<1>9. AnsweredIsStable' /\ AnsweredOnce'
  BY <1>4, AnswersStay DEF StartEngine
<1> QED
  BY <1>5, <1>6, <1>7, <1>8, <1>9 DEF IInv

\* The engine's success is answered by the thread that started it.
LEMMA DoneKeeps ==
  ASSUME IInv, NEW t \in Thread, EngineDone(t)
  PROVE  IInv'
<1>1. /\ pc[t] = "running" /\ serving[t] \in Request
      /\ KindOf(serving[t]) = "execute" /\ target[t] = SecondFile(serving[t])
      /\ target[t] = <<"claim", RunOf(serving[t])>> /\ target[t] \in stable
  BY SecondFiles DEF EngineDone, IInv, ThreadShape
<1>2. Owns(t)
  BY <1>1 DEF Owns
<1>3. FirstFile(serving[t]) \in stable
  BY <1>1, <1>2 DEF IInv, OwnerIsFirst
<1>4. StoreGrows
  BY SameStore DEF EngineDone
<1> QED
  BY <1>1, <1>2, <1>3, <1>4, Acceptance DEF EngineDone, Vouched, StoreGrows

-----------------------------------------------------------------------------
(* The power, and the whole.                                               *)

\* A power failure takes no file that was synced, but perhaps a source.
LEMMA PowerLoss ==
  ASSUME IInv, PowerFail
  PROVE  /\ disk' \subseteq disk /\ stable' = disk'
         /\ content' \in [Run -> Content]
         /\ \A f \in stable : f[1] # "source" => f \in stable'
<1> PICK lost \in SUBSET (disk \ stable), torn \in [Run -> {"whole", "partial", "none"}] :
      LET kept == [r \in Run |-> IF content[r] = "unsettled" THEN torn[r] ELSE content[r]]
          gone == lost \union {<<"source", r>> : r \in {r \in Run : kept[r] = "none"}}
      IN  /\ disk' = disk \ gone
          /\ stable' = disk'
          /\ content' = [r \in Run |-> IF <<"source", r>> \in gone THEN "none" ELSE kept[r]]
  BY DEF PowerFail
<1> DEFINE kept == [r \in Run |-> IF content[r] = "unsettled" THEN torn[r] ELSE content[r]]
           gone == lost \union {<<"source", r>> : r \in {r \in Run : kept[r] = "none"}}
<1>1. /\ disk' = disk \ gone /\ stable' = disk'
      /\ content' = [r \in Run |-> IF <<"source", r>> \in gone THEN "none" ELSE kept[r]]
  OBVIOUS
<1>2. kept \in [Run -> Content]
  BY DEF IInv, TypeOK, Content
<1>3. \A f \in gone : f \in lost \/ f[1] = "source"
  <2> SUFFICES ASSUME NEW r \in {r \in Run : kept[r] = "none"}
               PROVE  <<"source", r>>[1] = "source"
    OBVIOUS
  <2> QED
    OBVIOUS
<1>4. content' \in [Run -> Content]
  BY <1>1, <1>2 DEF Content
<1>5. \A f \in stable : f[1] # "source" => f \in stable'
  BY <1>1, <1>3 DEF IInv, StableIsThere
<1> HIDE DEF gone
<1> QED
  BY <1>1, <1>4, <1>5

\* No thread survives it; what was answered or started stays recorded.
LEMMA PowerKeeps ==
  ASSUME IInv, PowerFail
  PROVE  IInv'
<1> USE PowerLoss
<1>1. /\ pc' = [t \in Thread |-> "idle"] /\ serving' = [t \in Thread |-> None]
      /\ target' = [t \in Thread |-> None] /\ created' = [t \in Thread |-> FALSE]
      /\ UNCHANGED history
  BY DEF PowerFail
<1>2. TypeOK'
  BY <1>1 DEF IInv, TypeOK, Point, history
<1>3. StableIsThere' /\ ThreadShape' /\ OneCreator' /\ ClaimantIsFirst'
  BY <1>1 DEF StableIsThere, ThreadShape, OneCreator, ClaimantIsFirst
<1>4. OneOwner' /\ OwnerIsFirst'
  BY <1>1, NoneAssumption DEF OneOwner, OwnerIsFirst, Owns
<1>5. StartIsClaimed' /\ StartedOnce' /\ AnsweredOnce'
  BY <1>1 DEF IInv, StartIsClaimed, StartedOnce, AnsweredOnce, history
<1>6. AnsweredIsStable'
  <2> SUFFICES ASSUME NEW n \in Request, answered[n] > 0, KindOf(n) # "source"
               PROVE  {FirstFile(n), Vouched(n)} \subseteq stable'
    BY <1>1, FirstFiles, RequestParts DEF AnsweredIsStable, Vouched, history
  <2>1. {FirstFile(n), Vouched(n)} \subseteq stable
    BY FirstFiles, RequestParts DEF IInv, AnsweredIsStable, Vouched
  <2>2. FirstFile(n)[1] # "source" /\ Vouched(n)[1] # "source"
    BY FirstFiles, RequestParts DEF Vouched
  <2> QED
    BY <2>1, <2>2
<1> QED
  BY <1>2, <1>3, <1>4, <1>5, <1>6 DEF IInv

\* Every step keeps the invariant.
LEMMA StepKeeps ==
  ASSUME IInv, [Next]_vars
  PROVE  IInv'
<1>1. ASSUME NEW t \in Thread, Serve(t) PROVE IInv'
  <2>1. ASSUME GiveUp(t) PROVE IInv'
    BY <2>1, SameStore, Refusal DEF GiveUp
  <2> QED
    BY <1>1, <2>1, ReceiveKeeps, LinkKeeps, SyncNonceKeeps, SyncAnsweredKeeps,
       SourceKeeps, ClaimKeeps, StartKeeps, DoneKeeps DEF Serve
<1>2. ASSUME UNCHANGED vars PROVE IInv'
  BY <1>2 DEF vars, IInv, TypeOK, StableIsThere, ThreadShape, OneCreator, OneOwner,
     OwnerIsFirst, ClaimantIsFirst, StartIsClaimed, AnsweredIsStable, AnsweredOnce,
     StartedOnce, Owns
<1> QED
  BY <1>1, <1>2, PowerKeeps DEF Next

\* The invariant holds of every behaviour.
THEOREM ReceiverInvariance == Spec => []IInv
<1>1. Init => IInv
  BY NoneAssumption
     DEF Init, IInv, TypeOK, StableIsThere, ThreadShape, OneCreator, OneOwner,
     OwnerIsFirst, ClaimantIsFirst, StartIsClaimed, AnsweredIsStable, AnsweredOnce,
     StartedOnce, Owns, Point, Content
<1> QED
  BY <1>1, StepKeeps, PTL DEF Spec

\* The state of the receiver is always well formed.
THEOREM ReceiverTypes == Spec => []TypeOK
BY ReceiverInvariance, PTL DEF IInv

\* The engine is started at most once for a run, whatever is delivered again,
\* by however many threads, across restarts and power failures.
THEOREM StartsOnce == Spec => []StartedOnce
BY ReceiverInvariance, PTL DEF IInv

\* No plan, dispatch or trigger is answered positively twice.
THEOREM AnswersOnce == Spec => []AnsweredOnce
BY ReceiverInvariance, PTL DEF IInv

\* What was answered positively survives every power failure.
THEOREM AnswersAreStable == Spec => []AnsweredIsStable
BY ReceiverInvariance, PTL DEF IInv

-----------------------------------------------------------------------------
(* What a gateway that waits adds.                                         *)

\* Answers are never taken back.
LEMMA AnswersGrow ==
  ASSUME IInv, [Next]_vars, NEW m \in Request, answered[m] > 0
  PROVE  answered'[m] > 0
<1>1. ASSUME NEW t \in Thread, Accept(t) PROVE answered'[m] > 0
  BY <1>1 DEF Accept, Answer, IInv, TypeOK
<1>2. ASSUME UNCHANGED answered PROVE answered'[m] > 0
  BY <1>2
<1> QED
  BY <1>1, <1>2 DEF Next, Serve, Receive, Link, Rename, SyncPlan, SyncNonce,
     SyncAcceptance, SyncSource, ReadBack, SyncClaim, Stage, StartEngine, EngineDone,
     GiveUp, Refuse, PowerFail, vars, history

\* So what a request waited for stays seen.
LEMMA SeenStays ==
  ASSUME IInv, [Next]_vars, NEW m \in Request, AnswersSeen(m)
  PROVE  AnswersSeen(m)'
<1>1. \A k, r : Answered(k, r) => Answered(k, r)'
  BY AnswersGrow DEF Answered
<1> QED
  BY <1>1 DEF AnswersSeen

\* A gateway that waits sends nothing before its time.
LEMMA WaitKeeps ==
  ASSUME IInv, WaitInv, [Next]_vars
  PROVE  WaitInv'
<1> SUFFICES ASSUME GatewayWaits
             PROVE  /\ \A t \in Thread, m \in Request : serving'[t] = m => AnswersSeen(m)'
                    /\ \A m \in Request : answered'[m] > 0 => AnswersSeen(m)'
                    /\ \A r \in Run : started'[r] > 0 => Answered("dispatch", r)'
  BY DEF WaitInv
<1> USE DEF WaitInv
<1>1. \A m \in Request : AnswersSeen(m) => AnswersSeen(m)'
  BY SeenStays
<1>2. ASSUME NEW t \in Thread, serving'[t] \in Request
      PROVE  AnswersSeen(serving'[t])
  <2>1. CASE serving'[t] = serving[t]
    BY <1>2, <2>1
  <2>2. CASE serving'[t] # serving[t]
    <3>1. \A u \in Thread : Finish(u) => serving'[t] = serving[t] \/ serving'[t] = None
      BY DEF Finish, IInv, TypeOK
    <3>2. ASSUME NEW u \in Thread, NEW m \in Request, Receive(u, m)
          PROVE  serving'[t] = m /\ AnswersSeen(m)
      BY <2>2, <3>2 DEF Receive, IInv, TypeOK
    <3> QED
      BY <1>2, <2>2, <3>1, <3>2, NoneAssumption
         DEF Next, Serve, Link, Rename, SyncPlan, SyncNonce, SyncAcceptance, SyncSource,
         ReadBack, SyncClaim, Stage, StartEngine, EngineDone, GiveUp, Accept, Refuse,
         PowerFail, vars
  <2> QED
    BY <2>1, <2>2
<1>3. ASSUME NEW m \in Request, answered'[m] > 0
      PROVE  AnswersSeen(m)
  <2>1. CASE answered[m] > 0
    BY <2>1
  <2>2. CASE ~(answered[m] > 0)
    <3>1. ASSUME NEW t \in Thread, Accept(t), pc[t] # "idle" PROVE AnswersSeen(m)
      <4>1. serving[t] \in Request
        BY <3>1, AtWork
      <4>2. serving[t] = m
        BY <1>3, <2>2, <3>1, <4>1 DEF Accept, Answer, IInv, TypeOK
      <4> QED
        BY <4>1, <4>2
    <3>2. answered' # answered
      BY <1>3, <2>2
    <3>3. \E t \in Thread : Accept(t) /\ pc[t] # "idle"
      BY <3>2 DEF Next, Serve, Receive, Link, Rename, SyncPlan, SyncNonce,
         SyncAcceptance, SyncSource, ReadBack, SyncClaim, Stage, StartEngine,
         EngineDone, GiveUp, Refuse, PowerFail, vars, history, Syncing
    <3> QED
      BY <3>1, <3>3
  <2> QED
    BY <2>1, <2>2
<1>4. ASSUME NEW r \in Run, started'[r] > 0
      PROVE  Answered("dispatch", r)'
  <2>1. Answered("dispatch", r) => Answered("dispatch", r)'
    BY AnswersGrow DEF Answered
  <2>2. CASE started[r] > 0
    BY <2>1, <2>2
  <2>3. CASE ~(started[r] > 0)
    <3>1. started' # started
      BY <1>4, <2>3
    <3>2. PICK t \in Thread : StartEngine(t)
      BY <3>1 DEF Next, Serve, Receive, Link, Rename, SyncPlan, SyncNonce,
         SyncAcceptance, SyncSource, ReadBack, SyncClaim, Stage, EngineDone, GiveUp,
         Accept, Refuse, PowerFail, vars, history
    <3>3. /\ serving[t] \in Request /\ KindOf(serving[t]) = "execute"
          /\ RunAt(t) = r
      BY <1>4, <2>3, <3>2 DEF StartEngine, IInv, TypeOK, ThreadShape
    <3>4. AnswersSeen(serving[t])
      BY <3>3
    <3>5. Answered("dispatch", r)
      BY <3>3, <3>4 DEF AnswersSeen, RunAt
    <3> QED
      BY <2>1, <3>5
  <2> QED
    BY <2>2, <2>3
<1> QED
  BY <1>1, <1>2, <1>3, <1>4

\* What the engine was started on stays, provided the gateway waits.
THEOREM StartsGrounded ==
  ASSUME GatewayWaits
  PROVE  Spec => []StartIsGrounded
<1>1. Init => WaitInv
  BY NoneAssumption DEF Init, WaitInv
<1>2. IInv /\ WaitInv => StartIsGrounded
  <2> SUFFICES ASSUME IInv, WaitInv, NEW r \in Run, started[r] > 0
               PROVE  {<<"plan", r>>, <<"acceptance", r>>, <<"claim", r>>} \subseteq stable
    BY DEF StartIsGrounded
  <2>1. PICK m \in Request : KindOf(m) = "dispatch" /\ RunOf(m) = r /\ answered[m] > 0
    BY DEF WaitInv, Answered
  <2>2. PICK n \in Request : KindOf(n) = "provision" /\ RunOf(n) = r /\ answered[n] > 0
    BY <2>1 DEF WaitInv, AnswersSeen, Answered
  <2> QED
    BY <2>1, <2>2 DEF IInv, AnsweredIsStable, StartIsClaimed
<1> QED
  BY <1>1, <1>2, WaitKeeps, ReceiverInvariance, PTL DEF Spec

-----------------------------------------------------------------------------
(* What a request was checked against stays there while it is served.      *)

ServedPrepared == \A t \in Thread : serving[t] \in Request => Prepared(serving[t])

\* While the power stays on, no file is lost and no source is torn.
LEMMA ServingGrows ==
  ASSUME IInv, NEW t \in Thread, Serve(t)
  PROVE  disk \subseteq disk' /\ \A r \in Run : Readable(r) => Readable(r)'
<1>1. CASE UNCHANGED disk /\ UNCHANGED content
  BY <1>1 DEF Readable
<1>2. CASE Link(t) \/ Stage(t)
  BY <1>2 DEF Link, Stage, Readable
<1>3. CASE Rename(t)
  <2> SUFFICES ASSUME NEW r \in Run, Readable(r) PROVE content'[r] = content[r]
    BY <1>3 DEF Rename, Readable
  <2>1. CASE target[t] = <<"source", r>>
    BY <1>3, <2>1 DEF Rename, Readable, IInv, TypeOK
  <2>2. CASE target[t] # <<"source", r>>
    <3>1. PICK q \in Run : target[t] = <<"source", q>>
      BY <1>3, AtWork DEF Rename, File, RunFile
    <3> QED
      BY <1>3, <2>2, <3>1 DEF Rename, IInv, TypeOK
  <2> QED
    BY <2>1, <2>2
<1> QED
  BY <1>1, <1>2, <1>3
     DEF Serve, Receive, SyncPlan, SyncNonce, SyncAcceptance, SyncSource, ReadBack,
     SyncClaim, StartEngine, EngineDone, GiveUp, Syncing, store

\* A request is taken up prepared and stays so until it is done with.
LEMMA PreparedKeeps ==
  ASSUME IInv, ServedPrepared, [Next]_vars
  PROVE  ServedPrepared'
<1>1. ASSUME NEW t \in Thread, Serve(t) PROVE ServedPrepared'
  <2>1. \A m \in Request : Prepared(m) => Prepared(m)'
    BY <1>1, ServingGrows, RequestParts DEF Prepared
  <2>2. ASSUME NEW m \in Request, Receive(t, m) PROVE ServedPrepared'
    <3>1. Prepared(m) /\ serving' = [serving EXCEPT ![t] = m]
      BY <2>2 DEF Receive
    <3> QED
      BY <2>1, <3>1 DEF ServedPrepared, IInv, TypeOK
  <2>3. ASSUME Finish(t) PROVE ServedPrepared'
    BY <2>1, <2>3, NoneAssumption DEF ServedPrepared, Finish, IInv, TypeOK
  <2>4. ASSUME serving' = serving PROVE ServedPrepared'
    BY <2>1, <2>4 DEF ServedPrepared
  <2> QED
    BY <1>1, <2>2, <2>3, <2>4
       DEF Serve, Link, Rename, SyncPlan, SyncNonce, SyncAcceptance, SyncSource,
       ReadBack, SyncClaim, Stage, StartEngine, EngineDone, GiveUp, Accept, Refuse
<1>2. ASSUME PowerFail PROVE ServedPrepared'
  BY <1>2, NoneAssumption DEF PowerFail, ServedPrepared
<1>3. ASSUME UNCHANGED vars PROVE ServedPrepared'
  BY <1>3 DEF vars, ServedPrepared, Prepared, Readable
<1> QED
  BY <1>1, <1>2, <1>3 DEF Next

\* The engine starts on a plan, an acceptance, a claim and a source that are
\* there at that moment, in whatever order the requests came.
THEOREM StartsOnPrepared == Spec => StartsPrepared
<1>1. Init => ServedPrepared
  BY NoneAssumption DEF Init, ServedPrepared
<1>2. IInv /\ ServedPrepared /\ [Next]_vars =>
        [\A r \in Run : started'[r] # started[r] =>
           /\ {<<"plan", r>>, <<"acceptance", r>>, <<"claim", r>>} \subseteq disk
           /\ Readable(r)]_vars
  <2> SUFFICES ASSUME IInv, ServedPrepared, Next, NEW r \in Run, started'[r] # started[r]
               PROVE  /\ {<<"plan", r>>, <<"acceptance", r>>, <<"claim", r>>} \subseteq disk
                      /\ Readable(r)
    OBVIOUS
  <2>1. PICK t \in Thread : StartEngine(t)
    BY DEF Next, Serve, Receive, Link, Rename, SyncPlan, SyncNonce, SyncAcceptance,
       SyncSource, ReadBack, SyncClaim, Stage, EngineDone, GiveUp, Accept, Refuse,
       PowerFail, history
  <2>2. /\ serving[t] \in Request /\ KindOf(serving[t]) = "execute"
        /\ RunOf(serving[t]) = r /\ <<"claim", r>> \in disk
    BY <2>1, RequestParts, SecondFiles
       DEF StartEngine, RunAt, IInv, TypeOK, ThreadShape, StableIsThere
  <2> QED
    BY <2>2 DEF ServedPrepared, Prepared
<1> QED
  BY <1>1, <1>2, PreparedKeeps, ReceiverInvariance, PTL DEF Spec, StartsPrepared

=============================================================================
