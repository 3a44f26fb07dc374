---------------------------- MODULE EngineReceiver ----------------------------
(***************************************************************************)
(* The receiver of one engine service: threads that serve the four         *)
(* authentic requests of the gateway (trusted plan, dispatch, source,      *)
(* execution trigger) over create-once files, and start the engine.        *)
(*                                                                         *)
(* A request may be delivered at any time, any number of times, in any     *)
(* order and to several threads at once; one that is not authentic or      *)
(* lacks what it builds on is refused and changes nothing.  A file is      *)
(* linked first and its directory is synced afterwards, also by a thread   *)
(* that finds the file there already.                                      *)
(* A job has one run on this engine, so a run stands for its job.          *)
(***************************************************************************)
EXTENDS Naturals, FiniteSets

CONSTANTS
  Thread,         \* request threads of the service
  Run,            \* the runs the gateway plans for this engine
  Nonce,          \* the nonces of dispatches and execution triggers
  None,           \* no request, no file, or a nonce the receiver does not record
  GatewayWaits,   \* whether a request is sent only after the answers it builds on
  PowerMayFail    \* whether a power failure can happen

Request == (({"provision", "source"} \X Run) \X {None})
             \union (({"dispatch", "execute"} \X Run) \X Nonce)
KindOf(m)  == m[1][1]
RunOf(m)   == m[1][2]
NonceOf(m) == m[2]

RunFile == {"plan", "acceptance", "source", "claim", "workspace"}
File == (RunFile \X Run) \union ({"dispatchNonce"} \X Nonce)
          \union ({"executionNonce"} \X (Nonce \X Run))

\* What the directory of a source holds.  Its two files are synced, their
\* entries are not: the first power failure may take one or both.
Content == {"none", "unsettled", "whole", "partial"}

Point == {"idle", "linking", "syncing", "reading", "staging", "starting", "running"}

ASSUME NoneAssumption   == None \notin Request /\ None \notin File
ASSUME SwitchAssumption == GatewayWaits \in BOOLEAN /\ PowerMayFail \in BOOLEAN

VARIABLES
  disk,      \* the files a reader finds
  stable,    \* the files whose directory was synced since
  content,   \* content[r]: what the source directory of r holds
  pc,        \* pc[t]: the point thread t has reached
  serving,   \* serving[t]: the request it serves
  target,    \* target[t]: the file it creates
  created,   \* created[t]: whether it was the one to create it
  answered,  \* answered[m]: positive answers to m, those to a source capped at 1
  started    \* started[r]: how often the engine was started for r

vars    == <<disk, stable, content, pc, serving, target, created, answered, started>>
store   == <<disk, stable, content>>
thread  == <<pc, serving, target, created>>
history == <<answered, started>>

-----------------------------------------------------------------------------
(* Files.                                                                  *)

\* Both kinds of nonce share a directory; every other kind has its own.
SameDirectory(f, g) ==
  f[1] = g[1] \/ {f[1], g[1]} \subseteq {"dispatchNonce", "executionNonce"}

\* Mutants: the directory is synced by the creator only, or by nobody.
SyncOwnOnly(t) ==
  stable' = IF created[t] THEN stable \union {f \in disk : SameDirectory(f, target[t])}
                          ELSE stable
NoSync(t) == UNCHANGED stable

Sync(t) == stable' = stable \union {f \in disk : SameDirectory(f, target[t])}

Readable(r) == <<"source", r>> \in disk /\ content[r] \in {"unsettled", "whole"}

\* Mutant: the key of an execution trigger leaves out what it is about.
NonceAlone(m) == <<"executionNonce", NonceOf(m)>>

\* The key of a trigger covers its payload, that of a dispatch does not.
TriggerFile(m) == <<"executionNonce", <<NonceOf(m), RunOf(m)>>>>

FirstFile(m) ==
  CASE KindOf(m) = "provision" -> <<"plan", RunOf(m)>>
    [] KindOf(m) = "source"    -> <<"source", RunOf(m)>>
    [] KindOf(m) = "dispatch"  -> <<"dispatchNonce", NonceOf(m)>>
    [] OTHER                   -> TriggerFile(m)

\* Mutant: the dispatch need not have been accepted.
WithoutAcceptance(m) ==
  /\ KindOf(m) # "provision" => <<"plan", RunOf(m)>> \in disk
  /\ KindOf(m) = "execute" => Readable(RunOf(m))

\* What a request is checked against before anything is written.
Prepared(m) ==
  /\ KindOf(m) # "provision" => <<"plan", RunOf(m)>> \in disk
  /\ KindOf(m) \in {"source", "execute"} => <<"acceptance", RunOf(m)>> \in disk
  /\ KindOf(m) = "execute" => Readable(RunOf(m))

-----------------------------------------------------------------------------

Init ==
  /\ disk = {} /\ stable = {}
  /\ content = [r \in Run |-> "none"]
  /\ pc = [t \in Thread |-> "idle"]
  /\ serving = [t \in Thread |-> None]
  /\ target = [t \in Thread |-> None]
  /\ created = [t \in Thread |-> FALSE]
  /\ answered = [m \in Request |-> 0]
  /\ started = [r \in Run |-> 0]

RunAt(t) == RunOf(serving[t])

Goto(t, point) == pc' = [pc EXCEPT ![t] = point]

\* The thread is done with its request.
Finish(t) ==
  /\ Goto(t, "idle")
  /\ serving' = [serving EXCEPT ![t] = None]
  /\ target' = [target EXCEPT ![t] = None]
  /\ created' = [created EXCEPT ![t] = FALSE]

\* It goes on to create file f.
Create(t, f) ==
  /\ Goto(t, "linking")
  /\ target' = [target EXCEPT ![t] = f]
  /\ created' = [created EXCEPT ![t] = FALSE]

Answer(m) ==
  answered' = [answered EXCEPT ![m] = IF KindOf(m) = "source" THEN 1 ELSE @ + 1]

Accept(t) == Finish(t) /\ Answer(serving[t]) /\ UNCHANGED started
Refuse(t) == Finish(t) /\ UNCHANGED history

Answered(k, r) == \E m \in Request : KindOf(m) = k /\ RunOf(m) = r /\ answered[m] > 0

-----------------------------------------------------------------------------
(* The gateway.  It sends a request once the answers it builds on are in;  *)
(* where it is not taken to wait, any request may turn up at any time.     *)

AnswersSeen(m) ==
  CASE KindOf(m) = "provision" -> TRUE
    [] KindOf(m) = "dispatch"  -> Answered("provision", RunOf(m))
    [] KindOf(m) = "source"    -> Answered("dispatch", RunOf(m))
    [] OTHER                   -> /\ Answered("dispatch", RunOf(m))
                                  /\ Answered("source", RunOf(m))

-----------------------------------------------------------------------------
(* The threads.                                                            *)

Receive(t, m) ==
  /\ pc[t] = "idle"
  /\ GatewayWaits => AnswersSeen(m)
  /\ Prepared(m)
  /\ serving' = [serving EXCEPT ![t] = m]
  /\ Create(t, FirstFile(m))
  /\ UNCHANGED <<store, history>>

Link(t) ==
  /\ pc[t] = "linking" /\ target[t][1] # "source"
  /\ disk' = disk \union {target[t]}
  /\ created' = [created EXCEPT ![t] = target[t] \notin disk]
  /\ Goto(t, "syncing")
  /\ UNCHANGED <<stable, content, serving, target, history>>

\* The source is a directory of two files, renamed into place.
Rename(t) ==
  /\ pc[t] = "linking" /\ target[t][1] = "source"
  /\ LET r == target[t][2] IN
       content' = [content EXCEPT ![r] = IF target[t] \in disk THEN @ ELSE "unsettled"]
  /\ disk' = disk \union {target[t]}
  /\ created' = [created EXCEPT ![t] = target[t] \notin disk]
  /\ Goto(t, "syncing")
  /\ UNCHANGED <<stable, serving, target, history>>

Syncing(t, kinds) ==
  /\ pc[t] = "syncing" /\ target[t][1] \in kinds
  /\ Sync(t)
  /\ UNCHANGED <<disk, content>>

\* A plan that is there already is refused, also the very same one.
SyncPlan(t) ==
  /\ Syncing(t, {"plan"})
  /\ IF created[t] THEN Accept(t) ELSE Refuse(t)

AfterNonce(t) ==
  <<IF target[t][1] = "dispatchNonce" THEN "acceptance" ELSE "claim", RunAt(t)>>

\* Mutant: a nonce that is there already does not stop the request.
NonceReused(t) ==
  /\ Syncing(t, {"dispatchNonce", "executionNonce"})
  /\ Create(t, AfterNonce(t)) /\ UNCHANGED <<serving, history>>

SyncNonce(t) ==
  /\ Syncing(t, {"dispatchNonce", "executionNonce"})
  /\ IF created[t] THEN Create(t, AfterNonce(t)) /\ UNCHANGED <<serving, history>>
                   ELSE Refuse(t)

SyncAcceptance(t) == Syncing(t, {"acceptance"}) /\ Accept(t)

SyncSource(t) ==
  /\ Syncing(t, {"source"})
  /\ Goto(t, "reading")
  /\ UNCHANGED <<serving, target, created, history>>

ReadBack(t) ==
  /\ pc[t] = "reading"
  /\ IF Readable(RunAt(t)) THEN Accept(t) ELSE Refuse(t)
  /\ UNCHANGED store

\* Mutant: a claim that is there already is taken for one's own.
ClaimTaken(t) ==
  /\ Syncing(t, {"claim"})
  /\ Goto(t, "staging") /\ UNCHANGED <<serving, target, created, history>>

SyncClaim(t) ==
  /\ Syncing(t, {"claim"})
  /\ IF created[t] THEN Goto(t, "staging") /\ UNCHANGED <<serving, target, created, history>>
                   ELSE Refuse(t)

\* The workspace is made, once; its own entry is not synced.
Stage(t) ==
  /\ pc[t] = "staging"
  /\ LET workspace == <<"workspace", RunAt(t)>> IN
       IF workspace \in disk
         THEN Refuse(t) /\ UNCHANGED disk
         ELSE /\ disk' = disk \union {workspace}
              /\ Goto(t, "starting")
              /\ UNCHANGED <<serving, target, created, history>>
  /\ UNCHANGED <<stable, content>>

StartEngine(t) ==
  /\ pc[t] = "starting"
  /\ started' = [started EXCEPT ![RunAt(t)] = @ + 1]
  /\ Goto(t, "running")
  /\ UNCHANGED <<store, serving, target, created, answered>>

EngineDone(t) ==
  /\ pc[t] = "running"
  /\ Accept(t)
  /\ UNCHANGED store

\* An error of the file system, of the policy or of the engine, or the end of
\* the process.  What was linked stays linked.
GiveUp(t) ==
  /\ pc[t] # "idle"
  /\ Refuse(t)
  /\ UNCHANGED store

Serve(t) ==
  \/ \E m \in Request : Receive(t, m)
  \/ Link(t) \/ Rename(t)
  \/ SyncPlan(t) \/ SyncNonce(t) \/ SyncAcceptance(t) \/ SyncSource(t)
  \/ ReadBack(t) \/ SyncClaim(t) \/ Stage(t) \/ StartEngine(t) \/ EngineDone(t)
  \/ GiveUp(t)

-----------------------------------------------------------------------------
(* The power.                                                              *)

\* A link that was not synced may be lost.  An unsettled source may keep both
\* entries or one, or none: its directory can then be renamed over, as if it
\* were not there.
PowerFail ==
  /\ PowerMayFail
  /\ \E lost \in SUBSET (disk \ stable), torn \in [Run -> {"whole", "partial", "none"}] :
       LET kept == [r \in Run |-> IF content[r] = "unsettled" THEN torn[r] ELSE content[r]]
           gone == lost \union {<<"source", r>> : r \in {r \in Run : kept[r] = "none"}}
       IN  /\ disk' = disk \ gone
           /\ stable' = disk'
           /\ content' = [r \in Run |-> IF <<"source", r>> \in gone THEN "none" ELSE kept[r]]
  /\ pc' = [t \in Thread |-> "idle"]
  /\ serving' = [t \in Thread |-> None]
  /\ target' = [t \in Thread |-> None]
  /\ created' = [t \in Thread |-> FALSE]
  /\ UNCHANGED history

Next ==
  \/ \E t \in Thread : Serve(t)
  \/ PowerFail

Spec == Init /\ [][Next]_vars

-----------------------------------------------------------------------------
(* Properties.                                                             *)

TypeOK ==
  /\ disk \subseteq File
  /\ stable \subseteq File
  /\ content \in [Run -> Content]
  /\ pc \in [Thread -> Point]
  /\ serving \in [Thread -> Request \union {None}]
  /\ target \in [Thread -> File \union {None}]
  /\ created \in [Thread -> BOOLEAN]
  /\ answered \in [Request -> Nat]
  /\ started \in [Run -> Nat]

\* The engine is started at most once for a run: not again for a trigger that
\* is repeated or signed anew, nor by a second thread, nor after a restart.
StartedOnce == \A r \in Run : started[r] <= 1

\* A request other than a source delivery is answered positively at most
\* once, however often and wherever it is delivered.
AnsweredOnce == \A m \in Request : answered[m] <= 1

\* What a positive answer reports no power failure takes back, whichever
\* thread created the file: a later request never finds less than the
\* gateway was told.
AnsweredIsStable ==
  \A m \in Request : answered[m] > 0 =>
    CASE KindOf(m) = "provision" -> <<"plan", RunOf(m)>> \in stable
      [] KindOf(m) = "dispatch"  -> {FirstFile(m), <<"acceptance", RunOf(m)>>} \subseteq stable
      [] KindOf(m) = "execute"   -> {FirstFile(m), <<"claim", RunOf(m)>>} \subseteq stable
      [] OTHER                   -> TRUE

\* The engine starts on a run only if its plan, the acceptance of its
\* dispatch and its source are there at that moment, not only when the
\* trigger was checked.
StartsPrepared ==
  [][\A r \in Run : started'[r] # started[r] =>
       /\ {<<"plan", r>>, <<"acceptance", r>>, <<"claim", r>>} \subseteq disk
       /\ Readable(r)]_vars

\* With a gateway that waits for the answers, an engine that was started was
\* started on a plan and an acceptance that stay, whatever else is lost.
StartIsGrounded ==
  \A r \in Run : started[r] > 0 =>
    {<<"plan", r>>, <<"acceptance", r>>, <<"claim", r>>} \subseteq stable

\* A source the receiver reported as persisted can be read ever after.
SourceKept == \A r \in Run : Answered("source", r) => Readable(r)

=============================================================================
