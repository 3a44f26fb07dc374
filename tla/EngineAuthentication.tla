------------------------- MODULE EngineAuthentication -------------------------
(***************************************************************************)
(* The four requests the gateway makes of an engine for one job - store a  *)
(* plan, take the dispatch, take the source, execute - and what the engine *)
(* accepts while the credentials rotate.  Each request but the first has a *)
(* credential of its own, whose next generation the engine is given first, *)
(* perhaps ahead of its activation; the gateway signs with it some time    *)
(* after.  A request may arrive late, more than once, or never: in flight  *)
(* is whatever the gateway can have made by now.                           *)
(***************************************************************************)
EXTENDS Integers, Sequences, FiniteSets

CONSTANTS
  Plan,      \* the plans that may have been made of the job
  NoPlan,
  Age,       \* how old a request may be
  Skew,      \* how far ahead of the engine's clock the gateway's may be
  Overlap,   \* how long after an activation the generation before it verifies
  Lag,       \* how long after an activation the gateway may sign with that one
  Ahead,     \* how long ahead of its activation a generation may be given
  MaxRotations,  \* bounds on the rotations, the requests accepted and the clock
  MaxAccepted,
  MaxTime

ASSUME TimeAssumption == {Age, Skew, Overlap, Lag, Ahead} \subseteq Nat
ASSUME PlanAssumption == NoPlan \notin Plan

VARIABLES
  now,
  since,     \* since[k]: when each generation of k's credential is activated
  taken,     \* taken[k]: when the gateway took each up
  held,      \* the plan the engine has stored for the job
  accepted   \* the requests accepted

authVars == <<now, since, taken, held, accepted>>

Rotating == {"dispatch", "source", "execute"}

Message(Times) ==
  [kind : Rotating \union {"provision"}, plan : Plan, gen : 1 .. MaxRotations + 1, at : Times]

AuthInit ==
  /\ now = 0
  /\ since = [k \in Rotating |-> <<0>>]
  /\ taken = [k \in Rotating |-> <<0>>]
  /\ held = NoPlan
  /\ accepted = {}

Current(k) == Len(since[k])

Rotations == Current("dispatch") + Current("source") + Current("execute") - 3

Behind(k) == Len(taken[k]) < Current(k)

\* The gateway takes up a generation no later than Lag after its activation.
AuthTick ==
  /\ now < MaxTime
  /\ \A k \in Rotating : Behind(k) => now < since[k][Current(k)] + Lag
  /\ now' = now + 1
  /\ UNCHANGED <<since, taken, held, accepted>>

-----------------------------------------------------------------------------
(* The gateway. *)

\* With the activation of a generation, the overlap of the one before it is
\* settled; at most one is still verified besides it.
Rotate(k) ==
  /\ Rotations < MaxRotations /\ ~Behind(k)
  /\ Current(k) > 1 => now > since[k][Current(k)] + Overlap
  /\ \E t \in now .. now + (IF k = "dispatch" THEN 0 ELSE Ahead) :
       since' = [since EXCEPT ![k] = Append(@, t)]
  /\ UNCHANGED <<now, taken, held, accepted>>

TakeUp(k) ==
  /\ Behind(k) /\ since[k][Current(k)] <= now
  /\ taken' = [taken EXCEPT ![k] = Append(@, now)]
  /\ UNCHANGED <<now, since, held, accepted>>

\* Whether generation g was signed with at time t.
SignsWith(k, g, t) ==
  /\ g \in DOMAIN taken[k] /\ taken[k][g] <= t
  /\ g + 1 \in DOMAIN taken[k] => t <= taken[k][g + 1]

\* Of the credential of a plan there is one generation.
MakesProvision(m)    == m.kind = "provision" /\ m.gen = 1
MakesDispatch(m, t)  == m.kind = "dispatch" /\ SignsWith("dispatch", m.gen, t)
MakesSource(m, t)    == m.kind = "source" /\ SignsWith("source", m.gen, t)
MakesTrigger(m, t)   == m.kind = "execute" /\ SignsWith("execute", m.gen, t)

-----------------------------------------------------------------------------
(* The engine. *)

\* A request verifies when the gateway can have made it by now.  It bears the
\* time of the gateway's clock, which is d ahead.
Authentic(m) ==
  \E d \in 0 .. Skew :
    LET t == m.at - d IN
    /\ 0 <= t /\ t <= now
    /\ MakesProvision(m) \/ MakesDispatch(m, t) \/ MakesSource(m, t) \/ MakesTrigger(m, t)

\* What may be on its way and is not too old to matter.
InFlight == {m \in Message({t \in 0 .. now + Skew : now <= t + Age}) : Authentic(m)}

\* The sender of a plan may not be ahead.
ProvisionFresh(m) == m.at <= now /\ now <= m.at + Age
Fresh(m)          == m.at <= now + Skew /\ now <= m.at + Age

IsCurrent(m)  == m.gen = Current(m.kind)
IsPrevious(m) == m.gen = Current(m.kind) - 1

Activation(k) == since[k][Current(k)]

\* Mutant: the overlap is over at the activation.
OnlyCurrent(m) == Activation("dispatch") <= now /\ IsCurrent(m)

\* By the time of receipt, and of both generations only once active.
DispatchSelects(m) ==
  /\ Activation("dispatch") <= now
  /\ \/ IsCurrent(m)
     \/ IsPrevious(m) /\ now < Activation("dispatch") + Overlap

\* Mutant: as for a dispatch, the time of signing is not looked at.
ByReceiptOnly(m) ==
  \/ IsCurrent(m) /\ Activation(m.kind) <= now
  \/ IsPrevious(m) /\ now <= Activation(m.kind) + Overlap

\* A generation proves what was signed in its own interval, the previous one
\* until the very end of its overlap.
SignedInItsInterval(m) ==
  \/ IsCurrent(m) /\ Activation(m.kind) <= now /\ Activation(m.kind) <= m.at
  \/ IsPrevious(m) /\ m.at < Activation(m.kind) /\ now <= Activation(m.kind) + Overlap

Selects(m) ==
  IF m.kind = "dispatch" THEN DispatchSelects(m) ELSE SignedInItsInterval(m)

\* Mutant: a plan is only never stored twice.
OtherPlan(m) == m.plan # held

\* A plan is stored once.
PlanUnspent(m) == held = NoPlan

\* A dispatch and a trigger leave a tombstone.
NonceUnspent(m) == m \notin accepted

\* A source that is stored already must be the very same.
SourceAgrees(m) == \A n \in accepted : n.kind = "source" => n.plan = m.plan

DispatchAccepted == \E n \in accepted : n.kind = "dispatch" /\ n.plan = held
SourceStored     == \E n \in accepted : n.kind = "source" /\ n.plan = held

DispatchConverges(m) == m.plan = held
SourceConverges(m)   == m.plan = held /\ DispatchAccepted
TriggerConverges(m)  == m.plan = held /\ DispatchAccepted /\ SourceStored

\* All that is asked of a request besides its generation.
Holds(m) ==
  \/ m.kind = "dispatch" /\ DispatchConverges(m) /\ Fresh(m) /\ NonceUnspent(m)
  \/ m.kind = "source" /\ SourceConverges(m) /\ Fresh(m) /\ SourceAgrees(m)
  \/ m.kind = "execute" /\ TriggerConverges(m) /\ Fresh(m) /\ NonceUnspent(m)

Take(m) ==
  /\ Cardinality(accepted) < MaxAccepted
  /\ accepted' = accepted \union {m}
  /\ UNCHANGED <<now, since, taken>>

StorePlan(m) ==
  /\ m.kind = "provision" /\ ProvisionFresh(m) /\ PlanUnspent(m)
  /\ held' = m.plan /\ Take(m)

AcceptDispatch(m) ==
  /\ m.kind = "dispatch" /\ Holds(m) /\ Selects(m)
  /\ Take(m) /\ UNCHANGED held

AcceptSource(m) ==
  /\ m.kind = "source" /\ Holds(m) /\ Selects(m)
  /\ Take(m) /\ UNCHANGED held

AcceptTrigger(m) ==
  /\ m.kind = "execute" /\ Holds(m) /\ Selects(m)
  /\ Take(m) /\ UNCHANGED held

\* A request that is refused changes nothing.
AuthNext ==
  \/ AuthTick
  \/ \E k \in Rotating : Rotate(k) \/ TakeUp(k)
  \/ \E m \in InFlight :
       \/ StorePlan(m) \/ AcceptDispatch(m) \/ AcceptSource(m) \/ AcceptTrigger(m)

AuthSpec == AuthInit /\ [][AuthNext]_authVars

-----------------------------------------------------------------------------

\* Whatever plans were made of the job, and whatever of their requests arrive
\* late, all an engine accepts for the job is of one plan.
\* (accept_trusted_plan_provisioning and the prechecks of the receivers.)
JobHasOnePlan == \A m, n \in accepted : m.plan = n.plan

\* A source or a trigger was accepted only under the generation in whose
\* interval it was dated, whenever the next generation was given; only a
\* rotation given at once may overtake it, by no more than the clocks differ.
\* (source_delivery_hardening, _select_generation of the execution trigger.)
AcceptedInItsGeneration ==
  \A m \in accepted : m.kind \in {"source", "execute"} =>
    /\ since[m.kind][m.gen] <= m.at
    /\ m.gen < Current(m.kind) => m.at <= since[m.kind][m.gen + 1] + Skew

\* No request is lost to a rotation: one that can arrive now and is refused
\* for its generation alone is a source or a trigger that the gateway dated at
\* or after the activation and signed with the generation before it.
\* (The three receivers' selections of a generation.)
RotationIsSeamless ==
  \A m \in InFlight :
    Holds(m) /\ ~Selects(m) =>
      /\ m.kind # "dispatch"
      /\ \E g \in DOMAIN since[m.kind] : g > m.gen /\ m.at >= since[m.kind][g]

=============================================================================
