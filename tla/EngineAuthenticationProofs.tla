---------------------- MODULE EngineAuthenticationProofs ----------------------
(***************************************************************************)
(* What an engine accepts while credentials rotate, for any set of plans,  *)
(* any number of rotations and any times: all of it is of one plan and was *)
(* signed in the interval of its generation; and if the overlap is longer  *)
(* than a request can be under way, no rotation loses a request.           *)
(***************************************************************************)
EXTENDS EngineAuthentication, TLAPS

USE TimeAssumption, PlanAssumption

-----------------------------------------------------------------------------
(* The inductive invariant.                                                *)

Accepted == [kind : Rotating \union {"provision"}, plan : Plan, gen : 1 .. MaxRotations + 1,
             at : Nat]

AuthTypes ==
  /\ now \in Nat
  /\ since \in [Rotating -> Seq(Nat)]
  /\ taken \in [Rotating -> Seq(Nat)]
  /\ held \in Plan \union {NoPlan}
  /\ accepted \subseteq Accepted

\* The gateway has taken up all generations, or all but the last; each not
\* before its activation and not much after it.
TakenInTime ==
  \A k \in Rotating :
    /\ Len(taken[k]) \in {Current(k), Current(k) - 1} /\ Len(taken[k]) > 0
    /\ Behind(k) => now <= since[k][Current(k)] + Lag
    /\ \A g \in DOMAIN taken[k] :
         since[k][g] <= taken[k][g] /\ taken[k][g] <= since[k][g] + Lag /\ taken[k][g] <= now

\* A generation that was followed by another had its overlap.
OverlapsGone ==
  \A k \in Rotating, g \in Nat :
    g > 1 /\ g + 1 \in DOMAIN since[k] => now > since[k][g] + Overlap

DispatchActive == \A g \in DOMAIN since["dispatch"] : since["dispatch"][g] <= now

OfTheHeldPlan == \A m \in accepted : m.plan = held

\* What was accepted is of a generation that is known, and is not of the future.
AcceptedInTime ==
  \A m \in accepted :
    /\ m.at <= now + Skew
    /\ m.kind # "provision" => m.gen \in DOMAIN since[m.kind]

ClockInv == AuthTypes /\ TakenInTime /\ OverlapsGone /\ DispatchActive

EngineInv == OfTheHeldPlan /\ AcceptedInTime /\ AcceptedInItsGeneration

-----------------------------------------------------------------------------
(* Sequences of times.                                                     *)

LEMMA Times ==
  ASSUME NEW s \in Seq(Nat)
  PROVE  /\ Len(s) \in Nat /\ DOMAIN s = 1 .. Len(s)
         /\ \A i \in DOMAIN s : i \in Nat /\ i > 0 /\ i <= Len(s) /\ s[i] \in Nat
         /\ \A i \in Nat : i > 0 /\ i <= Len(s) => i \in DOMAIN s
  OBVIOUS

LEMMA Appending ==
  ASSUME NEW s \in Seq(Nat), NEW t \in Nat, NEW r, r = Append(s, t)
  PROVE  /\ r \in Seq(Nat) /\ Len(r) = Len(s) + 1
         /\ DOMAIN r = DOMAIN s \union {Len(s) + 1}
         /\ \A i \in DOMAIN s : r[i] = s[i]
         /\ r[Len(s) + 1] = t
  OBVIOUS

LEMMA CredentialTimes ==
  ASSUME AuthTypes, NEW k \in Rotating
  PROVE  /\ Len(since[k]) \in Nat /\ Len(taken[k]) \in Nat
         /\ \A i \in DOMAIN since[k] : i \in Nat /\ i > 0 /\ i <= Len(since[k]) /\ since[k][i] \in Nat
         /\ \A i \in DOMAIN taken[k] : i \in Nat /\ i > 0 /\ i <= Len(taken[k]) /\ taken[k][i] \in Nat
         /\ \A i \in Nat : i > 0 /\ i <= Len(since[k]) => i \in DOMAIN since[k]
         /\ \A i \in Nat : i > 0 /\ i <= Len(taken[k]) => i \in DOMAIN taken[k]
  <1>1. since[k] \in Seq(Nat) /\ taken[k] \in Seq(Nat)
    BY DEF AuthTypes
  <1>2. QED
    BY <1>1, Times

-----------------------------------------------------------------------------
(* Requests in flight.                                                     *)

LEMMA Flying ==
  ASSUME AuthTypes, NEW m \in InFlight
  PROVE  /\ m \in Accepted /\ m.at \in Nat /\ m.plan \in Plan
         /\ m.at <= now + Skew /\ now <= m.at + Age
         /\ Authentic(m)
  <1>1. m \in Message({t \in 0 .. now + Skew : now <= t + Age}) /\ Authentic(m)
    BY DEF InFlight
  <1>2. m.at \in {t \in 0 .. now + Skew : now <= t + Age} /\ m \in Accepted /\ m.plan \in Plan
    BY <1>1 DEF Message, Accepted, AuthTypes
  <1>3. QED
    BY <1>1, <1>2 DEF AuthTypes

\* A request was signed between the taking up of its generation and that of
\* the next, by a clock that may be ahead.
LEMMA SignedThen ==
  ASSUME AuthTypes, NEW m \in InFlight, m.kind \in Rotating
  PROVE  /\ m.gen \in DOMAIN taken[m.kind]
         /\ taken[m.kind][m.gen] <= m.at
         /\ m.gen + 1 \in DOMAIN taken[m.kind] => m.at <= taken[m.kind][m.gen + 1] + Skew
  <1>1. Authentic(m) /\ m.at \in Nat
    BY Flying
  <1>2. PICK d \in 0 .. Skew : SignsWith(m.kind, m.gen, m.at - d)
    BY <1>1 DEF Authentic, MakesProvision, MakesDispatch, MakesSource, MakesTrigger, Rotating
  <1>3. \A i \in DOMAIN taken[m.kind] : taken[m.kind][i] \in Nat
    BY CredentialTimes
  <1>4. m.gen \in DOMAIN taken[m.kind] /\ taken[m.kind][m.gen] <= m.at
    <2>1. /\ m.gen \in DOMAIN taken[m.kind] /\ taken[m.kind][m.gen] <= m.at - d
          /\ d \in Nat /\ taken[m.kind][m.gen] \in Nat
      BY <1>2, <1>3 DEF SignsWith
    <2>2. QED
      BY <1>1, <2>1
  <1>5. ASSUME m.gen + 1 \in DOMAIN taken[m.kind]
        PROVE  m.at <= taken[m.kind][m.gen + 1] + Skew
    <2>1. taken[m.kind][m.gen + 1] \in Nat
      BY <1>3, <1>5
    <2>2. m.at - d <= taken[m.kind][m.gen + 1]
      BY <1>2, <1>5 DEF SignsWith
    <2>3. d \in Nat /\ d <= Skew
      OBVIOUS
    <2>4. QED
      BY <1>1, <2>1, <2>2, <2>3
  <1>6. QED
    BY <1>4, <1>5

-----------------------------------------------------------------------------
(* The steps.                                                              *)

LEMMA InitHolds == AuthInit => ClockInv /\ EngineInv
  <1> SUFFICES ASSUME AuthInit PROVE ClockInv /\ EngineInv
    OBVIOUS
  <1>1. <<0>> \in Seq(Nat) /\ Len(<<0>>) = 1 /\ DOMAIN <<0>> = {1} /\ <<0>>[1] = 0
    OBVIOUS
  <1>2. AuthTypes
    BY <1>1 DEF AuthInit, AuthTypes
  <1>3. TakenInTime /\ OverlapsGone /\ DispatchActive
    BY <1>1 DEF AuthInit, TakenInTime, OverlapsGone, DispatchActive, Current, Behind, Rotating
  <1>4. EngineInv
    BY DEF AuthInit, EngineInv, OfTheHeldPlan, AcceptedInTime, AcceptedInItsGeneration
  <1>5. QED
    BY <1>2, <1>3, <1>4 DEF ClockInv

LEMMA TickHolds ==
  ASSUME ClockInv, EngineInv, AuthTick
  PROVE  ClockInv' /\ EngineInv'
  <1> USE DEF ClockInv, EngineInv, AuthTypes
  <1>1. now' = now + 1 /\ UNCHANGED <<since, taken, held, accepted>>
    BY DEF AuthTick
  <1>2. AuthTypes'
    BY <1>1
  <1>3. TakenInTime'
    <2> SUFFICES ASSUME NEW k \in Rotating
                 PROVE  /\ Len(taken[k]) \in {Current(k), Current(k) - 1} /\ Len(taken[k]) > 0
                        /\ Behind(k) => now' <= since[k][Current(k)] + Lag
                        /\ \A g \in DOMAIN taken[k] :
                             /\ since[k][g] <= taken[k][g] /\ taken[k][g] <= since[k][g] + Lag
                             /\ taken[k][g] <= now'
      BY <1>1 DEF TakenInTime, Current, Behind
    <2>1. Behind(k) => now < since[k][Current(k)] + Lag
      BY DEF AuthTick
    <2>2. since[k] \in Seq(Nat) /\ taken[k] \in Seq(Nat)
      OBVIOUS
    <2>3. ASSUME Behind(k) PROVE now' <= since[k][Current(k)] + Lag
      <3>1. Current(k) \in DOMAIN since[k]
        BY <2>2, <2>3 DEF Behind, Current
      <3>2. since[k][Current(k)] \in Nat
        BY <2>2, <3>1
      <3>3. QED
        BY <1>1, <2>1, <2>3, <3>2
    <2>4. QED
      BY <1>1, <2>2, <2>3 DEF TakenInTime
  <1>4. OverlapsGone' /\ DispatchActive'
    <2>1. ASSUME NEW k \in Rotating, NEW g \in Nat, g > 1, g + 1 \in DOMAIN since[k]
          PROVE  now' > since[k][g] + Overlap
      <3>1. g \in DOMAIN since[k] /\ since[k][g] \in Nat
        BY <2>1, CredentialTimes
      <3>2. now > since[k][g] + Overlap
        BY <2>1 DEF OverlapsGone
      <3>3. QED
        BY <1>1, <3>1, <3>2
    <2>2. ASSUME NEW g \in DOMAIN since["dispatch"] PROVE since["dispatch"][g] <= now'
      <3>1. since["dispatch"] \in Seq(Nat)
        BY DEF Rotating
      <3>2. since["dispatch"][g] \in Nat /\ since["dispatch"][g] <= now
        BY <2>2, <3>1 DEF DispatchActive
      <3>3. QED
        BY <1>1, <3>2
    <2>3. QED
      BY <1>1, <2>1, <2>2 DEF OverlapsGone, DispatchActive
  <1>5. EngineInv'
    <2>1. ASSUME NEW m \in accepted PROVE m.at <= now' + Skew
      <3>1. m.at \in Nat /\ m.at <= now + Skew
        BY DEF Accepted, AcceptedInTime
      <3>2. QED
        BY <1>1, <3>1
    <2>2. QED
      BY <1>1, <2>1 DEF OfTheHeldPlan, AcceptedInTime, AcceptedInItsGeneration, Current
  <1>6. QED
    BY <1>2, <1>3, <1>4, <1>5

LEMMA RotateHolds ==
  ASSUME ClockInv, EngineInv, NEW k \in Rotating, Rotate(k)
  PROVE  ClockInv' /\ EngineInv'
  <1> USE DEF ClockInv, EngineInv, AuthTypes
  <1>1. PICK t \in now .. now + (IF k = "dispatch" THEN 0 ELSE Ahead) :
          since' = [since EXCEPT ![k] = Append(@, t)]
    BY DEF Rotate
  <1>2. now \in Nat /\ t \in Nat /\ t >= now /\ (k = "dispatch" => t = now)
    OBVIOUS
  <1>3. /\ UNCHANGED <<now, taken, held, accepted>> /\ ~Behind(k)
        /\ Current(k) > 1 => now > since[k][Current(k)] + Overlap
    BY DEF Rotate
  <1>4. since[k] \in Seq(Nat) /\ since'[k] = Append(since[k], t)
    BY <1>1
  <1>5. /\ since'[k] \in Seq(Nat) /\ Len(since'[k]) = Len(since[k]) + 1
        /\ DOMAIN since'[k] = DOMAIN since[k] \union {Len(since[k]) + 1}
        /\ \A g \in DOMAIN since[k] : since'[k][g] = since[k][g]
        /\ since'[k][Len(since[k]) + 1] = t
        /\ DOMAIN since[k] = 1 .. Len(since[k]) /\ Len(since[k]) \in Nat
    <2>1. since[k] \in Seq(Nat) /\ t \in Nat /\ since'[k] = Append(since[k], t)
      BY <1>2, <1>4
    <2>2. QED
      BY ONLY <2>1, Appending, Times
  <1>6. \A j \in Rotating : j # k => since'[j] = since[j]
    BY <1>1
  <1>7. Len(taken[k]) = Len(since[k]) /\ Len(taken[k]) > 0 /\ taken[k] \in Seq(Nat)
    <2>1. /\ Len(taken[k]) \in {Len(since[k]), Len(since[k]) - 1} /\ Len(taken[k]) > 0
          /\ ~(Len(taken[k]) < Len(since[k])) /\ Len(since[k]) \in Nat
      BY <1>3, <1>5 DEF TakenInTime, Behind, Current
    <2>2. Len(taken[k]) = Len(since[k])
      BY ONLY <2>1
    <2>3. QED
      BY <2>1, <2>2
  <1>8. AuthTypes'
    BY <1>1, <1>3, <1>4, <1>5
  <1>9. TakenInTime'
    <2>1. ASSUME NEW j \in Rotating, j # k
          PROVE  /\ Len(taken[j]) \in {Len(since'[j]), Len(since'[j]) - 1} /\ Len(taken[j]) > 0
                 /\ Len(taken[j]) < Len(since'[j]) => now <= since'[j][Len(since'[j])] + Lag
                 /\ \A g \in DOMAIN taken[j] :
                      since'[j][g] <= taken[j][g] /\ taken[j][g] <= since'[j][g] + Lag /\ taken[j][g] <= now
      BY <1>6, <2>1 DEF TakenInTime, Current, Behind
    <2>2. /\ Len(taken[k]) \in {Len(since'[k]), Len(since'[k]) - 1} /\ Len(taken[k]) > 0
          /\ now <= since'[k][Len(since'[k])] + Lag
      BY <1>2, <1>5, <1>7
    <2>3. ASSUME NEW g \in DOMAIN taken[k]
          PROVE  since'[k][g] <= taken[k][g] /\ taken[k][g] <= since'[k][g] + Lag /\ taken[k][g] <= now
      <3>1. g \in DOMAIN since[k]
        <4>1. DOMAIN taken[k] = 1 .. Len(taken[k])
          BY <1>7
        <4>2. QED
          BY <1>5, <1>7, <4>1
      <3>2. /\ since[k][g] <= taken[k][g] /\ taken[k][g] <= since[k][g] + Lag
            /\ taken[k][g] <= now
        BY DEF TakenInTime
      <3>3. QED
        BY <1>5, <3>1, <3>2
    <2>4. QED
      BY <1>3, <2>1, <2>2, <2>3 DEF TakenInTime, Current, Behind
  <1>10. OverlapsGone'
    <2> SUFFICES ASSUME NEW j \in Rotating, NEW g \in Nat, g > 1, g + 1 \in DOMAIN since'[j]
                 PROVE  now > since'[j][g] + Overlap
      BY <1>3 DEF OverlapsGone
    <2>1. CASE j # k
      BY <1>6, <2>1 DEF OverlapsGone
    <2>2. CASE j = k /\ g + 1 \in DOMAIN since[k]
      <3>1. g \in DOMAIN since[k]
        <4>1. g + 1 <= Len(since[k]) /\ Len(since[k]) \in Nat
          BY <2>2, CredentialTimes
        <4>2. QED
          BY <4>1, CredentialTimes
      <3>2. now > since[k][g] + Overlap
        BY <2>2 DEF OverlapsGone
      <3>3. QED
        BY <1>5, <2>2, <3>1, <3>2
    <2>3. CASE j = k /\ g = Len(since[k])
      <3>1. g \in DOMAIN since[k]
        BY <2>3, CredentialTimes
      <3>2. now > since[k][g] + Overlap
        BY <1>3, <2>3 DEF Current
      <3>3. QED
        BY <1>5, <2>3, <3>1, <3>2
    <2>4. ASSUME j = k PROVE g + 1 \in DOMAIN since[k] \/ g = Len(since[k])
      <3>1. g + 1 \in DOMAIN since[k] \/ g + 1 = Len(since[k]) + 1
        BY <1>5, <2>4
      <3>2. g \in Nat /\ Len(since[k]) \in Nat
        BY <1>5
      <3>3. QED
        BY <3>1, <3>2
    <2>5. QED
      BY <2>1, <2>2, <2>3, <2>4
  <1>11. DispatchActive'
    <2>1. CASE k = "dispatch"
      <3>1. ASSUME NEW g \in DOMAIN since'[k] PROVE since'[k][g] <= now
        <4>1. CASE g \in DOMAIN since[k]
          BY <1>5, <2>1, <4>1 DEF DispatchActive
        <4>2. CASE g = Len(since[k]) + 1
          BY <1>2, <1>5, <2>1, <4>2
        <4>3. QED
          BY <1>5, <4>1, <4>2
      <3>2. QED
        BY <1>3, <2>1, <3>1 DEF DispatchActive
    <2>2. CASE k # "dispatch"
      BY <1>3, <1>6, <2>2 DEF DispatchActive, Rotating
    <2>3. QED
      BY <2>1, <2>2
  <1>12. AcceptedInTime' /\ OfTheHeldPlan'
    <2>1. \A j \in Rotating : DOMAIN since[j] \subseteq DOMAIN since'[j]
      BY <1>5, <1>6
    <2>2. \A m \in accepted : m.kind # "provision" => m.kind \in Rotating
      BY DEF Accepted
    <2>3. QED
      BY <1>3, <2>1, <2>2 DEF AcceptedInTime, OfTheHeldPlan
  <1>13. AcceptedInItsGeneration'
    <2> SUFFICES ASSUME NEW m \in accepted, m.kind \in {"source", "execute"}
                 PROVE  /\ since'[m.kind][m.gen] <= m.at
                        /\ m.gen < Len(since'[m.kind]) => m.at <= since'[m.kind][m.gen + 1] + Skew
      BY <1>3 DEF AcceptedInItsGeneration, Current
    <2>1. /\ m.gen \in DOMAIN since[m.kind] /\ m.at \in Nat /\ m.at <= now + Skew
          /\ m.kind \in Rotating
      BY DEF AcceptedInTime, Accepted, Rotating
    <2>2. /\ since[m.kind][m.gen] <= m.at
          /\ m.gen < Len(since[m.kind]) => m.at <= since[m.kind][m.gen + 1] + Skew
      BY DEF AcceptedInItsGeneration, Current
    <2>3. CASE m.kind # k
      BY <1>6, <2>1, <2>2, <2>3
    <2>4. CASE m.kind = k
      <3>1. CASE m.gen < Len(since[k])
        <4>1. m.gen + 1 \in DOMAIN since[k]
          BY <2>1, <2>4, <3>1, CredentialTimes
        <4>2. QED
          <5>1. /\ since'[k][m.gen] = since[k][m.gen]
                /\ since'[k][m.gen + 1] = since[k][m.gen + 1]
            BY <1>5, <2>1, <2>4, <4>1
          <5>2. QED
            BY <2>2, <2>4, <3>1, <5>1
      <3>2. CASE m.gen = Len(since[k])
        <4>1. m.at <= t + Skew
          BY ONLY <1>2, <2>1, TimeAssumption
        <4>2. QED
          BY <1>5, <2>1, <2>2, <2>4, <3>2, <4>1
      <3>3. QED
        BY <1>5, <2>1, <2>4, <3>1, <3>2
    <2>5. QED
      BY <2>3, <2>4
  <1>14. QED
    BY <1>8, <1>9, <1>10, <1>11, <1>12, <1>13

LEMMA TakeUpHolds ==
  ASSUME ClockInv, EngineInv, NEW k \in Rotating, TakeUp(k)
  PROVE  ClockInv' /\ EngineInv'
  <1> USE DEF ClockInv, EngineInv, AuthTypes
  <1>1. /\ taken' = [taken EXCEPT ![k] = Append(@, now)]
        /\ UNCHANGED <<now, since, held, accepted>>
        /\ Len(taken[k]) < Len(since[k]) /\ since[k][Len(since[k])] <= now
    BY DEF TakeUp, Behind, Current
  <1>2. /\ taken[k] \in Seq(Nat) /\ taken'[k] = Append(taken[k], now)
        /\ since[k] \in Seq(Nat)
    BY <1>1
  <1>3. /\ taken'[k] \in Seq(Nat) /\ Len(taken'[k]) = Len(taken[k]) + 1
        /\ DOMAIN taken'[k] = DOMAIN taken[k] \union {Len(taken[k]) + 1}
        /\ \A g \in DOMAIN taken[k] : taken'[k][g] = taken[k][g]
        /\ taken'[k][Len(taken[k]) + 1] = now
        /\ Len(taken[k]) \in Nat /\ Len(since[k]) \in Nat
    <2>1. taken[k] \in Seq(Nat) /\ now \in Nat /\ taken'[k] = Append(taken[k], now)
      BY <1>2
    <2>2. QED
      BY ONLY <1>2, <2>1, Appending, Times
  <1>4. Len(since[k]) = Len(taken[k]) + 1
    BY <1>1, <1>3 DEF TakenInTime, Current
  <1>5. \A j \in Rotating : j # k => taken'[j] = taken[j]
    BY <1>1
  <1>6. AuthTypes'
    BY <1>1, <1>3
  <1>7. TakenInTime'
    <2>1. ASSUME NEW j \in Rotating, j # k
          PROVE  /\ Len(taken'[j]) \in {Len(since[j]), Len(since[j]) - 1} /\ Len(taken'[j]) > 0
                 /\ Len(taken'[j]) < Len(since[j]) => now <= since[j][Len(since[j])] + Lag
                 /\ \A g \in DOMAIN taken'[j] :
                      /\ since[j][g] <= taken'[j][g] /\ taken'[j][g] <= since[j][g] + Lag
                      /\ taken'[j][g] <= now
      BY <1>5, <2>1 DEF TakenInTime, Current, Behind
    <2>2. /\ Len(taken'[k]) = Len(since[k]) /\ Len(taken'[k]) > 0
          /\ ~(Len(taken'[k]) < Len(since[k]))
      BY <1>3, <1>4
    <2>3. ASSUME NEW g \in DOMAIN taken'[k]
          PROVE  /\ since[k][g] <= taken'[k][g] /\ taken'[k][g] <= since[k][g] + Lag
                 /\ taken'[k][g] <= now
      <3>1. CASE g \in DOMAIN taken[k]
        BY <1>3, <3>1 DEF TakenInTime
      <3>2. CASE g = Len(taken[k]) + 1
        <4>1. now <= since[k][Len(since[k])] + Lag
          BY <1>1 DEF TakenInTime, Behind, Current
        <4>2. QED
          BY <1>1, <1>3, <1>4, <3>2, <4>1
      <3>3. QED
        BY <1>3, <3>1, <3>2
    <2>4. QED
      BY <1>1, <2>1, <2>2, <2>3 DEF TakenInTime, Current, Behind
  <1>8. OverlapsGone' /\ DispatchActive' /\ EngineInv'
    BY <1>1 DEF OverlapsGone, DispatchActive, OfTheHeldPlan, AcceptedInTime,
                AcceptedInItsGeneration, Current
  <1>9. QED
    BY <1>6, <1>7, <1>8

\* Whatever the engine takes, its clocks and the gateway's credentials stay.
LEMMA TakeKeepsClocks ==
  ASSUME ClockInv, NEW m \in InFlight, Take(m), held' \in Plan \union {NoPlan},
         accepted \subseteq Accepted
  PROVE  ClockInv'
  <1>1. m \in Accepted
    BY Flying DEF ClockInv
  <1>2. UNCHANGED <<now, since, taken>> /\ accepted' = accepted \union {m}
    BY DEF Take
  <1>3. AuthTypes'
    BY <1>1, <1>2 DEF ClockInv, AuthTypes
  <1>4. TakenInTime' /\ OverlapsGone' /\ DispatchActive'
    BY <1>2 DEF ClockInv, TakenInTime, OverlapsGone, DispatchActive, Current, Behind
  <1>5. QED
    BY <1>3, <1>4 DEF ClockInv

LEMMA StorePlanHolds ==
  ASSUME ClockInv, EngineInv, NEW m \in InFlight, StorePlan(m)
  PROVE  ClockInv' /\ EngineInv'
  <1>1. /\ m.kind = "provision" /\ held = NoPlan /\ held' = m.plan /\ Take(m)
        /\ UNCHANGED <<now, since, taken>> /\ accepted' = accepted \union {m}
    BY DEF StorePlan, PlanUnspent, Take
  <1>2. m \in Accepted /\ m.plan \in Plan /\ m.at <= now + Skew /\ accepted \subseteq Accepted
    BY Flying DEF ClockInv, AuthTypes
  <1>3. ClockInv'
    BY <1>1, <1>2, TakeKeepsClocks
  <1>4. accepted = {}
    BY <1>1, <1>2 DEF EngineInv, OfTheHeldPlan, Accepted
  <1>5. OfTheHeldPlan' /\ AcceptedInTime'
    BY <1>1, <1>2, <1>4 DEF OfTheHeldPlan, AcceptedInTime
  <1>6. AcceptedInItsGeneration'
    BY <1>1, <1>4 DEF AcceptedInItsGeneration
  <1>7. QED
    BY <1>3, <1>5, <1>6 DEF EngineInv

\* A request of a credential that rotates.
Accept(m) ==
  /\ m.kind \in Rotating /\ m.plan = held /\ Selects(m)
  /\ Take(m) /\ UNCHANGED held

LEMMA Accepting ==
  ASSUME NEW m, AcceptDispatch(m) \/ AcceptSource(m) \/ AcceptTrigger(m)
  PROVE  Accept(m)
  <1>1. CASE AcceptDispatch(m)
    BY <1>1 DEF AcceptDispatch, Accept, Holds, DispatchConverges, Rotating
  <1>2. CASE AcceptSource(m)
    BY <1>2 DEF AcceptSource, Accept, Holds, SourceConverges, Rotating
  <1>3. CASE AcceptTrigger(m)
    BY <1>3 DEF AcceptTrigger, Accept, Holds, TriggerConverges, Rotating
  <1>4. QED
    BY <1>1, <1>2, <1>3

\* A generation was taken up after it was known.
LEMMA TakenIsKnown ==
  ASSUME ClockInv, NEW k \in Rotating, NEW g \in DOMAIN taken[k]
  PROVE  /\ g \in DOMAIN since[k] /\ g \in Nat /\ g > 0 /\ g <= Len(since[k])
         /\ since[k][g] \in Nat /\ taken[k][g] \in Nat
         /\ since[k][g] <= taken[k][g] /\ taken[k][g] <= since[k][g] + Lag /\ taken[k][g] <= now
  <1>1. g \in Nat /\ g > 0 /\ g <= Len(taken[k]) /\ taken[k][g] \in Nat
    BY CredentialTimes DEF ClockInv
  <1>2. Len(taken[k]) <= Len(since[k])
    BY CredentialTimes DEF ClockInv, TakenInTime, Current
  <1>3. g \in DOMAIN since[k] /\ g <= Len(since[k])
    BY <1>1, <1>2, CredentialTimes DEF ClockInv
  <1>4. since[k][g] \in Nat
    BY <1>3, CredentialTimes DEF ClockInv
  <1>5. since[k][g] <= taken[k][g] /\ taken[k][g] <= since[k][g] + Lag /\ taken[k][g] <= now
    BY DEF ClockInv, TakenInTime
  <1>6. QED
    BY <1>1, <1>3, <1>4, <1>5

LEMMA AcceptHolds ==
  ASSUME ClockInv, EngineInv, NEW m \in InFlight, Accept(m)
  PROVE  ClockInv' /\ EngineInv'
  <1>1. /\ m.kind \in Rotating /\ m.plan = held /\ Selects(m) /\ Take(m)
        /\ UNCHANGED <<now, since, taken, held>> /\ accepted' = accepted \union {m}
    BY DEF Accept, Take
  <1>2. m \in Accepted /\ m.at \in Nat /\ m.at <= now + Skew /\ accepted \subseteq Accepted
    BY Flying DEF ClockInv, AuthTypes
  <1>3. ClockInv'
    BY <1>1, <1>2, TakeKeepsClocks DEF ClockInv, AuthTypes
  <1>4. m.gen \in DOMAIN taken[m.kind] /\ taken[m.kind][m.gen] <= m.at
    BY <1>1, SignedThen DEF ClockInv
  <1>5. /\ m.gen \in DOMAIN since[m.kind] /\ m.gen \in Nat /\ since[m.kind][m.gen] <= m.at
    <2>1. /\ m.gen \in DOMAIN since[m.kind] /\ m.gen \in Nat
          /\ since[m.kind][m.gen] \in Nat /\ taken[m.kind][m.gen] \in Nat
          /\ since[m.kind][m.gen] <= taken[m.kind][m.gen]
      BY <1>1, <1>4, TakenIsKnown
    <2>2. QED
      BY <1>2, <1>4, <2>1
  <1>6. OfTheHeldPlan' /\ AcceptedInTime'
    BY <1>1, <1>2, <1>5 DEF EngineInv, OfTheHeldPlan, AcceptedInTime
  <1>7. AcceptedInItsGeneration'
    <2>1. ASSUME m.kind \in {"source", "execute"}, m.gen < Current(m.kind)
          PROVE  m.at <= since[m.kind][m.gen + 1] + Skew
      <3>1. IsPrevious(m) /\ m.at < Activation(m.kind)
        BY <1>1, <1>5, <2>1 DEF Selects, SignedInItsInterval, IsCurrent, Current
      <3>2. m.gen + 1 = Current(m.kind) /\ m.gen + 1 \in DOMAIN since[m.kind]
        <4>1. m.gen + 1 = Len(since[m.kind]) /\ m.gen + 1 > 0 /\ m.gen + 1 \in Nat
          BY <1>1, <1>5, <3>1, CredentialTimes DEF ClockInv, IsPrevious, Current
        <4>2. QED
          BY <1>1, <4>1, CredentialTimes DEF ClockInv, Current
      <3>3. since[m.kind][m.gen + 1] \in Nat
        BY <1>1, <3>2, CredentialTimes DEF ClockInv
      <3>4. QED
        BY <1>2, <3>1, <3>2, <3>3 DEF Activation
    <2>2. QED
      BY <1>1, <1>5, <2>1 DEF EngineInv, AcceptedInItsGeneration, Current
  <1>8. QED
    BY <1>3, <1>6, <1>7 DEF EngineInv

LEMMA NextHolds ==
  ClockInv /\ EngineInv /\ [AuthNext]_authVars => ClockInv' /\ EngineInv'
  <1> SUFFICES ASSUME ClockInv, EngineInv, [AuthNext]_authVars
               PROVE  ClockInv' /\ EngineInv'
    OBVIOUS
  <1>1. CASE AuthTick
    BY <1>1, TickHolds
  <1>2. ASSUME NEW k \in Rotating, Rotate(k) PROVE ClockInv' /\ EngineInv'
    BY <1>2, RotateHolds
  <1>3. ASSUME NEW k \in Rotating, TakeUp(k) PROVE ClockInv' /\ EngineInv'
    BY <1>3, TakeUpHolds
  <1>4. ASSUME NEW m \in InFlight, StorePlan(m) PROVE ClockInv' /\ EngineInv'
    BY <1>4, StorePlanHolds
  <1>5. ASSUME NEW m \in InFlight, AcceptDispatch(m) \/ AcceptSource(m) \/ AcceptTrigger(m)
        PROVE  ClockInv' /\ EngineInv'
    BY <1>5, Accepting, AcceptHolds
  <1>6. CASE UNCHANGED authVars
    BY <1>6 DEF authVars, ClockInv, EngineInv, AuthTypes, TakenInTime, OverlapsGone,
                DispatchActive, OfTheHeldPlan, AcceptedInTime, AcceptedInItsGeneration,
                Current, Behind
  <1>7. QED
    BY <1>1, <1>2, <1>3, <1>4, <1>5, <1>6 DEF AuthNext

LEMMA AlwaysHolds == AuthSpec => [](ClockInv /\ EngineInv)
  BY InitHolds, NextHolds, PTL DEF AuthSpec

-----------------------------------------------------------------------------
(* The theorems.                                                           *)

\* All an engine accepts for a job is of one plan: a plan is stored while none
\* is, so before anything is accepted, and all the rest must agree with it.
\* (accept_trusted_plan_provisioning, the prechecks of the receivers.)
THEOREM OnePlanForTheJob == AuthSpec => []JobHasOnePlan
  <1>1. EngineInv => JobHasOnePlan
    BY DEF EngineInv, OfTheHeldPlan, JobHasOnePlan
  <1>2. QED
    BY <1>1, AlwaysHolds, PTL

\* A source or a trigger was accepted only under the generation in whose
\* interval it was dated, but for the difference of the clocks.
\* (source_delivery_hardening, _select_generation of the execution trigger.)
THEOREM InItsGeneration == AuthSpec => []AcceptedInItsGeneration
  <1>1. EngineInv => AcceptedInItsGeneration
    BY DEF EngineInv
  <1>2. QED
    BY <1>1, AlwaysHolds, PTL

LEMMA Delays ==
  ASSUME NEW a \in Nat, NEW b \in Nat, NEW at \in Nat, NEW t \in Nat,
         a <= b + Lag, at <= a + Skew, t <= at + Age
  PROVE  t <= b + (Lag + Skew + Age)
  OBVIOUS

\* A request arrives before the next generation is as old as the gateway may
\* lag, its clock be ahead and the request be under way, taken together.
LEMMA NotLate ==
  ASSUME ClockInv, NEW m \in InFlight, NEW k \in Rotating, m.kind = k,
         NEW n, n = m.gen + 1, n \in DOMAIN since[k]
  PROVE  now <= since[k][n] + (Lag + Skew + Age)
  <1>1. /\ n \in DOMAIN taken[k] => m.at <= taken[k][n] + Skew
        /\ m.at \in Nat /\ m.at <= now + Skew /\ now <= m.at + Age /\ now \in Nat
    BY SignedThen, Flying DEF ClockInv, AuthTypes
  <1>2. /\ n \in Nat /\ n > 0 /\ since[k][n] \in Nat /\ n <= Len(since[k])
        /\ Len(since[k]) \in Nat /\ Len(taken[k]) \in Nat
    BY CredentialTimes DEF ClockInv
  <1>3. CASE n \in DOMAIN taken[k]
    <2>1. taken[k][n] \in Nat /\ taken[k][n] <= since[k][n] + Lag
      BY <1>3, TakenIsKnown
    <2>2. m.at <= taken[k][n] + Skew
      BY <1>1, <1>3
    <2>3. QED
      BY <1>1, <1>2, <2>1, <2>2, Delays
  <1>4. CASE n \notin DOMAIN taken[k]
    <2>1. Len(taken[k]) < n
      BY <1>2, <1>4, CredentialTimes DEF ClockInv
    <2>2. Len(taken[k]) >= Len(since[k]) - 1
      BY <1>2 DEF ClockInv, TakenInTime, Current
    <2>3. n = Len(since[k])
      BY ONLY <1>2, <2>1, <2>2
    <2>4. Behind(k)
      BY <2>1, <2>3 DEF Behind, Current
    <2>5. now <= since[k][n] + Lag
      BY <2>3, <2>4 DEF ClockInv, TakenInTime, Current
    <2>6. now \in Nat /\ since[k][n] \in Nat
      BY <1>1, <1>2
    <2>7. QED
      BY ONLY <2>5, <2>6, TimeAssumption
  <1>5. QED
    BY <1>3, <1>4

LEMMA Seamless ==
  ASSUME ClockInv, Lag + Skew + Age < Overlap
  PROVE  RotationIsSeamless
  <1> SUFFICES ASSUME NEW m \in InFlight, Holds(m), ~Selects(m)
               PROVE  /\ m.kind # "dispatch"
                      /\ \E g \in DOMAIN since[m.kind] : g > m.gen /\ m.at >= since[m.kind][g]
    BY DEF RotationIsSeamless
  <1>1. PICK k \in Rotating : m.kind = k
    BY DEF Holds, Rotating
  <1>2. PICK C : C = Len(since[k])
    OBVIOUS
  <1>3. /\ m.gen \in DOMAIN taken[k] /\ taken[k][m.gen] <= m.at
        /\ m.at \in Nat /\ now \in Nat
    BY <1>1, SignedThen, Flying DEF ClockInv, AuthTypes
  <1>4. /\ m.gen \in Nat /\ m.gen > 0 /\ m.gen <= C
        /\ since[k][m.gen] \in Nat /\ taken[k][m.gen] \in Nat
        /\ since[k][m.gen] <= taken[k][m.gen] /\ taken[k][m.gen] <= now
    BY <1>2, <1>3, TakenIsKnown
  <1>5. /\ C \in Nat /\ \A i \in Nat : i > 0 /\ i <= C => i \in DOMAIN since[k]
        /\ \A i \in DOMAIN since[k] : since[k][i] \in Nat
    BY <1>2, CredentialTimes DEF ClockInv
  <1>6. C \in DOMAIN since[k] /\ since[k][C] \in Nat
    BY <1>4, <1>5
  <1>7. Current(k) = C /\ Activation(k) = since[k][C]
    BY <1>2 DEF Activation, Current
  <1>8. CASE m.gen = C
    <2>1. since[k][C] <= now /\ since[k][C] <= m.at
      BY <1>3, <1>4, <1>6, <1>8
    <2>2. IsCurrent(m) /\ Activation(m.kind) <= now /\ Activation(m.kind) <= m.at
      BY <1>1, <1>7, <1>8, <2>1 DEF IsCurrent
    <2>3. Selects(m)
      BY <2>2 DEF Selects, DispatchSelects, SignedInItsInterval
    <2>4. QED
      BY <2>3
  <1>9. CASE m.gen = C - 1
    <2>1. C = m.gen + 1 /\ IsPrevious(m)
      BY <1>1, <1>4, <1>5, <1>7, <1>9 DEF IsPrevious
    <2>2. now <= since[k][C] + (Lag + Skew + Age)
      BY <1>1, <1>6, <2>1, NotLate
    <2>3. now < since[k][C] + Overlap
      BY <1>3, <1>6, <2>2
    <2>4. ASSUME k = "dispatch" PROVE FALSE
      <3>1. since[k][C] <= now
        BY <1>6, <2>4 DEF ClockInv, DispatchActive
      <3>2. DispatchSelects(m)
        BY <1>7, <2>1, <2>3, <2>4, <3>1 DEF DispatchSelects
      <3>3. QED
        BY <1>1, <2>4, <3>2 DEF Selects
    <2>5. m.at >= since[k][C]
      <3>1. ~SignedInItsInterval(m)
        BY <1>1, <2>4 DEF Selects
      <3>2. ~(m.at < since[k][C] /\ now <= since[k][C] + Overlap)
        BY <1>1, <1>7, <2>1, <3>1 DEF SignedInItsInterval
      <3>3. QED
        BY <1>3, <1>6, <2>3, <3>2
    <2>6. C > m.gen
      BY <1>4, <2>1
    <2>7. QED
      BY <1>1, <1>6, <2>4, <2>5, <2>6
  <1>10. CASE m.gen < C - 1
    <2>1. PICK n \in Nat : n = m.gen + 1
      BY <1>4
    <2>2. n \in DOMAIN since[k] /\ n + 1 \in DOMAIN since[k] /\ n > 1 /\ since[k][n] \in Nat
      BY <1>4, <1>5, <1>10, <2>1
    <2>3. now > since[k][n] + Overlap
      BY <2>2 DEF ClockInv, OverlapsGone
    <2>4. now <= since[k][n] + (Lag + Skew + Age)
      BY <1>1, <2>1, <2>2, NotLate
    <2>5. QED
      BY <1>3, <2>2, <2>3, <2>4
  <1>11. QED
    BY <1>4, <1>5, <1>8, <1>9, <1>10

\* If the overlap is longer than the lag of the gateway, the difference of the
\* clocks and the age of a request together, no request that can still arrive
\* is refused for its generation alone, save one dated after the activation.
\* (The three receivers' selections of a generation.)
THEOREM NoRequestIsLost ==
  ASSUME Lag + Skew + Age < Overlap
  PROVE  AuthSpec => []RotationIsSeamless
  <1>1. ClockInv => RotationIsSeamless
    BY Seamless
  <1>2. QED
    BY <1>1, AlwaysHolds, PTL

=============================================================================
