---------------------------- MODULE DispatchProof ----------------------------
(***************************************************************************)
(* Who may prove a dispatch, and for how long: requests signed by the      *)
(* gateway under a rotating credential, preflighted by a receiver under    *)
(* the job's lock, their nonces reserved so that a copy is never accepted  *)
(* again, and the one answer a dispatch may have: its result, a            *)
(* cancellation or a timeout.  Messages are delayed, copied and reordered  *)
(* (a request once signed may be received at any later time, any number    *)
(* of times, by any engine, with any of its parts changed on the way).  A  *)
(* receiver reads the clock once and may be slow or die.                   *)
(***************************************************************************)
EXTENDS Naturals, FiniteSets

CONSTANTS
  Nonce,       \* each names one signed request
  Engine,      \* the engines, each with a receiver
  MaxGen,      \* generations of the credential
  ClockSkew,   \* how far ahead a timestamp may be
  MaxAge,      \* how old it may be
  ReplayTtl,   \* how long a reservation must be kept
  OverlapTime, \* how long the previous generation is still verified
  SignerLag,   \* how long after the receiver the signer is given a generation
  Delay,       \* how long a preflight may take
  Timeout,     \* lifetime of a dispatch
  ProofTime    \* bound of the clock

ASSUME DurationAssumption ==
  {ClockSkew, MaxAge, ReplayTtl, OverlapTime, SignerLag, Delay, Timeout, ProofTime} \subseteq Nat

VARIABLES
  time,        \* the clock
  signer,      \* the signer's generation
  verifier,    \* the receiver's generation and when it was activated
  job,         \* "queued" until a terminal transition is published
  sent,        \* sent[n]: the request signed with nonce n, or NotSent
  check,       \* the preflight that holds the job's lock, or NoCheck
  kept,        \* the reservations
  passed,      \* passed[n]: how often the request was accepted
  started,     \* started[n]: when its dispatch started
  asked,       \* asked[n]: when its cancellation was asked for
  decision,    \* decision[n]: the last decision about its deadline
  proved,      \* the nonces whose engine has proved a result
  returned     \* returned[n]: when its result was taken

requestVars  == <<sent, check, kept, passed>>
dispatchVars == <<started, asked, decision, proved, returned>>
proofVars    == <<time, signer, verifier, job, requestVars, dispatchVars>>

Moments  == 0 .. ProofTime
NoMoment == ProofTime + 1
NotSent == [engine |-> "none", gen |-> 0, at |-> NoMoment]
NoCheck == [nonce |-> "none", at |-> NoMoment, step |-> "none"]
Active(t) == [status |-> "active", seen |-> t, ended |-> NoMoment]

ProofInit ==
  /\ time = 0
  /\ signer = 1 /\ verifier = [gen |-> 1, since |-> 0]
  /\ job = "queued"
  /\ sent = [n \in Nonce |-> NotSent]
  /\ check = NoCheck
  /\ kept = {}
  /\ passed = [n \in Nonce |-> 0]
  /\ started = [n \in Nonce |-> NoMoment]
  /\ asked = [n \in Nonce |-> NoMoment]
  /\ decision = [n \in Nonce |-> Active(0)]
  /\ proved = {}
  /\ returned = [n \in Nonce |-> NoMoment]

ProofTick ==
  /\ time < ProofTime
  /\ check # NoCheck => time < check.at + Delay
  /\ signer < verifier.gen => time < verifier.since + SignerLag
  /\ time' = time + 1
  /\ UNCHANGED <<signer, verifier, job, requestVars, dispatchVars>>

-----------------------------------------------------------------------------
(* Rotation: the receiver is given a generation first, the signer after it. *)

\* At most one previous generation is verified, until its overlap ends.
RotateVerifier ==
  /\ verifier.gen < MaxGen /\ signer = verifier.gen
  /\ verifier.gen > 1 => time >= verifier.since + OverlapTime
  /\ verifier' = [gen |-> verifier.gen + 1, since |-> time]
  /\ UNCHANGED <<time, signer, job, requestVars, dispatchVars>>

RotateSigner ==
  /\ signer < verifier.gen
  /\ signer' = signer + 1
  /\ UNCHANGED <<time, verifier, job, requestVars, dispatchVars>>

OverlapHolds(t) == t < verifier.since + OverlapTime

\* Exactly the labelled generation is selected, never one after another.
Selectable(g, t) ==
  \/ g = verifier.gen
  \/ g = verifier.gen - 1 /\ g > 0 /\ OverlapHolds(t)

FreshAt(ts, t) == ts <= t + ClockSkew /\ t <= ts + MaxAge

-----------------------------------------------------------------------------
(* The job's lock is held by a preflight from its check to its answer.      *)

Unlocked == check = NoCheck

\* What is signed: the run of one engine, the generation, the time.
Signed(e, ts) == [engine |-> e, gen |-> signer, at |-> ts]

\* What the wire may make of it: one part is another, still well formed.
Arriving(n) ==
  {sent[n]} \union [engine : Engine, gen : {sent[n].gen}, at : {sent[n].at}]
            \union [engine : {sent[n].engine}, gen : 1 .. MaxGen, at : {sent[n].at}]
            \union [engine : {sent[n].engine}, gen : {sent[n].gen}, at : Moments]

AddressedTo(e, m) == m.engine = e
AuthenticRequest(n, m) == m = sent[n]

Verified(n, e, m) ==
  AddressedTo(e, m) /\ Selectable(m.gen, time) /\ AuthenticRequest(n, m) /\ FreshAt(m.at, time)

\* A terminal transition, published under the same lock.
Supersede ==
  /\ Unlocked /\ job = "queued"
  /\ job' = "terminal"
  /\ UNCHANGED <<time, signer, verifier, requestVars, dispatchVars>>

\* The signing preflight; the timestamp is the caller's, the generation current.
Sign(n) ==
  /\ Unlocked /\ job = "queued" /\ sent[n] = NotSent
  /\ \E e \in Engine, ts \in Moments :
       /\ FreshAt(ts, time)
       /\ sent' = [sent EXCEPT ![n] = Signed(e, ts)]
  /\ UNCHANGED <<time, signer, verifier, job, check, kept, passed, dispatchVars>>

\* The receiver preflight of engine e: state, target, generation, signature,
\* freshness; a request that fails one of them leaves no trace.
Receive(n, e) ==
  /\ sent[n] # NotSent
  /\ Unlocked /\ job = "queued"
  /\ \E m \in Arriving(n) :
       /\ Verified(n, e, m)
       /\ check' = [nonce |-> n, at |-> time, step |-> "reserve", key |-> <<e, m.gen, n>>]
  /\ UNCHANGED <<time, signer, verifier, job, sent, kept, passed, dispatchVars>>

ExpiresWithRequest(n) == sent[n].at + MaxAge
ExpiresAt(n) == sent[n].at + ReplayTtl

\* Only an authentic and fresh request takes a reservation, and it takes it once.
ReserveNonce ==
  /\ check.step = "reserve"
  /\ IF check.key \in kept
     THEN check' = NoCheck /\ UNCHANGED kept
     ELSE /\ kept' = kept \union {check.key}
          /\ check' = [check EXCEPT !.step = "accept"]
  /\ UNCHANGED <<time, signer, verifier, job, sent, passed, dispatchVars>>

\* A store may forget a reservation from its expiry on.
Forget(k) ==
  /\ time >= ExpiresAt(k[3])
  /\ kept' = kept \ {k}
  /\ UNCHANGED <<time, signer, verifier, job, sent, check, passed, dispatchVars>>

Accept ==
  /\ check.step = "accept"
  /\ passed' = [passed EXCEPT ![check.nonce] = @ + 1]
  /\ check' = NoCheck
  /\ UNCHANGED <<time, signer, verifier, job, sent, kept, dispatchVars>>

\* The receiver dies, or a store fails: a reservation it took stays.
Die ==
  /\ ~Unlocked
  /\ check' = NoCheck
  /\ UNCHANGED <<time, signer, verifier, job, sent, kept, passed, dispatchVars>>

-----------------------------------------------------------------------------
(* The dispatch of an accepted request, on the same clock.                  *)

DeadlineOf(n) == started[n] + Timeout

StartDispatch(n) ==
  /\ passed[n] > 0 /\ started[n] = NoMoment
  /\ started' = [started EXCEPT ![n] = time]
  /\ decision' = [decision EXCEPT ![n] = Active(time)]
  /\ UNCHANGED <<time, signer, verifier, job, requestVars, asked, proved, returned>>

AskCancel(n) ==
  /\ started[n] # NoMoment /\ asked[n] = NoMoment
  /\ asked' = [asked EXCEPT ![n] = time]
  /\ UNCHANGED <<time, signer, verifier, job, requestVars, started, decision, proved, returned>>

Over(d) == d.status # "active"
Ended(s, t) == [status |-> s, seen |-> time, ended |-> t]

AnyCancellation(n, c) == TRUE

\* A cancellation older than the last observation contradicts it: an error.
NoRegression(n, c) == c = NoMoment \/ Over(decision[n]) \/ c >= decision[n].seen

\* A decision that ended the dispatch stays; then a cancellation before the
\* deadline, then the deadline.  c is the cancellation the evaluator knows of.
Evaluated(n, c) ==
  IF Over(decision[n]) THEN [decision[n] EXCEPT !.seen = time]
  ELSE IF c # NoMoment /\ c < DeadlineOf(n) THEN Ended("cancelled", c)
  ELSE IF time >= DeadlineOf(n) THEN Ended("timed_out", DeadlineOf(n))
  ELSE Active(time)

Known(n) == {asked[n], NoMoment}

Evaluate(n) ==
  /\ started[n] # NoMoment
  /\ \E c \in Known(n) :
       /\ NoRegression(n, c)
       /\ decision' = [decision EXCEPT ![n] = Evaluated(n, c)]
  /\ UNCHANGED <<time, signer, verifier, job, requestVars, started, asked, proved, returned>>

\* The engine proves its result with the generation of the request, whatever
\* the rotation is by now: no generation is selected a second time.
ProveResult(n) ==
  /\ passed[n] > 0 /\ n \notin proved
  /\ proved' = proved \union {n}
  /\ UNCHANGED <<time, signer, verifier, job, requestVars, started, asked, decision, returned>>

\* A result is taken if the dispatch is still active when it arrives.
TakeResult(n) ==
  /\ started[n] # NoMoment /\ n \in proved /\ returned[n] = NoMoment
  /\ \E c \in Known(n) :
       /\ NoRegression(n, c)
       /\ ~Over(Evaluated(n, c))
       /\ decision' = [decision EXCEPT ![n] = Evaluated(n, c)]
       /\ returned' = [returned EXCEPT ![n] = time]
  /\ UNCHANGED <<time, signer, verifier, job, requestVars, started, asked, proved>>

ProofStep(n) ==
  \/ Sign(n) \/ StartDispatch(n) \/ AskCancel(n) \/ Evaluate(n)
  \/ ProveResult(n) \/ TakeResult(n)
  \/ \E e \in Engine : Receive(n, e)

ProofNext ==
  \/ ProofTick \/ RotateVerifier \/ RotateSigner \/ Supersede
  \/ ReserveNonce \/ Accept \/ Die
  \/ \E k \in kept : Forget(k)
  \/ \E n \in Nonce : ProofStep(n)

ProofSpec == ProofInit /\ [][ProofNext]_proofVars

-----------------------------------------------------------------------------
\* Every request is accepted at most once, although copies, relabelled and
\* redirected ones included, arrive for ever,
\* reservations are forgotten when they expire and a slow receiver compares
\* with a clock it read before: a reservation outlives every copy that a
\* receiver may still be about to accept.
AcceptedOnce == \A n \in Nonce : passed[n] <= 1

\* A dispatch has one end.  A result is never taken after it, however late the
\* end is noticed, and no end is later than the deadline.
OneEnd ==
  /\ \A n \in Nonce : returned[n] # NoMoment => returned[n] <= decision[n].ended
  /\ \A n \in Nonce : Over(decision[n]) => decision[n].ended <= DeadlineOf(n)

=============================================================================
