----------------------------- MODULE SourceIntake -----------------------------
(***************************************************************************)
(* The way of a document into the staging store: an external call is       *)
(* authenticated and authorized, takes a slot of its rate window and of    *)
(* its idempotency key, reserves an upload session, has its document       *)
(* inspected and finalized, and writes the immutable source of the job     *)
(* derived from it.  Calls run concurrently, each of their durable steps   *)
(* is atomic, may fail before or after it took effect, and a call may die  *)
(* between any two of them; the caller then tries again.  A call reads the *)
(* clock once, for its admission, and keeps that time to its end.          *)
(***************************************************************************)
EXTENDS Naturals, FiniteSets

CONSTANTS
  Delivery,     \* deliveries of requests, retries included
  Caller,       \* external subjects
  Granted,      \* those the authorization policy grants the operation
  IntakeKey,    \* idempotency keys chosen by callers
  Body,         \* request payloads, told apart by their hash
  Doc,          \* documents: [format, media, extension, bytes, pages, width, height]
  MaxRequests,  \* budget of a rate window
  Window,       \* its length
  Ttl,          \* lifetime of an upload session
  Life,         \* lifetimes an identity provider may give
  Limit,        \* [bytes, pages, side, pixels] a document may have
  IntakeTime    \* bound of the clock

VARIABLES
  clock,    \* the clock
  call,     \* call[c]: what a call carries, and how far it is
  rate,     \* rate[p][w]: slots taken of window w by p
  boundTo,  \* boundTo[p][k]: the payload the key is bound to
  session,  \* session[i]: when the upload session i was made
  final,    \* final[i]: the document i was finalized with, and when
  source    \* the sources written: the finalization ids they belong to

intakeVars   == <<clock, call, rate, boundTo, session, final, source>>
intakeStores == <<rate, boundTo, session, final, source>>

FreeKey  == "free"
NotFinal == <<>>
Never    == IntakeTime + 1
IntakeTimes == 0 .. IntakeTime
Windows == {t \div Window : t \in IntakeTimes}

ASSUME FreeKeyAssumption == FreeKey \notin Body
ASSUME IntakeTimesAssumption == Life \subseteq Nat /\ IntakeTime \in Nat

\* A session is named by what the admission bound: caller, key and payload.
SessionId == Caller \X IntakeKey \X Body
SessionOf(c) == <<call[c].who, call[c].key, call[c].body>>

\* A finalization id covers the session and the document; a job's id is
\* derived from it, and a source's name from the job's.
JobOf(c) == [session |-> SessionOf(c), doc |-> call[c].doc]

IntakeInit ==
  /\ clock = 0
  /\ call = [c \in Delivery |-> [pc |-> "new"]]
  /\ rate = [p \in Caller |-> [w \in Windows |-> 0]]
  /\ boundTo = [p \in Caller |-> [k \in IntakeKey |-> FreeKey]]
  /\ session = [i \in SessionId |-> Never]
  /\ final = [i \in SessionId |-> NotFinal]
  /\ source = {}

At(c, p) == call[c].pc = p
Reach(c, p) == call' = [call EXCEPT ![c].pc = p]
AnswerCall(c, a) == call' = [call EXCEPT ![c].pc = "done", ![c].answer = a]
RefusedCall == [pc |-> "done", answer |-> "refused"]
RefuseCall(c) == call' = [call EXCEPT ![c] = RefusedCall]

IntakeTick ==
  /\ clock < IntakeTime
  /\ clock' = clock + 1
  /\ UNCHANGED <<call, intakeStores>>

-----------------------------------------------------------------------------
(* Authentication and authorization, each at the time it is done.           *)

\* What the identity provider says: whom the credential names, and until when.
Identity == [who : Caller, until : {clock + l : l \in Life}]

IdentityHolds(i) == clock < i.until

Principal(i, k, b, d) ==
  [pc |-> "authenticated", who |-> i.who, since |-> clock, until |-> i.until,
   key |-> k, body |-> b, doc |-> d, at |-> clock, answer |-> "none"]

Authenticate(c) ==
  /\ At(c, "new")
  /\ \E i \in Identity, k \in IntakeKey, b \in Body, d \in Doc :
       call' = [call EXCEPT ![c] =
                  IF IdentityHolds(i) THEN Principal(i, k, b, d)
                  ELSE RefusedCall]
  /\ UNCHANGED <<clock, intakeStores>>

\* The time a later gate was given lies in the principal's lifetime.
PrincipalHolds(c, t) == call[c].since <= t /\ t < call[c].until

AuthorizeCall(c) ==
  /\ At(c, "authenticated")
  /\ IF PrincipalHolds(c, clock) /\ call[c].who \in Granted
     THEN Reach(c, "authorized")
     ELSE RefuseCall(c)
  /\ UNCHANGED <<clock, intakeStores>>

-----------------------------------------------------------------------------
(* Admission: one slot of the rate window, then the key, at the same time.  *)

WindowOf(t) == t \div Window

\* The adapter behind the rate limit: it takes a slot, or says that none is left.
TakeSlot(p, w) == rate' = [rate EXCEPT ![p][w] = @ + 1]

\* The slot is gone whatever becomes of the call after this.
ReserveRate(c) ==
  /\ At(c, "authorized")
  /\ LET p == call[c].who
         w == WindowOf(clock)
     IN \/ PrincipalHolds(c, clock) /\ rate[p][w] < MaxRequests
           /\ TakeSlot(p, w)
           /\ call' = [call EXCEPT ![c].pc = "rated", ![c].at = clock]
        \/ rate[p][w] < MaxRequests /\ TakeSlot(p, w) /\ PrincipalHolds(c, clock) /\ RefuseCall(c)
        \/ (PrincipalHolds(c, clock) => rate[p][w] = MaxRequests) /\ UNCHANGED rate /\ RefuseCall(c)
  /\ UNCHANGED <<clock, boundTo, session, final, source>>

AnyBody(c) == TRUE
SameBody(c) == boundTo[call[c].who][call[c].key] \in {FreeKey, call[c].body}

\* A key is bound to the first payload it came with; the same payload is a
\* replay, another one a conflict.
ReserveKey(c) ==
  /\ At(c, "rated")
  /\ IF SameBody(c)
     THEN /\ boundTo' = [boundTo EXCEPT ![call[c].who][call[c].key] = call[c].body]
          /\ Reach(c, "admitted") \/ RefuseCall(c)
     ELSE RefuseCall(c) /\ UNCHANGED boundTo
  /\ UNCHANGED <<clock, rate, session, final, source>>

-----------------------------------------------------------------------------
(* E.4A: the upload session, made once; a replay keeps its first lifetime.  *)

ExpiryOf(t) == t + Ttl

RenewSession(c) == call[c].at
SessionMade(c) == IF session[SessionOf(c)] = Never THEN call[c].at ELSE session[SessionOf(c)]

\* The receipt of a reservation or of a replay: not from the future, not expired.
SessionHolds(t, at) == t <= at /\ at < ExpiryOf(t)

ReserveSession(c) ==
  /\ At(c, "admitted")
  /\ session' = [session EXCEPT ![SessionOf(c)] = SessionMade(c)]
  /\ \/ SessionHolds(SessionMade(c), call[c].at) /\ Reach(c, "session")
     \/ RefuseCall(c)
  /\ UNCHANGED <<clock, rate, boundTo, final, source>>

-----------------------------------------------------------------------------
(* E.4B: Safe Intake decides on the bytes, then the session is finalized.   *)

Media == [pdf |-> "application/pdf", jpeg |-> "image/jpeg", png |-> "image/png"]
Extensions == [pdf |-> {".pdf"}, jpeg |-> {".jpg", ".jpeg"}, png |-> {".png"}]

WithinBytes(d) == d.bytes \in 1 .. Limit.bytes
MediaMatches(d) == d.format \in DOMAIN Media /\ d.media = Media[d.format]
NameMatches(d) == d.extension \in Extensions[d.format]
PdfHolds(d) == d.pages \in 1 .. Limit.pages
ImageHolds(d) ==
  /\ d.width \in 1 .. Limit.side /\ d.height \in 1 .. Limit.side
  /\ d.width * d.height <= Limit.pixels

Accepts(d) ==
  /\ WithinBytes(d) /\ MediaMatches(d) /\ NameMatches(d)
  /\ IF d.format = "pdf" THEN PdfHolds(d) ELSE ImageHolds(d)

\* The inspection of an acceptable document may also time out.
InspectDocument(c) ==
  /\ At(c, "session")
  /\ \/ Accepts(call[c].doc) /\ Reach(c, "inspected")
     \/ RefuseCall(c)
  /\ UNCHANGED <<clock, intakeStores>>

FinalRequest(c) == <<call[c].doc, call[c].at>>
Finalization(c) ==
  IF final[SessionOf(c)] = NotFinal THEN FinalRequest(c)
  ELSE final[SessionOf(c)]

\* A session takes one document; a replay must be of that document, and is
\* answered with the time of the first finalization, which lies in the past.
FinalHolds(c, f) ==
  /\ f[1] = call[c].doc
  /\ f[2] <= call[c].at
  /\ SessionHolds(session[SessionOf(c)], f[2])

FinalizeSession(c) ==
  /\ At(c, "inspected")
  /\ final' = [final EXCEPT ![SessionOf(c)] = Finalization(c)]
  /\ \/ FinalHolds(c, Finalization(c)) /\ Reach(c, "finalized")
     \/ RefuseCall(c)
  /\ UNCHANGED <<clock, rate, boundTo, session, source>>

-----------------------------------------------------------------------------
(* E.4C: the job is derived, the source is created once, never overwritten. *)

Written(c) == IF JobOf(c) \in source THEN "replay" ELSE "written"

WriteSource(c) ==
  /\ At(c, "finalized")
  /\ source' = source \union {JobOf(c)}
  /\ AnswerCall(c, Written(c)) \/ RefuseCall(c)
  /\ UNCHANGED <<clock, rate, boundTo, session, final>>

\* A store fails before anything was changed, or the call dies.
Fail(c) ==
  /\ call[c].pc \notin {"new", "done"}
  /\ RefuseCall(c)
  /\ UNCHANGED <<clock, intakeStores>>

IntakeStep(c) ==
  \/ Authenticate(c) \/ AuthorizeCall(c) \/ ReserveRate(c) \/ ReserveKey(c)
  \/ ReserveSession(c) \/ InspectDocument(c) \/ FinalizeSession(c) \/ WriteSource(c) \/ Fail(c)

IntakeNext == IntakeTick \/ \E c \in Delivery : IntakeStep(c)
IntakeSpec == IntakeInit /\ [][IntakeNext]_intakeVars

-----------------------------------------------------------------------------
Served == {c \in Delivery : At(c, "done") /\ call[c].answer \in {"written", "replay"}}

\* However calls with one key interleave, fail and are repeated, with whatever
\* payloads and documents, at most one source comes of the key, and two calls
\* that were served are told of the same job.  (Slot, session and finalization
\* each hold a part of this: no single record decides it.)
OneSourcePerKey ==
  /\ \A s, t \in source :
       s.session[1] = t.session[1] /\ s.session[2] = t.session[2] => s = t
  /\ \A c \in Served : JobOf(c) \in source

\* The records of a session are written once: no retry, however late, moves
\* the session's or the finalization's time or the document.
RecordsAreFinal ==
  [][\A i \in SessionId :
       /\ session[i] # Never => session'[i] = session[i]
       /\ final[i] # NotFinal => final'[i] = final[i]]_intakeVars

=============================================================================
