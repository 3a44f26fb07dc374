-------------------------- MODULE EnsembleComparison --------------------------
(***************************************************************************)
(* The candidates of up to three engines for one job are taken over from   *)
(* the gateway, admitted one by one, and compared place by place without   *)
(* choosing between them.                                                  *)
(*                                                                         *)
(* A score is a sequence of parts, a part a sequence of measures, a        *)
(* measure a number, a length and a sequence of events.  A document is a   *)
(* score, or cannot be read as one.                                        *)
(***************************************************************************)
EXTENDS Naturals, Sequences, FiniteSets

CONSTANTS
  Job,
  Document,        \* [intact, large, readable, score]
  MaxCandidates,   \* bound of the code on the candidates of a comparison
  MaxDifferences   \* bound of the code on its differences

Rank == [audiveris |-> 0, homr |-> 1, clarity |-> 2]

Engine == DOMAIN Rank

\* A score by part, measure and event; an event has the fields that are compared,
\* times in a common unit, measures and voices by a number for their name.
ScoreEvent ==
  [onset : Nat, kind : STRING, duration : Nat, pitch : STRING, chord : Nat, voice : Nat]

ScoreMeasure == [number : Nat, length : Nat, events : Seq(ScoreEvent)]

Score == Seq(Seq(ScoreMeasure))

\* What can be read is a score.
ASSUME DocumentAssumption == \A d \in Document : d.readable => d.score \in Score

Handoff == [job : Job, engine : Engine, document : Document]

VARIABLES
  given,       \* the handoffs put together for a comparison
  converged    \* what came of the last one

comparisonVars == <<given, converged>>

NotConverged == [status |-> "none"]

ComparisonInit == given = <<>> /\ converged = NotConverged

-----------------------------------------------------------------------------
(* Comparing. *)

MeasureField == {"number", "length"}
EventField   == {"onset", "kind", "duration", "pitch", "chord", "voice"}

Category ==
  [onset |-> "event_time", kind |-> "rest", duration |-> "duration", pitch |-> "pitch",
   chord |-> "chord", voice |-> "voice", number |-> "measure", length |-> "measure",
   presence |-> "measure"]

Structural == {"measure", "event_time", "voice"}
Musical    == {"rest", "duration", "pitch", "chord"}

\* A difference is made only where the observations disagree.
Differing(place, field, seen) ==
  IF \E c, d \in DOMAIN seen : seen[c] # seen[d]
  THEN {[place |-> place, field |-> field, seen |-> seen]} ELSE {}

\* Of a place that not all candidates have, only that is said.
Presence(place, items, i) ==
  Differing(place, "presence", [c \in DOMAIN items |-> i \in DOMAIN items[c]])

AllHave(items, i) == \A c \in DOMAIN items : i \in DOMAIN items[c]

\* Mutant: as many places are compared as all candidates have.
CommonOrdinals(items) == {i \in UNION {DOMAIN items[c] : c \in DOMAIN items} : AllHave(items, i)}

Ordinals(items) == UNION {DOMAIN items[c] : c \in DOMAIN items}

EventDifferences(place, events) ==
  UNION {LET at == Append(place, i) IN
         IF ~AllHave(events, i) THEN Presence(at, events, i)
         ELSE UNION {Differing(at, field, [c \in DOMAIN events |-> events[c][i][field]])
                     : field \in EventField}
         : i \in Ordinals(events)}

MeasureDifferences(place, measures) ==
  UNION {LET at == Append(place, n) IN
         IF ~AllHave(measures, n) THEN Presence(at, measures, n)
         ELSE EventDifferences(at, [c \in DOMAIN measures |-> measures[c][n].events])
              \union UNION {Differing(at, field, [c \in DOMAIN measures |-> measures[c][n][field]])
                            : field \in MeasureField}
         : n \in Ordinals(measures)}

Compare(scores) ==
  UNION {IF ~AllHave(scores, p) THEN Presence(<<p>>, scores, p)
         ELSE MeasureDifferences(<<p>>, [c \in DOMAIN scores |-> scores[c][p]])
         : p \in Ordinals(scores)}

Counted(differences, categories) ==
  Cardinality({d \in differences : Category[d.field] \in categories})

-----------------------------------------------------------------------------
(* Converging. *)

\* They are put in the order of the engines, whatever order they come in.
Give ==
  /\ Len(given) <= MaxCandidates
  /\ \E h \in Handoff :
       /\ \A i \in DOMAIN given : Rank[given[i].engine] <= Rank[h.engine]
       /\ given' = Append(given, h)
  /\ converged' = NotConverged

Refusal(why) == [status |-> "refused", why |-> why]

ParseHolds(h) == h.document.intact /\ ~h.document.large

EngineTwice == \E i, j \in DOMAIN given : i # j /\ given[i].engine = given[j].engine

SourcesDiffer == \E i, j \in DOMAIN given : given[i].job # given[j].job

\* The scores of the candidates that could be read, by their engine.
Admitted ==
  LET accepted == {i \in DOMAIN given : given[i].document.readable}
  IN  [e \in {given[i].engine : i \in accepted} |->
         (CHOOSE h \in {given[i] : i \in accepted} : h.engine = e).document.score]

\* A comparison that is too large is not answered but raised through.
Evidence(scores, differences) ==
  IF Cardinality(differences) > MaxDifferences THEN [status |-> "raised"]
  ELSE [status      |-> "compared",
        scores      |-> scores,
        differences |-> differences,
        agreement   |-> IF differences = {} THEN "full" ELSE "disagreement",
        structural  |-> Counted(differences, Structural),
        musical     |-> Counted(differences, Musical)]

Outcome ==
  IF \E i \in DOMAIN given : ~ParseHolds(given[i]) THEN Refusal("integrity")
  ELSE IF Len(given) < 2 \/ Len(given) > MaxCandidates THEN Refusal("count")
  ELSE IF EngineTwice THEN Refusal("duplicate engine")
  ELSE IF SourcesDiffer THEN Refusal("source binding")
  ELSE IF Cardinality(DOMAIN Admitted) < 2 THEN [status |-> "insufficient"]
  ELSE Evidence(Admitted, Compare(Admitted))

Converge == given # <<>> /\ converged' = Outcome /\ given' = <<>>

ComparisonNext == Give \/ Converge

ComparisonSpec == ComparisonInit /\ [][ComparisonNext]_comparisonVars

-----------------------------------------------------------------------------

Places(score) ==
  {<<p>> : p \in DOMAIN score}
    \union (UNION {{<<p, n>> : n \in DOMAIN score[p]} : p \in DOMAIN score})
    \union (UNION {UNION {{<<p, n, i>> : i \in DOMAIN score[p][n].events} : n \in DOMAIN score[p]}
                   : p \in DOMAIN score})

\* What a score says at a place.
Said(score, x) ==
  IF x \notin Places(score) THEN {"nothing"}
  ELSE CASE Len(x) = 1 -> {"part"}
         [] Len(x) = 2 -> {<<f, score[x[1]][x[2]][f]>> : f \in MeasureField}
         [] Len(x) = 3 -> {<<f, score[x[1]][x[2]].events[x[3]][f]>> : f \in EventField}

Encloses(x, y) == Len(x) <= Len(y) /\ SubSeq(y, 1, Len(x)) = x

\* Wherever two candidates say different things, a difference is shown there
\* or, where not all have the place, at the one around it; a difference is
\* shown only where two disagree; and the candidates are said to agree fully
\* exactly if each says the same as each other, in structure and in music.
\* (comparator compare_candidates, convergence _evidence.)
DisagreementIsShown ==
  converged.status = "compared" =>
    LET s == converged.scores
        places == UNION {Places(s[c]) : c \in DOMAIN s}
    IN  /\ \A x \in places : (\E c, d \in DOMAIN s : Said(s[c], x) # Said(s[d], x)) =>
             \E diff \in converged.differences :
               /\ Encloses(diff.place, x)
               /\ diff.place # x => diff.field = "presence"
        /\ \A diff \in converged.differences :
             \E c, d \in DOMAIN s : Said(s[c], diff.place) # Said(s[d], diff.place)
        /\ converged.agreement = "full" <=> \A c, d \in DOMAIN s : s[c] = s[d]
        /\ converged.agreement = "full" <=> converged.structural = 0 /\ converged.musical = 0

=============================================================================
