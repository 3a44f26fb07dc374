--------------------------- MODULE ReviewNavigation ---------------------------
(***************************************************************************)
(* A reviewer's cursor through a score while edits go on: a plan of cursor *)
(* points is made of the revision that is current, and a transport state   *)
(* moves through it.  Plans and states are values a client keeps, and may  *)
(* use together in any order.                                              *)
(***************************************************************************)
EXTENDS ReviewScore

CONSTANT MaxEdits      \* bound on the revisions made

VARIABLES
  past,     \* the scores of all revisions, the base first
  plans,    \* the plans made so far
  nav       \* the transport state the client has got to, <<>> at first

navVars == <<score, past, plans, nav>>

NavInit == ScoreInit /\ past = <<score>> /\ plans = {} /\ nav = <<>>

-----------------------------------------------------------------------------

Place(p, n, e) == [part |-> p, measure |-> n, onset |-> e.onset, event |-> e.id]

Places(s) ==
  UNION {UNION {{Place(p, n, e) : e \in Range(s[p][n].events)} : n \in DOMAIN s[p]}
         : p \in DOMAIN s}

Before(a, b) ==
  \/ a.measure < b.measure
  \/ a.measure = b.measure /\ a.onset < b.onset

PointOf(x) == [measure |-> x.measure, onset |-> x.onset]

\* Mutant: events at one onset meet in one point whatever their measure.
PointsByOnset(s) ==
  InOrder({[measure |-> x.measure, onset |-> x.onset,
                 refs |-> {y \in Places(s) : y.onset = x.onset}] : x \in Places(s)}, Before)

\* The events of all parts, gathered by measure and onset, in score order.
Points(s) ==
  InOrder({[measure |-> x.measure, onset |-> x.onset,
                 refs |-> {y \in Places(s) : PointOf(y) = PointOf(x)}] : x \in Places(s)}, Before)

\* The timeline is built of the head, for a grant that names the head.
BuildPlan ==
  /\ plans' = plans \union {[revision |-> Len(past), points |-> Points(score)]}
  /\ UNCHANGED <<score, past, nav>>

StateAt(plan, mode, index) ==
  [revision |-> plan.revision, mode |-> mode, index |-> index,
   cursor |-> IF index = 0 THEN <<>> ELSE <<plan.points[index]>>]

First(plan) == IF plan.points = <<>> THEN 0 ELSE 1

Initialize ==
  /\ \E plan \in plans : nav' = <<StateAt(plan, "stopped", First(plan))>>
  /\ UNCHANGED <<score, past, plans>>

\* A state is of one plan, and stands at one of its points.
StateHolds(plan) ==
  /\ nav # <<>>
  /\ nav[1].revision = plan.revision
  /\ \/ nav[1].index \in DOMAIN plan.points /\ nav[1].cursor = <<plan.points[nav[1].index]>>
     \/ nav[1].index = 0 /\ plan.points = <<>>

Becomes(plan, mode, index) == nav' = <<StateAt(plan, mode, index)>>

StartNavigation(plan) ==
  /\ plan.points # <<>> /\ nav[1].mode # "navigating"
  /\ Becomes(plan, "navigating", nav[1].index)

PauseNavigation(plan) ==
  /\ nav[1].mode = "navigating"
  /\ Becomes(plan, "paused", nav[1].index)

StopNavigation(plan) == Becomes(plan, "stopped", First(plan))

SeekCursor(plan) ==
  \E i \in DOMAIN plan.points : Becomes(plan, nav[1].mode, i)

\* Navigation ends at the last point, and stays there.
AdvanceCursor(plan) ==
  /\ nav[1].mode = "navigating" /\ nav[1].index # 0
  /\ IF nav[1].index < Len(plan.points)
     THEN Becomes(plan, "navigating", nav[1].index + 1)
     ELSE Becomes(plan, "stopped", nav[1].index)

Navigate ==
  /\ \E plan \in plans :
       /\ StateHolds(plan)
       /\ \/ StartNavigation(plan) \/ PauseNavigation(plan) \/ StopNavigation(plan)
          \/ SeekCursor(plan) \/ AdvanceCursor(plan)
  /\ UNCHANGED <<score, past, plans>>

Revise ==
  /\ Len(past) <= MaxEdits
  /\ EditScore
  /\ past' = Append(past, score')
  /\ UNCHANGED <<plans, nav>>

NavNext == Revise \/ BuildPlan \/ Initialize \/ Navigate

NavSpec == NavInit /\ [][NavNext]_navVars

-----------------------------------------------------------------------------

\* Whatever plans a client keeps and mixes, its cursor stands at the events
\* that begin together in the revision it navigates, all parts included, with
\* as many steps behind it as the score has earlier beginnings.
\* (review_transport _validate_state_for_plan, against review_timeline.)
CursorIsInItsScore ==
  \A s \in Range(nav) :
    LET places == Places(past[s.revision]) IN
    IF s.index = 0 THEN places = {}
    ELSE \A c \in Range(s.cursor) :
           /\ c.refs # {}
           /\ c.refs = {x \in places : PointOf(x) = PointOf(c)}
           /\ s.index = 1 + Cardinality({PointOf(x) : x \in {x \in places : Before(x, c)}})

=============================================================================
