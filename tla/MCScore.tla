------------------------------ MODULE MCScore ------------------------------
(***************************************************************************)
(* Small instances, for TLC, of the score a teacher corrects and of a      *)
(* reviewer's cursor through it.  A behaviour either edits and exports the *)
(* score of a document, or navigates the revisions of a smaller one, so    *)
(* that the states of the two add up instead of multiplying.               *)
(***************************************************************************)
EXTENDS ReviewNavigation, TLC

VARIABLE active    \* what is done with the score

-----------------------------------------------------------------------------
(* The elements of a document. *)

Sounding(tag, length, kind, voice, chord, grace) ==
  [tag |-> tag, length |-> length, kind |-> kind, voice |-> voice, chord |-> chord,
   grace |-> grace, look |-> IF kind = "note" THEN "plain" ELSE "bare"]
Note(length)       == Sounding("note", length, "note", "v1", FALSE, FALSE)
Chord(length)      == Sounding("note", length, "note", "v1", TRUE, FALSE)
Grace              == Sounding("note", 0, "note", "v1", FALSE, TRUE)
Rest(length)       == Sounding("note", length, "rest", "v1", FALSE, FALSE)
Drum(length)       == Sounding("note", length, "unpitched", "v1", FALSE, FALSE)
Second(length)     == Sounding("note", length, "note", "v2", FALSE, FALSE)
Time(length)       == [tag |-> "time", length |-> length]
Back(length)       == [tag |-> "backup", length |-> length]
Forward(length)    == [tag |-> "forward", length |-> length]

\* A quarter has six units; a third and a half of it have no divisions in common
\* that are few enough.
Chords   == << << <<Note(2), Chord(4), Note(2)>> >> >>
Voices   == << << <<Note(2), Forward(2), Note(2), Back(4), Back(2), Second(2)>> >> >>
Graces   == << << <<Note(2), Grace>>, <<Rest(4)>> >> >>
Midway   == << << <<Note(2), Time(4), Note(2)>>, <<Rest(4)>> >> >>
AtStart  == << << <<Time(4), Note(2), Note(2)>>, <<Rest(4)>> >> >>
Mixed    == << << <<Note(4), Back(4), Grace, Chord(2)>> >> >>
Triad    == << << <<Note(2), Chord(2), Chord(2)>> >> >>
Parts    == << << <<Note(2)>> >>, << <<Drum(4)>> >> >>

Single   == << << <<Note(2)>> >> >>
Measures == << << <<Note(2)>>, <<Note(2)>> >>, << <<Note(2), Note(2)>>, <<Forward(2)>> >> >>

ScoreDocs == {Chords, Voices, Graces, Midway, AtStart, Mixed, Triad, Parts}
NavDocs   == {Single, Measures}
AllDocs == ScoreDocs \union NavDocs

\* An alteration of a third, a negative octave, a written type with a blank
\* behind it; a rest with and without a dot; a voice with a blank.
Looks      == {"plain", "third", "low", "blank", "bare", "dotted"}
BareLooks  == {"bare", "dotted"}
ExactLooks == Looks \ {"third"}
LooksRead  == [l \in Looks \ {"low"} |-> IF l = "blank" THEN "plain" ELSE l]
AllVoices  == {"v1", "v2", "v1 "}
VoicesRead == [v \in AllVoices |-> IF v = "v1 " THEN "v1" ELSE v]

\* The texts of a score that are unusual, by their place.
Unusual(s) ==
  UNION {UNION {{<<p, n, i, "look">> : i \in {i \in DOMAIN s[p][n].events :
                                s[p][n].events[i].look \notin {"plain", "bare"}}}
                \union
                {<<p, n, i, "voice">> : i \in {i \in DOMAIN s[p][n].events :
                                s[p][n].events[i].voice = "v1 "}}
                : n \in DOMAIN s[p]} : p \in DOMAIN s}

\* A cursor stands by measures and onsets, which the lengths of events do not
\* move: they stay what they are while a score is navigated.
Even(s) ==
  \A p \in DOMAIN s : \A n \in DOMAIN s[p] : \A e \in Range(s[p][n].events) : e.length = 2

\* Bound on the unusual texts of a score.
MaxUnusual == 1

-----------------------------------------------------------------------------

ReviewInit ==
  \/ /\ active = "score" /\ ScoreInit
     /\ \E d \in ScoreDocs : score = ReadScore(d)
     /\ past = <<>> /\ plans = {} /\ nav = <<>>
  \/ /\ active = "navigation" /\ NavInit
     /\ \E d \in NavDocs : score = ReadScore(d)

ReviewNext ==
  \/ /\ active = "score" /\ EditScore
     /\ Cardinality(Unusual(score')) <= MaxUnusual
     /\ UNCHANGED <<active, past, plans, nav>>
  \/ /\ active = "navigation" /\ NavNext
     /\ Unusual(score') = {} /\ Even(score')
     /\ UNCHANGED active

ReviewSpec == ReviewInit /\ [][ReviewNext]_<<active, navVars>>

=============================================================================
