----------------------------- MODULE ReviewScore -----------------------------
(***************************************************************************)
(* The score a teacher corrects: read from a MusicXML document, edited one *)
(* command at a time, validated after each edit, and written back as a     *)
(* corrected document that must read as the same score.                    *)
(*                                                                         *)
(* A document is a sequence of parts, a part a sequence of measures, a     *)
(* measure a sequence of elements.  Times are counted in units of which a  *)
(* quarter has a given number; staff and voice are one name; pitch, tab,   *)
(* dots and written type are one "look", of which it is told whether it    *)
(* can be written, and as what it is read.                                 *)
(***************************************************************************)
EXTENDS Naturals, Sequences, FiniteSets, SequencesExt

CONSTANTS
  Document,      \* the documents a score may be read from
  Voice,         \* staves and voices
  VoiceRead,     \* what each is read as, blanks around it lost, if it can be read
  Look,          \* what an event looks like
  BareLook,      \* the looks without a pitch
  ExactLook,     \* the looks with no pitch or an alteration that is an exact decimal
  LookRead,      \* what each is read as, if it can be; a negative octave cannot
  Signature,     \* measure lengths a time signature may declare; 0 is none
  Length,        \* lengths an edit may set
  Unit,          \* units of time to a quarter
  MaxDivisions,  \* the most divisions of a quarter a measure may count in
  MaxUnits       \* the longest duration, in divisions, a document may hold

\* What a document is made of.
DocElement ==
  [tag : {"time", "forward", "backup"}, length : Nat]
    \union [tag : {"note"}, length : Nat, chord : BOOLEAN, grace : BOOLEAN,
            kind : {"note", "rest", "unpitched"}, voice : Voice, look : Look]

\* A time is a whole number of the d divisions of a quarter.
Counts(d, time) == (time * d) % Unit = 0

ASSUME ScoreAssumption ==
  /\ Document \subseteq Seq(Seq(Seq(DocElement)))
  /\ Signature \subseteq Nat /\ Length \subseteq Nat

\* Of a time that is set the divisions are no more than a document may have.
ASSUME DivisionsAssumption ==
  /\ Unit \in Nat \ {0} /\ MaxDivisions \in Nat \ {0} /\ MaxUnits \in Nat \ {0}
  /\ \A l \in Length : \E d \in 1 .. MaxDivisions : Counts(d, l)

ASSUME TextAssumption ==
  /\ BareLook \subseteq ExactLook /\ ExactLook \subseteq Look
  /\ \E S \in SUBSET Look  : LookRead \in [S -> Look]
  /\ \E S \in SUBSET Voice : VoiceRead \in [S -> Voice]

VARIABLE score

-----------------------------------------------------------------------------
(* Reading a document. *)

Element(tag, length) == [tag |-> tag, length |-> length]

NoteElement(e, chord) ==
  [tag |-> "note", length |-> e.length, chord |-> chord, grace |-> e.grace,
   kind |-> e.kind, voice |-> e.voice, look |-> e.look]

\* A reader at the start of a measure, under the time signature of the last.
Reading(time) ==
  [at |-> 0, time |-> time, start |-> time, changes |-> {}, moved |-> FALSE,
   events |-> <<>>, last |-> 0, fits |-> TRUE]

Unread(r) == r.at = 0 /\ r.events = <<>> /\ ~r.moved

\* A time signature is noted as a change wherever it stands.
ReadTime(r, x) ==
  [r EXCEPT !.time = x.length,
            !.start = IF Unread(r) THEN x.length ELSE @,
            !.changes = @ \union {r.at}]

EventAt(r, x, onset, group, index) ==
  [id |-> Len(r.events) + 1, kind |-> x.kind, onset |-> onset, length |-> x.length,
   voice |-> VoiceRead[x.voice], look |-> LookRead[x.look],
   grace |-> x.grace, group |-> group, index |-> index]

\* The texts of a note are such as the reader takes.
Legible(x) == x.look \in DOMAIN LookRead /\ x.voice \in DOMAIN VoiceRead

ReadNote(r, x) ==
  [r EXCEPT !.events = Append(@, EventAt(r, x, r.at, 0, 0)),
            !.last = Len(r.events) + 1,
            !.at = @ + x.length]

\* A chord note joins the note before it, which becomes the first of a chord.
ReadChord(r, x) ==
  LET p == r.events[r.last]
      group == IF p.group = 0 THEN p.id ELSE p.group
  IN  [r EXCEPT !.events = Append([@ EXCEPT ![r.last].group = group],
                                  EventAt(r, x, p.onset, group, p.index + 1)),
                !.last = Len(r.events) + 1]

JoinsChord(r, x) ==
  /\ r.last # 0
  /\ r.events[r.last].kind # "rest" /\ r.events[r.last].voice = VoiceRead[x.voice]

Moved(r, at) == [r EXCEPT !.at = at, !.moved = TRUE, !.last = 0]

ReadElement(r, x) ==
  CASE x.tag = "time"               -> ReadTime(r, x)
    [] x.tag = "note" /\ Legible(x) /\ ~x.chord -> ReadNote(r, x)
    [] x.tag = "note" /\ Legible(x) /\ x.chord /\ JoinsChord(r, x) -> ReadChord(r, x)
    [] x.tag = "forward"            -> Moved(r, r.at + x.length)
    [] x.tag = "backup" /\ x.length <= r.at -> Moved(r, r.at - x.length)
    [] OTHER                        -> [r EXCEPT !.fits = FALSE]

ReadMeasure(read, m) ==
  Append(read, FoldLeft(ReadElement, Reading(IF read = <<>> THEN 0 ELSE Last(read).time), m))

ReadPart(measures) == FoldLeft(ReadMeasure, <<>>, measures)

\* A measure whose signature changes on the way has no expected length.
Measure(r) ==
  [start |-> r.start, changes |-> r.changes, events |-> r.events,
   expected |-> IF \E at \in r.changes : at > 0 THEN 0 ELSE r.start]

ReadScore(document) ==
  [p \in DOMAIN document |->
     LET read == ReadPart(document[p]) IN [n \in DOMAIN read |-> Measure(read[n])]]

Readable(document) ==
  \A p \in DOMAIN document : \A n \in DOMAIN document[p] : ReadPart(document[p])[n].fits

ScoreInit == \E d \in Document : Readable(d) /\ score = ReadScore(d)

-----------------------------------------------------------------------------
(* Validating a state. *)

End(e)  == e.onset + e.length

SameChord(e, f) == e.group # 0 /\ e.group = f.group /\ e.onset = f.onset

Earlier(e, f) == \/ e.onset < f.onset
                 \/ e.onset = f.onset /\ e.id < f.id

\* The members of a finite set, each behind as many as come before it.
InOrder(S, less(_, _)) ==
  [i \in 1 .. Cardinality(S) |->
     CHOOSE x \in S : Cardinality({y \in S : less(y, x)}) = i - 1]

\* The events of a voice by onset, and in the order of the document.
VoiceOrder(m, v) == InOrder({e \in Range(m.events) : e.voice = v}, Earlier)

\* Mutant: an event is compared with the one before it only.
ScanPrevious(scan, e) ==
  LET p == scan.longest IN
  [longest |-> <<e>>,
   found |-> scan.found \union
     IF p # <<>> /\ e.onset < End(p[1]) /\ ~SameChord(p[1], e) /\ ~e.grace
     THEN {<<"overlap", e.id>>} ELSE {}]

\* An event is compared with the one that ends last so far.
ScanEvent(scan, e) ==
  LET p == scan.longest IN
  [longest |-> IF p = <<>> \/ End(e) > End(p[1]) THEN <<e>> ELSE p,
   found |-> scan.found \union
     IF p # <<>> /\ e.onset < End(p[1]) /\ ~SameChord(p[1], e) /\ ~e.grace
     THEN {<<"overlap", e.id>>} ELSE {}]

OverlapIssues(m) ==
  UNION {FoldLeft(ScanEvent, [longest |-> <<>>, found |-> {}], VoiceOrder(m, v)).found
         : v \in Voice}

OverflowIssues(m) ==
  {<<"overflow", e.id>> : e \in {e \in Range(m.events) :
                                   m.expected # 0 /\ ~e.grace /\ End(e) > m.expected}}

Anchor(m, group) ==
  CHOOSE e \in Range(m.events) :
    e.group = group /\ \A f \in Range(m.events) : f.group = group => e.id <= f.id

ChordIssues(m) ==
  {<<"chord", e.id>> : e \in {e \in Range(m.events) :
      e.group # 0 /\ LET a == Anchor(m, e.group)
                     IN  a.onset # e.onset \/ a.voice # e.voice}}

-----------------------------------------------------------------------------
(* Writing a corrected document. *)

Writing == [out |-> <<>>, at |-> 0, previous |-> <<>>, fits |-> TRUE]

Follower(e) == e.group # 0 /\ e.index > 0

Follows(w, e) ==
  /\ w.previous # <<>>
  /\ LET p == w.previous[1] IN
       p.group = e.group /\ p.onset = e.onset /\ p.voice = e.voice /\ e.index = p.index + 1

Movement(from, to) ==
  IF to > from THEN <<Element("forward", to - from)>>
  ELSE IF to < from THEN <<Element("backup", from - to)>> ELSE <<>>

Writable(w, e) ==
  /\ e.kind # "unpitched" /\ e.look \in ExactLook
  /\ e.grace => e.length = 0
  /\ e.group # 0 => e.kind = "note"
  /\ IF Follower(e) THEN Follows(w, e) ELSE e.index = 0

\* Mutant: the cursor is left behind the longest event, not the last.
WriteLongest(w, e) ==
  [out      |-> IF Follower(e) THEN Append(w.out, NoteElement(e, TRUE))
                ELSE w.out \o Movement(w.at, e.onset) \o <<NoteElement(e, FALSE)>>,
   at       |-> IF w.at < End(e) THEN End(e) ELSE w.at,
   previous |-> <<e>>,
   fits     |-> w.fits /\ Writable(w, e)]

WriteEvent(w, e) ==
  [out      |-> IF Follower(e) THEN Append(w.out, NoteElement(e, TRUE))
                ELSE w.out \o Movement(w.at, e.onset) \o <<NoteElement(e, FALSE)>>,
   at       |-> IF Follower(e) THEN w.at ELSE End(e),
   previous |-> <<e>>,
   fits     |-> w.fits /\ Writable(w, e)]

WriteMeasure(m) == FoldLeft(WriteEvent, Writing, m.events)

\* Divisions there are in which all times of a measure count, the movements
\* written of it as well, and none of them is too long.
Countable(m) ==
  \E d \in 1 .. MaxDivisions :
    /\ \A e \in Range(m.events) : Counts(d, e.onset) /\ Counts(d, e.length)
    /\ \A x \in Range(WriteMeasure(m).out) : x.length * d <= MaxUnits * Unit

Emittable(m) == m.changes = {} /\ WriteMeasure(m).fits /\ Countable(m)

WriteScore(s) ==
  [p \in DOMAIN s |->
     [n \in DOMAIN s[p] |->
        (IF s[p][n].start = 0 THEN <<>> ELSE <<Element("time", s[p][n].start)>>)
          \o WriteMeasure(s[p][n]).out]]

\* What a document says: chords are told by their order, events by their place.
ChordOrdinal(m, e) ==
  IF e.group = 0 THEN 0
  ELSE Cardinality({f.group : f \in {f \in Range(m.events) :
                                       f.group # 0 /\ f.id <= Anchor(m, e.group).id}})

Semantic(s) ==
  [p \in DOMAIN s |->
     [n \in DOMAIN s[p] |->
        [start |-> s[p][n].start,
         events |-> [i \in DOMAIN s[p][n].events |->
            LET e == s[p][n].events[i]
            IN  [e EXCEPT !.id = 0, !.group = ChordOrdinal(s[p][n], e)]]]]]

\* An artifact is made only of a document that was written, and reads the same.
MakesArtifact(s) ==
  /\ \A p \in DOMAIN s : \A n \in DOMAIN s[p] : Emittable(s[p][n])
  /\ Readable(WriteScore(s))
  /\ Semantic(ReadScore(WriteScore(s))) = Semantic(s)

-----------------------------------------------------------------------------
(* Editing. *)

Put(p, n, i, e) == score' = [score EXCEPT ![p][n].events[i] = e]

\* A note keeps a pitch, whichever is set; of others dots and type are set.
SetLook(p, n, i) ==
  \E look \in Look :
    /\ score[p][n].events[i].kind = "note" <=> look \notin BareLook
    /\ Put(p, n, i, [score[p][n].events[i] EXCEPT !.look = look])

\* A grace note may have no length; it may be given one.
SetLength(p, n, i) ==
  \E length \in Length :
    /\ length = 0 => score[p][n].events[i].grace
    /\ Put(p, n, i, [score[p][n].events[i] EXCEPT !.length = length])

SetVoice(p, n, i) ==
  \E v \in Voice : Put(p, n, i, [score[p][n].events[i] EXCEPT !.voice = v])

RemoveEvent(p, n, i) ==
  score' = [score EXCEPT ![p][n].events = RemoveAt(@, i)]

TimeEditable(m) == m.changes = {}

\* The measure alone takes the new signature; the ones after it keep theirs.
SetTimeSignature(p, n, i) ==
  \E t \in Signature \ {0} :
    /\ TimeEditable(score[p][n])
    /\ score' = [score EXCEPT ![p][n].start = t, ![p][n].expected = t]

\* A command names an event of the state it is applied to; issues do not stop it.
EditScore ==
  \E p \in DOMAIN score : \E n \in DOMAIN score[p] : \E i \in DOMAIN score[p][n].events :
    \/ SetLook(p, n, i) \/ SetLength(p, n, i) \/ SetVoice(p, n, i)
    \/ RemoveEvent(p, n, i) \/ SetTimeSignature(p, n, i)

ScoreSpec == ScoreInit /\ [][EditScore]_score

-----------------------------------------------------------------------------

AllMeasures == UNION {Range(score[p]) : p \in DOMAIN score}

\* Two events of a voice sound together and are no chord; a grace note may
\* stand within another event.
Overlaps(m) ==
  \E e, f \in Range(m.events) :
    /\ e.voice = f.voice /\ ~SameChord(e, f) /\ ~f.grace
    /\ Earlier(e, f) /\ f.onset < End(e)

\* A grace note that was given a length, in a chord with one that is none.
GraceInChord(m) ==
  \E e, f \in Range(m.events) : SameChord(e, f) /\ e.grace /\ ~f.grace /\ e.length > 0

\* The scan of the validator, which remembers one event only, finds a measure
\* at fault exactly if some two events of a voice overlap, unless a chord in it
\* is in part grace notes with a length.
\* (musical_state validate_musical_state, VOICE_OVERLAP.)
OverlapIsSaid ==
  \A m \in AllMeasures : ~GraceInChord(m) => (OverlapIssues(m) # {} <=> Overlaps(m))

\* An overlap in a staff and voice is an issue, whatever the events are.
\* (docs/stage8c-deterministic-revision-materialization.md, Validation.)
OverlapBlocks == \A m \in AllMeasures : Overlaps(m) => OverlapIssues(m) # {}

\* The members of a chord stand together, in order, and are two or more.
ChordWhole(m, group) ==
  LET members == {i \in DOMAIN m.events : m.events[i].group = group}
      first == CHOOSE i \in members : \A j \in members : i <= j
  IN  /\ Cardinality(members) > 1
      /\ \A i \in members :
           /\ m.events[i].index = i - first
           /\ m.events[i].onset = m.events[first].onset
           /\ m.events[i].voice = m.events[first].voice
           /\ m.events[i].kind = "note"

\* The texts of an event come back as they were written.
SameText(e) == Legible(e) /\ LookRead[e.look] = e.look /\ VoiceRead[e.voice] = e.voice

\* What a corrected document can say.
Expressible(s) ==
  \A p \in DOMAIN s : \A n \in DOMAIN s[p] :
    LET m == s[p][n] IN
    /\ m.changes = {}
    /\ m.start = 0 => n = 1 \/ s[p][n - 1].start = 0
    /\ Countable(m)
    /\ \A e \in Range(m.events) :
         /\ e.kind # "unpitched" /\ e.look \in ExactLook /\ SameText(e)
         /\ e.grace => e.length = 0
         /\ e.group # 0 => ChordWhole(m, e.group)

\* After any edits, an artifact is made exactly if a document can say the
\* score: whatever the order of the events, the cursor movements written lead
\* the reader to the onset of each, chords come back as they were, and nothing
\* is refused but a pitch, a text or a time that no document holds.
\* (corrected_musicxml _emit_measure against musicxml _parse_measure.)
ExportIsExact == MakesArtifact(score) <=> Expressible(score)

\* A measure's time signature can be edited unless it changes mid-measure.
MidMeasureOnly ==
  \A m \in AllMeasures : (\A at \in m.changes : at = 0) => TimeEditable(m)

=============================================================================
