---------------------------- MODULE ExportProofs ----------------------------
(***************************************************************************)
(* An artifact is made of a score exactly if a document can say the        *)
(* score: for any document it was read from, and any edits.                *)
(*                                                                         *)
(* The argument: the reader is followed through what the writer has        *)
(* written, event by event. Where the events can be written, it has        *)
(* always caught up with the writer: it stands where the writer stood,     *)
(* and has read back the same events, but for their identities and the     *)
(* numbers of their chords. A chord comes back as soon as its second       *)
(* member does, so an event of a chord that stands alone comes back        *)
(* without it, and no other is lost.                                       *)
(*                                                                         *)
(* Chords are then told by their order. Two measures whose events are      *)
(* parted into chords alike have as many chords before each event,         *)
(* whatever the chords are numbered; and the chords that can be written    *)
(* and come back are those that stand together, in order, and are two or   *)
(* more.                                                                   *)
(*                                                                         *)
(* An event whose texts cannot be read is written all the same, and the    *)
(* reader refuses it; where all can be read, the texts come back exactly   *)
(* where reading keeps them. The times are counted before anything is      *)
(* written, so what a document can count enters the claim as it stands.    *)
(***************************************************************************)
EXTENDS ScoreProofs

-----------------------------------------------------------------------------
(* The steps of the writer.                                                *)

\* The states of the writer.
Writer ==
  [out : Seq(DocElement), at : Nat, previous : {<<>>} \union {<<e>> : e \in ScoreEvent},
   fits : BOOLEAN]

\* What is written of a note, and before it, are elements of a document.
LEMMA WrittenElements ==
  ASSUME NEW e \in ScoreEvent
  PROVE  /\ \A chord \in BOOLEAN : NoteElement(e, chord) \in DocElement
         /\ \A from, to \in Nat : Movement(from, to) \in Seq(DocElement)
<1>1. \A chord \in BOOLEAN : NoteElement(e, chord) \in DocElement
  BY DEF ScoreEvent, NoteElement, DocElement
<1>2. ASSUME NEW from \in Nat, NEW to \in Nat PROVE Movement(from, to) \in Seq(DocElement)
  <2>1. \A l \in Nat : Element("forward", l) \in DocElement /\ Element("backup", l) \in DocElement
    BY DEF Element, DocElement
  <2>2. CASE to > from
    BY <2>1, <2>2 DEF Movement
  <2>3. CASE to < from
    BY <2>1, <2>3 DEF Movement
  <2>4. CASE to = from
    BY <2>4 DEF Movement
  <2> QED BY <2>2, <2>3, <2>4
<1> QED BY <1>1, <1>2

\* A step of the writer adds elements, and remembers the event.
LEMMA WriteHolds ==
  ASSUME NEW w \in Writer, NEW e \in ScoreEvent
  PROVE  WriteEvent(w, e) \in Writer
<1>1. w.out \in Seq(DocElement) /\ w.at \in Nat /\ w.fits \in BOOLEAN
  BY DEF Writer
<1>2. e.onset \in Nat /\ End(e) \in Nat
  BY DEF ScoreEvent, End
<1>3. Append(w.out, NoteElement(e, TRUE)) \in Seq(DocElement)
  <2>1. NoteElement(e, TRUE) \in DocElement
    BY WrittenElements
  <2>2. \A x \in DocElement : Append(w.out, x) \in Seq(DocElement)
    BY <1>1
  <2> QED BY <2>1, <2>2, Zenon
<1>4. w.out \o Movement(w.at, e.onset) \o <<NoteElement(e, FALSE)>> \in Seq(DocElement)
  <2>1. NoteElement(e, FALSE) \in DocElement /\ Movement(w.at, e.onset) \in Seq(DocElement)
    BY <1>1, <1>2, WrittenElements
  <2>2. \A x \in DocElement, mv \in Seq(DocElement) : w.out \o mv \o <<x>> \in Seq(DocElement)
    BY <1>1
  <2> QED BY <2>1, <2>2, Zenon
<1>5. (w.fits /\ Writable(w, e)) \in BOOLEAN
  OBVIOUS
<1> QED BY <1>1, <1>2, <1>3, <1>4, <1>5 DEF WriteEvent, Writer

\* The writer after the last of some events.
EventsWritten(es) == FoldLeft(WriteEvent, Writing, es)

\* What the writer has written so far, event by event.
LEMMA WriteSteps ==
  ASSUME NEW es \in Seq(ScoreEvent)
  PROVE  \E h \in [0 .. Len(es) -> Writer] :
           /\ h[0] = Writing /\ h[Len(es)] = EventsWritten(es)
           /\ \A i \in 1 .. Len(es) : h[i] = WriteEvent(h[i - 1], es[i])
<1> DEFINE n == Len(es)
           step == [z \in Writer \X (1 .. n) |-> WriteEvent(z[1], es[z[2]])]
           Fits(f) == f = [s \in SUBSET (DOMAIN es) |->
                             IF s = {} THEN Writing ELSE WriteEvent(f[s \ {Max(s)}], es[Max(s)])]
           iter == CHOOSE f : Fits(f)
<1>0. Writing \in Writer /\ \A r \in Writer, x \in ScoreEvent : WriteEvent(r, x) \in Writer
  BY WriteHolds DEF Writing, Writer
<1>1. n \in Nat /\ DOMAIN es = 1 .. n /\ \A i \in 1 .. n : es[i] \in ScoreEvent
  OBVIOUS
<1>2. step \in [Writer \X (1 .. n) -> Writer]
  BY <1>0, <1>1
<1>3. EventsWritten(es) = iter[DOMAIN es]
  BY DEF EventsWritten, FoldLeft, MapThenFoldSet
<1>4. ASSUME NEW s \in SUBSET (1 .. n), s # {}
      PROVE  Max(s) \in 1 .. n /\ s \ {Max(s)} \in SUBSET (1 .. n)
  <2> HIDE DEF n
  <2>1. Max(s) \in s
    BY <1>1, <1>4, MaxOfNumbers
  <2> QED BY <2>1
<1>5. \E f : Fits(f)
  <2>1. PICK f : IsFold(f, n, Writer, Writing, step)
    <3>1. n \in Nat
      BY <1>1
    <3>2. step \in [Writer \X (1 .. n) -> Writer]
      BY <1>2
    <3> HIDE DEF step, n, Fits, iter
    <3> QED BY <1>0, <3>1, <3>2, FoldExists
  <2>2. ASSUME NEW s \in SUBSET (1 .. n), s # {}
        PROVE  step[<<f[s \ {Max(s)}], Max(s)>>] = WriteEvent(f[s \ {Max(s)}], es[Max(s)])
    <3>1. <<f[s \ {Max(s)}], Max(s)>> \in Writer \X (1 .. n)
      BY <1>4, <2>1, <2>2 DEF IsFold
    <3> QED BY <3>1
  <2>3. Fits(f)
    <3> HIDE DEF step, n
    <3> QED BY <1>1, <2>1, <2>2 DEF IsFold
  <2> QED BY <2>3
<1>6. Fits(iter)
  <2> HIDE DEF Fits
  <2> QED BY <1>5
<1> DEFINE h == [i \in 0 .. n |-> iter[1 .. i]]
<1>7. h[0] = Writing
  <2>1. 1 .. 0 = {} /\ 0 \in 0 .. n
    BY <1>1
  <2> HIDE DEF iter, n
  <2> QED BY <1>1, <1>6, <2>1
<1>8. ASSUME NEW i \in 1 .. n PROVE h[i] = WriteEvent(h[i - 1], es[i])
  <2>1. /\ Max(1 .. i) = i /\ (1 .. i) \ {i} = 1 .. i - 1 /\ i \in 1 .. i
        /\ i \in 0 .. n /\ i - 1 \in 0 .. n /\ 1 .. i \in SUBSET (1 .. n)
    BY <1>1, MaxOfInterval
  <2>2. iter[1 .. i] = IF 1 .. i = {} THEN Writing
                       ELSE WriteEvent(iter[(1 .. i) \ {Max(1 .. i)}], es[Max(1 .. i)])
    <3> HIDE DEF iter, n
    <3> QED BY <1>1, <1>6, <2>1
  <2> HIDE DEF iter, n
  <2> QED BY <2>1, <2>2
<1> DEFINE T == {i \in 0 .. n : h[i] \in Writer}
<1>9. \A i \in 0 .. n : i \in T
  <2>1. 0 \in T
    BY <1>0, <1>1, <1>7
  <2>2. ASSUME NEW i \in 0 .. n - 1, i \in T PROVE i + 1 \in T
    <3>1. i + 1 \in 1 .. n /\ i + 1 \in 0 .. n /\ (i + 1) - 1 = i
      BY <1>1
    <3>2. h[i + 1] = WriteEvent(h[i], es[i + 1]) /\ h[i] \in Writer /\ es[i + 1] \in ScoreEvent
      <4> HIDE DEF h, n
      <4> QED BY <1>1, <1>8, <2>2, <3>1
    <3> HIDE DEF h
    <3> QED BY <1>0, <3>1, <3>2
  <2> HIDE DEF T
  <2> QED BY <1>1, <2>1, <2>2, CountsUpTo
<1>10. h \in [0 .. n -> Writer] /\ h[n] = iter[1 .. n]
  <2>1. n \in 0 .. n
    BY <1>1
  <2> HIDE DEF iter, n
  <2> QED BY <1>9, <2>1
<1> HIDE DEF h, iter
<1> QED BY <1>1, <1>3, <1>7, <1>8, <1>10

\* The second of two events joins the chord of the first.
Joined(p, e) ==
  p.group = e.group /\ p.onset = e.onset /\ p.voice = e.voice /\ e.index = p.index + 1

\* What lets an event be written, by the event before it.
WritableAt(es, i) ==
  /\ es[i].kind # "unpitched" /\ es[i].look \in ExactLook
  /\ es[i].grace => es[i].length = 0
  /\ es[i].group # 0 => es[i].kind = "note"
  /\ IF Follower(es[i]) THEN i > 1 /\ Joined(es[i - 1], es[i]) ELSE es[i].index = 0

\* One sequence begins with another.
Starts(b, a) == Len(a) <= Len(b) /\ \A i \in 1 .. Len(a) : b[i] = a[i]

\* The states of the writer, event by event.
WriterOf(es, h) ==
  /\ h \in [0 .. Len(es) -> Writer]
  /\ h[0] = Writing /\ h[Len(es)] = EventsWritten(es)
  /\ \A i \in 1 .. Len(es) : h[i] = WriteEvent(h[i - 1], es[i])
  /\ \A i \in 1 .. Len(es) : h[i].previous = <<es[i]>>
  /\ \A i \in 0 .. Len(es) : h[i].fits <=> \A j \in 1 .. i : WritableAt(es, j)
  /\ \A i \in 0 .. Len(es) : Starts(h[Len(es)].out, h[i].out)

\* What a step of the writer leaves.
LEMMA WriteLeaves ==
  ASSUME NEW w, NEW e
  PROVE  /\ WriteEvent(w, e).previous = <<e>>
         /\ WriteEvent(w, e).fits <=> w.fits /\ Writable(w, e)
         /\ WriteEvent(w, e).at = IF Follower(e) THEN w.at ELSE End(e)
<1> DEFINE out == IF Follower(e) THEN Append(w.out, NoteElement(e, TRUE))
                  ELSE w.out \o Movement(w.at, e.onset) \o <<NoteElement(e, FALSE)>>
           at == IF Follower(e) THEN w.at ELSE End(e)
           fits == w.fits /\ Writable(w, e)
<1>1. WriteEvent(w, e) = [out |-> out, at |-> at, previous |-> <<e>>, fits |-> fits]
  BY DEF WriteEvent
<1> HIDE DEF out, at, fits
<1>2. /\ WriteEvent(w, e).previous = <<e>> /\ WriteEvent(w, e).at = at
      /\ WriteEvent(w, e).fits = fits
  BY <1>1
<1>3. fits <=> w.fits /\ Writable(w, e)
  BY DEF fits
<1>4. WriteEvent(w, e).fits <=> w.fits /\ Writable(w, e)
  BY <1>2, <1>3, Zenon
<1> QED BY <1>2, <1>4 DEF at

\* What is written of an event comes behind what was written before.
LEMMA WriteExtends ==
  ASSUME NEW w \in Writer, NEW e \in ScoreEvent
  PROVE  LET d == IF Follower(e) THEN <<NoteElement(e, TRUE)>>
                  ELSE Movement(w.at, e.onset) \o <<NoteElement(e, FALSE)>>
             out == WriteEvent(w, e).out
         IN  /\ d \in Seq(DocElement) /\ w.out \in Seq(DocElement) /\ out \in Seq(DocElement)
             /\ Len(out) = Len(w.out) + Len(d)
             /\ \A i \in 1 .. Len(w.out) : out[i] = w.out[i]
             /\ \A i \in 1 .. Len(d) : out[Len(w.out) + i] = d[i]
<1>1. w.out \in Seq(DocElement) /\ w.at \in Nat /\ e.onset \in Nat
  BY DEF Writer, ScoreEvent
<1>2. /\ NoteElement(e, TRUE) \in DocElement /\ NoteElement(e, FALSE) \in DocElement
      /\ Movement(w.at, e.onset) \in Seq(DocElement)
  BY <1>1, WrittenElements
<1>3. CASE Follower(e)
  <2> DEFINE x == NoteElement(e, TRUE)
  <2>1. WriteEvent(w, e).out = Append(w.out, x)
    BY <1>3 DEF WriteEvent
  <2>2. x \in DocElement
    BY <1>2, Zenon
  <2> HIDE DEF x
  <2>3. /\ <<x>> \in Seq(DocElement) /\ Append(w.out, x) \in Seq(DocElement)
        /\ Len(Append(w.out, x)) = Len(w.out) + Len(<<x>>)
        /\ \A i \in 1 .. Len(w.out) : Append(w.out, x)[i] = w.out[i]
        /\ \A i \in 1 .. Len(<<x>>) : Append(w.out, x)[Len(w.out) + i] = <<x>>[i]
    BY <1>1, <2>2
  <2> QED BY <1>1, <1>3, <2>1, <2>3 DEF x
<1>4. CASE ~Follower(e)
  <2> DEFINE x == NoteElement(e, FALSE)
             mv == Movement(w.at, e.onset)
             d == mv \o <<x>>
  <2>1. WriteEvent(w, e).out = w.out \o mv \o <<x>>
    BY <1>4 DEF WriteEvent
  <2>2. x \in DocElement
    BY <1>2, Zenon
  <2>3. mv \in Seq(DocElement)
    BY <1>2
  <2> HIDE DEF x, mv
  <2>4. d \in Seq(DocElement) /\ w.out \o mv \o <<x>> = w.out \o d
    <3>1. <<x>> \in Seq(DocElement)
      BY <2>2
    <3>2. mv \o <<x>> \in Seq(DocElement)
      BY <2>3, <3>1, ConcatProperties
    <3>3. w.out \in Seq(DocElement)
      BY <1>1
    <3>4. (w.out \o mv) \o <<x>> = w.out \o (mv \o <<x>>)
      <4> DEFINE u == <<x>>
                 v == w.out
      <4>1. u \in Seq(DocElement) /\ v \in Seq(DocElement)
        BY <3>1, <3>3
      <4> HIDE DEF d, u, v
      <4>2. (v \o mv) \o u = v \o (mv \o u)
        BY <2>3, <4>1, ConcatAssociative
      <4> QED BY <4>2 DEF u, v
    <3> QED BY <3>2, <3>4, Zenon
  <2>5. /\ w.out \o d \in Seq(DocElement) /\ Len(w.out \o d) = Len(w.out) + Len(d)
        /\ \A i \in 1 .. Len(w.out) : (w.out \o d)[i] = w.out[i]
        /\ \A i \in 1 .. Len(d) : (w.out \o d)[Len(w.out) + i] = d[i]
    <3> HIDE DEF d
    <3> QED BY <1>1, <2>4
  <2> HIDE DEF d
  <2> QED BY <1>1, <1>4, <2>1, <2>4, <2>5 DEF d, x, mv
<1> QED BY <1>3, <1>4

\* The writer passes through such states.
LEMMA WriterRuns ==
  ASSUME NEW es \in Seq(ScoreEvent)
  PROVE  \E h : WriterOf(es, h)
<1> DEFINE n == Len(es)
<1>0. n \in Nat /\ DOMAIN es = 1 .. n /\ \A i \in 1 .. n : es[i] \in ScoreEvent
  OBVIOUS
<1>1. PICK h \in [0 .. n -> Writer] :
        /\ h[0] = Writing /\ h[n] = EventsWritten(es)
        /\ \A i \in 1 .. n : h[i] = WriteEvent(h[i - 1], es[i])
  BY WriteSteps
<1> HIDE DEF n
<1>2. \A i \in 1 .. n : i - 1 \in 0 .. n /\ i \in 0 .. n /\ h[i - 1] \in Writer
  BY <1>0, <1>1
<1>3. \A i \in 1 .. n : h[i].previous = <<es[i]>>
  BY <1>1, WriteLeaves
<1>4. \A i \in 1 .. n : h[i].fits <=> h[i - 1].fits /\ Writable(h[i - 1], es[i])
  <2> SUFFICES ASSUME NEW i \in 1 .. n
               PROVE  h[i].fits <=> h[i - 1].fits /\ Writable(h[i - 1], es[i])
    OBVIOUS
  <2>1. h[i] = WriteEvent(h[i - 1], es[i])
    BY <1>1
  <2>2. WriteEvent(h[i - 1], es[i]).fits <=> h[i - 1].fits /\ Writable(h[i - 1], es[i])
    BY WriteLeaves
  <2> QED BY <2>1, <2>2, Zenon
<1>5. ASSUME NEW i \in 1 .. n PROVE Writable(h[i - 1], es[i]) <=> WritableAt(es, i)
  <2>1. CASE i = 1
    BY <1>1, <2>1 DEF Writable, WritableAt, Follows, Writing
  <2>2. CASE i # 1
    <3>1. i - 1 \in 1 .. n /\ i > 1
      BY <1>0, <2>2
    <3>2. h[i - 1].previous = <<es[i - 1]>>
      BY <1>3, <3>1
    <3>3. Follows(h[i - 1], es[i]) <=> Joined(es[i - 1], es[i])
      BY <3>2 DEF Follows, Joined
    <3> QED BY <3>1, <3>3 DEF Writable, WritableAt
  <2> QED BY <2>1, <2>2
<1>6. \A i \in 0 .. n : h[i].fits <=> \A j \in 1 .. i : WritableAt(es, j)
  <2> DEFINE T == {i \in 0 .. n : h[i].fits <=> \A j \in 1 .. i : WritableAt(es, j)}
  <2>1. 0 \in T
    BY <1>0, <1>1 DEF Writing
  <2>2. ASSUME NEW i \in 0 .. n - 1, i \in T PROVE i + 1 \in T
    <3>1. i + 1 \in 1 .. n /\ (i + 1) - 1 = i /\ i + 1 \in 0 .. n
      BY <1>0
    <3>2. h[i + 1].fits <=> h[i].fits /\ WritableAt(es, i + 1)
      BY <1>4, <1>5, <3>1
    <3>3. \A j \in 1 .. i + 1 : j = i + 1 \/ j \in 1 .. i
      BY <3>1
    <3>4. \A j \in 1 .. i : j \in 1 .. i + 1
      BY <3>1
    <3>5. i + 1 \in 1 .. i + 1
      BY <3>1
    <3> QED BY <2>2, <3>1, <3>2, <3>3, <3>4, <3>5
  <2>3. \A i \in 0 .. n : i \in T
    <3> HIDE DEF T
    <3> QED BY <1>0, <2>1, <2>2, CountsUpTo
  <2> QED BY <2>3
<1>7. \A i \in 0 .. n : Starts(h[n].out, h[i].out)
  <2> DEFINE T == {i \in 0 .. n : Starts(h[n].out, h[n - i].out)}
  <2>1. 0 \in T
    <3>1. h[n].out \in Seq(DocElement) /\ n - 0 = n
      BY <1>0, <1>1 DEF Writer
    <3> QED BY <1>0, <3>1 DEF Starts
  <2>2. ASSUME NEW i \in 0 .. n - 1, i \in T PROVE i + 1 \in T
    <3> DEFINE k == n - i
    <3>1. k \in 1 .. n /\ n - (i + 1) = k - 1 /\ i + 1 \in 0 .. n /\ n \in 0 .. n
      BY <1>0
    <3>2. Starts(h[n].out, h[k].out)
      BY <2>2
    <3> HIDE DEF k
    <3>3. /\ h[k - 1] \in Writer /\ es[k] \in ScoreEvent /\ h[k] = WriteEvent(h[k - 1], es[k])
          /\ h[n] \in Writer
      BY <1>0, <1>1, <1>2, <3>1
    <3>4. /\ h[k - 1].out \in Seq(DocElement) /\ h[k].out \in Seq(DocElement)
          /\ h[n].out \in Seq(DocElement)
          /\ Len(h[k - 1].out) <= Len(h[k].out)
          /\ \A j \in 1 .. Len(h[k - 1].out) : h[k].out[j] = h[k - 1].out[j]
      <4>1. h[n].out \in Seq(DocElement)
        BY <3>3 DEF Writer
      <4>2. PICK d \in Seq(DocElement) :
              LET out == WriteEvent(h[k - 1], es[k]).out
              IN  /\ h[k - 1].out \in Seq(DocElement) /\ out \in Seq(DocElement)
                  /\ Len(out) = Len(h[k - 1].out) + Len(d)
                  /\ \A j \in 1 .. Len(h[k - 1].out) : out[j] = h[k - 1].out[j]
        BY <3>3, WriteExtends
      <4>3. Len(d) \in Nat /\ Len(h[k - 1].out) \in Nat
        BY <4>2
      <4> QED BY <3>3, <4>1, <4>2, <4>3
    <3>5. Starts(h[n].out, h[k - 1].out)
      <4> DEFINE a == h[k - 1].out
                 b == h[k].out
                 c == h[n].out
      <4>0. Starts(c, b) /\ a \in Seq(DocElement) /\ b \in Seq(DocElement)
            /\ c \in Seq(DocElement) /\ Len(a) <= Len(b)
            /\ \A j \in 1 .. Len(a) : b[j] = a[j]
        BY <3>2, <3>4
      <4> HIDE DEF a, b, c
      <4>1. /\ Len(a) \in Nat /\ Len(b) \in Nat /\ Len(c) \in Nat /\ Len(a) <= Len(b)
            /\ Len(b) <= Len(c)
            /\ \A j \in 1 .. Len(b) : c[j] = b[j]
            /\ \A j \in 1 .. Len(a) : b[j] = a[j]
        BY <4>0 DEF Starts
      <4>2. Len(a) <= Len(c) /\ \A j \in 1 .. Len(a) : c[j] = a[j]
        BY <4>1
      <4> QED BY <4>2 DEF Starts, a, c
    <3> QED BY <3>1, <3>5
  <2>3. \A i \in 0 .. n : i \in T
    <3> HIDE DEF T
    <3> QED BY <1>0, <2>1, <2>2, CountsUpTo
  <2>4. ASSUME NEW i \in 0 .. n PROVE Starts(h[n].out, h[i].out)
    <3>1. n - i \in 0 .. n /\ n - (n - i) = i
      BY <1>0
    <3> QED BY <2>3, <3>1
  <2> QED BY <2>4
<1> QED BY <1>1, <1>3, <1>6, <1>7 DEF WriterOf, n

-----------------------------------------------------------------------------
(* What was written, read again.                                           *)

\* An event is what another was read as, but for its numbers.
ReadAs(f, e) ==
  /\ f.kind = e.kind /\ f.onset = e.onset /\ f.length = e.length
  /\ f.voice = VoiceRead[e.voice] /\ f.look = LookRead[e.look]
  /\ f.grace = e.grace /\ f.index = e.index

\* Of the events es the first k were read back as ev.  A chord is numbered after
\* its first event as soon as a second has joined it.
ReadBack(es, k, ev) ==
  /\ Len(ev) = k
  /\ \A j \in 1 .. k : ReadAs(ev[j], es[j])
  /\ \A j \in 1 .. k : ev[j].group # 0 <=> (Follower(es[j]) \/ (j < k /\ Follower(es[j + 1])))
  /\ \A j \in 1 .. k : ev[j].group # 0 =>
       /\ ev[j].group \in 1 .. j /\ ~Follower(es[ev[j].group])
       /\ es[j].group # 0 /\ es[ev[j].group].group = es[j].group

\* A reader under signature st that has read back k events.
Caught(es, k, r, st) ==
  r \in SoundReader /\ r.fits /\ r.time = st /\ r.start = st /\ ReadBack(es, k, r.events)

\* A note that is no further member of a chord is read where it was written.
LEMMA NoteIsReadBack ==
  ASSUME NEW es \in Seq(ScoreEvent), NEW k \in 0 .. Len(es) - 1, NEW r, NEW st,
         Caught(es, k, r, st), ~Follower(es[k + 1]), es[k + 1].index = 0,
         r.at = es[k + 1].onset, Legible(es[k + 1])
  PROVE  LET q == ReadElement(r, NoteElement(es[k + 1], FALSE))
         IN  Caught(es, k + 1, q, st) /\ q.at = End(es[k + 1]) /\ q.last = k + 1
<1> DEFINE e == es[k + 1]
           x == NoteElement(e, FALSE)
           q == ReadElement(r, x)
           f == EventAt(r, x, r.at, 0, 0)
           ev == r.events
<1>1. e \in ScoreEvent /\ r \in SoundReader /\ r \in Reader /\ Len(ev) = k /\ k \in Nat
  BY DEF Caught, ReadBack, SoundReader
<1>2. x \in DocElement
  BY <1>1, WrittenElements
<1>3. q \in SoundReader
  BY <1>1, <1>2, ElementKeepsSound
<1>4. x.tag = "note" /\ ~x.chord /\ x.length = e.length /\ Legible(x)
  BY DEF NoteElement, Legible
<1>5. q = ReadNote(r, x)
  BY <1>4 DEF ReadElement
<1>6. ev \in Seq(ScoreEvent)
  BY <1>1 DEF Reader
<1>7. /\ q.events = Append(ev, f) /\ q.last = k + 1 /\ q.at = e.onset + e.length
      /\ q.fits = r.fits /\ q.time = r.time /\ q.start = r.start
  <2>1. q = [r EXCEPT !.events = Append(ev, f), !.last = Len(ev) + 1, !.at = @ + x.length]
    BY <1>5 DEF ReadNote
  <2> HIDE DEF q, f, x, ev
  <2>2. /\ q.events = Append(ev, f) /\ q.last = Len(ev) + 1 /\ q.at = r.at + x.length
        /\ q.fits = r.fits /\ q.time = r.time /\ q.start = r.start
    BY <1>1, <2>1 DEF Reader
  <2> QED BY <1>1, <1>4, <2>2
<1>8. ReadAs(f, e) /\ f.group = 0
  BY DEF EventAt, NoteElement, ReadAs
<1> HIDE DEF f, q, x
<1>9. ReadBack(es, k + 1, Append(ev, f))
  <2>1. /\ Len(Append(ev, f)) = k + 1 /\ Append(ev, f)[k + 1] = f
        /\ \A j \in 1 .. k : Append(ev, f)[j] = ev[j]
    <3> HIDE DEF ev
    <3> QED BY <1>1, <1>6
  <2>2. ReadBack(es, k, ev) /\ ~Follower(es[k + 1])
    BY DEF Caught
  <2> DEFINE g == Append(ev, f)
  <2> HIDE DEF g, ev
  <2>3. \A j \in 1 .. k + 1 : j = k + 1 \/ j \in 1 .. k
    BY <1>1
  <2>4. \A j \in 1 .. k + 1 : ReadAs(g[j], es[j])
    BY <1>8, <2>1, <2>2, <2>3 DEF ReadBack, g
  <2>5. \A j \in 1 .. k + 1 :
          g[j].group # 0 <=> (Follower(es[j]) \/ (j < k + 1 /\ Follower(es[j + 1])))
    <3> SUFFICES ASSUME NEW j \in 1 .. k + 1
                 PROVE  g[j].group # 0 <=> (Follower(es[j]) \/ (j < k + 1 /\ Follower(es[j + 1])))
      OBVIOUS
    <3>1. CASE j = k + 1
      BY <1>1, <1>8, <2>1, <2>2, <3>1 DEF g
    <3>2. CASE j \in 1 .. k
      <4>1. ev[j].group # 0 <=> (Follower(es[j]) \/ (j < k /\ Follower(es[j + 1])))
        BY <2>2, <3>2 DEF ReadBack
      <4>2. g[j] = ev[j]
        BY <2>1, <3>2 DEF g
      <4>3. (j < k + 1 /\ Follower(es[j + 1])) <=> (j < k /\ Follower(es[j + 1]))
        BY <1>1, <2>2, <3>2
      <4> QED BY <4>1, <4>2, <4>3
    <3> QED BY <2>3, <3>1, <3>2
  <2>6. \A j \in 1 .. k + 1 : g[j].group # 0 =>
          /\ g[j].group \in 1 .. j /\ ~Follower(es[g[j].group])
          /\ es[j].group # 0 /\ es[g[j].group].group = es[j].group
    BY <1>8, <2>1, <2>2, <2>3 DEF ReadBack, g
  <2> QED BY <2>1, <2>4, <2>5, <2>6 DEF ReadBack, g
<1>10. q.fits /\ q.time = st /\ q.start = st
  BY <1>7 DEF Caught
<1> HIDE DEF ev
<1> QED BY <1>3, <1>7, <1>9, <1>10 DEF Caught, End, q, x

\* A further member of a chord is read at the onset of the member before it.
LEMMA ChordIsReadBack ==
  ASSUME NEW es \in Seq(ScoreEvent), NEW k \in 1 .. Len(es) - 1, NEW r, NEW st,
         Caught(es, k, r, st), Follower(es[k + 1]), Joined(es[k], es[k + 1]),
         es[k].kind = "note", r.last = k, Legible(es[k + 1])
  PROVE  LET q == ReadElement(r, NoteElement(es[k + 1], TRUE))
         IN  Caught(es, k + 1, q, st) /\ q.at = r.at /\ q.last = k + 1
<1> DEFINE e == es[k + 1]
           x == NoteElement(e, TRUE)
           q == ReadElement(r, x)
           ev == r.events
           p == ev[k]
           group == IF p.group = 0 THEN p.id ELSE p.group
           f == EventAt(r, x, p.onset, group, p.index + 1)
           first == [ev EXCEPT ![k].group = group]
<1>1. /\ e \in ScoreEvent /\ r \in SoundReader /\ r \in Reader /\ Len(ev) = k /\ k \in Nat
      /\ k # 0 /\ es[k] \in ScoreEvent /\ ReadBack(es, k, ev)
  BY DEF Caught, ReadBack, SoundReader
<1>2. x \in DocElement
  BY <1>1, WrittenElements
<1>3. q \in SoundReader
  BY <1>1, <1>2, ElementKeepsSound
<1>4. x.tag = "note" /\ x.chord /\ x.voice = e.voice /\ Legible(x)
  BY DEF NoteElement, Legible
<1>5. ev \in Seq(ScoreEvent) /\ p \in ScoreEvent
  BY <1>1 DEF Reader
<1>6. ReadAs(p, es[k]) /\ p.id = k
  <2>1. ReadAs(p, es[k])
    BY <1>1 DEF ReadBack
  <2>2. p.id = k
    BY <1>1, <1>5 DEF SoundReader, ReaderInv, Numbered
  <2> QED BY <2>1, <2>2
<1>7. JoinsChord(r, x)
  BY <1>1, <1>4, <1>6 DEF JoinsChord, ReadAs, Joined
<1>8. q = ReadChord(r, x)
  BY <1>4, <1>7 DEF ReadElement
<1>9. /\ q.events = Append(first, f) /\ q.last = k + 1 /\ q.at = r.at
      /\ q.fits = r.fits /\ q.time = r.time /\ q.start = r.start
  BY <1>1, <1>8 DEF ReadChord, Reader
<1>10. ReadAs(f, e) /\ f.group = group
  BY <1>6 DEF EventAt, NoteElement, ReadAs, Joined
<1>11. es[k].group # 0 /\ es[k].group = e.group /\ e.group # 0
  BY DEF Joined, Follower
<1>12. /\ group \in 1 .. k /\ group # 0 /\ ~Follower(es[group]) /\ es[group].group = es[k].group
  <2>1. CASE p.group = 0
    <3>1. ~Follower(es[k])
      BY <1>1, <2>1 DEF ReadBack
    <3> QED BY <1>1, <1>6, <2>1, <3>1
  <2>2. CASE p.group # 0
    BY <1>1, <2>2 DEF ReadBack
  <2> QED BY <2>1, <2>2
<1>13. /\ Len(first) = k /\ first \in Seq(ScoreEvent)
       /\ \A j \in 1 .. k : first[j] = IF j = k THEN [p EXCEPT !.group = group] ELSE ev[j]
  <2>1. [p EXCEPT !.group = group] \in ScoreEvent
    <3>1. group \in Nat
      BY <1>1, <1>12
    <3> HIDE DEF p, group
    <3> QED BY <1>5, <3>1 DEF ScoreEvent
  <2>2. first = [ev EXCEPT ![k] = [p EXCEPT !.group = group]]
    OBVIOUS
  <2> HIDE DEF group, first, ev
  <2> QED BY <1>1, <1>5, <2>1, <2>2
<1>14. /\ ReadAs([p EXCEPT !.group = group], es[k])
       /\ [p EXCEPT !.group = group].group = group
  <2> HIDE DEF p, group
  <2> QED BY <1>5, <1>6 DEF ReadAs, ScoreEvent
<1> HIDE DEF f, q, x, group, first, ev
<1>15. ReadBack(es, k + 1, Append(first, f))
  <2> DEFINE g == Append(first, f)
  <2>1. /\ Len(g) = k + 1 /\ g[k + 1] = f
        /\ \A j \in 1 .. k : g[j] = first[j]
    BY <1>1, <1>13
  <2> HIDE DEF g
  <2>2. \A j \in 1 .. k + 1 : j = k + 1 \/ j = k \/ (j \in 1 .. k /\ j # k /\ j < k)
    BY <1>1
  <2>3. /\ g[k + 1].group = group /\ g[k].group = group /\ ReadAs(g[k + 1], e)
        /\ ReadAs(g[k], es[k]) /\ k \in 1 .. k
    <3>1. k \in 1 .. k
      BY <1>1
    <3>2. g[k] = [p EXCEPT !.group = group]
      BY <1>13, <2>1, <3>1
    <3> HIDE DEF p, e
    <3> QED BY <1>10, <1>14, <2>1, <3>1, <3>2
  <2>4. \A j \in 1 .. k : j # k => g[j] = ev[j]
    BY <1>13, <2>1
  <2>5. \A j \in 1 .. k + 1 : ReadAs(g[j], es[j])
    BY <1>1, <2>2, <2>3, <2>4 DEF ReadBack
  <2>6. \A j \in 1 .. k + 1 :
          g[j].group # 0 <=> (Follower(es[j]) \/ (j < k + 1 /\ Follower(es[j + 1])))
    <3> SUFFICES ASSUME NEW j \in 1 .. k + 1
                 PROVE  g[j].group # 0 <=> (Follower(es[j]) \/ (j < k + 1 /\ Follower(es[j + 1])))
      OBVIOUS
    <3>1. CASE j = k + 1
      BY <1>12, <2>3, <3>1
    <3>2. CASE j = k
      BY <1>1, <1>12, <2>3, <3>2
    <3>3. CASE j \in 1 .. k /\ j # k /\ j < k
      <4>1. ev[j].group # 0 <=> (Follower(es[j]) \/ (j < k /\ Follower(es[j + 1])))
        BY <1>1, <3>3 DEF ReadBack
      <4>2. g[j] = ev[j] /\ j < k + 1
        BY <1>1, <2>4, <3>3
      <4> QED BY <3>3, <4>1, <4>2
    <3> QED BY <2>2, <3>1, <3>2, <3>3
  <2>7. \A j \in 1 .. k + 1 : g[j].group # 0 =>
          /\ g[j].group \in 1 .. j /\ ~Follower(es[g[j].group])
          /\ es[j].group # 0 /\ es[g[j].group].group = es[j].group
    <3> SUFFICES ASSUME NEW j \in 1 .. k + 1, g[j].group # 0
                 PROVE  /\ g[j].group \in 1 .. j /\ ~Follower(es[g[j].group])
                        /\ es[j].group # 0 /\ es[g[j].group].group = es[j].group
      OBVIOUS
    <3>1. CASE j = k + 1 \/ j = k
      <4>1. group \in 1 .. j
        BY <1>1, <1>12, <3>1
      <4> QED BY <1>11, <1>12, <2>3, <3>1, <4>1
    <3>2. CASE j \in 1 .. k /\ j # k /\ j < k
      BY <1>1, <2>4, <3>2 DEF ReadBack
    <3> QED BY <2>2, <3>1, <3>2
  <2> QED BY <2>1, <2>5, <2>6, <2>7 DEF ReadBack, g
<1>16. q.fits /\ q.time = st /\ q.start = st
  BY <1>9 DEF Caught
<1> QED BY <1>3, <1>9, <1>15, <1>16 DEF Caught, q, x

\* A movement takes the reader to where the next event begins.
LEMMA MovementIsRead ==
  ASSUME NEW es, NEW k, NEW r, NEW st, Caught(es, k, r, st), NEW to \in Nat
  PROVE  /\ r.at \in Nat
         /\ to > r.at => LET q == ReadElement(r, Element("forward", to - r.at))
                         IN  Caught(es, k, q, st) /\ q.at = to
         /\ to < r.at => LET q == ReadElement(r, Element("backup", r.at - to))
                         IN  Caught(es, k, q, st) /\ q.at = to
<1>1. r \in SoundReader /\ r \in Reader /\ r.at \in Nat
  BY DEF Caught, SoundReader, Reader
<1>2. ASSUME NEW x \in DocElement, ReadElement(r, x) = Moved(r, to)
      PROVE  Caught(es, k, ReadElement(r, x), st) /\ ReadElement(r, x).at = to
  <2>1. ReadElement(r, x) \in SoundReader
    BY <1>1, <1>2, ElementKeepsSound
  <2>2. /\ Moved(r, to).at = to /\ Moved(r, to).events = r.events /\ Moved(r, to).fits = r.fits
        /\ Moved(r, to).time = r.time /\ Moved(r, to).start = r.start
    BY <1>1 DEF Moved, Reader
  <2> QED BY <1>2, <2>1, <2>2 DEF Caught
<1>3. CASE to > r.at
  <2> DEFINE x == Element("forward", to - r.at)
  <2>1. to - r.at \in Nat /\ r.at + (to - r.at) = to
    BY <1>1, <1>3
  <2>2. x \in DocElement /\ x.tag = "forward" /\ x.length = to - r.at
    BY <2>1 DEF Element, DocElement
  <2> HIDE DEF x
  <2>3. ReadElement(r, x) = Moved(r, to)
    BY <2>1, <2>2 DEF ReadElement
  <2> QED BY <1>1, <1>2, <1>3, <2>2, <2>3 DEF x
<1>4. CASE to < r.at
  <2> DEFINE x == Element("backup", r.at - to)
  <2>1. r.at - to \in Nat /\ r.at - (r.at - to) = to /\ r.at - to <= r.at
    BY <1>1, <1>4
  <2>2. x \in DocElement /\ x.tag = "backup" /\ x.length = r.at - to
    BY <2>1 DEF Element, DocElement
  <2> HIDE DEF x
  <2>3. ReadElement(r, x) = Moved(r, to)
    BY <2>1, <2>2 DEF ReadElement
  <2> QED BY <1>1, <1>2, <1>4, <2>2, <2>3 DEF x
<1> QED BY <1>1, <1>3, <1>4

\* What stands in a document for a measure.
WrittenMeasure(start, es) ==
  (IF start = 0 THEN <<>> ELSE <<Element("time", start)>>) \o EventsWritten(es).out

\* It is its signature, if it has one, and then what is written of its events.
LEMMA MeasureIsWritten ==
  ASSUME NEW es \in Seq(ScoreEvent), NEW start \in Nat
  PROVE  LET x == WrittenMeasure(start, es)
             out == EventsWritten(es).out
             c == IF start = 0 THEN 0 ELSE 1
         IN  /\ x \in Seq(DocElement) /\ out \in Seq(DocElement)
             /\ Len(x) = c + Len(out)
             /\ \A i \in 1 .. Len(out) : x[c + i] = out[i]
             /\ start # 0 => x[1] = Element("time", start)
<1> DEFINE out == EventsWritten(es).out
           y == Element("time", start)
<1>1. out \in Seq(DocElement)
  <2>1. PICK h : WriterOf(es, h)
    BY WriterRuns
  <2>2. Len(es) \in 0 .. Len(es) /\ h[Len(es)] \in Writer
    BY <2>1 DEF WriterOf
  <2> QED BY <2>1, <2>2 DEF WriterOf, Writer
<1>2. y \in DocElement
  BY DEF Element, DocElement
<1> HIDE DEF out, y
<1>3. CASE start = 0
  <2>1. WrittenMeasure(start, es) = <<>> \o out
    BY <1>3 DEF WrittenMeasure, out
  <2>2. <<>> \o out = out
    BY <1>1
  <2> QED BY <1>1, <1>3, <2>1, <2>2 DEF out
<1>4. CASE start # 0
  <2>1. WrittenMeasure(start, es) = <<y>> \o out
    BY <1>4 DEF WrittenMeasure, out, y
  <2>2. /\ <<y>> \o out \in Seq(DocElement) /\ Len(<<y>> \o out) = 1 + Len(out)
        /\ \A i \in 1 .. Len(out) : (<<y>> \o out)[1 + i] = out[i]
        /\ (<<y>> \o out)[1] = y
    BY <1>1, <1>2
  <2> QED BY <1>1, <1>4, <2>1, <2>2 DEF out, y
<1> QED BY <1>3, <1>4

\* What a reader has read so far, when it reads a document.
LEMMA SoundSteps ==
  ASSUME NEW base \in SoundReader, NEW m \in Seq(DocElement)
  PROVE  \E h \in [0 .. Len(m) -> SoundReader] :
           /\ h[0] = base /\ h[Len(m)] = ElementsRead(base, m)
           /\ \A i \in 1 .. Len(m) : h[i] = ReadElement(h[i - 1], m[i])
<1>1. \A r \in SoundReader, x \in DocElement : ReadElement(r, x) \in SoundReader
  BY ElementKeepsSound
<1>2. \E h : ReaderOf(h, SoundReader, base, m)
  BY <1>1, ReadSteps
<1> QED BY <1>2 DEF ReaderOf

\* A measure that can be written is read back, event by event, if its texts can
\* be read.
LEMMA MeasureIsReadBack ==
  ASSUME NEW es \in Seq(ScoreEvent), NEW start \in Nat, NEW t \in Nat,
         \A j \in 1 .. Len(es) : WritableAt(es, j) /\ Legible(es[j])
  PROVE  Caught(es, Len(es), ElementsRead(Reading(t), WrittenMeasure(start, es)),
                IF start = 0 THEN t ELSE start)
<1> DEFINE n == Len(es)
           x == WrittenMeasure(start, es)
           out == EventsWritten(es).out
           c == IF start = 0 THEN 0 ELSE 1
           st == IF start = 0 THEN t ELSE start
<1>0. n \in Nat /\ \A i \in 1 .. n : es[i] \in ScoreEvent
  OBVIOUS
<1>1. /\ x \in Seq(DocElement) /\ out \in Seq(DocElement) /\ Len(x) = c + Len(out)
      /\ \A i \in 1 .. Len(out) : x[c + i] = out[i]
      /\ start # 0 => x[1] = Element("time", start)
  BY MeasureIsWritten
<1>2. c \in Nat /\ Len(x) \in Nat /\ Len(out) \in Nat /\ c <= Len(x)
  <2>1. c \in Nat
    OBVIOUS
  <2> HIDE DEF c, x, out
  <2> QED BY <1>1, <2>1
<1>3. PICK g \in [0 .. Len(x) -> SoundReader] :
        /\ g[0] = Reading(t) /\ g[Len(x)] = ElementsRead(Reading(t), x)
        /\ \A i \in 1 .. Len(x) : g[i] = ReadElement(g[i - 1], x[i])
  <2>1. Reading(t) \in SoundReader
    BY StartsSound
  <2>3. x \in Seq(DocElement)
    BY <1>1
  <2> DEFINE base == Reading(t)
  <2> HIDE DEF x, base
  <2>4. base \in SoundReader
    BY <2>1 DEF base
  <2>5. \E g \in [0 .. Len(x) -> SoundReader] :
          /\ g[0] = base /\ g[Len(x)] = ElementsRead(base, x)
          /\ \A i \in 1 .. Len(x) : g[i] = ReadElement(g[i - 1], x[i])
    <3> HIDE DEF n, out, c, st
    <3> QED BY <2>3, <2>4, SoundSteps
  <2> QED BY <2>5 DEF base
<1>4. PICK h : WriterOf(es, h)
  BY WriterRuns
<1>5. Caught(es, 0, g[c], st) /\ g[c].at = 0 /\ g[c].last = 0
  <2>1. g[c] \in SoundReader
    BY <1>2, <1>3
  <2>2. CASE start = 0
    <3>1. g[c] = Reading(t)
      BY <1>3, <2>2
    <3> QED BY <2>1, <2>2, <3>1 DEF Caught, ReadBack, Reading
  <2>3. CASE start # 0
    <3>1. 1 \in 1 .. Len(x) /\ c = 1
      BY <1>2, <2>3
    <3>2. g[c] = ReadElement(Reading(t), Element("time", start))
      BY <1>1, <1>3, <2>3, <3>1
    <3>3. g[c] = ReadTime(Reading(t), Element("time", start))
      BY <3>2 DEF ReadElement, Element
    <3>4. /\ g[c].events = <<>> /\ g[c].at = 0 /\ g[c].last = 0 /\ g[c].fits
          /\ g[c].time = start /\ g[c].start = start
      BY <3>3 DEF ReadTime, Reading, Unread, Element
    <3> QED BY <2>1, <2>3, <3>4 DEF Caught, ReadBack
  <2> QED BY <2>2, <2>3
<1> DEFINE L(k) == c + Len(h[k].out)
           T == {k \in 0 .. n : /\ Caught(es, k, g[L(k)], st)
                                /\ g[L(k)].at = h[k].at /\ g[L(k)].last = k}
<1>6. 0 \in T
  <2>1. h[0] = Writing
    BY <1>4 DEF WriterOf
  <2>2. h[0].at = 0 /\ h[0].out = <<>>
    BY <2>1 DEF Writing
  <2>3. Len(h[0].out) = 0
    BY <2>2
  <2> HIDE DEF c, n, x, out, st
  <2>4. L(0) = c /\ 0 \in 0 .. n
    BY <1>0, <1>2, <2>3
  <2> HIDE DEF L
  <2> QED BY <1>5, <2>2, <2>4
<1> HIDE DEF x, out, c, st, n
<1>7. ASSUME NEW k \in 0 .. n - 1, k \in T PROVE k + 1 \in T
  <2> DEFINE w == h[k]
             e == es[k + 1]
             r == g[L(k)]
             d == IF Follower(e) THEN <<NoteElement(e, TRUE)>>
                  ELSE Movement(w.at, e.onset) \o <<NoteElement(e, FALSE)>>
             l == L(k)
  <2>1. /\ k + 1 \in 1 .. n /\ (k + 1) - 1 = k /\ k + 1 \in 0 .. n /\ k \in 0 .. n
        /\ n \in 0 .. n /\ k \in Nat
    BY <1>0
  <2>2. /\ w \in Writer /\ e \in ScoreEvent /\ h[k + 1] = WriteEvent(w, e) /\ h[n].out = out
        /\ Starts(out, h[k + 1].out) /\ WritableAt(es, k + 1) /\ Legible(e)
    BY <1>0, <1>4, <2>1 DEF WriterOf, out, n
  <2>3. /\ Caught(es, k, r, st) /\ r.at = w.at /\ r.last = k
    BY <1>7
  <2>4. w.at \in Nat /\ e.onset \in Nat
    BY <2>2 DEF Writer, ScoreEvent
  <2>5. /\ d \in Seq(DocElement) /\ w.out \in Seq(DocElement) /\ h[k + 1].out \in Seq(DocElement)
        /\ Len(h[k + 1].out) = Len(w.out) + Len(d)
        /\ \A i \in 1 .. Len(d) : h[k + 1].out[Len(w.out) + i] = d[i]
    <3> DEFINE q == WriteEvent(w, e).out
    <3>1. /\ d \in Seq(DocElement) /\ w.out \in Seq(DocElement) /\ q \in Seq(DocElement)
          /\ Len(q) = Len(w.out) + Len(d)
          /\ \A i \in 1 .. Len(d) : q[Len(w.out) + i] = d[i]
      <4> HIDE DEF w, e
      <4> QED BY <2>2, WriteExtends
    <3>2. h[k + 1].out = q
      BY <2>2
    <3> HIDE DEF d, w, q
    <3> QED BY <3>1, <3>2
  <2>6. l \in Nat /\ L(k + 1) = l + Len(d) /\ l + Len(d) <= Len(x) /\ Len(d) \in Nat
    <3>1. Len(h[k + 1].out) <= Len(out)
      BY <2>2 DEF Starts
    <3>2. Len(w.out) \in Nat /\ Len(d) \in Nat
      <4> HIDE DEF d, w
      <4> QED BY <2>5
    <3> HIDE DEF d
    <3> QED BY <1>1, <1>2, <2>5, <3>1, <3>2
  <2>7. \A i \in 1 .. Len(d) : x[l + i] = d[i] /\ l + i \in 1 .. Len(x)
    <3> SUFFICES ASSUME NEW i \in 1 .. Len(d) PROVE x[l + i] = d[i] /\ l + i \in 1 .. Len(x)
      OBVIOUS
    <3>1. Len(w.out) \in Nat /\ Len(d) \in Nat /\ Len(w.out) + i \in 1 .. Len(h[k + 1].out)
      <4> HIDE DEF d, w
      <4> QED BY <2>5
    <3>2. out[Len(w.out) + i] = d[i]
      <4> HIDE DEF d, w
      <4> QED BY <2>2, <2>5, <3>1 DEF Starts
    <3>3. Len(w.out) + i \in 1 .. Len(out)
      <4> HIDE DEF d, w
      <4> QED BY <1>2, <2>2, <3>1 DEF Starts
    <3>4. x[c + (Len(w.out) + i)] = d[i] /\ c + (Len(w.out) + i) = l + i
      <4>1. l = c + Len(w.out)
        OBVIOUS
      <4> DEFINE a == Len(w.out)
      <4> HIDE DEF d, l, a, w
      <4>2. x[c + (a + i)] = d[i]
        BY <1>1, <3>2, <3>3 DEF a
      <4>3. a \in Nat /\ i \in Nat /\ l = c + a
        BY <3>1, <4>1 DEF a
      <4>4. c + (a + i) = l + i
        BY <1>2, <4>3
      <4> QED BY <4>2, <4>4 DEF a
    <3> HIDE DEF d, l
    <3> QED BY <2>6, <3>4
  <2>8. \A i \in 1 .. Len(d) : g[l + i] = ReadElement(g[l + (i - 1)], d[i])
    <3> SUFFICES ASSUME NEW i \in 1 .. Len(d)
                 PROVE  g[l + i] = ReadElement(g[l + (i - 1)], d[i])
      OBVIOUS
    <3>1. l + (i - 1) = (l + i) - 1
      <4> HIDE DEF l, d
      <4> QED BY <2>6
    <3>2. l + i \in 1 .. Len(x) /\ x[l + i] = d[i]
      BY <2>7
    <3> HIDE DEF l, d
    <3> QED BY <1>3, <3>1, <3>2
  <2>9. h[k + 1].at = IF Follower(e) THEN w.at ELSE End(e)
    BY <2>2, WriteLeaves
  <2>10. CASE Follower(e)
    <3> DEFINE y == NoteElement(e, TRUE)
    <3>1. d = <<y>>
      BY <2>10
    <3> HIDE DEF y
    <3>2. Len(d) = 1 /\ d[1] = y /\ 1 \in 1 .. Len(d)
      <4> HIDE DEF d
      <4> QED BY <3>1
    <3>3. g[L(k + 1)] = ReadElement(r, y)
      <4>1. l + (1 - 1) = l /\ L(k + 1) = l + 1
        <5> HIDE DEF d
        <5> QED BY <2>6, <3>2
      <4>2. g[l + 1] = ReadElement(g[l + (1 - 1)], d[1])
        BY <2>8, <3>2
      <4> QED BY <3>2, <4>1, <4>2
    <3>4. k + 1 > 1 /\ Joined(es[k], es[k + 1])
      BY <2>1, <2>2, <2>10 DEF WritableAt
    <3>5. k \in 1 .. Len(es) - 1 /\ WritableAt(es, k)
      BY <2>1, <3>4 DEF n
    <3>6. es[k].kind = "note"
      BY <2>10, <3>4, <3>5 DEF WritableAt, Joined, Follower
    <3>7. /\ Caught(es, k + 1, ReadElement(r, y), st)
          /\ ReadElement(r, y).at = r.at /\ ReadElement(r, y).last = k + 1
      <4> HIDE DEF r
      <4> QED BY <2>2, <2>3, <2>10, <3>4, <3>5, <3>6, ChordIsReadBack DEF y
    <3> HIDE DEF r
    <3> QED BY <2>1, <2>3, <2>9, <2>10, <3>3, <3>7
  <2>11. CASE ~Follower(e)
    <3> DEFINE y == NoteElement(e, FALSE)
               mv == Movement(w.at, e.onset)
    <3>1. d = mv \o <<y>> /\ e.index = 0 /\ k \in 0 .. Len(es) - 1
      BY <2>2, <2>11 DEF WritableAt, n
    <3>2. ASSUME NEW q, Caught(es, k, q, st), q.at = e.onset,
                 g[L(k + 1)] = ReadElement(q, y)
          PROVE  k + 1 \in T
      <4>1. /\ Caught(es, k + 1, ReadElement(q, y), st)
            /\ ReadElement(q, y).at = End(e) /\ ReadElement(q, y).last = k + 1
        BY <2>2, <2>11, <3>1, <3>2, NoteIsReadBack
      <4> QED BY <2>1, <2>9, <2>11, <3>2, <4>1
    <3> HIDE DEF y
    <3>3. CASE mv = <<>>
      <4>1. d = <<y>> /\ w.at = e.onset
        <5>1. w.at = e.onset
          BY <2>4, <3>3 DEF Movement
        <5> QED BY <3>1, <3>3, <5>1
      <4>2. Len(d) = 1 /\ d[1] = y /\ 1 \in 1 .. Len(d)
        <5> HIDE DEF d
        <5> QED BY <4>1
      <4>3. l + (1 - 1) = l /\ L(k + 1) = l + 1
        <5> HIDE DEF d
        <5> QED BY <2>6, <4>2
      <4>4. g[l + 1] = ReadElement(g[l + (1 - 1)], d[1])
        BY <2>8, <4>2
      <4> QED BY <2>3, <3>2, <4>1, <4>2, <4>3, <4>4
    <3>4. ASSUME NEW z, mv = <<z>>, Caught(es, k, ReadElement(r, z), st),
                 ReadElement(r, z).at = e.onset
          PROVE  k + 1 \in T
      <4>1. d = <<z>> \o <<y>>
        <5> HIDE DEF d, mv
        <5> QED BY <3>1, <3>4, Zenon
      <4>2. Len(d) = 2 /\ d[1] = z /\ d[2] = y /\ 1 \in 1 .. Len(d) /\ 2 \in 1 .. Len(d)
        <5>1. <<z>> \in Seq({z, y}) /\ <<y>> \in Seq({z, y})
          OBVIOUS
        <5> HIDE DEF d, mv
        <5> QED BY <4>1, <5>1
      <4>3. l + (1 - 1) = l /\ l + (2 - 1) = l + 1 /\ L(k + 1) = l + 2
        <5> HIDE DEF d
        <5> QED BY <2>6, <4>2
      <4>4. /\ g[l + 1] = ReadElement(g[l + (1 - 1)], d[1])
            /\ g[l + 2] = ReadElement(g[l + (2 - 1)], d[2])
        BY <2>8, <4>2
      <4>5. g[L(k + 1)] = ReadElement(ReadElement(r, z), y)
        <5> HIDE DEF d, y
        <5> QED BY <4>2, <4>3, <4>4
      <4> QED BY <3>2, <3>4, <4>5
    <3>5. CASE e.onset > w.at
      <4>1. mv = <<Element("forward", e.onset - w.at)>>
        BY <3>5 DEF Movement
      <4> DEFINE z == Element("forward", e.onset - w.at)
      <4>2. Caught(es, k, ReadElement(r, z), st) /\ ReadElement(r, z).at = e.onset
        <5> HIDE DEF r, w, e
        <5> QED BY <2>3, <2>4, <3>5, MovementIsRead
      <4> HIDE DEF r, w, e, mv, z, T
      <4>3. mv = <<z>>
        BY <4>1 DEF z
      <4> QED BY <3>4, <4>2, <4>3
    <3>6. CASE e.onset < w.at
      <4>1. mv = <<Element("backup", w.at - e.onset)>>
        BY <2>4, <3>6 DEF Movement
      <4> DEFINE z == Element("backup", w.at - e.onset)
      <4>2. Caught(es, k, ReadElement(r, z), st) /\ ReadElement(r, z).at = e.onset
        <5> HIDE DEF r, w, e
        <5> QED BY <2>3, <2>4, <3>6, MovementIsRead
      <4> HIDE DEF r, w, e, mv, z, T
      <4>3. mv = <<z>>
        BY <4>1 DEF z
      <4> QED BY <3>4, <4>2, <4>3
    <3>7. CASE e.onset = w.at
      <4>1. mv = <<>>
        BY <2>4, <3>7 DEF Movement
      <4> QED BY <3>3, <4>1
    <3> QED BY <2>4, <3>5, <3>6, <3>7
  <2> QED BY <2>10, <2>11
<1>8. n \in T
  <2>1. \A k \in 0 .. n : k \in T
    <3> HIDE DEF T
    <3> QED BY <1>0, <1>6, <1>7, CountsUpTo
  <2> QED BY <1>0, <2>1
<1>9. L(n) = Len(x)
  BY <1>1, <1>4 DEF WriterOf, out, n
<1>10. Caught(es, n, ElementsRead(Reading(t), x), st)
  BY <1>3, <1>8, <1>9
<1> QED BY <1>10 DEF n, x, st

\* A reader that has met what it does not take does not forget it.
LEMMA UnfitStays ==
  ASSUME NEW r \in SoundReader, NEW x \in DocElement, ~r.fits
  PROVE  ~ReadElement(r, x).fits
<1>1. r \in Reader
  BY DEF SoundReader
<1>2. \A at : ~Moved(r, at).fits
  BY <1>1 DEF Moved, Reader
<1>3. ~ReadTime(r, x).fits /\ ~ReadNote(r, x).fits
  BY <1>1 DEF ReadTime, ReadNote, Reader
<1>4. ~ReadChord(r, x).fits
  BY <1>1 DEF ReadChord, Reader
<1>5. ~[r EXCEPT !.fits = FALSE].fits
  BY <1>1 DEF Reader
<1>6. x.tag \in {"time", "forward", "backup", "note"}
  BY DEF DocElement
<1>7. \/ ReadElement(r, x) = ReadTime(r, x) \/ ReadElement(r, x) = ReadNote(r, x)
      \/ ReadElement(r, x) = ReadChord(r, x) \/ (\E at : ReadElement(r, x) = Moved(r, at))
      \/ ReadElement(r, x) = [r EXCEPT !.fits = FALSE]
  <2>1. CASE x.tag = "time"
    BY <2>1 DEF ReadElement
  <2>2. CASE x.tag = "forward"
    BY <2>2 DEF ReadElement
  <2>3. CASE x.tag = "backup"
    <3>1. CASE x.length <= r.at
      BY <2>3, <3>1 DEF ReadElement
    <3>2. CASE ~(x.length <= r.at)
      BY <2>3, <3>2 DEF ReadElement
    <3> QED BY <3>1, <3>2
  <2>4. CASE x.tag = "note"
    <3>1. CASE Legible(x) /\ ~x.chord
      BY <2>4, <3>1 DEF ReadElement
    <3>2. CASE Legible(x) /\ x.chord /\ JoinsChord(r, x)
      BY <2>4, <3>2 DEF ReadElement
    <3>3. CASE ~Legible(x) \/ (x.chord /\ ~JoinsChord(r, x))
      BY <2>4, <3>3 DEF ReadElement
    <3> QED BY <3>1, <3>2, <3>3
  <2> QED BY <1>6, <2>1, <2>2, <2>3, <2>4
<1> QED BY <1>2, <1>3, <1>4, <1>5, <1>7

\* Elements with a note whose texts cannot be read are not taken.
LEMMA IllegibleIsRefused ==
  ASSUME NEW base \in SoundReader, NEW m \in Seq(DocElement), NEW i \in 1 .. Len(m),
         m[i].tag = "note", ~Legible(m[i])
  PROVE  ~ElementsRead(base, m).fits
<1> DEFINE n == Len(m)
<1>1. PICK g \in [0 .. n -> SoundReader] :
        /\ g[0] = base /\ g[n] = ElementsRead(base, m)
        /\ \A k \in 1 .. n : g[k] = ReadElement(g[k - 1], m[k])
  BY SoundSteps
<1>2. n \in Nat /\ \A k \in 1 .. n : m[k] \in DocElement
  OBVIOUS
<1> HIDE DEF n
<1>3. i \in 1 .. n /\ i - 1 \in 0 .. n /\ n - i \in Nat /\ i + (n - i) = n
  BY <1>2 DEF n
<1>4. ~g[i].fits
  <2>1. g[i] = ReadElement(g[i - 1], m[i]) /\ g[i - 1] \in Reader
    BY <1>1, <1>3 DEF SoundReader
  <2>2. g[i] = [g[i - 1] EXCEPT !.fits = FALSE]
    BY <2>1 DEF ReadElement
  <2> QED BY <2>1, <2>2 DEF Reader
<1> DEFINE l == n - i
           T == {d \in 0 .. l : ~g[i + d].fits}
<1>5. 0 \in T
  BY <1>3, <1>4
<1>6. ASSUME NEW d \in 0 .. l - 1, d \in T PROVE d + 1 \in T
  <2>1. /\ i + (d + 1) \in 1 .. n /\ (i + (d + 1)) - 1 = i + d /\ i + d \in 0 .. n
        /\ d + 1 \in 0 .. l
    BY <1>2, <1>3
  <2>2. g[i + (d + 1)] = ReadElement(g[i + d], m[i + (d + 1)]) /\ g[i + d] \in SoundReader
    BY <1>1, <2>1
  <2>3. ~ReadElement(g[i + d], m[i + (d + 1)]).fits
    BY <1>2, <1>6, <2>1, <2>2, UnfitStays
  <2> QED BY <2>1, <2>2, <2>3
<1>7. l \in T
  <2>1. l \in Nat
    BY <1>3
  <2> HIDE DEF T, l
  <2>2. \A d \in 0 .. l : d \in T
    BY <1>5, <1>6, <2>1, CountsUpTo
  <2> QED BY <2>1, <2>2
<1> QED BY <1>1, <1>3, <1>7

\* Every event is written, as a note with its texts.
LEMMA EventIsWritten ==
  ASSUME NEW es \in Seq(ScoreEvent), NEW j \in 1 .. Len(es)
  PROVE  \E i \in 1 .. Len(EventsWritten(es).out) :
           EventsWritten(es).out[i] \in {NoteElement(es[j], TRUE), NoteElement(es[j], FALSE)}
<1> DEFINE n == Len(es)
           e == es[j]
           out == EventsWritten(es).out
<1>1. PICK h : WriterOf(es, h)
  BY WriterRuns
<1>2. n \in Nat /\ e \in ScoreEvent /\ j - 1 \in 0 .. n /\ j \in 0 .. n /\ n \in 0 .. n
  OBVIOUS
<1>3. /\ h[j - 1] \in Writer /\ h[j] = WriteEvent(h[j - 1], e)
      /\ h[n].out = out /\ Starts(out, h[j].out) /\ h[n] \in Writer
  BY <1>1, <1>2 DEF WriterOf
<1> DEFINE w == h[j - 1]
           mv == Movement(w.at, e.onset)
           d == IF Follower(e) THEN <<NoteElement(e, TRUE)>> ELSE mv \o <<NoteElement(e, FALSE)>>
           o == WriteEvent(w, e).out
<1>4. /\ d \in Seq(DocElement) /\ w.out \in Seq(DocElement) /\ o \in Seq(DocElement)
      /\ Len(o) = Len(w.out) + Len(d)
      /\ \A i \in 1 .. Len(d) : o[Len(w.out) + i] = d[i]
  <2> HIDE DEF w, e
  <2> QED BY <1>2, <1>3, WriteExtends DEF w, e
<1> DEFINE Y == {NoteElement(e, TRUE), NoteElement(e, FALSE)}
<1>5. Len(d) \in 1 .. Len(d) /\ d[Len(d)] \in Y
  <2>1. CASE Follower(e)
    <3> DEFINE y == NoteElement(e, TRUE)
    <3>1. d = <<y>>
      BY <2>1
    <3> HIDE DEF d, y
    <3>2. Len(d) = 1 /\ d[1] = y
      BY <3>1
    <3> QED BY <3>2 DEF y
  <2>2. CASE ~Follower(e)
    <3> DEFINE y == NoteElement(e, FALSE)
    <3>1. d = mv \o <<y>>
      BY <2>2
    <3>2. mv \in Seq(DocElement) /\ y \in DocElement
      <4>1. w.at \in Nat /\ e.onset \in Nat
        BY <1>2, <1>3 DEF Writer, ScoreEvent
      <4> QED BY <1>2, <4>1, WrittenElements
    <3> HIDE DEF d, y, mv
    <3>3. Len(d) = Len(mv) + 1 /\ d[Len(mv) + 1] = y /\ Len(mv) \in Nat
      BY <3>1, <3>2
    <3> QED BY <3>3 DEF y
  <2> QED BY <2>1, <2>2
<1> HIDE DEF d, o, w, out, Y
<1>6. h[j].out = o
  BY <1>3 DEF o, w
<1> DEFINE i == Len(w.out) + Len(d)
<1>7. i \in 1 .. Len(o) /\ o[i] \in Y
  <2>1. Len(w.out) \in Nat /\ Len(d) \in Nat
    BY <1>4
  <2>2. i \in 1 .. Len(o)
    BY <1>4, <1>5, <2>1
  <2> QED BY <1>4, <1>5, <2>2
<1>8. i \in 1 .. Len(out) /\ out[i] = o[i]
  <2>1. Len(o) <= Len(out) /\ \A k \in 1 .. Len(o) : out[k] = o[k]
    BY <1>3, <1>6 DEF Starts
  <2>2. out \in Seq(DocElement)
    BY <1>3 DEF Writer
  <2>3. Len(o) \in Nat /\ Len(out) \in Nat
    BY <1>4, <2>2
  <2> HIDE DEF i
  <2> QED BY <1>7, <2>1, <2>3
<1> QED BY <1>7, <1>8 DEF out, Y

\* A measure with an event whose texts cannot be read is not taken.
LEMMA IllegibleMeasure ==
  ASSUME NEW es \in Seq(ScoreEvent), NEW start \in Nat, NEW t \in Nat,
         NEW j \in 1 .. Len(es), ~Legible(es[j])
  PROVE  ~ElementsRead(Reading(t), WrittenMeasure(start, es)).fits
<1> DEFINE x == WrittenMeasure(start, es)
           out == EventsWritten(es).out
           c == IF start = 0 THEN 0 ELSE 1
           base == Reading(t)
<1>1. /\ x \in Seq(DocElement) /\ out \in Seq(DocElement) /\ Len(x) = c + Len(out)
      /\ \A i \in 1 .. Len(out) : x[c + i] = out[i]
  BY MeasureIsWritten
<1>2. PICK i \in 1 .. Len(out) : out[i] \in {NoteElement(es[j], TRUE), NoteElement(es[j], FALSE)}
  BY EventIsWritten
<1>3. c \in Nat
  OBVIOUS
<1>4. base \in SoundReader
  BY StartsSound
<1> HIDE DEF x, out, c, base
<1>5. c + i \in 1 .. Len(x)
  <2>1. Len(out) \in Nat
    BY <1>1
  <2> QED BY <1>1, <1>3, <2>1
<1>6. x[c + i].tag = "note" /\ ~Legible(x[c + i])
  BY <1>1, <1>2 DEF NoteElement, Legible
<1>7. ~ElementsRead(base, x).fits
  BY <1>1, <1>4, <1>5, <1>6, IllegibleIsRefused
<1> QED BY <1>7 DEF x, base

-----------------------------------------------------------------------------
(* Chords are told by their order.                                         *)

\* The chords that begin among the first a events.
GroupsUpTo(es, a) == {es[j].group : j \in {j \in 1 .. a : es[j].group # 0}}

\* Place a is where the chord of event i begins.
BeginsAt(es, i, a) ==
  /\ a \in DOMAIN es /\ es[a].group = es[i].group
  /\ \A j \in DOMAIN es : es[j].group = es[i].group => a <= j

\* Events of a measure, by their places.
LEMMA PlacesOfEvents ==
  ASSUME NEW m \in SoundMeasure
  PROVE  LET es == m.events
         IN  /\ es \in Seq(ScoreEvent) /\ Len(es) \in Nat /\ DOMAIN es = 1 .. Len(es)
             /\ \A i \in 1 .. Len(es) : es[i] \in ScoreEvent /\ es[i].id \in Nat
             /\ \A i, j \in 1 .. Len(es) : es[i].id <= es[j].id <=> i <= j
             /\ Together(es) /\ Indexed(es)
<1> DEFINE es == m.events
           n == Len(es)
<1>1. es \in Seq(ScoreEvent) /\ n \in Nat /\ DOMAIN es = 1 .. n /\ Rising(es)
      /\ Together(es) /\ Indexed(es)
  BY DEF SoundMeasure, ScoreMeasure
<1>2. \A i \in 1 .. n : es[i] \in ScoreEvent /\ es[i].id \in Nat
  <2> HIDE DEF es, n
  <2>1. \A i \in 1 .. n : es[i] \in ScoreEvent
    BY <1>1
  <2> QED BY <2>1 DEF ScoreEvent
<1>3. ASSUME NEW i \in 1 .. n, NEW j \in 1 .. n PROVE es[i].id <= es[j].id <=> i <= j
  <2>1. /\ i < j => es[i].id < es[j].id
        /\ j < i => es[j].id < es[i].id
        /\ es[i].id \in Nat /\ es[j].id \in Nat
    <3> HIDE DEF es, n
    <3> QED BY <1>1, <1>2 DEF Rising
  <2>2. i < j \/ j < i \/ i = j
    OBVIOUS
  <2> HIDE DEF es, n
  <2> QED BY <2>1, <2>2
<1> QED BY <1>1, <1>2, <1>3

\* A chord begins somewhere.
LEMMA ChordBegins ==
  ASSUME NEW m \in SoundMeasure, NEW i \in DOMAIN m.events
  PROVE  \E a : BeginsAt(m.events, i, a) /\ a <= i
<1> DEFINE es == m.events
           n == Len(es)
           B == {j \in 1 .. n : es[j].group = es[i].group}
<1>1. n \in Nat /\ DOMAIN es = 1 .. n /\ i \in 1 .. n
  BY PlacesOfEvents
<1>2. B \in SUBSET Nat /\ B # {} /\ i \in B
  BY <1>1
<1>3. PICK a \in B : \A k \in B : a <= k
  <2> HIDE DEF B
  <2> QED BY <1>2, LeastOf
<1> QED BY <1>1, <1>2, <1>3 DEF BeginsAt

\* The ordinal of a chord is the number of chords up to where it begins.
LEMMA OrdinalByPlace ==
  ASSUME NEW m \in SoundMeasure, NEW i \in DOMAIN m.events, m.events[i].group # 0,
         NEW a, BeginsAt(m.events, i, a)
  PROVE  /\ ChordOrdinal(m, m.events[i]) = Cardinality(GroupsUpTo(m.events, a))
         /\ IsFiniteSet(GroupsUpTo(m.events, a)) /\ GroupsUpTo(m.events, a) # {}
<1> DEFINE es == m.events
           n == Len(es)
           e == es[i]
           G == {f.group : f \in {f \in Range(es) : f.group # 0 /\ f.id <= Anchor(m, e.group).id}}
<1>1. /\ n \in Nat /\ DOMAIN es = 1 .. n
      /\ \A j \in 1 .. n : es[j].id \in Nat
      /\ \A j, k \in 1 .. n : es[j].id <= es[k].id <=> j <= k
  BY PlacesOfEvents
<1>2. i \in 1 .. n /\ a \in 1 .. n /\ es[a].group = e.group
      /\ \A j \in 1 .. n : es[j].group = e.group => a <= j
  BY <1>1 DEF BeginsAt
<1>3. \A f : f \in Range(es) <=> \E j \in 1 .. n : f = es[j]
  BY <1>1 DEF Range
<1> HIDE DEF n, es, e
<1>4. Anchor(m, e.group) = es[a]
  <2> DEFINE Foremost(f) == f \in Range(es) /\ f.group = e.group
                         /\ \A g \in Range(es) : g.group = e.group => f.id <= g.id
  <2>1. Foremost(es[a])
    BY <1>1, <1>2, <1>3
  <2>2. ASSUME NEW f, Foremost(f) PROVE f = es[a]
    <3>1. PICK j \in 1 .. n : f = es[j]
      BY <1>3, <2>2
    <3>2. es[j].id <= es[a].id /\ a <= j
      BY <1>2, <1>3, <2>2, <3>1
    <3>3. j <= a
      BY <1>1, <1>2, <3>2
    <3>4. j = a
      BY <1>1, <1>2, <3>2, <3>3
    <3> QED BY <3>1, <3>4
  <2>3. Anchor(m, e.group) = CHOOSE f : Foremost(f)
    BY DEF Anchor, es
  <2> HIDE DEF Foremost
  <2> QED BY <2>1, <2>2, <2>3
<1>5. G = GroupsUpTo(es, a)
  <2>1. ASSUME NEW g, g \in G PROVE g \in GroupsUpTo(es, a)
    <3>1. PICK f \in Range(es) : f.group # 0 /\ f.id <= es[a].id /\ g = f.group
      BY <1>4, <2>1
    <3>2. PICK j \in 1 .. n : f = es[j]
      BY <1>3, <3>1
    <3>3. j \in 1 .. a
      BY <1>1, <1>2, <3>1, <3>2
    <3> QED BY <3>1, <3>2, <3>3 DEF GroupsUpTo
  <2>2. ASSUME NEW g, g \in GroupsUpTo(es, a) PROVE g \in G
    <3>1. PICK j \in 1 .. a : es[j].group # 0 /\ g = es[j].group
      BY <2>2 DEF GroupsUpTo
    <3>2. j \in 1 .. n /\ j <= a
      BY <1>1, <1>2
    <3>3. es[j] \in Range(es) /\ es[j].id <= es[a].id
      BY <1>1, <1>2, <1>3, <3>2
    <3> QED BY <1>4, <3>1, <3>3
  <2> HIDE DEF G
  <2> QED BY <2>1, <2>2
<1>6. ChordOrdinal(m, e) = Cardinality(G)
  BY DEF ChordOrdinal, e, es
<1>7. IsFiniteSet(GroupsUpTo(es, a)) /\ GroupsUpTo(es, a) # {}
  <2> DEFINE S == {j \in 1 .. a : es[j].group # 0}
             F == [j \in S |-> es[j].group]
  <2>1. a \in Int /\ a \in S
    BY <1>1, <1>2 DEF e, es
  <2>2. IsFiniteSet(S)
    <3>1. IsFiniteSet(1 .. a) /\ S \in SUBSET (1 .. a)
      BY <2>1, FS_Interval
    <3> HIDE DEF S
    <3> QED BY <3>1, FS_Subset
  <2>3. F \in Surjection(S, GroupsUpTo(es, a))
    <3>1. F \in [S -> GroupsUpTo(es, a)]
      BY DEF GroupsUpTo
    <3>2. \A g \in GroupsUpTo(es, a) : \E j \in S : F[j] = g
      BY DEF GroupsUpTo
    <3> HIDE DEF F, S
    <3> QED BY <3>1, <3>2, Fun_IsSurj
  <2>4. IsFiniteSet(GroupsUpTo(es, a))
    <3> HIDE DEF F, S
    <3> QED BY <2>2, <2>3, FS_Surjection
  <2> QED BY <2>1, <2>4 DEF GroupsUpTo
<1> QED BY <1>5, <1>6, <1>7 DEF e, es

\* Only an event of no chord has the ordinal 0.
LEMMA OrdinalZero ==
  ASSUME NEW m \in SoundMeasure, NEW i \in DOMAIN m.events
  PROVE  ChordOrdinal(m, m.events[i]) = 0 <=> m.events[i].group = 0
<1>1. CASE m.events[i].group = 0
  BY <1>1 DEF ChordOrdinal
<1>2. CASE m.events[i].group # 0
  <2>1. PICK a : BeginsAt(m.events, i, a)
    BY ChordBegins
  <2> DEFINE G == GroupsUpTo(m.events, a)
  <2>2. ChordOrdinal(m, m.events[i]) = Cardinality(G) /\ IsFiniteSet(G) /\ G # {}
    BY <1>2, <2>1, OrdinalByPlace
  <2> HIDE DEF G
  <2>3. Cardinality(G) # 0
    BY <2>2, FS_EmptySet
  <2> QED BY <1>2, <2>2, <2>3
<1> QED BY <1>1, <1>2

\* Two sequences of events are parted into chords alike.
SameChords(es, fs) ==
  /\ Len(es) = Len(fs)
  /\ \A i \in 1 .. Len(es) : es[i].group = 0 <=> fs[i].group = 0
  /\ \A i, j \in 1 .. Len(es) :
       es[i].group # 0 /\ es[j].group # 0 =>
         (es[i].group = es[j].group <=> fs[i].group = fs[j].group)

\* Parted alike, the one has as many chords as the other.
LEMMA GroupsNoMore ==
  ASSUME NEW es, NEW fs, Len(es) \in Nat, SameChords(es, fs), NEW a \in 1 .. Len(es),
         IsFiniteSet(GroupsUpTo(es, a))
  PROVE  Cardinality(GroupsUpTo(fs, a)) <= Cardinality(GroupsUpTo(es, a))
<1> DEFINE S == GroupsUpTo(es, a)
           T == GroupsUpTo(fs, a)
           At(g) == CHOOSE j \in 1 .. a : es[j].group # 0 /\ es[j].group = g
           F == [g \in S |-> fs[At(g)].group]
<1>1. \A j \in 1 .. a : j \in 1 .. Len(es)
  OBVIOUS
<1>2. \A g \in S : At(g) \in 1 .. a /\ es[At(g)].group # 0 /\ es[At(g)].group = g
  <2> SUFFICES ASSUME NEW g \in S
               PROVE  At(g) \in 1 .. a /\ es[At(g)].group # 0 /\ es[At(g)].group = g
    OBVIOUS
  <2>1. \E j \in 1 .. a : es[j].group # 0 /\ es[j].group = g
    BY DEF GroupsUpTo
  <2> QED BY <2>1
<1> HIDE DEF At
<1>3. F \in [S -> T]
  <2> SUFFICES ASSUME NEW g \in S PROVE fs[At(g)].group \in T
    OBVIOUS
  <2>1. At(g) \in 1 .. a /\ fs[At(g)].group # 0
    BY <1>1, <1>2 DEF SameChords
  <2> QED BY <2>1 DEF GroupsUpTo
<1>4. ASSUME NEW t \in T PROVE \E g \in S : F[g] = t
  <2>1. PICK j \in 1 .. a : fs[j].group # 0 /\ t = fs[j].group
    BY DEF GroupsUpTo
  <2>2. es[j].group # 0 /\ es[j].group \in S
    BY <1>1, <2>1 DEF SameChords, GroupsUpTo
  <2> DEFINE k == At(es[j].group)
  <2>3. k \in 1 .. a /\ es[k].group # 0 /\ es[k].group = es[j].group
    BY <1>2, <2>2
  <2>4. fs[k].group = fs[j].group
    <3> HIDE DEF k
    <3> QED BY <1>1, <2>2, <2>3 DEF SameChords
  <2>5. F[es[j].group] = t
    BY <2>1, <2>2, <2>4
  <2> QED BY <2>2, <2>5
<1>5. F \in Surjection(S, T)
  <2> HIDE DEF F, S, T
  <2> QED BY <1>3, <1>4, Fun_IsSurj
<1> HIDE DEF F, S, T
<1>6. Cardinality(T) <= Cardinality(S)
  BY <1>5, FS_Surjection DEF S
<1> QED BY <1>6 DEF S, T

\* Chords parted alike have the same ordinals.
LEMMA OrdinalsAgree ==
  ASSUME NEW m \in SoundMeasure, NEW q \in SoundMeasure, SameChords(m.events, q.events),
         NEW i \in DOMAIN m.events
  PROVE  ChordOrdinal(m, m.events[i]) = ChordOrdinal(q, q.events[i])
<1> DEFINE es == m.events
           fs == q.events
<1>1. /\ Len(es) \in Nat /\ DOMAIN es = 1 .. Len(es) /\ DOMAIN fs = 1 .. Len(es)
      /\ SameChords(es, fs) /\ SameChords(fs, es) /\ i \in 1 .. Len(es) /\ Len(fs) = Len(es)
  <2>1. DOMAIN es = 1 .. Len(es) /\ DOMAIN fs = 1 .. Len(fs) /\ Len(es) \in Nat
    BY PlacesOfEvents
  <2> HIDE DEF es, fs
  <2> QED BY <2>1 DEF SameChords, es, fs
<1>2. CASE es[i].group = 0
  BY <1>1, <1>2 DEF SameChords, ChordOrdinal
<1>3. CASE es[i].group # 0
  <2>1. fs[i].group # 0
    BY <1>1, <1>3 DEF SameChords
  <2>2. PICK a : BeginsAt(es, i, a)
    BY ChordBegins
  <2>3. BeginsAt(fs, i, a) /\ a \in 1 .. Len(es)
    <3> HIDE DEF es, fs
    <3>1. a \in 1 .. Len(es) /\ es[a].group = es[i].group
          /\ \A j \in 1 .. Len(es) : es[j].group = es[i].group => a <= j
      BY <1>1, <2>2 DEF BeginsAt
    <3>2. fs[a].group = fs[i].group
      BY <1>1, <1>3, <3>1 DEF SameChords
    <3>3. ASSUME NEW j \in 1 .. Len(es), fs[j].group = fs[i].group PROVE a <= j
      <4>1. es[j].group = es[i].group
        BY <1>1, <1>3, <2>1, <3>3 DEF SameChords
      <4> QED BY <3>1, <4>1
    <3> QED BY <1>1, <3>1, <3>2, <3>3 DEF BeginsAt
  <2> DEFINE S == GroupsUpTo(es, a)
             T == GroupsUpTo(fs, a)
  <2>4. /\ ChordOrdinal(m, es[i]) = Cardinality(S) /\ IsFiniteSet(S)
        /\ ChordOrdinal(q, fs[i]) = Cardinality(T) /\ IsFiniteSet(T)
    <3>1. ChordOrdinal(m, es[i]) = Cardinality(S) /\ IsFiniteSet(S)
      BY <1>3, <2>2, OrdinalByPlace
    <3>2. ChordOrdinal(q, fs[i]) = Cardinality(T) /\ IsFiniteSet(T)
      BY <1>1, <2>1, <2>3, OrdinalByPlace
    <3> QED BY <3>1, <3>2
  <2>5. Cardinality(T) <= Cardinality(S) /\ Cardinality(S) <= Cardinality(T)
    <3> HIDE DEF es, fs
    <3> QED BY <1>1, <2>3, <2>4, GroupsNoMore
  <2>6. Cardinality(S) \in Nat /\ Cardinality(T) \in Nat
    <3> HIDE DEF S, T
    <3> QED BY <2>4, FS_CardinalityType
  <2> HIDE DEF S, T
  <2>7. Cardinality(S) = Cardinality(T)
    BY <2>5, <2>6
  <2> QED BY <2>4, <2>7
<1> QED BY <1>2, <1>3

\* Event k of a chord that begins at a is where and as its place there tells.
InPlace(es, a, k) ==
  /\ es[k].index = k - a /\ es[k].onset = es[a].onset /\ es[k].voice = es[a].voice
  /\ es[k].kind = "note"

\* A whole chord, from where it begins.
LEMMA WholeFromPlace ==
  ASSUME NEW m \in SoundMeasure, NEW i \in DOMAIN m.events, NEW a, BeginsAt(m.events, i, a)
  PROVE  ChordWhole(m, m.events[i].group) <=>
           /\ \E k \in DOMAIN m.events : k # a /\ m.events[k].group = m.events[i].group
           /\ \A k \in DOMAIN m.events :
                m.events[k].group = m.events[i].group => InPlace(m.events, a, k)
<1> DEFINE es == m.events
           n == Len(es)
           g == es[i].group
           M == {k \in DOMAIN es : es[k].group = g}
           first == CHOOSE k \in M : \A j \in M : k <= j
<1>1. n \in Nat /\ DOMAIN es = 1 .. n /\ i \in 1 .. n
  BY PlacesOfEvents
<1>2. M \in SUBSET (1 .. n) /\ a \in M /\ \A j \in M : a <= j
  BY <1>1 DEF BeginsAt
<1>3. ChordWhole(m, g) <=>
        /\ Cardinality(M) > 1
        /\ \A k \in M : /\ es[k].index = k - first /\ es[k].onset = es[first].onset
                        /\ es[k].voice = es[first].voice /\ es[k].kind = "note"
  BY DEF ChordWhole
<1> HIDE DEF n
<1>4. first = a
  <2> HIDE DEF M
  <2>1. ASSUME NEW k \in M, \A j \in M : k <= j PROVE k = a
    <3>1. k <= a /\ a <= k /\ k \in Nat /\ a \in Nat
      BY <1>2, <2>1
    <3> QED BY <3>1
  <2> QED BY <1>2, <2>1
<1>5. Cardinality(M) > 1 <=> \E k \in M : k # a
  <2> HIDE DEF M
  <2>1. IsFiniteSet(1 .. n)
    BY <1>1, FS_Interval
  <2>2. IsFiniteSet(M) /\ Cardinality(M) \in Nat
    BY <1>2, <2>1, FS_Subset, FS_CardinalityType
  <2>3. Cardinality(M) # 0
    BY <1>2, <2>2, FS_EmptySet
  <2>4. Cardinality(M) = 1 <=> \E x : M = {x}
    BY <2>2, FS_Singleton
  <2>5. (\E x : M = {x}) <=> ~ \E k \in M : k # a
    <3>1. ASSUME ~ \E k \in M : k # a PROVE M = {a}
      BY <1>2, <3>1
    <3>2. ASSUME NEW x, M = {x} PROVE ~ \E k \in M : k # a
      BY <1>2, <3>2
    <3> QED BY <3>1, <3>2
  <2> QED BY <2>2, <2>3, <2>4, <2>5
<1> HIDE DEF first
<1>6. ChordWhole(m, g) <=> (\E k \in M : k # a) /\ \A k \in M : InPlace(es, a, k)
  <2> HIDE DEF M, es, g
  <2> QED BY <1>3, <1>4, <1>5 DEF InPlace
<1> QED BY <1>6

\* No event of a chord stands alone.
Paired(es) ==
  \A j \in 1 .. Len(es) :
    es[j].group # 0 => Follower(es[j]) \/ (j < Len(es) /\ Follower(es[j + 1]))

\* What a chord that can be written, event by event, is.
LEMMA WritableIsWhole ==
  ASSUME NEW m \in SoundMeasure, Paired(m.events),
         \A k \in 1 .. Len(m.events) : WritableAt(m.events, k),
         NEW i \in DOMAIN m.events, m.events[i].group # 0
  PROVE  ChordWhole(m, m.events[i].group)
<1> DEFINE es == m.events
           n == Len(es)
           g == es[i].group
<1>1. n \in Nat /\ DOMAIN es = 1 .. n /\ i \in 1 .. n /\ Together(es) /\ Indexed(es)
      /\ \A k \in 1 .. n : es[k].index \in Nat
  <2>1. n \in Nat /\ DOMAIN es = 1 .. n /\ Together(es) /\ Indexed(es)
        /\ \A k \in 1 .. n : es[k] \in ScoreEvent
    BY PlacesOfEvents
  <2> HIDE DEF es, n
  <2> QED BY <2>1 DEF ScoreEvent, es
<1>2. PICK a : BeginsAt(es, i, a)
  BY ChordBegins
<1>3. a \in 1 .. n /\ es[a].group = g /\ \A j \in 1 .. n : es[j].group = g => a <= j
  BY <1>1, <1>2 DEF BeginsAt
<1>4. Paired(es) /\ (\A k \in 1 .. n : WritableAt(es, k)) /\ g # 0
  OBVIOUS
<1> HIDE DEF es, n, g
<1>5. es[a].index = 0 /\ ~Follower(es[a])
  <2>1. ASSUME Follower(es[a]) PROVE FALSE
    <3>1. a > 1 /\ Joined(es[a - 1], es[a])
      BY <1>3, <1>4, <2>1 DEF WritableAt
    <3>2. a - 1 \in 1 .. n /\ es[a - 1].group = g /\ a - 1 < a
      BY <1>1, <1>3, <3>1 DEF Joined
    <3> QED BY <1>1, <1>3, <3>2
  <2> QED BY <1>3, <1>4, <2>1 DEF WritableAt
<1> DEFINE T == {d \in 0 .. n - a : es[a + d].group = g => InPlace(es, a, a + d)}
<1>6. 0 \in T
  <2>1. a + 0 = a /\ a - a = 0 /\ 0 \in 0 .. n - a
    BY <1>1, <1>3
  <2>2. es[a].kind = "note"
    BY <1>3, <1>4 DEF WritableAt
  <2> QED BY <1>5, <2>1, <2>2 DEF InPlace
<1>7. ASSUME NEW d \in 0 .. (n - a) - 1, d \in T PROVE d + 1 \in T
  <2> DEFINE k == a + d
  <2>1. /\ k \in 1 .. n /\ k + 1 \in 1 .. n /\ a + (d + 1) = k + 1 /\ d + 1 \in 0 .. n - a
        /\ (k + 1) - 1 = k /\ k - a = d /\ (k + 1) - a = d + 1 /\ k < k + 1 /\ a < k + 1
        /\ (k = a \/ a < k) /\ d \in Nat
    BY <1>1, <1>3
  <2>2. es[k].group = g => InPlace(es, a, k)
    BY <1>7
  <2> HIDE DEF k
  <2>3. ASSUME es[k + 1].group = g PROVE InPlace(es, a, k + 1)
    <3>1. es[k].group = g
      <4>1. CASE k = a
        BY <1>3, <4>1
      <4>2. CASE a < k
        <5>1. \A x, y, z \in 1 .. n :
                x < y /\ y < z /\ es[x].group # 0 /\ es[x].group = es[z].group
                  => es[y].group = es[z].group
          BY <1>1 DEF Together
        <5> DEFINE z == k + 1
        <5>2. z \in 1 .. n /\ k < z /\ es[z].group = g
          BY <2>1, <2>3
        <5> HIDE DEF z
        <5> QED BY <1>3, <1>4, <2>1, <4>2, <5>1, <5>2
      <4> QED BY <2>1, <4>1, <4>2
    <3>2. InPlace(es, a, k)
      BY <2>2, <3>1
    <3>3. es[k].index < es[k + 1].index
      BY <1>1, <1>4, <2>1, <2>3, <3>1 DEF Indexed
    <3>4. Follower(es[k + 1])
      <4>1. es[k + 1].index > 0
        BY <1>1, <2>1, <3>3
      <4> QED BY <1>4, <2>3, <4>1 DEF Follower
    <3>5. Joined(es[k], es[k + 1]) /\ es[k + 1].kind = "note"
      BY <1>4, <2>1, <2>3, <3>4 DEF WritableAt
    <3>6. es[k + 1].index = d + 1
      BY <2>1, <3>2, <3>5 DEF InPlace, Joined
    <3> QED BY <2>1, <3>2, <3>5, <3>6 DEF InPlace, Joined
  <2> QED BY <2>1, <2>3
<1>8. \A k \in 1 .. n : es[k].group = g => InPlace(es, a, k)
  <2> SUFFICES ASSUME NEW k \in 1 .. n, es[k].group = g PROVE InPlace(es, a, k)
    OBVIOUS
  <2>1. a <= k /\ n - a \in Nat /\ k - a \in 0 .. n - a /\ a + (k - a) = k
    BY <1>1, <1>3
  <2>2. \A d \in 0 .. n - a : d \in T
    <3> DEFINE l == n - a
    <3>1. l \in Nat /\ 0 \in T /\ \A d \in 0 .. l - 1 : d \in T => d + 1 \in T
      BY <1>6, <1>7, <2>1
    <3> HIDE DEF l, T
    <3>2. \A d \in 0 .. l : d \in T
      BY <3>1, CountsUpTo
    <3> QED BY <3>2 DEF l
  <2> QED BY <2>1, <2>2
<1>9. a + 1 \in 1 .. n /\ es[a + 1].group = g /\ a + 1 # a
  <2>1. a < n /\ Follower(es[a + 1])
    BY <1>1, <1>3, <1>4, <1>5 DEF Paired, n
  <2>2. a + 1 \in 1 .. n /\ (a + 1) - 1 = a /\ a + 1 # a
    BY <1>1, <1>3, <2>1
  <2>3. Joined(es[a], es[a + 1])
    BY <1>4, <2>1, <2>2 DEF WritableAt
  <2> QED BY <1>3, <2>2, <2>3 DEF Joined
<1> QED BY <1>1, <1>2, <1>8, <1>9, WholeFromPlace DEF es, g

\* What a document can say of an event, but for its chord.
Sayable(e) ==
  e.kind # "unpitched" /\ e.look \in ExactLook /\ (e.grace => e.length = 0)

\* A measure with whole chords can be written, event by event.
LEMMA WholeIsWritable ==
  ASSUME NEW m \in SoundMeasure,
         \A e \in Range(m.events) : Sayable(e) /\ (e.group # 0 => ChordWhole(m, e.group))
  PROVE  Paired(m.events) /\ \A k \in 1 .. Len(m.events) : WritableAt(m.events, k)
<1> DEFINE es == m.events
           n == Len(es)
<1>1. n \in Nat /\ DOMAIN es = 1 .. n /\ Together(es) /\ Indexed(es)
      /\ \A k \in 1 .. n : es[k].index \in Nat
  <2>1. n \in Nat /\ DOMAIN es = 1 .. n /\ Together(es) /\ Indexed(es)
        /\ \A k \in 1 .. n : es[k] \in ScoreEvent
    BY PlacesOfEvents
  <2> HIDE DEF es, n
  <2> QED BY <2>1 DEF ScoreEvent, es
<1>2. ASSUME NEW i \in 1 .. n, es[i].group # 0
      PROVE  \E a \in 1 .. n :
               /\ a <= i /\ es[a].group = es[i].group
               /\ \E k \in 1 .. n : a < k /\ es[k].group = es[i].group
               /\ \A k \in 1 .. n : es[k].group = es[i].group => a <= k /\ InPlace(es, a, k)
  <2>1. PICK a : BeginsAt(es, i, a) /\ a <= i
    BY <1>1, ChordBegins
  <2>2. es[i] \in Range(es)
    BY <1>1 DEF Range
  <2>3. ChordWhole(m, es[i].group)
    BY <1>2, <2>2
  <2>4. /\ \E k \in DOMAIN es : k # a /\ es[k].group = es[i].group
        /\ \A k \in DOMAIN es : es[k].group = es[i].group => InPlace(es, a, k)
    BY <1>1, <2>1, <2>3, WholeFromPlace
  <2> HIDE DEF es, n
  <2>5. a \in 1 .. n /\ es[a].group = es[i].group
        /\ \A j \in 1 .. n : es[j].group = es[i].group => a <= j
    BY <1>1, <2>1 DEF BeginsAt
  <2>6. PICK k \in 1 .. n : k # a /\ es[k].group = es[i].group
    BY <1>1, <2>4
  <2>7. a < k
    BY <1>1, <2>5, <2>6
  <2> QED BY <1>1, <2>1, <2>4, <2>5, <2>6, <2>7
<1>3. \A k \in 1 .. n : Sayable(es[k])
  <2>1. \A k \in 1 .. n : es[k] \in Range(es)
    BY <1>1 DEF Range
  <2> QED BY <2>1
<1> HIDE DEF es, n
<1>4. ASSUME NEW k \in 1 .. n PROVE WritableAt(es, k)
  <2>1. CASE es[k].group = 0
    BY <1>1, <1>3, <2>1 DEF Indexed, WritableAt, Follower, Sayable
  <2>2. CASE es[k].group # 0
    <3>1. PICK a \in 1 .. n :
            /\ a <= k /\ es[a].group = es[k].group
            /\ \A j \in 1 .. n : es[j].group = es[k].group => a <= j /\ InPlace(es, a, j)
      BY <1>2, <2>2
    <3>2. InPlace(es, a, k)
      BY <3>1
    <3>3. ASSUME Follower(es[k]) PROVE k > 1 /\ Joined(es[k - 1], es[k])
      <4>1. es[k].index > 0 /\ es[k].index = k - a
        BY <3>2, <3>3 DEF Follower, InPlace
      <4>2. a < k
        BY <1>1, <3>1, <4>1
      <4>3. /\ k > 1 /\ k - 1 \in 1 .. n /\ (a = k - 1 \/ a < k - 1) /\ k - 1 < k
            /\ ((k - 1) - a) + 1 = k - a
        BY <1>1, <4>2
      <4>4. es[k - 1].group = es[k].group
        BY <1>1, <2>2, <3>1, <4>3 DEF Together
      <4>5. InPlace(es, a, k - 1)
        BY <3>1, <4>3, <4>4
      <4>6. es[k].index = es[k - 1].index + 1
        BY <4>1, <4>3, <4>5 DEF InPlace
      <4> QED BY <3>2, <4>3, <4>4, <4>5, <4>6 DEF InPlace, Joined
    <3>4. ASSUME ~Follower(es[k]) PROVE es[k].index = 0
      BY <1>1, <2>2, <3>4 DEF Follower
    <3> QED BY <1>3, <3>2, <3>3, <3>4 DEF WritableAt, InPlace, Sayable
  <2> QED BY <2>1, <2>2
<1>5. ASSUME NEW j \in 1 .. n, es[j].group # 0, ~Follower(es[j])
      PROVE  j < n /\ Follower(es[j + 1])
  <2>1. PICK a \in 1 .. n :
          /\ a <= j /\ es[a].group = es[j].group
          /\ \E k \in 1 .. n : a < k /\ es[k].group = es[j].group
          /\ \A k \in 1 .. n : es[k].group = es[j].group => a <= k /\ InPlace(es, a, k)
    BY <1>2, <1>5
  <2>2. es[j].index = 0 /\ es[j].index = j - a
    BY <1>1, <1>5, <2>1 DEF Follower, InPlace
  <2>3. a = j
    BY <1>1, <2>1, <2>2
  <2>4. PICK k \in 1 .. n : j < k /\ es[k].group = es[j].group
    BY <2>1, <2>3
  <2>5. j + 1 \in 1 .. n /\ j < n /\ j < j + 1 /\ (j + 1 = k \/ j + 1 < k) /\ (j + 1) - j = 1
    BY <1>1, <2>4
  <2>6. es[j + 1].group = es[j].group
    BY <1>1, <1>5, <2>4, <2>5 DEF Together
  <2>7. InPlace(es, a, j + 1)
    BY <2>1, <2>5, <2>6
  <2>8. es[j + 1].index = 1
    BY <2>3, <2>5, <2>7 DEF InPlace
  <2> QED BY <1>5, <2>5, <2>6, <2>8 DEF Follower
<1>6. Paired(es)
  BY <1>5 DEF Paired, n
<1> QED BY <1>4, <1>6 DEF es, n

\* What can be written of a measure and comes back is what a document can say.
LEMMA WholeIffWritable ==
  ASSUME NEW m \in SoundMeasure
  PROVE  (Paired(m.events) /\ \A k \in 1 .. Len(m.events) : WritableAt(m.events, k)) <=>
           \A e \in Range(m.events) : Sayable(e) /\ (e.group # 0 => ChordWhole(m, e.group))
<1>1. ASSUME Paired(m.events), \A k \in 1 .. Len(m.events) : WritableAt(m.events, k),
             NEW e \in Range(m.events)
      PROVE  Sayable(e) /\ (e.group # 0 => ChordWhole(m, e.group))
  <2>1. DOMAIN m.events = 1 .. Len(m.events)
    BY PlacesOfEvents
  <2>2. PICK i \in 1 .. Len(m.events) : e = m.events[i]
    BY <2>1 DEF Range
  <2>3. Sayable(e)
    BY <1>1, <2>2 DEF WritableAt, Sayable
  <2>4. e.group # 0 => ChordWhole(m, e.group)
    BY <1>1, <2>1, <2>2, WritableIsWhole
  <2> QED BY <2>3, <2>4
<1> QED BY <1>1, WholeIsWritable

-----------------------------------------------------------------------------
(* What was read back says the same.                                       *)

\* The chords of a measure that was read back are numbered as they were if no
\* event of a chord stands alone, and only then.
LEMMA ReadBackOrdinals ==
  ASSUME NEW m \in SoundMeasure, NEW q \in SoundMeasure,
         ReadBack(m.events, Len(m.events), q.events)
  PROVE  (\A i \in DOMAIN m.events :
            ChordOrdinal(q, q.events[i]) = ChordOrdinal(m, m.events[i])) <=> Paired(m.events)
<1> DEFINE es == m.events
           fs == q.events
           n == Len(es)
           Beside(j) == Follower(es[j]) \/ (j < n /\ Follower(es[j + 1]))
<1>1. /\ n \in Nat /\ DOMAIN es = 1 .. n /\ DOMAIN fs = 1 .. n /\ Len(fs) = n
      /\ Indexed(es) /\ \A i \in 1 .. n : es[i].index \in Nat
  <2>1. /\ n \in Nat /\ DOMAIN es = 1 .. n /\ DOMAIN fs = 1 .. Len(fs) /\ Indexed(es)
        /\ \A i \in 1 .. n : es[i] \in ScoreEvent
    BY PlacesOfEvents
  <2>2. Len(fs) = n
    BY DEF ReadBack
  <2> HIDE DEF es, fs, n
  <2> QED BY <2>1, <2>2 DEF ScoreEvent
<1>2. /\ \A j \in 1 .. n : fs[j].group # 0 <=> Beside(j)
      /\ \A j \in 1 .. n : fs[j].group # 0 =>
           /\ fs[j].group \in 1 .. j /\ ~Follower(es[fs[j].group])
           /\ es[j].group # 0 /\ es[fs[j].group].group = es[j].group
  BY DEF ReadBack
<1>3. \A i \in 1 .. n : /\ ChordOrdinal(m, es[i]) = 0 <=> es[i].group = 0
                        /\ ChordOrdinal(q, fs[i]) = 0 <=> fs[i].group = 0
  BY <1>1, OrdinalZero
<1>4. ASSUME \A i \in 1 .. n : ChordOrdinal(q, fs[i]) = ChordOrdinal(m, es[i])
      PROVE  \A j \in 1 .. n : es[j].group # 0 => Beside(j)
  <2> HIDE DEF Beside, es, fs, n
  <2> QED BY <1>2, <1>3, <1>4
<1>5. ASSUME \A j \in 1 .. n : es[j].group # 0 => Beside(j)
      PROVE  \A i \in 1 .. n : ChordOrdinal(q, fs[i]) = ChordOrdinal(m, es[i])
  <2> HIDE DEF Beside
  <2>1. \A i \in 1 .. n : es[i].group = 0 <=> fs[i].group = 0
    <3> HIDE DEF es, fs, n
    <3> QED BY <1>2, <1>5
  <2>2. ASSUME NEW i \in 1 .. n, NEW j \in 1 .. n, es[i].group # 0, es[j].group # 0
        PROVE  es[i].group = es[j].group <=> fs[i].group = fs[j].group
    <3> DEFINE a == fs[i].group
               b == fs[j].group
    <3>1. /\ a \in 1 .. n /\ ~Follower(es[a]) /\ es[a].group = es[i].group
          /\ b \in 1 .. n /\ ~Follower(es[b]) /\ es[b].group = es[j].group
      <4>1. fs[i].group # 0 /\ fs[j].group # 0
        BY <2>1, <2>2
      <4>2. /\ a \in 1 .. i /\ ~Follower(es[a]) /\ es[a].group = es[i].group
            /\ b \in 1 .. j /\ ~Follower(es[b]) /\ es[b].group = es[j].group
        BY <1>2, <4>1
      <4>3. \A x \in 1 .. i : x \in 1 .. n
        BY <1>1
      <4>4. \A x \in 1 .. j : x \in 1 .. n
        BY <1>1
      <4> QED BY <4>2, <4>3, <4>4
    <3> HIDE DEF a, b, es, n
    <3>2. es[a].index = 0 /\ es[b].index = 0
      BY <1>1, <2>2, <3>1 DEF Follower
    <3>3. ASSUME es[i].group = es[j].group PROVE a = b
      <4>1. ~(a < b) /\ ~(b < a)
        BY <1>1, <2>2, <3>1, <3>2, <3>3 DEF Indexed
      <4> QED BY <1>1, <3>1, <4>1
    <3>4. ASSUME a = b PROVE es[i].group = es[j].group
      BY <3>1, <3>4
    <3> QED BY <3>3, <3>4 DEF a, b
  <2>3. SameChords(es, fs)
    <3> HIDE DEF es, fs
    <3> QED BY <1>1, <2>1, <2>2 DEF SameChords
  <2> QED BY <1>1, <2>3, OrdinalsAgree
<1>6. Paired(es) <=> \A j \in 1 .. n : es[j].group # 0 => Beside(j)
  BY DEF Paired
<1> QED BY <1>1, <1>4, <1>5, <1>6

\* What is said of the events of a measure.
SaidEvents(m) ==
  [i \in DOMAIN m.events |->
     [m.events[i] EXCEPT !.id = 0, !.group = ChordOrdinal(m, m.events[i])]]

\* The texts of an event are read as they were.
TextKept(e) == LookRead[e.look] = e.look /\ VoiceRead[e.voice] = e.voice

\* The events of a measure that was read back say the same under that condition,
\* if their texts are read as they were.
LEMMA SaidAgain ==
  ASSUME NEW m \in SoundMeasure, NEW q \in SoundMeasure,
         ReadBack(m.events, Len(m.events), q.events)
  PROVE  SaidEvents(q) = SaidEvents(m) <=>
           Paired(m.events) /\ \A i \in DOMAIN m.events : TextKept(m.events[i])
<1> DEFINE es == m.events
           fs == q.events
           n == Len(es)
           Om(i) == ChordOrdinal(m, es[i])
           Oq(i) == ChordOrdinal(q, fs[i])
<1>1. /\ DOMAIN es = 1 .. n /\ DOMAIN fs = 1 .. n
      /\ \A i \in 1 .. n : es[i] \in ScoreEvent /\ fs[i] \in ScoreEvent /\ ReadAs(fs[i], es[i])
  <2>1. /\ DOMAIN es = 1 .. n /\ DOMAIN fs = 1 .. Len(fs)
        /\ \A i \in 1 .. n : es[i] \in ScoreEvent
        /\ \A i \in 1 .. Len(fs) : fs[i] \in ScoreEvent
    BY PlacesOfEvents
  <2>2. Len(fs) = n /\ \A i \in 1 .. n : ReadAs(fs[i], es[i])
    BY DEF ReadBack
  <2> HIDE DEF es, fs, n
  <2> QED BY <2>1, <2>2
<1>2. SaidEvents(q) = [i \in 1 .. n |-> [fs[i] EXCEPT !.id = 0, !.group = Oq(i)]]
  BY <1>1 DEF SaidEvents
<1>3. SaidEvents(m) = [i \in 1 .. n |-> [es[i] EXCEPT !.id = 0, !.group = Om(i)]]
  BY <1>1 DEF SaidEvents
<1> HIDE DEF es, fs, n, Om, Oq
<1>4. ASSUME NEW i \in 1 .. n
      PROVE  [fs[i] EXCEPT !.id = 0, !.group = Oq(i)] = [es[i] EXCEPT !.id = 0, !.group = Om(i)]
               <=> Oq(i) = Om(i) /\ TextKept(es[i])
  <2> DEFINE e == es[i]
             f == fs[i]
             x == Oq(i)
             y == Om(i)
  <2>1. e \in ScoreEvent /\ f \in ScoreEvent /\ ReadAs(f, e)
    BY <1>1
  <2> HIDE DEF e, f, x, y
  <2>2. /\ [f EXCEPT !.id = 0, !.group = x].group = x /\ [e EXCEPT !.id = 0, !.group = y].group = y
        /\ [f EXCEPT !.id = 0, !.group = x].look = f.look
        /\ [e EXCEPT !.id = 0, !.group = y].look = e.look
        /\ [f EXCEPT !.id = 0, !.group = x].voice = f.voice
        /\ [e EXCEPT !.id = 0, !.group = y].voice = e.voice
    BY <2>1 DEF ScoreEvent
  <2>3. ASSUME x = y, TextKept(e)
        PROVE  [f EXCEPT !.id = 0, !.group = x] = [e EXCEPT !.id = 0, !.group = y]
    BY <2>1, <2>3 DEF ScoreEvent, ReadAs, TextKept
  <2>4. ASSUME [f EXCEPT !.id = 0, !.group = x] = [e EXCEPT !.id = 0, !.group = y]
        PROVE  x = y /\ TextKept(e)
    <3>1. x = y /\ f.look = e.look /\ f.voice = e.voice
      BY <2>2, <2>4
    <3> QED BY <2>1, <3>1 DEF ReadAs, TextKept
  <2>5. [f EXCEPT !.id = 0, !.group = x] = [e EXCEPT !.id = 0, !.group = y]
          <=> x = y /\ TextKept(e)
    BY <2>3, <2>4
  <2> QED BY <2>5 DEF e, f, x, y
<1>5. SaidEvents(q) = SaidEvents(m) <=> \A i \in 1 .. n : Oq(i) = Om(i) /\ TextKept(es[i])
  <2>1. ASSUME SaidEvents(q) = SaidEvents(m), NEW i \in 1 .. n
        PROVE  Oq(i) = Om(i) /\ TextKept(es[i])
    <3> DEFINE f == [fs[i] EXCEPT !.id = 0, !.group = Oq(i)]
               e == [es[i] EXCEPT !.id = 0, !.group = Om(i)]
    <3>1. SaidEvents(q)[i] = f /\ SaidEvents(m)[i] = e
      BY <1>2, <1>3
    <3>2. f = e <=> Oq(i) = Om(i) /\ TextKept(es[i])
      BY <1>4
    <3> HIDE DEF f, e
    <3>3. f = e
      BY <2>1, <3>1
    <3> QED BY <3>2, <3>3, Zenon
  <2>2. ASSUME \A i \in 1 .. n : Oq(i) = Om(i) /\ TextKept(es[i])
        PROVE  SaidEvents(q) = SaidEvents(m)
    BY <1>2, <1>3, <1>4, <2>2
  <2> QED BY <2>1, <2>2
<1>6. (\A i \in DOMAIN es : Oq(i) = Om(i)) <=> Paired(es)
  BY ReadBackOrdinals DEF es, fs, Om, Oq
<1> QED BY <1>1, <1>5, <1>6 DEF es

-----------------------------------------------------------------------------
(* A part, read measure by measure.                                        *)

\* The signature a measure is read under, before one is found in it.
TimeBefore(read, n) == IF n = 1 THEN 0 ELSE read[n - 1].time

\* Every measure is read once, under the signature the one before it ended with.
LEMMA PartReads ==
  ASSUME NEW ms \in Seq(Seq(DocElement))
  PROVE  LET read == ReadPart(ms)
         IN  /\ read \in Seq(SoundReader) /\ Len(read) = Len(ms)
             /\ \A n \in 1 .. Len(ms) : read[n] = ElementsRead(Reading(TimeBefore(read, n)), ms[n])
<1> DEFINE l == Len(ms)
<1>1. PICK h : PartOf(h, Seq(SoundReader), <<>>, ms)
  BY PartIsSound
<1>2. l \in Nat /\ \A i \in 1 .. l : ms[i] \in Seq(DocElement)
  OBVIOUS
<1>3. /\ h \in [0 .. l -> Seq(SoundReader)] /\ h[0] = <<>> /\ h[l] = ReadPart(ms)
      /\ \A i \in 1 .. l : h[i] = ReadMeasure(h[i - 1], ms[i])
  BY <1>1 DEF PartOf, ReadPart, MeasuresRead
<1> DEFINE Good(read, i) ==
             /\ Len(read) = i
             /\ \A n \in 1 .. i : read[n] = ElementsRead(Reading(TimeBefore(read, n)), ms[n])
           T == {i \in 0 .. l : Good(h[i], i)}
<1> HIDE DEF l
<1>4. 0 \in T
  BY <1>2, <1>3
<1>5. ASSUME NEW i \in 0 .. l - 1, i \in T PROVE i + 1 \in T
  <2> DEFINE a == h[i]
             b == h[i + 1]
             x == ElementsRead(Reading(IF a = <<>> THEN 0 ELSE Last(a).time), ms[i + 1])
  <2>1. i + 1 \in 0 .. l /\ i + 1 \in 1 .. l /\ (i + 1) - 1 = i /\ i \in 0 .. l /\ i \in Nat
    BY <1>2
  <2>2. a \in Seq(SoundReader) /\ b \in Seq(SoundReader) /\ Good(a, i)
    BY <1>3, <1>5, <2>1
  <2>3. b = Append(a, x)
    <3>1. b = ReadMeasure(a, ms[i + 1])
      BY <1>3, <2>1
    <3> QED BY <3>1 DEF ReadMeasure, ElementsRead
  <2> HIDE DEF a, b, x
  <2>4. Len(b) = i + 1 /\ b[i + 1] = x /\ \A n \in 1 .. i : b[n] = a[n]
    BY <2>1, <2>2, <2>3
  <2>5. ASSUME NEW n \in 1 .. i PROVE b[n] = ElementsRead(Reading(TimeBefore(b, n)), ms[n])
    <3>1. TimeBefore(b, n) = TimeBefore(a, n)
      <4>1. n = 1 \/ n - 1 \in 1 .. i
        BY <2>1
      <4> QED BY <2>4, <4>1 DEF TimeBefore
    <3> QED BY <2>2, <2>4, <3>1
  <2>6. b[i + 1] = ElementsRead(Reading(TimeBefore(b, i + 1)), ms[i + 1])
    <3>1. (IF a = <<>> THEN 0 ELSE Last(a).time) = TimeBefore(b, i + 1)
      <4>1. CASE i = 0
        BY <2>2, <4>1 DEF TimeBefore
      <4>2. CASE i # 0
        <5>1. i \in 1 .. i /\ i + 1 # 1
          BY <2>1, <4>2
        <5>2. a # <<>> /\ Last(a) = a[i]
          BY <2>2, <4>2 DEF Last
        <5> QED BY <2>1, <2>4, <5>1, <5>2 DEF TimeBefore
      <4> QED BY <4>1, <4>2
    <3> QED BY <2>4, <3>1 DEF x
  <2>7. \A n \in 1 .. i + 1 : n \in 1 .. i \/ n = i + 1
    BY <2>1
  <2>8. Good(b, i + 1)
    BY <2>4, <2>5, <2>6, <2>7
  <2> QED BY <2>1, <2>8 DEF b
<1>6. l \in T
  <2> HIDE DEF T
  <2>1. \A i \in 0 .. l : i \in T
    BY <1>2, <1>4, <1>5, CountsUpTo
  <2> QED BY <1>2, <2>1
<1>7. Good(ReadPart(ms), l)
  BY <1>3, <1>6
<1>8. ReadPart(ms) \in Seq(SoundReader)
  BY PartIsSound
<1> QED BY <1>7, <1>8 DEF l

\* What is written of a part.
WrittenPart(part) ==
  [n \in DOMAIN part |-> WrittenMeasure(part[n].start, part[n].events)]

\* It is made of elements of a document, a measure for a measure.
LEMMA PartIsWritten ==
  ASSUME NEW part \in Seq(SoundMeasure)
  PROVE  /\ WrittenPart(part) \in Seq(Seq(DocElement)) /\ Len(WrittenPart(part)) = Len(part)
         /\ \A n \in 1 .. Len(part) :
              /\ part[n] \in SoundMeasure /\ part[n].start \in Nat
              /\ part[n].events \in Seq(ScoreEvent)
<1> DEFINE l == Len(part)
<1>1. l \in Nat /\ DOMAIN part = 1 .. l /\ \A n \in 1 .. l : part[n] \in SoundMeasure
  OBVIOUS
<1>2. \A n \in 1 .. l : part[n].start \in Nat /\ part[n].events \in Seq(ScoreEvent)
  <2> HIDE DEF l
  <2> QED BY <1>1 DEF SoundMeasure, ScoreMeasure
<1> HIDE DEF l
<1>3. \A n \in 1 .. l : WrittenMeasure(part[n].start, part[n].events) \in Seq(DocElement)
  BY <1>2, MeasureIsWritten
<1> DEFINE X == Seq(DocElement)
           w == [n \in 1 .. l |-> WrittenMeasure(part[n].start, part[n].events)]
<1>4. WrittenPart(part) = w
  BY <1>1 DEF WrittenPart
<1>5. w \in [1 .. l -> X]
  BY <1>3
<1> HIDE DEF X, w
<1>6. w \in Seq(X) /\ Len(w) = l
  BY <1>1, <1>5
<1> QED BY <1>1, <1>2, <1>4, <1>6 DEF X, l

\* What was written of a part is read measure by measure.
LEMMA WrittenPartReads ==
  ASSUME NEW part \in Seq(SoundMeasure)
  PROVE  LET read == ReadPart(WrittenPart(part))
         IN  /\ read \in Seq(SoundReader) /\ Len(read) = Len(part)
             /\ \A n \in 1 .. Len(part) :
                  /\ part[n].start \in Nat /\ part[n].events \in Seq(ScoreEvent)
                  /\ TimeBefore(read, n) \in Nat
                  /\ read[n] = ElementsRead(Reading(TimeBefore(read, n)),
                                            WrittenMeasure(part[n].start, part[n].events))
<1> DEFINE ms == WrittenPart(part)
           read == ReadPart(ms)
           l == Len(part)
<1>1. /\ ms \in Seq(Seq(DocElement)) /\ Len(ms) = l
      /\ \A n \in 1 .. l : part[n].start \in Nat /\ part[n].events \in Seq(ScoreEvent)
  BY PartIsWritten
<1>2. /\ read \in Seq(SoundReader) /\ Len(read) = l
      /\ \A n \in 1 .. l : read[n] = ElementsRead(Reading(TimeBefore(read, n)), ms[n])
  <2> HIDE DEF ms, l
  <2> QED BY <1>1, PartReads
<1>3. \A n \in 1 .. l : ms[n] = WrittenMeasure(part[n].start, part[n].events)
  <2>1. DOMAIN part = 1 .. l
    OBVIOUS
  <2> QED BY <2>1 DEF WrittenPart
<1>4. l \in Nat
  OBVIOUS
<1> HIDE DEF ms, read, l
<1>5. ASSUME NEW n \in 1 .. l PROVE TimeBefore(read, n) \in Nat
  <2>1. CASE n = 1
    BY <2>1 DEF TimeBefore
  <2>2. CASE n # 1
    <3>1. n - 1 \in 1 .. l
      BY <1>4, <2>2
    <3>2. read[n - 1] \in SoundReader
      BY <1>2, <3>1
    <3>3. read[n - 1].time \in Nat
      BY <3>2 DEF SoundReader, Reader
    <3> QED BY <2>2, <3>3 DEF TimeBefore
  <2> QED BY <2>1, <2>2
<1> QED BY <1>1, <1>2, <1>3, <1>5 DEF ms, read, l

\* A part whose events can be written is read back, measure by measure, if their
\* texts can be read.
LEMMA PartIsReadBack ==
  ASSUME NEW part \in Seq(SoundMeasure),
         \A n \in 1 .. Len(part) : \A j \in 1 .. Len(part[n].events) :
           WritableAt(part[n].events, j) /\ Legible(part[n].events[j])
  PROVE  LET read == ReadPart(WrittenPart(part))
         IN  /\ read \in Seq(SoundReader) /\ Len(read) = Len(part)
             /\ \A n \in 1 .. Len(part) :
                  Caught(part[n].events, Len(part[n].events), read[n],
                         IF part[n].start = 0 THEN TimeBefore(read, n) ELSE part[n].start)
<1> DEFINE read == ReadPart(WrittenPart(part))
           l == Len(part)
<1>1. /\ read \in Seq(SoundReader) /\ Len(read) = l
      /\ \A n \in 1 .. l :
           /\ part[n].start \in Nat /\ part[n].events \in Seq(ScoreEvent)
           /\ TimeBefore(read, n) \in Nat
           /\ read[n] = ElementsRead(Reading(TimeBefore(read, n)),
                                     WrittenMeasure(part[n].start, part[n].events))
  BY WrittenPartReads
<1> HIDE DEF read
<1>2. ASSUME NEW n \in 1 .. l
      PROVE  Caught(part[n].events, Len(part[n].events), read[n],
                    IF part[n].start = 0 THEN TimeBefore(read, n) ELSE part[n].start)
  <2> DEFINE es == part[n].events
             start == part[n].start
             t == TimeBefore(read, n)
  <2>1. /\ es \in Seq(ScoreEvent) /\ start \in Nat /\ t \in Nat
        /\ \A j \in 1 .. Len(es) : WritableAt(es, j) /\ Legible(es[j])
        /\ read[n] = ElementsRead(Reading(t), WrittenMeasure(start, es))
    BY <1>1
  <2> HIDE DEF es, start, t
  <2>2. Caught(es, Len(es), read[n], IF start = 0 THEN t ELSE start)
    BY <2>1, MeasureIsReadBack
  <2> QED BY <2>2 DEF es, start, t
<1> QED BY <1>1, <1>2 DEF read

\* A part with an event whose texts cannot be read is not taken.
LEMMA IllegiblePart ==
  ASSUME NEW part \in Seq(SoundMeasure), NEW n \in 1 .. Len(part),
         NEW j \in 1 .. Len(part[n].events), ~Legible(part[n].events[j])
  PROVE  ~ReadPart(WrittenPart(part))[n].fits
<1> DEFINE read == ReadPart(WrittenPart(part))
           es == part[n].events
           start == part[n].start
           t == TimeBefore(read, n)
<1>1. /\ start \in Nat /\ es \in Seq(ScoreEvent) /\ t \in Nat
      /\ read[n] = ElementsRead(Reading(t), WrittenMeasure(start, es))
  BY WrittenPartReads
<1>2. j \in 1 .. Len(es) /\ ~Legible(es[j])
  OBVIOUS
<1> HIDE DEF read, es, start, t
<1>3. ~read[n].fits
  BY <1>1, <1>2, IllegibleMeasure
<1> QED BY <1>3 DEF read

\* A measure without a signature is read under that of the one before it.
StartFollows(part, n) == part[n].start = 0 => n = 1 \/ part[n - 1].start = 0

\* The signatures come back if a measure without one follows none, and only then.
LEMMA StartsAgain ==
  ASSUME NEW part, NEW read, NEW l \in Nat, \A n \in 1 .. l : part[n].start \in Nat,
         \A n \in 1 .. l : /\ read[n].start = IF part[n].start = 0 THEN TimeBefore(read, n)
                                              ELSE part[n].start
                           /\ read[n].time = read[n].start
  PROVE  (\A n \in 1 .. l : read[n].start = part[n].start) <=> \A n \in 1 .. l : StartFollows(part, n)
<1>1. ASSUME \A n \in 1 .. l : read[n].start = part[n].start, NEW n \in 1 .. l
      PROVE  StartFollows(part, n)
  <2> SUFFICES ASSUME part[n].start = 0, n # 1 PROVE part[n - 1].start = 0
    BY DEF StartFollows
  <2>1. n - 1 \in 1 .. l
    OBVIOUS
  <2>2. read[n].start = read[n - 1].time /\ read[n].start = 0
    BY <1>1 DEF TimeBefore
  <2> QED BY <1>1, <2>1, <2>2
<1>2. ASSUME \A n \in 1 .. l : StartFollows(part, n), NEW n \in 1 .. l
      PROVE  read[n].start = part[n].start
  <2> DEFINE T == {i \in 0 .. l : \A k \in 1 .. i : read[k].start = part[k].start}
  <2>1. 0 \in T
    OBVIOUS
  <2>2. ASSUME NEW i \in 0 .. l - 1, i \in T PROVE i + 1 \in T
    <3>1. i + 1 \in 1 .. l /\ i + 1 \in 0 .. l /\ i \in Nat /\ (i + 1) - 1 = i
      OBVIOUS
    <3>2. read[i + 1].start = part[i + 1].start
      <4>1. CASE part[i + 1].start # 0
        BY <3>1, <4>1
      <4>2. CASE part[i + 1].start = 0 /\ i + 1 = 1
        BY <3>1, <4>2 DEF TimeBefore
      <4>3. CASE part[i + 1].start = 0 /\ i + 1 # 1
        <5>1. part[i].start = 0
          BY <1>2, <3>1, <4>3 DEF StartFollows
        <5>2. i \in 1 .. l /\ i \in 1 .. i
          BY <3>1, <4>3
        <5>3. read[i].start = 0 /\ read[i].time = 0
          BY <2>2, <5>1, <5>2
        <5>4. read[i + 1].start = TimeBefore(read, i + 1)
          BY <3>1, <4>3
        <5> QED BY <3>1, <4>3, <5>3, <5>4 DEF TimeBefore
      <4> QED BY <4>1, <4>2, <4>3
    <3>3. \A k \in 1 .. i + 1 : k \in 1 .. i \/ k = i + 1
      BY <3>1
    <3> QED BY <2>2, <3>1, <3>2, <3>3
  <2>3. \A i \in 0 .. l : i \in T
    <3> HIDE DEF T
    <3> QED BY <2>1, <2>2, CountsUpTo
  <2>4. l \in T
    BY <2>3
  <2> QED BY <2>4
<1> QED BY <1>1, <1>2

-----------------------------------------------------------------------------
(* An artifact is made exactly if a document can say the score.            *)

\* Each event of a measure can be written, by the event before it.
AllWritable(m) == \A k \in 1 .. Len(m.events) : WritableAt(m.events, k)

\* A measure is emitted exactly if it has no change of signature, its times can be
\* counted and each of its events can be written.
LEMMA EmittableIs ==
  ASSUME NEW m \in SoundMeasure
  PROVE  Emittable(m) <=> m.changes = {} /\ AllWritable(m) /\ Countable(m)
<1> DEFINE es == m.events
           n == Len(es)
<1>1. es \in Seq(ScoreEvent) /\ n \in Nat
  BY PlacesOfEvents
<1>2. PICK h : WriterOf(es, h)
  BY <1>1, WriterRuns
<1>3. n \in 0 .. n
  BY <1>1
<1>4. h[n] = EventsWritten(es) /\ (h[n].fits <=> \A j \in 1 .. n : WritableAt(es, j))
  BY <1>2, <1>3 DEF WriterOf
<1>5. WriteMeasure(m) = EventsWritten(es)
  BY DEF WriteMeasure, EventsWritten
<1> QED BY <1>4, <1>5 DEF Emittable, AllWritable

\* The texts of a measure can be read; they are read as they were.
AllLegible(m) == \A i \in 1 .. Len(m.events) : Legible(m.events[i])
AllKept(m)    == \A i \in DOMAIN m.events : TextKept(m.events[i])

\* What a document can say of a measure, but for where it starts.
Sayings(m) ==
  /\ m.changes = {} /\ Countable(m)
  /\ \A e \in Range(m.events) : Sayable(e) /\ SameText(e) /\ (e.group # 0 => ChordWhole(m, e.group))

\* It is what can be emitted, if no event of a chord stands alone and its texts
\* are read as they were.
LEMMA SayingsAre ==
  ASSUME NEW m \in SoundMeasure
  PROVE  Sayings(m) <=> Emittable(m) /\ Paired(m.events) /\ AllLegible(m) /\ AllKept(m)
<1>1. (Paired(m.events) /\ AllWritable(m)) <=>
        \A e \in Range(m.events) : Sayable(e) /\ (e.group # 0 => ChordWhole(m, e.group))
  BY WholeIffWritable DEF AllWritable
<1>2. Emittable(m) <=> m.changes = {} /\ AllWritable(m) /\ Countable(m)
  BY EmittableIs
<1>3. DOMAIN m.events = 1 .. Len(m.events)
  BY PlacesOfEvents
<1>4. (AllLegible(m) /\ AllKept(m)) <=> \A e \in Range(m.events) : SameText(e)
  BY <1>3 DEF AllLegible, AllKept, TextKept, SameText, Range
<1>5. Sayings(m) <=>
        /\ m.changes = {} /\ Countable(m)
        /\ \A e \in Range(m.events) : SameText(e)
        /\ \A e \in Range(m.events) : Sayable(e) /\ (e.group # 0 => ChordWhole(m, e.group))
  BY DEF Sayings
<1> QED BY <1>1, <1>2, <1>4, <1>5, Zenon

\* A document can say a score exactly if its measures can be emitted, no event of
\* a chord stands alone, signatures follow and texts are read as they were.
LEMMA ExpressibleIs ==
  ASSUME NEW s \in SoundScore
  PROVE  Expressible(s) <=>
           \A p \in DOMAIN s : \A n \in DOMAIN s[p] :
             /\ Emittable(s[p][n]) /\ Paired(s[p][n].events) /\ StartFollows(s[p], n)
             /\ AllLegible(s[p][n]) /\ AllKept(s[p][n])
<1>1. Expressible(s) <=> \A p \in DOMAIN s : \A n \in DOMAIN s[p] :
                           Sayings(s[p][n]) /\ StartFollows(s[p], n)
  BY DEF Expressible, Sayings, Sayable, StartFollows
<1>2. \A p \in DOMAIN s : \A n \in DOMAIN s[p] : s[p][n] \in SoundMeasure
  BY DEF SoundScore
<1>3. \A p \in DOMAIN s : \A n \in DOMAIN s[p] :
        Sayings(s[p][n]) <=> /\ Emittable(s[p][n]) /\ Paired(s[p][n].events)
                             /\ AllLegible(s[p][n]) /\ AllKept(s[p][n])
  BY <1>2, SayingsAre
<1> QED BY <1>1, <1>3

\* Two scores say the same if each measure starts alike and its events say the same.
LEMMA SemanticAlike ==
  ASSUME NEW s, NEW t, DOMAIN t = DOMAIN s, \A p \in DOMAIN s : DOMAIN t[p] = DOMAIN s[p]
  PROVE  Semantic(t) = Semantic(s) <=>
           \A p \in DOMAIN s : \A n \in DOMAIN s[p] :
             t[p][n].start = s[p][n].start /\ SaidEvents(t[p][n]) = SaidEvents(s[p][n])
<1> DEFINE Said(m) == [start |-> m.start, events |-> SaidEvents(m)]
<1>1. Semantic(t) = [p \in DOMAIN t |-> [n \in DOMAIN t[p] |-> Said(t[p][n])]]
  BY DEF Semantic, SaidEvents
<1>2. Semantic(s) = [p \in DOMAIN s |-> [n \in DOMAIN s[p] |-> Said(s[p][n])]]
  BY DEF Semantic, SaidEvents
<1>3. \A m, q : Said(q) = Said(m) <=> q.start = m.start /\ SaidEvents(q) = SaidEvents(m)
  OBVIOUS
<1> HIDE DEF Said
<1>4. ASSUME Semantic(t) = Semantic(s), NEW p \in DOMAIN s, NEW n \in DOMAIN s[p]
      PROVE  Said(t[p][n]) = Said(s[p][n])
  <2>1. Semantic(t)[p][n] = Said(t[p][n])
    BY <1>1
  <2>2. Semantic(s)[p][n] = Said(s[p][n])
    BY <1>2
  <2> QED BY <1>4, <2>1, <2>2
<1>5. ASSUME \A p \in DOMAIN s : \A n \in DOMAIN s[p] : Said(t[p][n]) = Said(s[p][n])
      PROVE  Semantic(t) = Semantic(s)
  BY <1>1, <1>2, <1>5
<1> QED BY <1>3, <1>4, <1>5

\* A part that can be emitted, and whose texts can be read, fits its reader again;
\* its measures start as they did if signatures follow, and say the same if no
\* event of a chord stands alone and texts are read as they were.
LEMMA PartComesBack ==
  ASSUME NEW part \in Seq(SoundMeasure),
         \A n \in DOMAIN part : AllWritable(part[n]) /\ AllLegible(part[n])
  PROVE  LET read == ReadPart(WrittenPart(part))
         IN  /\ DOMAIN read = DOMAIN part /\ \A n \in DOMAIN part : read[n].fits
             /\ (\A n \in DOMAIN part : Measure(read[n]).start = part[n].start)
                  <=> \A n \in DOMAIN part : StartFollows(part, n)
             /\ \A n \in DOMAIN part :
                  SaidEvents(Measure(read[n])) = SaidEvents(part[n]) <=>
                    Paired(part[n].events) /\ AllKept(part[n])
<1> DEFINE read == ReadPart(WrittenPart(part))
           l == Len(part)
<1>1. l \in Nat /\ DOMAIN part = 1 .. l /\ \A n \in 1 .. l : part[n] \in SoundMeasure
  OBVIOUS
<1>2. \A n \in 1 .. l : \A j \in 1 .. Len(part[n].events) :
        WritableAt(part[n].events, j) /\ Legible(part[n].events[j])
  BY <1>1 DEF AllWritable, AllLegible
<1>3. /\ read \in Seq(SoundReader) /\ Len(read) = l
      /\ \A n \in 1 .. l :
           Caught(part[n].events, Len(part[n].events), read[n],
                  IF part[n].start = 0 THEN TimeBefore(read, n) ELSE part[n].start)
  BY <1>2, PartIsReadBack
<1>4. \A n \in 1 .. l : part[n].start \in Nat
  BY PartIsWritten
<1> HIDE DEF read, l
<1>5. DOMAIN read = 1 .. l
  BY <1>3
<1>6. \A n \in 1 .. l : /\ read[n].fits
                        /\ read[n].start = IF part[n].start = 0 THEN TimeBefore(read, n)
                                           ELSE part[n].start
                        /\ read[n].time = read[n].start
  BY <1>3 DEF Caught
<1>7. (\A n \in 1 .. l : read[n].start = part[n].start) <=> \A n \in 1 .. l : StartFollows(part, n)
  BY <1>1, <1>4, <1>6, StartsAgain
<1>8. \A n \in 1 .. l : Measure(read[n]).start = read[n].start
  BY DEF Measure
<1>9. ASSUME NEW n \in 1 .. l
      PROVE  SaidEvents(Measure(read[n])) = SaidEvents(part[n]) <=>
               Paired(part[n].events) /\ AllKept(part[n])
  <2> DEFINE m == part[n]
             q == Measure(read[n])
  <2>1. m \in SoundMeasure
    BY <1>1
  <2>2. read[n] \in SoundReader /\ ReadBack(m.events, Len(m.events), read[n].events)
    BY <1>3 DEF Caught
  <2>3. q \in SoundMeasure
    BY <2>2, MeasureIsSound
  <2>4. q.events = read[n].events
    BY DEF Measure
  <2> HIDE DEF m, q
  <2>5. SaidEvents(q) = SaidEvents(m) <=> Paired(m.events) /\ AllKept(m)
    BY <2>1, <2>2, <2>3, <2>4, SaidAgain DEF AllKept
  <2> QED BY <2>5 DEF m, q
<1> QED BY <1>1, <1>5, <1>6, <1>7, <1>8, <1>9 DEF read

\* An artifact is made of a score exactly if a document can say it.
LEMMA ExportOfScore ==
  ASSUME NEW s \in SoundScore
  PROVE  MakesArtifact(s) <=> Expressible(s)
<1>1. \A p \in DOMAIN s : /\ s[p] \in Seq(SoundMeasure)
                          /\ \A n \in DOMAIN s[p] : s[p][n] \in SoundMeasure
  BY DEF SoundScore
<1>2. CASE \E p \in DOMAIN s : \E n \in DOMAIN s[p] : ~Emittable(s[p][n])
  BY <1>2, ExpressibleIs DEF MakesArtifact
<1> DEFINE d == WriteScore(s)
           t == ReadScore(d)
           Read(p) == ReadPart(WrittenPart(s[p]))
<1>3. /\ DOMAIN d = DOMAIN s
      /\ \A p \in DOMAIN s : d[p] = WrittenPart(s[p]) /\ DOMAIN d[p] = DOMAIN s[p]
  <2>1. \A p \in DOMAIN s : \A n \in DOMAIN s[p] :
          WriteMeasure(s[p][n]).out = EventsWritten(s[p][n].events).out
    BY DEF WriteMeasure, EventsWritten
  <2>2. DOMAIN d = DOMAIN s /\ \A p \in DOMAIN s : d[p] = WrittenPart(s[p])
    BY <2>1 DEF WriteScore, WrittenPart, WrittenMeasure
  <2> QED BY <2>2 DEF WrittenPart
<1>4. CASE \E p \in DOMAIN s : \E n \in DOMAIN s[p] : ~AllLegible(s[p][n])
  <2>1. PICK p, n, j : /\ p \in DOMAIN s /\ n \in DOMAIN s[p] /\ j \in 1 .. Len(s[p][n].events)
                       /\ ~Legible(s[p][n].events[j])
    BY <1>4 DEF AllLegible
  <2>2. s[p] \in Seq(SoundMeasure) /\ n \in 1 .. Len(s[p])
    BY <1>1, <2>1
  <2>3. ~Read(p)[n].fits
    BY <2>1, <2>2, IllegiblePart
  <2> HIDE DEF d
  <2>4. ~Readable(d)
    BY <1>3, <2>1, <2>3 DEF Readable
  <2>5. ~Expressible(s)
    BY <2>1, ExpressibleIs DEF AllLegible
  <2> QED BY <2>4, <2>5 DEF MakesArtifact, d
<1>5. CASE \A p \in DOMAIN s : \A n \in DOMAIN s[p] : Emittable(s[p][n]) /\ AllLegible(s[p][n])
  <2>1. \A p \in DOMAIN s : \A n \in DOMAIN s[p] : AllWritable(s[p][n]) /\ AllLegible(s[p][n])
    BY <1>1, <1>5, EmittableIs
  <2>2. \A p \in DOMAIN s :
          /\ DOMAIN Read(p) = DOMAIN s[p] /\ \A n \in DOMAIN s[p] : Read(p)[n].fits
          /\ (\A n \in DOMAIN s[p] : Measure(Read(p)[n]).start = s[p][n].start)
               <=> \A n \in DOMAIN s[p] : StartFollows(s[p], n)
          /\ \A n \in DOMAIN s[p] :
               SaidEvents(Measure(Read(p)[n])) = SaidEvents(s[p][n]) <=>
                 Paired(s[p][n].events) /\ AllKept(s[p][n])
    BY <1>1, <2>1, PartComesBack
  <2>3. /\ DOMAIN t = DOMAIN s
        /\ \A p \in DOMAIN s : t[p] = [n \in DOMAIN Read(p) |-> Measure(Read(p)[n])]
    <3> HIDE DEF d
    <3> QED BY <1>3 DEF ReadScore
  <2> HIDE DEF d, t
  <2>4. Readable(d)
    BY <1>3, <2>2 DEF Readable
  <2> HIDE DEF Read
  <2>5. \A p \in DOMAIN s : /\ DOMAIN t[p] = DOMAIN s[p]
                            /\ \A n \in DOMAIN s[p] : t[p][n] = Measure(Read(p)[n])
    BY <2>2, <2>3
  <2>6. Semantic(t) = Semantic(s) <=>
          \A p \in DOMAIN s : \A n \in DOMAIN s[p] :
            t[p][n].start = s[p][n].start /\ SaidEvents(t[p][n]) = SaidEvents(s[p][n])
    BY <2>3, <2>5, SemanticAlike
  <2>7. Semantic(t) = Semantic(s) <=>
          \A p \in DOMAIN s : \A n \in DOMAIN s[p] :
            StartFollows(s[p], n) /\ Paired(s[p][n].events) /\ AllKept(s[p][n])
    BY <2>2, <2>5, <2>6
  <2>8. Expressible(s) <=>
           \A p \in DOMAIN s : \A n \in DOMAIN s[p] :
             StartFollows(s[p], n) /\ Paired(s[p][n].events) /\ AllKept(s[p][n])
    BY <1>5, ExpressibleIs
  <2> QED BY <1>5, <2>4, <2>7, <2>8 DEF MakesArtifact, d, t
<1> QED BY <1>2, <1>4, <1>5

\* For any document and any edits, an artifact is made exactly if a document can
\* say the score.  (corrected_musicxml _emit_measure, musicxml _parse_measure.)
THEOREM ExportsAreExact == ScoreSpec => []ExportIsExact
<1>1. ScoreInit => score \in SoundScore
  BY StartsAsRead
<1>2. score \in SoundScore /\ [EditScore]_score => (score \in SoundScore)'
  BY EditKeepsSound
<1>3. score \in SoundScore => ExportIsExact
  BY ExportOfScore DEF ExportIsExact
<1> QED BY <1>1, <1>2, <1>3, PTL DEF ScoreSpec

=============================================================================
