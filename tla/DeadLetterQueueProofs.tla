----------------------- MODULE DeadLetterQueueProofs -----------------------
(***************************************************************************)
(* Proofs about DeadLetterQueue: a record that write() called captured is  *)
(* kept for ever (CapturedKept), for any number of records, of failures,   *)
(* of restarts, crashes and power losses, and any sizes and intervals.     *)
(***************************************************************************)
EXTENDS DeadLetterQueue, TLAPS, SequenceTheorems

Pieces == [rec : Nat, whole : BOOLEAN, garbled : BOOLEAN]

\* The open file and the lines that wait for it, in a state the BufWriter can be in: a
\* line that is begun is the first that waits, and its part ends the file.
Sound(st) ==
  /\ st.file \in Seq(Pieces) /\ st.lines \in Seq(Nat) /\ st.begun \in BOOLEAN
  /\ st.begun => /\ st.file # <<>> /\ ~st.file[Len(st.file)].whole
                 /\ st.lines # <<>>

\* What a file may become: no shorter, and every whole line stays where it is.
Grows(f, g) ==
  /\ Len(f) <= Len(g)
  /\ \A i \in 1 .. Len(f) : f[i].whole => g[i] = f[i]

-----------------------------------------------------------------------------
(* The operations of the BufWriter.                                        *)

\* Whole lines and parts are pieces.
LEMMA PieceFacts ==
  ASSUME NEW r \in Nat
  PROVE  /\ Whole(r) \in Pieces /\ Whole(r).whole /\ Whole(r).rec = r
         /\ Part(r) \in Parts(r)
         /\ \A x \in Parts(r) : x \in Pieces /\ ~x.whole
BY DEF Whole, Part, Parts, Pieces

\* Growing is transitive.
LEMMA GrowsTrans ==
  ASSUME NEW f \in Seq(Pieces), NEW g \in Seq(Pieces), NEW h \in Seq(Pieces),
         Grows(f, g), Grows(g, h)
  PROVE  Grows(f, h)
BY DEF Grows

\* A function on 1 .. n is a sequence of length n.
LEMMA FcnSeq ==
  ASSUME NEW n \in Nat, NEW S, NEW g \in [1 .. n -> S]
  PROVE  g \in Seq(S) /\ Len(g) = n
<1>1. g \in Seq(S)
  BY SeqDef
<1>2. Len(g) \in Nat /\ 1 .. Len(g) = 1 .. n
  BY <1>1, LenProperties
<1>3. (Len(g) > 0 => Len(g) \in 1 .. Len(g)) /\ (n > 0 => n \in 1 .. n)
  BY <1>2
<1>4. (Len(g) > 0 => Len(g) \in 1 .. n) /\ (n > 0 => n \in 1 .. Len(g))
  BY <1>2, <1>3, Zenon
<1> QED
  BY <1>1, <1>2, <1>4

\* What is appended is last.
LEMMA AppendLast ==
  ASSUME NEW S, NEW seq \in Seq(S), NEW e \in S
  PROVE  /\ Append(seq, e) \in Seq(S) /\ Append(seq, e) # <<>>
         /\ Append(seq, e)[Len(Append(seq, e))] = e
<1>1. Append(seq, e) \in Seq(S) /\ Append(seq, e) # <<>>
  BY AppendProperties
<1>2. Len(Append(seq, e)) = Len(seq) + 1 /\ Append(seq, e)[Len(seq) + 1] = e
  BY AppendProperties
<1> QED
  BY <1>1, <1>2

\* Appending a piece grows a file.
LEMMA AppendGrows ==
  ASSUME NEW f \in Seq(Pieces), NEW p \in Pieces
  PROVE  /\ Append(f, p) \in Seq(Pieces) /\ Append(f, p) # <<>>
         /\ Append(f, p)[Len(Append(f, p))] = p
         /\ Grows(f, Append(f, p))
<1>1. /\ Append(f, p) \in Seq(Pieces) /\ Append(f, p) # <<>>
      /\ Append(f, p)[Len(Append(f, p))] = p
  BY AppendLast
<1>2. Len(Append(f, p)) = Len(f) + 1 /\ \A i \in 1 .. Len(f) : Append(f, p)[i] = f[i]
  BY AppendProperties
<1> QED
  BY <1>1, <1>2 DEF Grows

\* Writing the first k lines keeps the BufWriter sound, grows the file and ends it with
\* the last of them.
LEMMA WrittenFacts ==
  ASSUME NEW st, Sound(st), NEW k \in 0 .. Len(st.lines)
  PROVE  /\ Sound(Written(st, k))
         /\ Grows(st.file, Written(st, k).file)
         /\ Written(st, k).begun = (st.begun /\ k = 0)
         /\ Len(Written(st, k).lines) = Len(st.lines) - k
         /\ k > 0 => /\ Written(st, k).file # <<>>
                     /\ Written(st, k).file[Len(Written(st, k).file)] = Whole(st.lines[k])
<1> DEFINE base == IF st.begun /\ k > 0 THEN Front(st.file) ELSE st.file
           add == [i \in 1 .. k |-> Whole(st.lines[i])]
           rest == SubSeq(st.lines, k + 1, Len(st.lines))
           w == Written(st, k)
<1>1. st.file \in Seq(Pieces) /\ st.lines \in Seq(Nat) /\ st.begun \in BOOLEAN
      /\ Len(st.lines) \in Nat /\ Len(st.file) \in Nat /\ k \in Nat
  BY DEF Sound
<1>2. w.file = base \o add /\ w.lines = rest /\ w.begun = (st.begun /\ k = 0)
  BY DEF Written
<1>3. add \in Seq(Pieces) /\ Len(add) = k /\ \A i \in 1 .. k : add[i] = Whole(st.lines[i])
  <2>1. \A i \in 1 .. k : Whole(st.lines[i]) \in Pieces
    BY <1>1, PieceFacts, ElementOfSeq
  <2>2. add \in [1 .. k -> Pieces]
    BY <2>1
  <2> QED
    BY <1>1, <2>2, FcnSeq
<1>4. /\ base \in Seq(Pieces)
      /\ Len(base) = IF st.begun /\ k > 0 THEN Len(st.file) - 1 ELSE Len(st.file)
      /\ \A i \in 1 .. Len(base) : base[i] = st.file[i]
  <2>1. CASE st.begun /\ k > 0
    <3>1. Len(st.file) > 0 /\ \A i \in 1 .. Len(st.file) - 1 : st.file[i] \in Pieces
      BY <1>1, <2>1 DEF Sound
    <3>2. /\ SubSeq(st.file, 1, Len(st.file) - 1) \in Seq(Pieces)
          /\ Len(SubSeq(st.file, 1, Len(st.file) - 1)) = Len(st.file) - 1
          /\ \A i \in 1 .. Len(st.file) - 1 :
               SubSeq(st.file, 1, Len(st.file) - 1)[i] = st.file[i]
      BY <1>1, <3>1, SubSeqProperties
    <3> QED
      BY <2>1, <3>2 DEF Front
  <2>2. CASE ~(st.begun /\ k > 0)
    BY <1>1, <2>2
  <2> QED
    BY <2>1, <2>2
<1>5. rest \in Seq(Nat) /\ Len(rest) = Len(st.lines) - k
  <2>1. \A i \in k + 1 .. Len(st.lines) : st.lines[i] \in Nat
    BY <1>1
  <2>2. rest \in Seq(Nat) /\ Len(rest) = IF k + 1 <= Len(st.lines) THEN Len(st.lines) - (k + 1) + 1 ELSE 0
    BY <1>1, <2>1, SubSeqProperties
  <2> QED
    BY <1>1, <2>2
<1> HIDE DEF base, add, rest, w
<1>6. /\ base \o add \in Seq(Pieces) /\ Len(base \o add) = Len(base) + k
      /\ \A i \in 1 .. Len(base) + k :
           (base \o add)[i] = IF i <= Len(base) THEN base[i] ELSE add[i - Len(base)]
  <2>1. base \in Seq(Pieces) /\ add \in Seq(Pieces) /\ Len(add) = k
    BY <1>3, <1>4
  <2>2. /\ base \o add \in Seq(Pieces) /\ Len(base \o add) = Len(base) + Len(add)
        /\ \A i \in 1 .. Len(base) + Len(add) :
             (base \o add)[i] = IF i <= Len(base) THEN base[i] ELSE add[i - Len(base)]
    BY <2>1, ConcatProperties
  <2> QED
    BY <2>1, <2>2, Zenon
<1>7. Len(base) \in Nat /\ (st.begun => Len(st.file) > 0 /\ ~st.file[Len(st.file)].whole)
  BY <1>1, <1>4 DEF Sound
<1>8. Grows(st.file, base \o add)
  <2>1. Len(st.file) <= Len(base \o add)
    BY <1>1, <1>4, <1>6
  <2>2. ASSUME NEW i \in 1 .. Len(st.file), st.file[i].whole
        PROVE  (base \o add)[i] = st.file[i]
    <3>1. i <= Len(base)
      BY <1>1, <1>4, <1>7, <2>2
    <3> QED
      BY <1>1, <1>4, <1>6, <1>7, <3>1
  <2> QED
    BY <2>1, <2>2 DEF Grows
<1>9. k > 0 => base \o add # <<>> /\ (base \o add)[Len(base \o add)] = Whole(st.lines[k])
  BY <1>1, <1>3, <1>6, <1>7
<1>10. w.begun => base \o add = st.file /\ rest # <<>>
  <2> SUFFICES ASSUME w.begun PROVE base \o add = st.file /\ rest # <<>>
    OBVIOUS
  <2>1. st.begun /\ k = 0
    BY <1>2
  <2>2. base \o add = st.file
    BY <1>1, <1>4, <1>6, <2>1, SeqEqual
  <2>3. Len(rest) > 0
    BY <1>1, <1>5, <2>1 DEF Sound
  <2> QED
    BY <2>2, <2>3
<1>11. Sound(w)
  BY <1>1, <1>2, <1>5, <1>6, <1>10 DEF Sound
<1> QED
  BY <1>2, <1>5, <1>8, <1>9, <1>11 DEF w

\* A flush writes every line that waits and leaves none begun.
LEMMA FlushFacts ==
  ASSUME NEW st, Sound(st)
  PROVE  /\ Sound(Flush(st)) /\ Grows(st.file, Flush(st).file) /\ ~Flush(st).begun
         /\ st.lines # <<>> =>
              /\ Flush(st).file # <<>>
              /\ Flush(st).file[Len(Flush(st).file)] = Whole(st.lines[Len(st.lines)])
<1>1. st.lines \in Seq(Nat) /\ Len(st.lines) \in 0 .. Len(st.lines)
  BY DEF Sound
<1>2. st.lines # <<>> => Len(st.lines) > 0
  BY <1>1
<1>3. st.begun => Len(st.lines) > 0
  BY <1>2 DEF Sound
<1> DEFINE n == Len(st.lines)
<1>4. /\ Sound(Written(st, n)) /\ Grows(st.file, Written(st, n).file)
      /\ Written(st, n).begun = (st.begun /\ n = 0)
      /\ n > 0 => /\ Written(st, n).file # <<>>
                  /\ Written(st, n).file[Len(Written(st, n).file)] = Whole(st.lines[n])
  BY <1>1, WrittenFacts
<1>5. st.begun => n # 0
  BY <1>1, <1>3
<1> QED
  BY <1>2, <1>4, <1>5, Zenon DEF Flush

\* A flush that fails keeps the BufWriter sound and the whole lines in their place.
LEMMA FailedFlushFacts ==
  ASSUME NEW st, Sound(st), NEW s \in FailedFlushes(st)
  PROVE  Sound(s) /\ Grows(st.file, s.file)
<1> DEFINE Cut == {Written(st, k) : k \in 0 .. Len(st.lines) - 1}
           Begun(c) == IF c.begun THEN {}
                       ELSE {[c EXCEPT !.file = Append(@, x), !.begun = TRUE] :
                               x \in Parts(c.lines[1])}
<1>a. FailedFlushes(st) = Cut \union UNION {Begun(c) : c \in Cut}
  BY Zenon DEF FailedFlushes
<1> HIDE DEF Begun
<1>b. \E c \in Cut : s = c \/ s \in Begun(c)
  BY <1>a
<1>1. PICK k \in 0 .. Len(st.lines) - 1 : s = Written(st, k) \/ s \in Begun(Written(st, k))
  BY <1>b
<1>2. st.lines \in Seq(Nat) /\ Len(st.lines) \in Nat /\ k \in 0 .. Len(st.lines)
  BY DEF Sound
<1> DEFINE w == Written(st, k)
<1>3. Sound(w) /\ Grows(st.file, w.file) /\ Len(w.lines) > 0
  BY <1>2, WrittenFacts
<1>4. w = [file |-> w.file, lines |-> w.lines, begun |-> w.begun]
  BY DEF Written
<1>c. s = w \/ s \in Begun(w)
  BY <1>1
<1> HIDE DEF w
<1>d. s = w \/ \E x \in Parts(w.lines[1]) : s = [w EXCEPT !.file = Append(@, x), !.begun = TRUE]
  BY <1>c DEF Begun
<1>5. CASE s = w
  BY <1>3, <1>5
<1>6. ASSUME NEW x \in Parts(w.lines[1]), s = [w EXCEPT !.file = Append(@, x), !.begun = TRUE]
      PROVE  Sound(s) /\ Grows(st.file, s.file)
  <2>1. s.file = Append(w.file, x) /\ s.lines = w.lines /\ s.begun = TRUE
    BY <1>4, <1>6
  <2> w.lines \in Seq(Nat) /\ w.file \in Seq(Pieces)
    BY <1>3 DEF Sound
  <2>2. w.lines # <<>> /\ w.lines[1] \in Nat
    BY <1>3
  <2>3. x \in Pieces /\ ~x.whole
    BY <2>2, PieceFacts
  <2>4. /\ s.file \in Seq(Pieces) /\ s.file # <<>> /\ Grows(w.file, s.file)
        /\ s.file[Len(s.file)] = x
    BY <2>1, <2>3, AppendGrows
  <2>5. Sound(s)
    BY <2>1, <2>2, <2>3, <2>4 DEF Sound
  <2> QED
    BY <1>3, <2>4, <2>5, GrowsTrans DEF Sound
<1> QED
  BY <1>d, <1>5, <1>6

\* A writeln that succeeds: the record is the last line that waits.
LEMMA WritelnFacts ==
  ASSUME NEW st, Sound(st), st = [file |-> st.file, lines |-> st.lines, begun |-> st.begun],
         NEW r \in Nat
  PROVE  /\ Sound(Writeln(st, r)) /\ Grows(st.file, Writeln(st, r).file)
         /\ Writeln(st, r).lines # <<>>
         /\ Writeln(st, r).lines[Len(Writeln(st, r).lines)] = r
<1>1. st.file \in Seq(Pieces) /\ st.lines \in Seq(Nat)
  BY DEF Sound
<1>2. CASE r \in LongLines
  <2> DEFINE f == Flush(st).file
  <2>1. f \in Seq(Pieces) /\ Grows(st.file, f)
    BY FlushFacts DEF Sound
  <2> HIDE DEF f
  <2>2. Writeln(st, r) = [file |-> Append(f, Part(r)), lines |-> <<r>>, begun |-> TRUE]
    BY <1>2 DEF Writeln, PastBuffer, f
  <2>3. Sound(Writeln(st, r)) /\ Grows(f, Writeln(st, r).file)
    BY <2>1, <2>2, PieceFacts, AppendGrows DEF Sound
  <2> QED
    <3>1. Writeln(st, r).lines = <<r>> /\ Len(<<r>>) = 1 /\ <<r>> # <<>>
      BY <2>2
    <3>2. Grows(st.file, Writeln(st, r).file)
      BY <1>1, <2>1, <2>3, GrowsTrans DEF Sound
    <3> QED
      BY <2>3, <3>1, <3>2
<1>3. CASE r \notin LongLines
  <2>1. Writeln(st, r) = [file |-> st.file, lines |-> Append(st.lines, r), begun |-> st.begun]
    BY <1>3 DEF Writeln, Buffered
  <2>2. /\ Append(st.lines, r) \in Seq(Nat) /\ Append(st.lines, r) # <<>>
        /\ Append(st.lines, r)[Len(Append(st.lines, r))] = r
    BY <1>1, AppendLast
  <2> QED
    BY <1>1, <2>1, <2>2 DEF Sound, Grows
<1> QED
  BY <1>2, <1>3

\* A writeln that fails.
LEMMA FailedWritelnFacts ==
  ASSUME NEW st, Sound(st), NEW r \in Nat, NEW s \in FailedWritelns(st, r)
  PROVE  Sound(s) /\ Grows(st.file, s.file)
<1> DEFINE f == Flush(st)
<1>1. Sound(f) /\ Grows(st.file, f.file) /\ ~f.begun
  BY FlushFacts
<1>2. f = [file |-> f.file, lines |-> f.lines, begun |-> f.begun]
  BY DEF Flush, Written
<1>3. \/ s \in {f} \union FailedFlushes(st)
      \/ \E x \in Parts(r) : s = [f EXCEPT !.file = Append(@, x)]
  BY DEF FailedWritelns
<1> HIDE DEF f
<1>4. ASSUME NEW x \in Parts(r), s = [f EXCEPT !.file = Append(@, x)]
      PROVE  Sound(s) /\ Grows(st.file, s.file)
  <2>1. s.file = Append(f.file, x) /\ s.lines = f.lines /\ s.begun = f.begun
    BY <1>2, <1>4
  <2>2. Sound(s) /\ Grows(f.file, s.file)
    BY <1>1, <2>1, PieceFacts, AppendGrows DEF Sound
  <2> QED
    BY <1>1, <2>2, GrowsTrans DEF Sound
<1> QED
  BY <1>1, <1>3, <1>4, FailedFlushFacts

-----------------------------------------------------------------------------
(* The invariant.                                                          *)

\* The queue's files and how much of each survives a power loss.
DlqTyped ==
  /\ fsync \in BOOLEAN /\ dead \in Nat
  /\ files \in Seq(Seq(Pieces)) /\ Len(files) > 0
  /\ synced \in Seq(Nat) /\ Len(synced) = Len(files)
  /\ \A f \in 1 .. Len(files) : synced[f] <= Len(files[f])

\* Where a captured record is: a whole line, synced if the queue is in the fsync mode.
At(r, f, i) == files[f][i] = Whole(r) /\ (fsync => i <= synced[f])
Kept == \A r \in captured : \E f \in 1 .. Len(files) : \E i \in 1 .. Len(files[f]) : At(r, f, i)

DlqInv == DlqTyped /\ Sound(State) /\ Kept

\* An operation that leaves st keeps the invariant: st's file has grown from the open
\* one, and a record that is newly captured is in it, synced if it has to be.
LEMMA KeepInv ==
  ASSUME DlqInv, NEW st, Sound(st), Grows(Last(files), st.file), Keep(st),
         fsync' = fsync, dead' \in Nat,
         synced' = synced \/ synced' = Synced(st),
         \A r \in captured' :
           \/ r \in captured
           \/ /\ \E i \in 1 .. Len(st.file) : st.file[i] = Whole(r)
              /\ fsync => synced' = Synced(st)
  PROVE  DlqInv'
<1> DEFINE n == Len(files)
<1>1. /\ n \in Nat /\ n > 0 /\ n \in 1 .. n /\ files \in Seq(Seq(Pieces))
      /\ st.file \in Seq(Pieces) /\ Len(st.file) \in Nat
  <2>1. files \in Seq(Seq(Pieces)) /\ Len(files) > 0
    BY DEF DlqInv, DlqTyped
  <2>2. st.file \in Seq(Pieces)
    BY DEF Sound
  <2>3. Len(files) \in Nat /\ Len(st.file) \in Nat
    BY <2>1, <2>2, LenProperties
  <2> QED
    BY <2>1, <2>2, <2>3
<1>2. /\ files' \in Seq(Seq(Pieces)) /\ Len(files') = n
      /\ \A f \in 1 .. n : files'[f] = IF f = n THEN st.file ELSE files[f]
  BY <1>1, ExceptSeq DEF Keep
<1>3. Last(files) = files[n] /\ Last(files') = st.file
  BY <1>1, <1>2 DEF Last
<1>4. \A f \in 1 .. n : files[f] \in Seq(Pieces) /\ Len(files[f]) \in Nat
  BY <1>1, ElementOfSeq
<1>5. /\ \A f \in 1 .. n : Len(files[f]) <= Len(files'[f])
      /\ \A f \in 1 .. n : \A i \in 1 .. Len(files[f]) :
           files[f][i].whole => files'[f][i] = files[f][i]
  <2>1. ASSUME NEW f \in 1 .. n
        PROVE  Grows(files[f], files'[f])
    <3>1. CASE f = n
      BY <1>2, <1>3, <3>1
    <3>2. CASE f # n
      <4>1. files'[f] = files[f]
        BY <1>2, <3>2
      <4> QED
        BY <1>4, <4>1 DEF Grows
    <3> QED
      BY <3>1, <3>2
  <2> QED
    BY <2>1 DEF Grows
<1>6. /\ synced' \in Seq(Nat) /\ Len(synced') = n
      /\ \A f \in 1 .. n : synced[f] <= synced'[f] /\ synced'[f] <= Len(files'[f])
  <2>1. /\ synced \in Seq(Nat) /\ Len(synced) = n
        /\ \A f \in 1 .. n : synced[f] \in Nat /\ synced[f] <= Len(files[f])
    BY ElementOfSeq DEF DlqInv, DlqTyped
  <2>2. CASE synced' = synced
    BY <1>2, <1>4, <1>5, <2>1, <2>2
  <2>3. CASE synced' = Synced(st)
    <3>1. /\ synced' \in Seq(Nat) /\ Len(synced') = n
          /\ \A f \in 1 .. n : synced'[f] = IF f = n THEN Len(st.file) ELSE synced[f]
      <4>1. n \in 1 .. Len(synced) /\ Len(st.file) \in Nat
        BY <1>1, <2>1
      <4>2. synced' = [synced EXCEPT ![n] = Len(st.file)]
        BY <2>3 DEF Synced
      <4> HIDE DEF n
      <4> QED
        BY <2>1, <4>1, <4>2, ExceptSeq
    <3>2. synced[n] <= Len(st.file)
      BY <1>1, <1>2, <1>4, <1>5, <2>1
    <3>3. ASSUME NEW f \in 1 .. n
          PROVE  synced[f] <= synced'[f] /\ synced'[f] <= Len(files'[f])
      <4> HIDE DEF n
      <4>1. CASE f = n
        <5>1. synced'[f] = Len(st.file) /\ files'[f] = st.file
          BY <1>2, <3>1, <4>1
        <5> QED
          BY <1>1, <3>2, <4>1, <5>1
      <4>2. CASE f # n
        <5>1. synced'[f] = synced[f] /\ files'[f] = files[f]
          BY <1>2, <3>1, <4>2
        <5> QED
          BY <1>4, <2>1, <5>1
      <4> QED
        BY <4>1, <4>2
    <3> QED
      BY <3>1, <3>3
  <2> QED
    BY <2>2, <2>3
<1>7. DlqTyped'
  BY <1>1, <1>2, <1>6 DEF DlqInv, DlqTyped
<1>8. Sound(State)'
  <2>1. State' = [file |-> st.file, lines |-> st.lines, begun |-> st.begun]
    BY <1>3 DEF State, Keep
  <2>2. State'.file = st.file /\ State'.lines = st.lines /\ State'.begun = st.begun
    BY <2>1
  <2> QED
    BY <2>2 DEF Sound
<1>9. Kept'
  <2> SUFFICES ASSUME NEW r \in captured'
               PROVE  \E f \in 1 .. n : \E i \in 1 .. Len(files'[f]) : At(r, f, i)'
    BY <1>2 DEF Kept
  <2>1. CASE r \in captured
    <3>1. PICK f \in 1 .. n : \E i \in 1 .. Len(files[f]) : At(r, f, i)
      BY <2>1 DEF DlqInv, Kept
    <3>2. PICK i \in 1 .. Len(files[f]) : At(r, f, i)
      BY <3>1
    <3>3. files[f][i].whole
      BY <3>2 DEF At, Whole
    <3>4. i \in 1 .. Len(files'[f]) /\ files'[f][i] = Whole(r)
      BY <1>2, <1>4, <1>5, <3>2, <3>3 DEF At
    <3>5. fsync' => i <= synced'[f]
      <4>1. synced[f] \in Nat /\ synced'[f] \in Nat
        BY <1>6, <1>1, ElementOfSeq DEF DlqInv, DlqTyped
      <4> QED
        BY <1>6, <3>2, <4>1 DEF At
    <3> QED
      BY <3>4, <3>5 DEF At
  <2>2. CASE r \notin captured
    <3>1. PICK i \in 1 .. Len(st.file) : st.file[i] = Whole(r)
      BY <2>2
    <3>2. i \in 1 .. Len(files'[n]) /\ files'[n][i] = Whole(r)
      BY <1>1, <1>2, <3>1
    <3>3. fsync' => i <= synced'[n]
      <4> SUFFICES ASSUME fsync PROVE i <= synced'[n]
        OBVIOUS
      <4>1. synced' = Synced(st)
        BY <2>2
      <4>2. synced'[n] = Len(st.file)
        BY <1>1, <4>1, ExceptSeq DEF Synced, DlqInv, DlqTyped
      <4> QED
        BY <4>2
    <3> QED
      BY <1>1, <3>2, <3>3 DEF At
  <2> QED
    BY <2>1, <2>2
<1> QED
  BY <1>7, <1>8, <1>9 DEF DlqInv

\* write() that captures the record: the flush leaves it whole, at the end of the file.
LEMMA CapturedStep ==
  ASSUME DlqInv, WriteCaptured
  PROVE  DlqInv'
<1> DEFINE r == dead + 1
           w == Writeln(State, r)
           st == Flush(w)
<1>1. r \in Nat /\ dead' = r /\ Sound(State) /\ State.file = Last(files)
      /\ State.file \in Seq(Pieces)
  BY DEF WriteCaptured, DlqInv, DlqTyped, State, Sound
<1>2. /\ Sound(w) /\ Grows(State.file, w.file) /\ w.lines # <<>>
      /\ w.lines[Len(w.lines)] = r
  BY <1>1, WritelnFacts DEF State
<1>3. /\ Sound(st) /\ Grows(w.file, st.file) /\ st.file # <<>>
      /\ st.file[Len(st.file)] = Whole(r)
  <2> HIDE DEF w, r
  <2> QED
    BY <1>2, FlushFacts
<1>4. Grows(Last(files), st.file)
  <2> HIDE DEF w, st
  <2> QED
    BY <1>1, <1>2, <1>3, GrowsTrans DEF Sound
<1>5. /\ Keep(st) /\ synced' = IF fsync THEN Synced(st) ELSE synced
      /\ captured' = captured \union {r} /\ fsync' = fsync
  BY <1>1 DEF WriteCaptured
<1> HIDE DEF st, r
<1>6. Len(st.file) \in 1 .. Len(st.file)
  BY <1>3 DEF Sound
<1>7. synced' = synced \/ synced' = Synced(st)
  BY <1>5
<1>8. \A x \in captured' :
        \/ x \in captured
        \/ /\ \E k \in 1 .. Len(st.file) : st.file[k] = Whole(x)
           /\ fsync => synced' = Synced(st)
  BY <1>3, <1>5, <1>6
<1> QED
  BY <1>1, <1>3, <1>4, <1>5, <1>7, <1>8, KeepInv

\* An operation that captures nothing and leaves a grown file keeps the invariant.
LEMMA OtherInv ==
  ASSUME DlqInv, NEW st, Sound(st), Grows(State.file, st.file), Keep(st),
         UNCHANGED <<fsync, synced, captured>>, dead' \in Nat
  PROVE  DlqInv'
<1>1. State.file = Last(files)
  BY DEF State
<1> QED
  BY <1>1, KeepInv

\* write() that fails, push() and close(), whether they fail or not.
LEMMA OtherSteps ==
  ASSUME DlqInv, WriteFails \/ Push \/ CloseDlq
  PROVE  DlqInv'
<1> DEFINE r == dead + 1
           w == Writeln(State, r)
<1>1. r \in Nat /\ dead \in Nat /\ Sound(State) /\ State.file \in Seq(Pieces)
  BY DEF DlqInv, DlqTyped, Sound
<1>2. Sound(w) /\ Grows(State.file, w.file) /\ w.file \in Seq(Pieces)
  BY <1>1, WritelnFacts DEF State, Sound
<1>3. UNCHANGED <<fsync, synced, captured>> /\ dead' \in Nat
  BY <1>1 DEF WriteFails, Push, CloseDlq
<1>4. \/ \E s \in FailedWritelns(State, r) : Keep(s)
      \/ \E s \in FailedFlushes(w) : Keep(s)
      \/ Keep(Flush(w)) \/ Keep(w)
      \/ Keep(Flush(State))
      \/ \E s \in FailedFlushes(State) : Keep(s)
  BY DEF WriteFails, Push, CloseDlq
<1> HIDE DEF r, w
<1>5. ASSUME NEW s, Sound(s), Grows(State.file, s.file), Keep(s)
      PROVE  DlqInv'
  BY <1>3, <1>5, OtherInv
<1>6. ASSUME NEW s, Sound(s), Grows(w.file, s.file), Keep(s)
      PROVE  DlqInv'
  <2>1. Grows(State.file, s.file)
    BY <1>1, <1>2, <1>6, GrowsTrans DEF Sound
  <2> QED
    BY <1>5, <1>6, <2>1
<1>7. ASSUME NEW s \in FailedWritelns(State, r), Keep(s)
      PROVE  DlqInv'
  BY <1>1, <1>5, <1>7, FailedWritelnFacts
<1>8. ASSUME NEW s \in FailedFlushes(w), Keep(s)
      PROVE  DlqInv'
  BY <1>2, <1>6, <1>8, FailedFlushFacts
<1>9. ASSUME NEW s \in FailedFlushes(State), Keep(s)
      PROVE  DlqInv'
  BY <1>1, <1>5, <1>9, FailedFlushFacts
<1>10. CASE Keep(Flush(w))
  BY <1>2, <1>6, <1>10, FlushFacts
<1>11. CASE Keep(w)
  BY <1>2, <1>5, <1>11
<1>12. CASE Keep(Flush(State))
  BY <1>1, <1>5, <1>12, FlushFacts
<1> QED
  BY <1>4, <1>7, <1>8, <1>9, <1>10, <1>11, <1>12

\* What a power loss leaves of a file: at least its synced pieces.
LEMMA TornFacts ==
  ASSUME NEW file \in Seq(Pieces), NEW kept \in 0 .. Len(file), NEW g \in Torn(file, kept)
  PROVE  g \in Seq(Pieces) /\ kept <= Len(g) /\ \A i \in 1 .. kept : g[i] = file[i]
<1>1. ASSUME NEW k \in 0 .. Len(file)
      PROVE  /\ SubSeq(file, 1, k) \in Seq(Pieces) /\ Len(SubSeq(file, 1, k)) = k
             /\ \A i \in 1 .. k : SubSeq(file, 1, k)[i] = file[i]
  <2>1. \A i \in 1 .. k : file[i] \in Pieces
    BY <1>1
  <2>2. /\ SubSeq(file, 1, k) \in Seq(Pieces)
        /\ Len(SubSeq(file, 1, k)) = IF 1 <= k THEN k - 1 + 1 ELSE 0
        /\ \A i \in 1 .. k - 1 + 1 : SubSeq(file, 1, k)[i] = file[1 + i - 1]
    BY <1>1, <2>1, SubSeqProperties
  <2> QED
    BY <2>2
<1>2. CASE \E k \in kept .. Len(file) : g = SubSeq(file, 1, k)
  <2>1. PICK k \in kept .. Len(file) : g = SubSeq(file, 1, k)
    BY <1>2
  <2> QED
    BY <1>1, <2>1
<1>3. CASE \E k \in kept + 1 .. Len(file) : \E x \in Parts(file[k].rec) :
             g = Append(SubSeq(file, 1, k - 1), x)
  <2>1. PICK k \in kept + 1 .. Len(file) : \E x \in Parts(file[k].rec) :
               g = Append(SubSeq(file, 1, k - 1), x)
    BY <1>3
  <2>x. PICK x \in Parts(file[k].rec) : g = Append(SubSeq(file, 1, k - 1), x)
    BY <2>1
  <2> DEFINE h == SubSeq(file, 1, k - 1)
  <2>2. h \in Seq(Pieces) /\ Len(h) = k - 1 /\ \A i \in 1 .. k - 1 : h[i] = file[i]
    BY <1>1, <2>1
  <2>3. file[k] \in Pieces
    BY <2>1
  <2>4. x \in Pieces
    BY <2>3, PieceFacts DEF Pieces
  <2> HIDE DEF h
  <2>5. g \in Seq(Pieces) /\ Len(g) = Len(h) + 1 /\ \A i \in 1 .. Len(h) : g[i] = h[i]
    BY <2>x, <2>2, <2>4, AppendProperties DEF h
  <2> QED
    BY <2>2, <2>5
<1> QED
  BY <1>2, <1>3 DEF Torn

\* What is left of the files, and of what was synced, when the process has ended.
Survives(left, kept) ==
  /\ left \in Seq(Seq(Pieces)) /\ Len(left) = Len(files)
  /\ kept \in Seq(Nat) /\ Len(kept) = Len(files)
  /\ \A f \in 1 .. Len(files) : synced[f] <= kept[f] /\ kept[f] <= Len(left[f])
  /\ \A f \in 1 .. Len(files) : \A i \in 1 .. Len(files[f]) :
       files[f][i].whole /\ (fsync => i <= synced[f]) =>
         i <= Len(left[f]) /\ left[f][i] = files[f][i]

\* An exit, which flushes, and a crash leave the whole lines; a power loss leaves the
\* synced ones.
LEMMA RemainsFacts ==
  ASSUME DlqInv, NEW how \in {"exit", "crash", "power"}, how = "power" => fsync,
         NEW left \in Remains(how),
         NEW kept, kept = IF how = "power" THEN [i \in DOMAIN left |-> Len(left[i])] ELSE synced
  PROVE  Survives(left, kept)
<1> DEFINE n == Len(files)
<1>1. /\ n \in Nat /\ n > 0 /\ n \in 1 .. n /\ files \in Seq(Seq(Pieces))
      /\ synced \in Seq(Nat) /\ Len(synced) = n
  BY DEF DlqInv, DlqTyped
<1>2. ASSUME NEW f \in 1 .. n
      PROVE  /\ files[f] \in Seq(Pieces) /\ Len(files[f]) \in Nat
             /\ synced[f] \in Nat /\ synced[f] <= Len(files[f])
  BY <1>1, ElementOfSeq DEF DlqInv, DlqTyped
<1>3. CASE how = "exit"
  <2> DEFINE g == Flush(State).file
  <2>1. g \in Seq(Pieces) /\ Grows(files[n], g)
    BY FlushFacts DEF DlqInv, Sound, State, Last
  <2>2. left = [files EXCEPT ![n] = g] /\ kept = synced
    BY <1>3 DEF Remains
  <2> HIDE DEF g, n
  <2>3. /\ left \in Seq(Seq(Pieces)) /\ Len(left) = n
        /\ \A f \in 1 .. n : left[f] = IF f = n THEN g ELSE files[f]
    BY <1>1, <2>1, <2>2, ExceptSeq DEF n
  <2>4. ASSUME NEW f \in 1 .. n
        PROVE  Grows(files[f], left[f]) /\ left[f] \in Seq(Pieces)
    <3>1. CASE f = n
      BY <2>1, <2>3, <3>1
    <3>2. CASE f # n
      <4>1. left[f] = files[f]
        BY <2>3, <3>2
      <4> QED
        BY <1>2, <4>1 DEF Grows
    <3> QED
      BY <3>1, <3>2
  <2>5. ASSUME NEW f \in 1 .. n
        PROVE  synced[f] <= kept[f] /\ kept[f] <= Len(left[f])
    BY <1>2, <2>2, <2>4 DEF Grows
  <2>6. ASSUME NEW f \in 1 .. n, NEW i \in 1 .. Len(files[f]), files[f][i].whole
        PROVE  i <= Len(left[f]) /\ left[f][i] = files[f][i]
    BY <1>2, <2>4, <2>6 DEF Grows
  <2> QED
    BY <1>1, <2>2, <2>3, <2>5, <2>6 DEF Survives, n
<1>4. CASE how = "crash"
  <2>1. left = files /\ kept = synced
    BY <1>4 DEF Remains
  <2> QED
    BY <1>1, <1>2, <2>1 DEF Survives
<1>5. CASE how = "power"
  <2> DEFINE T == UNION {Torn(files[i], synced[i]) : i \in 1 .. n}
  <2>1. left \in [1 .. n -> T] /\ \A f \in 1 .. n : left[f] \in Torn(files[f], synced[f])
    BY <1>5 DEF Remains
  <2> HIDE DEF T, n
  <2>2. ASSUME NEW f \in 1 .. n
        PROVE  /\ left[f] \in Seq(Pieces) /\ synced[f] <= Len(left[f])
               /\ \A i \in 1 .. synced[f] : left[f][i] = files[f][i]
    <3>1. synced[f] \in 0 .. Len(files[f])
      BY <1>2
    <3> QED
      BY <1>2, <2>1, <3>1, TornFacts
  <2>3. left \in [1 .. n -> Seq(Pieces)]
    BY <2>1, <2>2
  <2>4. left \in Seq(Seq(Pieces)) /\ Len(left) = n
    BY <1>1, <2>3, FcnSeq
  <2>5. kept = [i \in 1 .. n |-> Len(left[i])]
    BY <1>5, <2>3
  <2>6. kept \in [1 .. n -> Nat]
    BY <2>2, <2>5
  <2>7. kept \in Seq(Nat) /\ Len(kept) = n
    BY <1>1, <2>6, FcnSeq
  <2>8. ASSUME NEW f \in 1 .. n
        PROVE  kept[f] = Len(left[f]) /\ Len(left[f]) \in Nat
    <3>1. kept[f] = Len(left[f])
      BY <2>5, Zenon
    <3>2. Len(left[f]) \in Nat
      BY <2>2, LenProperties
    <3> QED
      BY <3>1, <3>2
  <2>9. ASSUME NEW f \in 1 .. n
        PROVE  synced[f] <= kept[f] /\ kept[f] <= Len(left[f])
    <3>1. synced[f] <= Len(left[f]) /\ kept[f] = Len(left[f]) /\ Len(left[f]) \in Nat
      BY <2>2, <2>8
    <3> QED
      BY <3>1
  <2>10. ASSUME NEW f \in 1 .. n, NEW i \in 1 .. Len(files[f]), i <= synced[f]
         PROVE  i <= Len(left[f]) /\ left[f][i] = files[f][i]
    <3>1. i \in 1 .. synced[f]
      BY <1>2, <2>10
    <3> QED
      BY <1>2, <2>2, <2>8, <3>1
  <2> QED
    BY <1>5, <2>4, <2>7, <2>9, <2>10 DEF Survives, n
<1> QED
  BY <1>3, <1>4, <1>5

\* The process is restarted, in the same second or later.
LEMMA RestartStep ==
  ASSUME DlqInv, RestartDlq
  PROVE  DlqInv'
<1>0. PICK how \in {"exit", "crash", "power"} :
        \E left \in Remains(how) : \E same \in BOOLEAN :
          /\ how = "power" => fsync
          /\ files' = IF same THEN left ELSE Append(left, <<>>)
          /\ synced' = LET kept == IF how = "power" THEN [i \in DOMAIN left |-> Len(left[i])]
                                   ELSE synced
                       IN IF same THEN kept ELSE Append(kept, 0)
  BY DEF RestartDlq
<1>1. PICK left \in Remains(how), same \in BOOLEAN :
        /\ how = "power" => fsync
        /\ files' = IF same THEN left ELSE Append(left, <<>>)
        /\ synced' = LET kept == IF how = "power" THEN [i \in DOMAIN left |-> Len(left[i])]
                                 ELSE synced
                     IN IF same THEN kept ELSE Append(kept, 0)
  BY <1>0
<1> DEFINE kept == IF how = "power" THEN [i \in DOMAIN left |-> Len(left[i])] ELSE synced
           n == Len(files)
<1>2. synced' = IF same THEN kept ELSE Append(kept, 0)
  BY <1>1
<1>3. Survives(left, kept)
  BY <1>1, RemainsFacts
<1>4. n \in Nat /\ n > 0 /\ fsync' = fsync /\ dead' = dead /\ captured' = captured
      /\ stream' = NoLines
  BY DEF DlqInv, DlqTyped, RestartDlq
<1> HIDE DEF kept, n
<1>5. /\ left \in Seq(Seq(Pieces)) /\ Len(left) = n /\ kept \in Seq(Nat) /\ Len(kept) = n
      /\ \A f \in 1 .. n : kept[f] <= Len(left[f])
  BY <1>3 DEF Survives, n
<1>6. /\ files' \in Seq(Seq(Pieces)) /\ Len(files') \in {n, n + 1}
      /\ \A f \in 1 .. n : files'[f] = left[f]
      /\ Len(files') = n + 1 => files'[n + 1] = <<>>
      /\ synced' \in Seq(Nat) /\ Len(synced') = Len(files')
      /\ \A f \in 1 .. n : synced'[f] = kept[f]
      /\ Len(files') = n + 1 => synced'[n + 1] = 0
  <2>1. CASE same
    <3>1. files' = left /\ synced' = kept
      BY <1>1, <1>2, <2>1
    <3>2. Len(files') = n /\ n # n + 1
      BY <1>4, <1>5, <3>1
    <3> QED
      BY <1>5, <3>1, <3>2
  <2>2. CASE ~same
    <3>1. files' = Append(left, <<>>) /\ synced' = Append(kept, 0)
      BY <1>1, <1>2, <2>2
    <3>2. <<>> \in Seq(Pieces) /\ 0 \in Nat
      OBVIOUS
    <3>3. /\ files' \in Seq(Seq(Pieces)) /\ Len(files') = n + 1
          /\ \A f \in 1 .. n : files'[f] = left[f]
          /\ files'[n + 1] = <<>>
      BY <1>5, <3>1, <3>2, AppendProperties
    <3>4. /\ synced' \in Seq(Nat) /\ Len(synced') = n + 1
          /\ \A f \in 1 .. n : synced'[f] = kept[f]
          /\ synced'[n + 1] = 0
      BY <1>5, <3>1, <3>2, AppendProperties
    <3> QED
      BY <3>3, <3>4
  <2> QED
    BY <2>1, <2>2
<1>7. DlqTyped'
  <2>1. ASSUME NEW f \in 1 .. Len(files')
        PROVE  synced'[f] <= Len(files'[f])
    <3>1. CASE f \in 1 .. n
      BY <1>5, <1>6, <3>1
    <3>2. CASE f = n + 1 /\ Len(files') = n + 1
      BY <1>6, <3>2
    <3> QED
      BY <1>4, <1>6, <3>1, <3>2
  <2> QED
    BY <1>4, <1>6, <2>1 DEF DlqInv, DlqTyped
<1>8. Sound(State)'
  <2>1. Last(files') \in Seq(Pieces)
    BY <1>7, ElementOfSeq DEF Last, DlqTyped
  <2>2. State' = [file |-> Last(files'), lines |-> <<>>, begun |-> FALSE]
    BY <1>4 DEF State, NoLines
  <2>3. State'.file = Last(files') /\ State'.lines = <<>> /\ State'.begun = FALSE
    BY <2>2
  <2>4. <<>> \in Seq(Nat) /\ FALSE \in BOOLEAN
    BY EmptySeq
  <2> QED
    BY <2>1, <2>3, <2>4, Zenon DEF Sound
<1>9. Kept'
  <2> SUFFICES ASSUME NEW r \in captured
               PROVE  \E f \in 1 .. Len(files') : \E i \in 1 .. Len(files'[f]) : At(r, f, i)'
    BY <1>4 DEF Kept
  <2>1. PICK f \in 1 .. n : \E i \in 1 .. Len(files[f]) : At(r, f, i)
    BY DEF DlqInv, Kept, n
  <2>2. PICK i \in 1 .. Len(files[f]) : At(r, f, i)
    BY <2>1
  <2>3. files[f][i].whole /\ (fsync => i <= synced[f])
    BY <2>2 DEF At, Whole
  <2>4. i <= Len(left[f]) /\ left[f][i] = Whole(r)
    BY <1>3, <2>2, <2>3 DEF Survives, At, n
  <2>5. fsync => i <= kept[f]
    <3>1. synced[f] \in Nat /\ kept[f] \in Nat /\ synced[f] <= kept[f]
      BY <1>3, <1>5, ElementOfSeq DEF Survives, DlqInv, DlqTyped, n
    <3> QED
      BY <2>3, <3>1
  <2>6. left[f] \in Seq(Pieces) /\ f \in 1 .. Len(files') /\ files'[f] = left[f]
        /\ synced'[f] = kept[f]
    BY <1>4, <1>5, <1>6, ElementOfSeq
  <2>7. i \in 1 .. Len(files'[f])
    BY <2>4, <2>6
  <2> QED
    BY <1>4, <2>4, <2>5, <2>6, <2>7 DEF At
<1> QED
  BY <1>7, <1>8, <1>9 DEF DlqInv

\* A record that write() called captured is kept for ever: through failed writes and
\* flushes of other records, buffered pushes before and after it, exits, crashes and
\* restarts within the same second, and in the fsync mode power losses.  It is read
\* back unless the file ended in a part of a line when it came, or holds a part that
\* ends inside a character.
THEOREM CapturedKeptHolds == DlqSpec => []CapturedKept
<1>1. DlqInit => DlqInv
  <2> SUFFICES ASSUME DlqInit PROVE DlqInv
    OBVIOUS
  <2>1. DlqTyped
    BY DEF DlqInit, DlqTyped
  <2>2. State = [file |-> <<>>, lines |-> <<>>, begun |-> FALSE]
    BY DEF DlqInit, State, NoLines, Last
  <2>3. Sound(State)
    BY <2>2 DEF Sound
  <2> QED
    BY <2>1, <2>3 DEF DlqInit, DlqInv, Kept
<1>2. DlqInv /\ [DlqNext]_dlqVars => DlqInv'
  <2> SUFFICES ASSUME DlqInv, [DlqNext]_dlqVars PROVE DlqInv'
    OBVIOUS
  <2>1. CASE WriteDropped
    BY <2>1 DEF WriteDropped, DlqInv, DlqTyped, Kept, At, State, Sound
  <2>2. CASE UNCHANGED dlqVars
    BY <2>2 DEF dlqVars, DlqInv, DlqTyped, Kept, At, State, Sound
  <2> QED
    BY <2>1, <2>2, CapturedStep, OtherSteps, RestartStep DEF DlqNext
<1>3. DlqInv => CapturedKept
  <2> SUFFICES ASSUME DlqInv, NEW r \in captured
               PROVE  \/ r \in read_all(files)
                      \/ \E f \in ToSet(files) : \E i \in DOMAIN f :
                           f[i] = Whole(r) /\ (AfterPart(f, i) \/ Garbled(f))
    BY DEF CapturedKept
  <2>1. PICK m \in 1 .. Len(files) : \E i \in 1 .. Len(files[m]) : At(r, m, i)
    BY DEF DlqInv, Kept
  <2>2. PICK i \in 1 .. Len(files[m]) : At(r, m, i)
    BY <2>1
  <2> DEFINE f == files[m]
  <2>3. f \in Seq(Pieces) /\ f \in ToSet(files)
    <3>1. files \in Seq(Seq(Pieces)) /\ m \in DOMAIN files
      BY LenProperties DEF DlqInv, DlqTyped
    <3> QED
      BY <3>1, ElementOfSeq DEF ToSet
  <2>4. i \in DOMAIN f /\ f[i] = Whole(r) /\ f[i].whole /\ f[i].rec = r
    BY <2>2, <2>3 DEF At, Whole
  <2> HIDE DEF f
  <2>5. CASE ~AfterPart(f, i) /\ ~Garbled(f)
    BY <2>3, <2>4, <2>5 DEF read_all
  <2> QED
    BY <2>3, <2>4, <2>5
<1> QED
  BY <1>1, <1>2, <1>3, PTL DEF DlqSpec

=============================================================================
