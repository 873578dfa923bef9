------------------------ MODULE PersistentQueueProofs ------------------------
(***************************************************************************)
(* Proofs about PersistentQueue, for queues of any length and any number   *)
(* of segments, failures and crashes.  No entry that reached the disk is   *)
(* removed before it is acknowledged (StableKept), no sequence number is   *)
(* given out twice (WriteSeqClears), in fsync mode every accepted entry is *)
(* kept and handed out (Recoverable) and the files implement the abstract  *)
(* FIFO (ImplementsDurableQueue), the files exceed max_bytes by less than  *)
(* a line (SpaceBounded) and total_bytes has no drift (TotalAuthoritative).*)
(* They need the failures that TLC shows to break WriteSeqClears and       *)
(* Recoverable to be excluded (SoundFaults): an unreadable segment during  *)
(* open, and in fsync mode a failing writeln! or sync_data of a line or a  *)
(* failing sync of the directory entry of a new segment.                   *)
(* ImplementsDurableQueue is about text of single bytes (~ MultiByte), and *)
(* the last two about writeln! calls that do not fail (SpaceFaults).       *)
(***************************************************************************)
EXTENDS PersistentQueueRefinement, TLAPS, FiniteSetTheorems, WellFoundedInduction

\* None and Partial stand for no file and a broken file, not for sets of lines.
FileMarks ==
  None \notin SUBSET Line /\ Partial \notin SUBSET Line /\ None # Partial

\* The failures that leave the sequence numbers and the file set intact.
SoundFaults ==
  /\ "recover" \notin FaultPoints
  /\ Fsync => {"link", "append", "sync"} \cap FaultPoints = {}

Sound == FileMarks /\ SoundFaults

-----------------------------------------------------------------------------
(* The inductive invariant.                                                *)

\* The types of the variables it speaks about.
Typed ==
  /\ plain \in [Idx -> {None} \cup SUBSET Line]
  /\ zst \in [Idx -> {None, Partial} \cup SUBSET Line]
  /\ checkpoint \in [w : Nat, a : Nat, i : Idx]
  /\ buf \subseteq Line
  /\ writeSeq \in Nat /\ readSeq \in Nat /\ ackSeq \in Nat
  /\ segmentIndex \in Idx /\ current \in BOOLEAN
  /\ victim \in Idx /\ attempts \in 0 .. MaxEvents

\* The lines of a segment, the ones its writer still buffers included.
Held(p, z, n, c, b) ==
  [i \in Idx |-> Content(p, z, i) \cup (IF c /\ i = n THEN b ELSE {})]

held == Held(plain, zst, segmentIndex, current, buf)

Lines == OnDisk \cup buf

\* The call is an enqueue that has not written its line yet.
Rotating == {"rotate", "compress", "compressed", "unlink", "create"}
Before == Rotating \cup {"append"}

\* The files: none above segment_index, the active one not compressed, two forms of
\* one segment equal, and a compression in progress works on a complete file.
FileInv ==
  /\ unlinked = {}
  /\ \A i \in Idx : plain[i] # None \/ zst[i] # None => i <= segmentIndex
  /\ \A i \in Idx : plain[i] # None => zst[i] \in {None, Partial, plain[i]}
  /\ segmentIndex <= attempts /\ checkpoint.i <= attempts
  /\ pc \in Rotating => segmentIndex < attempts
  /\ pc = "append" => 0 < attempts
  /\ current => plain[segmentIndex] # None /\ zst[segmentIndex] = None
  /\ ~ current => buf = {}
  /\ pc \in Rotating \ {"rotate"} => ~ current
  /\ pc \in {"compress", "compressed", "unlink"} => plain[segmentIndex] # None
  /\ pc = "unlink" => zst[segmentIndex] = plain[segmentIndex]
  /\ pc \in {"append", "sync", "commit"} => current

\* A file that is not text is an older one and has no readable form, and events of
\* single bytes leave none; a part of a line comes from a failed writeln!.
GarbledInv ==
  /\ garbled \in [Idx -> {None} \cup SUBSET Line]
  /\ \A i \in Idx : garbled[i] # None => i <= segmentIndex /\ plain[i] = None
  /\ ~ MultiByte => \A i \in Idx : garbled[i] = None
  /\ ragged \in BOOLEAN /\ (ragged => "append" \in FaultPoints)

\* Sequence numbers, event ids and segments increase together, and the next line
\* comes after all of them.
OrderInv ==
  /\ \A l \in Lines : l.id <= attempts /\ l.seq <= writeSeq
  /\ pc \in Before => \A l \in Lines : l.id < attempts
  /\ pc \notin {"sync", "commit"} => \A l \in Lines : l.seq < writeSeq
  /\ \A l, m \in Lines :
       l # m => (l.id < m.id /\ l.seq < m.seq) \/ (m.id < l.id /\ m.seq < l.seq)
  /\ \A i, j \in Idx : i < j => \A l \in held[i], m \in held[j] : l.seq < m.seq

\* The cursors: everything behind the read cursor was handed out or acknowledged,
\* everything behind ack_seq is acknowledged.
CursorInv ==
  /\ checkpoint.a <= ackSeq /\ ackSeq <= readSeq /\ readSeq <= writeSeq
  /\ checkpoint.a <= checkpoint.w
  /\ \A l \in Lines : l.seq < readSeq => l \in popped \/ l.id \in settled
  /\ \A l \in Lines : l.seq < ackSeq => l.id \in settled
  /\ pc = "sibling" =>
       plain[victim] = None /\ \A l \in Content(plain, zst, victim) : l.seq < ackSeq

\* In fsync mode what was accepted, or is about to be, reached the disk.
AcceptInv ==
  /\ pc = "sync" => Fsync /\ \E l \in buf : l.id = attempts
  /\ Fsync =>
       /\ \A id \in accepted : \E l \in stable : l.id = id
       /\ pc = "commit" \/ (pc \in {"checkpoint", "rewrite"} /\ caller = "enqueue") =>
            \E l \in stable : l.id = attempts

IInv ==
  Typed /\ FileInv /\ GarbledInv /\ OrderInv /\ CursorInv /\ AcceptInv /\ StableKept

-----------------------------------------------------------------------------
(* The operators of the model.                                             *)

\* Every non-empty set of naturals has a least element.
LEMMA LeastNat ==
  ASSUME NEW S, S \subseteq Nat, S # {}
  PROVE  \E m \in S : \A n \in S : m <= n
<1>1. PICK x \in S : \A y \in S : ~ (<<y, x>> \in OpToRel(<, Nat))
  BY NatLessThanWellFounded, WFMin
<1>2. ASSUME NEW y \in S PROVE x <= y
  <2>1. ~ (y < x)
    BY <1>1 DEF OpToRel
  <2> QED
    BY <2>1
<1> QED
  BY <1>2

\* MinOf is the least element of a non-empty set of naturals.
LEMMA MinOfFacts ==
  ASSUME NEW S, S \subseteq Nat, S # {}
  PROVE  MinOf(S) \in S /\ \A n \in S : MinOf(S) <= n
BY LeastNat, Zenon DEF MinOf

\* MaxOf is the greatest element of a bounded set of naturals, 0 for the empty set.
LEMMA MaxOfFacts ==
  ASSUME NEW S, S \subseteq Nat, NEW b \in Nat, \A n \in S : n <= b
  PROVE  MaxOf(S, 0) \in S \cup {0} /\ \A n \in S : n <= MaxOf(S, 0)
<1>1. CASE S = {}
  BY <1>1 DEF MaxOf
<1>2. CASE S # {}
  <2> DEFINE D == {b - n : n \in S}
  <2>1. D \subseteq Nat
    <3>1. ASSUME NEW n \in S PROVE b - n \in Nat
      BY <3>1
    <3> QED
      BY <3>1
  <2>0. D # {}
    BY <1>2
  <2>2. PICK d \in D : \A e \in D : d <= e
    BY <2>0, <2>1, LeastNat
  <2>3. PICK m \in S : d = b - m
    BY <2>2
  <2>4. ASSUME NEW n \in S PROVE n <= m
    <3>1. b - m <= b - n
      BY <2>2, <2>3
    <3> QED
      BY <3>1
  <2>5. \E k \in S : \A n \in S : n <= k
    BY <2>4
  <2>6. MaxOf(S, 0) = CHOOSE k \in S : \A n \in S : n <= k
    BY <1>2 DEF MaxOf
  <2>7. MaxOf(S, 0) \in S /\ \A n \in S : n <= MaxOf(S, 0)
    BY <2>5, <2>6, Zenon
  <2> QED
    BY <2>7
<1> QED
  BY <1>1, <1>2

\* The segments hold lines, and together with the buffer all of them.
LEMMA ContentFacts ==
  ASSUME NEW p \in [Idx -> {None} \cup SUBSET Line],
         NEW z \in [Idx -> {None, Partial} \cup SUBSET Line], NEW i \in Idx
  PROVE  Content(p, z, i) \subseteq Line
BY DEF Content

\* The lines are what the segments hold.
LEMMA HeldFacts ==
  ASSUME NEW p, NEW z, NEW n \in Idx, NEW c \in BOOLEAN, NEW b, ~ c => b = {}
  PROVE  /\ (UNION {Content(p, z, i) : i \in Idx}) \cup b
              = UNION {Held(p, z, n, c, b)[i] : i \in Idx}
         /\ \A i \in Idx : Content(p, z, i) \subseteq Held(p, z, n, c, b)[i]
<1> DEFINE H == Held(p, z, n, c, b)
<1>1. \A i \in Idx : H[i] = Content(p, z, i) \cup (IF c /\ i = n THEN b ELSE {})
  BY DEF Held
<1>2. ASSUME NEW l \in (UNION {Content(p, z, i) : i \in Idx}) \cup b
      PROVE  l \in UNION {H[i] : i \in Idx}
  <2>1. CASE l \in b
    <3>1. c
      BY <2>1
    <3>2. l \in H[n]
      BY <1>1, <2>1, <3>1
    <3> QED
      BY <3>2
  <2>2. CASE l \in UNION {Content(p, z, i) : i \in Idx}
    <3>1. PICK i \in Idx : l \in Content(p, z, i)
      BY <2>2
    <3>2. l \in H[i]
      BY <1>1, <3>1
    <3> QED
      BY <3>2
  <2> QED
    BY <1>2, <2>1, <2>2
<1>3. ASSUME NEW l \in UNION {H[i] : i \in Idx}
      PROVE  l \in (UNION {Content(p, z, i) : i \in Idx}) \cup b
  <2>1. PICK i \in Idx : l \in H[i]
    BY <1>3
  <2>2. l \in Content(p, z, i) \/ l \in b
    BY <1>1, <2>1
  <2> QED
    BY <2>2
<1>4. \A i \in Idx : Content(p, z, i) \subseteq H[i]
  BY <1>1
<1> HIDE DEF H
<1>5. (UNION {Content(p, z, i) : i \in Idx}) \cup b = UNION {H[i] : i \in Idx}
  BY <1>2, <1>3
<1> QED
  BY <1>4, <1>5 DEF H

\* Flushing the BufWriter moves its lines into the file and changes nothing else.
LEMMA FlushFacts ==
  ASSUME Sound, Typed, FileInv
  PROVE  /\ Flushed \in [Idx -> {None} \cup SUBSET Line]
         /\ \A i \in Idx : Flushed[i] = None <=> plain[i] = None
         /\ \A i \in Idx : ~ (current /\ i = segmentIndex) => Flushed[i] = plain[i]
         /\ \A i \in Idx : Content(Flushed, zst, i) = held[i]
<1>1. CASE current
  <2>1. plain[segmentIndex] # None /\ plain[segmentIndex] \subseteq Line
    BY <1>1 DEF FileInv, Typed
  <2>2. Flushed = [plain EXCEPT ![segmentIndex] = plain[segmentIndex] \cup buf]
    BY <1>1 DEF Flushed, With
  <2>3. plain[segmentIndex] \cup buf \in SUBSET Line
    BY <2>1 DEF Typed
  <2>4. plain[segmentIndex] \cup buf # None
    BY <2>3 DEF Sound, FileMarks
  <2>5. Flushed[segmentIndex] = plain[segmentIndex] \cup buf
    BY <2>2 DEF Typed
  <2>6. \A i \in Idx : i # segmentIndex => Flushed[i] = plain[i]
    BY <2>2 DEF Typed
  <2>7. Flushed \in [Idx -> {None} \cup SUBSET Line]
    BY <2>2, <2>3 DEF Typed
  <2>8. ASSUME NEW i \in Idx PROVE Content(Flushed, zst, i) = held[i]
    <3>1. CASE i = segmentIndex
      BY <1>1, <2>1, <2>4, <2>5, <3>1 DEF held, Held, Content
    <3>2. CASE i # segmentIndex
      BY <2>6, <3>2 DEF held, Held, Content
    <3> QED
      BY <3>1, <3>2
  <2>9. ASSUME NEW i \in Idx PROVE Flushed[i] = None <=> plain[i] = None
    BY <2>1, <2>4, <2>5, <2>6
  <2> QED
    BY <1>1, <2>6, <2>7, <2>8, <2>9
<1>2. CASE ~ current
  BY <1>2 DEF Flushed, With, held, Held, Typed, Content
<1> QED
  BY <1>1, <1>2

\* Where a prefix of the buffer goes when the writer is lost: into the file, which may
\* then be no text any more.
LEMMA CutFacts ==
  ASSUME Sound, Typed, FileInv, GarbledInv, NEW K \in SUBSET buf, NEW c \in Cuts,
         MayCut(K, c), NEW p, p = Text(With(K), c), NEW g, g = NotText(With(K), c)
  PROVE  /\ p \in [Idx -> {None} \cup SUBSET Line] /\ g \in [Idx -> {None} \cup SUBSET Line]
         /\ \A i \in Idx : ~ (current /\ i = segmentIndex) => p[i] = plain[i] /\ g[i] = garbled[i]
         /\ current => /\ plain[segmentIndex] # None /\ plain[segmentIndex] \subseteq Line
                       /\ zst[segmentIndex] = None /\ garbled[segmentIndex] = None
         /\ current /\ c # "garbled" =>
              p[segmentIndex] = plain[segmentIndex] \cup K /\ g[segmentIndex] = None
         /\ c = "garbled" => /\ current /\ MultiByte /\ K # buf /\ p[segmentIndex] = None
                             /\ g[segmentIndex] = plain[segmentIndex] \cup K
         /\ current => plain[segmentIndex] \cup K # None
         /\ ~ current => K = {} /\ c = "whole"
         /\ \A i \in Idx : Content(p, zst, i) \subseteq held[i]
         /\ \A i \in Idx : p[i] # None => plain[i] # None
<1>0. segmentIndex \in Idx /\ plain \in [Idx -> {None} \cup SUBSET Line]
      /\ garbled \in [Idx -> {None} \cup SUBSET Line]
  BY DEF Typed, GarbledInv
<1>1. CASE ~ current
  <2>1. K = {} /\ c = "whole"
    BY <1>1 DEF FileInv, MayCut
  <2>2. p = plain /\ g = garbled
    BY <1>1, <2>1 DEF With, Text, NotText
  <2>3. \A i \in Idx : Content(p, zst, i) \subseteq held[i]
    BY <2>2 DEF held, Held
  <2> QED
    BY <1>0, <1>1, <2>1, <2>2, <2>3
<1>2. CASE current
  <2>1. /\ plain[segmentIndex] # None /\ plain[segmentIndex] \subseteq Line
        /\ zst[segmentIndex] = None /\ garbled[segmentIndex] = None
    BY <1>0, <1>2 DEF FileInv, GarbledInv
  <2>2. plain[segmentIndex] \cup K \in SUBSET Line
    BY <2>1 DEF Typed
  <2>3. plain[segmentIndex] \cup K # None
    BY <2>2 DEF Sound, FileMarks
  <2>4. PICK w : w = With(K)
    OBVIOUS
  <2>5. /\ w \in [Idx -> {None} \cup SUBSET Line]
        /\ w[segmentIndex] = plain[segmentIndex] \cup K
        /\ \A i \in Idx : i # segmentIndex => w[i] = plain[i]
    BY <1>0, <1>2, <2>2, <2>4 DEF With
  <2>6. /\ c # "garbled" => p = w /\ g = garbled
        /\ c = "garbled" => /\ p = [w EXCEPT ![segmentIndex] = None]
                            /\ g = [garbled EXCEPT ![segmentIndex] = w[segmentIndex]]
                            /\ MultiByte /\ K # buf
    BY <2>4 DEF Text, NotText, MayCut
  <2>7. /\ c # "garbled" =>
             p[segmentIndex] = plain[segmentIndex] \cup K /\ g[segmentIndex] = None
        /\ c = "garbled" => p[segmentIndex] = None
                            /\ g[segmentIndex] = plain[segmentIndex] \cup K
    BY <1>0, <2>1, <2>5, <2>6
  <2>8. \A i \in Idx : i # segmentIndex => p[i] = plain[i] /\ g[i] = garbled[i]
    BY <1>0, <2>5, <2>6
  <2>9. /\ p \in [Idx -> {None} \cup SUBSET Line]
        /\ g \in [Idx -> {None} \cup SUBSET Line]
    BY <1>0, <2>2, <2>5, <2>6
  <2>10. ASSUME NEW i \in Idx PROVE Content(p, zst, i) \subseteq held[i]
    <3>1. CASE i # segmentIndex
      BY <2>8, <3>1 DEF Content, held, Held
    <3>2. CASE i = segmentIndex
      <4>1. held[i] = plain[i] \cup buf
        BY <1>0, <1>2, <2>1, <3>2 DEF held, Held, Content
      <4>2. Content(p, zst, i) \subseteq plain[i] \cup K
        BY <2>1, <2>3, <2>7, <3>2 DEF Content
      <4> QED
        BY <4>1, <4>2
    <3> QED
      BY <3>1, <3>2
  <2>11. \A i \in Idx : p[i] # None => plain[i] # None
    BY <2>1, <2>8
  <2> QED
    BY <1>2, <2>1, <2>3, <2>6, <2>7, <2>8, <2>9, <2>10, <2>11
<1> QED
  BY <1>1, <1>2

\* Such a loss keeps every line that is in a file, in the file or in what became of it.
LEMMA CutKeeps ==
  ASSUME Sound, Typed, FileInv, GarbledInv, NEW K \in SUBSET buf, NEW c \in Cuts,
         MayCut(K, c), plain' = Text(With(K), c), garbled' = NotText(With(K), c), zst' = zst
  PROVE  /\ \A i \in Idx : \A l \in Content(plain, zst, i) :
              l \in Content(plain', zst', i) \/ l \in Buried'
         /\ K \subseteq OnDisk' \cup Buried' /\ Buried \subseteq Buried'
<1> DEFINE p == plain'
           g == garbled'
<1>1. /\ \A i \in Idx : ~ (current /\ i = segmentIndex) => p[i] = plain[i] /\ g[i] = garbled[i]
      /\ current => plain[segmentIndex] # None /\ garbled[segmentIndex] = None
      /\ current /\ c # "garbled" => p[segmentIndex] = plain[segmentIndex] \cup K
      /\ c = "garbled" => current /\ g[segmentIndex] = plain[segmentIndex] \cup K
      /\ current => plain[segmentIndex] \cup K # None
      /\ ~ current => K = {}
  BY CutFacts
<1>2. segmentIndex \in Idx
  BY DEF Typed
<1>3. \A i \in Idx : g[i] # None => g[i] \subseteq Buried'
  BY DEF Buried
<1>4. \A i \in Idx : Content(p, zst', i) \subseteq OnDisk'
  BY DEF OnDisk
<1> HIDE DEF p, g
<1>5. ASSUME NEW i \in Idx, NEW l \in Content(plain, zst, i)
      PROVE  l \in Content(p, zst', i) \/ l \in Buried'
  <2>1. CASE ~ (current /\ i = segmentIndex)
    BY <1>1, <1>5, <2>1 DEF Content
  <2>2. CASE current /\ i = segmentIndex
    <3>1. l \in plain[segmentIndex]
      BY <1>1, <1>5, <2>2 DEF Content
    <3>2. CASE c # "garbled"
      BY <1>1, <2>2, <3>1, <3>2 DEF Content
    <3>3. CASE c = "garbled"
      <4>1. g[segmentIndex] # None /\ l \in g[segmentIndex]
        BY <1>1, <3>1, <3>3
      <4> QED
        BY <1>2, <1>3, <4>1
    <3> QED
      BY <3>2, <3>3
  <2> QED
    BY <2>1, <2>2
<1>6. ASSUME NEW l \in K PROVE l \in OnDisk' \cup Buried'
  <2>1. current
    BY <1>1
  <2>2. CASE c # "garbled"
    <3>1. l \in Content(p, zst', segmentIndex)
      BY <1>1, <2>1, <2>2 DEF Content
    <3> QED
      BY <1>2, <1>4, <3>1
  <2>3. CASE c = "garbled"
    <3>1. g[segmentIndex] # None /\ l \in g[segmentIndex]
      BY <1>1, <2>1, <2>3
    <3> QED
      BY <1>2, <1>3, <3>1
  <2> QED
    BY <2>2, <2>3
<1>7. ASSUME NEW l \in Buried PROVE l \in Buried'
  <2>1. PICK i \in Idx : garbled[i] # None /\ l \in garbled[i]
    BY DEF Buried
  <2>2. g[i] = garbled[i]
    BY <1>1, <2>1
  <2> QED
    BY <1>3, <2>1, <2>2
<1> QED
  BY <1>5, <1>6, <1>7 DEF p

\* Without compression in the way, what an open finds are the lines of the segments:
\* the next sequence number is above all of them, the next segment above all files.
LEMMA CrashFacts ==
  ASSUME Sound, IInv, NEW K, NEW cut \in Cuts, NEW G, NEW B, CrashAndOpen(K, cut, G, B)
  PROVE  /\ plain' \in [Idx -> {None} \cup SUBSET Line]
         /\ \A i \in Idx : plain'[i] # None => plain[i] # None
         /\ \A i \in Idx : ~ (current /\ i = segmentIndex) => plain'[i] = plain[i]
         /\ \A i \in Idx : Content(plain', zst, i) \subseteq held[i]
         /\ K \in SUBSET buf /\ MayCut(K, cut)
         /\ plain' = Text(With(K), cut) /\ garbled' = NotText(With(K), cut)
         /\ zst' = zst /\ buf' = {} /\ current' = FALSE /\ unlinked' = {}
         /\ writeSeq' \in Nat /\ checkpoint.w <= writeSeq'
         /\ \A i \in Idx : \A l \in Content(plain', zst, i) : l.seq < writeSeq'
         /\ segmentIndex' \in Idx /\ segmentIndex' <= attempts
         /\ \A i \in Idx : plain'[i] # None \/ zst[i] # None => i <= segmentIndex'
         /\ \A i \in Idx : garbled'[i] # None => i <= segmentIndex'
<1> DEFINE p == Text(With(K), cut)
           g == NotText(With(K), cut)
           found == recover_segment_state(p, g, B)
<1>1. Typed /\ FileInv /\ GarbledInv /\ OrderInv /\ segmentIndex \in Idx
  BY DEF IInv, Typed
<1>2. G = {} /\ K \in SUBSET buf /\ MayCut(K, cut)
  BY <1>1 DEF CrashAndOpen, FileInv, IsPrefix
<1>3. B = {}
  BY DEF CrashAndOpen, Fault, Sound, SoundFaults
<1>4. /\ p \in [Idx -> {None} \cup SUBSET Line] /\ g \in [Idx -> {None} \cup SUBSET Line]
      /\ \A i \in Idx : ~ (current /\ i = segmentIndex) => p[i] = plain[i] /\ g[i] = garbled[i]
      /\ \A i \in Idx : Content(p, zst, i) \subseteq held[i]
      /\ \A i \in Idx : p[i] # None => plain[i] # None
      /\ current => zst[segmentIndex] = None
  BY <1>1, <1>2, CutFacts
<1>0. /\ plain' = p /\ garbled' = g
      /\ zst' = zst /\ buf' = {} /\ current' = FALSE /\ unlinked' = {}
      /\ writeSeq' = Larger(checkpoint.w, found.w)
      /\ segmentIndex' = Larger(checkpoint.i, found.i)
  <2>1. /\ [i \in Idx |-> IF i \in G THEN None ELSE p[i]] = p
        /\ [i \in Idx |-> IF i \in G THEN None ELSE g[i]] = g
    BY <1>2, <1>4
  <2> HIDE DEF p, g
  <2>2. /\ plain' = p /\ garbled' = g
    BY <2>1 DEF CrashAndOpen, p, g
  <2>3. /\ writeSeq' = Larger(checkpoint.w, recover_segment_state(p, g, B).w)
        /\ segmentIndex' = Larger(checkpoint.i, recover_segment_state(p, g, B).i)
    BY <2>1, Zenon DEF CrashAndOpen, p, g
  <2> QED
    BY <2>2, <2>3 DEF CrashAndOpen
<1>8. ASSUME NEW i \in Idx, zst[i] # None PROVE p[i] = plain[i]
  BY <1>4, <1>8
<1> DEFINE lines == UNION ({IF p[i] = None THEN {} ELSE p[i] : i \in Idx \ B}
                            \cup {IF zst[i] \in {None, Partial} THEN {} ELSE zst[i] :
                                    i \in Idx \ B})
           S == {l.seq + 1 : l \in lines}
           hidden == Cardinality(B) + Cardinality({i \in Idx \ B : zst[i] = Partial})
                       + Cardinality({i \in Idx \ B : g[i] # None})
           F == segment_files(p, zst, g)
<1> HIDE DEF p, g
<1>11. /\ found.w = MaxOf(S, 0) + hidden * Larger(SegmentSize, 1)
       /\ found.i = MaxOf(F, 0)
  BY DEF recover_segment_state
<1>12. \A i \in Idx : Content(p, zst, i) \subseteq lines
  <2> SUFFICES ASSUME NEW i \in Idx, NEW l \in Content(p, zst, i) PROVE l \in lines
    OBVIOUS
  <2>1. CASE p[i] # None
    <3>1. l \in p[i]
      BY <2>1 DEF Content
    <3> QED
      BY <1>3, <2>1, <3>1
  <2>2. CASE p[i] = None
    <3>1. zst[i] \notin {None, Partial} /\ l \in zst[i]
      BY <2>2 DEF Content
    <3> QED
      BY <1>3, <3>1
  <2> QED
    BY <2>1, <2>2
<1>13. ASSUME NEW l \in lines PROVE \E i \in Idx : l \in Content(p, zst, i)
  <2>1. CASE \E i \in Idx : p[i] # None /\ l \in p[i]
    BY <2>1 DEF Content
  <2>2. CASE \E i \in Idx : zst[i] \notin {None, Partial} /\ l \in zst[i]
    <3>1. PICK i \in Idx : zst[i] \notin {None, Partial} /\ l \in zst[i]
      BY <2>2
    <3>2. CASE plain[i] = None
      BY <1>8, <3>1, <3>2 DEF Content
    <3>3. CASE plain[i] # None
      <4>1. zst[i] = plain[i]
        BY <1>1, <3>1, <3>3 DEF FileInv
      <4> QED
        BY <1>8, <3>1, <3>3, <4>1 DEF Content
    <3> QED
      BY <3>2, <3>3
  <2> QED
    BY <1>13, <2>1, <2>2
<1>14. ASSUME NEW l \in lines PROVE l \in Line /\ l.seq <= writeSeq
  <2>1. PICK i \in Idx : l \in Content(p, zst, i)
    BY <1>13
  <2>2. l \in held[i] /\ l \in Line
    BY <1>1, <1>4, <2>1, ContentFacts DEF Typed
  <2>3. l \in Lines
    <3>1. l \in Content(plain, zst, i) \/ l \in buf
      BY <2>2 DEF held, Held
    <3> QED
      BY <3>1 DEF Lines, OnDisk
  <2> QED
    BY <1>1, <2>2, <2>3 DEF OrderInv
<1>15. S \subseteq Nat /\ \A n \in S : n <= writeSeq + 1
  <2> SUFFICES ASSUME NEW n \in S PROVE n \in Nat /\ n <= writeSeq + 1
    OBVIOUS
  <2> HIDE DEF lines
  <2>1. PICK l \in lines : n = l.seq + 1
    OBVIOUS
  <2>2. l.seq \in Nat /\ l.seq <= writeSeq /\ writeSeq \in Nat
    BY <1>1, <1>14, <2>1 DEF Line, Typed
  <2> QED
    BY <2>1, <2>2
<1>16. writeSeq + 1 \in Nat
  BY <1>1 DEF Typed
<1>17. MaxOf(S, 0) \in Nat /\ \A n \in S : n <= MaxOf(S, 0)
  <2> HIDE DEF S
  <2>1. MaxOf(S, 0) \in S \cup {0} /\ \A n \in S : n <= MaxOf(S, 0)
    BY <1>15, <1>16, MaxOfFacts
  <2>2. 0 \in Nat
    OBVIOUS
  <2> QED
    BY <1>15, <2>1, <2>2, Zenon
<1>18. IsFiniteSet(Idx) /\ Idx \subseteq Nat
  BY QueueAssumption, FS_Interval DEF Idx
<1>19. hidden \in Nat
  <2>1. Cardinality(B) \in Nat
    BY <1>3, FS_EmptySet
  <2>2. IsFiniteSet({i \in Idx \ B : zst[i] = Partial})
    BY <1>18, FS_Subset
  <2>3. Cardinality({i \in Idx \ B : zst[i] = Partial}) \in Nat
    BY <2>2, FS_CardinalityType
  <2>4. IsFiniteSet({i \in Idx \ B : g[i] # None})
    BY <1>18, FS_Subset
  <2>5. Cardinality({i \in Idx \ B : g[i] # None}) \in Nat
    BY <2>4, FS_CardinalityType
  <2> QED
    BY <2>1, <2>3, <2>5
<1>20. hidden * Larger(SegmentSize, 1) \in Nat
  <2> HIDE DEF hidden
  <2>1. Larger(SegmentSize, 1) \in Nat
    BY QueueAssumption DEF Larger
  <2> QED
    BY <1>19, <2>1
<1>21. found.w \in Nat /\ \A n \in S : n <= found.w
  <2> HIDE DEF S, hidden, found
  <2> QED
    BY <1>11, <1>15, <1>17, <1>20
<1>22. writeSeq' \in Nat /\ checkpoint.w <= writeSeq' /\ found.w <= writeSeq'
  <2>1. checkpoint.w \in Nat
    BY <1>1 DEF Typed
  <2> HIDE DEF found
  <2> QED
    BY <1>0, <1>21, <2>1 DEF Larger
<1>23. ASSUME NEW i \in Idx, NEW l \in Content(p, zst, i) PROVE l.seq < writeSeq'
  <2>1. l \in lines
    BY <1>12
  <2> HIDE DEF lines, found
  <2>2. l.seq + 1 \in S /\ l.seq \in Nat
    BY <1>14, <2>1 DEF Line
  <2>3. l.seq + 1 <= found.w
    BY <1>21, <2>2
  <2> QED
    BY <1>21, <1>22, <2>2, <2>3
<1>24. F \subseteq Idx /\ \A i \in F : i <= segmentIndex
  <2> SUFFICES ASSUME NEW i \in F PROVE i \in Idx /\ i <= segmentIndex
    OBVIOUS
  <2>1. i \in Idx /\ (p[i] # None \/ zst[i] # None \/ g[i] # None)
    BY DEF segment_files
  <2>2. CASE current /\ i = segmentIndex
    BY <1>1, <2>2 DEF Typed, Idx
  <2>3. CASE ~ (current /\ i = segmentIndex)
    BY <1>1, <1>4, <2>1, <2>3 DEF FileInv, GarbledInv
  <2> QED
    BY <2>1, <2>2, <2>3
<1>25. MaxOf(F, 0) \in F \cup {0} /\ \A n \in F : n <= MaxOf(F, 0)
  <2>1. F \subseteq Nat /\ segmentIndex \in Nat
    BY <1>1, <1>18, <1>24 DEF Typed
  <2> HIDE DEF F
  <2> QED
    BY <1>24, <2>1, MaxOfFacts
<1>26. found.i \in Idx /\ found.i <= attempts /\ \A n \in F : n <= found.i
  <2>1. 0 \in Idx /\ attempts \in Nat /\ segmentIndex \in Nat /\ segmentIndex <= attempts
    BY <1>1, <1>18, QueueAssumption DEF Idx, Typed, FileInv
  <2> HIDE DEF F, found
  <2>2. found.i \in F \cup {0} /\ \A n \in F : n <= found.i
    BY <1>11, <1>25
  <2>3. CASE found.i \in F
    <3>1. found.i \in Idx /\ found.i <= segmentIndex /\ found.i \in Nat
      BY <1>18, <1>24, <2>3
    <3> QED
      BY <2>1, <2>2, <3>1
  <2>4. CASE found.i = 0
    BY <2>1, <2>2, <2>4
  <2> QED
    BY <2>2, <2>3, <2>4
<1>27. segmentIndex' \in Idx /\ segmentIndex' <= attempts /\ found.i <= segmentIndex'
  <2>1. checkpoint.i \in Idx /\ checkpoint.i <= attempts
    BY <1>1 DEF Typed, FileInv
  <2> HIDE DEF found
  <2>2. checkpoint.i \in Nat /\ found.i \in Nat
    BY <1>18, <1>26, <2>1
  <2>3. segmentIndex' \in {checkpoint.i, found.i} /\ found.i <= segmentIndex'
    BY <1>0, <2>2 DEF Larger
  <2> QED
    BY <1>26, <2>1, <2>3
<1>28. ASSUME NEW i \in Idx, p[i] # None \/ zst[i] # None \/ g[i] # None
       PROVE  i <= segmentIndex'
  <2>1. i \in F
    BY <1>28 DEF segment_files
  <2>2. i <= found.i
    BY <1>26, <2>1
  <2> HIDE DEF found
  <2>3. i \in Nat /\ found.i \in Nat /\ segmentIndex' \in Nat
    BY <1>18, <1>26, <1>27
  <2> QED
    BY <1>27, <2>2, <2>3
<1> HIDE DEF found, lines, S, hidden, F
<1> QED
  BY <1>0, <1>2, <1>4, <1>22, <1>23, <1>27, <1>28 DEF p, g

-----------------------------------------------------------------------------
(* The files.                                                              *)

\* gc picks an existing segment that is not the active one and whose lines are all
\* below ack_seq.
LEMMA ReclaimFacts ==
  ASSUME Reclaimable # {}
  PROVE  LET i == MinOf(Reclaimable) IN
         /\ i \in Idx /\ ~ (current /\ i = segmentIndex)
         /\ ~ Unreadable(plain, zst, i)
         /\ \A l \in Content(plain, zst, i) : l.seq < ackSeq
<1>1. Reclaimable \subseteq Nat
  BY QueueAssumption DEF Reclaimable, segment_files, Idx
<1>2. MinOf(Reclaimable) \in Reclaimable
  BY <1>1, MinOfFacts
<1> QED
  BY <1>2 DEF Reclaimable, segment_files, segment_fully_consumed

\* A read hands out the line with the least sequence number at or after the read
\* cursor.
LEMMA FirstLineFacts ==
  ASSUME Sound, IInv, Candidates(Flushed) # {}
  PROVE  LET l == FirstLine(Flushed) IN
         /\ l \in Line /\ l \in Lines /\ readSeq <= l.seq
         /\ \A m \in Lines : readSeq <= m.seq => l.seq <= m.seq
<1> DEFINE k == MinOf(Candidates(Flushed))
           L == {l \in Content(Flushed, zst, k) : l.seq >= readSeq}
           l0 == FirstLine(Flushed)
<1>0. /\ Typed /\ FileInv /\ OrderInv /\ Idx \subseteq Nat /\ readSeq \in Nat
      /\ \A i \in Idx : Content(Flushed, zst, i) = held[i]
      /\ Flushed \in [Idx -> {None} \cup SUBSET Line]
  BY QueueAssumption, FlushFacts DEF IInv, Idx, Typed
<1>1. Candidates(Flushed) \subseteq Idx
  BY DEF Candidates
<1>2. k \in Candidates(Flushed) /\ \A j \in Candidates(Flushed) : k <= j
  BY <1>0, <1>1, MinOfFacts
<1> HIDE DEF k
<1>3. k \in Idx /\ Content(Flushed, zst, k) \subseteq Line
  BY <1>0, <1>1, <1>2, ContentFacts DEF Typed
<1>4. L # {} /\ L \subseteq Line
  BY <1>2, <1>3 DEF Candidates
<1>5. {l.id : l \in L} \subseteq Nat /\ {l.id : l \in L} # {}
  BY <1>4 DEF Line, Ids
<1>6. PICK n \in {l.id : l \in L} : \A m \in {l.id : l \in L} : n <= m
  BY <1>5, LeastNat
<1>7. \E l \in L : \A m \in L : l.id <= m.id
  BY <1>6
<1>8. l0 = CHOOSE l \in L : \A m \in L : l.id <= m.id
  BY DEF FirstLine, k
<1>9. l0 \in L /\ \A m \in L : l0.id <= m.id
  <2> HIDE DEF L, l0
  <2> QED
    BY <1>7, <1>8, Zenon
<1> HIDE DEF l0
<1>10. Lines = UNION {held[i] : i \in Idx}
  <2>1. segmentIndex \in Idx /\ current \in BOOLEAN /\ (~ current => buf = {})
    BY <1>0 DEF Typed, FileInv
  <2> QED
    BY <2>1, HeldFacts DEF Lines, OnDisk, held
<1>11. l0 \in held[k] /\ l0 \in Lines /\ l0 \in Line /\ l0.seq \in Nat /\ l0.id \in Nat
      /\ readSeq <= l0.seq
  BY <1>0, <1>3, <1>4, <1>9, <1>10 DEF Line, Ids
<1>12. ASSUME NEW m \in Lines, readSeq <= m.seq PROVE l0.seq <= m.seq
  <2>1. PICK j \in Idx : m \in held[j]
    BY <1>10
  <2>2. m \in Content(Flushed, zst, j)
    BY <1>0, <2>1
  <2>3. m \in Line /\ m.seq \in Nat /\ m.id \in Nat
    BY <1>0, <2>2, ContentFacts DEF Line, Ids, Typed
  <2>4. j \in Candidates(Flushed)
    BY <1>0, <1>12, <2>2, <2>3 DEF Candidates
  <2>5. k <= j /\ k \in Nat /\ j \in Nat
    BY <1>0, <1>2, <1>3, <2>4
  <2>6. CASE k < j
    <3>1. l0.seq < m.seq
      BY <1>0, <1>3, <1>11, <2>1, <2>6 DEF OrderInv
    <3> QED
      BY <1>11, <2>3, <3>1
  <2>7. CASE k = j
    <3>1. l0.id <= m.id
      BY <1>0, <1>9, <1>12, <2>2, <2>3, <2>7
    <3>2. l0 # m => l0.seq < m.seq
      <4>1. l0 # m => \/ l0.id < m.id /\ l0.seq < m.seq
                      \/ m.id < l0.id /\ m.seq < l0.seq
        BY <1>0, <1>11 DEF OrderInv
      <4> QED
        BY <1>11, <2>3, <3>1, <4>1
    <3> QED
      BY <1>11, <2>3, <3>2
  <2> QED
    BY <2>5, <2>6, <2>7
<1> QED
  BY <1>11, <1>12 DEF l0

\* Every step keeps the files in order.
LEMMA FileStep == ASSUME Sound, IInv, [Next]_vars PROVE Typed' /\ FileInv'
<1> USE DEF diskVars, cursors, writerVars, callVars, ghosts, Call, Goto, Return
<1>0. Typed /\ FileInv /\ GarbledInv /\ Idx \subseteq Nat /\ MaxEvents \in Nat
  BY QueueAssumption DEF IInv, Idx
<1>1. ASSUME UNCHANGED <<plain, zst, unlinked, buf, segmentIndex, current>>,
             checkpoint' \in {checkpoint, NoCheckpoint, Current},
             writeSeq' \in Nat, readSeq' \in Nat, ackSeq' \in Nat, victim' \in Idx,
             attempts' \in 0 .. MaxEvents, attempts <= attempts',
             pc' \in Rotating => segmentIndex < attempts',
             pc' = "append" => 0 < attempts',
             pc' \notin Rotating \ {"rotate"},
             pc' \in {"append", "sync", "commit"} => current
      PROVE  Typed' /\ FileInv'
  <2>1. checkpoint' \in [w : Nat, a : Nat, i : Idx]
    BY <1>0, <1>1, QueueAssumption DEF Typed, NoCheckpoint, Current, Idx
  <2>2. Typed'
    BY <1>0, <1>1, <2>1 DEF Typed
  <2>3. attempts \in Nat /\ attempts' \in Nat /\ segmentIndex \in Nat /\ checkpoint.i \in Nat
    <3>1. attempts \in Nat /\ attempts' \in Nat
      BY <1>0, <1>1 DEF Typed
    <3>2. segmentIndex \in Idx /\ checkpoint.i \in Idx
      BY <1>0 DEF Typed
    <3> QED
      BY <1>0, <3>1, <3>2
  <2>4. segmentIndex' <= attempts' /\ checkpoint'.i <= attempts'
    BY <1>0, <1>1, <2>3 DEF FileInv, NoCheckpoint, Current
  <2>5. FileInv'
    BY <1>0, <1>1, <2>4 DEF FileInv, Rotating
  <2> QED
    BY <2>2, <2>5
<1>2. ASSUME plain' = Flushed, buf' = {}, current' \in {current, FALSE},
             UNCHANGED <<zst, unlinked, segmentIndex, checkpoint, writeSeq, ackSeq, attempts>>,
             readSeq' \in Nat, victim' \in Idx,
             pc' \in {"idle", "commit", "checkpoint"}, pc' = "commit" => current'
      PROVE  Typed' /\ FileInv'
  <2>1. /\ plain' \in [Idx -> {None} \cup SUBSET Line]
        /\ \A i \in Idx : plain'[i] = None <=> plain[i] = None
        /\ \A i \in Idx : ~ (current /\ i = segmentIndex) => plain'[i] = plain[i]
    BY <1>0, <1>2, FlushFacts
  <2>2. Typed'
    <3>1. current' \in BOOLEAN
      BY <1>0, <1>2, Zenon DEF Typed
    <3> QED
      BY <1>0, <1>2, <2>1, <3>1 DEF Typed
  <2>3. segmentIndex \in Idx
    BY <1>0 DEF Typed
  <2>4. \A i \in Idx : plain'[i] # None \/ zst'[i] # None => i <= segmentIndex'
    BY <1>0, <1>2, <2>1 DEF FileInv, Rotating
  <2>5. \A i \in Idx : plain'[i] # None => zst'[i] \in {None, Partial, plain'[i]}
    BY <1>0, <1>2, <2>1, <2>3 DEF FileInv, Rotating
  <2>6. current' => plain'[segmentIndex'] # None /\ zst'[segmentIndex'] = None
    BY <1>0, <1>2, <2>1, <2>3 DEF FileInv, Rotating
  <2>7. /\ unlinked' = {} /\ segmentIndex' <= attempts' /\ checkpoint'.i <= attempts'
        /\ pc' \notin Rotating /\ pc' # "append"
    BY <1>0, <1>2 DEF FileInv, Rotating
  <2>8. FileInv'
    BY <1>2, <2>4, <2>5, <2>6, <2>7 DEF FileInv, Rotating
  <2> QED
    BY <2>2, <2>8
<1>3. CASE EnqueueStart
  <2>1. attempts' = attempts + 1 /\ attempts < MaxEvents /\ attempts \in Nat
    BY <1>0, <1>3 DEF EnqueueStart, Typed
  <2>2. segmentIndex < attempts'
    BY <1>0, <2>1 DEF Typed, FileInv
  <2>3. 0 \in Idx
    BY <1>0 DEF Idx
  <2> QED
    BY <1>0, <1>1, <1>3, <2>1, <2>2, <2>3 DEF EnqueueStart, Typed, Rotating
<1>4. CASE Pop
  <2>1. readSeq' \in Nat
    <3>1. CASE Candidates(Flushed) # {} /\ ~ ReadFails(Flushed)
      <4>1. FirstLine(Flushed).seq \in Nat
        BY <3>1, FirstLineFacts DEF Line
      <4> QED
        BY <1>4, <3>1, <4>1 DEF Pop
    <3>2. CASE ~ (Candidates(Flushed) # {} /\ ~ ReadFails(Flushed))
      BY <1>0, <1>4, <3>2 DEF Pop, Typed
    <3> QED
      BY <3>1, <3>2
  <2> QED
    BY <1>0, <1>2, <1>4, <2>1 DEF Pop, Typed
<1>5. CASE GcStart
  <2>1. 0 \in Idx
    BY <1>0 DEF Idx
  <2> QED
    BY <1>0, <1>1, <1>5, <2>1 DEF GcStart, Typed, Rotating
<1>6. ASSUME NEW c \in BOOLEAN, CheckpointStart(c) PROVE Typed' /\ FileInv'
  <2>1. 0 \in Idx
    BY <1>0 DEF Idx
  <2>2. CASE c
    BY <1>0, <1>2, <1>6, <2>1, <2>2 DEF CheckpointStart, Typed
  <2>3. CASE ~ c
    BY <1>0, <1>1, <1>6, <2>1, <2>3 DEF CheckpointStart, Typed, Rotating
  <2> QED
    BY <2>2, <2>3
<1>7. ASSUME NEW n \in 1 .. readSeq, Ack(n) PROVE Typed' /\ FileInv'
  <2>1. 0 \in Idx
    BY <1>0 DEF Idx
  <2>2. ackSeq' \in Nat /\ readSeq' \in Nat
    BY <1>0, <1>7 DEF Ack, Larger, Typed
  <2> QED
    BY <1>0, <1>1, <1>7, <2>1, <2>2 DEF Ack, Typed, Rotating
<1>8. ASSUME NEW f \in BOOLEAN, CompressWrite(f) PROVE Typed' /\ FileInv'
  <2>1. /\ UNCHANGED <<plain, unlinked, checkpoint, buf, cursors, segmentIndex, current, attempts>>
        /\ pc = "compress" /\ pc' \in {"idle", "compressed"} /\ victim' = 0
    BY <1>8 DEF CompressWrite
  <2>2. zst' \in {zst, [zst EXCEPT ![segmentIndex] = Partial]}
    BY <1>8 DEF CompressWrite
  <2>3. /\ ~ current /\ plain[segmentIndex] # None /\ segmentIndex < attempts
        /\ segmentIndex \in Idx /\ 0 \in Idx
    BY <1>0, <2>1 DEF FileInv, Rotating, Typed, Idx
  <2>4. Typed'
    BY <1>0, <2>1, <2>2, <2>3 DEF Typed
  <2>5. \A i \in Idx : plain'[i] # None \/ zst'[i] # None => i <= segmentIndex'
    BY <1>0, <2>1, <2>2, <2>3 DEF Typed, FileInv
  <2>6. \A i \in Idx : plain'[i] # None => zst'[i] \in {None, Partial, plain'[i]}
    BY <1>0, <2>1, <2>2, <2>3 DEF Typed, FileInv
  <2>7. FileInv'
    BY <1>0, <2>1, <2>3, <2>5, <2>6 DEF FileInv, Rotating
  <2> QED
    BY <2>4, <2>7
<1>9. ASSUME NEW f \in BOOLEAN, CompressDone(f) PROVE Typed' /\ FileInv'
  <2>1. /\ UNCHANGED <<plain, checkpoint, buf, cursors, segmentIndex, current, attempts>>
        /\ pc = "compressed" /\ pc' \in {"idle", "unlink"} /\ victim' = 0
        /\ zst' = [zst EXCEPT ![segmentIndex] = plain[segmentIndex]]
        /\ unlinked' \in {unlinked, {}}
    BY <1>9 DEF CompressDone
  <2>2. /\ ~ current /\ plain[segmentIndex] # None /\ segmentIndex < attempts
        /\ segmentIndex \in Idx /\ 0 \in Idx /\ plain[segmentIndex] \in SUBSET Line
    BY <1>0, <2>1 DEF FileInv, Rotating, Typed, Idx
  <2>3. Typed'
    BY <1>0, <2>1, <2>2 DEF Typed
  <2>4. zst'[segmentIndex] = plain[segmentIndex]
    BY <1>0, <2>1, <2>2 DEF Typed
  <2>5. \A i \in Idx : plain'[i] # None \/ zst'[i] # None => i <= segmentIndex'
    BY <1>0, <2>1, <2>2 DEF Typed, FileInv
  <2>6. \A i \in Idx : plain'[i] # None => zst'[i] \in {None, Partial, plain'[i]}
    BY <1>0, <2>1, <2>2 DEF Typed, FileInv
  <2>7. FileInv'
    BY <1>0, <2>1, <2>2, <2>4, <2>5, <2>6 DEF FileInv, Rotating
  <2> QED
    BY <2>3, <2>7
<1>10. ASSUME NEW f \in BOOLEAN, CompressUnlink(f) PROVE Typed' /\ FileInv'
  <2>1. /\ UNCHANGED <<zst, unlinked, checkpoint, buf, cursors, segmentIndex, current, attempts>>
        /\ pc = "unlink" /\ pc' \in {"idle", "create"} /\ victim' = 0
        /\ plain' = [plain EXCEPT ![segmentIndex] = None]
    BY <1>10 DEF CompressUnlink
  <2>2. ~ current /\ segmentIndex < attempts /\ segmentIndex \in Idx /\ 0 \in Idx
    BY <1>0, <2>1 DEF FileInv, Rotating, Typed, Idx
  <2>3. Typed'
    BY <1>0, <2>1, <2>2 DEF Typed
  <2>4. \A i \in Idx : plain'[i] # None => plain[i] # None /\ plain'[i] = plain[i]
    BY <1>0, <2>1, <2>2 DEF Typed
  <2>5. FileInv'
    BY <1>0, <2>1, <2>2, <2>4 DEF FileInv, Rotating
  <2> QED
    BY <2>3, <2>5
<1>11. ASSUME NEW f \in BOOLEAN, AppendSync(f) PROVE Typed' /\ FileInv'
  <2>1. pc = "sync" /\ Fsync
    BY <1>11 DEF AppendSync, IInv, AcceptInv
  <2>2. ~ f
    BY <1>11, <2>1 DEF AppendSync, Fault, Sound, SoundFaults
  <2>3. current /\ 0 \in Idx
    BY <1>0, <2>1 DEF FileInv, Idx
  <2> QED
    BY <1>0, <1>2, <1>11, <2>2, <2>3 DEF AppendSync, Typed
<1>12. ASSUME NEW f \in BOOLEAN, Checkpoint(f) \/ CheckpointWrite(f)
       PROVE  Typed' /\ FileInv'
  <2>1. /\ UNCHANGED <<plain, zst, buf, cursors, segmentIndex, current, attempts>>
        /\ checkpoint' \in {checkpoint, NoCheckpoint, Current}
        /\ unlinked' \in {unlinked, {}} /\ victim' = 0
        /\ pc' \in {"idle", "rewrite", "gc"}
    BY <1>12 DEF Checkpoint, CheckpointWrite, AfterCheckpoint
  <2>2. 0 \in Idx /\ unlinked' = unlinked
    BY <1>0, <2>1 DEF FileInv, Idx
  <2> QED
    BY <1>0, <1>1, <2>1, <2>2 DEF Typed, Rotating
<1>13. ASSUME NEW f \in BOOLEAN, GcEnd(f) PROVE Typed' /\ FileInv'
  <2>1. 0 \in Idx
    BY <1>0 DEF Idx
  <2>2. CASE f
    BY <1>0, <1>1, <1>13, <2>1, <2>2 DEF GcEnd, Typed, Rotating
  <2>3. CASE ~ f
    BY <1>0, <1>2, <1>13, <2>1, <2>3 DEF GcEnd, Typed
  <2> QED
    BY <2>2, <2>3
<1>14. ASSUME NEW f \in BOOLEAN, NEW K \in SUBSET buf, NEW c \in Cuts, RotateFlush(f, K, c)
       PROVE  Typed' /\ FileInv'
  <2>1. /\ UNCHANGED <<zst, unlinked, checkpoint, cursors, segmentIndex, attempts>>
        /\ pc = "rotate" /\ victim' = 0 /\ buf' = {} /\ current' = FALSE
        /\ pc' \in {"idle", "compress", "create"}
        /\ plain' = Text(With(K), c) /\ MayCut(K, c)
    BY <1>14 DEF RotateFlush
  <2>2. pc' = "compress" => current /\ c = "whole"
    BY <1>14 DEF RotateFlush, MayCut
  <2>3. 0 \in Idx /\ segmentIndex < attempts /\ segmentIndex \in Idx
    BY <1>0, <2>1 DEF FileInv, Rotating, Typed, Idx
  <2>4. /\ plain' \in [Idx -> {None} \cup SUBSET Line]
        /\ \A i \in Idx : ~ (current /\ i = segmentIndex) => plain'[i] = plain[i]
        /\ \A i \in Idx : plain'[i] # None => plain[i] # None
        /\ current => zst[segmentIndex] = None
        /\ current /\ c = "whole" => plain'[segmentIndex] # None
    BY <1>0, <2>1, CutFacts
  <2>5. Typed'
    BY <1>0, <2>1, <2>3, <2>4 DEF Typed
  <2>6. \A i \in Idx : plain'[i] # None \/ zst'[i] # None => i <= segmentIndex'
    BY <1>0, <2>1, <2>4 DEF FileInv, Rotating
  <2>7. \A i \in Idx : plain'[i] # None => zst'[i] \in {None, Partial, plain'[i]}
    BY <1>0, <2>1, <2>4 DEF FileInv, Rotating
  <2>8. FileInv'
    BY <1>0, <2>1, <2>2, <2>3, <2>4, <2>6, <2>7 DEF FileInv, Rotating
  <2> QED
    BY <2>5, <2>8
<1>15. ASSUME NEW r \in {"ok", "create_err", "link_err"}, RotateCreate(r)
       PROVE  Typed' /\ FileInv'
  <2> DEFINE n == segmentIndex + 1
  <2>1. /\ UNCHANGED <<zst, buf, checkpoint, cursors, attempts>>
        /\ pc = "create" /\ victim' = 0 /\ segmentIndex' = n
        /\ pc' \in {"idle", "append"} /\ (pc' = "append" => r = "ok")
    BY <1>15 DEF RotateCreate
  <2>2. r # "link_err"
    BY <1>15 DEF RotateCreate, Fault, Sound, SoundFaults
  <2>3. /\ segmentIndex < attempts /\ segmentIndex \in Nat /\ attempts \in 0 .. MaxEvents
        /\ 0 \in Idx
    BY <1>0, <2>1 DEF FileInv, Rotating, Typed, Idx
  <2>4. n \in Idx /\ n <= attempts /\ 0 < attempts /\ ~ (n <= segmentIndex)
    BY <1>0, <2>3 DEF Idx
  <2>5. plain[n] = None /\ zst[n] = None
    BY <1>0, <2>4 DEF FileInv, Rotating
  <2>6. unlinked' = {}
    BY <1>0, <1>15, <2>2 DEF RotateCreate, FileInv
  <2>7. \A i \in Idx : i <= segmentIndex => i <= n
    BY <1>0, <2>3
  <2>8. CASE r = "ok"
    <3>1. plain' = [plain EXCEPT ![n] = {}] /\ current' = TRUE
      BY <1>15, <2>5, <2>8 DEF RotateCreate
    <3>2. {} # None
      BY DEF Sound, FileMarks
    <3>3. /\ plain' \in [Idx -> {None} \cup SUBSET Line]
          /\ plain'[n] # None /\ \A i \in Idx : i # n => plain'[i] = plain[i]
      BY <1>0, <2>4, <3>1, <3>2 DEF Typed
    <3>4. Typed'
      BY <1>0, <2>1, <2>3, <2>4, <3>1, <3>3 DEF Typed
    <3>5. \A i \in Idx : plain'[i] # None \/ zst'[i] # None => i <= segmentIndex'
      BY <1>0, <2>1, <2>4, <2>7, <3>3 DEF FileInv, Rotating
    <3>6. \A i \in Idx : plain'[i] # None => zst'[i] \in {None, Partial, plain'[i]}
      BY <1>0, <2>1, <2>5, <3>3 DEF FileInv, Rotating
    <3>7. FileInv'
      BY <1>0, <2>1, <2>4, <2>5, <2>6, <3>1, <3>3, <3>5, <3>6 DEF FileInv, Rotating
    <3> QED
      BY <3>4, <3>7
  <2>9. CASE r = "create_err"
    <3>1. UNCHANGED <<plain, current>> /\ pc' = "idle"
      BY <1>15, <2>1, <2>9 DEF RotateCreate
    <3>2. Typed'
      BY <1>0, <2>1, <2>3, <2>4, <3>1 DEF Typed
    <3>3. ~ current
      BY <1>0, <2>1 DEF FileInv, Rotating
    <3>4. \A i \in Idx : plain'[i] # None \/ zst'[i] # None => i <= segmentIndex'
      BY <1>0, <2>1, <2>7, <3>1 DEF FileInv, Rotating
    <3>5. FileInv'
      BY <1>0, <2>1, <2>4, <2>6, <3>1, <3>3, <3>4 DEF FileInv, Rotating
    <3> QED
      BY <3>2, <3>5
  <2> QED
    BY <2>2, <2>8, <2>9
<1>16. CASE AppendLine
  <2>1. /\ UNCHANGED <<plain, zst, unlinked, checkpoint, cursors, segmentIndex, current, attempts>>
        /\ buf' \in {buf, buf \cup {NewLine}}
        /\ pc = "append" /\ pc' \in {"sync", "commit"} /\ victim' = 0
    BY <1>16 DEF AppendLine
  <2>2. 0 < attempts /\ current /\ 0 \in Idx
    BY <1>0, <2>1 DEF FileInv, Idx
  <2>3. NewLine \in Line
    BY <1>0, <2>2 DEF Typed, Line, Ids, NewLine
  <2>4. Typed'
    BY <1>0, <2>1, <2>2, <2>3 DEF Typed
  <2>5. FileInv'
    BY <1>0, <2>1, <2>2 DEF FileInv, Rotating
  <2> QED
    BY <2>4, <2>5
<1>17. CASE Commit
  <2>1. /\ UNCHANGED <<plain, zst, unlinked, checkpoint, buf, readSeq, ackSeq,
                       segmentIndex, current, attempts>>
        /\ pc' \in {"idle", "checkpoint"} /\ victim' = 0 /\ writeSeq' = writeSeq + 1
    BY <1>17 DEF Commit
  <2>2. 0 \in Idx
    BY <1>0 DEF Idx
  <2> QED
    BY <1>0, <1>1, <2>1, <2>2 DEF Typed, Rotating
<1>18. CASE GcRemove
  <2> DEFINE i == MinOf(Reclaimable)
  <2>1. i \in Idx /\ ~ (current /\ i = segmentIndex)
    BY <1>18, ReclaimFacts DEF GcRemove
  <2>2. /\ UNCHANGED <<unlinked, checkpoint, buf, cursors, segmentIndex, current, attempts>>
        /\ pc' \in {"gc", "sibling"} /\ victim' \in {victim, i}
        /\ \/ plain' = plain /\ zst' = [zst EXCEPT ![i] = None]
           \/ plain' = [plain EXCEPT ![i] = None] /\ zst' = zst
    BY <1>18 DEF GcRemove
  <2> HIDE DEF i
  <2>3. Typed'
    BY <1>0, <2>1, <2>2 DEF Typed
  <2>4. \A j \in Idx : /\ plain'[j] # None => plain'[j] = plain[j]
                       /\ zst'[j] # None => zst'[j] = zst[j]
    BY <1>0, <2>1, <2>2 DEF Typed
  <2>5. current => plain'[segmentIndex] = plain[segmentIndex]
                   /\ zst'[segmentIndex] = zst[segmentIndex]
    BY <1>0, <2>1, <2>2 DEF Typed
  <2>6. \A j \in Idx : plain'[j] # None \/ zst'[j] # None => j <= segmentIndex'
    BY <1>0, <2>2, <2>4 DEF FileInv, Rotating
  <2>7. \A j \in Idx : plain'[j] # None => zst'[j] \in {None, Partial, plain'[j]}
    BY <1>0, <2>2, <2>4 DEF FileInv, Rotating
  <2>8. FileInv'
    BY <1>0, <2>2, <2>5, <2>6, <2>7 DEF FileInv, Rotating
  <2> QED
    BY <2>3, <2>8
<1>19. CASE GcRemoveSibling
  <2>1. /\ UNCHANGED <<plain, unlinked, checkpoint, buf, cursors, segmentIndex, current, attempts>>
        /\ pc = "sibling" /\ pc' = "gc" /\ victim' = 0
        /\ zst' = [zst EXCEPT ![victim] = None]
    BY <1>19 DEF GcRemoveSibling
  <2>2. 0 \in Idx /\ victim \in Idx
    BY <1>0 DEF Typed, Idx
  <2>3. Typed'
    BY <1>0, <2>1, <2>2 DEF Typed
  <2>4. \A j \in Idx : zst'[j] # None => zst'[j] = zst[j]
    BY <1>0, <2>1, <2>2 DEF Typed
  <2>5. current => zst'[segmentIndex] = None
    BY <1>0, <2>1, <2>2 DEF Typed, FileInv
  <2>6. \A j \in Idx : plain'[j] # None \/ zst'[j] # None => j <= segmentIndex'
    BY <1>0, <2>1, <2>4 DEF FileInv, Rotating
  <2>7. \A j \in Idx : plain'[j] # None => zst'[j] \in {None, Partial, plain'[j]}
    BY <1>0, <2>1, <2>4 DEF FileInv, Rotating
  <2>8. FileInv'
    BY <1>0, <2>1, <2>5, <2>6, <2>7 DEF FileInv, Rotating
  <2> QED
    BY <2>3, <2>8
<1>20. ASSUME NEW K \in SUBSET buf, NEW cut \in Cuts, NEW G \in SUBSET unlinked,
              NEW B \in SUBSET Idx, CrashAndOpen(K, cut, G, B)
       PROVE  Typed' /\ FileInv'
  <2>1. /\ readSeq' = checkpoint.a /\ ackSeq' = checkpoint.a /\ checkpoint' = checkpoint
        /\ attempts' = attempts /\ victim' = 0 /\ pc' = "idle"
    BY <1>20 DEF CrashAndOpen
  <2>2. 0 \in Idx
    BY <1>0 DEF Idx
  <2>3. /\ plain' \in [Idx -> {None} \cup SUBSET Line]
        /\ \A i \in Idx : plain'[i] # None => plain[i] # None
        /\ \A i \in Idx : ~ (current /\ i = segmentIndex) => plain'[i] = plain[i]
        /\ zst' = zst /\ buf' = {} /\ current' = FALSE /\ unlinked' = {}
        /\ writeSeq' \in Nat /\ segmentIndex' \in Idx /\ segmentIndex' <= attempts
        /\ \A i \in Idx : plain'[i] # None \/ zst[i] # None => i <= segmentIndex'
    BY <1>20, CrashFacts
  <2>4. Typed'
    BY <1>0, <2>1, <2>2, <2>3 DEF Typed
  <2>5. ASSUME NEW i \in Idx, plain'[i] # None
        PROVE  zst'[i] \in {None, Partial, plain'[i]}
    <3>1. CASE current /\ i = segmentIndex
      BY <1>0, <2>3, <3>1 DEF FileInv, Rotating
    <3>2. CASE ~ (current /\ i = segmentIndex)
      BY <1>0, <2>3, <2>5, <3>2 DEF FileInv, Rotating
    <3> QED
      BY <3>1, <3>2
  <2>6. FileInv'
    BY <1>0, <2>1, <2>3, <2>5 DEF FileInv, Rotating
  <2> QED
    BY <2>4, <2>6
<1>22. ASSUME NEW K \in SUBSET buf, NEW part \in BOOLEAN, AppendFails(K, part)
       PROVE  Typed' /\ FileInv'
  <2>1. /\ UNCHANGED <<zst, unlinked, checkpoint, cursors, segmentIndex, current, attempts>>
        /\ pc = "append" /\ pc' = "idle" /\ victim' = 0 /\ buf' = buf \ K
        /\ plain' = Text(With(K), "whole")
    BY <1>22 DEF AppendFails, Text
  <2>2. MayCut(K, "whole") /\ "whole" \in Cuts
    BY DEF MayCut, Cuts
  <2>3. 0 \in Idx /\ segmentIndex \in Idx /\ current
    BY <1>0, <2>1 DEF FileInv, Typed, Idx
  <2>4. /\ plain' \in [Idx -> {None} \cup SUBSET Line]
        /\ \A i \in Idx : i # segmentIndex => plain'[i] = plain[i]
        /\ \A i \in Idx : plain'[i] # None => plain[i] # None
        /\ zst[segmentIndex] = None /\ plain'[segmentIndex] # None
    BY <1>0, <2>1, <2>2, <2>3, CutFacts
  <2>5. Typed'
    BY <1>0, <2>1, <2>3, <2>4 DEF Typed
  <2>6. \A i \in Idx : plain'[i] # None \/ zst'[i] # None => i <= segmentIndex'
    BY <1>0, <2>1, <2>4 DEF FileInv, Rotating
  <2>7. \A i \in Idx : plain'[i] # None => zst'[i] \in {None, Partial, plain'[i]}
    BY <1>0, <2>1, <2>4 DEF FileInv, Rotating
  <2>8. FileInv'
    BY <1>0, <2>1, <2>3, <2>4, <2>6, <2>7 DEF FileInv, Rotating
  <2> QED
    BY <2>5, <2>8
<1>21. CASE UNCHANGED vars
  <2>1. FileInv' /\ Typed'
    BY <1>0, <1>21 DEF vars, FileInv, Typed
  <2> QED
    BY <2>1
<1> QED
  BY <1>3, <1>4, <1>5, <1>6, <1>7, <1>8, <1>9, <1>10, <1>11, <1>12, <1>13, <1>14,
     <1>15, <1>16, <1>17, <1>18, <1>19, <1>20, <1>21, <1>22
  DEF Next, CallStep

-----------------------------------------------------------------------------
(* The files that are not text.                                            *)

\* Only the loss of a writer leaves such a file, and no other file takes its place.
LEMMA GarbledStep == ASSUME Sound, IInv, [Next]_vars PROVE GarbledInv'
<1> USE DEF diskVars, cursors, writerVars, callVars, ghosts, Call, Goto, Return
<1>0. /\ Typed /\ FileInv /\ GarbledInv /\ segmentIndex \in Idx /\ Idx \subseteq Nat
      /\ segmentIndex' \in Idx
  BY QueueAssumption, FileStep DEF IInv, Typed, Idx
<1>1. ASSUME garbled' = garbled, segmentIndex' = segmentIndex, ragged' = ragged \/ ragged' = FALSE,
             \A i \in Idx : plain'[i] # None => plain[i] # None
      PROVE  GarbledInv'
  <2>1. ragged' \in BOOLEAN /\ (ragged' => "append" \in FaultPoints)
    <3>1. CASE ragged' = ragged
      BY <1>0, <3>1, Zenon DEF GarbledInv
    <3>2. CASE ragged' = FALSE
      BY <3>2
    <3> QED
      BY <1>1, <3>1, <3>2
  <2> QED
    BY <1>0, <1>1, <2>1 DEF GarbledInv
<1>2. ASSUME plain' = Flushed, UNCHANGED <<garbled, segmentIndex>>,
             ragged' = ragged \/ ragged' = FALSE
      PROVE  GarbledInv'
  <2>1. \A i \in Idx : plain'[i] # None => plain[i] # None
    BY <1>0, <1>2, FlushFacts
  <2> QED
    BY <1>1, <1>2, <2>1
<1>3. CASE EnqueueStart \/ GcStart \/ Commit \/ AppendLine
  <2>1. UNCHANGED <<plain, garbled, segmentIndex>> /\ (ragged' = ragged \/ ragged' = FALSE)
    BY <1>3 DEF EnqueueStart, GcStart, Commit, AppendLine
  <2> QED
    BY <1>1, <2>1
<1>4. ASSUME NEW n, Ack(n) PROVE GarbledInv'
  BY <1>1, <1>4 DEF Ack
<1>5. CASE UNCHANGED vars
  <2>1. UNCHANGED <<plain, garbled, segmentIndex, ragged>>
    BY <1>5 DEF vars
  <2> QED
    BY <1>1, <2>1
<1>6. ASSUME NEW f \in BOOLEAN,
             CompressWrite(f) \/ CompressDone(f) \/ Checkpoint(f) \/ CheckpointWrite(f)
      PROVE  GarbledInv'
  <2>1. UNCHANGED <<plain, garbled, segmentIndex, ragged>>
    BY <1>6 DEF CompressWrite, CompressDone, Checkpoint, CheckpointWrite
  <2> QED
    BY <1>1, <2>1
<1>7. CASE Pop
  BY <1>2, <1>7 DEF Pop
<1>8. ASSUME NEW f \in BOOLEAN, AppendSync(f) \/ GcEnd(f) PROVE GarbledInv'
  <2>1. /\ plain' = plain \/ plain' = Flushed
        /\ UNCHANGED <<garbled, segmentIndex, ragged>>
    BY <1>8 DEF AppendSync, GcEnd
  <2> QED
    BY <1>1, <1>2, <2>1
<1>9. ASSUME NEW c \in BOOLEAN, CheckpointStart(c) PROVE GarbledInv'
  <2>1. /\ plain' = plain \/ plain' = Flushed
        /\ UNCHANGED <<garbled, segmentIndex>> /\ (ragged' = ragged \/ ragged' = FALSE)
    BY <1>9 DEF CheckpointStart
  <2> QED
    BY <1>1, <1>2, <2>1
<1>10. ASSUME NEW f \in BOOLEAN, CompressUnlink(f) PROVE GarbledInv'
  <2>1. \A i \in Idx : plain'[i] # None => plain[i] # None
    BY <1>0, <1>10 DEF CompressUnlink, Typed
  <2> QED
    BY <1>1, <1>10, <2>1 DEF CompressUnlink
<1>11. CASE GcRemove \/ GcRemoveSibling
  <2>1. UNCHANGED <<garbled, segmentIndex, ragged>>
    BY <1>11 DEF GcRemove, GcRemoveSibling
  <2>2. plain' = plain \/ \E i : plain' = [plain EXCEPT ![i] = None]
    BY <1>11 DEF GcRemove, GcRemoveSibling
  <2>3. \A i \in Idx : plain'[i] # None => plain[i] # None
    BY <1>0, <2>2 DEF Typed
  <2> QED
    BY <1>1, <2>1, <2>3
<1>12. ASSUME NEW r \in {"ok", "create_err", "link_err"}, RotateCreate(r) PROVE GarbledInv'
  <2> DEFINE n == segmentIndex + 1
  <2>1. UNCHANGED <<garbled, ragged>> /\ segmentIndex' = n
    BY <1>12 DEF RotateCreate
  <2>2. plain' = plain \/ \E v : plain' = [plain EXCEPT ![n] = v]
    BY <1>12 DEF RotateCreate
  <2>3. n \in Nat /\ segmentIndex \in Nat /\ ~ (n <= segmentIndex)
    BY <1>0
  <2>4. \A i \in Idx : i # n => plain'[i] = plain[i]
    BY <1>0, <2>2 DEF Typed
  <2>5. \A i \in Idx : garbled[i] # None => i # n /\ i <= n
    BY <1>0, <2>3 DEF GarbledInv
  <2> HIDE DEF n
  <2> QED
    BY <1>0, <2>1, <2>4, <2>5 DEF GarbledInv
<1>13. ASSUME NEW K \in SUBSET buf, NEW c \in Cuts, MayCut(K, c), plain' = Text(With(K), c),
              garbled' = NotText(With(K), c), segmentIndex <= segmentIndex',
              \/ ragged' = ragged
              \/ ragged' = FALSE
              \/ ragged' = TRUE /\ "append" \in FaultPoints
       PROVE  GarbledInv'
  <2>1. /\ garbled' \in [Idx -> {None} \cup SUBSET Line]
        /\ \A i \in Idx : ~ (current /\ i = segmentIndex) =>
             plain'[i] = plain[i] /\ garbled'[i] = garbled[i]
        /\ current /\ c # "garbled" => garbled'[segmentIndex] = None
        /\ c = "garbled" => current /\ MultiByte /\ plain'[segmentIndex] = None
    BY <1>0, <1>13, CutFacts
  <2>2. ragged' \in BOOLEAN /\ (ragged' => "append" \in FaultPoints)
    <3>1. CASE ragged' = ragged
      BY <1>0, <3>1, Zenon DEF GarbledInv
    <3>2. CASE ragged' = FALSE
      BY <3>2
    <3>3. CASE ragged' = TRUE /\ "append" \in FaultPoints
      BY <3>3
    <3> QED
      BY <1>13, <3>1, <3>2, <3>3
  <2>3. ASSUME NEW i \in Idx, garbled'[i] # None PROVE i <= segmentIndex' /\ plain'[i] = None
    <3>1. CASE ~ (current /\ i = segmentIndex)
      BY <1>0, <1>13, <2>1, <2>3, <3>1 DEF GarbledInv
    <3>2. CASE current /\ i = segmentIndex
      BY <1>0, <1>13, <2>1, <2>3, <3>2
    <3> QED
      BY <3>1, <3>2
  <2>4. ASSUME ~ MultiByte, NEW i \in Idx PROVE garbled'[i] = None
    BY <1>0, <2>1, <2>4 DEF GarbledInv
  <2> QED
    BY <2>1, <2>2, <2>3, <2>4 DEF GarbledInv
<1>14. ASSUME NEW f \in BOOLEAN, NEW K \in SUBSET buf, NEW c \in Cuts, RotateFlush(f, K, c)
       PROVE  GarbledInv'
  <2>1. /\ MayCut(K, c) /\ plain' = Text(With(K), c) /\ garbled' = NotText(With(K), c)
        /\ segmentIndex' = segmentIndex /\ ragged' = FALSE
    BY <1>14 DEF RotateFlush
  <2>2. segmentIndex <= segmentIndex'
    BY <1>0, <2>1
  <2> QED
    BY <1>13, <2>1, <2>2
<1>15. ASSUME NEW K \in SUBSET buf, NEW part \in BOOLEAN, AppendFails(K, part) PROVE GarbledInv'
  <2>1. /\ plain' = Text(With(K), "whole") /\ garbled' = NotText(With(K), "whole")
        /\ MayCut(K, "whole") /\ "whole" \in Cuts
        /\ segmentIndex' = segmentIndex
        /\ ragged' = ragged \/ (ragged' = TRUE /\ "append" \in FaultPoints)
    BY <1>15 DEF AppendFails, Text, NotText, MayCut, Cuts, Fault
  <2>2. segmentIndex <= segmentIndex'
    BY <1>0, <2>1
  <2>3. \/ ragged' = ragged
        \/ ragged' = TRUE /\ "append" \in FaultPoints
    BY <2>1
  <2> QED
    BY <1>13, <2>1, <2>2, <2>3
<1>16. ASSUME NEW K \in SUBSET buf, NEW cut \in Cuts, NEW G \in SUBSET unlinked,
              NEW B \in SUBSET Idx, CrashAndOpen(K, cut, G, B)
       PROVE  GarbledInv'
  <2>1. ragged' = FALSE
    BY <1>16 DEF CrashAndOpen
  <2>2. /\ MayCut(K, cut) /\ plain' = Text(With(K), cut) /\ garbled' = NotText(With(K), cut)
        /\ \A i \in Idx : garbled'[i] # None => i <= segmentIndex'
    BY <1>16, CrashFacts
  <2>3. /\ garbled' \in [Idx -> {None} \cup SUBSET Line]
        /\ \A i \in Idx : ~ (current /\ i = segmentIndex) =>
             plain'[i] = plain[i] /\ garbled'[i] = garbled[i]
        /\ current /\ cut # "garbled" => garbled'[segmentIndex] = None
        /\ cut = "garbled" => current /\ MultiByte /\ plain'[segmentIndex] = None
    BY <1>0, <2>2, CutFacts
  <2>4. \A i \in Idx : garbled'[i] # None => plain'[i] = None
    BY <1>0, <2>3 DEF GarbledInv
  <2>5. ~ MultiByte => \A i \in Idx : garbled'[i] = None
    BY <1>0, <2>3 DEF GarbledInv
  <2> QED
    BY <2>1, <2>2, <2>3, <2>4, <2>5 DEF GarbledInv
<1> QED
  BY <1>3, <1>4, <1>5, <1>6, <1>7, <1>8, <1>9, <1>10, <1>11, <1>12, <1>14, <1>15, <1>16
  DEF Next, CallStep

-----------------------------------------------------------------------------
(* The lines.                                                              *)

Shrinks == \A i \in Idx : held'[i] \subseteq held[i]
Keeps ==
  \A i \in Idx : \A l \in Content(plain, zst, i) :
    l \in Content(plain', zst', i) \/ l \in Buried' \/ l.seq < ackSeq
Fresh ==
  /\ stable' \subseteq stable \cup OnDisk' \cup Buried'
  /\ Buried \subseteq Buried'

\* A segment only gains lines by an append, loses them only to gc, and what is counted
\* as stable is in a file.
LEMMA DiskStep ==
  ASSUME Sound, IInv, [Next]_vars
  PROVE  (AppendLine \/ Shrinks) /\ Keeps /\ Fresh
<1> USE DEF diskVars, cursors, writerVars, callVars, ghosts, Call, Goto, Return
<1>0. Typed /\ FileInv /\ GarbledInv /\ Idx \subseteq Nat /\ segmentIndex \in Idx
  BY QueueAssumption DEF IInv, Idx, Typed
<1>1. ASSUME UNCHANGED <<plain, garbled, zst, segmentIndex, current, buf, stable>>
      PROVE  Shrinks /\ Keeps /\ Fresh
  BY <1>1 DEF Shrinks, Keeps, Fresh, held, Buried
<1>2. ASSUME plain' = Flushed, UNCHANGED <<garbled, zst>>, buf' = {}, stable' = stable \cup buf
      PROVE  Shrinks /\ Keeps /\ Fresh
  <2>1. \A i \in Idx : Content(plain', zst', i) = held[i]
    BY <1>0, <1>2, FlushFacts
  <2>2. \A i \in Idx : held'[i] = Content(plain', zst', i)
    BY <1>2 DEF held, Held
  <2>3. \A i \in Idx : Content(plain, zst, i) \subseteq held[i]
    BY DEF held, Held
  <2>4. ASSUME NEW l \in buf PROVE l \in OnDisk'
    <3>1. current
      BY <1>0, <2>4 DEF FileInv
    <3>2. l \in held[segmentIndex]
      BY <1>0, <3>1 DEF held, Held
    <3>3. l \in UNION {Content(plain', zst', i) : i \in Idx}
      BY <1>0, <2>1, <3>2
    <3> QED
      BY <3>3 DEF OnDisk
  <2> QED
    BY <1>2, <2>1, <2>2, <2>3, <2>4 DEF Shrinks, Keeps, Fresh, Buried
<1>3. ASSUME ~ current', buf' = {}, UNCHANGED <<garbled, stable>>,
             \A i \in Idx : Content(plain', zst', i) = Content(plain, zst, i)
      PROVE  Shrinks /\ Keeps /\ Fresh
  BY <1>3 DEF Shrinks, Keeps, Fresh, held, Held, Buried
<1>4. CASE EnqueueStart \/ GcStart \/ (\E n \in 1 .. readSeq : Ack(n)) \/ Commit
  BY <1>1, <1>4 DEF EnqueueStart, GcStart, Ack, Commit
<1>5. CASE Pop
  BY <1>2, <1>5 DEF Pop
<1>6. ASSUME NEW c \in BOOLEAN, CheckpointStart(c) PROVE Shrinks /\ Keeps /\ Fresh
  BY <1>1, <1>2, <1>6 DEF CheckpointStart
<1>7. ASSUME NEW f \in BOOLEAN, CompressWrite(f) PROVE Shrinks /\ Keeps /\ Fresh
  <2>1. /\ plain' = plain /\ UNCHANGED <<garbled, buf, current, stable>>
        /\ pc = "compress"
        /\ zst' \in {zst, [zst EXCEPT ![segmentIndex] = Partial]}
    BY <1>7 DEF CompressWrite
  <2>2. ~ current /\ buf = {} /\ plain[segmentIndex] # None
    BY <1>0, <2>1 DEF FileInv, Rotating
  <2>3. \A i \in Idx : i # segmentIndex => zst'[i] = zst[i]
    BY <1>0, <2>1 DEF Typed
  <2>4. \A i \in Idx : Content(plain', zst', i) = Content(plain, zst, i)
    BY <2>1, <2>2, <2>3 DEF Content
  <2> QED
    BY <1>3, <2>1, <2>2, <2>4
<1>8. ASSUME NEW f \in BOOLEAN, CompressDone(f) PROVE Shrinks /\ Keeps /\ Fresh
  <2>1. /\ plain' = plain /\ UNCHANGED <<garbled, buf, current, stable>>
        /\ pc = "compressed" /\ zst' = [zst EXCEPT ![segmentIndex] = plain[segmentIndex]]
    BY <1>8 DEF CompressDone
  <2>2. ~ current /\ buf = {} /\ plain[segmentIndex] # None
    BY <1>0, <2>1 DEF FileInv, Rotating
  <2>3. \A i \in Idx : i # segmentIndex => zst'[i] = zst[i]
    BY <1>0, <2>1 DEF Typed
  <2>4. \A i \in Idx : Content(plain', zst', i) = Content(plain, zst, i)
    BY <2>1, <2>2, <2>3 DEF Content
  <2> QED
    BY <1>3, <2>1, <2>2, <2>4
<1>9. ASSUME NEW f \in BOOLEAN, CompressUnlink(f) PROVE Shrinks /\ Keeps /\ Fresh
  <2>1. /\ zst' = zst /\ UNCHANGED <<garbled, buf, current, stable>>
        /\ pc = "unlink" /\ plain' = [plain EXCEPT ![segmentIndex] = None]
    BY <1>9 DEF CompressUnlink
  <2>2. /\ ~ current /\ buf = {} /\ plain[segmentIndex] # None
        /\ zst[segmentIndex] = plain[segmentIndex]
    BY <1>0, <2>1 DEF FileInv, Rotating
  <2>3. plain[segmentIndex] \in SUBSET Line
    BY <1>0, <2>2 DEF Typed
  <2>4. zst[segmentIndex] \notin {None, Partial}
    BY <2>2, <2>3 DEF Sound, FileMarks
  <2>5. /\ plain'[segmentIndex] = None
        /\ \A i \in Idx : i # segmentIndex => plain'[i] = plain[i]
    BY <1>0, <2>1 DEF Typed
  <2>6. \A i \in Idx : Content(plain', zst', i) = Content(plain, zst, i)
    BY <2>1, <2>2, <2>4, <2>5 DEF Content
  <2> QED
    BY <1>3, <2>1, <2>2, <2>6
<1>10. ASSUME NEW f \in BOOLEAN, AppendSync(f) PROVE Shrinks /\ Keeps /\ Fresh
  BY <1>1, <1>2, <1>10 DEF AppendSync
<1>11. ASSUME NEW f \in BOOLEAN, Checkpoint(f) \/ CheckpointWrite(f)
       PROVE  Shrinks /\ Keeps /\ Fresh
  BY <1>1, <1>11 DEF Checkpoint, CheckpointWrite
<1>12. ASSUME NEW f \in BOOLEAN, GcEnd(f) PROVE Shrinks /\ Keeps /\ Fresh
  BY <1>1, <1>2, <1>12 DEF GcEnd
<1>13. ASSUME NEW K \in SUBSET buf, NEW c \in Cuts, MayCut(K, c), plain' = Text(With(K), c),
              garbled' = NotText(With(K), c), UNCHANGED zst,
              stable' = stable \cup K, buf' = {} /\ current' = FALSE
       PROVE  Shrinks /\ Keeps /\ Fresh
  <2>1. \A i \in Idx : Content(plain', zst', i) \subseteq held[i]
    BY <1>0, <1>13, CutFacts
  <2>2. /\ \A i \in Idx : \A l \in Content(plain, zst, i) :
             l \in Content(plain', zst', i) \/ l \in Buried'
        /\ K \subseteq OnDisk' \cup Buried' /\ Buried \subseteq Buried'
    BY <1>0, <1>13, CutKeeps
  <2>3. \A i \in Idx : held'[i] = Content(plain', zst', i)
    BY <1>13 DEF held, Held
  <2> QED
    BY <1>13, <2>1, <2>2, <2>3 DEF Shrinks, Keeps, Fresh
<1>20. ASSUME NEW f \in BOOLEAN, NEW K \in SUBSET buf, NEW c \in Cuts, RotateFlush(f, K, c)
       PROVE  Shrinks /\ Keeps /\ Fresh
  BY <1>13, <1>20 DEF RotateFlush
<1>21. ASSUME NEW K \in SUBSET buf, NEW part \in BOOLEAN, AppendFails(K, part)
       PROVE  Shrinks /\ Keeps /\ Fresh
  <2>1. /\ plain' = Text(With(K), "whole") /\ garbled' = NotText(With(K), "whole")
        /\ MayCut(K, "whole") /\ "whole" \in Cuts /\ pc = "append"
        /\ UNCHANGED <<zst, segmentIndex, current>> /\ buf' = buf \ K
        /\ stable' = stable \cup K
    BY <1>21 DEF AppendFails, Text, NotText, MayCut, Cuts
  <2>2. current
    BY <1>0, <2>1 DEF FileInv
  <2>3. /\ \A i \in Idx : Content(plain', zst', i) \subseteq held[i]
        /\ \A i \in Idx : i # segmentIndex => plain'[i] = plain[i]
    BY <1>0, <2>1, CutFacts
  <2>4. /\ \A i \in Idx : \A l \in Content(plain, zst, i) :
             l \in Content(plain', zst', i) \/ l \in Buried'
        /\ K \subseteq OnDisk' \cup Buried' /\ Buried \subseteq Buried'
    BY <1>0, <2>1, CutKeeps
  <2>5. Shrinks
    <3>1. ASSUME NEW i \in Idx PROVE held'[i] \subseteq held[i]
      <4>1. held'[i] = Content(plain', zst', i) \cup (IF current /\ i = segmentIndex
                                                      THEN buf \ K ELSE {})
        BY <2>1 DEF held, Held
      <4>2. current /\ i = segmentIndex => buf \subseteq held[i]
        BY DEF held, Held
      <4> QED
        BY <2>3, <4>1, <4>2
    <3> QED
      BY <3>1 DEF Shrinks
  <2> QED
    BY <2>1, <2>4, <2>5 DEF Keeps, Fresh
<1>14. ASSUME NEW r \in {"ok", "create_err", "link_err"}, RotateCreate(r)
       PROVE  Shrinks /\ Keeps /\ Fresh
  <2> DEFINE n == segmentIndex + 1
  <2>1. UNCHANGED <<garbled, zst, buf, stable>> /\ pc = "create"
    BY <1>14 DEF RotateCreate
  <2>2. buf = {} /\ segmentIndex < attempts /\ attempts \in 0 .. MaxEvents
    BY <1>0, <2>1 DEF FileInv, Rotating, Typed
  <2>3. n \in Idx /\ ~ (n <= segmentIndex)
    BY <1>0, <2>2, QueueAssumption DEF Idx
  <2>4. plain[n] = None /\ zst[n] = None
    BY <1>0, <2>3 DEF FileInv
  <2>5. plain' \in {plain, [plain EXCEPT ![n] = {}]}
    BY <1>14, <2>4 DEF RotateCreate
  <2>6. plain'[n] \in {None, {}} /\ \A i \in Idx : i # n => plain'[i] = plain[i]
    BY <1>0, <2>3, <2>4, <2>5 DEF Typed
  <2>7. \A i \in Idx : Content(plain', zst', i) = Content(plain, zst, i)
    <3>1. Content(plain', zst', n) = {} /\ Content(plain, zst, n) = {}
      BY <2>1, <2>4, <2>6 DEF Content
    <3>2. \A i \in Idx : i # n => Content(plain', zst', i) = Content(plain, zst, i)
      BY <2>1, <2>6 DEF Content
    <3> QED
      BY <3>1, <3>2
  <2>8. \A i \in Idx : held'[i] = Content(plain', zst', i)
    BY <2>1, <2>2 DEF held, Held
  <2>9. \A i \in Idx : Content(plain, zst, i) \subseteq held[i]
    BY DEF held, Held
  <2> QED
    BY <2>1, <2>7, <2>8, <2>9 DEF Shrinks, Keeps, Fresh, Buried
<1>15. CASE AppendLine
  <2>1. UNCHANGED <<plain, garbled, zst, stable>>
    BY <1>15 DEF AppendLine
  <2> QED
    BY <1>15, <2>1 DEF Keeps, Fresh, Buried
<1>16. CASE GcRemove
  <2> DEFINE i == MinOf(Reclaimable)
  <2>1. /\ i \in Idx /\ ~ (current /\ i = segmentIndex)
        /\ ~ Unreadable(plain, zst, i)
        /\ \A l \in Content(plain, zst, i) : l.seq < ackSeq
    BY <1>16, ReclaimFacts DEF GcRemove
  <2>2. /\ UNCHANGED <<garbled, buf, current, segmentIndex, stable>>
        /\ \/ plain[i] = None /\ plain' = plain /\ zst' = [zst EXCEPT ![i] = None]
           \/ plain[i] # None /\ plain' = [plain EXCEPT ![i] = None] /\ zst' = zst
    BY <1>16 DEF GcRemove
  <2> HIDE DEF i
  <2>3. \A j \in Idx : j # i => plain'[j] = plain[j] /\ zst'[j] = zst[j]
    BY <1>0, <2>2 DEF Typed
  <2>4. \A j \in Idx : j # i => Content(plain', zst', j) = Content(plain, zst, j)
    BY <2>3 DEF Content
  <2>5. Content(plain', zst', i) \subseteq Content(plain, zst, i)
    <3>1. CASE plain[i] = None
      <4>1. plain'[i] = None /\ zst'[i] = None
        BY <1>0, <2>1, <2>2, <3>1 DEF Typed
      <4> QED
        BY <4>1 DEF Content
    <3>2. CASE plain[i] # None
      <4>1. plain'[i] = None /\ zst'[i] = zst[i] /\ zst[i] \in {None, Partial, plain[i]}
        BY <1>0, <2>1, <2>2, <3>2 DEF Typed, FileInv
      <4> QED
        BY <3>2, <4>1 DEF Content
    <3> QED
      BY <3>1, <3>2
  <2>6. \A j \in Idx : Content(plain', zst', j) \subseteq Content(plain, zst, j)
    BY <2>4, <2>5
  <2>7. Shrinks
    BY <2>2, <2>6 DEF Shrinks, held, Held
  <2>8. Keeps
    BY <2>1, <2>4 DEF Keeps
  <2> QED
    BY <2>2, <2>7, <2>8 DEF Fresh, Buried
<1>17. CASE GcRemoveSibling
  <2>1. /\ UNCHANGED <<plain, garbled, buf, current, segmentIndex, stable>> /\ pc = "sibling"
        /\ zst' = [zst EXCEPT ![victim] = None] /\ victim \in Idx
    BY <1>0, <1>17 DEF GcRemoveSibling, Typed
  <2>2. plain[victim] = None /\ \A l \in Content(plain, zst, victim) : l.seq < ackSeq
    BY <2>1 DEF IInv, CursorInv
  <2>3. \A j \in Idx : j # victim => zst'[j] = zst[j]
    BY <1>0, <2>1 DEF Typed
  <2>4. \A j \in Idx : j # victim => Content(plain', zst', j) = Content(plain, zst, j)
    BY <2>1, <2>3 DEF Content
  <2>5. Content(plain', zst', victim) = {}
    <3>1. zst'[victim] = None
      BY <1>0, <2>1 DEF Typed
    <3> QED
      BY <2>1, <2>2, <3>1 DEF Content
  <2>6. \A j \in Idx : Content(plain', zst', j) \subseteq Content(plain, zst, j)
    BY <2>4, <2>5
  <2>7. Shrinks
    BY <2>1, <2>6 DEF Shrinks, held, Held
  <2>8. Keeps
    BY <2>2, <2>4 DEF Keeps
  <2> QED
    BY <2>1, <2>7, <2>8 DEF Fresh, Buried
<1>18. ASSUME NEW K \in SUBSET buf, NEW cut \in Cuts, NEW G \in SUBSET unlinked,
              NEW B \in SUBSET Idx, CrashAndOpen(K, cut, G, B)
       PROVE  Shrinks /\ Keeps /\ Fresh
  <2>1. stable' = stable \cup K
    BY <1>18 DEF CrashAndOpen
  <2>2. /\ MayCut(K, cut) /\ plain' = Text(With(K), cut) /\ garbled' = NotText(With(K), cut)
        /\ zst' = zst /\ buf' = {} /\ current' = FALSE
    BY <1>18, CrashFacts
  <2> QED
    BY <1>13, <2>1, <2>2
<1>19. CASE UNCHANGED vars
  BY <1>1, <1>19 DEF vars
<1> QED
  BY <1>4, <1>5, <1>6, <1>7, <1>8, <1>9, <1>10, <1>11, <1>12, <1>14, <1>15,
     <1>16, <1>17, <1>18, <1>19, <1>20, <1>21
  DEF Next, CallStep

\* The lines are what the segments hold, before and after a step.
LEMMA LinesFacts ==
  ASSUME Sound, IInv, [Next]_vars
  PROVE  /\ Lines = UNION {held[i] : i \in Idx} /\ Lines \subseteq Line
         /\ Lines' = UNION {held'[i] : i \in Idx}
         /\ Shrinks => Lines' \subseteq Lines
         /\ Idx \subseteq Nat /\ \A l \in Line : l.seq \in Nat /\ l.id \in Nat
<1>1. segmentIndex \in Idx /\ current \in BOOLEAN /\ (~ current => buf = {})
  BY DEF IInv, Typed, FileInv
<1>2. segmentIndex' \in Idx /\ current' \in BOOLEAN /\ (~ current' => buf' = {})
  BY FileStep DEF Typed, FileInv
<1>3. Lines = UNION {held[i] : i \in Idx}
  BY <1>1, HeldFacts DEF Lines, OnDisk, held
<1>4. Lines' = UNION {held'[i] : i \in Idx}
  BY <1>2, HeldFacts DEF Lines, OnDisk, held
<1>5. Lines \subseteq Line
  <2>1. ASSUME NEW i \in Idx PROVE Content(plain, zst, i) \subseteq Line
    BY ContentFacts DEF IInv, Typed
  <2>2. OnDisk \subseteq Line
    BY <2>1 DEF OnDisk
  <2>3. buf \subseteq Line
    BY DEF IInv, Typed
  <2> QED
    BY <2>2, <2>3 DEF Lines
<1>6. Idx \subseteq Nat /\ \A l \in Line : l.seq \in Nat /\ l.id \in Nat
  BY QueueAssumption DEF Idx, Line, Ids
<1>7. Shrinks => Lines' \subseteq Lines
  BY <1>3, <1>4 DEF Shrinks
<1> QED
  BY <1>3, <1>4, <1>5, <1>6, <1>7

\* Sequence numbers, ids and segments keep increasing together.
LEMMA OrderStep == ASSUME Sound, IInv, [Next]_vars PROVE OrderInv'
<1> USE DEF diskVars, cursors, writerVars, callVars, ghosts, Call, Goto, Return
<1> USE DEF Before, Rotating
<1>0. /\ OrderInv /\ Lines \subseteq Line /\ attempts \in Nat /\ writeSeq \in Nat
      /\ \A l \in Line : l.seq \in Nat /\ l.id \in Nat
      /\ Idx \subseteq Nat /\ segmentIndex \in Idx
  BY LinesFacts DEF IInv, Typed
<1>1. ASSUME Shrinks, attempts' \in Nat, attempts <= attempts',
             pc' \in Before => \A l \in Lines' : l.id < attempts',
             writeSeq' \in Nat, \A l \in Lines' : l.seq <= writeSeq',
             pc' \notin {"sync", "commit"} => \A l \in Lines' : l.seq < writeSeq'
      PROVE  OrderInv'
  <2>1. Lines' \subseteq Lines
    BY <1>1, LinesFacts
  <2>2. \A l \in Lines' : l.id <= attempts' /\ l.seq <= writeSeq'
    <3>1. ASSUME NEW l \in Lines' PROVE l.id <= attempts'
      <4>1. l.id <= attempts /\ l.id \in Nat
        BY <1>0, <2>1 DEF OrderInv
      <4> QED
        BY <1>0, <1>1, <4>1
    <3> QED
      BY <1>1, <3>1
  <2>3. \A l, m \in Lines' :
          l # m => (l.id < m.id /\ l.seq < m.seq) \/ (m.id < l.id /\ m.seq < l.seq)
    BY <1>0, <2>1 DEF OrderInv
  <2>4. \A i, j \in Idx : i < j => \A l \in held'[i], m \in held'[j] : l.seq < m.seq
    BY <1>0, <1>1 DEF OrderInv, Shrinks
  <2> QED
    BY <1>1, <2>2, <2>3, <2>4 DEF OrderInv
<1>2. ASSUME Shrinks, attempts' = attempts, writeSeq' = writeSeq,
             pc' \in Before => pc \in Before,
             pc' \notin {"sync", "commit"} => pc \notin {"sync", "commit"}
      PROVE  OrderInv'
  <2>1. Lines' \subseteq Lines
    BY <1>2, LinesFacts
  <2> QED
    BY <1>0, <1>1, <1>2, <2>1 DEF OrderInv
<1>3. CASE EnqueueStart
  <2>1. /\ pc = "idle" /\ attempts' = attempts + 1 /\ writeSeq' = writeSeq
        /\ pc' \in {"rotate", "append"}
    BY <1>3 DEF EnqueueStart
  <2>2. Shrinks
    BY <1>3, DiskStep DEF EnqueueStart, AppendLine
  <2>3. Lines' \subseteq Lines
    BY <2>2, LinesFacts
  <2>4. \A l \in Lines' : l.id < attempts' /\ l.seq < writeSeq' /\ l.seq <= writeSeq'
    <3> SUFFICES ASSUME NEW l \in Lines'
                 PROVE  l.id < attempts' /\ l.seq < writeSeq' /\ l.seq <= writeSeq'
      OBVIOUS
    <3>1. l \in Lines /\ l.id \in Nat /\ l.seq \in Nat
      BY <1>0, <2>3
    <3>2. l.id <= attempts /\ l.seq < writeSeq
      BY <1>0, <2>1, <3>1 DEF OrderInv
    <3> QED
      BY <1>0, <2>1, <3>1, <3>2
  <2> QED
    BY <1>0, <1>1, <2>1, <2>2, <2>4
<1>4. CASE Commit
  <2>1. /\ attempts' = attempts /\ writeSeq' = writeSeq + 1
        /\ pc' \in {"idle", "checkpoint"} /\ pc = "commit"
    BY <1>4 DEF Commit
  <2>2. Shrinks
    BY <2>1, DiskStep DEF AppendLine
  <2>3. Lines' \subseteq Lines
    BY <2>2, LinesFacts
  <2>4. \A l \in Lines' : l.seq < writeSeq' /\ l.seq <= writeSeq'
    <3> SUFFICES ASSUME NEW l \in Lines' PROVE l.seq < writeSeq' /\ l.seq <= writeSeq'
      OBVIOUS
    <3>1. l \in Lines /\ l.seq \in Nat /\ l.seq <= writeSeq
      BY <1>0, <2>3 DEF OrderInv
    <3> QED
      BY <1>0, <2>1, <3>1
  <2> QED
    BY <1>0, <1>1, <2>1, <2>2, <2>4
<1>5. ASSUME AppendLine, ~ ragged PROVE OrderInv'
  <2> DEFINE new == NewLine
  <2>1. /\ plain' = plain /\ zst' = zst /\ segmentIndex' = segmentIndex
        /\ current' = current /\ buf' = buf \cup {new} /\ attempts' = attempts
        /\ writeSeq' = writeSeq /\ pc = "append" /\ pc' \in {"sync", "commit"}
    BY <1>5 DEF AppendLine
  <2>2. current /\ 0 < attempts
    BY <2>1 DEF IInv, FileInv
  <2>3. \A l \in Lines : l.id < attempts /\ l.seq < writeSeq
    BY <1>0, <2>1 DEF OrderInv
  <2>4. /\ held'[segmentIndex] = held[segmentIndex] \cup {new}
        /\ \A i \in Idx : i # segmentIndex => held'[i] = held[i]
    BY <1>0, <2>1, <2>2 DEF held, Held
  <2>5. Lines' = Lines \cup {new}
    BY <2>1 DEF Lines, OnDisk
  <2>6. new.seq = writeSeq /\ new.id = attempts
    BY DEF NewLine
  <2> HIDE DEF new
  <2>7. \A l \in Lines' : l.id <= attempts' /\ l.seq <= writeSeq'
    <3>1. ASSUME NEW l \in Lines PROVE l.id <= attempts /\ l.seq <= writeSeq
      BY <1>0, <2>3
    <3> QED
      BY <1>0, <2>1, <2>5, <2>6, <3>1
  <2>8. \A l, m \in Lines' :
          l # m => (l.id < m.id /\ l.seq < m.seq) \/ (m.id < l.id /\ m.seq < l.seq)
    BY <1>0, <2>3, <2>5, <2>6 DEF OrderInv
  <2>9. ASSUME NEW i \in Idx, NEW j \in Idx, i < j,
               NEW l \in held'[i], NEW m \in held'[j]
        PROVE  l.seq < m.seq
    <3>1. Lines = UNION {held[k] : k \in Idx}
      BY LinesFacts
    <3>2. CASE i # segmentIndex /\ j # segmentIndex
      BY <1>0, <2>4, <2>9, <3>2 DEF OrderInv
    <3>3. CASE j = segmentIndex
      <4>1. i # segmentIndex /\ l \in held[i]
        BY <1>0, <2>4, <2>9, <3>3
      <4>2. CASE m = new
        BY <2>3, <2>6, <3>1, <4>1, <4>2
      <4>3. CASE m \in held[j]
        BY <1>0, <2>9, <4>1, <4>3 DEF OrderInv
      <4> QED
        BY <2>4, <2>9, <3>3, <4>2, <4>3
    <3>4. CASE i = segmentIndex
      <4>1. m \in held[j] /\ j # segmentIndex
        BY <1>0, <2>4, <2>9, <3>4
      <4>2. plain[j] = None /\ zst[j] = None
        <5>1. ~ (j <= segmentIndex)
          BY <1>0, <2>9, <3>4
        <5> QED
          BY <5>1 DEF IInv, FileInv
      <4>3. held[j] = {}
        BY <4>1, <4>2 DEF held, Held, Content
      <4> QED
        BY <4>1, <4>3
    <3> QED
      BY <3>2, <3>3, <3>4
  <2>10. pc' \notin Before
    BY <2>1
  <2> QED
    BY <2>1, <2>7, <2>8, <2>9, <2>10 DEF OrderInv
<1>11. ASSUME AppendLine, ragged PROVE OrderInv'
  <2>1. /\ plain' = plain /\ zst' = zst /\ segmentIndex' = segmentIndex
        /\ current' = current /\ buf' = buf /\ attempts' = attempts
        /\ writeSeq' = writeSeq /\ pc = "append" /\ pc' \in {"sync", "commit"}
    BY <1>11 DEF AppendLine
  <2>2. held' = held /\ Lines' = Lines
    BY <2>1 DEF held, Lines, OnDisk
  <2> QED
    BY <1>0, <2>1, <2>2 DEF OrderInv
<1>6. ASSUME NEW K \in SUBSET buf, NEW cut \in Cuts, NEW G \in SUBSET unlinked,
             NEW B \in SUBSET Idx, CrashAndOpen(K, cut, G, B)
      PROVE  OrderInv'
  <2>1. attempts' = attempts /\ pc' = "idle"
    BY <1>6 DEF CrashAndOpen
  <2>2. /\ writeSeq' \in Nat /\ zst' = zst /\ buf' = {}
        /\ \A i \in Idx : Content(plain', zst, i) \subseteq held[i]
        /\ \A i \in Idx : \A l \in Content(plain', zst, i) : l.seq < writeSeq'
    BY <1>6, CrashFacts
  <2>3. \A i \in Idx : held'[i] = Content(plain', zst, i)
    BY <2>2 DEF held, Held
  <2>4. Shrinks
    BY <2>2, <2>3 DEF Shrinks
  <2>5. ASSUME NEW l \in Lines' PROVE l.seq < writeSeq' /\ l.seq <= writeSeq'
    <3>1. PICK i \in Idx : l \in held'[i]
      BY LinesFacts
    <3>2. l \in Lines
      BY <2>4, LinesFacts
    <3>3. l.seq < writeSeq' /\ l.seq \in Nat
      BY <1>0, <2>2, <2>3, <3>1, <3>2
    <3> QED
      BY <2>2, <3>3
  <2> QED
    BY <1>0, <1>1, <2>1, <2>2, <2>4, <2>5
<1>7. ASSUME NEW f \in BOOLEAN, AppendSync(f) PROVE OrderInv'
  <2>1. pc = "sync" /\ Fsync
    BY <1>7 DEF AppendSync, IInv, AcceptInv
  <2>2. ~ f
    BY <1>7, <2>1 DEF AppendSync, Fault, Sound, SoundFaults
  <2>3. Shrinks
    BY <2>1, DiskStep DEF AppendLine
  <2> QED
    BY <1>2, <1>7, <2>2, <2>3 DEF AppendSync
<1>8. ASSUME Pop \/ GcStart \/ (\E n \in 1 .. readSeq : Ack(n)) \/ GcRemove
             \/ GcRemoveSibling \/ UNCHANGED vars
      PROVE  OrderInv'
  <2>1. CASE AppendLine
    BY <1>5, <1>11, <2>1
  <2>2. CASE ~ AppendLine
    <3>1. Shrinks
      BY <2>2, DiskStep
    <3> QED
      BY <1>2, <1>8, <3>1 DEF Pop, GcStart, Ack, GcRemove, GcRemoveSibling, vars
  <2> QED
    BY <2>1, <2>2
<1>9. ASSUME NEW f \in BOOLEAN,
             \/ CompressWrite(f) \/ CompressDone(f) \/ CompressUnlink(f)
             \/ Checkpoint(f) \/ CheckpointWrite(f) \/ GcEnd(f) \/ CheckpointStart(f)
             \/ \E K \in SUBSET buf, c \in Cuts : RotateFlush(f, K, c)
      PROVE  OrderInv'
  <2>1. pc # "append"
    BY <1>9 DEF CompressWrite, CompressDone, CompressUnlink, Checkpoint, CheckpointWrite,
       GcEnd, CheckpointStart, RotateFlush
  <2>2. Shrinks
    BY <2>1, DiskStep DEF AppendLine
  <2>3. CASE CompressWrite(f) \/ CompressDone(f) \/ CompressUnlink(f)
    BY <1>2, <2>2, <2>3 DEF CompressWrite, CompressDone, CompressUnlink
  <2>4. CASE Checkpoint(f) \/ CheckpointWrite(f)
    BY <1>2, <2>2, <2>4 DEF Checkpoint, CheckpointWrite, AfterCheckpoint
  <2>5. CASE GcEnd(f) \/ CheckpointStart(f)
    BY <1>2, <2>2, <2>5 DEF GcEnd, CheckpointStart
  <2>6. CASE \E K \in SUBSET buf, c \in Cuts : RotateFlush(f, K, c)
    BY <1>2, <2>2, <2>6 DEF RotateFlush
  <2> QED
    BY <1>9, <2>3, <2>4, <2>5, <2>6
<1>10. ASSUME NEW r \in {"ok", "create_err", "link_err"}, RotateCreate(r)
       PROVE  OrderInv'
  <2>1. Shrinks
    BY <1>10, DiskStep DEF AppendLine, RotateCreate
  <2> QED
    BY <1>2, <1>10, <2>1 DEF RotateCreate
<1>12. ASSUME NEW K \in SUBSET buf, NEW part \in BOOLEAN, AppendFails(K, part)
       PROVE  OrderInv'
  <2>1. pc = "append" /\ pc' = "idle" /\ attempts' = attempts /\ writeSeq' = writeSeq
    BY <1>12 DEF AppendFails
  <2>2. ~ AppendLine
    BY <2>1 DEF AppendLine
  <2>3. Shrinks
    BY <2>2, DiskStep
  <2> QED
    BY <1>2, <2>1, <2>3
<1> QED
  BY <1>3, <1>4, <1>5, <1>6, <1>7, <1>8, <1>9, <1>10, <1>11, <1>12 DEF Next, CallStep

-----------------------------------------------------------------------------
(* The cursors, what was accepted, and what stays.                         *)

\* Nothing falls behind a cursor without having been handed out or acknowledged.
LEMMA CursorStep == ASSUME Sound, IInv, [Next]_vars PROVE CursorInv'
<1> USE DEF diskVars, cursors, writerVars, callVars, ghosts, Call, Goto, Return
<1>0. /\ CursorInv /\ OrderInv /\ Lines \subseteq Line
      /\ writeSeq \in Nat /\ readSeq \in Nat /\ ackSeq \in Nat
      /\ checkpoint.a \in Nat /\ checkpoint.w \in Nat
      /\ \A l \in Line : l.seq \in Nat /\ l.id \in Nat
  BY LinesFacts DEF IInv, Typed
<1>1. ASSUME checkpoint' \in {checkpoint, NoCheckpoint, Current}, Shrinks,
             UNCHANGED <<readSeq, ackSeq, popped, settled>>,
             writeSeq' \in {writeSeq, writeSeq + 1}, pc' # "sibling"
      PROVE  CursorInv'
  <2>1. Lines' \subseteq Lines
    BY <1>1, LinesFacts
  <2>2. checkpoint'.a <= ackSeq' /\ checkpoint'.a <= checkpoint'.w
    BY <1>0, <1>1 DEF NoCheckpoint, Current, CursorInv
  <2>3. ackSeq' <= readSeq' /\ readSeq' <= writeSeq'
    BY <1>0, <1>1 DEF CursorInv
  <2> QED
    BY <1>0, <1>1, <2>1, <2>2, <2>3 DEF CursorInv
<1>2. CASE EnqueueStart \/ GcStart \/ Commit
  <2>1. Shrinks
    BY <1>2, DiskStep DEF EnqueueStart, GcStart, Commit, AppendLine
  <2> QED
    BY <1>1, <1>2, <2>1 DEF EnqueueStart, GcStart, Commit
<1>3. CASE AppendLine
  <2>1. /\ plain' = plain /\ zst' = zst /\ buf' \in {buf, buf \cup {NewLine}} /\ pc' # "sibling"
        /\ UNCHANGED <<checkpoint, readSeq, ackSeq, writeSeq, popped, settled>>
    BY <1>3 DEF AppendLine
  <2>2. Lines' \subseteq Lines \cup {NewLine} /\ NewLine.seq = writeSeq
    BY <2>1 DEF Lines, OnDisk, NewLine
  <2>3. ~ (NewLine.seq < readSeq) /\ ~ (NewLine.seq < ackSeq)
    BY <1>0, <2>2 DEF CursorInv
  <2> QED
    BY <1>0, <2>1, <2>2, <2>3 DEF CursorInv
<1>4. CASE Pop
  <2>1. /\ UNCHANGED <<checkpoint, ackSeq, writeSeq, settled, pc>> /\ pc = "idle"
    BY <1>4 DEF Pop
  <2>2. Shrinks
    BY <1>4, DiskStep DEF Pop, AppendLine
  <2>3. CASE Candidates(Flushed) # {} /\ ~ ReadFails(Flushed)
    <3> DEFINE l0 == FirstLine(Flushed)
    <3>1. readSeq' = l0.seq + 1 /\ popped' = popped \cup {l0}
      BY <1>4, <2>3 DEF Pop
    <3>2. /\ l0 \in Line /\ l0 \in Lines /\ readSeq <= l0.seq
          /\ \A m \in Lines : readSeq <= m.seq => l0.seq <= m.seq
      BY <2>3, FirstLineFacts
    <3> HIDE DEF l0
    <3>3. l0.seq \in Nat /\ l0.id \in Nat /\ l0.seq < writeSeq
      BY <1>0, <2>1, <3>2 DEF OrderInv
    <3>4. Lines' \subseteq Lines
      BY <2>2, LinesFacts
    <3>5. ASSUME NEW l \in Lines', l.seq < readSeq' PROVE l \in popped' \/ l.id \in settled'
      <4>1. l \in Lines /\ l.seq \in Nat /\ l.id \in Nat
        BY <1>0, <3>4
      <4>2. CASE l.seq < readSeq
        BY <1>0, <2>1, <3>1, <4>1, <4>2 DEF CursorInv
      <4>3. CASE ~ (l.seq < readSeq)
        <5>1. l0.seq <= l.seq
          BY <1>0, <3>2, <4>1, <4>3
        <5>2. l.seq = l0.seq
          BY <3>1, <3>3, <3>5, <4>1, <5>1
        <5>3. l = l0
          <6>1. l # l0 => (l.id < l0.id /\ l.seq < l0.seq) \/ (l0.id < l.id /\ l0.seq < l.seq)
            BY <1>0, <3>2, <4>1 DEF OrderInv
          <6> QED
            BY <3>3, <5>2, <6>1
        <5> QED
          BY <3>1, <5>3
      <4> QED
        BY <4>2, <4>3
    <3>6. \A l \in Lines' : l.seq < ackSeq' => l.id \in settled'
      BY <1>0, <2>1, <3>4 DEF CursorInv
    <3>7. /\ checkpoint'.a <= ackSeq' /\ ackSeq' <= readSeq' /\ readSeq' <= writeSeq'
          /\ checkpoint'.a <= checkpoint'.w
      BY <1>0, <2>1, <3>1, <3>2, <3>3 DEF CursorInv
    <3> QED
      BY <2>1, <3>5, <3>6, <3>7 DEF CursorInv
  <2>4. CASE ~ (Candidates(Flushed) # {} /\ ~ ReadFails(Flushed))
    BY <1>1, <1>4, <2>1, <2>2, <2>4 DEF Pop
  <2> QED
    BY <2>3, <2>4
<1>5. ASSUME NEW n \in 1 .. readSeq, Ack(n) PROVE CursorInv'
  <2>1. /\ UNCHANGED <<checkpoint, writeSeq, popped>> /\ pc' = "checkpoint"
        /\ ackSeq' = Larger(ackSeq, n) /\ readSeq' = Larger(readSeq, Larger(ackSeq, n))
        /\ settled' = settled \cup {l.id : l \in {m \in popped : m.seq < n}}
    BY <1>5 DEF Ack
  <2>2. Shrinks
    BY <1>5, DiskStep DEF Ack, AppendLine
  <2>3. Lines' \subseteq Lines
    BY <2>2, LinesFacts
  <2>4. n \in Nat /\ n <= readSeq
    BY <1>0
  <2>5. readSeq' = readSeq /\ ackSeq' \in {ackSeq, n} /\ ackSeq <= ackSeq' /\ ackSeq' <= readSeq
    BY <1>0, <2>1, <2>4 DEF Larger, CursorInv
  <2>6. ASSUME NEW l \in Lines', l.seq < ackSeq' PROVE l.id \in settled'
    <3>1. l \in Lines
      BY <2>3
    <3>2. CASE ackSeq' = ackSeq
      BY <1>0, <2>1, <2>6, <3>1, <3>2 DEF CursorInv
    <3>3. CASE ackSeq' = n
      <4>1. l.seq < n /\ l.seq < readSeq
        BY <1>0, <2>4, <2>6, <3>1, <3>3
      <4>2. l \in popped \/ l.id \in settled
        BY <1>0, <3>1, <4>1 DEF CursorInv
      <4> QED
        BY <2>1, <4>1, <4>2
    <3> QED
      BY <2>5, <3>2, <3>3
  <2>7. \A l \in Lines' : l.seq < readSeq' => l \in popped' \/ l.id \in settled'
    BY <1>0, <2>1, <2>3, <2>5 DEF CursorInv
  <2>8. checkpoint'.a <= ackSeq' /\ checkpoint'.a <= checkpoint'.w /\ readSeq' <= writeSeq'
        /\ ackSeq' <= readSeq'
    BY <1>0, <2>1, <2>4, <2>5 DEF CursorInv
  <2> QED
    BY <2>1, <2>6, <2>7, <2>8 DEF CursorInv
<1>6. ASSUME NEW f \in BOOLEAN,
             \/ CompressWrite(f) \/ CompressDone(f) \/ CompressUnlink(f) \/ AppendSync(f)
             \/ Checkpoint(f) \/ CheckpointWrite(f) \/ GcEnd(f) \/ CheckpointStart(f)
             \/ \E K \in SUBSET buf, c \in Cuts : RotateFlush(f, K, c)
      PROVE  CursorInv'
  <2>1. pc # "append"
    BY <1>6 DEF CompressWrite, CompressDone, CompressUnlink, AppendSync, Checkpoint,
       CheckpointWrite, GcEnd, CheckpointStart, RotateFlush
  <2>2. Shrinks
    BY <2>1, DiskStep DEF AppendLine
  <2>3. CASE CompressWrite(f) \/ CompressDone(f) \/ CompressUnlink(f) \/ AppendSync(f)
    BY <1>1, <2>2, <2>3 DEF CompressWrite, CompressDone, CompressUnlink, AppendSync
  <2>4. CASE Checkpoint(f) \/ CheckpointWrite(f)
    BY <1>1, <2>2, <2>4 DEF Checkpoint, CheckpointWrite, AfterCheckpoint
  <2>5. CASE GcEnd(f) \/ CheckpointStart(f)
    BY <1>1, <2>2, <2>5 DEF GcEnd, CheckpointStart
  <2>6. CASE \E K \in SUBSET buf, c \in Cuts : RotateFlush(f, K, c)
    BY <1>1, <2>2, <2>6 DEF RotateFlush
  <2> QED
    BY <1>6, <2>3, <2>4, <2>5, <2>6
<1>7. ASSUME NEW r \in {"ok", "create_err", "link_err"}, RotateCreate(r)
      PROVE  CursorInv'
  <2>1. Shrinks
    BY <1>7, DiskStep DEF AppendLine, RotateCreate
  <2> QED
    BY <1>1, <1>7, <2>1 DEF RotateCreate
<1>8. CASE GcRemove
  <2> DEFINE i == MinOf(Reclaimable)
  <2>1. /\ UNCHANGED <<checkpoint, cursors, popped, settled>> /\ pc = "gc"
        /\ pc' = "sibling" =>
             /\ victim' = i /\ plain[i] # None /\ zst' = zst
             /\ plain' = [plain EXCEPT ![i] = None]
    BY <1>8 DEF GcRemove
  <2>2. Shrinks
    BY <2>1, DiskStep DEF AppendLine
  <2>3. Lines' \subseteq Lines
    BY <2>2, LinesFacts
  <2>4. i \in Idx /\ \A l \in Content(plain, zst, i) : l.seq < ackSeq
    BY <1>8, ReclaimFacts DEF GcRemove
  <2> HIDE DEF i
  <2>5. ASSUME pc' = "sibling"
        PROVE  plain'[victim'] = None
               /\ \A l \in Content(plain', zst', victim') : l.seq < ackSeq'
    <3>1. victim' = i /\ plain'[i] = None /\ zst' = zst
      BY <2>1, <2>4, <2>5 DEF IInv, Typed
    <3>2. zst[i] \in {None, Partial, plain[i]} /\ plain[i] # None
      BY <2>1, <2>4, <2>5 DEF IInv, FileInv
    <3>3. Content(plain', zst', i) \subseteq Content(plain, zst, i)
      BY <3>1, <3>2 DEF Content
    <3> QED
      BY <2>1, <2>4, <3>1, <3>3
  <2> QED
    BY <1>0, <2>1, <2>3, <2>5 DEF CursorInv
<1>9. CASE GcRemoveSibling
  <2>1. Shrinks
    BY <1>9, DiskStep DEF GcRemoveSibling, AppendLine
  <2> QED
    BY <1>1, <1>9, <2>1 DEF GcRemoveSibling
<1>10. ASSUME NEW K \in SUBSET buf, NEW cut \in Cuts, NEW G \in SUBSET unlinked,
              NEW B \in SUBSET Idx, CrashAndOpen(K, cut, G, B)
       PROVE  CursorInv'
  <2>1. /\ readSeq' = checkpoint.a /\ ackSeq' = checkpoint.a /\ settled' = settled
        /\ checkpoint' = checkpoint /\ pc' = "idle"
    BY <1>10 DEF CrashAndOpen
  <2>2. /\ writeSeq' \in Nat /\ checkpoint.w <= writeSeq' /\ zst' = zst /\ buf' = {}
        /\ \A i \in Idx : Content(plain', zst, i) \subseteq held[i]
    BY <1>10, CrashFacts
  <2>3. Shrinks
    BY <2>2 DEF Shrinks, held, Held
  <2>4. Lines' \subseteq Lines
    BY <2>3, LinesFacts
  <2>5. ASSUME NEW l \in Lines', l.seq < checkpoint.a PROVE l.id \in settled
    <3>1. l \in Lines /\ l.seq \in Nat
      BY <1>0, <2>4
    <3>2. l.seq < ackSeq
      BY <1>0, <2>5, <3>1 DEF CursorInv
    <3> QED
      BY <1>0, <3>1, <3>2 DEF CursorInv
  <2>6. checkpoint.a <= writeSeq' /\ checkpoint.a <= checkpoint.w
    BY <1>0, <2>2 DEF CursorInv
  <2> QED
    BY <1>0, <2>1, <2>5, <2>6 DEF CursorInv
<1>11. CASE UNCHANGED vars
  <2>1. CASE AppendLine
    BY <1>3, <2>1
  <2>2. CASE ~ AppendLine
    <3>1. UNCHANGED <<plain, zst, buf, checkpoint, cursors, popped, settled, pc, victim>>
      BY <1>11 DEF vars
    <3>2. Lines' = Lines
      BY <3>1 DEF Lines, OnDisk
    <3> QED
      BY <1>0, <3>1, <3>2 DEF CursorInv
  <2> QED
    BY <2>1, <2>2
<1>12. ASSUME NEW K \in SUBSET buf, NEW part \in BOOLEAN, AppendFails(K, part)
       PROVE  CursorInv'
  <2>1. /\ UNCHANGED <<checkpoint, cursors, popped, settled>>
        /\ pc = "append" /\ pc' = "idle"
    BY <1>12 DEF AppendFails
  <2>2. ~ AppendLine
    BY <2>1 DEF AppendLine
  <2>3. Shrinks
    BY <2>2, DiskStep
  <2> QED
    BY <1>1, <2>1, <2>3
<1> QED
  BY <1>2, <1>3, <1>4, <1>5, <1>6, <1>7, <1>8, <1>9, <1>10, <1>11, <1>12 DEF Next, CallStep

\* What reached the disk stays until it is acknowledged.
LEMMA KeptStep == ASSUME Sound, IInv, [Next]_vars PROVE StableKept'
<1>0. Keeps /\ Fresh /\ StableKept
  BY DiskStep DEF IInv
<1>1. settled \subseteq settled'
  <2>1. ASSUME CallStep PROVE settled \subseteq settled'
    <3>1. ASSUME NEW f \in BOOLEAN, CompressWrite(f) \/ CompressDone(f) \/ CompressUnlink(f)
          PROVE  settled \subseteq settled'
      BY <3>1 DEF CompressWrite, CompressDone, CompressUnlink, ghosts
    <3>2. ASSUME NEW f \in BOOLEAN, AppendSync(f) \/ Checkpoint(f)
          PROVE  settled \subseteq settled'
      BY <3>2 DEF AppendSync, Checkpoint, ghosts
    <3>3. ASSUME NEW f \in BOOLEAN, CheckpointWrite(f) \/ GcEnd(f)
          PROVE  settled \subseteq settled'
      BY <3>3 DEF CheckpointWrite, GcEnd, ghosts
    <3>4. ASSUME NEW f \in BOOLEAN, NEW K \in SUBSET buf, NEW c \in Cuts, RotateFlush(f, K, c)
          PROVE  settled \subseteq settled'
      BY <3>4 DEF RotateFlush, ghosts
    <3>5. ASSUME NEW r, RotateCreate(r) PROVE settled \subseteq settled'
      BY <3>5 DEF RotateCreate, ghosts
    <3>6. CASE AppendLine \/ Commit \/ GcRemove \/ GcRemoveSibling
      BY <3>6 DEF AppendLine, Commit, GcRemove, GcRemoveSibling, ghosts
    <3>7. ASSUME NEW K, NEW part, AppendFails(K, part) PROVE settled \subseteq settled'
      BY <3>7 DEF AppendFails, ghosts
    <3> QED
      BY <2>1, <3>1, <3>2, <3>3, <3>4, <3>5, <3>6, <3>7 DEF CallStep
  <2>2. CASE EnqueueStart \/ Pop \/ GcStart
    BY <2>2 DEF EnqueueStart, Pop, GcStart, ghosts
  <2>3. ASSUME NEW c, CheckpointStart(c) \/ Ack(c) PROVE settled \subseteq settled'
    BY <2>3 DEF CheckpointStart, Ack, ghosts
  <2>4. ASSUME NEW K, NEW cut \in Cuts, NEW G, NEW B, CrashAndOpen(K, cut, G, B)
        PROVE  settled \subseteq settled'
    BY <2>4 DEF CrashAndOpen, ghosts
  <2>5. CASE UNCHANGED vars
    BY <2>5 DEF vars, ghosts
  <2> QED
    BY <2>1, <2>2, <2>3, <2>4, <2>5 DEF Next
<1>2. ASSUME NEW l \in stable', l.id \notin settled' PROVE l \in OnDisk' \cup Buried'
  <2>1. CASE l \in OnDisk' \cup Buried'
    BY <2>1
  <2>2. CASE l \in stable /\ l \in OnDisk
    <3>2. PICK i \in Idx : l \in Content(plain, zst, i)
      BY <2>2 DEF OnDisk
    <3>3. CASE l.seq < ackSeq
      <4>1. l \in Lines
        BY <2>2 DEF Lines
      <4>2. l.id \in settled
        BY <3>3, <4>1 DEF IInv, CursorInv
      <4> QED
        BY <1>1, <1>2, <4>2
    <3>4. CASE l \in Content(plain', zst', i)
      <4>1. l \in UNION {Content(plain', zst', j) : j \in Idx}
        BY <3>2, <3>4
      <4> QED
        BY <4>1 DEF OnDisk
    <3> QED
      BY <1>0, <3>2, <3>3, <3>4 DEF Keeps
  <2>3. l \in stable => l \in OnDisk \cup Buried
    BY <1>0, <1>1, <1>2 DEF StableKept
  <2> QED
    BY <1>0, <1>2, <2>1, <2>2, <2>3 DEF Fresh
<1> QED
  BY <1>2 DEF StableKept

\* In fsync mode a line is on the disk before its event is accepted.
LEMMA AcceptStep == ASSUME Sound, IInv, [Next]_vars PROVE AcceptInv'
<1> USE DEF Goto, Call, Return, Fault
<1>0. /\ AcceptInv
      /\ Fsync => {"link", "append", "sync"} \cap FaultPoints = {}
      /\ Fsync => ~ ragged
  BY DEF IInv, Sound, SoundFaults, GarbledInv
<1>1. stable \subseteq stable'
  <2>1. ASSUME CallStep PROVE stable \subseteq stable'
    <3>1. ASSUME NEW f \in BOOLEAN, CompressWrite(f) \/ CompressDone(f) \/ CompressUnlink(f)
          PROVE  stable \subseteq stable'
      BY <3>1 DEF CompressWrite, CompressDone, CompressUnlink, ghosts
    <3>2. ASSUME NEW f \in BOOLEAN, AppendSync(f) \/ Checkpoint(f)
          PROVE  stable \subseteq stable'
      BY <3>2 DEF AppendSync, Checkpoint, ghosts
    <3>3. ASSUME NEW f \in BOOLEAN, CheckpointWrite(f) \/ GcEnd(f)
          PROVE  stable \subseteq stable'
      BY <3>3 DEF CheckpointWrite, GcEnd, ghosts
    <3>4. ASSUME NEW f \in BOOLEAN, NEW K \in SUBSET buf, NEW c \in Cuts, RotateFlush(f, K, c)
          PROVE  stable \subseteq stable'
      BY <3>4 DEF RotateFlush, ghosts
    <3>5. ASSUME NEW r, RotateCreate(r) PROVE stable \subseteq stable'
      BY <3>5 DEF RotateCreate, ghosts
    <3>6. CASE AppendLine \/ Commit \/ GcRemove \/ GcRemoveSibling
      BY <3>6 DEF AppendLine, Commit, GcRemove, GcRemoveSibling, ghosts
    <3>7. ASSUME NEW K, NEW part, AppendFails(K, part) PROVE stable \subseteq stable'
      BY <3>7 DEF AppendFails, ghosts
    <3> QED
      BY <2>1, <3>1, <3>2, <3>3, <3>4, <3>5, <3>6, <3>7 DEF CallStep
  <2>2. CASE EnqueueStart \/ Pop \/ GcStart
    BY <2>2 DEF EnqueueStart, Pop, GcStart, ghosts
  <2>3. ASSUME NEW c, CheckpointStart(c) \/ Ack(c) PROVE stable \subseteq stable'
    BY <2>3 DEF CheckpointStart, Ack, ghosts
  <2>4. ASSUME NEW K, NEW cut \in Cuts, NEW G, NEW B, CrashAndOpen(K, cut, G, B)
        PROVE  stable \subseteq stable'
    BY <2>4 DEF CrashAndOpen, ghosts
  <2>5. CASE UNCHANGED vars
    BY <2>5 DEF vars, ghosts
  <2> QED
    BY <2>1, <2>2, <2>3, <2>4, <2>5 DEF Next
<1>2. CASE AppendLine
  <2>1. Fsync => NewLine \in buf' /\ NewLine.id = attempts
    BY <1>0, <1>2 DEF AppendLine, NewLine
  <2>2. /\ attempts' = attempts /\ accepted' = accepted
        /\ pc' = IF Fsync THEN "sync" ELSE "commit"
    BY <1>2 DEF AppendLine, ghosts
  <2>3. Fsync => \E l \in buf' : l.id = attempts'
    BY <2>1, <2>2
  <2> QED
    BY <1>0, <1>1, <2>2, <2>3 DEF AcceptInv
<1>3. ASSUME NEW f \in BOOLEAN, AppendSync(f) PROVE AcceptInv'
  <2>1. f = FALSE
    BY <1>0, <1>3 DEF AppendSync, AcceptInv
  <2>2. PICK l \in buf : l.id = attempts
    BY <1>0, <1>3 DEF AppendSync, AcceptInv
  <2>3. /\ stable' = stable \cup buf /\ pc' = "commit"
        /\ attempts' = attempts /\ accepted' = accepted
    BY <1>3, <2>1 DEF AppendSync
  <2>4. \E m \in stable' : m.id = attempts'
    BY <2>2, <2>3
  <2> QED
    BY <1>0, <1>1, <2>3, <2>4 DEF AcceptInv
<1>4. CASE Commit
  <2>1. /\ pc = "commit" /\ attempts' = attempts /\ stable' = stable
        /\ accepted' \in {accepted, accepted \cup {attempts}}
        /\ pc' \in {"idle", "checkpoint"}
    BY <1>4 DEF Commit
  <2> QED
    BY <1>0, <2>1 DEF AcceptInv
<1>5. ASSUME NEW f \in BOOLEAN, Checkpoint(f) \/ CheckpointWrite(f) PROVE AcceptInv'
  <2>1. /\ pc \in {"checkpoint", "rewrite"}
        /\ attempts' = attempts /\ stable' = stable
        /\ accepted' \in {accepted, IF caller = "enqueue" THEN accepted \cup {attempts}
                                                          ELSE accepted}
        /\ pc' \in {"idle", "gc"} \/ (pc' = "rewrite" /\ caller' = caller)
    BY <1>5 DEF Checkpoint, CheckpointWrite, AfterCheckpoint
  <2> QED
    BY <1>0, <2>1 DEF AcceptInv
<1>6. CASE EnqueueStart \/ GcStart \/ \E c \in BOOLEAN : CheckpointStart(c)
  <2>1. /\ accepted' = accepted
        /\ pc' \notin {"sync", "commit", "rewrite"}
        /\ pc' = "checkpoint" => caller' # "enqueue"
    BY <1>6 DEF EnqueueStart, GcStart, CheckpointStart, ghosts
  <2> QED
    BY <1>0, <1>1, <2>1 DEF AcceptInv
<1>7. CASE Pop \/ (\E n \in 1 .. readSeq : Ack(n)) \/ UNCHANGED vars
  <2>1. CASE UNCHANGED vars
    BY <1>0, <2>1 DEF AcceptInv, vars, callVars, ghosts
  <2>2. CASE Pop
    <3>1. accepted' = accepted /\ pc' = "idle"
      BY <2>2 DEF Pop, callVars
    <3> QED
      BY <1>0, <1>1, <3>1 DEF AcceptInv
  <2>3. CASE \E n \in 1 .. readSeq : Ack(n)
    <3>1. accepted' = accepted /\ pc' = "checkpoint" /\ caller' = "ack"
      BY <2>3 DEF Ack
    <3> QED
      BY <1>0, <1>1, <3>1 DEF AcceptInv
  <2> QED
    BY <1>7, <2>1, <2>2, <2>3
<1>8. ASSUME NEW f \in BOOLEAN,
             \/ CompressWrite(f) \/ CompressDone(f) \/ CompressUnlink(f) \/ GcEnd(f)
             \/ \E K \in SUBSET buf, c \in Cuts : RotateFlush(f, K, c)
      PROVE  AcceptInv'
  <2>1. /\ accepted' = accepted
        /\ pc' \notin {"sync", "commit", "checkpoint", "rewrite"}
    BY <1>8 DEF CompressWrite, CompressDone, CompressUnlink, GcEnd, RotateFlush, ghosts
  <2> QED
    BY <1>0, <1>1, <2>1 DEF AcceptInv
<1>9. CASE \/ GcRemove \/ GcRemoveSibling
           \/ \E r \in {"ok", "create_err", "link_err"} : RotateCreate(r)
  <2>1. /\ accepted' = accepted
        /\ pc' \notin {"sync", "commit", "checkpoint", "rewrite"}
    BY <1>9 DEF GcRemove, GcRemoveSibling, RotateCreate, ghosts, callVars
  <2> QED
    BY <1>0, <1>1, <2>1 DEF AcceptInv
<1>10. CASE \E K \in SUBSET buf, cut \in Cuts, G \in SUBSET unlinked, B \in SUBSET Idx :
              CrashAndOpen(K, cut, G, B)
  <2>1. accepted' = accepted /\ pc' = "idle"
    BY <1>10 DEF CrashAndOpen
  <2> QED
    BY <1>0, <1>1, <2>1 DEF AcceptInv
<1>11. ASSUME NEW K \in SUBSET buf, NEW part \in BOOLEAN, AppendFails(K, part)
       PROVE  AcceptInv'
  <2>1. accepted' = accepted /\ pc' = "idle" /\ attempts' = attempts
    BY <1>11 DEF AppendFails
  <2> QED
    BY <1>0, <1>1, <2>1 DEF AcceptInv
<1> QED
  BY <1>2, <1>3, <1>4, <1>5, <1>6, <1>7, <1>8, <1>9, <1>10, <1>11 DEF Next, CallStep

\* The empty directory of a first start satisfies the invariant.
LEMMA InitInv == ASSUME Sound, Init PROVE IInv
<1>1. \A i \in Idx : Content(plain, zst, i) = {}
  BY DEF Init, Content
<1>2. OnDisk = {} /\ buf = {} /\ Lines = {}
  BY <1>1 DEF Init, OnDisk, Lines
<1>3. Typed
  <2>1. 0 \in Idx
    BY QueueAssumption DEF Idx
  <2>2. plain \in [Idx -> {None} \cup SUBSET Line] /\ zst \in [Idx -> {None, Partial} \cup SUBSET Line]
    BY DEF Init
  <2>3. checkpoint \in [w : Nat, a : Nat, i : Idx]
    BY <2>1 DEF Init, NoCheckpoint
  <2> QED
    BY <2>1, <2>2, <2>3 DEF Init, Typed, Idx
<1>4. FileInv
  BY QueueAssumption DEF Init, FileInv, Idx, NoCheckpoint, Rotating
<1>5. OrderInv
  <2>1. \A i \in Idx : held[i] = {}
    BY <1>1 DEF held, Held, Init
  <2> QED
    BY <1>2, <2>1 DEF OrderInv
<1>6. CursorInv
  BY <1>2 DEF Init, CursorInv, NoCheckpoint
<1>7. AcceptInv
  BY DEF Init, AcceptInv
<1>8. StableKept
  BY DEF Init, StableKept
<1>9. GarbledInv
  BY DEF Init, GarbledInv
<1> QED
  BY <1>3, <1>4, <1>5, <1>6, <1>7, <1>8, <1>9 DEF IInv

\* The invariant of a queue whose failures are sound.
LEMMA Invariance == ASSUME Sound PROVE Spec => []IInv
<1>1. Init => IInv
  BY InitInv
<1>2. IInv /\ [Next]_vars => IInv'
  BY FileStep, GarbledStep, OrderStep, CursorStep, AcceptStep, KeptStep DEF IInv
<1> QED
  BY <1>1, <1>2, PTL DEF Spec

\* An entry that reached the disk stays there until it is acknowledged: rotation,
\* compression, gc and a crash at any point between two effects on the disk lose none
\* of it (rotate_segment, compress_segment, gc, PersistentQueue::open), in both fsync
\* modes, with any number of segments, failures and crashes.  It stays readable unless
\* the active file is cut inside a character, and then it is still in that file.
THEOREM StableKeptHolds == ASSUME Sound PROVE Spec => []StableKept
<1>1. IInv => StableKept
  BY DEF IInv
<1> QED
  BY <1>1, Invariance, PTL

\* No sequence number is given out twice, in both fsync modes: write_seq is past every
\* line, however stale the checkpoint that a crash left behind (enqueue,
\* PersistentQueue::open, recover_segment_state).
THEOREM WriteSeqClearsHolds == ASSUME Sound PROVE Spec => []WriteSeqClears
<1>1. IInv => WriteSeqClears
  BY DEF IInv, OrderInv, WriteSeqClears, Lines
<1> QED
  BY <1>1, Invariance, PTL

\* In both fsync modes an event that was accepted, that is in fsync mode or had reached
\* its file or the buffer, and that is not acknowledged is in a readable segment, and was
\* handed out in this run or is the only line the reader can find at its sequence
\* number; or it lies in a file that a crash has cut inside a character.
THEOREM RecoverableHolds == ASSUME Sound PROVE Spec => []Recoverable
<1>1. IInv => Recoverable
  <2> SUFFICES ASSUME IInv, NEW id \in accepted \ settled,
                      Fsync \/ id \in {l.id : l \in stable \cup buf}
               PROVE  \E l \in OnDisk \cup buf \cup Buried :
                        l.id = id /\ (l \in popped \/ l \in Buried \/ Ahead(l))
    BY DEF Recoverable
  <2>1. PICK l \in stable \cup buf : l.id = id
    BY DEF IInv, AcceptInv
  <2>2. l \in OnDisk \cup Buried \cup buf
    BY <2>1 DEF IInv, StableKept
  <2>3. CASE l \in Buried
    BY <2>1, <2>3
  <2>4. CASE l \in Lines /\ l.seq < readSeq
    <3>1. l \in popped
      BY <2>1, <2>4 DEF IInv, CursorInv
    <3> QED
      BY <2>1, <2>2, <3>1
  <2>5. CASE l \in Lines /\ ~ (l.seq < readSeq)
    <3>1. Lines \subseteq Line /\ readSeq \in Nat
      <4>1. \A i \in Idx : Content(plain, zst, i) \subseteq Line
        BY ContentFacts DEF IInv, Typed
      <4> QED
        BY <4>1 DEF IInv, Typed, Lines, OnDisk
    <3>2. readSeq <= l.seq
      BY <2>5, <3>1 DEF Line
    <3>3. ASSUME NEW m \in Lines, m.seq = l.seq PROVE m = l
      <4>1. l.seq \in Nat
        BY <2>5, <3>1 DEF Line
      <4> QED
        BY <2>5, <3>3, <4>1 DEF IInv, OrderInv
    <3>4. Ahead(l)
      BY <3>2, <3>3 DEF Ahead, Lines
    <3> QED
      BY <2>1, <2>2, <3>4
  <2> QED
    BY <2>2, <2>3, <2>4, <2>5 DEF Lines
<1> QED
  BY <1>1, Invariance, PTL

-----------------------------------------------------------------------------
(* The durable queue.  In fsync mode the buffer is empty between calls and *)
(* the checkpoint never goes back, so the committed lines from its ack_seq *)
(* on behave as DurableQueue.                                              *)

\* The buffer holds the line that is being synced, a line is on the disk when it is
\* committed, and what the consumer got are the lines up to the read cursor.
QueueInv ==
  /\ pc # "rewrite"
  /\ buf = IF pc = "sync" THEN {NewLine} ELSE {}
  /\ pc = "commit" => NewLine \in OnDisk
  /\ popped \subseteq Line /\ \A l \in popped : l.seq < readSeq
  /\ \A l \in Lines : checkpoint.a <= l.seq /\ l.seq < readSeq => l \in popped

\* The facts about numbers that the steps below use.
LEMMA QueueFacts ==
  ASSUME IInv, QueueInv
  PROVE  /\ Lines \subseteq Line /\ \A l \in Line : l.seq \in Nat /\ l.id \in Nat
         /\ checkpoint.a \in Nat /\ ackSeq \in Nat /\ readSeq \in Nat /\ writeSeq \in Nat
         /\ checkpoint.a <= ackSeq /\ ackSeq <= readSeq /\ readSeq <= writeSeq
         /\ \A l \in Lines : l.seq <= writeSeq
         /\ \A l, m \in Lines : l # m => l.seq # m.seq /\ l.id # m.id
<1>1. Lines \subseteq Line
  <2>1. ASSUME NEW i \in Idx PROVE Content(plain, zst, i) \subseteq Line
    BY ContentFacts DEF IInv, Typed
  <2>2. OnDisk \subseteq Line
    BY <2>1 DEF OnDisk
  <2>3. buf \subseteq Line
    BY DEF IInv, Typed
  <2> QED
    BY <2>2, <2>3 DEF Lines
<1>2. \A l \in Line : l.seq \in Nat /\ l.id \in Nat
  BY DEF Line, Ids
<1>3. /\ checkpoint.a \in Nat /\ ackSeq \in Nat /\ readSeq \in Nat /\ writeSeq \in Nat
      /\ checkpoint.a <= ackSeq /\ ackSeq <= readSeq /\ readSeq <= writeSeq
  BY DEF IInv, Typed, CursorInv
<1>4. \A l \in Lines : l.seq <= writeSeq
  BY DEF IInv, OrderInv
<1>5. ASSUME NEW l \in Lines, NEW m \in Lines, l # m PROVE l.seq # m.seq /\ l.id # m.id
  <2>1. (l.id < m.id /\ l.seq < m.seq) \/ (m.id < l.id /\ m.seq < l.seq)
    BY <1>5 DEF IInv, OrderInv
  <2>2. l.seq \in Nat /\ l.id \in Nat /\ m.seq \in Nat /\ m.id \in Nat
    BY <1>1, <1>2
  <2> QED
    BY <2>1, <2>2
<1> QED
  BY <1>1, <1>2, <1>3, <1>4, <1>5

\* Flushing the BufWriter keeps every line.
LEMMA FlushKeepsLines ==
  ASSUME Sound, IInv, [Next]_vars, plain' = Flushed, zst' = zst, buf' = {}
  PROVE  Lines' = Lines
<1>1. Typed /\ FileInv
  BY DEF IInv
<1>2. \A i \in Idx : Content(plain', zst', i) = held[i]
  BY <1>1, FlushFacts
<1>4. Lines = UNION {held[i] : i \in Idx}
  BY LinesFacts
<1>5. Lines' = UNION {Content(plain', zst', i) : i \in Idx}
  BY DEF Lines, OnDisk
<1> QED
  BY <1>2, <1>4, <1>5

\* Events of single bytes leave no file that is not text.
LEMMA NoneBuried ==
  ASSUME Sound, ~ MultiByte, IInv, [Next]_vars PROVE Buried' = {}
<1>1. \A i \in Idx : garbled'[i] = None
  BY GarbledStep DEF GarbledInv
<1> QED
  BY <1>1 DEF Buried

\* Lines leave only below ack_seq, and only an append adds one.
LEMMA LinesStep ==
  ASSUME Sound, ~ MultiByte, IInv, QueueInv, [Next]_vars, ~ AppendLine, pc # "sync"
  PROVE  /\ Lines' \subseteq Lines
         /\ \A l \in Lines : l \in Lines' \/ l.seq < ackSeq
<1>1. Shrinks /\ Keeps
  BY DiskStep
<1>0. Buried' = {}
  BY NoneBuried
<1>2. Lines' \subseteq Lines
  BY <1>1, LinesFacts
<1>3. ASSUME NEW l \in Lines PROVE l \in Lines' \/ l.seq < ackSeq
  <2>1. l \in OnDisk
    BY DEF QueueInv, Lines
  <2>2. PICK i \in Idx : l \in Content(plain, zst, i)
    BY <2>1 DEF OnDisk
  <2>3. CASE l \in Content(plain', zst', i)
    <3>1. l \in UNION {Content(plain', zst', j) : j \in Idx}
      BY <2>2, <2>3
    <3> QED
      BY <3>1 DEF Lines, OnDisk
  <2> QED
    BY <1>0, <1>1, <2>2, <2>3 DEF Keeps
<1> QED
  BY <1>2, <1>3

\* What a step does to the durable queue, by what it does to the lines, the cursors
\* and the checkpoint.
Restricted ==
  /\ Lines' \subseteq Lines
  /\ \A l \in Lines : l \in Lines' \/ l.seq < ackSeq
  /\ UNCHANGED <<cursors, popped>>
  /\ checkpoint'.a \in {checkpoint.a, ackSeq}

\* A step that only drops acknowledged lines, or moves the checkpoint up to ack_seq,
\* settles them.
LEMMA RestrictedSettles ==
  ASSUME IInv, QueueInv, Restricted
  PROVE  /\ Durable!QueueNext
         /\ \A l \in Lines' : checkpoint'.a <= l.seq /\ l.seq < readSeq' => l \in popped'
<1> DEFINE acked == {l \in Unsettled : l.seq < ackSeq}
           S == Unsettled \ Unsettled'
<1>0. /\ writeSeq' = writeSeq /\ readSeq' = readSeq /\ ackSeq' = ackSeq /\ popped' = popped
      /\ \A l \in Lines : l.seq \in Nat
      /\ checkpoint.a \in Nat /\ ackSeq \in Nat /\ checkpoint.a <= ackSeq
  BY QueueFacts DEF Restricted, cursors
<1>1. \A l : l \in Unsettled <=> l \in Lines /\ checkpoint.a <= l.seq /\ l.seq < writeSeq
  BY DEF Unsettled, Lines
<1>2. \A l : l \in Unsettled' <=> l \in Lines' /\ checkpoint'.a <= l.seq /\ l.seq < writeSeq
  BY <1>0 DEF Unsettled, Lines
<1>3. ASSUME NEW l \in Lines, checkpoint'.a <= l.seq PROVE checkpoint.a <= l.seq
  <2>1. l.seq \in Nat /\ checkpoint'.a \in {checkpoint.a, ackSeq}
    BY <1>0 DEF Restricted
  <2> QED
    BY <1>0, <1>3, <2>1
<1>4. Unsettled' = Unsettled \ S
  <2>1. ASSUME NEW l \in Unsettled' PROVE l \in Unsettled
    BY <1>1, <1>2, <1>3, <2>1 DEF Restricted
  <2> QED
    BY <2>1
<1>5. S \subseteq acked
  <2> SUFFICES ASSUME NEW l \in S PROVE l.seq < ackSeq
    BY DEF S
  <2>1. l \in Lines /\ checkpoint.a <= l.seq /\ l.seq < writeSeq /\ l \notin Unsettled'
    BY <1>1
  <2>2. l \notin Lines' \/ ~ (checkpoint'.a <= l.seq)
    BY <1>2, <2>1
  <2>3. CASE l \notin Lines'
    BY <2>1, <2>3 DEF Restricted
  <2>4. CASE ~ (checkpoint'.a <= l.seq)
    <3>1. checkpoint'.a = ackSeq
      BY <2>1, <2>4 DEF Restricted
    <3> QED
      BY <1>0, <2>1, <2>4, <3>1
  <2> QED
    BY <2>2, <2>3, <2>4
<1>6. Unsettled' \cap popped' = (Unsettled \cap popped) \ S
  BY <1>0, <1>4
<1>7. {l \in Unsettled' : l.seq < ackSeq'} = acked \ S
  BY <1>0, <1>4
<1> HIDE DEF S
<1>8. \E T \in SUBSET acked :
        Unsettled' = Unsettled \ T /\ Unsettled' \cap popped' = (Unsettled \cap popped) \ T
        /\ {l \in Unsettled' : l.seq < ackSeq'} = acked \ T
  BY <1>4, <1>5, <1>6, <1>7
<1>9. Durable!QueueNext
  BY <1>8, Zenon DEF Durable!QueueNext, Durable!Settle
<1>10. \A l \in Lines' : checkpoint'.a <= l.seq /\ l.seq < readSeq' => l \in popped'
  BY <1>0, <1>3 DEF Restricted, QueueInv
<1> QED
  BY <1>9, <1>10

\* A step keeps the invariant and does to the queue only what DurableQueue allows.
QueueKept == QueueInv' /\ [Durable!QueueNext]_(Durable!queueVars)

\* Steps on the files: rotation, compression, gc and checkpoints.
LEMMA FilesQueue ==
  ASSUME Sound, Fsync, ~ MultiByte, IInv, QueueInv, [Next]_vars, pc \notin {"append", "sync"},
         UNCHANGED <<cursors, popped>>, checkpoint'.a \in {checkpoint.a, ackSeq},
         buf' = {}, pc' \notin {"rewrite", "sync", "commit"}
  PROVE  QueueKept
<1>1. ~ AppendLine
  BY DEF AppendLine
<1>2. Restricted
  BY <1>1, LinesStep DEF Restricted
<1>3. /\ Durable!QueueNext
      /\ \A l \in Lines' : checkpoint'.a <= l.seq /\ l.seq < readSeq' => l \in popped'
  BY <1>2, RestrictedSettles
<1>4. popped' = popped /\ readSeq' = readSeq
  BY DEF cursors
<1>5. popped' \subseteq Line /\ \A l \in popped' : l.seq < readSeq'
  BY <1>4 DEF QueueInv
<1>6. QueueInv'
  BY <1>3, <1>5 DEF QueueInv
<1> QED
  BY <1>3, <1>6 DEF QueueKept

\* Until its line is committed an enqueue leaves the queue as it is.
LEMMA AppendQueue ==
  ASSUME Sound, Fsync, ~ MultiByte, IInv, QueueInv, [Next]_vars,
         AppendLine \/ \E f \in BOOLEAN : AppendSync(f)
  PROVE  QueueKept
<1> USE DEF diskVars, cursors, ghosts, Call, Goto, Return
<1>0. /\ writeSeq' = writeSeq /\ readSeq' = readSeq /\ ackSeq' = ackSeq /\ attempts' = attempts
      /\ popped' = popped /\ checkpoint' = checkpoint
      /\ writeSeq \in Nat /\ readSeq <= writeSeq /\ readSeq \in Nat
  BY QueueFacts DEF AppendLine, AppendSync, cursors
<1>1. NewLine' = NewLine /\ NewLine.seq = writeSeq
  BY <1>0 DEF NewLine
<1>2. /\ Lines' = Lines \cup {NewLine}
      /\ buf' = IF pc' = "sync" THEN {NewLine} ELSE {}
      /\ pc' = "commit" => NewLine \in OnDisk'
      /\ pc' # "rewrite"
  <2>1. CASE AppendLine
    <3>1. /\ plain' = plain /\ zst' = zst /\ pc = "append" /\ pc' = "sync"
          /\ buf' = buf \cup {NewLine}
      <4>1. ~ ragged
        BY DEF IInv, GarbledInv, Sound, SoundFaults
      <4> QED
        BY <2>1, <4>1 DEF AppendLine
    <3>2. OnDisk' = OnDisk /\ buf = {}
      BY <3>1 DEF OnDisk, QueueInv
    <3> QED
      BY <3>1, <3>2 DEF Lines
  <2>2. CASE \E f \in BOOLEAN : AppendSync(f)
    <3>1. AppendSync(FALSE)
      BY <2>2 DEF AppendSync, Fault, Sound, SoundFaults
    <3>2. /\ pc = "sync" /\ pc' = "commit" /\ plain' = Flushed /\ zst' = zst /\ buf' = {}
      BY <3>1 DEF AppendSync
    <3>3. Lines' = Lines
      BY <3>2, FlushKeepsLines
    <3>4. NewLine \in Lines
      BY <3>2 DEF QueueInv, Lines
    <3>5. Lines' = OnDisk'
      BY <3>2 DEF Lines
    <3> QED
      BY <3>2, <3>3, <3>4, <3>5
  <2> QED
    BY <2>1, <2>2
<1>3. Unsettled' = Unsettled
  <2>1. ~ (NewLine.seq < writeSeq)
    BY <1>0, <1>1
  <2>2. Unsettled' = {l \in Lines \cup {NewLine} : checkpoint.a <= l.seq /\ l.seq < writeSeq}
    BY <1>0, <1>2 DEF Unsettled, Lines
  <2>3. Unsettled = {l \in Lines : checkpoint.a <= l.seq /\ l.seq < writeSeq}
    BY DEF Unsettled, Lines
  <2> QED
    BY <2>1, <2>2, <2>3
<1>4. UNCHANGED Durable!queueVars
  BY <1>0, <1>3 DEF Durable!queueVars
<1>5. ~ (NewLine.seq < readSeq)
  BY <1>0, <1>1
<1>6. \A l \in Lines' : checkpoint'.a <= l.seq /\ l.seq < readSeq' => l \in popped'
  BY <1>0, <1>2, <1>5 DEF QueueInv
<1>7. popped' \subseteq Line /\ \A l \in popped' : l.seq < readSeq'
  BY <1>0 DEF QueueInv
<1>8. QueueInv'
  BY <1>1, <1>2, <1>6, <1>7 DEF QueueInv
<1> QED
  BY <1>4, <1>8 DEF QueueKept

\* A commit appends the new line to the queue.
LEMMA CommitQueue ==
  ASSUME Sound, Fsync, ~ MultiByte, IInv, QueueInv, Commit PROVE QueueKept
<1> USE DEF diskVars, ghosts, Call, Goto, Return
<1>0. /\ writeSeq' = writeSeq + 1 /\ readSeq' = readSeq /\ ackSeq' = ackSeq
      /\ popped' = popped /\ checkpoint' = checkpoint /\ plain' = plain /\ zst' = zst
      /\ buf' = buf /\ pc = "commit" /\ pc' \in {"checkpoint", "idle"}
  BY DEF Commit
<1>1. /\ \A l \in Lines : l.seq \in Nat
      /\ checkpoint.a \in Nat /\ ackSeq \in Nat /\ readSeq \in Nat /\ writeSeq \in Nat
      /\ checkpoint.a <= ackSeq /\ ackSeq <= readSeq /\ readSeq <= writeSeq
      /\ \A l \in Lines : l.seq <= writeSeq
      /\ \A l, m \in Lines : l # m => l.seq # m.seq /\ l.id # m.id
  BY QueueFacts
<1>2. Lines' = Lines /\ buf = {}
  BY <1>0 DEF Lines, OnDisk, QueueInv
<1>3. NewLine \in Lines /\ NewLine.seq = writeSeq
  BY <1>0 DEF QueueInv, Lines, NewLine
<1>4. \A l : l \in Unsettled <=> l \in Lines /\ checkpoint.a <= l.seq /\ l.seq < writeSeq
  BY DEF Unsettled, Lines
<1>5. \A l : l \in Unsettled' <=> l \in Lines /\ checkpoint.a <= l.seq /\ l.seq < writeSeq + 1
  BY <1>0, <1>2 DEF Unsettled, Lines
<1>6. PICK n \in Lines : n = NewLine
  BY <1>3
<1>7. n.seq = writeSeq
  BY <1>3, <1>6
<1>8. Unsettled' = Unsettled \cup {n}
  <2>1. n \in Unsettled'
    BY <1>1, <1>5, <1>7
  <2>2. ASSUME NEW l \in Lines, l # n PROVE l.seq < writeSeq <=> l.seq < writeSeq + 1
    BY <1>1, <1>7, <2>2
  <2> QED
    BY <1>4, <1>5, <2>1, <2>2
<1>9. \A m \in Unsettled : m.seq < n.seq /\ m.id # n.id
  <2> SUFFICES ASSUME NEW m \in Unsettled PROVE m.seq < n.seq /\ m.id # n.id
    OBVIOUS
  <2>1. m \in Lines /\ m.seq < writeSeq
    BY <1>4
  <2>2. m # n
    BY <1>1, <1>7, <2>1
  <2> QED
    BY <1>1, <1>7, <2>1, <2>2
<1>10. Unsettled' \cap popped' = Unsettled \cap popped
  <2>1. n \notin popped
    BY <1>1, <1>7 DEF QueueInv
  <2> QED
    BY <1>0, <1>8, <2>1
<1>11. {l \in Unsettled' : l.seq < ackSeq'} = {l \in Unsettled : l.seq < ackSeq}
  <2>1. ~ (n.seq < ackSeq)
    BY <1>1, <1>7
  <2> QED
    BY <1>0, <1>8, <2>1
<1>12. Durable!Join
  <2>1. n \in Unsettled'
    BY <1>8
  <2> QED
    BY <1>8, <1>9, <2>1 DEF Durable!Join
<1>13. Durable!QueueNext
  BY <1>10, <1>11, <1>12 DEF Durable!QueueNext, Durable!Accept
<1>14. QueueInv'
  BY <1>0, <1>2 DEF QueueInv
<1> QED
  BY <1>13, <1>14 DEF QueueKept

\* A read hands out the oldest entry of the queue that was not handed out.
LEMMA PopQueue ==
  ASSUME Sound, Fsync, ~ MultiByte, IInv, QueueInv, [Next]_vars, Pop PROVE QueueKept
<1> DEFINE n == FirstLine(Flushed)
<1>0. /\ pc = "idle" /\ buf = {} /\ pc' = "idle" /\ buf' = {}
      /\ plain' = Flushed /\ zst' = zst
      /\ checkpoint' = checkpoint /\ writeSeq' = writeSeq /\ ackSeq' = ackSeq
  BY DEF Pop, QueueInv, callVars
<1>1. /\ Candidates(Flushed) # {}
      /\ readSeq' = n.seq + 1 /\ popped' = popped \cup {n}
  BY <1>0 DEF Pop
<1>2. /\ n \in Line /\ n \in Lines /\ readSeq <= n.seq
      /\ \A m \in Lines : readSeq <= m.seq => n.seq <= m.seq
  BY <1>1, FirstLineFacts
<1> HIDE DEF n
<1>3. Lines' = Lines
  BY <1>0, FlushKeepsLines
<1>4. /\ \A l \in Lines : l.seq \in Nat
      /\ \A l \in Line : l.seq \in Nat
      /\ checkpoint.a \in Nat /\ ackSeq \in Nat /\ readSeq \in Nat /\ writeSeq \in Nat
      /\ checkpoint.a <= ackSeq /\ ackSeq <= readSeq
      /\ \A l, m \in Lines : l # m => l.seq # m.seq
  BY QueueFacts
<1>5. Unsettled' = Unsettled
  BY <1>0, <1>3 DEF Unsettled, Lines
<1>6. \A l : l \in Unsettled <=> l \in Lines /\ checkpoint.a <= l.seq /\ l.seq < writeSeq
  BY DEF Unsettled, Lines
<1>7. n \in Unsettled
  <2>1. n.seq < writeSeq
    BY <1>0, <1>2 DEF IInv, OrderInv
  <2>2. checkpoint.a <= n.seq
    BY <1>2, <1>4
  <2> QED
    BY <1>2, <1>6, <2>1, <2>2
<1>8. n \notin popped
  BY <1>2, <1>4 DEF QueueInv
<1>9. ASSUME NEW m \in Unsettled, m \notin popped PROVE n.seq <= m.seq
  <2>1. m \in Lines /\ checkpoint.a <= m.seq
    BY <1>6
  <2>2. ~ (m.seq < readSeq)
    BY <1>9, <2>1 DEF QueueInv
  <2> QED
    BY <1>2, <1>4, <2>1, <2>2
<1>10. Unsettled' \cap popped' = (Unsettled \cap popped) \cup {n}
  BY <1>1, <1>5, <1>7
<1>11. {l \in Unsettled' : l.seq < ackSeq'} = {l \in Unsettled : l.seq < ackSeq}
  BY <1>0, <1>5
<1>12. Durable!Deliver
  <2>1. n \in Unsettled \ (Unsettled \cap popped)
    BY <1>7, <1>8
  <2>2. \A m \in Unsettled \ (Unsettled \cap popped) : n.seq <= m.seq
    BY <1>9
  <2> QED
    BY <1>5, <1>10, <1>11, <2>1, <2>2 DEF Durable!Deliver
<1>13. Durable!QueueNext
  BY <1>12 DEF Durable!QueueNext
<1>14. ASSUME NEW l \in popped' PROVE l \in Line /\ l.seq < readSeq'
  <2>1. CASE l = n
    BY <1>1, <1>2, <1>4, <2>1
  <2>2. CASE l \in popped
    <3>1. l \in Line /\ l.seq < readSeq
      BY <2>2 DEF QueueInv
    <3> QED
      BY <1>1, <1>2, <1>4, <3>1
  <2> QED
    BY <1>1, <2>1, <2>2
<1>15. ASSUME NEW l \in Lines, checkpoint.a <= l.seq, l.seq < n.seq + 1
       PROVE  l \in popped'
  <2>1. CASE l.seq < readSeq
    BY <1>1, <1>15, <2>1 DEF QueueInv
  <2>2. CASE ~ (l.seq < readSeq)
    <3>1. l.seq = n.seq
      BY <1>2, <1>4, <1>15, <2>2
    <3>2. l = n
      BY <1>2, <1>4, <3>1
    <3> QED
      BY <1>1, <3>2
  <2> QED
    BY <2>1, <2>2
<1>16. QueueInv'
  BY <1>0, <1>1, <1>3, <1>14, <1>15 DEF QueueInv
<1> QED
  BY <1>13, <1>16 DEF QueueKept

\* An ack covers the oldest of what the consumer got.
LEMMA AckQueue ==
  ASSUME Sound, Fsync, ~ MultiByte, IInv, QueueInv, NEW upTo \in 1 .. readSeq, Ack(upTo)
  PROVE  QueueKept
<1> USE DEF diskVars, Call
<1>0. /\ pc = "idle" /\ pc' = "checkpoint" /\ buf' = buf /\ plain' = plain /\ zst' = zst
      /\ checkpoint' = checkpoint /\ writeSeq' = writeSeq /\ popped' = popped
      /\ ackSeq' = Larger(ackSeq, upTo)
      /\ readSeq' = Larger(readSeq, Larger(ackSeq, upTo))
  BY DEF Ack
<1>1. /\ \A l \in Lines : l.seq \in Nat
      /\ checkpoint.a \in Nat /\ ackSeq \in Nat /\ readSeq \in Nat /\ writeSeq \in Nat
      /\ checkpoint.a <= ackSeq /\ ackSeq <= readSeq
  BY QueueFacts
<1>2. /\ ackSeq' \in Nat /\ ackSeq <= ackSeq' /\ ackSeq' <= readSeq /\ readSeq' = readSeq
  BY <1>0, <1>1 DEF Larger
<1>3. Lines' = Lines /\ buf = {}
  BY <1>0 DEF Lines, OnDisk, QueueInv
<1>4. Unsettled' = Unsettled
  BY <1>0, <1>3 DEF Unsettled, Lines
<1>5. \A l : l \in Unsettled <=> l \in Lines /\ checkpoint.a <= l.seq /\ l.seq < writeSeq
  BY DEF Unsettled, Lines
<1>6. PICK S : S = {l \in Unsettled : l.seq < ackSeq'}
  OBVIOUS
<1>7. S \subseteq Unsettled \cap popped
  <2> SUFFICES ASSUME NEW l \in S PROVE l \in Unsettled /\ l \in popped
    OBVIOUS
  <2>1. l \in Unsettled /\ l.seq < ackSeq'
    BY <1>6
  <2>2. l \in Lines /\ checkpoint.a <= l.seq /\ l.seq < readSeq
    BY <1>1, <1>2, <1>5, <2>1
  <2> QED
    BY <2>1, <2>2 DEF QueueInv
<1>8. {l \in Unsettled : l.seq < ackSeq} \subseteq S
  <2> SUFFICES ASSUME NEW l \in Unsettled, l.seq < ackSeq PROVE l.seq < ackSeq'
    BY <1>6
  <2>1. l.seq \in Nat
    BY <1>1, <1>5
  <2> QED
    BY <1>1, <1>2, <2>1
<1>9. ASSUME NEW l \in S, NEW m \in Unsettled, m.seq < l.seq PROVE m \in S
  <2>1. l.seq \in Nat /\ m.seq \in Nat /\ l.seq < ackSeq'
    BY <1>1, <1>5, <1>6
  <2>2. m.seq < ackSeq'
    BY <1>2, <1>9, <2>1
  <2> QED
    BY <1>6, <2>2
<1>10. Durable!Acknowledge(S)
  <2>1. {l \in Unsettled' : l.seq < ackSeq'} = S
    BY <1>4, <1>6
  <2>2. Unsettled' \cap popped' = Unsettled \cap popped
    BY <1>0, <1>4
  <2> QED
    BY <1>4, <1>7, <1>8, <1>9, <2>1, <2>2 DEF Durable!Acknowledge
<1>11. Durable!QueueNext
  <2>1. \E T \in SUBSET (Unsettled \cap popped) : Durable!Acknowledge(T)
    BY <1>7, <1>10
  <2> QED
    BY <2>1, Zenon DEF Durable!QueueNext
<1>12. QueueInv'
  BY <1>0, <1>2, <1>3 DEF QueueInv
<1> QED
  BY <1>11, <1>12 DEF QueueKept

\* After a crash the queue is what it was, with the line of an interrupted enqueue or
\* without it.
LEMMA CrashQueue ==
  ASSUME Sound, Fsync, ~ MultiByte, IInv, QueueInv, [Next]_vars,
         NEW K, NEW cut \in Cuts, NEW G, NEW B, CrashAndOpen(K, cut, G, B)
  PROVE  QueueKept
<1>0. /\ readSeq' = checkpoint.a /\ ackSeq' = checkpoint.a /\ checkpoint' = checkpoint
      /\ popped' = {} /\ pc' = "idle"
  BY DEF CrashAndOpen, Return, Call
<1>1. /\ zst' = zst /\ buf' = {} /\ writeSeq' \in Nat
      /\ \A i \in Idx : Content(plain', zst, i) \subseteq held[i]
      /\ \A i \in Idx : \A l \in Content(plain', zst, i) : l.seq < writeSeq'
      /\ K \in SUBSET buf /\ MayCut(K, cut)
      /\ plain' = Text(With(K), cut) /\ garbled' = NotText(With(K), cut)
  BY CrashFacts
<1>2. /\ \A l \in Lines : l.seq \in Nat
      /\ checkpoint.a \in Nat /\ ackSeq \in Nat /\ readSeq \in Nat /\ writeSeq \in Nat
      /\ checkpoint.a <= ackSeq /\ ackSeq <= readSeq /\ readSeq <= writeSeq
      /\ \A l \in Lines : l.seq <= writeSeq
      /\ \A l, m \in Lines : l # m => l.seq # m.seq /\ l.id # m.id
  BY QueueFacts
<1>3. Lines' = UNION {Content(plain', zst, i) : i \in Idx}
  BY <1>1 DEF Lines, OnDisk
<1>4. Lines' \subseteq Lines
  <2>1. Lines = UNION {held[i] : i \in Idx}
    BY LinesFacts
  <2> QED
    BY <1>1, <1>3, <2>1
<1>5. OnDisk \subseteq Lines'
  <2>1. Buried' = {}
    BY NoneBuried
  <2>2. Typed /\ FileInv /\ GarbledInv
    BY DEF IInv
  <2>3. \A i \in Idx : \A l \in Content(plain, zst, i) :
          l \in Content(plain', zst', i) \/ l \in Buried'
    BY <1>1, <2>2, CutKeeps
  <2> QED
    BY <1>1, <1>3, <2>1, <2>3 DEF OnDisk
<1>6. \A l \in Lines' : l.seq < writeSeq'
  BY <1>1, <1>3
<1>7. \A l : l \in Unsettled <=> l \in Lines /\ checkpoint.a <= l.seq /\ l.seq < writeSeq
  BY DEF Unsettled, Lines
<1>8. \A l : l \in Unsettled' <=> l \in Lines' /\ checkpoint.a <= l.seq
  BY <1>0, <1>6 DEF Unsettled, Lines
<1>9. Unsettled \subseteq Lines'
  <2> SUFFICES ASSUME NEW l \in Unsettled PROVE l \in Lines'
    OBVIOUS
  <2>1. l \in OnDisk \cup buf /\ l.seq < writeSeq
    BY DEF Unsettled
  <2>2. l \notin buf
    <3>1. buf \subseteq {NewLine} /\ NewLine.seq = writeSeq
      BY DEF QueueInv, NewLine
    <3> QED
      BY <1>2, <2>1, <3>1
  <2> QED
    BY <1>5, <2>1, <2>2
<1>10. Unsettled' = Unsettled \/ Durable!Join
  <2>1. CASE \E n \in Lines' : n.seq = writeSeq
    <3>1. PICK n \in Lines' : n.seq = writeSeq
      BY <2>1
    <3>2. n \in Unsettled'
      BY <1>2, <1>8, <3>1
    <3>3. ASSUME NEW l \in Unsettled', l # n PROVE l \in Unsettled
      <4>1. l \in Lines /\ n \in Lines /\ checkpoint.a <= l.seq
        BY <1>4, <1>8, <3>1, <3>3
      <4>2. l.seq < writeSeq
        BY <1>2, <3>1, <3>3, <4>1
      <4> QED
        BY <1>7, <4>1, <4>2
    <3>4. Unsettled' = Unsettled \cup {n}
      BY <1>7, <1>8, <1>9, <3>2, <3>3
    <3>5. ASSUME NEW m \in Unsettled PROVE m.seq < n.seq /\ m.id # n.id
      <4>1. m \in Lines /\ n \in Lines /\ m.seq < writeSeq
        BY <1>4, <1>7, <3>1
      <4>2. m # n
        BY <1>2, <3>1, <4>1
      <4> QED
        BY <1>2, <3>1, <4>1, <4>2
    <3> QED
      BY <3>2, <3>4, <3>5 DEF Durable!Join
  <2>2. CASE \A n \in Lines' : n.seq # writeSeq
    <3>1. ASSUME NEW l \in Unsettled' PROVE l \in Unsettled
      <4>1. l \in Lines' /\ l \in Lines /\ checkpoint.a <= l.seq
        BY <1>4, <1>8
      <4>2. l.seq # writeSeq /\ l.seq <= writeSeq /\ l.seq \in Nat
        BY <1>2, <2>2, <4>1
      <4>3. l.seq < writeSeq
        BY <1>2, <4>2
      <4> QED
        BY <1>7, <4>1, <4>3
    <3>2. Unsettled' = Unsettled
      BY <1>7, <1>8, <1>9, <3>1
    <3> QED
      BY <3>2
  <2> QED
    BY <2>1, <2>2
<1>11. \A l \in Lines' : checkpoint.a <= l.seq => ~ (l.seq < checkpoint.a)
  BY <1>2, <1>4
<1>12. Unsettled' \cap popped' = {} /\ {l \in Unsettled' : l.seq < ackSeq'} = {}
  BY <1>0, <1>8, <1>11
<1>13. Durable!QueueNext
  BY <1>10, <1>12 DEF Durable!QueueNext, Durable!Recover
<1>14. QueueInv'
  BY <1>0, <1>1, <1>11 DEF QueueInv
<1> QED
  BY <1>13, <1>14 DEF QueueKept

\* Every step of the files is a step of the durable queue or none.
LEMMA QueueStep ==
  ASSUME Sound, Fsync, ~ MultiByte, IInv, QueueInv, [Next]_vars PROVE QueueKept
<1> USE DEF callVars, Call, Goto, Return
<1>0. /\ pc # "rewrite" /\ (pc # "sync" => buf = {})
  BY DEF QueueInv
<1>1. CASE EnqueueStart \/ GcStart \/ \E c \in BOOLEAN : CheckpointStart(c)
  <2>1. /\ pc = "idle" /\ UNCHANGED <<cursors, popped>> /\ checkpoint' = checkpoint
        /\ buf' \in {buf, {}} /\ pc' \in {"rotate", "append", "gc", "checkpoint"}
    BY <1>1 DEF EnqueueStart, GcStart, CheckpointStart, ghosts
  <2> QED
    BY <1>0, <2>1, FilesQueue
<1>2. CASE Pop
  BY <1>2, PopQueue
<1>3. CASE \E n \in 1 .. readSeq : Ack(n)
  BY <1>3, AckQueue
<1>4. CASE \E f \in BOOLEAN : CompressWrite(f) \/ CompressDone(f) \/ CompressUnlink(f)
  <2>1. /\ pc \notin {"append", "sync"} /\ UNCHANGED <<cursors, popped>>
        /\ checkpoint' = checkpoint /\ buf' = buf
        /\ pc' \in {"idle", "compressed", "unlink", "create"}
    BY <1>4 DEF CompressWrite, CompressDone, CompressUnlink, ghosts
  <2> QED
    BY <1>0, <2>1, FilesQueue
<1>5. CASE \E f \in BOOLEAN : GcEnd(f) \/ \E K \in SUBSET buf, c \in Cuts : RotateFlush(f, K, c)
  <2>1. /\ pc \notin {"append", "sync"} /\ UNCHANGED <<cursors, popped>>
        /\ checkpoint' = checkpoint /\ buf' \in {buf, {}}
        /\ pc' \in {"idle", "compress", "create"}
    BY <1>5 DEF GcEnd, RotateFlush
  <2> QED
    BY <1>0, <2>1, FilesQueue
<1>6. CASE \E f \in BOOLEAN : Checkpoint(f) \/ CheckpointWrite(f)
  <2>1. PICK f \in BOOLEAN : Checkpoint(f)
    BY <1>0, <1>6 DEF CheckpointWrite
  <2>2. /\ pc = "checkpoint" /\ UNCHANGED <<cursors, popped>> /\ buf' = buf
        /\ checkpoint' \in {checkpoint, Current} /\ pc' \in {"idle", "gc"}
    BY <2>1 DEF Checkpoint, AfterCheckpoint
  <2>3. checkpoint'.a \in {checkpoint.a, ackSeq}
    BY <2>2 DEF Current
  <2> QED
    BY <1>0, <2>2, <2>3, FilesQueue
<1>7. CASE \/ GcRemove \/ GcRemoveSibling
           \/ \E r \in {"ok", "create_err", "link_err"} : RotateCreate(r)
  <2>1. /\ pc \in {"gc", "sibling", "create"} /\ UNCHANGED <<cursors, popped>>
        /\ checkpoint' = checkpoint /\ buf' = buf
    BY <1>7 DEF GcRemove, GcRemoveSibling, RotateCreate, ghosts
  <2>2. pc' \in {"gc", "sibling", "append", "idle"}
    BY <1>7 DEF GcRemove, GcRemoveSibling, RotateCreate
  <2> QED
    BY <1>0, <2>1, <2>2, FilesQueue
<1>8. CASE AppendLine \/ \E f \in BOOLEAN : AppendSync(f)
  BY <1>8, AppendQueue
<1>9. CASE Commit
  BY <1>9, CommitQueue
<1>10. CASE \E K \in SUBSET buf, cut \in Cuts, G \in SUBSET unlinked, B \in SUBSET Idx :
              CrashAndOpen(K, cut, G, B)
  BY <1>10, CrashQueue
<1>11. CASE UNCHANGED vars
  <2>1. UNCHANGED <<plain, zst, buf, checkpoint, cursors, popped, pc, attempts>>
    BY <1>11 DEF vars, diskVars, ghosts
  <2>2. Lines' = Lines /\ OnDisk' = OnDisk /\ NewLine' = NewLine
    BY <2>1 DEF Lines, OnDisk, NewLine, cursors
  <2>3. QueueInv'
    BY <2>1, <2>2 DEF QueueInv, cursors
  <2>4. UNCHANGED Durable!queueVars
    BY <2>1, <2>2 DEF Durable!queueVars, Unsettled, cursors
  <2> QED
    BY <2>3, <2>4 DEF QueueKept
<1>12. CASE \E K \in SUBSET buf, part \in BOOLEAN : AppendFails(K, part)
  BY <1>12 DEF AppendFails, Fault, Sound, SoundFaults
<1> QED
  BY <1>1, <1>2, <1>3, <1>4, <1>5, <1>6, <1>7, <1>8, <1>9, <1>10, <1>11, <1>12
  DEF Next, CallStep

\* In fsync mode the segments, the checkpoint file and the cursors implement the
\* abstract FIFO: rotation, compression, gc, a failing call and a crash at any point
\* lose no entry that is not acknowledged, add none that was not enqueued, and hand
\* out the others in the order of their acceptance, again after every restart.  The events are
\* text of single bytes: a file that a crash has cut inside a character holds up all that
\* comes after it.
THEOREM ImplementsDurableQueueHolds ==
  ASSUME Sound, Fsync, ~ MultiByte PROVE Spec => ImplementsDurableQueue
<1>1. Init => QueueInv /\ Durable!QueueInit
  <2> SUFFICES ASSUME Init PROVE QueueInv /\ Durable!QueueInit
    OBVIOUS
  <2>1. \A i \in Idx : Content(plain, zst, i) = {}
    BY DEF Init, Content
  <2>2. OnDisk = {} /\ buf = {} /\ Lines = {} /\ popped = {} /\ pc = "idle"
    BY <2>1 DEF Init, OnDisk, Lines
  <2>3. Unsettled = {}
    BY <2>2 DEF Unsettled
  <2> QED
    BY <2>2, <2>3 DEF QueueInv, Durable!QueueInit
<1>2. IInv /\ QueueInv /\ [Next]_vars => QueueInv' /\ [Durable!QueueNext]_(Durable!queueVars)
  BY QueueStep DEF QueueKept
<1> QED
  BY <1>1, <1>2, Invariance, PTL DEF Spec, ImplementsDurableQueue, Durable!QueueSpec

-----------------------------------------------------------------------------
(* The size of the segments.  calculate_total_size and Bytes are recursive *)
(* sums; what is needed of them follows from the least index at which it   *)
(* could fail.                                                             *)

\* s are the partial sums of the numbers F.
IsSum(s, F) == \A i \in Idx : s[i] = F[i] + (IF i = 0 THEN 0 ELSE s[i - 1])

\* A sum over 0 .. N has a function of its partial sums.
LEMMA PartialSums ==
  ASSUME NEW N \in Nat, NEW F \in [0 .. N -> Nat]
  PROVE  \E g \in [0 .. N -> Nat] :
           \A i \in 0 .. N : g[i] = F[i] + (IF i = 0 THEN 0 ELSE g[i - 1])
<1> DEFINE Sums(g, n) == \A i \in 0 .. n : g[i] = F[i] + (IF i = 0 THEN 0 ELSE g[i - 1])
           Bad == {n \in 0 .. N : ~ \E g \in [0 .. n -> Nat] : Sums(g, n)}
<1>0. Bad \subseteq Nat
  OBVIOUS
<1>6. SUFFICES \E g \in [0 .. N -> Nat] : Sums(g, N)
  BY <1>6, Zenon
<1> HIDE DEF Bad, Sums
<1>1. SUFFICES ASSUME N \in Bad PROVE FALSE
  BY DEF Bad
<1>2. PICK m \in Bad : \A n \in Bad : m <= n
  BY <1>0, <1>1, LeastNat
<1>3. m \in 0 .. N /\ ~ \E g \in [0 .. m -> Nat] : Sums(g, m)
  BY <1>2 DEF Bad
<1>4. CASE m = 0
  <2>1. PICK g : g = [i \in 0 .. m |-> F[0]]
    OBVIOUS
  <2>2. g \in [0 .. m -> Nat] /\ Sums(g, m)
    BY <1>4, <2>1 DEF Sums
  <2> QED
    BY <1>3, <2>2
<1>5. CASE m # 0
  <2>1. m - 1 \in 0 .. N /\ m - 1 \notin Bad
    BY <1>2, <1>3, <1>5
  <2>2. PICK g \in [0 .. m - 1 -> Nat] : Sums(g, m - 1)
    BY <2>1 DEF Bad
  <2>3. PICK h : h = [i \in 0 .. m |-> IF i = m THEN F[m] + g[m - 1] ELSE g[i]]
    OBVIOUS
  <2>4. h[m] = F[m] + g[m - 1] /\ \A i \in 0 .. m - 1 : h[i] = g[i]
    BY <1>3, <1>5, <2>3
  <2>5. h \in [0 .. m -> Nat]
    <3>1. F[m] + g[m - 1] \in Nat
      BY <1>3, <1>5, <2>1, <2>2
    <3>2. \A i \in 0 .. m : i # m => g[i] \in Nat
      BY <1>3, <1>5, <2>2
    <3> QED
      BY <2>3, <3>1, <3>2
  <2>6. ASSUME NEW i \in 0 .. m PROVE h[i] = F[i] + (IF i = 0 THEN 0 ELSE h[i - 1])
    <3>1. CASE i = m
      <4>1. m - 1 \in 0 .. m - 1
        BY <1>3, <1>5
      <4> QED
        BY <1>5, <2>4, <3>1, <4>1
    <3>2. CASE i # m
      <4>1. i \in 0 .. m - 1 /\ (i # 0 => i - 1 \in 0 .. m - 1)
        BY <1>3, <3>2
      <4> QED
        BY <2>2, <2>4, <4>1 DEF Sums
    <3> QED
      BY <3>1, <3>2
  <2>7. Sums(h, m)
    BY <2>6 DEF Sums
  <2> QED
    BY <1>3, <2>5, <2>7
<1> QED
  BY <1>4, <1>5

\* The partial sums of some numbers exist, and are numbers.
LEMMA SumExists ==
  ASSUME NEW F \in [Idx -> Nat]
  PROVE  \E g : g = [i \in Idx |-> F[i] + (IF i = 0 THEN 0 ELSE g[i - 1])]
<1>0. MaxEvents \in Nat /\ Idx = 0 .. MaxEvents
  BY QueueAssumption DEF Idx
<1>1. PICK g \in [0 .. MaxEvents -> Nat] :
        \A i \in 0 .. MaxEvents : g[i] = F[i] + (IF i = 0 THEN 0 ELSE g[i - 1])
  BY <1>0, PartialSums
<1>2. g = [i \in Idx |-> F[i] + (IF i = 0 THEN 0 ELSE g[i - 1])]
  BY <1>0, <1>1
<1> QED
  BY <1>2

\* A function that satisfies their recursion is made of numbers.
LEMMA SumFacts ==
  ASSUME NEW F \in [Idx -> Nat],
         NEW s, s = [i \in Idx |-> F[i] + (IF i = 0 THEN 0 ELSE s[i - 1])]
  PROVE  s \in [Idx -> Nat] /\ IsSum(s, F)
<1>0. MaxEvents \in Nat /\ Idx = 0 .. MaxEvents
  BY QueueAssumption DEF Idx
<1>1. DOMAIN s = Idx /\ \A i \in Idx : s[i] = F[i] + (IF i = 0 THEN 0 ELSE s[i - 1])
  OBVIOUS
<1>2. \A i \in Idx : s[i] \in Nat
  <2> DEFINE Bad == {i \in Idx : s[i] \notin Nat}
  <2>0. Bad \subseteq Nat
    BY <1>0
  <2>1. SUFFICES ASSUME Bad # {} PROVE FALSE
    OBVIOUS
  <2> HIDE DEF Bad
  <2>2. PICK m \in Bad : \A n \in Bad : m <= n
    BY <2>0, <2>1, LeastNat
  <2>3. m \in Idx /\ s[m] \notin Nat
    BY <2>2 DEF Bad
  <2>4. F[m] \in Nat
    BY <2>3
  <2>5. m # 0 => m - 1 \in Idx /\ m - 1 \notin Bad
    BY <1>0, <2>2, <2>3
  <2>6. m # 0 => s[m - 1] \in Nat
    BY <2>5 DEF Bad
  <2> QED
    BY <1>1, <2>3, <2>4, <2>6
<1>3. s \in [Idx -> Nat]
  BY <1>2
<1> QED
  BY <1>1, <1>3 DEF IsSum

\* One number that changes changes the sum by the same amount.
LEMMA SumChange ==
  ASSUME NEW F \in [Idx -> Nat], NEW G \in [Idx -> Nat],
         NEW s \in [Idx -> Nat], NEW r \in [Idx -> Nat], IsSum(s, F), IsSum(r, G),
         NEW j \in Idx, \A i \in Idx : i # j => G[i] = F[i]
  PROVE  r[MaxEvents] + F[j] = s[MaxEvents] + G[j]
<1>0. MaxEvents \in Nat /\ Idx = 0 .. MaxEvents
  BY QueueAssumption DEF Idx
<1>1. PICK a \in Nat : a = F[j]
  OBVIOUS
<1>2. PICK b \in Nat : b = G[j]
  OBVIOUS
<1> DEFINE Good(n) == IF n < j THEN r[n] = s[n] ELSE r[n] + a = s[n] + b
           Bad == {n \in Idx : ~ Good(n)}
<1>3. Bad = {}
  <2>0. Bad \subseteq Nat
    BY <1>0
  <2>1. SUFFICES ASSUME Bad # {} PROVE FALSE
    OBVIOUS
  <2> HIDE DEF Bad
  <2>2. PICK m \in Bad : \A n \in Bad : m <= n
    BY <2>0, <2>1, LeastNat
  <2>3. m \in Idx /\ ~ Good(m)
    BY <2>2 DEF Bad
  <2>4. m \in Nat /\ j \in Nat /\ s[m] \in Nat /\ r[m] \in Nat
    BY <1>0, <2>3
  <2>5. PICK c \in Nat : c = F[m]
    BY <2>3
  <2>6. PICK d \in Nat : d = G[m]
    BY <2>3
  <2>7. (m = j => c = a /\ d = b) /\ (m # j => d = c)
    BY <1>1, <1>2, <2>3, <2>5, <2>6
  <2>8. CASE m = 0
    <3>1. s[m] = c /\ r[m] = d
      BY <2>3, <2>5, <2>6, <2>8 DEF IsSum
    <3>2. Good(m)
      BY <2>4, <2>7, <2>8, <3>1
    <3> QED
      BY <2>3, <3>2
  <2>9. CASE m # 0
    <3>1. m - 1 \in Idx /\ m - 1 \in Nat
      BY <1>0, <2>3, <2>9
    <3>2. Good(m - 1)
      <4>1. m - 1 \notin Bad
        BY <2>2, <2>4, <3>1
      <4> QED
        BY <3>1, <4>1 DEF Bad
    <3>3. s[m - 1] \in Nat /\ r[m - 1] \in Nat
      BY <3>1
    <3>4. s[m] = c + s[m - 1] /\ r[m] = d + r[m - 1]
      BY <2>3, <2>5, <2>6, <2>9 DEF IsSum
    <3>5. CASE m = j
      <4>1. r[m - 1] = s[m - 1]
        BY <2>4, <3>2, <3>5
      <4>2. r[m] + a = s[m] + b
        BY <2>7, <3>3, <3>4, <3>5, <4>1
      <4>3. Good(m)
        BY <2>4, <3>5, <4>2
      <4> QED
        BY <2>3, <4>3
    <3>6. CASE m < j
      <4>1. r[m - 1] = s[m - 1] /\ d = c
        BY <2>4, <2>7, <3>2, <3>6
      <4>2. Good(m)
        BY <3>4, <3>6, <4>1
      <4> QED
        BY <2>3, <4>2
    <3>7. CASE j < m
      <4>1. r[m - 1] + a = s[m - 1] + b /\ d = c
        BY <2>4, <2>7, <3>2, <3>7
      <4>2. r[m] + a = s[m] + b
        BY <3>3, <3>4, <4>1
      <4>3. Good(m)
        BY <2>4, <3>7, <4>2
      <4> QED
        BY <2>3, <4>3
    <3> QED
      BY <2>4, <3>5, <3>6, <3>7
  <2> QED
    BY <2>8, <2>9
<1>4. MaxEvents \in Idx /\ ~ (MaxEvents < j)
  BY <1>0
<1>5. r[MaxEvents] + a = s[MaxEvents] + b
  BY <1>3, <1>4
<1> QED
  BY <1>1, <1>2, <1>5

\* The sum of sums.
LEMMA SumAdd ==
  ASSUME NEW F \in [Idx -> Nat], NEW G \in [Idx -> Nat], NEW H \in [Idx -> Nat],
         NEW s \in [Idx -> Nat], NEW r \in [Idx -> Nat], NEW u \in [Idx -> Nat],
         IsSum(s, F), IsSum(r, G), IsSum(u, H), \A i \in Idx : H[i] = F[i] + G[i]
  PROVE  u[MaxEvents] = s[MaxEvents] + r[MaxEvents]
<1>0. MaxEvents \in Nat /\ Idx = 0 .. MaxEvents
  BY QueueAssumption DEF Idx
<1> DEFINE Bad == {n \in Idx : u[n] # s[n] + r[n]}
<1>1. Bad = {}
  <2>0. Bad \subseteq Nat
    BY <1>0
  <2>1. SUFFICES ASSUME Bad # {} PROVE FALSE
    OBVIOUS
  <2> HIDE DEF Bad
  <2>2. PICK m \in Bad : \A n \in Bad : m <= n
    BY <2>0, <2>1, LeastNat
  <2>3. m \in Idx /\ m \in Nat /\ u[m] # s[m] + r[m]
    BY <2>0, <2>2 DEF Bad
  <2>4. F[m] \in Nat /\ G[m] \in Nat /\ H[m] = F[m] + G[m]
    BY <2>3
  <2>5. CASE m = 0
    BY <2>3, <2>4, <2>5 DEF IsSum
  <2>6. CASE m # 0
    <3>1. m - 1 \in Idx /\ m - 1 \notin Bad
      BY <1>0, <2>2, <2>3, <2>6
    <3>2. u[m - 1] = s[m - 1] + r[m - 1] /\ s[m - 1] \in Nat /\ r[m - 1] \in Nat
      BY <3>1 DEF Bad
    <3>3. /\ s[m] = F[m] + s[m - 1] /\ r[m] = G[m] + r[m - 1] /\ u[m] = H[m] + u[m - 1]
      BY <2>3, <2>6 DEF IsSum
    <3> QED
      BY <2>3, <2>4, <3>2, <3>3
  <2> QED
    BY <2>5, <2>6
<1>2. MaxEvents \in Idx
  BY <1>0
<1> QED
  BY <1>1, <1>2

-----------------------------------------------------------------------------
(* The length of lines.                                                    *)

\* What each id adds to the length of some lines.
Weights(S) == [k \in Idx |-> IF \E l \in S : l.id = k THEN Width[k] ELSE 0]

\* The length of some lines is the last of the partial sums of those.
LEMMA BytesSum ==
  ASSUME NEW S \in SUBSET Line
  PROVE  /\ Weights(S) \in [Idx -> Nat]
         /\ \E s \in [Idx -> Nat] : IsSum(s, Weights(S)) /\ Bytes(S) = s[MaxEvents]
<1>1. Weights(S) \in [Idx -> Nat]
  <2>1. ASSUME NEW k \in Idx, NEW l \in S, l.id = k PROVE Width[k] \in Nat
    BY <2>1, QueueAssumption DEF Line, Ids
  <2> QED
    BY <2>1 DEF Weights
<1> DEFINE P(h) == h = [k \in Idx |-> (IF \E l \in S : l.id = k THEN Width[k] ELSE 0)
                                        + (IF k = 0 THEN 0 ELSE h[k - 1])]
<1>2. ASSUME NEW h
      PROVE  P(h) <=> h = [k \in Idx |-> Weights(S)[k] + (IF k = 0 THEN 0 ELSE h[k - 1])]
  <2>1. \A k \in Idx : Weights(S)[k] = IF \E l \in S : l.id = k THEN Width[k] ELSE 0
    BY DEF Weights
  <2> QED
    BY <2>1
<1>3. PICK s : s = CHOOSE h : P(h)
  OBVIOUS
<1>4. Bytes(S) = s[MaxEvents]
  BY <1>3 DEF Bytes
<1>5. \E h : P(h)
  <2>1. PICK h : h = [k \in Idx |-> Weights(S)[k] + (IF k = 0 THEN 0 ELSE h[k - 1])]
    BY <1>1, SumExists
  <2> HIDE DEF P
  <2> QED
    BY <1>2, <2>1
<1> HIDE DEF P
<1>6. P(s)
  BY <1>3, <1>5, Zenon
<1>7. s \in [Idx -> Nat] /\ IsSum(s, Weights(S))
  BY <1>1, <1>2, <1>6, SumFacts
<1> QED
  BY <1>1, <1>4, <1>7

\* Lines of different events are as long together as the sum of their lengths.
LEMMA BytesUnion ==
  ASSUME NEW S \in SUBSET Line, NEW T \in SUBSET Line, \A l \in S, m \in T : l.id # m.id
  PROVE  /\ Bytes(S) \in Nat /\ Bytes(T) \in Nat
         /\ Bytes(S \cup T) = Bytes(S) + Bytes(T)
<1>0. MaxEvents \in Idx
  BY QueueAssumption DEF Idx
<1>1. PICK s \in [Idx -> Nat] : IsSum(s, Weights(S)) /\ Bytes(S) = s[MaxEvents]
  BY BytesSum
<1>2. PICK r \in [Idx -> Nat] : IsSum(r, Weights(T)) /\ Bytes(T) = r[MaxEvents]
  BY BytesSum
<1>3. S \cup T \in SUBSET Line
  OBVIOUS
<1>4. PICK u \in [Idx -> Nat] : IsSum(u, Weights(S \cup T)) /\ Bytes(S \cup T) = u[MaxEvents]
  BY <1>3, BytesSum
<1>5. /\ Weights(S) \in [Idx -> Nat] /\ Weights(T) \in [Idx -> Nat]
      /\ Weights(S \cup T) \in [Idx -> Nat]
  BY <1>3, BytesSum
<1>6. ASSUME NEW k \in Idx PROVE Weights(S \cup T)[k] = Weights(S)[k] + Weights(T)[k]
  <2>1. /\ Weights(S)[k] = IF \E l \in S : l.id = k THEN Width[k] ELSE 0
        /\ Weights(T)[k] = IF \E l \in T : l.id = k THEN Width[k] ELSE 0
        /\ Weights(S \cup T)[k] = IF \E l \in S \cup T : l.id = k THEN Width[k] ELSE 0
    BY DEF Weights
  <2>2. Weights(S)[k] \in Nat /\ Weights(T)[k] \in Nat
    BY <1>5
  <2>3. CASE \E l \in S : l.id = k
    <3>1. ~ \E m \in T : m.id = k
      BY <2>3
    <3> QED
      BY <2>1, <2>2, <2>3, <3>1
  <2>4. CASE ~ \E l \in S : l.id = k
    BY <2>1, <2>2, <2>4
  <2> QED
    BY <2>3, <2>4
<1>7. u[MaxEvents] = s[MaxEvents] + r[MaxEvents]
  <2> DEFINE F == Weights(S)
             G == Weights(T)
             H == Weights(S \cup T)
  <2>1. /\ F \in [Idx -> Nat] /\ G \in [Idx -> Nat] /\ H \in [Idx -> Nat]
        /\ IsSum(s, F) /\ IsSum(r, G) /\ IsSum(u, H) /\ \A i \in Idx : H[i] = F[i] + G[i]
    BY <1>1, <1>2, <1>4, <1>5, <1>6
  <2> HIDE DEF F, G, H
  <2> QED
    BY <2>1, SumAdd
<1> QED
  BY <1>0, <1>1, <1>2, <1>4, <1>7

\* No lines take no room, and a line that is not there yet adds its length.
LEMMA BytesAdd ==
  /\ Bytes({}) = 0
  /\ \A S \in SUBSET Line, l \in Line :
       (\A m \in S : m.id # l.id) => Bytes(S \cup {l}) = Bytes(S) + Width[l.id]
<1>1. Bytes({}) = 0
  <2>1. PICK e : e = {}
    OBVIOUS
  <2>2. Bytes(e) \in Nat /\ Bytes(e \cup e) = Bytes(e) + Bytes(e)
    BY <2>1, BytesUnion
  <2>3. e \cup e = e
    BY <2>1
  <2>4. Bytes(e \cup e) = Bytes(e)
    BY <2>3
  <2>5. Bytes(e) = 0
    <3>1. PICK n \in Nat : n = Bytes(e)
      BY <2>2
    <3>2. n = n + n
      BY <2>2, <2>4, <3>1
    <3>3. n = 0
      BY <3>2
    <3> QED
      BY <3>1, <3>3
  <2> QED
    BY <2>1, <2>5
<1>2. ASSUME NEW S \in SUBSET Line, NEW l \in Line, \A m \in S : m.id # l.id
      PROVE  Bytes(S \cup {l}) = Bytes(S) + Width[l.id]
  <2>1. S \cup {l} \in SUBSET Line /\ l.id \in Idx
    BY QueueAssumption DEF Line, Ids, Idx
  <2>2. PICK s \in [Idx -> Nat] : IsSum(s, Weights(S)) /\ Bytes(S) = s[MaxEvents]
    BY BytesSum
  <2>3. PICK r \in [Idx -> Nat] : IsSum(r, Weights(S \cup {l})) /\ Bytes(S \cup {l}) = r[MaxEvents]
    BY <2>1, BytesSum
  <2>4. Weights(S) \in [Idx -> Nat] /\ Weights(S \cup {l}) \in [Idx -> Nat]
    BY <2>1, BytesSum
  <2>5. \A k \in Idx : k # l.id => Weights(S \cup {l})[k] = Weights(S)[k]
    BY DEF Weights
  <2>6. Weights(S)[l.id] = 0 /\ Weights(S \cup {l})[l.id] = Width[l.id]
    BY <1>2, <2>1 DEF Weights
  <2>7. r[MaxEvents] + Weights(S)[l.id] = s[MaxEvents] + Weights(S \cup {l})[l.id]
    <3> DEFINE F == Weights(S)
               G == Weights(S \cup {l})
               j == l.id
    <3>1. /\ F \in [Idx -> Nat] /\ G \in [Idx -> Nat] /\ IsSum(s, F) /\ IsSum(r, G)
          /\ j \in Idx /\ \A i \in Idx : i # j => G[i] = F[i]
      BY <2>1, <2>2, <2>3, <2>4, <2>5
    <3> HIDE DEF F, G, j
    <3>2. r[MaxEvents] + F[j] = s[MaxEvents] + G[j]
      BY <3>1, SumChange
    <3> QED
      BY <3>2 DEF F, G, j
  <2>8. MaxEvents \in Idx
    BY QueueAssumption DEF Idx
  <2>9. r[MaxEvents] \in Nat
    BY <2>8
  <2> QED
    BY <2>2, <2>3, <2>6, <2>7, <2>9
<1> QED
  BY <1>1, <1>2

\* A line has a byte at least.
LEMMA BytesPositive ==
  ASSUME NEW S \in SUBSET Line, S # {} PROVE Bytes(S) \in Nat \ {0}
<1>1. PICK l \in S : TRUE
  OBVIOUS
<1>2. PICK T : T = {m \in S : m.id # l.id}
  OBVIOUS
<1>3. T \in SUBSET Line /\ T \cup {l} \in SUBSET Line /\ l \in Line
  BY <1>2
<1>4. Width[l.id] \in Nat \ {0}
  BY <1>3, QueueAssumption DEF Line
<1>5. PICK s \in [Idx -> Nat] : IsSum(s, Weights(S)) /\ Bytes(S) = s[MaxEvents]
  BY BytesSum
<1>6. PICK r \in [Idx -> Nat] : IsSum(r, Weights(T)) /\ Bytes(T) = r[MaxEvents]
  BY <1>3, BytesSum
<1>7. Weights(S) \in [Idx -> Nat] /\ Weights(T) \in [Idx -> Nat] /\ l.id \in Idx
  <2>1. l.id \in Idx
    BY <1>3, QueueAssumption DEF Line, Ids, Idx
  <2> QED
    BY <1>3, <2>1, BytesSum
<1>8. \A k \in Idx : k # l.id => Weights(S)[k] = Weights(T)[k]
  <2>1. ASSUME NEW k \in Idx, k # l.id
        PROVE  (\E m \in S : m.id = k) <=> (\E m \in T : m.id = k)
    BY <1>2, <2>1
  <2> QED
    BY <2>1 DEF Weights
<1>9. Weights(T)[l.id] = 0 /\ Weights(S)[l.id] = Width[l.id]
  BY <1>2, <1>7 DEF Weights
<1>10. s[MaxEvents] + Weights(T)[l.id] = r[MaxEvents] + Weights(S)[l.id]
  <2> DEFINE F == Weights(T)
             G == Weights(S)
             j == l.id
  <2>1. /\ F \in [Idx -> Nat] /\ G \in [Idx -> Nat] /\ IsSum(r, F) /\ IsSum(s, G)
        /\ j \in Idx /\ \A i \in Idx : i # j => G[i] = F[i]
    BY <1>5, <1>6, <1>7, <1>8
  <2> HIDE DEF F, G, j
  <2>2. s[MaxEvents] + F[j] = r[MaxEvents] + G[j]
    BY <2>1, SumChange
  <2> QED
    BY <2>2 DEF F, G, j
<1>11. s[MaxEvents] \in Nat /\ r[MaxEvents] \in Nat
  BY QueueAssumption DEF Idx
<1> QED
  BY <1>4, <1>5, <1>9, <1>10, <1>11

-----------------------------------------------------------------------------
(* The length of files.                                                    *)

\* The files are made of lines.
Files(p, g) ==
  /\ p \in [Idx -> {None} \cup SUBSET Line] /\ g \in [Idx -> {None} \cup SUBSET Line]
  /\ \A i \in Idx : g[i] # None => p[i] = None

Sizes(p, z, t, g) == [i \in Idx |-> FileSize(p, z, t, g, i)]

\* The size of one file in each of its forms.
LEMMA FileSizeIs ==
  ASSUME NEW p, NEW z, NEW t, NEW g, Files(p, g), NEW i \in Idx
  PROVE  /\ g[i] # None => /\ Bytes(g[i]) \in Nat
                           /\ FileSize(p, z, t, g, i) = Bytes(g[i]) + 1
         /\ p[i] # None => /\ Bytes(p[i]) \in Nat
                           /\ p[i] # {} => 1 <= Bytes(p[i])
                           /\ FileSize(p, z, t, g, i)
                                = Bytes(p[i]) + (IF i \in t THEN 1 ELSE 0)
         /\ p[i] = None /\ g[i] = None => FileSize(p, z, t, g, i) = IF z[i] # None THEN 1 ELSE 0
         /\ FileSize(p, z, t, g, i) \in Nat
<1>1. Cardinality({i} \cap t) = IF i \in t THEN 1 ELSE 0
  <2>1. CASE i \in t
    <3>1. {i} \cap t = {i}
      BY <2>1
    <3> QED
      BY <2>1, <3>1, FS_Singleton
  <2>2. CASE i \notin t
    <3>1. {i} \cap t = {}
      BY <2>2
    <3> QED
      BY <2>2, <3>1, FS_EmptySet
  <2> QED
    BY <2>1, <2>2
<1>2. p[i] # None => p[i] \in SUBSET Line /\ g[i] = None
  BY DEF Files
<1>3. g[i] # None => g[i] \in SUBSET Line
  BY DEF Files
<1>4. p[i] # None => Bytes(p[i]) \in Nat /\ (p[i] # {} => 1 <= Bytes(p[i]))
  <2>1. CASE p[i] = {}
    BY <2>1, BytesAdd
  <2>2. CASE p[i] # None /\ p[i] # {}
    <3>1. Bytes(p[i]) \in Nat \ {0}
      BY <1>2, <2>2, BytesPositive
    <3> QED
      BY <3>1
  <2> QED
    BY <2>1, <2>2
<1>5. g[i] # None => Bytes(g[i]) \in Nat
  <2>1. CASE g[i] = {}
    BY <2>1, BytesAdd
  <2>2. CASE g[i] # None /\ g[i] # {}
    BY <1>3, <2>2, BytesPositive
  <2> QED
    BY <2>1, <2>2
<1>6. p[i] # None => FileSize(p, z, t, g, i) = Bytes(p[i]) + (IF i \in t THEN 1 ELSE 0)
  BY <1>1, <1>2 DEF FileSize
<1>7. p[i] = None /\ g[i] = None => FileSize(p, z, t, g, i) = IF z[i] # None THEN 1 ELSE 0
  BY DEF FileSize
<1>8. g[i] # None => FileSize(p, z, t, g, i) = Bytes(g[i]) + 1
  BY DEF FileSize
<1>9. FileSize(p, z, t, g, i) \in Nat
  BY <1>4, <1>5, <1>6, <1>7, <1>8
<1> QED
  BY <1>4, <1>5, <1>6, <1>7, <1>8, <1>9

\* The partial sums that calculate_total_size goes through.
LEMMA SizesSum ==
  ASSUME NEW p, NEW z, NEW t, NEW g, Files(p, g)
  PROVE  /\ Sizes(p, z, t, g) \in [Idx -> Nat]
         /\ \E s \in [Idx -> Nat] : /\ IsSum(s, Sizes(p, z, t, g))
                                    /\ calculate_total_size(p, z, t, g) = s[MaxEvents]
         /\ calculate_total_size(p, z, t, g) \in Nat
<1>1. Sizes(p, z, t, g) \in [Idx -> Nat]
  BY FileSizeIs DEF Sizes
<1> DEFINE P(h) == h = [i \in Idx |-> FileSize(p, z, t, g, i) + (IF i = 0 THEN 0 ELSE h[i - 1])]
<1>2. ASSUME NEW h
      PROVE  P(h) <=> h = [i \in Idx |-> Sizes(p, z, t, g)[i] + (IF i = 0 THEN 0 ELSE h[i - 1])]
  <2>1. \A i \in Idx : Sizes(p, z, t, g)[i] = FileSize(p, z, t, g, i)
    BY DEF Sizes
  <2> QED
    BY <2>1
<1>3. PICK s : s = CHOOSE h : P(h)
  OBVIOUS
<1>4. calculate_total_size(p, z, t, g) = s[MaxEvents]
  BY <1>3 DEF calculate_total_size, SizesUpTo
<1>5. \E h : P(h)
  <2>1. PICK h : h = [i \in Idx |-> Sizes(p, z, t, g)[i] + (IF i = 0 THEN 0 ELSE h[i - 1])]
    BY <1>1, SumExists
  <2> HIDE DEF P
  <2> QED
    BY <1>2, <2>1
<1> HIDE DEF P
<1>6. P(s)
  BY <1>3, <1>5, Zenon
<1>7. s \in [Idx -> Nat] /\ IsSum(s, Sizes(p, z, t, g))
  BY <1>1, <1>2, <1>6, SumFacts
<1>8. MaxEvents \in Idx
  BY QueueAssumption DEF Idx
<1> QED
  BY <1>1, <1>4, <1>7, <1>8

\* One file that changes its size changes the total by the same amount.
LEMMA SizeChange ==
  ASSUME NEW p, NEW z, NEW t, NEW g, NEW q, NEW y, NEW u, NEW h, NEW j \in Idx,
         Files(p, g), Files(q, h),
         \A i \in Idx : i # j => FileSize(q, y, u, h, i) = FileSize(p, z, t, g, i)
  PROVE  calculate_total_size(q, y, u, h) + FileSize(p, z, t, g, j)
           = calculate_total_size(p, z, t, g) + FileSize(q, y, u, h, j)
<1>1. PICK s \in [Idx -> Nat] : /\ IsSum(s, Sizes(p, z, t, g))
                                /\ calculate_total_size(p, z, t, g) = s[MaxEvents]
  BY SizesSum
<1>2. PICK r \in [Idx -> Nat] : /\ IsSum(r, Sizes(q, y, u, h))
                                /\ calculate_total_size(q, y, u, h) = r[MaxEvents]
  BY SizesSum
<1>3. /\ Sizes(p, z, t, g) \in [Idx -> Nat] /\ Sizes(q, y, u, h) \in [Idx -> Nat]
      /\ \A i \in Idx : i # j => Sizes(q, y, u, h)[i] = Sizes(p, z, t, g)[i]
  BY SizesSum DEF Sizes
<1>4. r[MaxEvents] + Sizes(p, z, t, g)[j] = s[MaxEvents] + Sizes(q, y, u, h)[j]
  BY <1>1, <1>2, <1>3, SumChange
<1> QED
  BY <1>1, <1>2, <1>4 DEF Sizes

\* When one file shrinks or stays as long as it is, so does the total.
LEMMA SizeLess ==
  ASSUME NEW p, NEW z, NEW t, NEW g, NEW q, NEW y, NEW u, NEW h, NEW j \in Idx,
         Files(p, g), Files(q, h),
         \A i \in Idx : i # j => FileSize(q, y, u, h, i) = FileSize(p, z, t, g, i),
         FileSize(q, y, u, h, j) <= FileSize(p, z, t, g, j)
  PROVE  /\ calculate_total_size(q, y, u, h) <= calculate_total_size(p, z, t, g)
         /\ FileSize(q, y, u, h, j) = FileSize(p, z, t, g, j) =>
              calculate_total_size(q, y, u, h) = calculate_total_size(p, z, t, g)
<1>1. PICK a \in Nat : a = calculate_total_size(p, z, t, g)
  BY SizesSum
<1>2. PICK b \in Nat : b = calculate_total_size(q, y, u, h)
  BY SizesSum
<1>3. PICK c \in Nat : c = FileSize(p, z, t, g, j)
  BY FileSizeIs
<1>4. PICK d \in Nat : d = FileSize(q, y, u, h, j)
  BY FileSizeIs
<1>5. b + c = a + d
  BY <1>1, <1>2, <1>3, <1>4, SizeChange
<1>6. b <= a /\ (d = c => b = a)
  BY <1>3, <1>4, <1>5
<1> QED
  BY <1>1, <1>2, <1>3, <1>4, <1>6

-----------------------------------------------------------------------------
(* What keeps total_bytes at or above what the files take.  A failing      *)
(* writeln! leaves a part of a line that total_bytes does not count.       *)

SpaceFaults == "append" \notin FaultPoints

Compressing == {"compress", "compressed", "unlink"}

\* A torn file exists, and is not the one that is being written or compressed.
TornInv ==
  /\ torn \subseteq Idx /\ faults \in Nat
  /\ \A i \in torn : plain[i] # None
  /\ current \/ pc \in Compressing => segmentIndex \notin torn

\* The lines that are buffered are not in the file, and no empty file is compressed:
\* compression would make it longer.
FilledInv ==
  /\ current => buf \cap plain[segmentIndex] = {}
  /\ current /\ pc # "append" => plain[segmentIndex] # {} \/ buf # {}
  /\ pc \in Compressing => plain[segmentIndex] # {}
  /\ \A i \in Idx : plain[i] # None /\ zst[i] # None => plain[i] # {}

\* The steps after which total_bytes is recomputed.
Recomputing == {"create", "gc", "sibling"}

\* total_bytes is within a line of the limit, never below what is used, and exact
\* unless a call failed or the recomputation is still to come.
SizeInv ==
  /\ totalBytes \in Nat /\ Used <= totalBytes /\ totalBytes < MaxBytes + LongestLine
  /\ pc \in Before => totalBytes < MaxBytes
  /\ faults = 0 /\ pc \notin Recomputing => Used = totalBytes

SpaceInv == TornInv /\ FilledInv /\ SizeInv

\* The sizes of the state are numbers.
LEMMA UsedFacts ==
  ASSUME Typed, GarbledInv
  PROVE  /\ Files(plain, garbled)
         /\ calculate_total_size(plain, zst, torn, garbled) \in Nat
         /\ Bytes(buf) \in Nat /\ Used \in Nat
<1>1. Files(plain, garbled)
  BY DEF Files, Typed, GarbledInv
<1>2. calculate_total_size(plain, zst, torn, garbled) \in Nat
  BY <1>1, SizesSum
<1>3. Bytes(buf) \in Nat
  <2>1. CASE buf = {}
    BY <2>1, BytesAdd
  <2>2. CASE buf # {}
    BY <2>2, BytesPositive DEF Typed
  <2> QED
    BY <2>1, <2>2
<1> QED
  BY <1>1, <1>2, <1>3 DEF Used

\* Lines that move from the buffer to the file move their length along; a part of a
\* line counts for one, and one that is left behind for no less.
LEMMA FlushSize ==
  ASSUME Sound, Typed, FileInv, GarbledInv, OrderInv, TornInv, FilledInv, current,
         NEW K \in SUBSET buf, NEW c \in Cuts, MayCut(K, c),
         NEW q, q = Text(With(K), c), NEW h, h = NotText(With(K), c), NEW u, u = Torn(c)
  PROVE  /\ Files(q, h)
         /\ calculate_total_size(q, zst, u, h)
              = calculate_total_size(plain, zst, torn, garbled) + Bytes(K)
                  + (IF c = "whole" THEN 0 ELSE 1)
         /\ Bytes(K) \in Nat /\ Bytes(K) + (IF c = "whole" THEN 0 ELSE 1) <= Bytes(buf)
<1>1. /\ segmentIndex \in Idx /\ segmentIndex \notin torn
      /\ plain[segmentIndex] # None /\ plain[segmentIndex] \in SUBSET Line
      /\ garbled[segmentIndex] = None
  BY DEF Typed, FileInv, TornInv, GarbledInv
<1>2. /\ q \in [Idx -> {None} \cup SUBSET Line] /\ h \in [Idx -> {None} \cup SUBSET Line]
      /\ \A i \in Idx : i # segmentIndex => q[i] = plain[i] /\ h[i] = garbled[i]
      /\ c # "garbled" => q[segmentIndex] = plain[segmentIndex] \cup K /\ h[segmentIndex] = None
      /\ c = "garbled" => K # buf /\ q[segmentIndex] = None
                          /\ h[segmentIndex] = plain[segmentIndex] \cup K
      /\ plain[segmentIndex] \cup K # None
  BY CutFacts
<1>3. Files(q, h) /\ Files(plain, garbled)
  <2>1. Files(plain, garbled)
    BY UsedFacts
  <2>2. \A i \in Idx : h[i] # None => q[i] = None
    BY <1>2, <2>1 DEF Files
  <2> QED
    BY <1>2, <2>1, <2>2 DEF Files
<1>4. buf \subseteq Lines /\ plain[segmentIndex] \subseteq Lines /\ buf \in SUBSET Line
  <2>1. Content(plain, zst, segmentIndex) = plain[segmentIndex]
    BY <1>1 DEF Content
  <2> QED
    BY <1>1, <2>1 DEF Lines, OnDisk, Typed
<1>5. ASSUME NEW l \in Lines, NEW m \in Lines, l # m PROVE l.id # m.id
  <2>1. Lines \subseteq Line
    <3>1. \A i \in Idx : Content(plain, zst, i) \subseteq Line
      BY ContentFacts DEF Typed
    <3> QED
      BY <1>4, <3>1 DEF Lines, OnDisk
  <2>2. l.id \in Nat /\ m.id \in Nat
    BY <2>1 DEF Line, Ids
  <2> QED
    BY <1>5, <2>2 DEF OrderInv
<1>6. /\ Bytes(K) \in Nat /\ Bytes(plain[segmentIndex]) \in Nat
      /\ Bytes(plain[segmentIndex] \cup K) = Bytes(plain[segmentIndex]) + Bytes(K)
  <2>1. K \in SUBSET Line
    BY <1>4
  <2>2. \A l \in plain[segmentIndex], m \in K : l.id # m.id
    BY <1>4, <1>5 DEF FilledInv
  <2> QED
    BY <1>1, <2>1, <2>2, BytesUnion
<1>7. Bytes(K) + (IF c = "whole" THEN 0 ELSE 1) <= Bytes(buf)
  <2>1. PICK R : R = buf \ K
    OBVIOUS
  <2>2. K \in SUBSET Line /\ R \in SUBSET Line /\ K \cup R = buf
    BY <1>4, <2>1
  <2>3. \A l \in K, m \in R : l.id # m.id
    BY <1>4, <1>5, <2>1
  <2>4. Bytes(R) \in Nat /\ Bytes(K \cup R) = Bytes(K) + Bytes(R)
    BY <2>2, <2>3, BytesUnion
  <2>5. c # "whole" => 1 <= Bytes(R)
    <3>1. SUFFICES ASSUME c # "whole" PROVE 1 <= Bytes(R)
      OBVIOUS
    <3>2. R # {}
      BY <2>1, <3>1 DEF MayCut
    <3>3. Bytes(R) \in Nat \ {0}
      BY <2>2, <3>2, BytesPositive
    <3> QED
      BY <3>3
  <2>6. Bytes(buf) = Bytes(K) + Bytes(R)
    BY <2>2, <2>4
  <2> QED
    BY <1>6, <2>4, <2>5, <2>6
<1>8. \A i \in Idx : i # segmentIndex =>
        FileSize(q, zst, u, h, i) = FileSize(plain, zst, torn, garbled, i)
  <2>1. ASSUME NEW i \in Idx, i # segmentIndex
        PROVE  q[i] = plain[i] /\ h[i] = garbled[i] /\ {i} \cap u = {i} \cap torn
    BY <1>2, <2>1 DEF Torn
  <2> QED
    BY <2>1 DEF FileSize
<1>9. FileSize(plain, zst, torn, garbled, segmentIndex) = Bytes(plain[segmentIndex])
  <2>1. \A i \in Idx : plain[i] # None =>
          FileSize(plain, zst, torn, garbled, i) = Bytes(plain[i]) + (IF i \in torn THEN 1 ELSE 0)
    BY <1>3, FileSizeIs
  <2> QED
    BY <1>1, <1>6, <2>1
<1>10. \A i \in Idx :
         /\ h[i] # None => FileSize(q, zst, u, h, i) = Bytes(h[i]) + 1
         /\ q[i] # None => FileSize(q, zst, u, h, i) = Bytes(q[i]) + (IF i \in u THEN 1 ELSE 0)
  <2>1. ASSUME NEW i \in Idx, h[i] # None PROVE FileSize(q, zst, u, h, i) = Bytes(h[i]) + 1
    BY <2>1 DEF FileSize
  <2>2. \A i \in Idx : q[i] # None =>
          FileSize(q, zst, u, h, i) = Bytes(q[i]) + (IF i \in u THEN 1 ELSE 0)
    BY <1>3, FileSizeIs
  <2> QED
    BY <2>1, <2>2
<1>11. FileSize(q, zst, u, h, segmentIndex)
         = Bytes(plain[segmentIndex]) + Bytes(K) + (IF c = "whole" THEN 0 ELSE 1)
  <2>1. CASE c = "garbled"
    <3>1. h[segmentIndex] # None /\ h[segmentIndex] = plain[segmentIndex] \cup K
      BY <1>2, <2>1
    <3>2. FileSize(q, zst, u, h, segmentIndex) = Bytes(h[segmentIndex]) + 1
      BY <1>1, <1>10, <3>1
    <3> QED
      BY <1>6, <2>1, <3>1, <3>2
  <2>2. CASE c # "garbled"
    <3>1. q[segmentIndex] # None /\ q[segmentIndex] = plain[segmentIndex] \cup K
      BY <1>2, <2>2
    <3>2. FileSize(q, zst, u, h, segmentIndex)
            = Bytes(q[segmentIndex]) + (IF segmentIndex \in u THEN 1 ELSE 0)
      BY <1>1, <1>10, <3>1
    <3>3. segmentIndex \in u <=> c = "part"
      BY <1>1 DEF Torn
    <3>4. (IF segmentIndex \in u THEN 1 ELSE 0) = (IF c = "whole" THEN 0 ELSE 1)
      BY <2>2, <3>3 DEF Cuts
    <3> QED
      BY <1>6, <3>1, <3>2, <3>4
  <2> QED
    BY <2>1, <2>2
<1>12. calculate_total_size(q, zst, u, h)
         = calculate_total_size(plain, zst, torn, garbled) + Bytes(K)
             + (IF c = "whole" THEN 0 ELSE 1)
  <2>1. PICK a \in Nat : a = calculate_total_size(plain, zst, torn, garbled)
    BY UsedFacts
  <2>2. PICK b \in Nat : b = calculate_total_size(q, zst, u, h)
    BY <1>3, SizesSum
  <2>3. PICK k \in Nat : k = Bytes(K)
    BY <1>6
  <2>4. PICK d \in Nat : d = Bytes(plain[segmentIndex])
    BY <1>6
  <2>5. PICK e \in Nat : e = IF c = "whole" THEN 0 ELSE 1
    OBVIOUS
  <2>6. calculate_total_size(q, zst, u, h) + FileSize(plain, zst, torn, garbled, segmentIndex)
          = calculate_total_size(plain, zst, torn, garbled) + FileSize(q, zst, u, h, segmentIndex)
    BY <1>1, <1>3, <1>8, SizeChange
  <2>7. b + d = a + (d + k + e)
    BY <1>9, <1>11, <2>1, <2>2, <2>3, <2>4, <2>5, <2>6
  <2>8. b = a + k + e
    BY <2>7
  <2> QED
    BY <2>1, <2>2, <2>3, <2>5, <2>8
<1> QED
  BY <1>3, <1>6, <1>7, <1>12

\* What a flush leaves in the files.
LEMMA FlushedIs ==
  ASSUME plain' = Flushed, UNCHANGED <<garbled, torn>>
  PROVE  /\ plain' = Text(With(buf), "whole") /\ garbled' = NotText(With(buf), "whole")
         /\ torn' = Torn("whole") /\ "whole" \in Cuts /\ MayCut(buf, "whole")
BY DEF Flushed, Text, NotText, Torn, Cuts, MayCut

\* A crash does to the files what the loss of the writer does.
LEMMA CrashedIs ==
  ASSUME Sound, IInv, NEW K, NEW cut \in Cuts, NEW G, NEW B, CrashAndOpen(K, cut, G, B)
  PROVE  /\ K \in SUBSET buf /\ MayCut(K, cut) /\ plain' = Text(With(K), cut)
         /\ garbled' = NotText(With(K), cut) /\ torn' = Torn(cut)
         /\ zst' = zst /\ buf' = {} /\ current' = FALSE /\ pc' = "idle"
         /\ totalBytes' = calculate_total_size(plain', zst, torn', garbled')
         /\ faults' = faults
<1>1. FileInv /\ segmentIndex \in Idx /\ plain \in [Idx -> {None} \cup SUBSET Line]
      /\ garbled \in [Idx -> {None} \cup SUBSET Line]
  BY DEF IInv, Typed, GarbledInv
<1>2. G = {} /\ B = {}
  BY <1>1 DEF CrashAndOpen, FileInv, Fault, Sound, SoundFaults
<1>3. torn' = Torn(cut)
  BY <1>2 DEF CrashAndOpen
<1>4. /\ K \in SUBSET buf /\ MayCut(K, cut) /\ plain' = Text(With(K), cut)
      /\ garbled' = NotText(With(K), cut) /\ zst' = zst /\ buf' = {} /\ current' = FALSE
  BY CrashFacts
<1>5. pc' = "idle" /\ faults' = faults
  BY <1>2 DEF CrashAndOpen, Return, Call
<1>6. totalBytes' = calculate_total_size(plain', zst, torn', garbled')
  BY DEF CrashAndOpen
<1> QED
  BY <1>3, <1>4, <1>5, <1>6

\* Every step keeps torn files apart and empty files uncompressed.
LEMMA FilledStep ==
  ASSUME Sound, SpaceFaults, IInv, TornInv, FilledInv, [Next]_vars
  PROVE  TornInv' /\ FilledInv'
<1> USE DEF diskVars, cursors, writerVars, callVars, ghosts, Call, Goto, Return
<1>0. /\ Typed /\ FileInv /\ GarbledInv /\ OrderInv /\ Typed' /\ FileInv'
      /\ segmentIndex \in Idx /\ faults \in Nat
  BY FileStep DEF IInv, Typed, TornInv
<1>f. ASSUME NEW point, Fault(point) PROVE faults' \in Nat
  BY <1>0, <1>f DEF Fault
\* The files stay as they are.
<1>1. ASSUME UNCHANGED <<plain, zst, torn, buf, current, segmentIndex>>, faults' \in Nat,
             pc' \in Compressing => pc' = pc, pc = "append" => pc' = "append"
      PROVE  TornInv' /\ FilledInv'
  <2>1. TornInv'
    BY <1>1 DEF TornInv
  <2>2. FilledInv'
    BY <1>1 DEF FilledInv
  <2> QED
    BY <2>1, <2>2
\* The buffer goes to the file, and the writer may be dropped.
<1>2. ASSUME NEW K \in SUBSET buf, NEW c \in Cuts, MayCut(K, c), plain' = Text(With(K), c),
             garbled' = NotText(With(K), c), torn' = Torn(c), buf' = {}, zst' = zst,
             faults' \in Nat,
             \/ current' = FALSE /\ pc' \notin Compressing
             \/ /\ K = buf /\ segmentIndex' = segmentIndex /\ pc # "append"
                /\ current' \in {current, FALSE} /\ pc' \notin Compressing
             \/ /\ K = buf /\ segmentIndex' = segmentIndex /\ pc # "append"
                /\ current /\ current' = FALSE
      PROVE  TornInv' /\ FilledInv'
  <2>1. /\ \A i \in Idx : ~ (current /\ i = segmentIndex) => plain'[i] = plain[i]
        /\ current => plain[segmentIndex] # None /\ zst[segmentIndex] = None
        /\ current /\ c # "garbled" => plain'[segmentIndex] = plain[segmentIndex] \cup K
        /\ current => plain[segmentIndex] \cup K # None
        /\ ~ current => K = {} /\ c = "whole"
    BY <1>0, <1>2, CutFacts
  <2>2. K = buf => c = "whole"
    BY <1>2 DEF MayCut
  <2>3. current => segmentIndex \notin torn
    BY DEF TornInv
  <2>4. ASSUME NEW i \in torn' PROVE i \in Idx /\ plain'[i] # None
    <3>1. CASE i \in torn
      <4>1. i \in Idx /\ plain[i] # None /\ ~ (current /\ i = segmentIndex)
        BY <2>3, <3>1 DEF TornInv
      <4> QED
        BY <2>1, <4>1
    <3>2. CASE i \notin torn
      <4>1. c = "part" /\ i = segmentIndex /\ current
        BY <1>2, <2>4, <3>2 DEF Torn, MayCut
      <4> QED
        BY <1>0, <2>1, <4>1
    <3> QED
      BY <3>1, <3>2
  <2>5. current' \/ pc' \in Compressing =>
          /\ current /\ K = buf /\ c = "whole" /\ segmentIndex' = segmentIndex
          /\ pc # "append"
    BY <1>2, <2>2
  <2>6. c = "whole" => torn' = torn
    BY <1>2 DEF Torn
  <2>7. TornInv'
    BY <1>2, <2>3, <2>4, <2>5, <2>6 DEF TornInv
  <2>8. current /\ K = buf /\ pc # "append" => plain'[segmentIndex] # {}
    BY <1>2, <2>1, <2>2 DEF FilledInv
  <2>9. ASSUME NEW i \in Idx, plain'[i] # None, zst'[i] # None PROVE plain'[i] # {}
    <3>1. ~ (current /\ i = segmentIndex) /\ zst[i] # None
      BY <1>2, <2>1, <2>9
    <3>2. plain'[i] = plain[i]
      BY <2>1, <3>1
    <3> QED
      BY <2>9, <3>1, <3>2 DEF FilledInv
  <2>10. /\ current' => buf' \cap plain'[segmentIndex'] = {}
         /\ current' \/ pc' \in Compressing => plain'[segmentIndex'] # {}
    BY <1>2, <2>5, <2>8
  <2> QED
    BY <2>7, <2>9, <2>10 DEF FilledInv
\* One file goes, the other form of it with or after it.
<1>3. ASSUME NEW i \in Idx, ~ (current /\ i = segmentIndex), i \notin torn,
             UNCHANGED <<torn, buf, current, segmentIndex>>, faults' \in Nat,
             pc' \notin Compressing, pc # "append",
             plain' \in {plain, [plain EXCEPT ![i] = None]},
             zst' \in {zst, [zst EXCEPT ![i] = None]}
      PROVE  TornInv' /\ FilledInv'
  <2>1. /\ plain'[i] \in {plain[i], None} /\ zst'[i] \in {zst[i], None}
        /\ \A j \in Idx : j # i => plain'[j] = plain[j] /\ zst'[j] = zst[j]
    BY <1>0, <1>3 DEF Typed
  <2>2. TornInv'
    BY <1>3, <2>1 DEF TornInv
  <2>3. \A j \in Idx : plain'[j] # None => plain'[j] = plain[j]
    BY <2>1
  <2>4. \A j \in Idx : zst'[j] # None => zst'[j] = zst[j]
    BY <2>1
  <2>5. current' => plain'[segmentIndex'] = plain[segmentIndex]
    BY <1>0, <1>3, <2>1
  <2> QED
    BY <1>3, <2>2, <2>3, <2>4, <2>5 DEF FilledInv
<1>4. CASE EnqueueStart \/ GcStart \/ Commit
  <2>1. /\ UNCHANGED <<plain, zst, torn, buf, current, segmentIndex, faults>>
        /\ pc' \notin Compressing /\ pc # "append"
    BY <1>4 DEF EnqueueStart, GcStart, Commit, Compressing
  <2> QED
    BY <1>0, <1>1, <2>1
<1>5. ASSUME NEW n, Ack(n) PROVE TornInv' /\ FilledInv'
  <2>1. /\ UNCHANGED <<plain, zst, torn, buf, current, segmentIndex, faults>>
        /\ pc' \notin Compressing /\ pc # "append"
    BY <1>5 DEF Ack, Compressing
  <2> QED
    BY <1>0, <1>1, <2>1
<1>6. ASSUME NEW f \in BOOLEAN, Checkpoint(f) \/ CheckpointWrite(f) PROVE TornInv' /\ FilledInv'
  <2>1. /\ UNCHANGED <<plain, zst, torn, buf, current, segmentIndex>>
        /\ pc' \notin Compressing /\ pc # "append"
    BY <1>6 DEF Checkpoint, CheckpointWrite, AfterCheckpoint, Compressing
  <2>2. faults' = faults \/ Fault("checkpoint")
    BY <1>6 DEF Checkpoint, CheckpointWrite
  <2>3. faults' \in Nat
    BY <1>0, <1>f, <2>2
  <2> QED
    BY <1>1, <2>1, <2>3
<1>7. CASE UNCHANGED vars
  <2>1. UNCHANGED <<plain, zst, torn, buf, current, segmentIndex, faults, pc>>
    BY <1>7 DEF vars
  <2> QED
    BY <1>0, <1>1, <2>1
\* The calls that flush the writer.
<1>8. ASSUME plain' = Flushed, buf' = {}, UNCHANGED <<zst, garbled, segmentIndex, torn>>,
             faults' \in Nat, pc # "append", current' \in {current, FALSE},
             pc' \notin Compressing
      PROVE  TornInv' /\ FilledInv'
  <2>1. buf \in SUBSET buf
    OBVIOUS
  <2>2. /\ plain' = Text(With(buf), "whole") /\ garbled' = NotText(With(buf), "whole")
        /\ torn' = Torn("whole") /\ "whole" \in Cuts /\ MayCut(buf, "whole")
    BY <1>8, FlushedIs
  <2> QED
    BY <1>2, <1>8, <2>1, <2>2
<1>9. CASE Pop
  <2>1. /\ plain' = Flushed /\ buf' = {}
        /\ UNCHANGED <<zst, garbled, segmentIndex, torn, current, faults, pc>> /\ pc = "idle"
    BY <1>9 DEF Pop
  <2> QED
    BY <1>0, <1>8, <2>1 DEF Compressing
<1>10. ASSUME NEW f \in BOOLEAN, AppendSync(f) PROVE TornInv' /\ FilledInv'
  <2>1. /\ UNCHANGED <<zst, garbled, segmentIndex, torn, current>> /\ pc = "sync"
        /\ pc' \notin Compressing
        /\ \/ plain' = Flushed /\ buf' = {}
           \/ UNCHANGED <<plain, buf>>
    BY <1>10 DEF AppendSync, Compressing
  <2>2. faults' = faults \/ Fault("sync")
    BY <1>10 DEF AppendSync
  <2>3. faults' \in Nat
    BY <1>0, <1>f, <2>2
  <2> QED
    BY <1>1, <1>8, <2>1, <2>3
<1>11. ASSUME NEW f \in BOOLEAN, GcEnd(f) PROVE TornInv' /\ FilledInv'
  <2>1. /\ UNCHANGED <<zst, garbled, segmentIndex, torn, current>> /\ pc = "gc" /\ pc' = "idle"
        /\ \/ plain' = Flushed /\ buf' = {}
           \/ UNCHANGED <<plain, buf>>
    BY <1>11 DEF GcEnd
  <2>2. faults' = faults \/ Fault("gc")
    BY <1>11 DEF GcEnd
  <2>3. faults' \in Nat
    BY <1>0, <1>f, <2>2
  <2>4. pc # "append" /\ pc' \notin Compressing
    BY <2>1 DEF Compressing
  <2> QED
    BY <1>1, <1>8, <2>1, <2>3, <2>4
<1>12. ASSUME NEW c \in BOOLEAN, CheckpointStart(c) PROVE TornInv' /\ FilledInv'
  <2>1. /\ UNCHANGED <<zst, garbled, segmentIndex, torn, faults>>
        /\ pc = "idle" /\ pc' = "checkpoint"
        /\ \/ plain' = Flushed /\ buf' = {} /\ current' = FALSE
           \/ UNCHANGED <<plain, buf, current>>
    BY <1>12 DEF CheckpointStart
  <2>2. pc # "append" /\ pc' \notin Compressing
    BY <2>1 DEF Compressing
  <2> QED
    BY <1>0, <1>1, <1>8, <2>1, <2>2
<1>13. ASSUME NEW f \in BOOLEAN, NEW K \in SUBSET buf, NEW c \in Cuts, RotateFlush(f, K, c)
       PROVE  TornInv' /\ FilledInv'
  <2>1. /\ buf' = {} /\ current' = FALSE /\ UNCHANGED <<zst, segmentIndex>> /\ pc = "rotate"
        /\ MayCut(K, c) /\ plain' = Text(With(K), c) /\ garbled' = NotText(With(K), c)
        /\ torn' = Torn(c)
    BY <1>13 DEF RotateFlush
  <2>2. \/ faults' = faults /\ K = buf
        \/ Fault("flush") /\ pc' = "idle"
    BY <1>13 DEF RotateFlush
  <2>3. pc' \in {"idle", "compress", "create"} /\ (pc' = "compress" => current /\ K = buf)
    BY <1>13 DEF RotateFlush
  <2>4. faults' \in Nat
    BY <1>0, <1>f, <2>2
  <2>5. \/ current' = FALSE /\ pc' \notin Compressing
        \/ K = buf /\ current /\ current' = FALSE
    BY <2>1, <2>3 DEF Compressing
  <2>6. pc # "append"
    BY <2>1
  <2> QED
    BY <1>2, <2>1, <2>4, <2>5, <2>6
<1>14. ASSUME NEW f \in BOOLEAN, CompressWrite(f) \/ CompressDone(f) PROVE TornInv' /\ FilledInv'
  <2>1. /\ pc \in {"compress", "compressed"} /\ pc' \in {"idle", "compressed", "unlink"}
        /\ UNCHANGED <<plain, torn, buf, current, segmentIndex>>
    BY <1>14 DEF CompressWrite, CompressDone
  <2>2. \E v : zst' = [zst EXCEPT ![segmentIndex] = v] \/ zst' = zst
    BY <1>14 DEF CompressWrite, CompressDone
  <2>3. faults' = faults \/ Fault("compress")
    BY <1>14 DEF CompressWrite, CompressDone
  <2>4. faults' \in Nat
    BY <1>0, <1>f, <2>3
  <2>5. ~ current /\ segmentIndex \notin torn /\ plain[segmentIndex] # {}
    BY <1>0, <2>1 DEF FileInv, Rotating, TornInv, FilledInv, Compressing
  <2>6. \A i \in Idx : i # segmentIndex => zst'[i] = zst[i]
    BY <1>0, <2>2 DEF Typed
  <2>7. TornInv'
    BY <2>1, <2>4, <2>5 DEF TornInv
  <2>8. \A i \in Idx : plain'[i] # None /\ zst'[i] # None => plain'[i] # {}
    BY <2>1, <2>5, <2>6 DEF FilledInv
  <2> QED
    BY <2>1, <2>5, <2>7, <2>8 DEF FilledInv
<1>15. ASSUME NEW f \in BOOLEAN, CompressUnlink(f) PROVE TornInv' /\ FilledInv'
  <2>1. /\ pc = "unlink" /\ pc' \in {"idle", "create"}
        /\ UNCHANGED <<zst, torn, buf, current, segmentIndex>>
        /\ plain' = [plain EXCEPT ![segmentIndex] = None]
    BY <1>15 DEF CompressUnlink
  <2>2. faults' = faults \/ Fault("compress")
    BY <1>15 DEF CompressUnlink
  <2>3. faults' \in Nat
    BY <1>0, <1>f, <2>2
  <2>4. ~ current /\ segmentIndex \notin torn /\ pc # "append" /\ pc' \notin Compressing
    BY <1>0, <2>1 DEF FileInv, Rotating, TornInv, Compressing
  <2> QED
    BY <1>0, <1>3, <2>1, <2>3, <2>4
<1>16. CASE GcRemove
  <2>1. PICK i : i = MinOf(Reclaimable)
    OBVIOUS
  <2>2. pc = "gc" /\ Reclaimable # {} /\ UNCHANGED <<torn, buf, current, segmentIndex, faults>>
    BY <1>16 DEF GcRemove
  <2>3. i \in Reclaimable
    <3>1. Reclaimable \subseteq Nat
      BY QueueAssumption DEF Reclaimable, segment_files, Idx
    <3> QED
      BY <2>1, <2>2, <3>1, MinOfFacts
  <2>4. i \in Idx /\ ~ (current /\ i = segmentIndex) /\ i \notin torn
    BY <2>3 DEF Reclaimable, segment_files, segment_fully_consumed
  <2>5. /\ plain' \in {plain, [plain EXCEPT ![i] = None]}
        /\ zst' \in {zst, [zst EXCEPT ![i] = None]}
    BY <1>16, <2>1 DEF GcRemove
  <2>6. pc' \in {"gc", "sibling"}
    BY <1>16, <2>2 DEF GcRemove
  <2>7. pc # "append" /\ pc' \notin Compressing
    BY <2>2, <2>6 DEF Compressing
  <2> QED
    BY <1>0, <1>3, <2>2, <2>4, <2>5, <2>7
<1>17. CASE GcRemoveSibling
  <2>1. /\ pc = "sibling" /\ pc' = "gc"
        /\ UNCHANGED <<plain, torn, buf, current, segmentIndex, faults>>
        /\ zst' = [zst EXCEPT ![victim] = None]
    BY <1>17 DEF GcRemoveSibling
  <2>2. victim \in Idx /\ plain[victim] = None
    BY <2>1 DEF IInv, Typed, CursorInv
  <2>3. victim \notin torn /\ ~ (current /\ victim = segmentIndex)
    BY <1>0, <2>2 DEF TornInv, FileInv
  <2>4. pc # "append" /\ pc' \notin Compressing
    BY <2>1 DEF Compressing
  <2> QED
    BY <1>0, <1>3, <2>1, <2>2, <2>3, <2>4
<1>18. ASSUME NEW r \in {"ok", "create_err", "link_err"}, RotateCreate(r)
       PROVE  TornInv' /\ FilledInv'
  <2> DEFINE n == segmentIndex + 1
  <2>1. pc = "create" /\ segmentIndex' = n /\ UNCHANGED <<zst, torn, buf>>
    BY <1>18 DEF RotateCreate
  <2>2. r # "link_err" /\ (faults' = faults \/ Fault("create"))
    <3>1. \/ r = "ok" /\ faults' = faults
          \/ r = "create_err" /\ Fault("create")
          \/ r = "link_err" /\ Fsync /\ Fault("link")
      BY <1>18 DEF RotateCreate
    <3>2. ~ (Fsync /\ Fault("link"))
      BY DEF Sound, SoundFaults, Fault
    <3> QED
      BY <3>1, <3>2
  <2>3. faults' \in Nat
    BY <1>0, <1>f, <2>2
  <2>4. ~ current /\ buf = {}
    BY <1>0, <2>1 DEF FileInv, Rotating
  <2>5. n \in Idx /\ plain[n] = None /\ zst[n] = None
    <3>1. n \in Idx
      BY <1>0, <2>1 DEF Typed
    <3>2. ~ (n <= segmentIndex)
      BY <1>0, QueueAssumption DEF Idx
    <3> QED
      BY <1>0, <3>1, <3>2 DEF FileInv
  <2> HIDE DEF n
  <2>6. CASE r = "create_err"
    <3>1. plain' = plain /\ current' = FALSE /\ pc' = "idle"
      BY <1>18, <2>4, <2>6 DEF RotateCreate
    <3>2. pc' \notin Compressing
      BY <3>1 DEF Compressing
    <3>3. TornInv'
      BY <2>1, <2>3, <3>1, <3>2 DEF TornInv
    <3>4. FilledInv'
      BY <2>1, <3>1, <3>2 DEF FilledInv
    <3> QED
      BY <3>3, <3>4
  <2>7. CASE r = "ok"
    <3>1. /\ plain' = [plain EXCEPT ![n] = IF plain[n] = None THEN {} ELSE plain[n]]
          /\ current' = TRUE /\ pc' = "append"
      BY <1>18, <2>7 DEF RotateCreate, n
    <3>2. plain'[n] = {} /\ \A i \in Idx : i # n => plain'[i] = plain[i]
      BY <1>0, <2>5, <3>1 DEF Typed
    <3>3. n \notin torn /\ {} # None
      BY <2>5 DEF TornInv, Sound, FileMarks
    <3>4. pc' \notin Compressing
      BY <3>1 DEF Compressing
    <3>5. TornInv'
      BY <2>1, <2>3, <3>2, <3>3 DEF TornInv
    <3>6. \A i \in Idx : plain'[i] # None /\ zst'[i] # None => plain'[i] # {}
      BY <2>1, <2>5, <3>2 DEF FilledInv
    <3>7. FilledInv'
      BY <2>1, <2>4, <3>1, <3>2, <3>4, <3>6 DEF FilledInv
    <3> QED
      BY <3>5, <3>7
  <2> QED
    BY <2>2, <2>6, <2>7
<1>19. CASE AppendLine
  <2>1. /\ pc = "append" /\ pc' \in {"sync", "commit"}
        /\ UNCHANGED <<plain, zst, torn, current, segmentIndex, faults>>
    BY <1>19 DEF AppendLine
  <2>2. buf' = buf \cup {NewLine}
    <3>1. ~ ragged
      BY <1>0 DEF GarbledInv, SpaceFaults
    <3> QED
      BY <1>19, <3>1 DEF AppendLine
  <2>3. current /\ plain[segmentIndex] # None
    BY <1>0, <2>1 DEF FileInv
  <2>4. NewLine \notin plain[segmentIndex]
    <3>1. \A m \in Lines : m.id < attempts
      BY <1>0, <2>1 DEF OrderInv, Before
    <3>2. plain[segmentIndex] \subseteq Lines
      <4>1. Content(plain, zst, segmentIndex) = plain[segmentIndex]
        BY <2>3 DEF Content
      <4> QED
        BY <1>0, <4>1 DEF Lines, OnDisk
    <3>3. NewLine.id = attempts /\ ~ (attempts < attempts)
      BY <1>0 DEF Typed, NewLine
    <3> QED
      BY <3>1, <3>2, <3>3
  <2>5. TornInv'
    BY <2>1, <2>3 DEF TornInv, Compressing
  <2>6. buf' \cap plain[segmentIndex] = {} /\ buf' # {}
    BY <2>2, <2>3, <2>4 DEF FilledInv
  <2>7. pc' \notin Compressing
    BY <2>1 DEF Compressing
  <2> QED
    BY <2>1, <2>5, <2>6, <2>7 DEF FilledInv
<1>20. ASSUME NEW K, NEW cut \in Cuts, NEW G, NEW B, CrashAndOpen(K, cut, G, B)
       PROVE  TornInv' /\ FilledInv'
  <2>1. /\ K \in SUBSET buf /\ MayCut(K, cut) /\ plain' = Text(With(K), cut)
        /\ garbled' = NotText(With(K), cut) /\ torn' = Torn(cut)
        /\ zst' = zst /\ buf' = {} /\ current' = FALSE /\ pc' = "idle" /\ faults' = faults
    BY <1>20, CrashedIs
  <2>2. pc' \notin Compressing
    BY <2>1 DEF Compressing
  <2> QED
    BY <1>0, <1>2, <2>1, <2>2
<1>21. ASSUME NEW K, NEW part, AppendFails(K, part) PROVE FALSE
  BY <1>21 DEF AppendFails, Fault, SpaceFaults
<1>22. CASE CallStep
  BY <1>4, <1>6, <1>10, <1>11, <1>13, <1>14, <1>15, <1>16, <1>17, <1>18, <1>19, <1>21, <1>22
  DEF CallStep
<1> QED
  BY <1>4, <1>5, <1>7, <1>9, <1>12, <1>20, <1>22 DEF Next

\* Every step keeps total_bytes at or above what is used, and no more than a line above
\* the limit.
LEMMA SizeStep ==
  ASSUME Sound, SpaceFaults, IInv, SpaceInv, [Next]_vars
  PROVE  SizeInv'
<1> USE DEF diskVars, cursors, writerVars, callVars, ghosts, Call, Goto, Return
<1> DEFINE total == calculate_total_size(plain, zst, torn, garbled)
           size(i) == FileSize(plain, zst, torn, garbled, i)
<1>0. /\ Typed /\ FileInv /\ GarbledInv /\ OrderInv /\ TornInv /\ FilledInv /\ SizeInv
      /\ segmentIndex \in Idx /\ faults \in Nat /\ MaxBytes \in Nat /\ LongestLine \in Nat
  BY QueueAssumption DEF IInv, SpaceInv, Typed, TornInv
<1>a. /\ Files(plain, garbled) /\ total \in Nat /\ Bytes(buf) \in Nat /\ Used \in Nat
  BY <1>0, UsedFacts
<1>b. /\ Files(plain', garbled') /\ total' \in Nat /\ Bytes(buf') \in Nat /\ Used' \in Nat
  <2>1. Typed' /\ GarbledInv'
    BY FileStep, GarbledStep
  <2>2. Files(plain', garbled')
    BY <2>1 DEF Files, Typed, GarbledInv
  <2>3. total' \in Nat
    BY <2>2, SizesSum
  <2>4. Bytes(buf') \in Nat
    <3>1. CASE buf' = {}
      BY <3>1, BytesAdd
    <3>2. CASE buf' # {}
      BY <2>1, <3>2, BytesPositive DEF Typed
    <3> QED
      BY <3>1, <3>2
  <2> QED
    BY <2>2, <2>3, <2>4 DEF Used
<1>u. /\ Used = total + Bytes(buf) /\ Used' = total' + Bytes(buf')
      /\ buf' = {} => Bytes(buf') = 0
  BY BytesAdd DEF Used
<1>f. ASSUME NEW point, Fault(point) PROVE faults' # 0
  BY <1>0, <1>f DEF Fault
<1>1. ASSUME Used' = Used, totalBytes' = totalBytes, faults' = 0 => faults = 0,
             pc' \in Before => totalBytes < MaxBytes,
             faults' = 0 /\ pc' \notin Recomputing => pc \notin Recomputing
      PROVE  SizeInv'
  BY <1>0, <1>1 DEF SizeInv
<1>2. ASSUME Used' <= Used, totalBytes' = totalBytes, faults' # 0 \/ pc' \in Recomputing,
             pc' \in Before => totalBytes < MaxBytes
      PROVE  SizeInv'
  BY <1>0, <1>2, <1>a, <1>b DEF SizeInv
<1>3. ASSUME Used' <= Used, totalBytes' = Used',
             pc' \in Before => totalBytes < MaxBytes
      PROVE  SizeInv'
  BY <1>0, <1>3, <1>a, <1>b DEF SizeInv
<1>4. ASSUME UNCHANGED <<plain, garbled, zst, torn, buf>> PROVE Used' = Used
  BY <1>4 DEF Used
\* The calls that touch no file.
<1>5. CASE EnqueueStart
  <2>1. /\ UNCHANGED <<plain, garbled, zst, torn, buf, totalBytes, faults>>
        /\ pc = "idle" /\ pc' \in {"rotate", "append"} /\ totalBytes < MaxBytes
    BY <1>5 DEF EnqueueStart
  <2>2. pc \notin Recomputing
    BY <2>1 DEF Recomputing
  <2> QED
    BY <1>1, <1>4, <2>1, <2>2
<1>6. ASSUME UNCHANGED <<plain, garbled, zst, torn, buf, totalBytes>>, faults' = 0 => faults = 0,
             pc \notin Recomputing \/ faults' # 0,
             pc' \in {"idle", "checkpoint", "rewrite", "gc", "commit"}
      PROVE  SizeInv'
  <2>1. pc' \notin Before
    BY <1>6 DEF Before, Rotating
  <2> QED
    BY <1>1, <1>4, <1>6, <2>1
<1>7. CASE GcStart \/ Commit
  <2>1. /\ UNCHANGED <<plain, garbled, zst, torn, buf, totalBytes, faults>>
        /\ pc \in {"idle", "commit"} /\ pc' \in {"gc", "idle", "checkpoint"}
    BY <1>7 DEF GcStart, Commit
  <2> QED
    BY <1>6, <2>1 DEF Recomputing
<1>8. ASSUME NEW n, Ack(n) PROVE SizeInv'
  <2>1. /\ UNCHANGED <<plain, garbled, zst, torn, buf, totalBytes, faults>>
        /\ pc = "idle" /\ pc' = "checkpoint"
    BY <1>8 DEF Ack
  <2> QED
    BY <1>6, <2>1 DEF Recomputing
<1>9. ASSUME NEW f \in BOOLEAN, Checkpoint(f) \/ CheckpointWrite(f) PROVE SizeInv'
  <2>1. /\ UNCHANGED <<plain, garbled, zst, torn, buf, totalBytes>>
        /\ pc \in {"checkpoint", "rewrite"} /\ pc' \in {"idle", "gc", "rewrite"}
    BY <1>9 DEF Checkpoint, CheckpointWrite, AfterCheckpoint
  <2>2. faults' = faults \/ Fault("checkpoint")
    BY <1>9 DEF Checkpoint, CheckpointWrite
  <2>3. faults' = 0 => faults = 0
    BY <1>f, <2>2
  <2> QED
    BY <1>6, <2>1, <2>3 DEF Recomputing
<1>10. CASE UNCHANGED vars
  <2>1. UNCHANGED <<plain, garbled, zst, torn, buf, totalBytes, faults, pc>>
    BY <1>10 DEF vars
  <2>2. pc \in Before => totalBytes < MaxBytes
    BY <1>0 DEF SizeInv
  <2> QED
    BY <1>1, <1>4, <2>1, <2>2
\* Lines of the buffer reach the file, the rest is dropped; a part of a line counts too.
<1>11. ASSUME NEW K \in SUBSET buf, NEW c \in Cuts, MayCut(K, c), plain' = Text(With(K), c),
              garbled' = NotText(With(K), c), torn' = Torn(c), zst' = zst, buf' = {}
       PROVE  /\ Used' <= Used /\ Used' = total'
              /\ K = buf => Used' = Used
  <2>1. Used' = total'
    BY <1>11, <1>b, <1>u
  <2>2. K = buf => c = "whole"
    BY <1>11 DEF MayCut
  <2>3. CASE current
    <3> DEFINE q == plain'
               h == garbled'
               u == torn'
    <3>1. q = Text(With(K), c) /\ h = NotText(With(K), c) /\ u = Torn(c)
      BY <1>11
    <3> HIDE DEF q, h, u
    <3>2. /\ calculate_total_size(q, zst, u, h)
               = calculate_total_size(plain, zst, torn, garbled) + Bytes(K)
                   + (IF c = "whole" THEN 0 ELSE 1)
          /\ Bytes(K) \in Nat /\ Bytes(K) + (IF c = "whole" THEN 0 ELSE 1) <= Bytes(buf)
      BY <1>0, <1>11, <2>3, <3>1, FlushSize
    <3>3. total' = total + Bytes(K) + (IF c = "whole" THEN 0 ELSE 1)
      BY <1>11, <3>2 DEF q, h, u
    <3>4. PICK a \in Nat : a = total
      BY <1>a
    <3>5. PICK k \in Nat : k = Bytes(K)
      BY <3>2
    <3>6. PICK b \in Nat : b = Bytes(buf)
      BY <1>a
    <3>7. PICK e \in Nat : e = IF c = "whole" THEN 0 ELSE 1
      OBVIOUS
    <3>8. Used' = a + k + e /\ Used = a + b /\ k + e <= b
      BY <1>u, <2>1, <3>2, <3>3, <3>4, <3>5, <3>6, <3>7
    <3>9. K = buf => k = b /\ e = 0
      BY <2>2, <3>5, <3>6, <3>7
    <3> QED
      BY <2>1, <3>8, <3>9
  <2>4. CASE ~ current
    <3>1. buf = {} /\ K = {} /\ c = "whole"
      BY <1>0, <1>11, <2>4 DEF FileInv, MayCut
    <3>2. plain' = plain /\ garbled' = garbled /\ torn' = torn
      BY <1>11, <2>4, <3>1 DEF Text, NotText, With, Torn
    <3>3. Used' = Used
      BY <1>4, <1>11, <3>1, <3>2
    <3> QED
      BY <1>b, <2>1, <3>3
  <2> QED
    BY <2>3, <2>4
<1>12. ASSUME plain' = Flushed, buf' = {}, UNCHANGED <<garbled, zst, torn>>
       PROVE  Used' = Used /\ Used' = total'
  <2>1. /\ plain' = Text(With(buf), "whole") /\ garbled' = NotText(With(buf), "whole")
        /\ torn' = Torn("whole") /\ "whole" \in Cuts /\ MayCut(buf, "whole")
        /\ buf \in SUBSET buf
    BY <1>12, FlushedIs
  <2> QED
    BY <1>11, <1>12, <2>1
<1>13. CASE Pop
  <2>1. /\ plain' = Flushed /\ buf' = {}
        /\ UNCHANGED <<garbled, zst, torn, totalBytes, faults, pc>> /\ pc = "idle"
    BY <1>13 DEF Pop
  <2>2. Used' = Used
    BY <1>12, <2>1
  <2>3. pc' \notin Before /\ pc \notin Recomputing
    BY <2>1 DEF Before, Rotating, Recomputing
  <2> QED
    BY <1>1, <2>1, <2>2, <2>3
<1>14. ASSUME NEW f \in BOOLEAN, AppendSync(f) PROVE SizeInv'
  <2>1. /\ UNCHANGED <<garbled, zst, torn, totalBytes>> /\ pc = "sync" /\ pc' \in {"idle", "commit"}
        /\ \/ plain' = Flushed /\ buf' = {}
           \/ UNCHANGED <<plain, buf>>
    BY <1>14 DEF AppendSync
  <2>2. faults' = faults \/ Fault("sync")
    BY <1>14 DEF AppendSync
  <2>3. faults' = 0 => faults = 0
    BY <1>f, <2>2
  <2>4. Used' = Used
    BY <1>4, <1>12, <2>1
  <2>5. pc' \notin Before /\ pc \notin Recomputing
    BY <2>1 DEF Before, Rotating, Recomputing
  <2> QED
    BY <1>1, <2>1, <2>3, <2>4, <2>5
<1>15. ASSUME NEW c \in BOOLEAN, CheckpointStart(c) PROVE SizeInv'
  <2>1. /\ UNCHANGED <<garbled, zst, torn, totalBytes, faults>>
        /\ pc = "idle" /\ pc' = "checkpoint"
        /\ \/ plain' = Flushed /\ buf' = {}
           \/ UNCHANGED <<plain, buf>>
    BY <1>15 DEF CheckpointStart
  <2>2. Used' = Used
    BY <1>4, <1>12, <2>1
  <2>3. pc' \notin Before /\ pc \notin Recomputing
    BY <2>1 DEF Before, Rotating, Recomputing
  <2> QED
    BY <1>1, <2>1, <2>2, <2>3
<1>16. ASSUME NEW f \in BOOLEAN, GcEnd(f) PROVE SizeInv'
  <2>1. /\ UNCHANGED <<garbled, zst, torn>> /\ pc' = "idle"
        /\ \/ UNCHANGED <<plain, buf, totalBytes>> /\ Fault("gc")
           \/ /\ plain' = Flushed /\ buf' = {}
              /\ totalBytes' = calculate_total_size(plain', zst, torn, garbled)
    BY <1>16 DEF GcEnd
  <2>2. pc' \notin Before
    BY <2>1 DEF Before, Rotating
  <2>3. CASE UNCHANGED <<plain, buf, totalBytes>> /\ Fault("gc")
    <3>1. Used' = Used /\ faults' # 0
      BY <1>4, <1>f, <2>1, <2>3
    <3> QED
      BY <1>1, <2>2, <2>3, <3>1
  <2>4. CASE /\ plain' = Flushed /\ buf' = {}
             /\ totalBytes' = calculate_total_size(plain', zst, torn, garbled)
    <3>1. Used' = Used /\ totalBytes' = Used'
      BY <1>12, <2>1, <2>4
    <3>2. Used' <= Used
      BY <1>a, <3>1
    <3> QED
      BY <1>3, <2>2, <3>1, <3>2
  <2> QED
    BY <2>1, <2>3, <2>4
<1>17. ASSUME NEW f \in BOOLEAN, NEW K \in SUBSET buf, NEW c \in Cuts, RotateFlush(f, K, c)
       PROVE  SizeInv'
  <2>1. /\ buf' = {} /\ UNCHANGED <<zst, totalBytes>> /\ pc = "rotate"
        /\ MayCut(K, c) /\ plain' = Text(With(K), c) /\ garbled' = NotText(With(K), c)
        /\ torn' = Torn(c)
    BY <1>17 DEF RotateFlush
  <2>2. \/ faults' = faults /\ K = buf
        \/ Fault("flush")
    BY <1>17 DEF RotateFlush
  <2>3. Used' <= Used /\ (K = buf => Used' = Used)
    BY <1>11, <2>1
  <2>4. totalBytes < MaxBytes /\ pc \notin Recomputing
    BY <1>0, <2>1 DEF SizeInv, Before, Rotating, Recomputing
  <2>5. CASE faults' = faults /\ K = buf
    BY <1>1, <2>1, <2>3, <2>4, <2>5
  <2>6. CASE Fault("flush")
    BY <1>2, <1>f, <2>1, <2>3, <2>4, <2>6
  <2> QED
    BY <2>2, <2>5, <2>6
<1>18. ASSUME NEW K, NEW cut \in Cuts, NEW G, NEW B, CrashAndOpen(K, cut, G, B) PROVE SizeInv'
  <2>1. /\ K \in SUBSET buf /\ MayCut(K, cut) /\ plain' = Text(With(K), cut)
        /\ garbled' = NotText(With(K), cut) /\ torn' = Torn(cut)
        /\ zst' = zst /\ buf' = {} /\ pc' = "idle" /\ totalBytes' = total'
    BY <1>18, CrashedIs
  <2>2. Used' <= Used /\ Used' = total'
    BY <1>11, <2>1
  <2>3. totalBytes' = Used' /\ pc' \notin Before
    BY <2>1, <2>2 DEF Before, Rotating
  <2> QED
    BY <1>3, <2>2, <2>3
\* One segment changes its form or goes.
<1>19. ASSUME NEW j \in Idx, UNCHANGED <<buf, torn, garbled>>,
              \A i \in Idx : i # j => plain'[i] = plain[i] /\ zst'[i] = zst[i],
              size(j)' <= size(j)
       PROVE  Used' <= Used /\ (size(j)' = size(j) => Used' = Used)
  <2>1. \A i \in Idx : i # j =>
          FileSize(plain', zst', torn', garbled', i) = FileSize(plain, zst, torn, garbled, i)
    BY <1>19 DEF FileSize
  <2>2. total' <= total /\ (size(j)' = size(j) => total' = total)
    BY <1>19, <1>a, <1>b, <2>1, SizeLess
  <2>3. Used' = total' + Bytes(buf)
    BY <1>19, <1>u
  <2> HIDE DEF total, size
  <2> QED
    BY <1>a, <1>b, <1>u, <2>2, <2>3
<1>20. ASSUME NEW i \in Idx
       PROVE  /\ plain[i] # None => /\ plain[i] # {} => 1 <= size(i)
                                    /\ size(i) \in Nat
              /\ plain[i] = None /\ garbled[i] = None => size(i) = IF zst[i] # None THEN 1 ELSE 0
              /\ size(i) \in Nat
  <2>1. plain[i] # None =>
          /\ Bytes(plain[i]) \in Nat /\ (plain[i] # {} => 1 <= Bytes(plain[i]))
          /\ size(i) = Bytes(plain[i]) + (IF i \in torn THEN 1 ELSE 0)
    BY <1>a, FileSizeIs
  <2>2. size(i) \in Nat
    BY <1>a, FileSizeIs
  <2>3. plain[i] = None /\ garbled[i] = None => size(i) = IF zst[i] # None THEN 1 ELSE 0
    BY DEF FileSize
  <2> HIDE DEF size
  <2> QED
    BY <2>1, <2>2, <2>3
<1>21. ASSUME NEW f \in BOOLEAN, CompressWrite(f) \/ CompressDone(f) PROVE SizeInv'
  <2>1. /\ pc \in {"compress", "compressed"} /\ pc' \in {"idle", "compressed", "unlink"}
        /\ UNCHANGED <<plain, garbled, torn, buf, totalBytes>>
    BY <1>21 DEF CompressWrite, CompressDone
  <2>2. \E v : zst' = [zst EXCEPT ![segmentIndex] = v] \/ zst' = zst
    BY <1>21 DEF CompressWrite, CompressDone
  <2>3. faults' = faults \/ Fault("compress")
    BY <1>21 DEF CompressWrite, CompressDone
  <2>4. faults' = 0 => faults = 0
    BY <1>f, <2>3
  <2>5. \A i \in Idx : i # segmentIndex => zst'[i] = zst[i]
    BY <1>0, <2>2 DEF Typed
  <2>6. plain[segmentIndex] # None
    BY <1>0, <2>1 DEF FileInv
  <2>7. size(segmentIndex)' = FileSize(plain, zst, torn, garbled, segmentIndex)
    <3>1. segmentIndex' = segmentIndex
      BY <1>21 DEF CompressWrite, CompressDone
    <3> QED
      BY <2>1, <2>6, <3>1 DEF FileSize
  <2>8. Used' = Used
    <3>1. PICK j \in Idx : j = segmentIndex
      BY <1>0
    <3>2. FileSize(plain', zst', torn', garbled', j) = FileSize(plain, zst, torn, garbled, j)
      BY <2>1, <2>6, <3>1 DEF FileSize
    <3>3. size(j)' <= size(j) /\ size(j)' = size(j)
      BY <1>20, <3>2
    <3> QED
      BY <1>19, <2>1, <2>5, <3>1, <3>3
  <2>9. totalBytes < MaxBytes /\ pc \notin Recomputing
    BY <1>0, <2>1 DEF SizeInv, Before, Rotating, Recomputing
  <2> QED
    BY <1>1, <2>1, <2>4, <2>8, <2>9
<1>22. ASSUME NEW f \in BOOLEAN, CompressUnlink(f) PROVE SizeInv'
  <2>1. /\ pc = "unlink" /\ UNCHANGED <<zst, garbled, torn, buf, totalBytes>>
        /\ plain' = [plain EXCEPT ![segmentIndex] = None]
    BY <1>22 DEF CompressUnlink
  <2>2. faults' # 0 \/ pc' \in Recomputing
    BY <1>22, <1>f DEF CompressUnlink, Recomputing
  <2>3. PICK j \in Idx : j = segmentIndex
    BY <1>0
  <2>4. plain[j] # None /\ plain[j] # {} /\ zst[j] # None /\ garbled[j] = None
    <3>1. plain[j] # None /\ plain[j] # {} /\ zst[j] # None
      BY <1>0, <2>1, <2>3 DEF FileInv, FilledInv, Compressing
    <3> QED
      BY <1>0, <3>1 DEF GarbledInv
  <2>5. plain'[j] = None /\ \A i \in Idx : i # j => plain'[i] = plain[i]
    BY <1>0, <2>1, <2>3 DEF Typed
  <2>6. size(j)' = 1
    BY <2>1, <2>4, <2>5 DEF FileSize
  <2>7. size(j)' <= size(j)
    BY <1>20, <2>4, <2>6
  <2>8. Used' <= Used
    BY <1>19, <2>1, <2>5, <2>7
  <2>9. totalBytes < MaxBytes
    BY <1>0, <2>1 DEF SizeInv, Before, Rotating
  <2> QED
    BY <1>2, <2>1, <2>2, <2>8, <2>9
<1>23. CASE GcRemove
  <2>1. PICK i : i = MinOf(Reclaimable)
    OBVIOUS
  <2>2. /\ Reclaimable # {} /\ UNCHANGED <<torn, garbled, buf, totalBytes>>
        /\ pc' \in {"gc", "sibling"}
    BY <1>23 DEF GcRemove
  <2>3. i \in Idx /\ garbled[i] = None
    <3>1. Reclaimable \subseteq Nat
      BY QueueAssumption DEF Reclaimable, segment_files, Idx
    <3>2. i \in Reclaimable
      BY <2>1, <2>2, <3>1, MinOfFacts
    <3> QED
      BY <3>2 DEF Reclaimable, segment_files, segment_fully_consumed, Unreadable
  <2>4. \/ /\ plain[i] = None /\ zst' = [zst EXCEPT ![i] = None] /\ plain' = plain
        \/ /\ plain[i] # None /\ plain' = [plain EXCEPT ![i] = None] /\ zst' = zst
    BY <1>23, <2>1 DEF GcRemove
  <2>5. /\ plain'[i] = None /\ zst'[i] = (IF plain[i] = None THEN None ELSE zst[i])
        /\ \A k \in Idx : k # i => plain'[k] = plain[k] /\ zst'[k] = zst[k]
    BY <1>0, <2>3, <2>4 DEF Typed
  <2>6. size(i)' = IF plain[i] # None /\ zst[i] # None THEN 1 ELSE 0
    BY <2>2, <2>3, <2>5 DEF FileSize
  <2>7. plain[i] # None /\ zst[i] # None => plain[i] # {}
    BY <1>0, <2>3 DEF FilledInv
  <2>8. size(i)' <= size(i)
    <3>1. size(i) \in Nat /\ (plain[i] # None /\ plain[i] # {} => 1 <= size(i))
      BY <1>20, <2>3
    <3> HIDE DEF size
    <3> QED
      BY <2>6, <2>7, <3>1
  <2>9. Used' <= Used
    BY <1>19, <2>2, <2>3, <2>5, <2>8
  <2>10. pc' \in Recomputing /\ pc' \notin Before
    BY <2>2 DEF Recomputing, Before, Rotating
  <2> QED
    BY <1>2, <2>2, <2>9, <2>10
<1>24. CASE GcRemoveSibling
  <2>1. /\ pc = "sibling" /\ pc' = "gc" /\ UNCHANGED <<plain, garbled, torn, buf, totalBytes>>
        /\ zst' = [zst EXCEPT ![victim] = None]
    BY <1>24 DEF GcRemoveSibling
  <2>2. PICK j \in Idx : j = victim /\ plain[j] = None
    BY <2>1 DEF IInv, Typed, CursorInv
  <2>3. zst'[j] = None /\ \A i \in Idx : i # j => zst'[i] = zst[i]
    BY <1>0, <2>1, <2>2 DEF Typed
  <2>4. size(j)' <= size(j)
    <3>1. CASE garbled[j] = None
      <4>1. size(j)' = 0
        BY <2>1, <2>2, <2>3, <3>1 DEF FileSize
      <4>2. size(j) \in Nat
        BY <1>20
      <4> HIDE DEF size
      <4> QED
        BY <4>1, <4>2
    <3>2. CASE garbled[j] # None
      <4>1. size(j)' = size(j)
        BY <2>1, <3>2 DEF FileSize
      <4>2. size(j) \in Nat
        BY <1>20
      <4> HIDE DEF size
      <4> QED
        BY <4>1, <4>2
    <3> QED
      BY <3>1, <3>2
  <2>5. Used' <= Used
    BY <1>19, <2>1, <2>3, <2>4
  <2>6. pc' \in Recomputing /\ pc' \notin Before
    BY <2>1 DEF Recomputing, Before, Rotating
  <2> QED
    BY <1>2, <2>1, <2>5, <2>6
<1>25. ASSUME NEW r \in {"ok", "create_err", "link_err"}, RotateCreate(r) PROVE SizeInv'
  <2> DEFINE n == segmentIndex + 1
  <2>1. pc = "create" /\ segmentIndex' = n /\ UNCHANGED <<zst, garbled, torn, buf>>
    BY <1>25 DEF RotateCreate
  <2>2. ~ current /\ buf = {} /\ totalBytes < MaxBytes
    BY <1>0, <2>1 DEF FileInv, SizeInv, Before, Rotating
  <2>3. n \in Idx /\ plain[n] = None /\ zst[n] = None /\ garbled[n] = None
    <3>1. n \in Idx
      BY <2>1, FileStep DEF Typed
    <3>2. ~ (n <= segmentIndex)
      BY <1>0, QueueAssumption DEF Idx
    <3> QED
      BY <1>0, <3>1, <3>2 DEF FileInv, GarbledInv
  <2>4. n \notin torn
    BY <1>0, <2>3 DEF TornInv
  <2> HIDE DEF n
  <2>5. \/ plain' = plain
        \/ plain' = [plain EXCEPT ![n] = IF plain[n] = None THEN {} ELSE plain[n]]
    BY <1>25 DEF RotateCreate, n
  <2>6. /\ plain'[n] \in {None, {}}
        /\ \A i \in Idx : i # n => plain'[i] = plain[i] /\ zst'[i] = zst[i]
    BY <1>0, <2>1, <2>3, <2>5 DEF Typed
  <2>7. FileSize(plain', zst', torn', garbled', n) = 0
    <3>1. Cardinality({n} \cap torn) = 0
      <4>1. {n} \cap torn = {}
        BY <2>4
      <4> QED
        BY <4>1, FS_EmptySet
    <3>2. garbled'[n] = None /\ zst'[n] = None /\ torn' = torn
      BY <2>1, <2>3
    <3>3. CASE plain'[n] = None
      BY <3>2, <3>3 DEF FileSize
    <3>4. CASE plain'[n] = {} /\ plain'[n] # None
      <4>1. FileSize(plain', zst', torn', garbled', n) = Bytes({}) + Cardinality({n} \cap torn)
        <5>1. FileSize(plain', zst', torn', garbled', n)
                = Bytes(plain'[n]) + Cardinality({n} \cap torn)
          BY <3>2, <3>4 DEF FileSize
        <5> QED
          BY <3>4, <5>1
      <4> QED
        BY <3>1, <4>1, BytesAdd
    <3> QED
      BY <2>6, <3>3, <3>4
  <2>8. FileSize(plain, zst, torn, garbled, n) = 0
    BY <2>3 DEF FileSize
  <2>9. Used' = Used
    <3>1. PICK j \in Idx : j = n
      BY <2>3
    <3>2. size(j)' <= size(j) /\ size(j)' = size(j)
      BY <2>7, <2>8, <3>1
    <3> QED
      BY <1>19, <2>1, <2>6, <3>1, <3>2
  <2>10. Used' = total'
    BY <1>b, <1>u, <2>1, <2>2
  <2>11. CASE r = "ok"
    <3>1. totalBytes' = calculate_total_size(plain', zst, torn, garbled)
      BY <1>25, <2>11 DEF RotateCreate
    <3>2. totalBytes' = Used' /\ Used' <= Used
      BY <1>a, <2>1, <2>9, <2>10, <3>1
    <3> QED
      BY <1>3, <2>2, <3>2
  <2>12. CASE r # "ok"
    <3>1. totalBytes' = totalBytes
      BY <1>25, <2>12 DEF RotateCreate
    <3>2. Fault("create") \/ Fault("link")
      BY <1>25, <2>12 DEF RotateCreate
    <3>3. faults' # 0
      BY <1>f, <3>2
    <3> QED
      BY <1>1, <2>2, <2>9, <3>1, <3>3
  <2> QED
    BY <2>11, <2>12
<1>26. CASE AppendLine
  <2>1. /\ pc = "append" /\ pc' \in {"sync", "commit"} /\ current
        /\ UNCHANGED <<plain, zst, garbled, torn, faults>>
        /\ totalBytes' = totalBytes + Width[attempts]
    BY <1>0, <1>26 DEF AppendLine, FileInv
  <2>2. buf' = buf \cup {NewLine}
    <3>1. ~ ragged
      BY <1>0 DEF GarbledInv, SpaceFaults
    <3> QED
      BY <1>26, <3>1 DEF AppendLine
  <2>3. NewLine \in Line /\ NewLine.id = attempts /\ attempts \in Ids
    <3>1. attempts \in Ids /\ writeSeq \in Nat
      BY <1>0, <2>1, QueueAssumption DEF Typed, FileInv, Ids
    <3> QED
      BY <3>1 DEF NewLine, Line
  <2>4. \A m \in buf : m.id # attempts
    <3>1. \A m \in Lines : m.id < attempts
      BY <2>1 DEF IInv, OrderInv, Before
    <3>2. ~ (attempts < attempts)
      BY <1>0 DEF Typed
    <3> QED
      BY <3>1, <3>2 DEF Lines
  <2>5. Bytes(buf') = Bytes(buf) + Width[attempts]
    <3>1. buf \in SUBSET Line
      BY <1>0 DEF Typed
    <3>2. PICK l \in Line : l = NewLine
      BY <2>3
    <3>3. Bytes(buf \cup {l}) = Bytes(buf) + Width[l.id]
      BY <2>3, <2>4, <3>1, <3>2, BytesAdd
    <3> QED
      BY <2>2, <2>3, <3>2, <3>3
  <2>6. Width[attempts] \in Nat /\ Width[attempts] <= LongestLine
    BY <2>3, QueueAssumption
  <2>7. Used' = Used + Width[attempts]
    <3>1. total' = total
      BY <2>1
    <3> HIDE DEF total
    <3> QED
      BY <1>a, <1>u, <2>5, <2>6, <3>1
  <2>8. /\ totalBytes \in Nat /\ totalBytes < MaxBytes /\ Used <= totalBytes
        /\ faults = 0 => Used = totalBytes
    BY <1>0, <2>1 DEF SizeInv, Before, Recomputing
  <2>9. pc' \notin Before
    BY <2>1 DEF Before, Rotating
  <2>10. /\ totalBytes' \in Nat /\ Used' <= totalBytes' /\ totalBytes' < MaxBytes + LongestLine
         /\ faults' = 0 => Used' = totalBytes'
    BY <1>0, <1>a, <2>1, <2>6, <2>7, <2>8
  <2> QED
    BY <2>9, <2>10 DEF SizeInv
<1>27. ASSUME NEW K, NEW part, AppendFails(K, part) PROVE FALSE
  BY <1>27 DEF AppendFails, Fault, SpaceFaults
<1>28. CASE CallStep
  BY <1>7, <1>9, <1>14, <1>16, <1>17, <1>21, <1>22, <1>23, <1>24, <1>25, <1>26, <1>27, <1>28
  DEF CallStep
<1> QED
  BY <1>5, <1>7, <1>8, <1>10, <1>13, <1>15, <1>18, <1>28 DEF Next

\* An empty directory takes no space.
LEMMA InitSpace == ASSUME Sound, Init PROVE SpaceInv
<1>1. /\ plain = [i \in Idx |-> None] /\ zst = [i \in Idx |-> None] /\ torn = {} /\ buf = {}
      /\ garbled = [i \in Idx |-> None]
      /\ totalBytes = 0 /\ pc = "idle" /\ current = FALSE /\ faults = 0
  BY DEF Init
<1>2. TornInv
  BY <1>1 DEF TornInv, Compressing
<1>3. FilledInv
  BY <1>1 DEF FilledInv, Compressing
<1>4. Files(plain, garbled)
  BY <1>1 DEF Files
<1>5. PICK s \in [Idx -> Nat] : /\ IsSum(s, Sizes(plain, zst, torn, garbled))
                                /\ calculate_total_size(plain, zst, torn, garbled) = s[MaxEvents]
  BY <1>4, SizesSum
<1>6. \A i \in Idx : s[i] = 0 + (IF i = 0 THEN 0 ELSE s[i - 1])
  <2>1. \A i \in Idx : FileSize(plain, zst, torn, garbled, i) = 0
    BY <1>1 DEF FileSize
  <2> QED
    BY <1>5, <2>1 DEF IsSum, Sizes
<1>7. \A i \in Idx : s[i] = 0
  <2> DEFINE Bad == {i \in Idx : s[i] # 0}
  <2>0. Bad \subseteq Nat /\ Idx = 0 .. MaxEvents /\ MaxEvents \in Nat
    BY QueueAssumption DEF Idx
  <2>1. SUFFICES ASSUME Bad # {} PROVE FALSE
    OBVIOUS
  <2> HIDE DEF Bad
  <2>2. PICK m \in Bad : \A n \in Bad : m <= n
    BY <2>0, <2>1, LeastNat
  <2>3. m \in Idx /\ s[m] # 0
    BY <2>2 DEF Bad
  <2>4. m # 0 => m - 1 \in Idx /\ m - 1 \notin Bad
    BY <2>0, <2>2, <2>3
  <2>5. m # 0 => s[m - 1] = 0
    BY <2>4 DEF Bad
  <2> QED
    BY <1>6, <2>3, <2>5
<1>8. Used = 0
  <2>1. MaxEvents \in Idx
    BY QueueAssumption DEF Idx
  <2>2. calculate_total_size(plain, zst, torn, garbled) = 0
    BY <1>5, <1>7, <2>1
  <2> QED
    BY <1>1, <2>2, BytesAdd DEF Used
<1>9. SizeInv
  BY <1>1, <1>8, QueueAssumption DEF SizeInv, Before, Rotating
<1> QED
  BY <1>2, <1>3, <1>9 DEF SpaceInv

\* The invariant of the sizes.
LEMMA SpaceInvariance == ASSUME Sound, SpaceFaults PROVE Spec => []SpaceInv
<1>1. Init => SpaceInv
  BY InitSpace
<1>2. IInv /\ SpaceInv /\ [Next]_vars => SpaceInv'
  BY FilledStep, SizeStep DEF SpaceInv
<1> QED
  BY <1>1, <1>2, Invariance, PTL DEF Spec

\* The segment files and the writer's buffer never take max_bytes and a whole line,
\* whatever other call failed or crashed half-way and for any length of lines, segment
\* size, limit and number of segments: enqueue compares total_bytes with the limit, and
\* rotation, compression, gc and open never leave it below what is used.
THEOREM SpaceBoundedHolds == ASSUME Sound, SpaceFaults PROVE Spec => []SpaceBounded
<1>1. IInv /\ SpaceInv => SpaceBounded
  <2> SUFFICES ASSUME IInv, SpaceInv PROVE SpaceBounded
    OBVIOUS
  <2>1. /\ Used \in Nat /\ Used <= totalBytes /\ totalBytes < MaxBytes + LongestLine
        /\ totalBytes \in Nat /\ MaxBytes \in Nat /\ LongestLine \in Nat
    BY UsedFacts, QueueAssumption DEF IInv, SpaceInv, SizeInv
  <2>2. Used < MaxBytes + LongestLine
    BY <2>1
  <2> QED
    BY <2>2 DEF SpaceBounded
<1> QED
  BY <1>1, Invariance, SpaceInvariance, PTL

\* Between calls and without I/O failures total_bytes is exactly what a reopen would
\* compute plus what is buffered: enqueue's increments and the recomputations of
\* rotate_segment, gc and open leave no drift behind.
THEOREM TotalAuthoritativeHolds == ASSUME Sound, SpaceFaults PROVE Spec => []TotalAuthoritative
<1>1. SpaceInv => TotalAuthoritative
  BY DEF SpaceInv, SizeInv, TotalAuthoritative, Recomputing
<1> QED
  BY <1>1, SpaceInvariance, PTL
=============================================================================
