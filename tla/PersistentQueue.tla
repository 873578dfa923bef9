-------------------------- MODULE PersistentQueue ---------------------------
(***************************************************************************)
(* The disk-backed queue of crates/ferro-stash-core/src/persistent_queue.rs *)
(* with its segment files, the BufWriter of the active segment, the        *)
(* checkpoint file, compression, garbage collection and recovery, under    *)
(* crashes between any two effects on the disk and failing I/O calls.      *)
(*                                                                         *)
(* SharedPersistentQueue holds one mutex for the whole of every call, so   *)
(* calls do not interleave; a call is split into one action per effect on  *)
(* the disk because a crash may separate them.  `pc' is where the call in  *)
(* progress is.                                                            *)
(*                                                                         *)
(* A line of a segment is a record [seq, id]; `id' counts the calls of     *)
(* enqueue and identifies the event, and lines of one file are in the      *)
(* order of their ids.  A line is Width[id] bytes long; a part of one, and *)
(* a compressed segment, counts for a single byte.                         *)
(*                                                                         *)
(* Segments are read as text: a .seg that ends inside a character of       *)
(* several bytes cannot be read at all.                                    *)
(***************************************************************************)
EXTENDS Naturals, FiniteSets

CONSTANTS
  None, Partial,       \* no such file; a .zst that does not decode
  MaxEvents,           \* bound on the number of enqueue calls
  SegmentSize,         \* PqConfig::segment_size
  MaxBytes,            \* PqConfig::max_bytes
  Width, LongestLine,  \* the length of each event's line, and its bound
  MultiByte,           \* events have characters of several bytes
  CheckpointInterval,  \* PqConfig::checkpoint_interval, after its clamp
  Compress,            \* PqConfig::compression is not None
  Fsync,               \* PqConfig::fsync
  FaultPoints,         \* the I/O calls that may fail
  MaxFaults,           \* bound on their failures
  MaxCrashes           \* bound on crashes

AllFaultPoints == {"flush", "compress", "create", "link", "append", "sync",
                   "checkpoint", "gc", "recover"}

Idx == 0 .. MaxEvents
Ids == 1 .. MaxEvents

ASSUME QueueAssumption ==
  /\ MaxEvents \in Nat /\ SegmentSize \in Nat /\ MaxBytes \in Nat
  /\ CheckpointInterval \in Nat \ {0}
  /\ LongestLine \in Nat \ {0} /\ Width \in [Ids -> 1 .. LongestLine]
  /\ Compress \in BOOLEAN /\ Fsync \in BOOLEAN /\ MultiByte \in BOOLEAN
  /\ FaultPoints \subseteq AllFaultPoints
  /\ MaxFaults \in Nat /\ MaxCrashes \in Nat

VARIABLES
  plain,       \* segment_N.seg: its lines, or None
  garbled,     \* a segment_N.seg that is not text: its lines, or None
  torn,        \* the segments that hold a part of a line
  zst,         \* segment_N.seg.zst: its lines, Partial or None
  unlinked,    \* .seg files whose directory entry is not fsync'd (fsync mode)
  checkpoint,  \* checkpoint.json; all 0 when missing or truncated
  buf,         \* lines in the BufWriter of the active segment
  writeSeq, readSeq, ackSeq, segmentIndex,
  current,     \* current_segment is Some
  count,       \* current_segment_count
  ragged,      \* the active segment ends in a part of a line
  totalBytes,
  pc, caller,  \* step of the call in progress, and which call it is
  victim,      \* the segment gc is removing
  attempts,    \* enqueue calls so far
  accepted,    \* ids whose enqueue returned Ok
  stable,      \* lines that ever reached the disk
  popped,      \* lines handed to the consumer in this run
  settled,     \* ids the consumer has acknowledged
  faults, crashes

diskVars  == <<plain, garbled, torn, zst, unlinked>>
cursors   == <<writeSeq, readSeq, ackSeq>>
writerVars == <<segmentIndex, current, count, ragged>>
callVars  == <<pc, caller, victim>>
ghosts    == <<attempts, accepted, stable, popped, settled>>
vars == <<diskVars, checkpoint, buf, cursors, writerVars, totalBytes, callVars,
          ghosts, faults, crashes>>

Line == [seq : Nat, id : Ids]
NoCheckpoint == [w |-> 0, a |-> 0, i |-> 0]

TypeOK ==
  /\ plain \in [Idx -> {None} \cup SUBSET Line]
  /\ garbled \in [Idx -> {None} \cup SUBSET Line]
  /\ torn \subseteq Idx /\ unlinked \subseteq Idx
  /\ zst \in [Idx -> {None, Partial} \cup SUBSET Line]
  /\ checkpoint \in [w : Nat, a : Nat, i : Idx]
  /\ buf \subseteq Line
  /\ writeSeq \in Nat /\ readSeq \in Nat /\ ackSeq \in Nat
  /\ segmentIndex \in Idx /\ current \in BOOLEAN /\ count \in Nat
  /\ ragged \in BOOLEAN /\ totalBytes \in Nat
  /\ pc \in {"idle", "rotate", "compress", "compressed", "unlink", "create",
             "append", "sync", "commit", "checkpoint", "rewrite", "gc",
             "sibling"}
  /\ caller \in {"none", "enqueue", "ack", "gc", "checkpoint"}
  /\ victim \in Idx
  /\ attempts \in 0 .. MaxEvents /\ accepted \subseteq Ids
  /\ stable \subseteq Line /\ popped \subseteq Line /\ settled \subseteq Ids
  /\ faults \in Nat /\ crashes \in Nat

Init ==
  /\ plain = [i \in Idx |-> None] /\ zst = [i \in Idx |-> None]
  /\ garbled = [i \in Idx |-> None] /\ torn = {} /\ unlinked = {}
  /\ checkpoint = NoCheckpoint
  /\ buf = {}
  /\ writeSeq = 0 /\ readSeq = 0 /\ ackSeq = 0
  /\ segmentIndex = 0 /\ current = FALSE /\ count = 0 /\ ragged = FALSE /\ totalBytes = 0
  /\ pc = "idle" /\ caller = "none" /\ victim = 0
  /\ attempts = 0 /\ accepted = {} /\ stable = {} /\ popped = {} /\ settled = {}
  /\ faults = 0 /\ crashes = 0

-----------------------------------------------------------------------------
(* The segment set.  segment_files keeps one file per index, the .seg if   *)
(* both forms exist.                                                       *)

segment_files(p, z, g) == {i \in Idx : p[i] # None \/ z[i] # None \/ g[i] # None}

\* What a read of a segment finds.
Content(p, z, i) ==
  IF p[i] # None THEN p[i]
  ELSE IF z[i] \in {None, Partial} THEN {} ELSE z[i]

\* The length of some lines.
Bytes(S) ==
  LET sum[k \in Idx] ==
        (IF \E l \in S : l.id = k THEN Width[k] ELSE 0)
          + (IF k = 0 THEN 0 ELSE sum[k - 1])
  IN  sum[MaxEvents]

FileSize(p, z, t, g, i) ==
  IF g[i] # None THEN Bytes(g[i]) + 1
  ELSE IF p[i] # None THEN Bytes(p[i]) + Cardinality({i} \cap t)
  ELSE IF z[i] # None THEN 1 ELSE 0

SizesUpTo(p, z, t, g) ==
  LET sum[i \in Idx] ==
        FileSize(p, z, t, g, i) + (IF i = 0 THEN 0 ELSE sum[i - 1])
  IN  sum

calculate_total_size(p, z, t, g) == SizesUpTo(p, z, t, g)[MaxEvents]

\* A .seg that is not text and a lone .zst that does not decode make every read
\* that reaches them fail.
Unreadable(p, z, i) == garbled[i] # None \/ (p[i] = None /\ z[i] = Partial)

\* The .seg files with these lines of the buffer.
With(kept) == IF current THEN [plain EXCEPT ![segmentIndex] = @ \cup kept] ELSE plain

\* The .seg files after the BufWriter has been flushed.
Flushed == With(buf)

MaxOf(S, n) == IF S = {} THEN n ELSE CHOOSE m \in S : \A k \in S : k <= m
MinOf(S) == CHOOSE m \in S : \A k \in S : m <= k
Larger(m, n) == IF m < n THEN n ELSE m

Fault(point) ==
  /\ point \in FaultPoints /\ faults < MaxFaults
  /\ faults' = faults + 1

Call(step, name) == pc' = step /\ caller' = name /\ victim' = 0
Goto(step) == Call(step, caller)
Return == Call("idle", "none")

-----------------------------------------------------------------------------
(* enqueue and rotate_segment                                              *)

\* Faulty variant: accepts one line more than max_bytes.
EnqueueStartAtLimit ==
  /\ pc = "idle" /\ attempts < MaxEvents
  /\ totalBytes <= MaxBytes
  /\ attempts' = attempts + 1
  /\ Call(IF ~current \/ count >= SegmentSize THEN "rotate" ELSE "append",
          "enqueue")
  /\ UNCHANGED <<diskVars, checkpoint, buf, cursors, writerVars, totalBytes,
                 accepted, stable, popped, settled, faults, crashes>>

EnqueueStart ==
  /\ pc = "idle" /\ attempts < MaxEvents
  /\ totalBytes < MaxBytes
  /\ attempts' = attempts + 1
  /\ Call(IF ~current \/ count >= SegmentSize THEN "rotate" ELSE "append",
          "enqueue")
  /\ UNCHANGED <<diskVars, checkpoint, buf, cursors, writerVars, totalBytes,
                 accepted, stable, popped, settled, faults, crashes>>

\* How the active segment ends when its writer is lost before all of its lines have
\* reached the file: after a line, in a part of a line, or inside a character.
Cuts == {"whole", "part", "garbled"}

\* A prefix of the buffer, in the order of its lines.
IsPrefix(kept) == kept \subseteq buf /\ \A l \in kept, m \in buf : m.id < l.id => m \in kept

MayCut(kept, cut) ==
  /\ cut # "whole" => current /\ kept # buf
  /\ cut = "garbled" => MultiByte

\* The .seg files p, of which the active one ends in that way.
Torn(cut) == IF cut = "part" THEN torn \cup {segmentIndex} ELSE torn
Text(p, cut) == IF cut = "garbled" THEN [p EXCEPT ![segmentIndex] = None] ELSE p
NotText(p, cut) ==
  IF cut = "garbled" THEN [garbled EXCEPT ![segmentIndex] = p[segmentIndex]] ELSE garbled

\* The writer is taken, flushed and dropped.  When the flush fails a prefix of
\* the buffer has reached the file and the rest is gone with the writer.
RotateFlush(failed, kept, cut) ==
  /\ pc = "rotate"
  /\ IsPrefix(kept) /\ MayCut(kept, cut)
  /\ IF failed THEN Fault("flush") /\ current ELSE kept = buf /\ UNCHANGED faults
  /\ plain' = Text(With(kept), cut) /\ garbled' = NotText(With(kept), cut)
  /\ torn' = Torn(cut)
  /\ stable' = stable \cup kept
  /\ buf' = {} /\ current' = FALSE /\ ragged' = FALSE
  /\ IF failed THEN Return
     ELSE Goto(IF current /\ Compress THEN "compress" ELSE "create")
  /\ UNCHANGED <<zst, unlinked, checkpoint, cursors, segmentIndex, count,
                 totalBytes, attempts, accepted, popped, settled, crashes>>

\* The segment is read and encoded; fs::write creates the compressed file, then
\* fills it.
CompressWrite(failed) ==
  /\ pc = "compress"
  /\ \/ zst' = [zst EXCEPT ![segmentIndex] = Partial]
     \/ failed /\ UNCHANGED zst
  /\ IF failed THEN Fault("compress") /\ Return
               ELSE UNCHANGED faults /\ Goto("compressed")
  /\ UNCHANGED <<plain, garbled, torn, unlinked, checkpoint, buf, cursors, writerVars,
                 totalBytes, ghosts, crashes>>

\* In fsync mode the file and the directory are synced before the .seg goes.
CompressDone(failed) ==
  /\ pc = "compressed"
  /\ zst' = [zst EXCEPT ![segmentIndex] = plain[segmentIndex]]
  /\ IF failed THEN Fsync /\ Fault("compress") /\ Return /\ UNCHANGED unlinked
               ELSE UNCHANGED faults /\ Goto("unlink") /\ unlinked' = {}
  /\ UNCHANGED <<plain, garbled, torn, checkpoint, buf, cursors, writerVars, totalBytes,
                 ghosts, crashes>>

CompressUnlink(failed) ==
  /\ pc = "unlink"
  /\ plain' = [plain EXCEPT ![segmentIndex] = None]
  /\ IF failed THEN Fsync /\ Fault("compress") /\ Return
               ELSE UNCHANGED faults /\ Goto("create")
  /\ UNCHANGED <<garbled, torn, zst, unlinked, checkpoint, buf, cursors, writerVars,
                 totalBytes, ghosts, crashes>>

\* The next segment is created, its directory entry synced in fsync mode, and
\* total_bytes recomputed.
RotateCreate(result) ==
  LET n == segmentIndex + 1 IN
  /\ pc = "create"
  /\ segmentIndex' = n /\ count' = 0
  /\ CASE result = "ok" -> UNCHANGED faults
       [] result = "create_err" -> Fault("create")
       [] result = "link_err" -> Fsync /\ Fault("link")
  /\ IF result = "create_err"
       THEN UNCHANGED <<plain, current>>
       ELSE /\ plain' = [plain EXCEPT ![n] = IF @ = None THEN {} ELSE @]
            /\ current' = TRUE
  /\ unlinked' = CASE result = "link_err" -> unlinked \cup {n}
                   [] result = "create_err" -> unlinked
                   [] OTHER -> {}
  /\ IF result = "ok"
       THEN totalBytes' = calculate_total_size(plain', zst, torn, garbled) /\ Goto("append")
       ELSE UNCHANGED totalBytes /\ Return
  /\ UNCHANGED <<garbled, torn, zst, checkpoint, buf, cursors, ragged, ghosts, crashes>>

\* The line that is being enqueued.
NewLine == [seq |-> writeSeq, id |-> attempts]

\* A line after a part of a line is one line with it, which does not parse.
AppendLine ==
  /\ pc = "append"
  /\ buf' = IF ragged THEN buf ELSE buf \cup {NewLine}
  /\ ragged' = FALSE
  /\ totalBytes' = totalBytes + Width[attempts]
  /\ Goto(IF Fsync THEN "sync" ELSE "commit")
  /\ UNCHANGED <<diskVars, checkpoint, cursors, segmentIndex, current, count, ghosts,
                 faults, crashes>>

\* writeln! fails as the BufWriter makes room or passes the line on: a prefix of the
\* buffer has reached the file, and perhaps a part of the new line after it.
AppendFails(kept, part) ==
  /\ pc = "append" /\ Fault("append") /\ Return
  /\ IsPrefix(kept)
  /\ plain' = With(kept) /\ stable' = stable \cup kept /\ buf' = buf \ kept
  /\ IF part THEN ragged' = TRUE /\ torn' = torn \cup {segmentIndex}
             ELSE UNCHANGED <<ragged, torn>>
  /\ UNCHANGED <<garbled, zst, unlinked, checkpoint, cursors, segmentIndex, current,
                 count, totalBytes, attempts, accepted, popped, settled, crashes>>

\* fsync mode: flush and sync_data.  After a failed flush the line stays in the
\* BufWriter; after a failed sync it is in the file.
AppendSync(failed) ==
  /\ pc = "sync"
  /\ IF failed THEN Fault("sync") /\ Return ELSE UNCHANGED faults /\ Goto("commit")
  /\ \/ /\ plain' = Flushed /\ stable' = stable \cup buf /\ buf' = {}
     \/ failed /\ UNCHANGED <<plain, stable, buf>>
  /\ UNCHANGED <<garbled, torn, zst, unlinked, checkpoint, cursors, writerVars,
                 totalBytes, attempts, accepted, popped, settled, crashes>>

Commit ==
  /\ pc = "commit"
  /\ writeSeq' = writeSeq + 1 /\ count' = count + 1
  /\ IF (writeSeq + 1) % CheckpointInterval = 0
       THEN Goto("checkpoint") /\ UNCHANGED accepted
       ELSE Return /\ accepted' = accepted \cup {attempts}
  /\ UNCHANGED <<diskVars, checkpoint, buf, readSeq, ackSeq, segmentIndex,
                 current, ragged, totalBytes, attempts, stable, popped, settled, faults,
                 crashes>>

-----------------------------------------------------------------------------
(* checkpoint                                                              *)

\* What follows a checkpoint: ack goes on to gc, every other caller returns.
AfterCheckpoint ==
  /\ IF caller = "ack" THEN Goto("gc") ELSE Return
  /\ accepted' = IF caller = "enqueue" THEN accepted \cup {attempts} ELSE accepted

\* Faulty variant: persists the last sequence written, not the next one.
CurrentLast == [w |-> writeSeq - 1, a |-> ackSeq, i |-> segmentIndex]

Current == [w |-> writeSeq, a |-> ackSeq, i |-> segmentIndex]

\* fsync mode renames a synced temporary file over the checkpoint and syncs the
\* directory; a failure before the rename leaves the old one, a failed directory
\* sync may leave the new one.  Otherwise fs::write truncates the file before it
\* writes it.
Checkpoint(failed) ==
  /\ pc = "checkpoint"
  /\ IF failed
       THEN /\ Fault("checkpoint") /\ Return /\ UNCHANGED <<accepted, unlinked>>
            /\ UNCHANGED checkpoint \/ (Fsync /\ checkpoint' = Current)
       ELSE /\ UNCHANGED faults
            /\ IF Fsync
                 THEN checkpoint' = Current /\ unlinked' = {} /\ AfterCheckpoint
                 ELSE /\ checkpoint' = NoCheckpoint /\ Goto("rewrite")
                      /\ UNCHANGED <<unlinked, accepted>>
  /\ UNCHANGED <<plain, garbled, torn, zst, buf, cursors, writerVars, totalBytes,
                 attempts, stable, popped, settled, crashes>>

CheckpointWrite(failed) ==
  /\ pc = "rewrite"
  /\ IF failed THEN Fault("checkpoint") /\ Return /\ UNCHANGED <<checkpoint, accepted>>
               ELSE checkpoint' = Current /\ UNCHANGED faults /\ AfterCheckpoint
  /\ UNCHANGED <<diskVars, buf, cursors, writerVars, totalBytes, attempts,
                 stable, popped, settled, crashes>>

-----------------------------------------------------------------------------
(* dequeue_with_seq(1) / pop_with_seq, ack, gc, close                      *)

\* Faulty variant: reads after the read cursor.
CandidatesAfter(p) ==
  {i \in Idx : \E l \in Content(p, zst, i) : l.seq > readSeq}

\* The first line at or after the read cursor, in segment order.
Candidates(p) ==
  {i \in Idx : \E l \in Content(p, zst, i) : l.seq >= readSeq}

FirstLine(p) ==
  LET L == {l \in Content(p, zst, MinOf(Candidates(p))) : l.seq >= readSeq}
  IN  CHOOSE l \in L : \A m \in L : l.id <= m.id

\* Segments are read in order up to the first that yields a line.
ReadFails(p) ==
  \E i \in Idx : Unreadable(p, zst, i) /\ \A j \in Candidates(p) : i < j

Pop ==
  /\ pc = "idle"
  /\ plain' = Flushed /\ stable' = stable \cup buf /\ buf' = {}
  /\ IF Candidates(Flushed) # {} /\ ~ReadFails(Flushed)
       THEN LET l == FirstLine(Flushed)
            IN  readSeq' = l.seq + 1 /\ popped' = popped \cup {l}
       ELSE buf # {} /\ UNCHANGED <<readSeq, popped>>
  /\ UNCHANGED <<garbled, torn, zst, unlinked, checkpoint, writeSeq, ackSeq, writerVars,
                 totalBytes, callVars, attempts, accepted, settled, faults,
                 crashes>>

\* The consumer acknowledges a prefix of what it has been handed.
Ack(upTo) ==
  /\ pc = "idle" /\ upTo <= readSeq
  /\ ackSeq' = Larger(ackSeq, upTo) /\ readSeq' = Larger(readSeq, Larger(ackSeq, upTo))
  /\ settled' = settled \cup {l.id : l \in {m \in popped : m.seq < upTo}}
  /\ Call("checkpoint", "ack")
  /\ UNCHANGED <<diskVars, checkpoint, buf, writeSeq, writerVars, totalBytes,
                 attempts, accepted, stable, popped, faults, crashes>>

\* Faulty variants: gc follows the read cursor, or takes the line at ack_seq too.
segment_fully_read(i) ==
  /\ ~Unreadable(plain, zst, i) /\ i \notin torn
  /\ 0 < readSeq /\ \A l \in Content(plain, zst, i) : l.seq < readSeq

segment_consumed_through(i) ==
  /\ ~Unreadable(plain, zst, i) /\ i \notin torn
  /\ 0 < ackSeq /\ \A l \in Content(plain, zst, i) : l.seq <= ackSeq

\* Every line parses and is below the durable cursor.
segment_fully_consumed(i) ==
  /\ ~Unreadable(plain, zst, i) /\ i \notin torn
  /\ 0 < ackSeq /\ \A l \in Content(plain, zst, i) : l.seq < ackSeq

Reclaimable ==
  {i \in segment_files(plain, zst, garbled) :
     ~(current /\ i = segmentIndex) /\ segment_fully_consumed(i)}

\* gc() called by the drainer.
GcStart ==
  /\ pc = "idle"
  /\ Call("gc", "gc")
  /\ UNCHANGED <<diskVars, checkpoint, buf, cursors, writerVars, totalBytes,
                 ghosts, faults, crashes>>

\* gc removes the listed form of each reclaimable segment, then its sibling.
GcRemove ==
  LET i == MinOf(Reclaimable) IN
  /\ pc = "gc" /\ Reclaimable # {}
  /\ IF plain[i] = None
       THEN zst' = [zst EXCEPT ![i] = None] /\ UNCHANGED <<plain, callVars>>
       ELSE /\ plain' = [plain EXCEPT ![i] = None] /\ UNCHANGED zst
            /\ IF zst[i] = None
                 THEN UNCHANGED callVars
                 ELSE pc' = "sibling" /\ victim' = i /\ UNCHANGED caller
  /\ UNCHANGED <<garbled, torn, unlinked, checkpoint, buf, cursors, writerVars,
                 totalBytes, ghosts, faults, crashes>>

GcRemoveSibling ==
  /\ pc = "sibling"
  /\ zst' = [zst EXCEPT ![victim] = None]
  /\ Goto("gc")
  /\ UNCHANGED <<plain, garbled, torn, unlinked, checkpoint, buf, cursors, writerVars,
                 totalBytes, ghosts, faults, crashes>>

\* Faulty variant: total_bytes keeps counting what gc removed.
GcEndStale(failed) ==
  /\ pc = "gc" /\ Reclaimable = {}
  /\ Return
  /\ UNCHANGED <<diskVars, checkpoint, buf, cursors, writerVars, totalBytes,
                 ghosts, faults, crashes>>

GcEnd(failed) ==
  /\ pc = "gc" /\ Reclaimable = {}
  /\ Return
  /\ IF failed
       THEN Fault("gc") /\ buf # {} /\ UNCHANGED <<plain, stable, buf, totalBytes>>
       ELSE /\ plain' = Flushed /\ stable' = stable \cup buf /\ buf' = {}
            /\ totalBytes' = calculate_total_size(plain', zst, torn, garbled)
            /\ UNCHANGED faults
  /\ UNCHANGED <<garbled, torn, zst, unlinked, checkpoint, cursors, writerVars, attempts,
                 accepted, popped, settled, crashes>>

\* checkpoint() called by the drainer when it stops, and close(), which also
\* flushes and drops the writer.
CheckpointStart(close) ==
  /\ pc = "idle"
  /\ IF close
       THEN /\ current /\ current' = FALSE /\ ragged' = FALSE
            /\ plain' = Flushed /\ stable' = stable \cup buf /\ buf' = {}
       ELSE UNCHANGED <<current, ragged, plain, stable, buf>>
  /\ Call("checkpoint", "checkpoint")
  /\ UNCHANGED <<garbled, torn, zst, unlinked, checkpoint, cursors, segmentIndex, count,
                 totalBytes, attempts, accepted, popped, settled, faults, crashes>>

-----------------------------------------------------------------------------
(* Crash and open                                                          *)

\* Faulty variant: recovery goes on with the last sequence number it found.
recover_segment_state_last(p, g, bad) ==
  LET lines == UNION {Content(p, zst, i) : i \in Idx \ bad}
  IN  [w |-> MaxOf({l.seq : l \in lines}, 0), i |-> MaxOf(segment_files(p, zst, g), 0)]

\* recover_segment_state reads every file, both forms of an index included;
\* `bad' are the segments whose reads fail.
recover_segment_state(p, g, bad) ==
  LET lines  == UNION ({IF p[i] = None THEN {} ELSE p[i] : i \in Idx \ bad}
                         \cup {IF zst[i] \in {None, Partial} THEN {} ELSE zst[i] :
                                 i \in Idx \ bad})
      hidden == Cardinality(bad) + Cardinality({i \in Idx \ bad : zst[i] = Partial})
                  + Cardinality({i \in Idx \ bad : g[i] # None})
  IN  [w |-> MaxOf({l.seq + 1 : l \in lines}, 0)
               + hidden * Larger(SegmentSize, 1),
       i |-> MaxOf(segment_files(p, zst, g), 0)]

\* A crash at any point and the next PersistentQueue::open.  A prefix of the
\* buffer has reached the active segment (BufWriter spills when it is full),
\* the line after it possibly in part; in fsync mode a power loss also takes
\* `gone', files whose directory entry was never synced.
CrashAndOpen(kept, cut, gone, bad) ==
  LET left(f) == [i \in Idx |-> IF i \in gone THEN None ELSE f[i]]
      p == left(Text(With(kept), cut))
      g == left(NotText(With(kept), cut))
      found == recover_segment_state(p, g, bad)
  IN
  /\ crashes < MaxCrashes /\ crashes' = crashes + 1
  /\ IsPrefix(kept) /\ MayCut(kept, cut)
  /\ gone \subseteq (IF Fsync THEN unlinked ELSE {})
  /\ bad \subseteq segment_files(p, zst, g)
  /\ IF bad = {} THEN UNCHANGED faults ELSE Fault("recover")
  /\ plain' = p /\ garbled' = g /\ torn' = Torn(cut) \ gone
  /\ stable' = stable \cup kept
  /\ buf' = {} /\ unlinked' = {}
  /\ writeSeq' = Larger(checkpoint.w, found.w)
  /\ readSeq' = checkpoint.a /\ ackSeq' = checkpoint.a
  /\ segmentIndex' = Larger(checkpoint.i, found.i)
  /\ current' = FALSE /\ count' = 0 /\ ragged' = FALSE
  /\ totalBytes' = calculate_total_size(p, zst, torn', g)
  /\ Return
  /\ popped' = {}
  /\ UNCHANGED <<zst, checkpoint, attempts, accepted, settled>>

-----------------------------------------------------------------------------

\* The steps of a call in progress.
CallStep ==
  \/ \E f \in BOOLEAN :
       \/ CompressWrite(f) \/ CompressDone(f) \/ CompressUnlink(f)
       \/ AppendSync(f) \/ Checkpoint(f) \/ CheckpointWrite(f) \/ GcEnd(f)
       \/ \E K \in SUBSET buf, c \in Cuts : RotateFlush(f, K, c)
  \/ \E r \in {"ok", "create_err", "link_err"} : RotateCreate(r)
  \/ \E K \in SUBSET buf, part \in BOOLEAN : AppendFails(K, part)
  \/ AppendLine \/ Commit \/ GcRemove \/ GcRemoveSibling

Next ==
  \/ EnqueueStart \/ Pop \/ GcStart
  \/ \E c \in BOOLEAN : CheckpointStart(c)
  \/ \E n \in 1 .. readSeq : Ack(n)
  \/ CallStep
  \/ \E K \in SUBSET buf, c \in Cuts, G \in SUBSET unlinked,
        B \in SUBSET Idx : CrashAndOpen(K, c, G, B)

Spec == Init /\ [][Next]_vars

\* A call that has begun runs to its end, and the consumer keeps popping and
\* acknowledges what it was given (the drainer and the periodic flush_and_ack).
LiveSpec ==
  /\ Spec
  /\ WF_vars(CallStep) /\ SF_vars(Pop)
  /\ SF_vars(Ack(readSeq)) /\ SF_vars(GcStart)

-----------------------------------------------------------------------------
(* Properties                                                              *)

\* The lines that can be read back, and those in files that are no text any more.
OnDisk == UNION {Content(plain, zst, i) : i \in Idx}
Buried == UNION {IF garbled[i] = None THEN {} ELSE garbled[i] : i \in Idx}

\* Ahead of the reads of this run, and the only line they can find at its seq.
Ahead(l) ==
  /\ readSeq <= l.seq
  /\ \A m \in OnDisk \cup buf : m.seq = l.seq => m = l

\* Storage half of at-least-once.  An event whose enqueue returned Ok and that the
\* consumer has not acknowledged is in a readable segment (or still in the writer's
\* buffer), and either was handed out in this run or is ahead of the reads; or it is
\* kept in a file that a crash has cut inside a character.  Without fsync this is
\* promised to the events that had reached their file.  A file that cannot be read
\* holds up all that comes after it: its events are kept, not delivered (enqueue,
\* dequeue_with_seq, rotate_segment, gc and open together).
Recoverable ==
  \A id \in accepted \ settled :
    Fsync \/ id \in {l.id : l \in stable \cup buf} =>
      \E l \in OnDisk \cup buf \cup Buried :
        l.id = id /\ (l \in popped \/ l \in Buried \/ Ahead(l))

\* A sequence number is never given out twice: between calls write_seq is past every
\* line that can be read, in the segments and in the buffer, also after recovery from a stale or
\* truncated checkpoint (recover_segment_state, enqueue).
WriteSeqClears ==
  pc = "idle" => \A l \in OnDisk \cup buf : l.seq < writeSeq

\* An entry that reached the disk stays there until it is acknowledged, whatever
\* rotation, compression, gc or a crash does to the files around it; and it stays
\* readable, unless its file has been cut inside a character.
StableKept ==
  \A l \in stable : l.id \in settled \/ l \in OnDisk \cup Buried

\* What the segments take and the writer buffers.
Used == calculate_total_size(plain, zst, torn, garbled) + Bytes(buf)

\* total_bytes is what a reopen would compute plus what the writer buffers, so
\* that compression, gc and recovery leave no drift behind
\* (recompute_total_bytes).
TotalAuthoritative == pc = "idle" /\ faults = 0 => totalBytes = Used

\* The segments never take max_bytes and a whole line, whatever call failed or
\* crashed half-way: total_bytes may over-count but never under-counts.  The line
\* that is over is the last: enqueue's guard is read before its length is added.
\* (After a writeln! that fails as it writes, the part that got to the file is counted
\* by the next rotation, gc or open only: "append" \notin FaultPoints.)
SpaceBounded == Used < MaxBytes + LongestLine

\* A full queue does not stay full while its consumer pops and acknowledges, unless
\* a segment holds a part of a line, and gc keeps that one and the room it takes, or a
\* file that cannot be read holds up the consumer.
FullIsTransient ==
  (totalBytes >= MaxBytes) ~>
    (totalBytes < MaxBytes \/ torn # {} \/ \E i \in Idx : Unreadable(plain, zst, i))
=============================================================================
