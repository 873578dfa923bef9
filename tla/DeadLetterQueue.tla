--------------------------- MODULE DeadLetterQueue ---------------------------
(***************************************************************************)
(* The files of the dead letter queue.  A record is one line; write()      *)
(* flushes it before it says "captured", and the pipeline acknowledges the *)
(* record's queue entry on that word.  A line reaches its file whole, or   *)
(* in parts when the file system fails; what follows a part on the same    *)
(* line cannot be read back, and nothing in a file in which a part ends    *)
(* inside a character of several bytes.                                    *)
(***************************************************************************)
EXTENDS Naturals, Sequences, SequencesExt, FiniteSetsExt

CONSTANTS NumDead,        \* records that are written
          LongLines,      \* records longer than the BufWriter's 8 KiB
          DlqMaxBytes,    \* max_bytes; a line has LineSize, a part of one 1
          FlushInterval,  \* flush_interval of push()
          MaxDlqFaults,
          MaxDlqRestarts

ASSUME DlqAssumption ==
  /\ {NumDead, DlqMaxBytes, FlushInterval, MaxDlqFaults, MaxDlqRestarts} \subseteq Nat
  /\ LongLines \subseteq 1 .. NumDead

LineSize == 2
Whole(r) == [rec |-> r, whole |-> TRUE, garbled |-> FALSE]

\* A part of a line; garbled if it ends inside a character.
Part(r) == [rec |-> r, whole |-> FALSE, garbled |-> FALSE]
Parts(r) == [rec : {r}, whole : {FALSE}, garbled : BOOLEAN]

VARIABLES
  fsync,       \* DlqConfig::fsync
  files,       \* one per second in which the queue was opened; the last is open
  synced,      \* pieces of each file that a power loss cannot take
  stream,      \* the BufWriter: lines, and whether the first is partly in the file
  total,       \* total_bytes
  written,     \* events_written
  dead,        \* records offered so far
  captured,    \* records for which write() returned Ok(true)
  dlqFaults, dlqRestarts

dlqVars == <<fsync, files, synced, stream, total, written, dead, captured, dlqFaults,
             dlqRestarts>>

NoLines == [lines |-> <<>>, begun |-> FALSE]

DlqInit ==
  /\ fsync \in BOOLEAN
  /\ files = << <<>> >> /\ synced = <<0>> /\ stream = NoLines
  /\ total = 0 /\ written = 0 /\ dead = 0 /\ captured = {}
  /\ dlqFaults = 0 /\ dlqRestarts = 0

(***************************************************************************)
(* The BufWriter.  st is the open file with the lines that wait for it.    *)
(***************************************************************************)

State == [file |-> Last(files), lines |-> stream.lines, begun |-> stream.begun]

(* The first k lines are written; the first of all may complete a part.    *)
Written(st, k) ==
  [file |-> (IF st.begun /\ k > 0 THEN Front(st.file) ELSE st.file)
              \o [i \in 1 .. k |-> Whole(st.lines[i])],
   lines |-> SubSeq(st.lines, k + 1, Len(st.lines)),
   begun |-> st.begun /\ k = 0]

Flush(st) == Written(st, Len(st.lines))

(* A flush that fails keeps what was not written, from the byte on where   *)
(* it failed.                                                              *)
FailedFlushes(st) ==
  LET Cut == {Written(st, k) : k \in 0 .. Len(st.lines) - 1}
      Begun(s) == IF s.begun THEN {}
                  ELSE {[s EXCEPT !.file = Append(@, x), !.begun = TRUE] : x \in Parts(s.lines[1])}
  IN Cut \union UNION {Begun(s) : s \in Cut}

Buffered(st, r) == [st EXCEPT !.lines = Append(@, r)]

(* A long line goes past the buffer: what waits is flushed, the line is    *)
(* written, and only its end of line waits.                                *)
PastBuffer(st, r) ==
  LET f == Flush(st) IN [file |-> Append(f.file, Part(r)), lines |-> <<r>>, begun |-> TRUE]

(* writeln! that succeeds. *)
Writeln(st, r) == IF r \in LongLines THEN PastBuffer(st, r) ELSE Buffered(st, r)

(* A failing write of a long line leaves a part that nothing completes.    *)
FailedWritelns(st, r) ==
  IF r \notin LongLines THEN {}
  ELSE {[Flush(st) EXCEPT !.file = Append(@, x)] : x \in Parts(r)}
         \union {Flush(st)} \union FailedFlushes(st)

Keep(st) ==
  /\ files' = [files EXCEPT ![Len(files)] = st.file]
  /\ stream' = [lines |-> st.lines, begun |-> st.begun]

Count ==
  /\ total' = total + LineSize
  /\ written' = written + 1

DlqFault == dlqFaults < MaxDlqFaults /\ dlqFaults' = dlqFaults + 1

Synced(st) == [synced EXCEPT ![Len(files)] = Len(st.file)]

(***************************************************************************)
(* write()                                                                 *)
(***************************************************************************)

Full == total >= DlqMaxBytes

(* Ok(false): the record is dropped. *)
WriteDropped ==
  /\ dead < NumDead /\ dead' = dead + 1
  /\ Full
  /\ UNCHANGED <<fsync, files, synced, stream, total, written, captured, dlqFaults, dlqRestarts>>

(* Mutant: leaves the record to the next flush, as push() does. *)
WriteBuffered ==
  /\ dead < NumDead /\ dead' = dead + 1
  /\ ~Full
  /\ Keep(Writeln(State, dead')) /\ Count
  /\ captured' = captured \union {dead'}
  /\ UNCHANGED <<fsync, synced, dlqFaults, dlqRestarts>>

WriteCaptured ==
  /\ dead < NumDead /\ dead' = dead + 1
  /\ ~Full
  /\ LET st == Flush(Writeln(State, dead')) IN
       /\ Keep(st) /\ Count
       /\ synced' = IF fsync THEN Synced(st) ELSE synced
  /\ captured' = captured \union {dead'}
  /\ UNCHANGED <<fsync, dlqFaults, dlqRestarts>>

(* Err: from writeln, before the record is counted, from flush, or from    *)
(* sync_data.                                                              *)
WriteFails ==
  /\ dead < NumDead /\ dead' = dead + 1
  /\ ~Full
  /\ DlqFault
  /\ LET st == Writeln(State, dead') IN
       \/ \E s \in FailedWritelns(State, dead') : Keep(s) /\ UNCHANGED <<total, written>>
       \/ \E s \in FailedFlushes(st) : Keep(s) /\ Count
       \/ fsync /\ Keep(Flush(st)) /\ Count
  /\ UNCHANGED <<fsync, synced, captured, dlqRestarts>>

(***************************************************************************)
(* push(): buffered, and flushed after every flush_interval records.       *)
(***************************************************************************)

PushFlushes == (written + 1) % Max({FlushInterval, 1}) = 0

Push ==
  /\ dead < NumDead /\ dead' = dead + 1
  /\ ~Full
  /\ LET st == Writeln(State, dead') IN
       \/ /\ Keep(IF PushFlushes THEN Flush(st) ELSE st)
          /\ Count /\ UNCHANGED dlqFaults
       \/ /\ DlqFault
          /\ \E s \in FailedWritelns(State, dead') : Keep(s)
          /\ UNCHANGED <<total, written>>
       \/ /\ DlqFault /\ PushFlushes
          /\ \E s \in FailedFlushes(st) : Keep(s)
          /\ Count
  /\ UNCHANGED <<fsync, synced, captured, dlqRestarts>>

CloseDlq ==
  /\ stream.lines # <<>>
  /\ \/ Keep(Flush(State)) /\ UNCHANGED dlqFaults
     \/ DlqFault /\ \E s \in FailedFlushes(State) : Keep(s)
  /\ UNCHANGED <<fsync, synced, total, written, dead, captured, dlqRestarts>>

(***************************************************************************)
(* The process ends and open() runs again.  An exit drops the BufWriter,   *)
(* which flushes it; a crash takes its lines; a power loss, which only the *)
(* fsync mode is meant for, also takes what was not synced.                *)
(***************************************************************************)

Torn(file, kept) ==
  LET Short == {SubSeq(file, 1, k) : k \in kept .. Len(file)}
  IN Short \union UNION {{Append(SubSeq(file, 1, k - 1), x) : x \in Parts(file[k].rec)} :
                          k \in kept + 1 .. Len(file)}

Remains(how) ==
  CASE how = "exit" -> {[files EXCEPT ![Len(files)] = Flush(State).file]}
    [] how = "crash" -> {files}
    [] how = "power" ->
         {g \in [1 .. Len(files) -> UNION {Torn(files[i], synced[i]) : i \in 1 .. Len(files)}] :
            \A i \in 1 .. Len(files) : g[i] \in Torn(files[i], synced[i])}

FileBytes(file) == FoldSeq(LAMBDA p, n : n + IF p.whole THEN LineSize ELSE 1, 0, file)
calculate_total_size(fs) == FoldSeq(LAMBDA f, n : n + FileBytes(f), 0, fs)

(* open() within the same second appends to the same file. *)
RestartDlq ==
  /\ dlqRestarts < MaxDlqRestarts /\ dlqRestarts' = dlqRestarts + 1
  /\ \E how \in {"exit", "crash", "power"} : \E left \in Remains(how) : \E same \in BOOLEAN :
       /\ how = "power" => fsync
       /\ files' = IF same THEN left ELSE Append(left, <<>>)
       /\ synced' = LET kept == IF how = "power" THEN [i \in DOMAIN left |-> Len(left[i])] ELSE synced
                    IN IF same THEN kept ELSE Append(kept, 0)
       /\ total' = calculate_total_size(left)
  /\ stream' = NoLines /\ written' = 0
  /\ UNCHANGED <<fsync, dead, captured, dlqFaults>>

DlqNext ==
  WriteDropped \/ WriteCaptured \/ WriteFails \/ Push \/ CloseDlq \/ RestartDlq

DlqSpec == DlqInit /\ [][DlqNext]_dlqVars

(***************************************************************************)
(* read_all(): the lines that parse.  A whole line after a part is on the  *)
(* part's line; a file that is not UTF-8 gives none (read_to_string with   *)
(* unwrap_or_default).                                                     *)
(***************************************************************************)

AfterPart(file, i) == i > 1 /\ ~file[i - 1].whole
Garbled(file) == \E i \in DOMAIN file : file[i].garbled

read_all(fs) ==
  UNION {{f[i].rec : i \in {j \in DOMAIN f : f[j].whole /\ ~AfterPart(f, j)}} :
           f \in {g \in ToSet(fs) : ~Garbled(g)}}

(* A record that write() called captured stays in its file for ever:       *)
(* through failed writes and flushes of other records, buffered pushes     *)
(* before it, a crash, a restart within the same second and, in the fsync  *)
(* mode, a power loss.  read_all gives it unless the file ended in a part  *)
(* of a line when it came, or a part in the file ends inside a character.  *)
CapturedKept ==
  \A r \in captured :
    \/ r \in read_all(files)
    \/ \E f \in ToSet(files) : \E i \in DOMAIN f :
         f[i] = Whole(r) /\ (AfterPart(f, i) \/ Garbled(f))

=============================================================================
