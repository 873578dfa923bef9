----------------------------- MODULE PollInputs -----------------------------
(***************************************************************************)
(* The inputs that poll a source and keep their own position in it: file   *)
(* (sincedb), s3 (the keys seen), jdbc (sql_last_value), elasticsearch     *)
(* (last_run_metadata), cloudwatch (a sliding window), and those that keep *)
(* none: dead_letter_queue, exec, http_poller, and the timers heartbeat    *)
(* and generator.  Records 1 .. NumRecords come into being in order:       *)
(* lines, objects, rows, documents, datapoints, entries.                   *)
(***************************************************************************)
EXTENDS Naturals, Sequences, FiniteSets, SequencesExt

CONSTANTS NumRecords,
          PageSize,     \* s3: page of a listing; jdbc: jdbc_page_size
          Interval,     \* cloudwatch: interval, in the time datapoints come
          MaxPollFaults, MaxPollRestarts,
          PollConfigs   \* the configurations to choose from; for s3 also which
                        \* objects do not decode or exceed max_object_size, for
                        \* file which lines are not UTF-8

ASSUME PollAssumption ==
  /\ {NumRecords, PageSize, Interval, MaxPollFaults, MaxPollRestarts} \subseteq Nat
  /\ PageSize > 0 /\ Interval > 0

Records == 1 .. NumRecords

VARIABLES
  cfg,       \* the configuration: which input, and its settings
  made,      \* number of records (and, for cloudwatch, the time)
  content,   \* the records now in the source, in its order
  truncated, \* file: the file was truncated once
  pos,       \* position in memory
  disk,      \* position that survives a restart
  cur,       \* offset, continuation token or end of the sleep in this cycle
  best,      \* jdbc, elasticsearch: tracked value of this cycle
  more,      \* there is another page
  batch,     \* records fetched and not sent
  seen,      \* s3: keys processed in this run; elasticsearch: what the
             \* point in time holds
  sent,      \* how often each record was sent in this run
  ever,      \* records sent in any run
  refused,   \* records whose send found the channel closed
  ppc, pshut, popen, pfaults, prestarts

pollVars == <<cfg, made, content, truncated, pos, disk, cur, best, more, batch,
              seen, sent, ever, refused, ppc, pshut, popen, pfaults, prestarts>>
sourceVars == <<made, content, truncated>>
cycleVars == <<cur, best, more, batch>>
sendVars == <<sent, ever, refused>>
runVars == <<cfg, pshut, popen, prestarts>>

NoPos == NumRecords + 1   \* no entry in the sincedb

PollInit ==
  /\ cfg \in PollConfigs
  /\ made = 0 /\ content = <<>> /\ truncated = FALSE
  /\ pos = (IF cfg.kind = "file" THEN NoPos ELSE 0) /\ disk = pos
  /\ cur = 0 /\ best = 0 /\ more = FALSE /\ batch = <<>>
  /\ seen = {} /\ sent = [r \in Records |-> 0] /\ ever = {} /\ refused = {}
  /\ ppc = "poll" /\ pshut = FALSE /\ popen = TRUE
  /\ pfaults = 0 /\ prestarts = 0

PollFault == pfaults < MaxPollFaults /\ pfaults' = pfaults + 1

(***************************************************************************)
(* The environment                                                         *)
(***************************************************************************)

Produce ==
  /\ made < NumRecords
  /\ made' = made + 1 /\ content' = Append(content, made + 1)
  /\ UNCHANGED <<truncated, pos, disk, cycleVars, seen, sendVars, ppc, pfaults, runVars>>

Truncate ==
  /\ cfg.kind = "file" /\ ~truncated
  /\ content' = <<>> /\ truncated' = TRUE
  /\ UNCHANGED <<made, pos, disk, cycleVars, seen, sendVars, ppc, pfaults, runVars>>

PollShutdown ==
  /\ ~pshut /\ ppc # "stopped"
  /\ pshut' = TRUE
  /\ UNCHANGED <<sourceVars, pos, disk, cycleVars, seen, sendVars, ppc, pfaults,
                 cfg, popen, prestarts>>

PollCloseChannel ==
  /\ popen /\ ppc # "stopped"
  /\ popen' = FALSE
  /\ UNCHANGED <<sourceVars, pos, disk, cycleVars, seen, sendVars, ppc, pfaults,
                 cfg, pshut, prestarts>>

(* load_sincedb, load_last_value: what the next start finds. *)
LoadPosition == IF cfg.kind = "jdbc" /\ cfg.clean THEN 0 ELSE disk

(* For the inputs that keep nothing a restart is a first start. *)
PollRestart ==
  /\ prestarts < MaxPollRestarts
  /\ cfg.kind \in {"file", "s3", "jdbc", "elasticsearch"}
  /\ prestarts' = prestarts + 1
  /\ pos' = LoadPosition
  /\ cur' = 0 /\ best' = 0 /\ more' = FALSE /\ batch' = <<>> /\ seen' = {}
  /\ sent' = [r \in Records |-> 0]
  /\ ppc' = "poll" /\ pshut' = FALSE /\ popen' = TRUE
  /\ UNCHANGED <<cfg, sourceVars, disk, ever, refused, pfaults>>

(***************************************************************************)
(* Sending the next event of the batch: sender.send                        *)
(***************************************************************************)

(* What a poll asks for: the records at the indices I, which are a range    *)
(* because the source is in the order that the query's bounds are about.   *)
Slice(I) == IF I = {} THEN <<>> ELSE SubSeq(content, Min(I), Max(I))

FirstPage(s) == SubSeq(s, 1, IF Len(s) < PageSize THEN Len(s) ELSE PageSize)

Twice(n) == IF n = 0 THEN 1 ELSE 2   \* more than once is all the same

Send(r) ==
  IF popen
  THEN /\ sent' = [sent EXCEPT ![r] = Twice(@)] /\ ever' = ever \union {r}
       /\ UNCHANGED refused
  ELSE refused' = refused \union {r} /\ UNCHANGED <<sent, ever>>

(* The sleep between two cycles, or the shutdown signal. *)
Wait ==
  /\ ppc = "wait"
  /\ \/ ppc' = "poll" /\ (cfg.kind = "cloudwatch" => made >= cur)
     \/ pshut /\ ppc' = IF cfg.kind = "file" THEN "lastSave" ELSE "stopped"
  /\ cur' = IF ppc' = "poll" THEN 0 ELSE cur
  /\ UNCHANGED <<sourceVars, pos, disk, best, more, batch, seen, sendVars, pfaults, runVars>>

(***************************************************************************)
(* file.  pos is the offset in the positions map, batch holds the offset   *)
(* the cycle started from.                                                 *)
(***************************************************************************)

FileOffset ==
  CASE pos # NoPos -> pos
    [] pos = NoPos /\ cfg.start = "beginning" -> 0
    [] OTHER -> Len(content)

(* discover_files, the offset, open, stat and seek of read_file. *)
FileOpen ==
  /\ cfg.kind = "file" /\ ppc = "poll"
  /\ \/ /\ cur' = IF FileOffset > Len(content) THEN 0 ELSE FileOffset
        /\ batch' = <<FileOffset>> /\ ppc' = "read" /\ UNCHANGED pfaults
     \/ PollFault /\ ppc' = "save" /\ UNCHANGED <<cur, batch>>
  /\ UNCHANGED <<sourceVars, pos, disk, best, more, seen, sendVars, runVars>>

(* The loop of read_file: a line is counted whether or not it could be     *)
(* sent; end of file, a read error and a closed channel end the loop.      *)
(* read_line fails on a line that is not UTF-8, in this cycle and in every *)
(* later one: the offset stays before it.                                  *)
FileReadLine ==
  /\ cfg.kind = "file" /\ ppc = "read"
  /\ \/ /\ cur < Len(content) /\ content[cur + 1] \notin cfg.garbled
        /\ Send(content[cur + 1])
        /\ cur' = cur + 1
        /\ IF popen THEN ppc' = "read" /\ UNCHANGED pos
                    ELSE ppc' = "save" /\ pos' = cur + 1
        /\ UNCHANGED pfaults
     \/ /\ \/ /\ cur < Len(content) => content[cur + 1] \in cfg.garbled
              /\ UNCHANGED pfaults
           \/ PollFault
        /\ pos' = IF cur # batch[1] THEN cur ELSE pos
        /\ ppc' = "save"
        /\ UNCHANGED <<cur, sendVars>>
  /\ UNCHANGED <<sourceVars, disk, best, more, batch, seen, runVars>>

(* save_sincedb truncates the file and writes it; then exit_after_read. *)
SaveSincedb ==
  /\ cfg.kind = "file" /\ ppc \in {"save", "lastSave"}
  /\ disk' = IF cfg.sincedb THEN NoPos ELSE disk
  /\ ppc' = IF ppc = "save" THEN "write" ELSE "lastWrite"
  /\ UNCHANGED <<sourceVars, pos, cycleVars, seen, sendVars, pfaults, runVars>>

WriteSincedb ==
  /\ cfg.kind = "file" /\ ppc \in {"write", "lastWrite"}
  /\ \/ disk' = (IF cfg.sincedb THEN pos ELSE disk) /\ UNCHANGED pfaults
     \/ cfg.sincedb /\ PollFault /\ UNCHANGED disk
  /\ ppc' = IF ppc = "lastWrite" \/ cfg.exit THEN "stopped" ELSE "wait"
  /\ UNCHANGED <<sourceVars, pos, cycleVars, seen, sendVars, runVars>>

(***************************************************************************)
(* s3.  poll_once: a page of the listing after the continuation token.     *)
(***************************************************************************)

After(k) == Slice({i \in DOMAIN content : content[i] > k})

S3List ==
  /\ cfg.kind = "s3" /\ ppc = "poll"
  /\ \/ LET keys == After(cur)
            page == FirstPage(keys)
        IN  /\ batch' = page
            /\ more' = (Len(keys) > PageSize)
            /\ cur' = IF page = <<>> THEN cur ELSE Last(page)
            /\ ppc' = "read" /\ UNCHANGED pfaults
     \/ PollFault /\ ppc' = "wait" /\ UNCHANGED <<batch, more, cur>>
  /\ UNCHANGED <<sourceVars, pos, disk, best, seen, sendVars, runVars>>

(* The skip of a seen key, is_oversized, fetch_and_emit and record_emitted *)
(* for one key of the page.                                                *)
S3Object ==
  /\ cfg.kind = "s3" /\ ppc = "read" /\ batch # <<>>
  /\ LET k == Head(batch)
     IN  \/ /\ k \in seen \union cfg.oversized
            /\ seen' = seen \union {k} /\ batch' = Tail(batch)
            /\ UNCHANGED <<sendVars, ppc, pfaults>>
         \/ /\ k \notin seen \union cfg.oversized
            /\ (k \in cfg.unreadable /\ UNCHANGED pfaults) \/ (k \notin cfg.unreadable /\ PollFault)
            /\ batch' = Tail(batch)
            /\ UNCHANGED <<seen, sendVars, ppc>>
         \/ /\ k \notin seen \union cfg.oversized \union cfg.unreadable
            /\ Send(k)
            /\ IF popen
               THEN /\ seen' = seen \union {k}
                    /\ IF cfg.delete THEN ppc' = "delete" /\ UNCHANGED batch
                                     ELSE batch' = Tail(batch) /\ UNCHANGED ppc
               ELSE ppc' = "stopped" /\ UNCHANGED <<seen, batch>>
            /\ UNCHANGED pfaults
  /\ UNCHANGED <<sourceVars, pos, disk, cur, best, more, runVars>>

S3Delete ==
  /\ cfg.kind = "s3" /\ ppc = "delete"
  /\ \/ content' = Remove(content, Head(batch)) /\ UNCHANGED pfaults
     \/ PollFault /\ UNCHANGED content
  /\ batch' = Tail(batch) /\ ppc' = "read"
  /\ UNCHANGED <<made, truncated, pos, disk, cur, best, more, seen, sendVars, runVars>>

(* Mutant: the continuation token is not followed. *)
S3FirstPage ==
  /\ cfg.kind = "s3" /\ ppc = "read" /\ batch = <<>> /\ ppc' = "wait"
  /\ UNCHANGED <<sourceVars, pos, disk, cycleVars, seen, sendVars, pfaults, runVars>>

S3NextPage ==
  /\ cfg.kind = "s3" /\ ppc = "read" /\ batch = <<>>
  /\ ppc' = IF more THEN "poll" ELSE "wait"
  /\ UNCHANGED <<sourceVars, pos, disk, cycleVars, seen, sendVars, pfaults, runVars>>

(***************************************************************************)
(* jdbc.  The statement selects the rows above sql_last_value, ordered by  *)
(* the tracked column or by another one (here: descending).                *)
(***************************************************************************)

(* Mutant: the statement is run without :sql_last_value. *)
RowsAll == IF cfg.order = "tracked" THEN content ELSE Reverse(content)

Rows ==
  LET above == IF cfg.track THEN After(pos) ELSE content
  IN  IF cfg.order = "tracked" THEN above ELSE Reverse(above)

JdbcQuery ==
  /\ cfg.kind = "jdbc" /\ ppc = "poll"
  /\ \/ LET page == IF cfg.paged
                    THEN SubSeq(Rows, cur + 1, IF cur + PageSize < Len(Rows)
                                               THEN cur + PageSize ELSE Len(Rows))
                    ELSE Rows
        IN  /\ batch' = page
            /\ more' = (cfg.paged /\ Len(page) = PageSize)
            /\ cur' = cur + PageSize
            /\ ppc' = "read" /\ UNCHANGED pfaults
     \/ PollFault /\ ppc' = "save" /\ UNCHANGED <<batch, more, cur>>
  /\ UNCHANGED <<sourceVars, pos, disk, best, seen, sendVars, runVars>>

(* emit_rows, one row at a time. *)
EmitRow ==
  /\ cfg.kind = "jdbc" /\ ppc = "read" /\ batch # <<>>
  /\ LET r == Head(batch) IN
       /\ best' = IF cfg.track /\ r > best THEN r ELSE best
       /\ Send(r)
  /\ batch' = Tail(batch)
  /\ ppc' = IF popen THEN "read" ELSE "stopped"
  /\ UNCHANGED <<sourceVars, pos, disk, cur, more, seen, pfaults, runVars>>

JdbcNextPage ==
  /\ cfg.kind = "jdbc" /\ ppc = "read" /\ batch = <<>>
  /\ ppc' = IF more THEN "poll" ELSE "save"
  /\ UNCHANGED <<sourceVars, pos, disk, cycleVars, seen, sendVars, pfaults, runVars>>

(* The end of a cycle: sql_last_value moves to the greatest value seen.    *)
PersistLastValue ==
  /\ cfg.kind = "jdbc" /\ ppc = "save"
  /\ pos' = IF best > 0 THEN best ELSE pos
  /\ \/ disk' = (IF best > 0 THEN best ELSE disk) /\ UNCHANGED pfaults
     \/ best > 0 /\ PollFault /\ UNCHANGED disk
  /\ best' = 0 /\ ppc' = "wait"
  /\ UNCHANGED <<sourceVars, cur, more, batch, seen, sendVars, runVars>>

(***************************************************************************)
(* cloudwatch.  Datapoint r has the time r - 1; made is the clock.         *)
(***************************************************************************)

CloudwatchPoll ==
  /\ cfg.kind = "cloudwatch" /\ ppc = "poll"
  /\ \/ /\ batch' = Slice({i \in DOMAIN content : content[i] + Interval > made})
        /\ UNCHANGED pfaults
     \/ PollFault /\ batch' = <<>>   \* GetMetricStatistics failed
  /\ ppc' = "read"
  /\ UNCHANGED <<sourceVars, pos, disk, cur, best, more, seen, sendVars, runVars>>

CloudwatchEmit ==
  /\ cfg.kind = "cloudwatch" /\ ppc = "read"
  /\ IF batch = <<>>
     THEN cur' = made + Interval /\ ppc' = "wait" /\ UNCHANGED <<batch, sendVars>>
     ELSE /\ Send(Head(batch)) /\ batch' = Tail(batch)
          /\ ppc' = IF popen THEN "read" ELSE "stopped"
          /\ UNCHANGED cur
  /\ UNCHANGED <<sourceVars, pos, disk, best, more, seen, pfaults, runVars>>

(***************************************************************************)
(* dead_letter_queue.  It waits for the directory, reads all entries and   *)
(* sends them; the run is then over.                                       *)
(***************************************************************************)

DlqReadAll ==
  /\ cfg.kind = "dlq" /\ ppc = "poll"
  /\ \/ content # <<>> /\ batch' = content /\ ppc' = "read" /\ UNCHANGED pfaults
     \/ content = <<>> /\ pshut /\ ppc' = "stopped" /\ UNCHANGED <<batch, pfaults>>
     \/ content # <<>> /\ PollFault /\ ppc' = "stopped" /\ UNCHANGED batch
  /\ UNCHANGED <<sourceVars, pos, disk, cur, best, more, seen, sendVars, runVars>>

DlqSend ==
  /\ cfg.kind = "dlq" /\ ppc = "read"
  /\ IF pshut \/ batch = <<>>
     THEN ppc' = "stopped" /\ UNCHANGED <<batch, sendVars>>
     ELSE /\ Send(Head(batch)) /\ batch' = Tail(batch)
          /\ ppc' = IF popen THEN "read" ELSE "stopped"
  /\ UNCHANGED <<sourceVars, pos, disk, cur, best, more, seen, pfaults, runVars>>

(***************************************************************************)
(* elasticsearch.  run_search reads the cursor from its file, opens a      *)
(* point in time (or falls back to plain searches) and pages through the   *)
(* documents above the cursor in the order of the tracked field.           *)
(***************************************************************************)

(* extract_hit_tracking_value; two documents may share a value. *)
Value(r) == IF cfg.ties THEN (r + 1) \div 2 ELSE r

EsOpenPit ==
  /\ cfg.kind = "elasticsearch" /\ ppc = "poll"
  /\ \/ seen' = Range(content) /\ UNCHANGED pfaults
     \/ PollFault /\ seen' = Records
  /\ cur' = 0 /\ best' = 0 /\ ppc' = "page"
  /\ UNCHANGED <<sourceVars, pos, disk, more, batch, sendVars, runVars>>

EsHits ==
  LET Hit(r) == r \in seen /\ r > cur /\ (cfg.track => Value(r) > disk)
  IN  FirstPage(Slice({i \in DOMAIN content : Hit(content[i])}))

(* A page: no hits end the search; a full page whose last hit has no new   *)
(* sort cursor is the last one; a failed request ends the search, and the  *)
(* input when it has no schedule, without saving the cursor.               *)
EsPage ==
  /\ cfg.kind = "elasticsearch" /\ ppc = "page"
  /\ \/ /\ batch' = EsHits /\ ppc' = IF EsHits = <<>> THEN "save" ELSE "read"
        /\ \/ more' = (Len(EsHits) = PageSize) /\ UNCHANGED pfaults
           \/ EsHits # <<>> /\ PollFault /\ more' = FALSE
        /\ cur' = IF EsHits = <<>> THEN cur ELSE Last(EsHits)
        /\ UNCHANGED <<best, seen>>
     \/ /\ PollFault /\ best' = 0 /\ seen' = {}
        /\ ppc' = IF cfg.once THEN "stopped" ELSE "wait"
        /\ UNCHANGED <<batch, more, cur>>
  /\ UNCHANGED <<sourceVars, pos, disk, sendVars, runVars>>

(* Mutant: the cursor moves before the send. *)
EsHitBeforeSend ==
  /\ cfg.kind = "elasticsearch" /\ ppc = "read"
  /\ Send(Head(batch))
  /\ best' = IF cfg.track THEN Value(Head(batch)) ELSE best
  /\ batch' = Tail(batch)
  /\ ppc' = IF popen /\ Tail(batch) # <<>> THEN "read" ELSE "save"
  /\ UNCHANGED <<sourceVars, pos, disk, cur, more, seen, pfaults, runVars>>

(* A hit moves the cursor once it was sent; a closed channel ends the      *)
(* search with the cursor of the hit before it.                            *)
EsHit ==
  /\ cfg.kind = "elasticsearch" /\ ppc = "read"
  /\ LET r == Head(batch) IN
       /\ Send(r)
       /\ best' = IF popen /\ cfg.track THEN Value(r) ELSE best
  /\ batch' = Tail(batch)
  /\ ppc' = CASE ~popen -> "save"
              [] popen /\ Tail(batch) # <<>> -> "read"
              [] OTHER -> IF more THEN "page" ELSE "save"
  /\ UNCHANGED <<sourceVars, pos, disk, cur, more, seen, pfaults, runVars>>

(* close_pit, then save_last_value. *)
EsSave ==
  /\ cfg.kind = "elasticsearch" /\ ppc = "save"
  /\ \/ disk' = (IF best > 0 THEN best ELSE disk) /\ UNCHANGED pfaults
     \/ best > 0 /\ PollFault /\ UNCHANGED disk
  /\ best' = 0 /\ seen' = {} /\ batch' = <<>>
  /\ ppc' = IF cfg.once THEN "stopped" ELSE "wait"
  /\ UNCHANGED <<sourceVars, pos, cur, more, sendVars, runVars>>

(***************************************************************************)
(* exec runs its command under the shutdown signal, http_poller requests   *)
(* its urls without; both then send all there is, and elasticsearch sends  *)
(* the rows of an ES|QL query the same way.                                *)
(***************************************************************************)

PollAll ==
  /\ cfg.kind \in {"exec", "http_poller", "esql"} /\ ppc = "poll"
  /\ \/ batch' = content /\ ppc' = "read" /\ UNCHANGED pfaults
     \/ PollFault /\ ppc' = "wait" /\ UNCHANGED batch
     \/ cfg.kind = "exec" /\ pshut /\ ppc' = "stopped" /\ UNCHANGED <<batch, pfaults>>
  /\ UNCHANGED <<sourceVars, pos, disk, cur, best, more, seen, sendVars, runVars>>

PollAllSend ==
  /\ cfg.kind \in {"exec", "http_poller", "esql"} /\ ppc = "read"
  /\ IF batch = <<>>
     THEN ppc' = "wait" /\ UNCHANGED <<batch, sendVars>>
     ELSE /\ Send(Head(batch)) /\ batch' = Tail(batch)
          /\ ppc' = CASE popen -> "read"
                      [] ~popen /\ cfg.kind = "esql" -> "wait"
                      [] OTHER -> "stopped"
  /\ UNCHANGED <<sourceVars, pos, disk, cur, best, more, seen, pfaults, runVars>>

(***************************************************************************)
(* heartbeat and generator.  cur counts the events sent; the count limits  *)
(* them when it is set, and NumRecords caps them here.                     *)
(***************************************************************************)

TimerSend ==
  /\ cfg.kind \in {"heartbeat", "generator"} /\ ppc = "poll"
  /\ IF cur = cfg.count
     THEN ppc' = "stopped" /\ UNCHANGED <<cur, sendVars>>
     ELSE /\ cur < NumRecords
          /\ Send(cur + 1)
          /\ cur' = IF popen THEN cur + 1 ELSE cur
          /\ ppc' = IF popen THEN "tick" ELSE "stopped"
  /\ UNCHANGED <<sourceVars, pos, disk, best, more, batch, seen, pfaults, runVars>>

(* The next tick or sleep, or the signal. *)
TimerWait ==
  /\ cfg.kind \in {"heartbeat", "generator"}
  /\ \/ ppc = "tick" /\ ppc' = IF pshut THEN "stopped" ELSE "poll"
     \/ ppc = "poll" /\ cfg.kind = "heartbeat" /\ pshut /\ ppc' = "stopped"
  /\ UNCHANGED <<sourceVars, pos, disk, cycleVars, seen, sendVars, pfaults, runVars>>

PollStep ==
  \/ Wait
  \/ FileOpen \/ FileReadLine \/ SaveSincedb \/ WriteSincedb
  \/ S3List \/ S3Object \/ S3Delete \/ S3NextPage
  \/ JdbcQuery \/ EmitRow \/ JdbcNextPage \/ PersistLastValue
  \/ CloudwatchPoll \/ CloudwatchEmit
  \/ DlqReadAll \/ DlqSend
  \/ EsOpenPit \/ EsPage \/ EsHit \/ EsSave
  \/ PollAll \/ PollAllSend
  \/ TimerSend \/ TimerWait

PollNext ==
  \/ Produce \/ Truncate \/ PollShutdown \/ PollCloseChannel \/ PollRestart
  \/ PollStep

(***************************************************************************)
(* Properties                                                              *)
(***************************************************************************)

(* Rows come in an order that paging and sql_last_value agree on. *)
StableOrder == cfg.order = "tracked" \/ ~cfg.paged

Position(r) == IF cfg.kind = "elasticsearch" THEN Value(r) ELSE r

(* The position that survives a restart never gets ahead of what was sent, *)
(* whatever fails between reading, sending and saving, and wherever a      *)
(* crash falls (also between the two halves of the sincedb write): a       *)
(* record below it was sent by some run, or is the line whose send found   *)
(* the channel closed.                                                     *)
PositionCovers ==
  \/ cfg.kind = "file" /\ cfg.start = "beginning" /\ ~truncated /\ disk # NoPos
  \/ cfg.kind = "jdbc" /\ cfg.track /\ StableOrder
  \/ cfg.kind = "elasticsearch" /\ cfg.track
  => \A r \in Range(content) :
       r \in ever \/ Position(r) > disk \/ (cfg.kind = "file" /\ r \in refused)

(* Within one run no record is sent twice: s3 records a key before the     *)
(* delete that may fail, the windows of cloudwatch do not overlap, pages   *)
(* of jdbc do not, and file resumes where it stopped.                      *)
SentOncePerRun ==
  \/ cfg.kind \in {"s3", "cloudwatch", "dlq"}
  \/ cfg.kind = "file" /\ cfg.start = "beginning" /\ ~truncated
  \/ cfg.kind = "jdbc" /\ cfg.track /\ StableOrder
  => \A r \in Records : sent[r] <= 1

(* What can be read is read: a record of the source is sent unless the     *)
(* input stops, the channel is closed or the file is truncated.  A line    *)
(* that is not UTF-8 hides the lines after it from the file input.         *)
EventuallySent ==
  \A r \in Records :
    /\ r \in Range(content)
    /\ \/ /\ cfg.kind = "file" /\ cfg.start = "beginning"
          /\ \A b \in cfg.garbled : r < b
       \/ cfg.kind = "s3" /\ r \notin cfg.unreadable \union cfg.oversized
       \/ cfg.kind = "jdbc" /\ StableOrder
       \/ cfg.kind = "elasticsearch" /\ ~cfg.ties
       \/ cfg.kind \in {"exec", "http_poller", "esql"}
    ~> r \in ever \union refused \/ ppc = "stopped" \/ truncated \/ ~popen

(* Tail mode keeps watching a file for new lines after its end: a line     *)
(* that is appended while the input waits for new lines is sent.           *)
TailSendsAppended ==
  \A r \in Records :
    [](ppc = "wait" /\ made < r =>
         [](r \in Range(content) => <>(r \in ever \/ ppc = "stopped" \/ truncated)))

=============================================================================
