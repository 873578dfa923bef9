---------------------------- MODULE ListenInputs ----------------------------
(***************************************************************************)
(* The inputs that are sent to: line streams (tcp, syslog over TCP,        *)
(* graphite, gelf over TCP, unix, stdin, pipe), datagrams (udp, syslog,    *)
(* gelf), requests (http) and the Lumberjack frames of beats.  A peer      *)
(* sends frames; a frame is what the reader of its protocol tells apart,   *)
(* and carries the next event numbers of that peer.                        *)
(***************************************************************************)
EXTENDS Naturals, Sequences, FiniteSets, SequencesExt

CONSTANTS Peers, MaxFrames, MaxListenFaults, ListenKinds

ASSUME ListenAssumption == {MaxFrames, MaxListenFaults} \subseteq Nat

Spawning == {"tcp", "syslog_tcp", "graphite", "gelf_tcp", "beats"}  \* a detached task per connection
Datagram == {"udp", "syslog_udp", "gelf_udp"}
Inline == Datagram \union {"unix_client", "stdin", "pipe"}  \* run itself reads

VARIABLES
  lkind,    \* the input that runs
  lpc,      \* "listening", "closing" (http: requests in flight), "stopped"
  peer,     \* each peer's end: "open" (maybe not accepted yet), "closed"
  wire,     \* what it sent and nobody read
  next,     \* the number of its next event
  frames,   \* frames sent by all peers, up to MaxFrames
  task,     \* the reader of the connection: "none", "reading", "request" (http: a
            \* request of which a part is here), "reaping" (pipe: child.wait),
            \* "backoff", "done"
  pending,  \* decoded events of the frame in hand, not sent yet
  answer,   \* what to acknowledge once they are sent
  emitted,  \* event numbers sent into the channel
  lost,     \* event numbers in the part of a frame that was cut off it
  acked,    \* the number the peer was told (beats: ACK frame, http: 2xx)
  lshut, lopen, lfaults

listenVars == <<lkind, lpc, peer, wire, next, frames, task, pending, answer, emitted,
                lost, acked, lshut, lopen, lfaults>>
peerVars == <<peer, wire, next, frames>>
readVars == <<task, pending, answer>>
listenRunVars == <<lkind, lpc, lshut, lopen, lfaults>>

ListenInit ==
  /\ lkind \in ListenKinds /\ lpc = "listening"
  /\ peer = [p \in Peers |-> "open"] /\ wire = [p \in Peers |-> <<>>]
  /\ next = [p \in Peers |-> 1] /\ frames = 0
  /\ task = [p \in Peers |-> "none"] /\ pending = [p \in Peers |-> <<>>]
  /\ answer = [p \in Peers |-> 0]
  /\ emitted = [p \in Peers |-> {}] /\ lost = [p \in Peers |-> {}]
  /\ acked = [p \in Peers |-> 0]
  /\ lshut = FALSE /\ lopen = TRUE /\ lfaults = 0

(***************************************************************************)
(* What the peers send                                                     *)
(*   line  a decodable line, datagram, request, J or D frame               *)
(*   blank an empty line, datagram or request; a W frame                   *)
(*   junk  text that is not GELF or graphite; another protocol version     *)
(*   long  a line or frame above the cap                                   *)
(*   tail  a last line without its terminator; a frame cut by the close    *)
(*   many  a request or compressed frame of two events                     *)
(*   part  the head of a request whose body is still to come; the next     *)
(*         frame brings it                                                 *)
(*   cut   a whole compressed frame of two events whose second inner frame *)
(*         is incomplete (or beyond MAX_INNER_FRAMES)                      *)
(***************************************************************************)

Whats ==
  CASE lkind \in Datagram -> {"line", "blank", "junk"}
    [] lkind = "http" -> {"line", "blank", "many", "part"}
    [] lkind = "beats" -> {"line", "blank", "junk", "long", "tail", "many", "cut"}
    [] OTHER -> {"line", "blank", "junk", "long", "tail"}

Carries(what) == CASE what \in {"many", "cut"} -> 2
                   [] what = "part" -> 0
                   [] what = "blank" -> IF lkind = "syslog_udp" THEN 1 ELSE 0
                   [] OTHER -> 1

PeerSend(p, what) ==
  /\ peer[p] = "open" /\ frames < MaxFrames
  /\ lkind \in Inline => task[p] # "none"
  /\ frames' = frames + 1
  /\ wire' = [wire EXCEPT ![p] = Append(@, [what |-> what, first |-> next[p]])]
  /\ next' = [next EXCEPT ![p] = @ + Carries(what)]
  /\ peer' = IF what = "tail" THEN [peer EXCEPT ![p] = "closed"] ELSE peer
  /\ UNCHANGED <<readVars, emitted, lost, acked, listenRunVars>>

PeerClose(p) ==
  /\ peer[p] = "open" /\ task[p] # "none"
  /\ peer' = [peer EXCEPT ![p] = "closed"]
  /\ UNCHANGED <<wire, next, frames, readVars, emitted, lost, acked, listenRunVars>>

ListenShutdown ==
  /\ ~lshut /\ lshut' = TRUE
  /\ UNCHANGED <<peerVars, readVars, emitted, lost, acked, lkind, lpc, lopen, lfaults>>

ListenCloseChannel ==
  /\ lopen /\ lopen' = FALSE
  /\ UNCHANGED <<peerVars, readVars, emitted, lost, acked, lkind, lpc, lshut, lfaults>>

(***************************************************************************)
(* Reading                                                                 *)
(***************************************************************************)

(* The accept branch of the select, or the connect of unix_client and the  *)
(* spawn of pipe; the datagram inputs and stdin have one source only.      *)
Accept(p) ==
  /\ task[p] = "none" /\ lpc = "listening"
  /\ lkind \in Inline => \A q \in Peers : task[q] = "none"
  /\ task' = [task EXCEPT ![p] = "reading"]
  /\ UNCHANGED <<peerVars, pending, answer, emitted, lost, acked, listenRunVars>>

(* What a reader makes of a frame: how many events it decodes to, and      *)
(* whether the reader is through with the connection.                      *)
Frame(n, over) == [n |-> n, over |-> over]

(* read_line_capped *)
LineRead(what) ==
  CASE what = "long" -> "overflow" [] what = "tail" -> "eof" [] OTHER -> "line"

TcpLine(what) ==
  Frame(IF what \in {"long", "blank"} THEN 0 ELSE 1, LineRead(what) # "line")

SyslogLine(what) ==
  Frame(IF what \in {"long", "blank"} THEN 0 ELSE 1, LineRead(what) # "line")

GraphiteLine(what) ==
  Frame(IF what \in {"line", "tail"} THEN 1 ELSE 0, LineRead(what) # "line")

(* decompress, the JSON and gelf_json_to_event. *)
DecodeGelf(what) == IF what \in {"line", "tail"} THEN 1 ELSE 0

GelfFrame(what) == Frame(DecodeGelf(what), what \in {"long", "tail"})
GelfDatagram(what) == Frame(DecodeGelf(what), FALSE)

(* The reader shared by unix, pipe and exec gives out a line that the end  *)
(* of the stream cut short like any other; the next read finds the end.    *)
CappedLine(what) == IF what = "long" THEN "overflow" ELSE "line"

UnixLine(what) ==
  Frame(IF what \in {"long", "blank"} THEN 0 ELSE 1, CappedLine(what) = "overflow")

PipeLine(what) ==
  Frame(IF what \in {"long", "blank"} THEN 0 ELSE 1, CappedLine(what) = "overflow")

(* stdin has no cap on a line. *)
StdinLine(what) == Frame(IF what = "blank" THEN 0 ELSE 1, FALSE)

UdpDatagram(what) == Frame(IF what = "blank" THEN 0 ELSE 1, FALSE)

(* An empty datagram is an event for syslog. *)
SyslogDatagram(what) == Frame(1, FALSE)

HandlePost(what) == Frame(Carries(what), FALSE)

(* A compressed frame gives the complete frames at its start. *)
InnerFrames(what) == CASE what = "many" -> 2 [] what = "cut" -> 1

BeatsFrame(what) ==
  CASE what = "line" -> Frame(1, FALSE)
    [] what = "blank" -> Frame(0, FALSE)
    [] what \in {"many", "cut"} -> Frame(InnerFrames(what), FALSE)
    [] OTHER -> Frame(0, TRUE)

Decode(what) ==
  CASE lkind = "tcp" -> TcpLine(what)
    [] lkind = "syslog_tcp" -> SyslogLine(what)
    [] lkind = "graphite" -> GraphiteLine(what)
    [] lkind = "gelf_tcp" -> GelfFrame(what)
    [] lkind \in {"unix_server", "unix_client"} -> UnixLine(what)
    [] lkind = "pipe" -> PipeLine(what)
    [] lkind = "stdin" -> StdinLine(what)
    [] lkind = "udp" -> UdpDatagram(what)
    [] lkind = "syslog_udp" -> SyslogDatagram(what)
    [] lkind = "gelf_udp" -> GelfDatagram(what)
    [] lkind = "http" -> HandlePost(what)
    [] lkind = "beats" -> BeatsFrame(what)

(* After the last frame a task is over; unix_client and pipe back off and  *)
(* start anew, stdin and datagrams have no other connection.               *)
Over(p) == IF lkind \in {"unix_client", "pipe"} THEN "backoff" ELSE "done"

Idle(p) == pending[p] = <<>> /\ answer[p] = 0

\* The reader waits for the other end.
Waiting(p) == task[p] \in {"reading", "request"} /\ Idle(p)

Read(p) ==
  /\ Waiting(p) /\ wire[p] # <<>>
  /\ LET f == Head(wire[p])
         n == Decode(f.what).n
     IN  /\ pending' = [pending EXCEPT ![p] = [i \in 1 .. n |-> f.first + i - 1]]
         /\ answer' = [answer EXCEPT ![p] =
              IF lkind \in {"beats", "http"} /\ n > 0 THEN f.first + n - 1 ELSE 0]
         /\ lost' = [lost EXCEPT ![p] = IF f.what = "cut" THEN @ \union {f.first + n} ELSE @]
         /\ task' = [task EXCEPT ![p] =
              IF f.what = "part" THEN "request"
              ELSE IF Decode(f.what).over /\ n = 0 THEN Over(p) ELSE "reading"]
  /\ wire' = [wire EXCEPT ![p] = Tail(@)]
  /\ UNCHANGED <<peer, next, frames, emitted, acked, listenRunVars>>

(* The end of the stream; pipe then waits for its child to end as well.    *)
ReadEnd(p) ==
  /\ Waiting(p)
  /\ lkind \notin Datagram /\ peer[p] = "closed" /\ wire[p] = <<>>
  /\ task' = [task EXCEPT ![p] = IF lkind = "pipe" THEN "reaping" ELSE Over(p)]
  /\ UNCHANGED <<peerVars, pending, answer, emitted, lost, acked, listenRunVars>>

(* The child ends, when it likes: it may run on with its output closed.    *)
ChildExits(p) ==
  /\ task[p] = "reaping" /\ task' = [task EXCEPT ![p] = Over(p)]
  /\ UNCHANGED <<peerVars, pending, answer, emitted, lost, acked, listenRunVars>>

(* A read error; pipe kills the child. *)
ReadError(p) ==
  /\ Waiting(p)
  /\ lkind \notin Datagram
  /\ lfaults < MaxListenFaults /\ lfaults' = lfaults + 1
  /\ wire' = [wire EXCEPT ![p] = <<>>]
  /\ task' = [task EXCEPT ![p] = Over(p)]
  /\ UNCHANGED <<peer, next, frames, pending, answer, emitted, lost, acked,
                 lkind, lpc, lshut, lopen>>

(* Mutant: the result of the send is ignored. *)
SendNextIgnored(p) ==
  /\ task[p] = "reading" /\ pending[p] # <<>>
  /\ emitted' = [emitted EXCEPT ![p] = IF lopen THEN @ \union {Head(pending[p])} ELSE @]
  /\ pending' = [pending EXCEPT ![p] = Tail(@)]
  /\ UNCHANGED <<answer, task, peerVars, lost, acked, listenRunVars>>

(* sender.send for the next event of the frame; a closed channel ends the  *)
(* connection (http: 503; inline readers: the input).                      *)
SendNext(p) ==
  /\ task[p] = "reading" /\ pending[p] # <<>>
  /\ IF lopen
     THEN /\ emitted' = [emitted EXCEPT ![p] = @ \union {Head(pending[p])}]
          /\ pending' = [pending EXCEPT ![p] = Tail(@)]
          /\ UNCHANGED <<answer, task, lpc>>
     ELSE /\ pending' = [pending EXCEPT ![p] = <<>>]
          /\ answer' = [answer EXCEPT ![p] = 0]
          /\ task' = [q \in Peers |-> IF lkind \in Inline \/ (q = p /\ lkind # "http")
                                      THEN "done" ELSE task[q]]
          /\ lpc' = IF lkind \in Inline THEN "stopped" ELSE lpc
          /\ UNCHANGED emitted
  /\ UNCHANGED <<peerVars, lost, acked, lkind, lshut, lopen, lfaults>>

(* send_ack, or the response of handle_post; the peer may be gone. *)
SendAck(p) ==
  /\ task[p] = "reading" /\ pending[p] = <<>> /\ answer[p] > 0
  /\ answer' = [answer EXCEPT ![p] = 0]
  /\ IF peer[p] = "open"
     THEN acked' = [acked EXCEPT ![p] = answer[p]] /\ UNCHANGED task
     ELSE /\ UNCHANGED acked
          /\ task' = [task EXCEPT ![p] = IF lkind = "beats" THEN "done" ELSE @]
  /\ UNCHANGED <<peerVars, pending, emitted, lost, listenRunVars>>

(* RESTART_BACKOFF and CLIENT_RECONNECT_BACKOFF, then a new child or       *)
(* connection: the other end starts anew.                                  *)
Reconnect(p) ==
  /\ task[p] = "backoff" /\ ~lshut
  /\ task' = [task EXCEPT ![p] = "none"]
  /\ peer' = [peer EXCEPT ![p] = "open"] /\ wire' = [wire EXCEPT ![p] = <<>>]
  /\ UNCHANGED <<next, frames, pending, answer, emitted, lost, acked, listenRunVars>>

(***************************************************************************)
(* Shutdown                                                                *)
(***************************************************************************)

(* The shutdown branch of run's select.  The tasks of the spawning inputs  *)
(* do not look at the signal; http stops accepting and waits for the       *)
(* requests in flight; pipe is not in its select while it waits for a      *)
(* child to end.                                                           *)
StopListening ==
  /\ lpc = "listening" /\ lshut
  /\ lkind \in Inline => \A p \in Peers : Idle(p) /\ task[p] # "reaping"
  /\ lpc' = IF lkind = "http" THEN "closing" ELSE "stopped"
  /\ task' = IF lkind \in Inline THEN [p \in Peers |-> "done"] ELSE task
  /\ UNCHANGED <<peerVars, pending, answer, emitted, lost, acked, lkind, lshut, lopen, lfaults>>

(* Mutant: read_stream does not select on the signal. *)
StopTaskHttp(p) ==
  /\ lkind = "http" /\ lshut
  /\ task[p] = "reading" /\ Idle(p)
  /\ task' = [task EXCEPT ![p] = "done"]
  /\ UNCHANGED <<peerVars, pending, answer, emitted, lost, acked, listenRunVars>>

(* The shutdown branch of read_stream (unix); graceful shutdown of http    *)
(* closes a connection that has no request in flight, and only such a one. *)
StopTask(p) ==
  /\ lkind \in {"unix_server", "http"} /\ lshut
  /\ task[p] = "reading" /\ Idle(p)
  /\ task' = [task EXCEPT ![p] = "done"]
  /\ UNCHANGED <<peerVars, pending, answer, emitted, lost, acked, listenRunVars>>

ServeReturns ==
  /\ lpc = "closing" /\ \A p \in Peers : task[p] \notin {"reading", "request"}
  /\ lpc' = "stopped"
  /\ UNCHANGED <<peerVars, readVars, emitted, lost, acked, lkind, lshut, lopen, lfaults>>

(* stdin at its end, the only input here that ends by itself. *)
StdinEnds ==
  /\ lkind = "stdin" /\ lpc = "listening" /\ \E p \in Peers : task[p] = "done"
  /\ lpc' = "stopped"
  /\ UNCHANGED <<peerVars, readVars, emitted, lost, acked, lkind, lshut, lopen, lfaults>>

ListenStep ==
  \/ \E p \in Peers : \/ Accept(p) \/ Read(p) \/ ReadEnd(p) \/ SendNext(p)
                      \/ SendAck(p) \/ Reconnect(p) \/ StopTask(p)
  \/ StopListening \/ ServeReturns \/ StdinEnds

ListenNext ==
  \/ \E p \in Peers : PeerClose(p) \/ ChildExits(p) \/ ReadError(p) \/ \E w \in Whats : PeerSend(p, w)
  \/ ListenShutdown \/ ListenCloseChannel
  \/ ListenStep

(***************************************************************************)
(* Properties                                                              *)
(***************************************************************************)

(* What a peer is told it may forget was handed to the pipeline: no ACK    *)
(* frame of beats and no 2xx of http covers an event that was not sent,    *)
(* also when the events come one by one, the channel closes between two of *)
(* them or the shutdown falls in between.  The ACK of a compressed frame   *)
(* that was cut stops before the event the cut took (max_seq counts the    *)
(* decoded ones).  Numbers are cumulative, so the ACK of a later frame     *)
(* covers that event as well: a peer that does not wait for the ACK of a   *)
(* cut frame loses it.                                                     *)
AckedWasSent ==
  \A p \in Peers : \A n \in 1 .. acked[p] :
    n \in emitted[p] \/ (n \in lost[p] /\ n < acked[p])

SenderHeld(p) == task[p] \in {"reading", "request", "reaping", "backoff"}

(* Something is waited for that nothing here can hurry: the rest of a      *)
(* request whose peer stays connected, or the end of a child of pipe.      *)
Waits ==
  \E p \in Peers : \/ task[p] = "request" /\ peer[p] = "open"
                  \/ task[p] = "reaping"

(* After the signal every clone of the sender is dropped, so that the      *)
(* pipeline's channel can close.  For the inputs with a detached task per  *)
(* connection this needs the peers to close theirs.                        *)
SendersDropped ==
  lshut /\ (lkind \in Spawning => \A p \in Peers : peer[p] # "open")
    ~> \/ lpc = "stopped" /\ \A p \in Peers : ~SenderHeld(p)
       \/ \E p \in Peers : peer[p] = "open" /\ lkind \in Spawning

=============================================================================
