------------------------------ MODULE MCInputs ------------------------------
(* Instances of Inputs for TLC. *)
EXTENDS Inputs

PollConfigsAll ==
  {[kind |-> "file", start |-> "beginning", exit |-> x, sincedb |-> ~x,
    garbled |-> g] : x \in BOOLEAN, g \in {{}, {NumRecords}}}
    \union {[kind |-> "s3", delete |-> TRUE, unreadable |-> {}, oversized |-> {2}]}
    \union {[kind |-> "s3", delete |-> FALSE, unreadable |-> {1}, oversized |-> {}]}
    \union [kind : {"jdbc"}, track : {TRUE}, clean : {FALSE}, paged : BOOLEAN,
            order : {"tracked"}]
    \union [kind : {"jdbc"}, track : {FALSE}, clean : {TRUE}, paged : {FALSE},
            order : {"other"}]
    \union [kind : {"elasticsearch"}, track : {TRUE}, ties : {FALSE}, once : {FALSE}]
    \union [kind : {"elasticsearch"}, track : {FALSE}, ties : {FALSE}, once : {TRUE}]
    \union [kind : {"cloudwatch", "dlq", "exec", "http_poller", "esql"}]
    \union [kind : {"heartbeat", "generator"}, count : {1, NumRecords}]

PollConfigsTies ==
  [kind : {"elasticsearch"}, track : {TRUE}, ties : {TRUE}, once : {FALSE}]

ListenKindsAll ==
  Spawning \union Inline \union {"unix_server", "http"}

PollConfigsTail ==
  [kind : {"file"}, start : {"end"}, exit : {FALSE}, sincedb : {TRUE},
   garbled : {{}}]

=============================================================================
