------------------------------- MODULE Inputs -------------------------------
(***************************************************************************)
(* The input plugins.  They share nothing but the channel into the         *)
(* pipeline, so one of them runs at a time; which one, and with which      *)
(* settings, is part of the initial state.                                 *)
(***************************************************************************)
EXTENDS BrokerInputs, PollInputs, ListenInputs

VARIABLE family   \* the kind of input that runs

vars == <<family, brokerVars, pollVars, listenVars>>

Init ==
  /\ family \in {"broker", "poll", "listen"}
  /\ BrokerInit /\ PollInit /\ ListenInit
  /\ family # "broker" => broker = "kafka"
  /\ family # "poll" => cfg = CHOOSE c \in PollConfigs : TRUE
  /\ family # "listen" => lkind = CHOOSE k \in ListenKinds : TRUE

Broker(A) == family = "broker" /\ A /\ UNCHANGED <<family, pollVars, listenVars>>
Poll(A) == family = "poll" /\ A /\ UNCHANGED <<family, brokerVars, listenVars>>
Listen(A) == family = "listen" /\ A /\ UNCHANGED <<family, brokerVars, pollVars>>

Next ==
  \/ Broker(BrokerNext)
  \/ Poll(PollNext)
  \/ Listen(ListenNext)

(* Tokio polls a task that is ready; the shutdown branch of a select that  *)
(* is ready again and again is taken in the end.                           *)
Fairness ==
  /\ WF_vars(Broker(BrokerStep)) /\ SF_vars(Broker(BrokerStep) /\ pc' = "stopped")
  /\ WF_vars(Poll(PollStep)) /\ SF_vars(Poll(PollStep) /\ ppc' \in {"stopped", "lastSave"})
  /\ WF_vars(Listen(ListenStep))

Spec == Init /\ [][Next]_vars /\ Fairness

(* A signalled shutdown ends the run of every input, and drops every clone *)
(* of its sender (SendersDropped): no loop, no backoff, no retry and no    *)
(* task per connection ignores it for good.  Two inputs also wait for      *)
(* somebody who has not heard the signal: http for the rest of a request   *)
(* in flight and pipe for a child that closed its output; they stop        *)
(* unless such a wait lasts for ever.                                      *)
ShutdownStops ==
  /\ shut ~> pc = "stopped" \/ ~shut
  /\ pshut ~> ppc = "stopped" \/ ~pshut
  /\ []<>~Waits => (lshut ~> lpc = "stopped") /\ SendersDropped

=============================================================================
