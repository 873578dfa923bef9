------------------------------- MODULE MCStages -------------------------------
(***************************************************************************)
(* An instance for TLC of what a worker and the output task call: the      *)
(* filters, every output plugin, and the dead letter queue for the batches *)
(* a plugin fails on.  They share no state but the dlq set of Outputs, so  *)
(* one of them runs at a time.                                             *)
(***************************************************************************)
EXTENDS Outputs, DeadLetterQueue, Filters

AllOutputs == Planned \union {"file", "csv", "s3", "pipe", "pipeline"}

VARIABLE stage   \* which of them runs

StagesInit ==
  /\ stage \in {"filters", "outputs", "dlq"}
  /\ Init /\ OutInit /\ DlqInit
  /\ stage # "filters" => kind = "stateless"
  /\ stage # "outputs" => out = "file"
  /\ stage # "dlq" => ~fsync

Output(A) == stage = "outputs" /\ A /\ UNCHANGED <<stage, vars, dlqVars>>

StagesNext ==
  \/ stage = "filters" /\ Next /\ UNCHANGED <<stage, outVars, dlqVars>>
  \/ Output(OutNext)
  \/ stage = "dlq" /\ DlqNext /\ UNCHANGED <<stage, vars, outVars>>

StagesSpec ==
  /\ StagesInit /\ [][StagesNext]_<<stage, vars, outVars, dlqVars>>
  /\ WF_outVars(Output(OutStep))

=============================================================================
