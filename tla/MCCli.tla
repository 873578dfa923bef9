------------------------------- MODULE MCCli -------------------------------
(* Instances of Cli for TLC: the metering loop beside a single pipeline,   *)
(* and every way of running pipelines without it.                          *)
EXTENDS Cli

SetupsAll == {[code |-> "set", mode |-> "once"]}
             \union [code : {"unset"}, mode : {"once", "multi", "reload"}]
SetupsReload == {[code |-> "unset", mode |-> "reload"]}

=============================================================================
