---------------------------- MODULE Marketplace ----------------------------
(***************************************************************************)
(* The AWS Marketplace gate and the metering loop: RegisterUsage before    *)
(* anything else starts, then MeterUsage once an hour for as long as the   *)
(* process runs.                                                           *)
(***************************************************************************)
EXTENDS Integers, FiniteSets

CONSTANTS
  SecsPerHour,      \* SECS_PER_HOUR, in ticks of the clock
  MaxClock,         \* the clock stops here
  MaxAttempts       \* MAX_ATTEMPTS

ASSUME MarketplaceAssumption == {SecsPerHour, MaxClock, MaxAttempts} \subseteq Nat \ {0}

VARIABLES
  gate,             \* "check", "open", "closed": what check_entitlement_or_exit decided
  mpc,              \* metering task: "off", "bucket", "send", "sleep"
  attempt,          \* of RegisterUsage or of MeterUsage
  now,              \* the wall clock
  bucket,           \* the timestamp of this pass
  wake,             \* when the task's sleep ends
  recorded          \* the service: timestamps of the records it holds

marketVars == <<gate, mpc, attempt, now, bucket, wake, recorded>>

MarketInit ==
  /\ gate = "check" /\ mpc = "off" /\ attempt = 1 /\ bucket = 0 /\ wake = 0
  /\ now = 0 /\ recorded = {}

(* Only an unset product code or a successful call lets the process start. *)
decide(outcome) == IF outcome \in {"unset", "entitled"} THEN "open" ELSE "closed"

(* The errors that mean no are told from the ones that may pass; an error  *)
(* the code does not know may pass.                                        *)
classify_service_error(e) == IF e = "denial" THEN "not_entitled" ELSE "transient"

(* No product code: development, nothing is metered. *)
SkipEntitlement ==
  /\ gate = "check"
  /\ gate' = decide("unset")
  /\ UNCHANGED <<mpc, attempt, now, bucket, wake, recorded>>

(* One RegisterUsage: a success starts the metering task, a denial ends    *)
(* the process, a transient error is retried MAX_ATTEMPTS times.           *)
register_usage(reply) ==
  /\ gate = "check"
  /\ LET outcome == IF reply = "ok" THEN "entitled" ELSE classify_service_error(reply)
     IN IF outcome = "transient" /\ attempt < MaxAttempts
        THEN attempt' = attempt + 1 /\ UNCHANGED <<gate, mpc>>
        ELSE /\ gate' = decide(outcome)
             /\ mpc' = IF outcome = "entitled" THEN "bucket" ELSE "off"
             /\ attempt' = 1
  /\ UNCHANGED <<now, bucket, wake, recorded>>

hour_bucket_secs_raw(t) == t                                     \* a mutant
hour_bucket_secs(t) == (t \div SecsPerHour) * SecsPerHour
secs_until_next_hour(t) == SecsPerHour - (t % SecsPerHour)

(* A pass of the metering loop starts. *)
StartPass ==
  /\ mpc = "bucket"
  /\ bucket' = hour_bucket_secs(now) /\ attempt' = 1 /\ mpc' = "send"
  /\ UNCHANGED <<gate, now, wake, recorded>>

(* The service is external: it takes a timestamp once and calls a second   *)
(* one a duplicate; it may take a record and the answer be lost.           *)
Service(reply, t) ==
  \/ reply = "ok" /\ t \notin recorded /\ recorded' = recorded \union {t}
  \/ reply = "duplicate" /\ t \in recorded /\ UNCHANGED recorded
  \/ reply = "lost" /\ recorded' = recorded \union {t}
  \/ reply \in {"throttled", "terminal"} /\ UNCHANGED recorded

classify_meter_error(reply) ==
  CASE reply = "ok" -> "metered" [] reply = "duplicate" -> "duplicate"
    [] reply = "terminal" -> "terminal" [] OTHER -> "transient"
meter_action(outcome) ==
  CASE outcome \in {"metered", "duplicate"} -> "advance"
    [] outcome = "transient" -> "retry" [] outcome = "terminal" -> "fail_closed"

(* meter_usage_once and what the loop makes of it; when the attempts are   *)
(* used up the hour is skipped.                                            *)
meter_usage_once(reply) ==
  /\ mpc = "send"
  /\ Service(reply, bucket)
  /\ LET act == meter_action(classify_meter_error(reply))
     IN CASE act = "retry" /\ attempt < MaxAttempts ->
               attempt' = attempt + 1 /\ UNCHANGED <<mpc, gate, wake>>
          [] act = "fail_closed" -> gate' = "closed" /\ mpc' = "off" /\ UNCHANGED <<attempt, wake>>
          [] OTHER -> mpc' = "sleep" /\ wake' = now + secs_until_next_hour(now)
                      /\ UNCHANGED <<attempt, gate>>
  /\ UNCHANGED <<now, bucket>>

Wake ==
  /\ mpc = "sleep" /\ now >= wake
  /\ mpc' = "bucket"
  /\ UNCHANGED <<gate, attempt, now, bucket, wake, recorded>>

(* Time passes while the task waits, for a reply or for the next hour. *)
Tick ==
  /\ mpc \in {"send", "sleep"} /\ now < MaxClock
  /\ now' = now + 1
  /\ UNCHANGED <<gate, mpc, attempt, bucket, wake, recorded>>

(* The process is restarted: the gate is passed again. *)
RestartMetered ==
  /\ gate # "check"
  /\ gate' = "check" /\ mpc' = "off" /\ attempt' = 1 /\ bucket' = 0 /\ wake' = 0
  /\ UNCHANGED <<now, recorded>>

(* The gate and the metering loop by themselves. *)
MarketNext ==
  \/ SkipEntitlement \/ \E reply \in {"ok", "denial", "outage"} : register_usage(reply)
  \/ StartPass \/ Wake \/ Tick
  \/ \E reply \in {"ok", "duplicate", "lost", "throttled", "terminal"} : meter_usage_once(reply)
  \/ RestartMetered

MarketSpec == MarketInit /\ [][MarketNext]_marketVars

(* Whatever is retried, lost or restarted, an hour is billed at most once, *)
(* never before it has begun, and only once RegisterUsage has succeeded.   *)
MeteredOnce ==
  /\ \A t, u \in recorded : t \div SecsPerHour = u \div SecsPerHour => t = u
  /\ \A t \in recorded : t <= now
  /\ mpc # "off" => gate = "open"

=============================================================================
