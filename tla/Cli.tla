-------------------------------- MODULE Cli --------------------------------
(***************************************************************************)
(* The process: the marketplace gate, the lock on the data directory, the  *)
(* configuration, and then one pipeline until the end (run_once), one for  *)
(* each entry of pipelines.yml (run_multi_pipeline), or one after the      *)
(* other as the watched configuration file changes (run_with_reload).      *)
(***************************************************************************)
EXTENDS Marketplace, Settings, Sequences, SequencesExt

CONSTANTS
  Setups,       \* how the process may be started: [code, mode]
  MaxEdits,     \* edits of the watched file
  MaxEntries    \* entries of pipelines.yml

ASSUME CliAssumption ==
  /\ {MaxEdits, MaxEntries} \subseteq Nat
  /\ Setups \subseteq [code : {"set", "unset"}, mode : {"once", "multi", "reload"}]

(* A configuration file: refused by the parser, without inputs, naming a   *)
(* plugin or a setting that cannot be built, or good.                      *)
Contents == {"unparsable", "empty", "unbuildable", "good"}

VARIABLES
  setup,
  stage,        \* main: "gate", "lock", "load", "build", "select", "stop", "await", "ended"
  file,         \* the versions of the watched file: [content, stat]
  watcher,      \* [pc, last, first]: the thread; the versions it saw last and first
  token,        \* messages in the reload channel, of capacity 1
  current,      \* the version current_config was read from
  new,          \* new_config while the old pipeline stops, 0: none
  pipelines,    \* every pipeline that was started: [config, told, state]
  signal,       \* SIGINT or SIGTERM has been received
  plugin        \* the plugin run_once builds, and what came of it

cliVars == <<setup, stage, file, watcher, token, current, new, pipelines, signal, plugin>>
vars == <<cliVars, marketVars>>

NoPlugin == << >>
Init ==
  /\ MarketInit
  /\ setup \in Setups /\ stage = "gate"
  /\ \E c \in Contents : file = <<[content |-> c, stat |-> 1]>>
  /\ watcher = [pc |-> "none", last |-> 0, first |-> 0] /\ token = 0
  /\ current = 0 /\ new = 0 /\ pipelines = << >> /\ signal = FALSE /\ plugin = NoPlugin

Version == Len(file)
Content(v) == file[v].content
Stat(v) == file[v].stat           \* its (mtime, length)
Stage(s) == stage' = s

(***************************************************************************)
(* Before the pipelines                                                    *)
(***************************************************************************)

PassGate ==
  /\ stage = "gate" /\ gate # "check"
  /\ Stage(IF gate = "open" THEN "lock" ELSE "ended")
  /\ UNCHANGED <<setup, file, watcher, token, current, new, pipelines, signal, plugin, marketVars>>

(* acquire_data_lock: another instance may hold the directory. *)
acquire_data_lock(locked) ==
  /\ stage = "lock"
  /\ Stage(IF locked THEN "ended" ELSE "load")
  /\ UNCHANGED <<setup, file, watcher, token, current, new, pipelines, signal, plugin, marketVars>>

(* validate_config wants an input; a missing output is only a warning. *)
validate_config(content) == content # "empty"
load_config(content) == content # "unparsable"
Loads(content) == load_config(content) /\ validate_config(content)

(* run_with_reload starts the watcher after the file was read. *)
LoadConfig ==
  /\ stage = "load" /\ setup.mode # "multi"
  /\ IF Loads(Content(Version))
     THEN /\ Stage("build") /\ current' = Version
          /\ watcher' = IF setup.mode = "reload" THEN [watcher EXCEPT !.pc = "start"] ELSE watcher
     ELSE Stage("ended") /\ UNCHANGED <<current, watcher>>
  /\ UNCHANGED <<setup, file, token, new, pipelines, signal, plugin, marketVars>>

(***************************************************************************)
(* run_multi_pipeline: an entry that cannot be loaded or built returns     *)
(* from main, and every pipeline that was started goes with it.            *)
(***************************************************************************)

Started(v) == [config |-> v, told |-> "no", state |-> "live"]
Killed == [i \in DOMAIN pipelines |-> [pipelines[i] EXCEPT !.state = "ended"]]

StartEntry(content) ==
  /\ stage = "load" /\ setup.mode = "multi" /\ Len(pipelines) < MaxEntries
  /\ IF load_config(content) /\ content # "unbuildable"
     THEN pipelines' = Append(pipelines, Started(Len(pipelines) + 1)) /\ UNCHANGED stage
     ELSE Stage("ended") /\ pipelines' = Killed
  /\ UNCHANGED <<setup, file, watcher, token, current, new, signal, plugin, marketVars>>

AwaitAll ==
  /\ stage = "load" /\ setup.mode = "multi" /\ pipelines # << >>
  /\ Stage("await")
  /\ UNCHANGED <<setup, file, watcher, token, current, new, pipelines, signal, plugin, marketVars>>

(***************************************************************************)
(* Building and running                                                    *)
(***************************************************************************)

(* build_pipeline_internal creates the plugins of the configuration, here  *)
(* one of any kind with any settings; an error is returned from main.      *)
create(kind, name, raw) ==
  CASE kind = "input" -> create_input(name, raw)
    [] kind = "filter" -> create_filter(name, raw)
    [] kind = "output" -> create_output(name, raw)
AnyPlugin == setup = [code |-> "unset", mode |-> "once"]
CreatePlugin(kind, name, raw) ==
  /\ stage = "build" /\ AnyPlugin /\ plugin = NoPlugin
  /\ plugin' = [kind |-> kind, name |-> name, raw |-> raw, built |-> create(kind, name, raw)]
  /\ UNCHANGED <<setup, stage, file, watcher, token, current, new, pipelines, signal, marketVars>>

BuildPipeline ==
  /\ stage = "build" /\ (AnyPlugin => plugin # NoPlugin)
  /\ IF \/ Content(current) = "unbuildable"
        \/ AnyPlugin /\ (~plugin.built.ok \/ plugin.built.panic = "build")
     THEN Stage("ended") /\ pipelines' = Killed
     ELSE /\ pipelines' = Append(pipelines, Started(current))
          /\ Stage(IF setup.mode = "reload" THEN "select" ELSE "await")
  /\ UNCHANGED <<setup, file, watcher, token, current, new, signal, plugin, marketVars>>

Tell(i, how) == [pipelines EXCEPT ![i].told = how]

(* A pipeline ends once it has been told to (or its controller is gone,    *)
(* which wakes every wait for the signal), when its inputs are done, or    *)
(* with an error.  One that does not end has a plugin that is stuck.       *)
PipelineEnds(i) ==
  /\ stage # "ended" /\ pipelines[i].state = "live"
  /\ pipelines' = [pipelines EXCEPT ![i].state = "ended"]
  /\ UNCHANGED <<setup, stage, file, watcher, token, current, new, signal, plugin, marketVars>>

(* run_once, run_multi_pipeline: main waits for its pipelines, however     *)
(* long they take.                                                         *)
AwaitPipelines ==
  /\ stage = "await" /\ \A i \in DOMAIN pipelines : pipelines[i].state = "ended"
  /\ Stage("ended")
  /\ UNCHANGED <<setup, file, watcher, token, current, new, pipelines, signal, plugin, marketVars>>

(* register_signal_handlers: in run_with_reload the signal goes to the     *)
(* loop, in the others straight to the pipelines.                          *)
ReceiveSignal ==
  /\ stage \in {"build", "select", "stop", "await"} /\ ~signal
  /\ setup.mode # "reload" => stage = "await"
  /\ signal' = TRUE
  /\ pipelines' = IF setup.mode = "reload" THEN pipelines
                  ELSE [i \in DOMAIN pipelines |-> [pipelines[i] EXCEPT !.told = "asked"]]
  /\ UNCHANGED <<setup, stage, file, watcher, token, current, new, plugin, marketVars>>

(***************************************************************************)
(* run_with_reload                                                         *)
(***************************************************************************)

Running == Len(pipelines)         \* the pipeline the loop holds the handle of

SelectShutdown ==
  /\ stage = "select" /\ signal
  /\ pipelines' = Tell(Running, "asked") /\ new' = 0 /\ Stage("stop")
  /\ UNCHANGED <<setup, file, watcher, token, current, signal, plugin, marketVars>>

(* A file that does not load is reported and the loop goes round: the      *)
(* controller and the handle of the running pipeline are dropped, and      *)
(* another pipeline is built from current_config.                          *)
SelectReload ==
  /\ stage = "select" /\ token = 1
  /\ token' = 0
  /\ IF Loads(Content(Version))
     THEN pipelines' = Tell(Running, "asked") /\ new' = Version /\ Stage("stop")
     ELSE pipelines' = Tell(Running, "dropped") /\ UNCHANGED new /\ Stage("build")
  /\ UNCHANGED <<setup, file, watcher, current, signal, plugin, marketVars>>

SelectExit ==
  /\ stage = "select" /\ pipelines[Running].state = "ended"
  /\ Stage("ended") /\ pipelines' = Killed
  /\ UNCHANGED <<setup, file, watcher, token, current, new, signal, plugin, marketVars>>

(* await_pipeline_with_timeout: after 30 s the task of Pipeline::run is    *)
(* aborted; the tasks it spawned are not.  A shutdown then ends the        *)
(* process, a reload goes round with the new configuration.                *)
Stopped ==
  IF new = 0 THEN Stage("ended") /\ pipelines' = Killed /\ UNCHANGED <<current, new>>
  ELSE Stage("build") /\ current' = new /\ new' = 0 /\ UNCHANGED pipelines
PipelineStopped_drains ==               \* a mutant: forgets the edits made meanwhile
  /\ stage = "stop" /\ pipelines[Running].state = "ended" /\ Stopped /\ token' = 0
  /\ UNCHANGED <<setup, file, watcher, signal, plugin, marketVars>>
PipelineStopped ==
  /\ stage = "stop" /\ pipelines[Running].state = "ended" /\ Stopped
  /\ UNCHANGED <<setup, file, watcher, token, signal, plugin, marketVars>>
StopTimeout ==
  /\ stage = "stop" /\ pipelines[Running].state = "live" /\ Stopped
  /\ UNCHANGED <<setup, file, watcher, token, signal, plugin, marketVars>>

(* The watcher's thread compares the (mtime, length) of the file with what *)
(* it saw last.                                                            *)
Watches == stage # "ended" /\ watcher.pc # "none"
FirstSnapshot ==
  /\ Watches /\ watcher.pc = "start"
  /\ watcher' = [pc |-> "poll", last |-> Version, first |-> Version]
  /\ UNCHANGED <<setup, stage, file, token, current, new, pipelines, signal, plugin, marketVars>>
Poll ==
  /\ Watches /\ watcher.pc = "poll" /\ Stat(watcher.last) # Stat(Version)
  /\ watcher' = [watcher EXCEPT !.pc = "send", !.last = Version]
  /\ UNCHANGED <<setup, stage, file, token, current, new, pipelines, signal, plugin, marketVars>>

(* blocking_send waits for room in the channel. *)
AfterSend(w) == [w EXCEPT !.pc = "poll"]
SendReload ==
  /\ Watches /\ watcher.pc = "send" /\ token = 0
  /\ token' = 1 /\ watcher' = AfterSend(watcher)
  /\ UNCHANGED <<setup, stage, file, current, new, pipelines, signal, plugin, marketVars>>

(* Someone edits the file, or puts another in its place: (mtime, length)   *)
(* may stay as it was, or be again what it was at first.                   *)
Edit(content, stat) ==
  /\ setup.mode = "reload" /\ stage \notin {"gate", "lock", "ended"} /\ Version <= MaxEdits
  /\ file' = Append(file, [content |-> content, stat |-> stat])
  /\ UNCHANGED <<setup, stage, watcher, token, current, new, pipelines, signal, plugin, marketVars>>

(***************************************************************************)
(* The marketplace beside the process                                      *)
(***************************************************************************)

Entitlement ==
  /\ stage = "gate"
  /\ IF setup.code = "unset" THEN SkipEntitlement
     ELSE \E reply \in {"ok", "denial", "outage"} : register_usage(reply)
  /\ UNCHANGED cliVars

(* A terminal error exits the process. *)
Metering ==
  /\ stage # "ended"
  /\ \/ StartPass \/ Wake \/ Tick
     \/ \E reply \in {"ok", "duplicate", "lost", "throttled", "terminal"} : meter_usage_once(reply)
  /\ stage' = IF gate' = "closed" THEN "ended" ELSE stage
  /\ pipelines' = IF gate' = "closed" THEN Killed ELSE pipelines
  /\ UNCHANGED <<setup, file, watcher, token, current, new, signal, plugin>>

RestartProcess ==
  /\ setup.code = "set" /\ stage \in {"await", "ended"}
  /\ RestartMetered
  /\ stage' = "gate" /\ pipelines' = << >> /\ signal' = FALSE /\ current' = 0
  /\ UNCHANGED <<setup, file, watcher, token, new, plugin>>

Names(kind) ==
  CASE kind = "input" -> InputNames [] kind = "filter" -> FilterNames [] kind = "output" -> OutputNames

ReloadStep == SelectShutdown \/ SelectReload \/ SelectExit \/ PipelineStopped \/ StopTimeout
WatcherStep == FirstSnapshot \/ Poll \/ SendReload

Next ==
  \/ Entitlement \/ PassGate \/ Metering \/ RestartProcess
  \/ \E locked \in BOOLEAN : acquire_data_lock(locked)
  \/ LoadConfig
  \/ \E content \in Contents : StartEntry(content)
  \/ \E content \in Contents, stat \in {Version + 1} \union {Stat(1), Stat(Version)} :
       Edit(content, stat)
  \/ AwaitAll \/ BuildPipeline \/ AwaitPipelines \/ ReceiveSignal
  \/ /\ stage = "build" /\ AnyPlugin /\ plugin = NoPlugin
     /\ \E kind \in {"input", "filter", "output"} :
          \E name \in Names(kind), raw \in Raws : CreatePlugin(kind, name, raw)
  \/ \E i \in DOMAIN pipelines : PipelineEnds(i)
  \/ SelectShutdown \/ SelectReload \/ SelectExit \/ PipelineStopped \/ StopTimeout
  \/ FirstSnapshot \/ Poll \/ SendReload

(* The main task and the watcher's thread keep running; a select with a    *)
(* ready branch is taken.  A pipeline may never end.                       *)
Spec == Init /\ [][Next]_vars /\ WF_vars(BuildPipeline) /\ WF_vars(ReloadStep) /\ WF_vars(WatcherStep)

(***************************************************************************)
(* Properties                                                              *)
(***************************************************************************)

(* An accepted number does not make tokio::time::interval or chunks panic, *)
(* and a port given as a number is the port that is used, never one cut    *)
(* down to 16 bits or a default.  Two accepted numbers do stop a plugin    *)
(* when they are Huge: the udp input's buffer_size, with which its task    *)
(* panics, and the jdbc_streaming filter's cache_expiration, with which    *)
(* the process does.                                                       *)
SettingsSound ==
  plugin # NoPlugin /\ plugin.built.ok =>
    /\ plugin.built.interval > 0 /\ plugin.built.chunks > 0
    /\ plugin.raw.port >= 0 /\ plugin.built.port >= 0 => plugin.built.port = plugin.raw.port
    /\ plugin.built.panic # "" =>
         \/ plugin.name = "udp" /\ plugin.raw.size = Huge
         \/ plugin.name = "jdbc_streaming" /\ plugin.raw.every = Huge

(* The watcher can tell version v from all it may have seen before. *)
Noticeable(v) ==
  /\ watcher.first > 0 /\ watcher.first < v
  /\ \A u \in watcher.first .. v - 1 : Stat(u) # Stat(v)

(* Once the file was edited for the last time, with a configuration that   *)
(* loads and builds and an (mtime, length) the watcher has not seen, a     *)
(* pipeline with that configuration runs in the end, however fast the      *)
(* edits before were, and whether or not the old pipeline stops when it is *)
(* told to: unless the process ends, by a signal, with its pipeline, or    *)
(* because an edit before loaded but could not be built.  An edit before   *)
(* the watcher's first snapshot is not noticed.                            *)
EventuallyCurrent ==
  \A v \in 2 .. MaxEdits + 1 :
    Version = v /\ Content(v) = "good" /\ Noticeable(v)
      ~> \/ Version # v \/ stage = "ended"
         \/ pipelines # << >> /\ pipelines[Running].config = v

(* A file that does not load leaves the running pipeline alone (the        *)
(* comment in run_with_reload: "Don't stop the pipeline - keep running     *)
(* with old config"): as long as no edit loads and nothing is signalled,   *)
(* the first pipeline is the only one.                                     *)
BadEditKeepsPipeline ==
  setup.mode = "reload" /\ ~signal /\ (\A v \in 2 .. Version : ~Loads(Content(v))) =>
    Len(pipelines) <= 1

=============================================================================
