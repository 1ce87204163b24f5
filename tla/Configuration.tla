--------------------------- MODULE Configuration ----------------------------
(***************************************************************************)
(* pkg/config: a file is read, completed with defaults, overridden from    *)
(* the environment and validated (loader.go, env.go, validator.go), and    *)
(* reloaded when its modification time moves on (reload.go), by a watcher  *)
(* and by whoever calls Reload.  The settings here stand for their kinds:  *)
(* every text, number or flag of the code is treated like the ones below.  *)
(***************************************************************************)
EXTENDS Integers, FiniteSets

CONSTANTS ConfigFiles,   \* contents the file may have: parses, and a value per setting
          Environments,  \* environments: settings overridden, settings that do not parse
          NumCallbacks,  \* reload callbacks registered
          MaxEdits,      \* bound: times the file is written
          MaxCallbackFailures \* bound: callbacks that return an error

ASSUME ConfigAssumption ==
    NumCallbacks \in Nat /\ MaxEdits \in Nat /\ MaxCallbackFailures \in Nat

\* Texts, numbers, flags and lists; Path is the state backend's, Cert a file of the security section.
Texts == {"Version", "Name", "Environment", "CheckpointDir", "Strategy", "DLQType", "Backend",
          "Path", "Address", "LogOutput"}
Numbers == {"BufferSize", "Interval", "Threshold", "Attempts", "InitialBackoff", "MaxBackoff",
            "Jitter", "DLQMaxSize"}
\* Nothing is put in for these when the file does not mention them.
Undefaulted == {"EnableRetry", "EnableDLQ", "EnableMetrics", "EnableTLS", "DLQDirectory", "OutputPath",
                "Cert", "Sources", "Sinks"}
Settings == Texts \cup Numbers \cup Undefaulted

-----------------------------------------------------------------------------
(* config.go, loader.go, env.go, validator.go and version.go as operators. *)

\* Lists are sets of sources and sinks, [name |-> ..., complete |-> ...].
DefaultConfig ==
    [Version |-> "v1", Name |-> "gress-app", Environment |-> "development",
     BufferSize |-> 10, Interval |-> 5, Threshold |-> 8, CheckpointDir |-> "checkpoints",
     Strategy |-> "retry-then-dlq", EnableRetry |-> TRUE, Attempts |-> 3, InitialBackoff |-> 1,
     MaxBackoff |-> 3, Jitter |-> 1, EnableDLQ |-> TRUE, DLQMaxSize |-> 10, DLQType |-> "memory",
     DLQDirectory |-> "", Sources |-> {}, Sinks |-> {}, Backend |-> "memory", Path |-> "data",
     EnableMetrics |-> TRUE, Address |-> "9091", LogOutput |-> "stdout", OutputPath |-> "",
     EnableTLS |-> FALSE, Cert |-> ""]

ProductionConfig ==
    [DefaultConfig EXCEPT !.Environment = "production", !.BufferSize = 50, !.Attempts = 5,
                          !.MaxBackoff = 6, !.DLQMaxSize = 100]

\* What LoadConfig starts from: a setting is zero when the file does not mention it.
ZeroConfig ==
    [s \in Settings |->
        IF s \in Numbers THEN 0 ELSE IF s \in {"EnableRetry", "EnableDLQ", "EnableMetrics", "EnableTLS"} THEN FALSE
        ELSE IF s \in {"Sources", "Sinks"} THEN {} ELSE ""]

applyDefaults(c) ==
    [s \in Settings |-> IF s \notin Undefaulted /\ c[s] = ZeroConfig[s]
                        THEN DefaultConfig[s] ELSE c[s]]

ApplyEnvOverrides(c, env) ==
    [s \in Settings |-> IF s \in DOMAIN env.set THEN env.set[s] ELSE c[s]]

\* ParseVersion, for the versions the model uses.
ParseVersion(v) ==
    CASE v = "v1" -> <<1, 0>> [] v = "v1.0" -> <<1, 0>> [] v = "v1.1" -> <<1, 1>>
      [] v = "v2" -> <<2, 0>> [] OTHER -> <<>>

CurrentVersion == "v1"
IsCompatible(v, w) == v[1] = w[1]
IsNewerThan(v, w) == v[1] > w[1] \/ (v[1] = w[1] /\ v[2] > w[2])

ValidateVersion(v) ==
    /\ ParseVersion(v) # <<>>
    /\ IsCompatible(ParseVersion(CurrentVersion), ParseVersion(v))
    /\ ~IsNewerThan(ParseVersion(v), ParseVersion(CurrentVersion))

\* Each validator gives the fields it complains about.
Bad(s, wrong) == IF wrong THEN {s} ELSE {}

validateVersion(c) == Bad("Version", c.Version # CurrentVersion)
validateApplication(c) ==
    Bad("Name", c.Name = "")
    \cup Bad("Environment", c.Environment \notin {"", "development", "staging", "production", "test"})
validateEngine(c) ==
    {s \in {"BufferSize", "Interval"} : c[s] <= 0}
    \cup Bad("Threshold", c.Threshold \notin 0 .. 10)
    \cup Bad("CheckpointDir", c.CheckpointDir = "")
validateErrorHandling(c) ==
    Bad("Strategy", c.Strategy \notin {"fail-fast", "retry", "send-to-dlq", "retry-then-dlq"})
    \cup {s \in {"Attempts", "InitialBackoff", "MaxBackoff"} : c.EnableRetry /\ c[s] <= 0}
    \cup Bad("MaxBackoff", c.EnableRetry /\ c.MaxBackoff < c.InitialBackoff)
    \cup Bad("Jitter", c.EnableRetry /\ c.Jitter \notin 0 .. 10)
    \cup Bad("DLQType", c.EnableDLQ /\ c.DLQType \notin {"memory", "file", "kafka"})
    \cup Bad("DLQMaxSize", c.EnableDLQ /\ c.DLQMaxSize <= 0)
    \cup Bad("DLQDirectory", c.EnableDLQ /\ c.DLQType = "file" /\ c.DLQDirectory = "")
validateSources(c) == Bad("Sources", \E x \in c.Sources : x.name = "" \/ ~x.complete)
validateSinks(c) == Bad("Sinks", \E x \in c.Sinks : x.name = "" \/ ~x.complete)
validateState(c) ==
    Bad("Backend", c.Backend \notin {"memory", "rocksdb"})
    \cup Bad("Path", c.Backend = "rocksdb" /\ c.Path = "")
validateMetrics(c) == Bad("Address", c.EnableMetrics /\ c.Address = "")
validateLogging(c) ==
    Bad("LogOutput", c.LogOutput \notin {"stdout", "stderr", "file"})
    \cup Bad("OutputPath", c.LogOutput = "file" /\ c.OutputPath = "")
\* The one certificate file there is.
validateSecurity(c) == Bad("Cert", c.EnableTLS /\ c.Cert # "cert")

Validate(c) ==
    validateVersion(c) \cup validateApplication(c) \cup validateEngine(c)
    \cup validateErrorHandling(c) \cup validateSources(c) \cup validateSinks(c)
    \cup validateState(c) \cup validateMetrics(c) \cup validateLogging(c) \cup validateSecurity(c)

NoConfig == [ok |-> FALSE, config |-> ZeroConfig]

\* ValidateAndLoad.
ValidateAndLoad(file, env) ==
    LET c == ApplyEnvOverrides(applyDefaults(file.settings), env)
    IN  IF file.parses /\ ~env.broken /\ Validate(c) = {} THEN [ok |-> TRUE, config |-> c] ELSE NoConfig

\* The settings mergeInto knows: those it copies when they are not zero, the flags it
\* copies always, and the lists it appends to.
mergeInto(target, source) ==
    [s \in Settings |->
        CASE s \in {"Name", "Environment", "BufferSize", "Interval", "Threshold", "CheckpointDir",
                    "Strategy"} ->
               IF source[s] # ZeroConfig[s] THEN source[s] ELSE target[s]
          [] s \in {"EnableRetry", "EnableDLQ"} -> source[s]
          [] s \in {"Sources", "Sinks"} -> target[s] \cup source[s]
          [] OTHER -> target[s]]

Criticals == {"Version", "Name", "BufferSize", "CheckpointDir", "Backend"}
validateCriticalSettings(start, new) ==
    /\ \A s \in Criticals : new[s] = start[s]
    /\ new.Backend = "rocksdb" => new.Path = start.Path

-----------------------------------------------------------------------------
Reloaders == {"watcher", "caller"}

\* What the program gets from each file in each environment.
Loaded == [f \in ConfigFiles |-> [e \in Environments |-> ValidateAndLoad(f, e)]]

VARIABLES
    file, env,
    boot,       \* NewReloadableConfig: "load", "stat", "ready" or "failed"
    config,     \* rc.config
    start,      \* the configuration criticalSettings were taken from
    lastMod,
    reload,     \* per reloader: where its checkAndReload is and what it holds
    applied,    \* per callback: the configuration it was given last
    watching,   \* the watcher goroutine runs
    edits, callbackFailures,
    bootRace,   \* history: the file was written between the first load and its stat
    overlapped  \* history: a reload began while another was running

configVars == <<file, env, boot, config, start, lastMod, reload, applied, watching, edits,
                callbackFailures, bootRace, overlapped>>

NotReloading == [at |-> "idle", mod |-> 0, new |-> ZeroConfig, next |-> 1]

ConfigStarts(at) ==
    /\ file \in {[content |-> f, mtime |-> 1] : f \in ConfigFiles}
    /\ env \in Environments
    /\ boot = at
    /\ config = ZeroConfig
    /\ start = ZeroConfig
    /\ lastMod = 0
    /\ reload = [r \in Reloaders |-> NotReloading]
    /\ applied = [i \in 1 .. NumCallbacks |-> ZeroConfig]
    /\ watching = FALSE
    /\ edits = 0
    /\ callbackFailures = 0
    /\ bootRace = FALSE
    /\ overlapped = FALSE

ConfigInit == ConfigStarts("load")

\* A program whose configuration did not load: it has ended.
NoConfigInit ==
    /\ ConfigStarts("failed")
    /\ file.content = CHOOSE f \in ConfigFiles : TRUE
    /\ env = CHOOSE e \in Environments : TRUE

FirstLoad ==
    LET loaded == Loaded[file.content][env] IN
    /\ boot = "load"
    /\ boot' = IF loaded.ok THEN "stat" ELSE "failed"
    /\ config' = loaded.config
    /\ start' = loaded.config
    /\ UNCHANGED <<file, env, lastMod, reload, applied, watching, edits, callbackFailures, bootRace, overlapped>>

\* os.Stat comes after the load; the program registers its callbacks and starts the watcher.
FirstStat ==
    /\ boot = "stat"
    /\ boot' = "ready"
    /\ lastMod' = file.mtime
    /\ watching' = TRUE
    /\ applied' = [i \in 1 .. NumCallbacks |-> config]
    /\ UNCHANGED <<file, env, config, start, reload, edits, callbackFailures, bootRace, overlapped>>

ReloadAt(r, at) == reload[r].at = at
Frame == UNCHANGED <<file, env, boot, start, watching, edits, bootRace>>

\* checkAndReload up to the comparison.
CheckModified(r) ==
    /\ boot = "ready" /\ ReloadAt(r, "idle")
    /\ r = "watcher" => watching
    /\ file.mtime > lastMod
    /\ reload' = [reload EXCEPT ![r] = [NotReloading EXCEPT !.at = "load", !.mod = file.mtime]]
    /\ overlapped' = (overlapped \/ \E q \in Reloaders : ~ReloadAt(q, "idle"))
    /\ Frame /\ UNCHANGED <<config, lastMod, applied, callbackFailures>>

LoadNew(r) ==
    LET loaded == Loaded[file.content][env] IN
    /\ ReloadAt(r, "load")
    /\ reload' = [reload EXCEPT ![r] =
                    IF loaded.ok /\ validateCriticalSettings(start, loaded.config)
                    THEN [@ EXCEPT !.at = "callbacks", !.new = loaded.config] ELSE NotReloading]
    /\ Frame /\ UNCHANGED <<config, lastMod, applied, callbackFailures, overlapped>>

CallBack(r) ==
    /\ ReloadAt(r, "callbacks") /\ reload[r].next <= NumCallbacks
    /\ \/ /\ applied' = [applied EXCEPT ![reload[r].next] = reload[r].new]
          /\ reload' = [reload EXCEPT ![r].next = @ + 1]
          /\ UNCHANGED callbackFailures
       \/ /\ callbackFailures < MaxCallbackFailures
          /\ callbackFailures' = callbackFailures + 1
          /\ reload' = [reload EXCEPT ![r] = NotReloading]
          /\ UNCHANGED applied
    /\ Frame /\ UNCHANGED <<config, lastMod, overlapped>>

\* The faulty form that takes the modification time the file has now.
UpdateConfigLate(r) ==
    /\ config' = reload[r].new
    /\ lastMod' = file.mtime

UpdateConfig(r) ==
    /\ config' = reload[r].new
    /\ lastMod' = reload[r].mod

FinishReload(r) ==
    /\ ReloadAt(r, "callbacks") /\ reload[r].next > NumCallbacks
    /\ UpdateConfig(r)
    /\ reload' = [reload EXCEPT ![r] = NotReloading]
    /\ Frame /\ UNCHANGED <<applied, callbackFailures, overlapped>>

checkAndReload(r) == CheckModified(r) \/ LoadNew(r) \/ CallBack(r) \/ FinishReload(r)

StopWatching ==
    /\ watching /\ ReloadAt("watcher", "idle")
    /\ watching' = FALSE
    /\ UNCHANGED <<file, env, boot, config, start, lastMod, reload, applied, edits, callbackFailures, bootRace, overlapped>>

\* Somebody writes the file, SaveConfig for one.
EditFile(f) ==
    /\ edits < MaxEdits /\ f # file.content
    /\ edits' = edits + 1
    /\ file' = [content |-> f, mtime |-> file.mtime + 1]
    /\ bootRace' = (bootRace \/ boot = "stat")
    /\ UNCHANGED <<env, boot, config, start, lastMod, reload, applied, watching, callbackFailures,
                   overlapped>>

ConfigNext ==
    \/ FirstLoad \/ FirstStat \/ StopWatching
    \/ \E r \in Reloaders : checkAndReload(r)
    \/ \E f \in ConfigFiles : EditFile(f)

ConfigSpec == ConfigInit /\ [][ConfigNext]_configVars

\* The program starts, the ticker fires, and a reload that was begun goes on.
ConfigFairness ==
    /\ WF_configVars(FirstLoad) /\ WF_configVars(FirstStat)
    /\ \A r \in Reloaders : WF_configVars(checkAndReload(r))

-----------------------------------------------------------------------------
Acceptable == LET loaded == Loaded[file.content][env]
              IN  loaded.ok /\ validateCriticalSettings(start, loaded.config)
Current == Loaded[file.content][env].config

(* While the watcher runs, the program comes to use the configuration in the file, however
   a reload and an edit or two reloads overlap: a reload that was overtaken may put back an
   older configuration, and the modification time with it.  Its callbacks come to the same
   configuration when none failed and no two reloads ran at once. *)
ConfigConverges ==
    <>[](boot = "ready" /\ watching /\ Acceptable /\ ~bootRace =>
            /\ config = Current
            /\ callbackFailures = 0 /\ ~overlapped => \A i \in DOMAIN applied : applied[i] = config)

-----------------------------------------------------------------------------
(* The configuration in use passed validation, and agrees with the one the program was started
   with in the settings that need a restart, whichever reload was the last to finish. *)
InUseValid ==
    boot \in {"stat", "ready"} => Validate(config) = {} /\ validateCriticalSettings(start, config)

(* A configuration that is not the one in the file will be noticed: the modification time that
   is remembered is older than the file, however edits and two reloads overlap. *)
StaleNoticed == boot = "ready" /\ ~bootRace /\ config # Current => file.mtime > lastMod

(* Between reloads that did not overlap and of which no callback failed, every callback has
   been given the configuration in use. *)
CallbacksFollow ==
    boot = "ready" /\ callbackFailures = 0 /\ ~overlapped /\ (\A r \in Reloaders : ReloadAt(r, "idle")) =>
        \A i \in 1 .. NumCallbacks : applied[i] = config

(* A failing callback leaves the others as they were: "Update configuration" comes last. *)
FailureChangesNothing ==
    boot = "ready" /\ (\A r \in Reloaders : ReloadAt(r, "idle")) /\ ~overlapped =>
        \A i \in DOMAIN applied : applied[i] = config

(* "Load initial configuration" and "Get file modification time" see the same file. *)
FirstLoadCurrent ==
    <>[](boot = "ready" /\ watching /\ Acceptable => config = Current)

(* "Update configuration" happens when every callback accepted it, so that when no
   reload is running callbacks and configuration agree, failed callbacks set aside. *)
CallbacksAgree ==
    boot = "ready" /\ callbackFailures = 0 /\ (\A r \in Reloaders : ReloadAt(r, "idle")) =>
        \A i \in DOMAIN applied : applied[i] = config

(* "sources.*" and "sinks.*" are among the settings that require a restart. *)
SourcesFixed == boot = "ready" => config.Sources = start.Sources /\ config.Sinks = start.Sinks

(* "overriding non-zero values": what an override does not mention stays. *)
MergeKeepsUnset == mergeInto(DefaultConfig, ZeroConfig) = DefaultConfig

(* "Apply defaults for missing values": a value that is there and valid stays. *)
ExplicitZeroKept == applyDefaults([DefaultConfig EXCEPT !.Jitter = 0]).Jitter = 0

(* A version ValidateVersion accepts is one Validate accepts. *)
VersionsAgree ==
    \A v \in {"v1", "v1.0", "v1.1", "v2"} :
        ValidateVersion(v) => Validate([DefaultConfig EXCEPT !.Version = v]) = {}
=============================================================================
