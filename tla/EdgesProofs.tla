----------------------------- MODULE EdgesProofs -----------------------------
(***************************************************************************)
(* What lies at the edges of the engine, for every set of files, requests, *)
(* clients, patterns and events: the reload of the configuration, the HTTP *)
(* and WebSocket sources, and the pattern engine and matcher.              *)
(***************************************************************************)
EXTENDS Configuration, Ingestion, PatternEngine, SublistProofs, FiniteSetTheorems, TLAPS

-----------------------------------------------------------------------------
(***************************************************************************)
(* The reload of the configuration.  A reload remembers the modification   *)
(* time before it reads the file, so what it read may be newer than the    *)
(* time, never older; that is why a configuration that is not the file's   *)
(* is noticed even when an overtaken reload has put it back.               *)
(***************************************************************************)

\* The configurations that occur.
Configs == {ZeroConfig} \cup {Loaded[f][e].config : f \in ConfigFiles, e \in Environments}

\* Where a reload is and what it holds.
ReloadRecords == [at : {"idle", "load", "callbacks"}, mod : Nat, new : Configs, next : Nat \ {0}]

\* Types.
ConfigTypeOK ==
    /\ file \in [content : ConfigFiles, mtime : Nat] /\ env \in Environments
    /\ boot \in {"load", "stat", "ready", "failed"}
    /\ lastMod \in Nat
    /\ config \in Configs /\ start \in Configs
    /\ reload \in [Reloaders -> ReloadRecords]
    /\ applied \in [1 .. NumCallbacks -> Configs]
    /\ callbackFailures \in Nat
    /\ bootRace \in BOOLEAN /\ overlapped \in BOOLEAN

\* What passed validation and keeps the critical settings.
Vetted(c) == Validate(c) = {} /\ validateCriticalSettings(start, c)

\* The configuration in use and the one a reload hands to the callbacks.
AllVetted ==
    /\ boot \in {"stat", "ready"} => Vetted(config)
    /\ \A r \in Reloaders : ReloadAt(r, "callbacks") => Vetted(reload[r].new)

\* No time that is remembered is later than the file.
TimesBehind == lastMod <= file.mtime /\ \A r \in Reloaders : reload[r].mod <= file.mtime

\* Nothing is reloaded before the program has started.
ReloadsWhenReady == boot # "ready" => \A r \in Reloaders : ReloadAt(r, "idle")

\* What was read under the modification time the file has now is what is in the file now.
ReadCurrent ==
    /\ boot = "stat" /\ ~bootRace => config = Current
    /\ boot = "ready" /\ ~bootRace /\ lastMod = file.mtime => config = Current
    /\ \A r \in Reloaders : ReloadAt(r, "callbacks") /\ reload[r].mod = file.mtime => reload[r].new = Current

\* Without an overlap on record one reload runs at a time.
OneReload ==
    ~overlapped => \A q, r \in Reloaders : q # r => ReloadAt(q, "idle") \/ ReloadAt(r, "idle")

\* A reload that has not called any callback begins with the first.
FirstTurn == \A r \in Reloaders : ReloadAt(r, "load") => reload[r].next = 1

\* Callbacks that had their turn in the reload that runs have its configuration, the others the one in use.
CallbacksInTurn ==
    boot = "ready" /\ callbackFailures = 0 /\ ~overlapped =>
        \A i \in 1 .. NumCallbacks :
            \/ \E r \in Reloaders :
                  ReloadAt(r, "callbacks") /\ i < reload[r].next /\ applied[i] = reload[r].new
            \/ /\ \A r \in Reloaders : ReloadAt(r, "callbacks") => i >= reload[r].next
               /\ applied[i] = config

\* The inductive invariant of loading and reloading.
ConfigInv ==
    /\ ConfigTypeOK /\ AllVetted /\ TimesBehind /\ ReloadsWhenReady /\ ReadCurrent /\ OneReload
    /\ FirstTurn /\ CallbacksInTurn

\* What ValidateAndLoad returns without an error has passed Validate.
LEMMA LoadedPassed ==
    ASSUME NEW f \in ConfigFiles, NEW e \in Environments
    PROVE  /\ Loaded[f][e].config \in Configs
           /\ Loaded[f][e].ok => Validate(Loaded[f][e].config) = {}
<1>1. Loaded[f][e] = ValidateAndLoad(f, e)
    BY DEF Loaded
<1>2. ValidateAndLoad(f, e).ok => Validate(ValidateAndLoad(f, e).config) = {}
    BY DEF ValidateAndLoad, NoConfig
<1> QED
    BY <1>1, <1>2 DEF Configs

\* A configuration agrees with itself.
LEMMA CriticalSelf == \A c : validateCriticalSettings(c, c)
BY DEF validateCriticalSettings

\* A reload that ended or has not begun.
LEMMA NotReloadingTyped ==
    /\ NotReloading \in ReloadRecords
    /\ NotReloading.at = "idle" /\ NotReloading.mod = 0
BY DEF NotReloading, ReloadRecords, Configs

\* The invariant holds when the program starts.
LEMMA ConfigInitially == ConfigInit => ConfigInv
<1> SUFFICES ASSUME ConfigInit PROVE ConfigInv
    OBVIOUS
<1>1. /\ boot = "load" /\ config = ZeroConfig /\ start = ZeroConfig /\ lastMod = 0
      /\ reload = [r \in Reloaders |-> NotReloading]
      /\ applied = [i \in 1 .. NumCallbacks |-> ZeroConfig]
      /\ callbackFailures = 0 /\ env \in Environments
    BY DEF ConfigInit, ConfigStarts
<1>2. file \in [content : ConfigFiles, mtime : Nat] /\ file.mtime = 1
    BY DEF ConfigInit, ConfigStarts
<1>3. bootRace \in BOOLEAN /\ overlapped \in BOOLEAN
    BY DEF ConfigInit, ConfigStarts
<1>4. \A r \in Reloaders : reload[r] = NotReloading
    BY <1>1
<1>5. ConfigTypeOK
    BY <1>1, <1>2, <1>3, NotReloadingTyped DEF ConfigTypeOK, Configs
<1> QED
    BY <1>1, <1>2, <1>4, <1>5, NotReloadingTyped
    DEF ConfigInv, AllVetted, TimesBehind, ReloadsWhenReady, ReadCurrent, OneReload, FirstTurn,
        CallbacksInTurn, ReloadAt

\* NewReloadableConfig keeps it.
LEMMA BootKeeps == ASSUME ConfigInv, FirstLoad \/ FirstStat PROVE ConfigInv'
<1>0. ConfigTypeOK /\ file.content \in ConfigFiles /\ file.mtime \in Nat /\ env \in Environments
    BY DEF ConfigInv, ConfigTypeOK
<1>1. CASE FirstLoad
  <2> DEFINE loaded == Loaded[file.content][env]
  <2>1. /\ boot = "load" /\ boot' = (IF loaded.ok THEN "stat" ELSE "failed")
        /\ config' = loaded.config /\ start' = loaded.config
        /\ UNCHANGED <<file, env, lastMod, reload, applied, callbackFailures, bootRace, overlapped>>
      BY <1>1 DEF FirstLoad
  <2>2. loaded.config \in Configs /\ (loaded.ok => Validate(loaded.config) = {})
      BY <1>0, LoadedPassed
  <2>3. ConfigTypeOK'
      BY <1>0, <2>1, <2>2 DEF ConfigTypeOK
  <2>4. \A r \in Reloaders : ReloadAt(r, "idle") /\ ReloadAt(r, "idle")'
      BY <2>1 DEF ConfigInv, ReloadsWhenReady, ReloadAt
  <2>5. AllVetted'
      BY <2>1, <2>2, <2>4, CriticalSelf DEF AllVetted, Vetted, ReloadAt
  <2>6. ReadCurrent'
      BY <2>1, <2>4 DEF ReadCurrent, Current, ReloadAt
  <2>7. boot' # "ready"
      BY <2>1
  <2> QED
      BY <2>1, <2>3, <2>4, <2>5, <2>6, <2>7
      DEF ConfigInv, TimesBehind, ReloadsWhenReady, OneReload, FirstTurn, CallbacksInTurn, ReloadAt
<1>2. CASE FirstStat
  <2>1. /\ boot = "stat" /\ boot' = "ready" /\ lastMod' = file.mtime
        /\ applied' = [i \in 1 .. NumCallbacks |-> config]
        /\ UNCHANGED <<file, env, config, start, reload, callbackFailures, bootRace, overlapped>>
      BY <1>2 DEF FirstStat
  <2>3. ConfigTypeOK'
      BY <1>0, <2>1 DEF ConfigTypeOK
  <2>4. \A r \in Reloaders : reload[r].at = "idle" /\ reload'[r].at = "idle"
      BY <2>1 DEF ConfigInv, ReloadsWhenReady, ReloadAt
  <2>5. AllVetted' /\ ReadCurrent' /\ TimesBehind'
      BY <1>0, <2>1, <2>4
      DEF ConfigInv, AllVetted, Vetted, ReadCurrent, TimesBehind, Current, ReloadAt
  <2>6. ReloadsWhenReady' /\ OneReload' /\ FirstTurn' /\ CallbacksInTurn'
      BY <2>1, <2>4 DEF ReloadsWhenReady, OneReload, FirstTurn, CallbacksInTurn, ReloadAt
  <2> QED
      BY <2>3, <2>5, <2>6 DEF ConfigInv
<1> QED
    BY <1>1, <1>2

\* Stop and an edit of the file keep it.
LEMMA EditKeeps ==
    ASSUME ConfigInv, NEW f \in ConfigFiles, StopWatching \/ EditFile(f) \/ UNCHANGED configVars
    PROVE  ConfigInv'
<1>0. ConfigTypeOK /\ file.content \in ConfigFiles /\ file.mtime \in Nat /\ env \in Environments
    BY DEF ConfigInv, ConfigTypeOK
<1>1. CASE StopWatching \/ UNCHANGED configVars
  <2>1. UNCHANGED <<file, env, boot, config, start, lastMod, reload, applied, callbackFailures,
                    bootRace, overlapped>>
      BY <1>1 DEF StopWatching, configVars
  <2>2. ConfigTypeOK' /\ TimesBehind' /\ ReloadsWhenReady' /\ OneReload' /\ FirstTurn'
      BY <2>1 DEF ConfigInv, ConfigTypeOK, TimesBehind, ReloadsWhenReady, OneReload, FirstTurn, ReloadAt
  <2>3. AllVetted' /\ ReadCurrent' /\ CallbacksInTurn'
      BY <2>1 DEF ConfigInv, AllVetted, Vetted, ReadCurrent, Current, CallbacksInTurn, ReloadAt
  <2> QED
      BY <2>2, <2>3 DEF ConfigInv
<1>2. CASE EditFile(f)
  <2>1. /\ file' = [content |-> f, mtime |-> file.mtime + 1]
        /\ bootRace' = (bootRace \/ boot = "stat")
        /\ UNCHANGED <<env, boot, config, start, lastMod, reload, applied, callbackFailures, overlapped>>
      BY <1>2 DEF EditFile
  <2>2. file' \in [content : ConfigFiles, mtime : Nat] /\ file'.mtime = file.mtime + 1
      BY <1>0, <2>1
  <2>3. bootRace' \in BOOLEAN
      BY <2>1
  <2>4. ConfigTypeOK'
      BY <1>0, <2>1, <2>2, <2>3 DEF ConfigTypeOK
  <2>5. AllVetted' /\ ReloadsWhenReady' /\ OneReload' /\ FirstTurn' /\ CallbacksInTurn'
      BY <2>1
      DEF ConfigInv, AllVetted, Vetted, ReloadsWhenReady, OneReload, FirstTurn, CallbacksInTurn, ReloadAt
  <2>6. /\ lastMod \in Nat /\ lastMod <= file.mtime
        /\ \A r \in Reloaders : reload[r].mod \in Nat /\ reload[r].mod <= file.mtime
      BY DEF ConfigInv, ConfigTypeOK, TimesBehind, ReloadRecords
  <2>8. TimesBehind'
      BY <1>0, <2>1, <2>2, <2>6 DEF TimesBehind
  <2>9. boot' = "stat" => bootRace'
      BY <2>1
  <2>10. lastMod' # file'.mtime /\ \A r \in Reloaders : reload'[r].mod # file'.mtime
      BY <1>0, <2>1, <2>2, <2>6
  <2>11. ReadCurrent'
      BY <2>9, <2>10 DEF ReadCurrent
  <2> QED
      BY <2>4, <2>5, <2>8, <2>11 DEF ConfigInv
<1> QED
    BY <1>1, <1>2

\* Every step of a reload keeps it.
LEMMA ReloadKeeps ==
    ASSUME ConfigInv, NEW r \in Reloaders, checkAndReload(r)
    PROVE  ConfigInv'
<1>0. /\ ConfigTypeOK /\ file.content \in ConfigFiles /\ file.mtime \in Nat /\ env \in Environments
      /\ lastMod \in Nat /\ lastMod <= file.mtime
      /\ reload \in [Reloaders -> ReloadRecords]
      /\ \A q \in Reloaders : reload[q].mod <= file.mtime
    BY DEF ConfigInv, ConfigTypeOK, TimesBehind
<1>f. ASSUME Frame
      PROVE  /\ UNCHANGED <<file, env, boot, start, bootRace>>
             /\ Current' = Current
             /\ \A c : Vetted(c)' <=> Vetted(c)
    BY <1>f DEF Frame, Current, Vetted
<1>1. CASE CheckModified(r)
  <2>1. /\ boot = "ready" /\ reload[r].at = "idle" /\ file.mtime > lastMod
        /\ reload' = [reload EXCEPT ![r] = [NotReloading EXCEPT !.at = "load", !.mod = file.mtime]]
        /\ overlapped' = (overlapped \/ \E q \in Reloaders : reload[q].at # "idle")
        /\ UNCHANGED <<config, lastMod, applied, callbackFailures>> /\ Frame
      BY <1>1 DEF CheckModified, ReloadAt
  <2>2. /\ [NotReloading EXCEPT !.at = "load", !.mod = file.mtime] \in ReloadRecords
        /\ [NotReloading EXCEPT !.at = "load", !.mod = file.mtime].at = "load"
        /\ [NotReloading EXCEPT !.at = "load", !.mod = file.mtime].mod = file.mtime
        /\ [NotReloading EXCEPT !.at = "load", !.mod = file.mtime].next = 1
      BY <1>0, NotReloadingTyped DEF NotReloading, ReloadRecords
  <2>3. /\ reload'[r].at = "load" /\ reload'[r].mod = file.mtime /\ reload'[r].next = 1
        /\ \A q \in Reloaders : q # r => reload'[q] = reload[q]
      BY <1>0, <2>1, <2>2
  <2>4. ConfigTypeOK'
    <3>1. reload' \in [Reloaders -> ReloadRecords]
        BY <1>0, <2>1, <2>2
    <3>2. overlapped' \in BOOLEAN
        BY <2>1
    <3> QED
        BY <1>0, <1>f, <2>1, <3>1, <3>2 DEF ConfigTypeOK
  <2>5. AllVetted' /\ TimesBehind' /\ ReloadsWhenReady' /\ ReadCurrent' /\ FirstTurn'
      BY <1>0, <1>f, <2>1, <2>3
      DEF ConfigInv, AllVetted, TimesBehind, ReloadsWhenReady, ReadCurrent, FirstTurn, ReloadAt
  <2>6. ~overlapped' => ~overlapped /\ \A q \in Reloaders : reload[q].at = "idle"
      BY <2>1
  <2>7. OneReload'
      BY <2>3, <2>6 DEF OneReload, ReloadAt
  <2>8. CallbacksInTurn'
      BY <1>f, <2>1, <2>3, <2>6 DEF ConfigInv, CallbacksInTurn, ReloadAt
  <2> QED
      BY <2>4, <2>5, <2>7, <2>8 DEF ConfigInv
<1>2. CASE LoadNew(r)
  <2> DEFINE loaded == Loaded[file.content][env]
  <2>1. /\ reload[r].at = "load"
        /\ UNCHANGED <<config, lastMod, applied, callbackFailures, overlapped>> /\ Frame
        /\ \/ /\ loaded.ok /\ validateCriticalSettings(start, loaded.config)
              /\ reload' = [reload EXCEPT ![r] = [reload[r] EXCEPT !.at = "callbacks", !.new = loaded.config]]
           \/ reload' = [reload EXCEPT ![r] = NotReloading]
      BY <1>2 DEF LoadNew, ReloadAt
  <2>2. loaded.config \in Configs /\ (loaded.ok => Validate(loaded.config) = {})
      BY <1>0, LoadedPassed
  <2>3. boot = "ready"
      BY <2>1 DEF ConfigInv, ReloadsWhenReady, ReloadAt
  <2>4. \A q \in Reloaders : q # r => reload'[q] = reload[q]
      BY <1>0, <2>1
  <2>5. CASE reload' = [reload EXCEPT ![r] = NotReloading]
    <3>1. reload'[r] = NotReloading
        BY <1>0, <2>5
    <3>2. ConfigTypeOK'
        BY <1>0, <1>f, <2>1, <2>5, NotReloadingTyped DEF ConfigTypeOK
    <3>3. AllVetted' /\ TimesBehind' /\ ReloadsWhenReady' /\ ReadCurrent' /\ OneReload' /\ FirstTurn'
        BY <1>0, <1>f, <2>1, <2>4, <3>1, NotReloadingTyped
        DEF ConfigInv, AllVetted, TimesBehind, ReloadsWhenReady, ReadCurrent, OneReload, FirstTurn, ReloadAt
    <3>4. CallbacksInTurn'
        BY <1>f, <2>1, <2>4, <3>1, NotReloadingTyped DEF ConfigInv, CallbacksInTurn, ReloadAt
    <3> QED
        BY <3>2, <3>3, <3>4 DEF ConfigInv
  <2>6. CASE /\ loaded.ok /\ validateCriticalSettings(start, loaded.config)
             /\ reload' = [reload EXCEPT ![r] = [reload[r] EXCEPT !.at = "callbacks", !.new = loaded.config]]
    <3>0. reload[r] \in ReloadRecords
        BY <1>0
    <3>1. /\ reload'[r].at = "callbacks" /\ reload'[r].new = loaded.config
          /\ reload'[r].mod = reload[r].mod /\ reload'[r].next = reload[r].next
        BY <1>0, <2>6, <3>0
    <3>2. ConfigTypeOK'
      <4>1. [reload[r] EXCEPT !.at = "callbacks", !.new = loaded.config] \in ReloadRecords
          BY <2>2, <3>0 DEF ReloadRecords
      <4>2. reload' \in [Reloaders -> ReloadRecords]
          BY <1>0, <2>6, <4>1
      <4> QED
          BY <1>0, <1>f, <2>1, <4>2 DEF ConfigTypeOK
    <3>3. Vetted(loaded.config)
        BY <2>2, <2>6 DEF Vetted
    <3>4. loaded.config = Current
        BY DEF Current
    <3>5. AllVetted' /\ TimesBehind' /\ ReloadsWhenReady' /\ ReadCurrent' /\ OneReload' /\ FirstTurn'
        BY <1>0, <1>f, <2>1, <2>3, <2>4, <3>1, <3>3, <3>4
        DEF ConfigInv, AllVetted, TimesBehind, ReloadsWhenReady, ReadCurrent, OneReload, FirstTurn, ReloadAt
    <3>6. CallbacksInTurn'
      <4> SUFFICES ASSUME callbackFailures = 0, ~overlapped, NEW i \in 1 .. NumCallbacks
                   PROVE  /\ \A q \in Reloaders : ReloadAt(q, "callbacks")' => i >= reload'[q].next
                          /\ applied'[i] = config'
          BY <2>1 DEF CallbacksInTurn
      <4>1. \A q \in Reloaders : q # r => reload[q].at = "idle" /\ reload'[q].at = "idle"
          BY <2>1, <2>4 DEF ConfigInv, OneReload, ReloadAt
      <4>2. reload'[r].next = 1
          BY <2>1, <3>1 DEF ConfigInv, FirstTurn, ReloadAt
      <4>3. applied[i] = config
          BY <2>1, <2>3, <4>1 DEF ConfigInv, CallbacksInTurn, ReloadAt
      <4> QED
          BY <2>1, <4>1, <4>2, <4>3 DEF ReloadAt
    <3> QED
        BY <3>2, <3>5, <3>6 DEF ConfigInv
  <2> QED
      BY <2>1, <2>5, <2>6
<1>3. CASE CallBack(r)
  <2>1. /\ reload[r].at = "callbacks" /\ reload[r].next <= NumCallbacks
        /\ UNCHANGED <<config, lastMod, overlapped>> /\ Frame
        /\ \/ /\ applied' = [applied EXCEPT ![reload[r].next] = reload[r].new]
              /\ reload' = [reload EXCEPT ![r] = [reload[r] EXCEPT !.next = reload[r].next + 1]]
              /\ UNCHANGED callbackFailures
           \/ /\ callbackFailures' = callbackFailures + 1
              /\ reload' = [reload EXCEPT ![r] = NotReloading]
              /\ UNCHANGED applied
      BY <1>3 DEF CallBack, ReloadAt
  <2>3. boot = "ready"
      BY <2>1 DEF ConfigInv, ReloadsWhenReady, ReloadAt
  <2>4. \A q \in Reloaders : q # r => reload'[q] = reload[q]
      BY <1>0, <2>1
  <2>t. callbackFailures \in Nat /\ applied \in [1 .. NumCallbacks -> Configs]
      BY DEF ConfigInv, ConfigTypeOK
  <2>5. CASE callbackFailures' = callbackFailures + 1 /\ reload' = [reload EXCEPT ![r] = NotReloading]
             /\ UNCHANGED applied
    <3>1. reload'[r] = NotReloading
        BY <1>0, <2>5
    <3>2. callbackFailures' \in Nat /\ callbackFailures' # 0
        BY <2>t, <2>5
    <3>3. ConfigTypeOK'
        BY <1>0, <1>f, <2>1, <2>5, <3>2, NotReloadingTyped DEF ConfigTypeOK
    <3>4. AllVetted' /\ TimesBehind' /\ ReloadsWhenReady' /\ ReadCurrent' /\ OneReload' /\ FirstTurn'
        BY <1>0, <1>f, <2>1, <2>4, <3>1, NotReloadingTyped
        DEF ConfigInv, AllVetted, TimesBehind, ReloadsWhenReady, ReadCurrent, OneReload, FirstTurn, ReloadAt
    <3> QED
        BY <3>2, <3>3, <3>4 DEF ConfigInv, CallbacksInTurn
  <2>6. CASE /\ applied' = [applied EXCEPT ![reload[r].next] = reload[r].new]
             /\ reload' = [reload EXCEPT ![r] = [reload[r] EXCEPT !.next = reload[r].next + 1]]
             /\ UNCHANGED callbackFailures
    <3>0. reload[r] \in ReloadRecords
        BY <1>0
    <3>a. /\ reload[r].next \in Nat /\ reload[r].next >= 1 /\ reload[r].next \in 1 .. NumCallbacks
          /\ reload[r].new \in Configs
        BY <2>1, <3>0, ConfigAssumption DEF ReloadRecords
    <3>1. /\ reload'[r].at = "callbacks" /\ reload'[r].new = reload[r].new
          /\ reload'[r].mod = reload[r].mod /\ reload'[r].next = reload[r].next + 1
        BY <1>0, <2>1, <2>6, <3>0
    <3>2. ConfigTypeOK'
      <4>1. [reload[r] EXCEPT !.next = reload[r].next + 1] \in ReloadRecords
          BY <3>0, <3>a DEF ReloadRecords
      <4>2. reload' \in [Reloaders -> ReloadRecords]
          BY <1>0, <2>6, <4>1
      <4>3. applied' \in [1 .. NumCallbacks -> Configs]
          BY <2>t, <2>6, <3>a
      <4> QED
          BY <1>0, <1>f, <2>1, <2>6, <4>2, <4>3 DEF ConfigTypeOK
    <3>5. AllVetted' /\ TimesBehind' /\ ReloadsWhenReady' /\ ReadCurrent' /\ OneReload' /\ FirstTurn'
        BY <1>0, <1>f, <2>1, <2>3, <2>4, <3>1
        DEF ConfigInv, AllVetted, TimesBehind, ReloadsWhenReady, ReadCurrent, OneReload, FirstTurn, ReloadAt
    <3>6. CallbacksInTurn'
      <4> SUFFICES ASSUME callbackFailures = 0, ~overlapped, NEW i \in 1 .. NumCallbacks
                   PROVE \/ \E q \in Reloaders :
                               ReloadAt(q, "callbacks")' /\ i < reload'[q].next /\ applied'[i] = reload'[q].new
                         \/ /\ \A q \in Reloaders : ReloadAt(q, "callbacks")' => i >= reload'[q].next
                            /\ applied'[i] = config'
          BY <2>1, <2>6 DEF CallbacksInTurn
      <4>1. \A q \in Reloaders : q # r => reload[q].at = "idle" /\ reload'[q].at = "idle"
          BY <2>1, <2>4 DEF ConfigInv, OneReload, ReloadAt
      <4>2. CASE i = reload[r].next
          BY <2>t, <2>6, <3>1, <3>a, <4>2 DEF ReloadAt
      <4>3. CASE i # reload[r].next
        <5>1. applied'[i] = applied[i]
            BY <2>t, <2>6, <4>3
        <5>2. \/ i < reload[r].next /\ applied[i] = reload[r].new
              \/ i >= reload[r].next /\ applied[i] = config
            BY <2>1, <2>3, <4>1 DEF ConfigInv, CallbacksInTurn, ReloadAt
        <5>3. CASE i < reload[r].next /\ applied[i] = reload[r].new
            BY <3>1, <3>a, <5>1, <5>3 DEF ReloadAt
        <5>4. CASE i >= reload[r].next /\ applied[i] = config
          <6>1. i >= reload[r].next + 1
              BY <3>a, <4>3, <5>4
          <6> QED
              BY <2>1, <3>1, <4>1, <5>1, <5>4, <6>1 DEF ReloadAt
        <5> QED
            BY <5>2, <5>3, <5>4
      <4> QED
          BY <4>2, <4>3
    <3> QED
        BY <3>2, <3>5, <3>6 DEF ConfigInv
  <2> QED
      BY <2>1, <2>5, <2>6
<1>4. CASE FinishReload(r)
  <2>1. /\ reload[r].at = "callbacks" /\ reload[r].next > NumCallbacks
        /\ config' = reload[r].new /\ lastMod' = reload[r].mod
        /\ reload' = [reload EXCEPT ![r] = NotReloading]
        /\ UNCHANGED <<applied, callbackFailures, overlapped>> /\ Frame
      BY <1>4 DEF FinishReload, UpdateConfig, ReloadAt
  <2>2. boot = "ready"
      BY <2>1 DEF ConfigInv, ReloadsWhenReady, ReloadAt
  <2>3. reload'[r] = NotReloading /\ \A q \in Reloaders : q # r => reload'[q] = reload[q]
      BY <1>0, <2>1
  <2>4. reload[r].mod \in Nat /\ reload[r].new \in Configs /\ reload[r].next \in Nat
      BY <1>0 DEF ReloadRecords
  <2>5. ConfigTypeOK'
      BY <1>0, <1>f, <2>1, <2>4, NotReloadingTyped DEF ConfigTypeOK
  <2>6. AllVetted' /\ TimesBehind' /\ ReloadsWhenReady' /\ OneReload' /\ FirstTurn'
      BY <1>0, <1>f, <2>1, <2>2, <2>3, <2>4, NotReloadingTyped
      DEF ConfigInv, AllVetted, TimesBehind, ReloadsWhenReady, OneReload, FirstTurn, ReloadAt
  <2>7. ReadCurrent'
      BY <1>0, <1>f, <2>1, <2>2, <2>3, NotReloadingTyped DEF ConfigInv, ReadCurrent, ReloadAt
  <2>8. CallbacksInTurn'
    <3> SUFFICES ASSUME callbackFailures = 0, ~overlapped, NEW i \in 1 .. NumCallbacks
                 PROVE  /\ \A q \in Reloaders : ~ReloadAt(q, "callbacks")'
                        /\ applied'[i] = config'
        BY <2>1 DEF CallbacksInTurn
    <3>1. \A q \in Reloaders : q # r => reload[q].at = "idle"
        BY <2>1 DEF ConfigInv, OneReload, ReloadAt
    <3>2. i < reload[r].next
        BY <2>1, <2>4, ConfigAssumption
    <3>3. applied[i] = reload[r].new
        BY <2>1, <2>2, <2>4, <3>1, <3>2 DEF ConfigInv, CallbacksInTurn, ReloadAt
    <3> QED
        BY <2>1, <2>3, <3>1, <3>3, NotReloadingTyped DEF ReloadAt
  <2> QED
      BY <2>5, <2>6, <2>7, <2>8 DEF ConfigInv
<1> QED
    BY <1>1, <1>2, <1>3, <1>4 DEF checkAndReload

\* The invariant of loading and reloading, always.
LEMMA ConfigInvAlways == ConfigSpec => []ConfigInv
<1>1. ASSUME ConfigInv, [ConfigNext]_configVars PROVE ConfigInv'
  <2>1. CASE FirstLoad \/ FirstStat
      BY <1>1, <2>1, BootKeeps
  <2>2. CASE \E r \in Reloaders : checkAndReload(r)
      BY <1>1, <2>2, ReloadKeeps
  <2>3. CASE StopWatching \/ (\E f \in ConfigFiles : EditFile(f)) \/ UNCHANGED configVars
    <3>1. file.content \in ConfigFiles
        BY <1>1 DEF ConfigInv, ConfigTypeOK
    <3> QED
        BY <1>1, <2>3, <3>1, EditKeeps
  <2> QED
      BY <1>1, <2>1, <2>2, <2>3 DEF ConfigNext
<1> QED
    BY ConfigInitially, <1>1, PTL DEF ConfigSpec

(* However reloads overlap, the configuration in use was validated and keeps the critical
   settings of the one the program was started with. *)
THEOREM AlwaysValidated == ConfigSpec => []InUseValid
<1>1. ConfigInv => InUseValid
    BY DEF ConfigInv, AllVetted, Vetted, InUseValid
<1> QED
    BY ConfigInvAlways, <1>1, PTL

(* A configuration in use that is not the file's is older than the file by the time that is
   remembered, so that the next tick of the watcher sees it: the safety half of ConfigConverges. *)
THEOREM StaleAlwaysNoticed == ConfigSpec => []StaleNoticed
<1>1. ConfigInv => StaleNoticed
  <2> SUFFICES ASSUME ConfigInv, boot = "ready", ~bootRace, config # Current PROVE file.mtime > lastMod
      BY DEF StaleNoticed
  <2>1. lastMod # file.mtime
      BY DEF ConfigInv, ReadCurrent
  <2>2. lastMod \in Nat /\ file.mtime \in Nat /\ lastMod <= file.mtime
      BY DEF ConfigInv, ConfigTypeOK, TimesBehind
  <2> QED
      BY <2>1, <2>2
<1> QED
    BY ConfigInvAlways, <1>1, PTL

(* Callbacks and configuration agree between reloads that neither overlapped nor failed. *)
THEOREM CallbacksAlwaysFollow == ConfigSpec => []CallbacksFollow
<1>1. ConfigInv => CallbacksFollow
    BY DEF ConfigInv, CallbacksInTurn, CallbacksFollow, ReloadAt
<1> QED
    BY ConfigInvAlways, <1>1, PTL

-----------------------------------------------------------------------------
(***************************************************************************)
(* The HTTP and WebSocket sources: what a handler has put into the channel *)
(* when it answers, and the list of clients between Stop, broadcasts and   *)
(* the handlers of the connections.                                        *)
(***************************************************************************)

\* The states of a request and of a connection.
RequestRecords ==
    [at : {"idle", "handle", "accepted", "busy"}, next : Nat, entered : Nat,
     answer : {"none", "accepted", "busy", "lost", "refused"}, claimed : Nat, attempts : Nat]
ConnectionRecords ==
    [at : {"none", "upgraded", "reading", "closed", "leaving", "gone"}, messages : Nat]

\* Types.
IngestionTypeOK ==
    /\ channel \in 0 .. ChannelCapacity
    /\ request \in [Requests -> RequestRecords]
    /\ conn \in [Clients -> ConnectionRecords]
    /\ clients \subseteq Clients
    /\ broadcasting \in [Broadcasters -> Clients \cup {Nobody}]
    /\ unsent \in [Broadcasters -> SUBSET Clients]

\* What the handler of a single event has done: entered once at most per attempt, and not yet in
\* an attempt it is still to handle or that found the channel full.
SingleProgress ==
    \A r \in Requests \ BatchRequests :
        LET q == request[r] IN
        /\ q.answer = "accepted" \/ q.at = "accepted" => q.entered >= 1
        /\ q.entered <= q.attempts
        /\ q.at \in {"handle", "busy"} => q.entered + 1 <= q.attempts

\* The inductive invariant of the sources.
IngestionInv == IngestionTypeOK /\ SingleProgress /\ ListFollowsConnections

\* It holds at the start.
LEMMA IngestionInitially == IngestionInit => IngestionInv
<1> SUFFICES ASSUME IngestionInit PROVE IngestionInv
    OBVIOUS
<1>1. NoRequest \in RequestRecords /\ NoConnection \in ConnectionRecords
    BY DEF NoRequest, RequestRecords, NoConnection, ConnectionRecords
<1>2. IngestionTypeOK
    BY <1>1, IngestionAssumption DEF IngestionInit, IngestionTypeOK
<1>3. SingleProgress
    BY DEF IngestionInit, SingleProgress, NoRequest
<1> QED
    BY <1>2, <1>3 DEF IngestionInit, IngestionInv, ListFollowsConnections, NoConnection

\* The numbers of a request, and what the handler's assignments make of it.
LEMMA RequestUpdates ==
    ASSUME NEW q \in RequestRecords
    PROVE  /\ q.next \in Nat /\ q.entered \in Nat /\ q.attempts \in Nat
           /\ LET sent == [q EXCEPT !.at = "handle", !.next = 1, !.attempts = q.attempts + 1]
              IN  /\ sent \in RequestRecords /\ sent.at = "handle" /\ sent.entered = q.entered
                  /\ sent.attempts = q.attempts + 1 /\ sent.answer = q.answer
           /\ [q EXCEPT !.next = q.next + 1, !.entered = q.entered + 1] \in RequestRecords
           /\ [q EXCEPT !.next = q.next + 1] \in RequestRecords
           /\ LET in == [q EXCEPT !.at = "accepted", !.entered = q.entered + 1]
              IN  /\ in \in RequestRecords /\ in.at = "accepted" /\ in.entered = q.entered + 1
                  /\ in.attempts = q.attempts
           /\ LET out == [q EXCEPT !.at = "busy"]
              IN  /\ out \in RequestRecords /\ out.at = "busy" /\ out.entered = q.entered
                  /\ out.attempts = q.attempts /\ out.answer = q.answer
<1>1. q.next \in Nat /\ q.entered \in Nat /\ q.attempts \in Nat
    BY DEF RequestRecords
<1>2. q.next + 1 \in Nat /\ q.entered + 1 \in Nat /\ q.attempts + 1 \in Nat
    BY <1>1
<1> QED
    BY <1>1, <1>2 DEF RequestRecords

\* A step of the HTTP source keeps it.
LEMMA HttpKeeps ==
    ASSUME IngestionInv, NEW r \in Requests, SendRequest(r) \/ handleRequest(r)
    PROVE  IngestionInv'
<1>0. /\ request \in [Requests -> RequestRecords] /\ request[r] \in RequestRecords
      /\ channel \in 0 .. ChannelCapacity /\ ChannelCapacity \in Nat /\ BatchLength \in Nat
      /\ BatchRequests \subseteq Requests
    BY IngestionAssumption DEF IngestionInv, IngestionTypeOK
<1>t. request[r].entered \in Nat /\ request[r].attempts \in Nat
    BY <1>0, RequestUpdates
<1>1. UNCHANGED <<wsUp, conn, clients, broadcasting, unsent>>
    BY DEF SendRequest, handleRequest, WrongMethod, BodyFails, BatchEvent, BatchAnswer, SingleEvent,
           SingleAnswer, wsFrame
<1>2. ASSUME NEW q \in RequestRecords, request' = [request EXCEPT ![r] = q],
             channel' \in 0 .. ChannelCapacity,
             r \notin BatchRequests =>
                /\ q.answer = "accepted" \/ q.at = "accepted" => q.entered >= 1
                /\ q.entered <= q.attempts
                /\ q.at \in {"handle", "busy"} => q.entered + 1 <= q.attempts
      PROVE  IngestionInv'
  <2>1. IngestionTypeOK'
      BY <1>0, <1>1, <1>2 DEF IngestionInv, IngestionTypeOK
  <2>2. SingleProgress'
      BY <1>0, <1>2 DEF IngestionInv, SingleProgress
  <2>3. ListFollowsConnections'
      BY <1>1 DEF IngestionInv, ListFollowsConnections
  <2> QED
      BY <2>1, <2>2, <2>3 DEF IngestionInv
<1>3. r \notin BatchRequests =>
        /\ request[r].answer = "accepted" \/ request[r].at = "accepted" => request[r].entered >= 1
        /\ request[r].entered <= request[r].attempts
        /\ request[r].at \in {"handle", "busy"} => request[r].entered + 1 <= request[r].attempts
    BY DEF IngestionInv, SingleProgress
<1>4. CASE SendRequest(r)
  <2> DEFINE q == [request[r] EXCEPT !.at = "handle", !.next = 1, !.attempts = request[r].attempts + 1]
  <2>1. request' = [request EXCEPT ![r] = q] /\ channel' = channel
      BY <1>4 DEF SendRequest
  <2>2. q \in RequestRecords /\ q.at = "handle" /\ q.entered = request[r].entered
        /\ q.attempts = request[r].attempts + 1 /\ q.answer = request[r].answer
      BY <1>0, RequestUpdates
  <2> HIDE DEF q
  <2>4. r \notin BatchRequests =>
          /\ q.answer = "accepted" \/ q.at = "accepted" => q.entered >= 1
          /\ q.entered <= q.attempts
          /\ q.at \in {"handle", "busy"} => q.entered + 1 <= q.attempts
      BY <1>3, <1>t, <2>2
  <2> QED
      BY <1>0, <1>2, <2>1, <2>2, <2>4
<1>5. ASSUME NEW status \in {"accepted", "busy", "refused"}, NEW claimed \in Nat, Answer(r, status, claimed),
             channel' = channel,
             r \notin BatchRequests => (status = "accepted" => request[r].at = "accepted")
      PROVE  IngestionInv'
  <2> DEFINE told == [request[r] EXCEPT !.at = "idle", !.answer = status, !.claimed = claimed]
             untold == [request[r] EXCEPT !.at = "idle", !.answer = "lost"]
  <2>1. request' = [request EXCEPT ![r] = told] \/ request' = [request EXCEPT ![r] = untold]
      BY <1>5 DEF Answer
  <2>2. /\ told \in RequestRecords /\ told.at = "idle" /\ told.answer = status
        /\ told.entered = request[r].entered /\ told.attempts = request[r].attempts
        /\ untold \in RequestRecords /\ untold.at = "idle" /\ untold.answer = "lost"
        /\ untold.entered = request[r].entered /\ untold.attempts = request[r].attempts
      BY <1>0, <1>5 DEF RequestRecords
  <2> HIDE DEF told, untold
  <2>3. CASE request' = [request EXCEPT ![r] = told]
      BY <1>0, <1>2, <1>3, <1>5, <2>2, <2>3
  <2>4. CASE request' = [request EXCEPT ![r] = untold]
      BY <1>0, <1>2, <1>3, <1>5, <2>2, <2>4
  <2> QED
      BY <2>1, <2>3, <2>4
<1>6. CASE WrongMethod(r) \/ BodyFails(r)
    BY <1>5, <1>6 DEF WrongMethod, BodyFails
<1>7. CASE BatchEvent(r)
  <2> DEFINE q == [request[r] EXCEPT !.next = request[r].next + 1, !.entered = request[r].entered + 1]
             p == [request[r] EXCEPT !.next = request[r].next + 1]
  <2>1. /\ r \in BatchRequests
        /\ \/ channel < ChannelCapacity /\ channel' = channel + 1 /\ request' = [request EXCEPT ![r] = q]
           \/ channel' = channel /\ request' = [request EXCEPT ![r] = p]
      BY <1>7 DEF BatchEvent, Offer
  <2>2. q \in RequestRecords /\ p \in RequestRecords
      BY <1>0, RequestUpdates
  <2>3. channel' \in 0 .. ChannelCapacity
      BY <1>0, <2>1
  <2> QED
      BY <1>2, <2>1, <2>2, <2>3
<1>8. CASE BatchAnswer(r)
    BY <1>0, <1>5, <1>8 DEF BatchAnswer
<1>9. CASE SingleEvent(r)
  <2> DEFINE q == [request[r] EXCEPT !.at = "accepted", !.entered = request[r].entered + 1]
             p == [request[r] EXCEPT !.at = "busy"]
  <2>1. /\ request[r].at = "handle" /\ r \notin BatchRequests
        /\ \/ channel < ChannelCapacity /\ channel' = channel + 1 /\ request' = [request EXCEPT ![r] = q]
           \/ channel' = channel /\ request' = [request EXCEPT ![r] = p]
      BY <1>9 DEF SingleEvent
  <2>2. /\ q \in RequestRecords /\ q.at = "accepted" /\ q.entered = request[r].entered + 1
        /\ q.attempts = request[r].attempts
        /\ p \in RequestRecords /\ p.at = "busy" /\ p.entered = request[r].entered
        /\ p.attempts = request[r].attempts /\ p.answer = request[r].answer
      BY <1>0, RequestUpdates
  <2>3. channel' \in 0 .. ChannelCapacity
      BY <1>0, <2>1
  <2> HIDE DEF q, p
  <2>5. CASE request' = [request EXCEPT ![r] = q]
    <3>1. q.entered >= 1 /\ q.entered <= q.attempts
        BY <1>3, <1>t, <2>1, <2>2
    <3> QED
        BY <1>2, <2>2, <2>3, <2>5, <3>1
  <2>6. CASE request' = [request EXCEPT ![r] = p]
      BY <1>2, <1>3, <1>t, <2>1, <2>2, <2>3, <2>6
  <2> QED
      BY <2>1, <2>5, <2>6
<1>10. CASE SingleAnswer(r)
    BY <1>5, <1>10 DEF SingleAnswer
<1> QED
    BY <1>4, <1>6, <1>7, <1>8, <1>9, <1>10 DEF handleRequest

\* A step that moves one connection or one broadcast, and the list with it, keeps it.
LEMMA WsKeeps == ASSUME IngestionInv, WsNext PROVE IngestionInv'
<1>0. /\ conn \in [Clients -> ConnectionRecords] /\ channel \in 0 .. ChannelCapacity
      /\ \A c \in Clients : conn[c] \in ConnectionRecords
      /\ ChannelCapacity \in Nat /\ clients \subseteq Clients
      /\ broadcasting \in [Broadcasters -> Clients \cup {Nobody}]
      /\ unsent \in [Broadcasters -> SUBSET Clients]
      /\ \A c \in Clients : c \in clients <=> conn[c].at \in {"reading", "closed", "leaving"}
      /\ \A b \in Broadcasters :
            broadcasting[b] # Nobody => broadcasting[b] \in clients /\ unsent[b] \subseteq clients
    BY IngestionAssumption DEF IngestionInv, IngestionTypeOK, ListFollowsConnections
<1>1. request' = request
    BY DEF WsNext, ChannelRead, Upgrade, AddClient, ReadWsMessage, Disconnect, Leave, RemoveClient,
           StopCalled, StopClients, StopServer, BroadcastMessage, WriteToNext, LastWriteDone, httpFrame
<1>2. SingleProgress'
    BY <1>1 DEF IngestionInv, SingleProgress
<1>3. channel' \in 0 .. ChannelCapacity
    BY <1>0 DEF WsNext, ChannelRead, Upgrade, AddClient, ReadWsMessage, Disconnect, Leave, RemoveClient,
                StopCalled, StopClients, StopServer, BroadcastMessage, WriteToNext, LastWriteDone
<1>4. ASSUME /\ conn' \in [Clients -> ConnectionRecords] /\ clients' \subseteq Clients
             /\ broadcasting' \in [Broadcasters -> Clients \cup {Nobody}]
             /\ unsent' \in [Broadcasters -> SUBSET Clients],
             ListFollowsConnections'
      PROVE  IngestionInv'
    BY <1>1, <1>2, <1>3, <1>4 DEF IngestionInv, IngestionTypeOK
<1>5. ASSUME NEW c \in Clients, NEW s \in {"none", "upgraded", "reading", "closed", "leaving", "gone"},
             conn' = [conn EXCEPT ![c] = [conn[c] EXCEPT !.at = s]]
      PROVE  /\ conn' \in [Clients -> ConnectionRecords]
             /\ conn'[c].at = s
             /\ \A d \in Clients : d # c => conn'[d] = conn[d]
    BY <1>0, <1>5 DEF ConnectionRecords
<1>6. ASSUME NEW c \in Clients, Upgrade(c) \/ Disconnect(c) \/ Leave(c) PROVE IngestionInv'
  <2>1. PICK s \in {"upgraded", "closed", "leaving"} :
          /\ conn' = [conn EXCEPT ![c] = [conn[c] EXCEPT !.at = s]]
          /\ conn[c].at = (IF s = "upgraded" THEN "none" ELSE IF s = "closed" THEN "reading" ELSE "closed")
          /\ UNCHANGED <<clients, broadcasting, unsent>>
      BY <1>6 DEF Upgrade, Disconnect, Leave
  <2>2. /\ conn' \in [Clients -> ConnectionRecords] /\ conn'[c].at = s
        /\ \A d \in Clients : d # c => conn'[d] = conn[d]
    <3>1. s \in {"none", "upgraded", "reading", "closed", "leaving", "gone"}
        BY <2>1
    <3>2. conn' = [conn EXCEPT ![c] = [conn[c] EXCEPT !.at = s]]
        BY <2>1
    <3> QED
        BY <1>5, <3>1, <3>2
  <2>3. ListFollowsConnections'
      BY <1>0, <2>1, <2>2 DEF ListFollowsConnections
  <2> QED
      BY <1>0, <1>4, <2>1, <2>2, <2>3
<1>7. ASSUME NEW c \in Clients, AddClient(c) PROVE IngestionInv'
  <2>1. /\ conn' = [conn EXCEPT ![c] = [conn[c] EXCEPT !.at = "reading"]] /\ clients' = clients \cup {c}
        /\ UNCHANGED <<broadcasting, unsent>>
      BY <1>7 DEF AddClient
  <2>2. /\ conn' \in [Clients -> ConnectionRecords] /\ conn'[c].at = "reading"
        /\ \A d \in Clients : d # c => conn'[d] = conn[d]
      BY <1>5, <2>1
  <2>3. ListFollowsConnections'
      BY <1>0, <2>1, <2>2 DEF ListFollowsConnections
  <2> QED
      BY <1>0, <1>4, <2>1, <2>2, <2>3
<1>8. ASSUME NEW c \in Clients, RemoveClient(c) PROVE IngestionInv'
  <2>1. /\ conn' = [conn EXCEPT ![c] = [conn[c] EXCEPT !.at = "gone"]] /\ clients' = clients \ {c}
        /\ UNCHANGED <<broadcasting, unsent>> /\ \A b \in Broadcasters : broadcasting[b] = Nobody
      BY <1>8 DEF RemoveClient, NoReader
  <2>2. /\ conn' \in [Clients -> ConnectionRecords] /\ conn'[c].at = "gone"
        /\ \A d \in Clients : d # c => conn'[d] = conn[d]
      BY <1>5, <2>1
  <2>3. ListFollowsConnections'
      BY <1>0, <2>1, <2>2 DEF ListFollowsConnections
  <2> QED
      BY <1>0, <1>4, <2>1, <2>2, <2>3
<1>9. ASSUME NEW c \in Clients, ReadWsMessage(c) PROVE IngestionInv'
  <2>1. /\ conn' = [conn EXCEPT ![c] = [conn[c] EXCEPT !.messages = conn[c].messages + 1]]
        /\ UNCHANGED <<clients, broadcasting, unsent>>
      BY <1>9 DEF ReadWsMessage
  <2>2. conn' \in [Clients -> ConnectionRecords] /\ \A d \in Clients : conn'[d].at = conn[d].at
      BY <1>0, <2>1 DEF ConnectionRecords
  <2> QED
      BY <1>0, <1>4, <2>1, <2>2 DEF ListFollowsConnections
<1>10. CASE StopClients
  <2>1. /\ conn' = [c \in Clients |->
                     IF conn[c].at = "reading" THEN [conn[c] EXCEPT !.at = "closed"] ELSE conn[c]]
        /\ UNCHANGED <<clients, broadcasting, unsent>>
      BY <1>10 DEF StopClients
  <2>2. ASSUME NEW c \in Clients
        PROVE  /\ conn'[c] \in ConnectionRecords
               /\ conn'[c].at = (IF conn[c].at = "reading" THEN "closed" ELSE conn[c].at)
      BY <1>0, <2>1 DEF ConnectionRecords
  <2>3. conn' \in [Clients -> ConnectionRecords]
      BY <2>1, <2>2
  <2> QED
      BY <1>0, <1>4, <2>1, <2>2, <2>3 DEF ListFollowsConnections
<1>11. CASE ChannelRead \/ StopCalled \/ StopServer
  <2>1. UNCHANGED <<conn, clients, broadcasting, unsent>>
      BY <1>11 DEF ChannelRead, StopCalled, StopServer, wsFrame
  <2> QED
      BY <1>0, <1>4, <2>1 DEF ListFollowsConnections
<1>12. ASSUME NEW b \in Broadcasters, BroadcastMessage(b) \/ WriteToNext(b) PROVE IngestionInv'
  <2>1. PICK c \in clients, rest \in SUBSET clients :
          /\ broadcasting' = [broadcasting EXCEPT ![b] = c]
          /\ unsent' = [unsent EXCEPT ![b] = rest]
    <3>1. CASE BroadcastMessage(b)
        BY <3>1 DEF BroadcastMessage
    <3>2. CASE WriteToNext(b)
        BY <1>0, <3>2 DEF WriteToNext
    <3> QED
        BY <1>12, <3>1, <3>2
  <2>2. UNCHANGED <<conn, clients>>
      BY <1>12 DEF BroadcastMessage, WriteToNext
  <2> QED
      BY <1>0, <1>4, <2>1, <2>2 DEF ListFollowsConnections
<1>13. ASSUME NEW b \in Broadcasters, LastWriteDone(b) PROVE IngestionInv'
  <2>1. broadcasting' = [broadcasting EXCEPT ![b] = Nobody] /\ UNCHANGED <<conn, clients, unsent>>
      BY <1>13 DEF LastWriteDone
  <2> QED
      BY <1>0, <1>4, <2>1 DEF ListFollowsConnections
<1> QED
    BY <1>6, <1>7, <1>8, <1>9, <1>10, <1>11, <1>12, <1>13 DEF WsNext

\* The invariant of the sources, always.
LEMMA IngestionInvAlways == IngestionSpec => []IngestionInv
<1>1. ASSUME IngestionInv, [IngestionNext]_ingestVars PROVE IngestionInv'
  <2>1. CASE \E r \in Requests : SendRequest(r) \/ handleRequest(r)
      BY <1>1, <2>1, HttpKeeps
  <2>2. CASE ChannelRead \/ WsNext
      BY <1>1, <2>2, WsKeeps DEF WsNext
  <2>3. CASE StopHTTP \/ UNCHANGED ingestVars
    <3>1. UNCHANGED <<channel, request, conn, clients, broadcasting, unsent>>
        BY <2>3 DEF StopHTTP, ingestVars, wsFrame
    <3> QED
        BY <1>1, <3>1 DEF IngestionInv, IngestionTypeOK, SingleProgress, ListFollowsConnections
  <2> QED
      BY <1>1, <2>1, <2>2, <2>3 DEF IngestionNext, HttpNext
<1> QED
    BY IngestionInitially, <1>1, PTL DEF IngestionSpec

(* What an HTTP client is told about a single event is true, the channel is never overfilled, and
   an event enters it at most once each time it is sent. *)
THEOREM AcceptedHasEntered == IngestionSpec => []AcceptedEntered
<1>1. IngestionInv => AcceptedEntered
    BY DEF IngestionInv, IngestionTypeOK, SingleProgress, AcceptedEntered
<1> QED
    BY IngestionInvAlways, <1>1, PTL

(* The list of WebSocket clients is the list of the connections whose handler runs, and a
   broadcast writes only to connections on it: what clientsMu is there for. *)
THEOREM ListAlwaysFollows == IngestionSpec => []ListFollowsConnections
<1>1. IngestionInv => ListFollowsConnections
    BY DEF IngestionInv
<1> QED
    BY IngestionInvAlways, <1>1, PTL

-----------------------------------------------------------------------------
(***************************************************************************)
(* The pattern engine and the matcher report what their patterns say, for  *)
(* every set of patterns, every event and every timeout.                   *)
(*                                                                         *)
(* A match is one if its events can be given to the steps of the pattern,  *)
(* which nothing in the engine records: it keeps the current step and a    *)
(* count.  The inductive invariant therefore says of every partial match   *)
(* that there is a way to give its events to the steps up to the current   *)
(* one such that the steps left behind have what they need and the count   *)
(* is what the current one has.  That a negated step was left with nothing *)
(* excluded in between is kept because an event of a later step closes the *)
(* gap, which is what Followable is for.                                   *)
(*                                                                         *)
(* Completeness rests on PrefixKept: consecutive events that begin a plain *)
(* pattern are a partial match the engine holds, unless it timed out.      *)
(*                                                                         *)
(* The matcher searches a buffer in the order of the log, and the loop of  *)
(* its search is a recursive function, reasoned about by induction over    *)
(* the rounds (SublistProofs).                                             *)
(***************************************************************************)

\* The steps of a pattern.
Steps(p) == Patterns[p].steps

\* What the proofs use of a pattern that the engine can follow, with the types of its parts.
SupportedStep(S, s) ==
    /\ S[s].optional \in BOOLEAN /\ S[s].negated \in BOOLEAN
    /\ S[s].min \in Int /\ S[s].max \in Int /\ S[s].constraint.time \in Int
    /\ S[s].quantifier = "at_most" => S[s].max >= 1
    /\ S[s].optional => isQuantifierSatisfied(S[s], 1) /\ S[s].constraint.kind # "after"
    /\ S[s].negated /\ s < Len(S) =>
          ~S[s + 1].negated /\ ~S[s + 1].optional /\ S[s + 1].constraint.kind # "after"

Supported(p) ==
    /\ Len(Steps(p)) \in Nat \ {0} /\ DOMAIN Steps(p) = 1 .. Len(Steps(p))
    /\ \A s \in 1 .. Len(Steps(p)) : SupportedStep(Steps(p), s)
    /\ Patterns[p].window \in Int

AllSupported == \A p \in DOMAIN Patterns : Supported(p)

\* It follows from the types of the patterns.
LEMMA FollowableSupported == ASSUME AllFollowable PROVE AllSupported
<1>. SUFFICES ASSUME NEW p \in DOMAIN Patterns PROVE Supported(p)
  BY DEF AllSupported
<1>1. /\ Len(Steps(p)) \in Nat \ {0} /\ DOMAIN Steps(p) = 1 .. Len(Steps(p))
      /\ Patterns[p].window \in Int
  BY PatternsAssumption DEF Steps
<1>2. ASSUME NEW s \in 1 .. Len(Steps(p)) PROVE SupportedStep(Steps(p), s)
  <2>1. s \in DOMAIN Patterns[p].steps
    BY <1>1 DEF Steps
  <2>2. /\ Steps(p)[s].optional \in BOOLEAN /\ Steps(p)[s].negated \in BOOLEAN
        /\ Steps(p)[s].min \in Int /\ Steps(p)[s].max \in Int /\ Steps(p)[s].constraint.time \in Int
    BY <2>1, PatternsAssumption DEF Steps
  <2>3. /\ Steps(p)[s].quantifier = "at_most" => Steps(p)[s].max >= 1
        /\ Steps(p)[s].optional => isQuantifierSatisfied(Steps(p)[s], 1) /\ Steps(p)[s].constraint.kind # "after"
        /\ Steps(p)[s].negated /\ s < Len(Steps(p)) =>
              ~Steps(p)[s + 1].negated /\ ~Steps(p)[s + 1].optional /\ Steps(p)[s + 1].constraint.kind # "after"
    BY <2>1 DEF AllFollowable, Followable, Steps
  <2>. QED BY <2>2, <2>3 DEF SupportedStep
<1>. QED BY <1>1, <1>2 DEF Supported

\* How many events a step needs.
LEMMA NeededIs ==
    ASSUME NEW st, st.min \in Int
    PROVE  /\ Needed(st) \in Nat \ {0}
           /\ st.quantifier \in {"exactly", "at_least", "range"} =>
                \A c \in Nat : c < Needed(st) => (c + 1 >= st.min <=> c + 1 = Needed(st))
           /\ st.quantifier \notin {"exactly", "at_least", "range"} => Needed(st) = 1
<1>1. CASE st.quantifier \in {"exactly", "at_least", "range"} /\ st.min > 1
  <2>1. Needed(st) = st.min
    BY <1>1 DEF Needed
  <2>. QED BY <1>1, <2>1
<1>2. CASE ~(st.quantifier \in {"exactly", "at_least", "range"} /\ st.min > 1)
  <2>1. Needed(st) = 1
    BY <1>2 DEF Needed
  <2>. QED BY <1>2, <2>1
<1>. QED BY <1>1, <1>2

\* A step takes the number of events it needs.
LEMMA QuantifierIs ==
    ASSUME NEW st, st.min \in Int, st.max \in Int, st.quantifier = "at_most" => st.max >= 1,
           NEW c \in Nat, c < Needed(st)
    PROVE  isQuantifierSatisfied(st, c + 1) <=> c + 1 = Needed(st)
<1>3. CASE st.quantifier \in {"exactly", "at_least", "range"}
  <2>1. isQuantifierSatisfied(st, c + 1) <=> c + 1 >= st.min
    BY <1>3 DEF isQuantifierSatisfied
  <2>. QED BY <1>3, <2>1, NeededIs
<1>4. CASE st.quantifier = "at_most"
  <2>1. isQuantifierSatisfied(st, c + 1) <=> c + 1 >= 1 /\ c + 1 <= st.max
    BY <1>4 DEF isQuantifierSatisfied
  <2>2. Needed(st) = 1
    BY <1>4, NeededIs
  <2>. QED BY <1>4, <2>1, <2>2
<1>5. CASE st.quantifier = "zero_or_more"
  <2>1. isQuantifierSatisfied(st, c + 1)
    BY <1>5 DEF isQuantifierSatisfied
  <2>2. Needed(st) = 1
    BY <1>5, NeededIs
  <2>. QED BY <1>5, <2>1, <2>2
<1>6. CASE st.quantifier \notin {"exactly", "at_least", "range", "at_most", "zero_or_more"}
  <2>1. isQuantifierSatisfied(st, c + 1) <=> c + 1 >= 1
    BY <1>6 DEF isQuantifierSatisfied
  <2>2. Needed(st) = 1
    BY <1>6, NeededIs
  <2>. QED BY <1>6, <2>1, <2>2
<1>. QED BY <1>3, <1>4, <1>5, <1>6

\* The steps of a supported pattern: what they need, and that an optional one needs one.
LEMMA StepNeeds ==
    ASSUME NEW p, Supported(p), NEW s \in 1 .. Len(Steps(p))
    PROVE  /\ Needed(Steps(p)[s]) \in Nat \ {0}
           /\ \A c \in Nat : c < Needed(Steps(p)[s]) =>
                (isQuantifierSatisfied(Steps(p)[s], c + 1) <=> c + 1 = Needed(Steps(p)[s]))
           /\ Steps(p)[s].optional => Needed(Steps(p)[s]) = 1
<1>1. PICK st : st = Steps(p)[s]
  OBVIOUS
<1>2. /\ st.min \in Int /\ st.max \in Int /\ (st.quantifier = "at_most" => st.max >= 1)
      /\ st.optional => isQuantifierSatisfied(st, 1)
  BY <1>1 DEF Supported, SupportedStep
<1>3. Needed(st) \in Nat \ {0}
  BY <1>2, NeededIs
<1>4. \A c \in Nat : c < Needed(st) => (isQuantifierSatisfied(st, c + 1) <=> c + 1 = Needed(st))
  BY <1>2, QuantifierIs
<1>5. 0 + 1 = 1 /\ 0 \in Nat /\ 0 < Needed(st)
  BY <1>3
<1>6. isQuantifierSatisfied(st, 0 + 1) <=> 0 + 1 = Needed(st)
  BY <1>4, <1>5
<1>7. st.optional => Needed(st) = 1
  BY <1>2, <1>5, <1>6
<1>. QED BY <1>1, <1>3, <1>4, <1>7

-----------------------------------------------------------------------------
\* The events of a match given to steps, as MatchesJustified wants it.
Assigned(p, log, ev, f) ==
    /\ f \in [1 .. Len(ev) -> 1 .. Len(Steps(p))]
    /\ \A i \in 1 .. Len(ev) :
         /\ log[ev[i]].type = Steps(p)[f[i]].type
         /\ ~Steps(p)[f[i]].negated
         /\ Patterns[p].window > 0 => log[ev[i]].time - log[ev[1]].time <= Patterns[p].window
    /\ \A i \in 2 .. Len(ev) :
         /\ ev[i - 1] < ev[i] /\ f[i - 1] <= f[i]
         /\ Steps(p)[f[i]].constraint.kind \in {"within", "before"} =>
              log[ev[i]].time - log[ev[i - 1]].time <= Steps(p)[f[i]].constraint.time
         /\ Steps(p)[f[i]].constraint.kind = "after" =>
              log[ev[i]].time - log[ev[i - 1]].time >= Steps(p)[f[i]].constraint.time

\* The events given to a step.
Given(ev, f, s) == {i \in 1 .. Len(ev) : f[i] = s}

\* Event n lies between the events given to earlier steps and those given to later ones.
Between(ev, f, s, n) ==
    \A i \in 1 .. Len(ev) : (f[i] < s => n > ev[i]) /\ (f[i] > s => n < ev[i])

\* A negated step that no event up to one contradicts.
Excludes(p, log, ev, f, s, at) ==
    \A n \in 1 .. at : Between(ev, f, s, n) => log[n].type # Steps(p)[s].type

\* A step that has been left.
Passed(p, log, ev, f, s, at) ==
    IF Steps(p)[s].negated THEN Excludes(p, log, ev, f, s, at)
    ELSE /\ Cardinality(Given(ev, f, s)) <= Needed(Steps(p)[s])
         /\ ~Steps(p)[s].optional => Cardinality(Given(ev, f, s)) = Needed(Steps(p)[s])

\* A list of events of the log.
MatchEvents(log, ev) == ev \in Seq(1 .. Len(log)) /\ Len(ev) \in Nat \ {0}

\* A match that is one.
Justified(p, log, ev, at) ==
    \E f : /\ Assigned(p, log, ev, f)
           /\ \A s \in 1 .. Len(Steps(p)) : Passed(p, log, ev, f, s, at)
           /\ f[Len(ev)] = Len(Steps(p)) /\ Len(ev) > 1 => checkConditions(log, ev, Patterns[p].conditions)

\* A partial match as the engine keeps it.
Followed(p, log, ev, step, count, f) ==
    /\ MatchEvents(log, ev) /\ Assigned(p, log, ev, f)
    /\ step \in 1 .. Len(Steps(p)) + 1 /\ count \in Nat
    /\ \A i \in 1 .. Len(ev) : f[i] <= step
    /\ \A s \in 1 .. Len(Steps(p)) : s < step => Passed(p, log, ev, f, s, Len(log))
    /\ step <= Len(Steps(p)) /\ Steps(p)[step].negated => Excludes(p, log, ev, f, step, Len(log))
    /\ step <= Len(Steps(p)) /\ ~Steps(p)[step].negated =>
          /\ Cardinality(Given(ev, f, step)) = count /\ count < Needed(Steps(p)[step])
          /\ Steps(p)[step].optional => ev[Len(ev)] = Len(log)
    /\ step = Len(Steps(p)) + 1 => Len(Steps(p)) = 1 /\ Len(ev) = 1

\* A log with one more event.
Longer(new, log) ==
    /\ Len(log) \in Nat /\ Len(new) = Len(log) + 1
    /\ \A i \in 1 .. Len(log) : new[i] = log[i]

\* Its events keep their places.
LEMMA AssignedLonger ==
    ASSUME NEW p, NEW log, NEW new, Longer(new, log), NEW ev, MatchEvents(log, ev), NEW f, Assigned(p, log, ev, f)
    PROVE  Assigned(p, new, ev, f) /\ MatchEvents(new, ev)
<1>1. Len(ev) \in Nat \ {0} /\ \A i \in 1 .. Len(ev) : ev[i] \in 1 .. Len(log)
  BY ElementOfSeq DEF MatchEvents
<1>2. \A i \in 1 .. Len(ev) : new[ev[i]] = log[ev[i]]
  BY <1>1 DEF Longer
<1>3. 1 \in 1 .. Len(ev) /\ \A i \in 2 .. Len(ev) : i \in 1 .. Len(ev) /\ i - 1 \in 1 .. Len(ev)
  BY <1>1
<1>4. Assigned(p, new, ev, f)
  BY <1>2, <1>3 DEF Assigned
<1>5. 1 .. Len(log) \subseteq 1 .. Len(new)
  BY DEF Longer
<1>6. ev \in Seq(1 .. Len(new))
  <2>1. ev \in [1 .. Len(ev) -> 1 .. Len(log)]
    BY LenProperties DEF MatchEvents
  <2>2. ev \in [1 .. Len(ev) -> 1 .. Len(new)]
    BY <1>5, <2>1
  <2>. QED BY <1>1, <2>2, SeqDef
<1>. QED BY <1>1, <1>4, <1>6 DEF MatchEvents

\* The events a match has given to a step are finitely many.
LEMMA GivenFinite ==
    ASSUME NEW ev, Len(ev) \in Nat, NEW f, NEW s
    PROVE  IsFiniteSet(Given(ev, f, s)) /\ Cardinality(Given(ev, f, s)) \in Nat
<1>1. IsFiniteSet(1 .. Len(ev))
  BY FS_Interval
<1>. QED BY <1>1, FS_Subset, FS_CardinalityType DEF Given

\* A step that has been left stays so when another event comes, a negated one if a later
\* step has an event.
LEMMA PassedLonger ==
    ASSUME NEW p, NEW log, NEW new, Longer(new, log), NEW ev, MatchEvents(log, ev), NEW f, NEW s,
           Passed(p, log, ev, f, s, Len(log)),
           Steps(p)[s].negated => \E i \in 1 .. Len(ev) : f[i] > s
    PROVE  Passed(p, new, ev, f, s, Len(new))
<1>0. /\ Len(ev) \in Nat \ {0} /\ \A i \in 1 .. Len(ev) : ev[i] \in 1 .. Len(log)
      /\ Len(log) \in Nat /\ Len(new) = Len(log) + 1
  BY ElementOfSeq DEF MatchEvents, Longer
<1>2. CASE Steps(p)[s].negated
  <2>1. Excludes(p, log, ev, f, s, Len(log))
    BY <1>2 DEF Passed
  <2>2. PICK i \in 1 .. Len(ev) : f[i] > s
    BY <1>2
  <2>3. \A n \in 1 .. Len(new) : Between(ev, f, s, n) => n \in 1 .. Len(log) /\ new[n] = log[n]
    BY <1>0, <2>2 DEF Between, Longer
  <2>4. Excludes(p, new, ev, f, s, Len(new))
    BY <2>1, <2>3 DEF Excludes
  <2>. QED BY <1>2, <2>4 DEF Passed
<1>3. CASE ~Steps(p)[s].negated
  BY <1>3 DEF Passed
<1>. QED BY <1>2, <1>3

\* Behind a negated step that has been left comes an event of the step after it.
LEMMA LaterGiven ==
    ASSUME NEW p, Supported(p), NEW log, NEW ev, NEW step, NEW count, NEW f,
           Followed(p, log, ev, step, count, f),
           NEW s \in 1 .. Len(Steps(p)), s + 1 < step, Steps(p)[s].negated
    PROVE  \E i \in 1 .. Len(ev) : f[i] > s
<1>1. s + 1 \in 1 .. Len(Steps(p)) /\ s \in Nat
  BY DEF Supported, Followed
<1>2. ~Steps(p)[s + 1].negated /\ ~Steps(p)[s + 1].optional
  BY <1>1 DEF Supported, SupportedStep
<1>3. Cardinality(Given(ev, f, s + 1)) = Needed(Steps(p)[s + 1])
  BY <1>1, <1>2 DEF Followed, Passed
<1>4. Needed(Steps(p)[s + 1]) # 0
  BY <1>1, StepNeeds
<1>5. Given(ev, f, s + 1) # {}
  BY <1>3, <1>4, FS_EmptySet
<1>. QED BY <1>1, <1>5 DEF Given

\* A match that waits for another event at a negated step or for time to pass.
LEMMA Waits ==
    ASSUME NEW p, Supported(p), NEW log, NEW new, Longer(new, log),
           NEW ev, NEW step, NEW count, NEW f, Followed(p, log, ev, step, count, f),
           step <= Len(Steps(p)),
           \/ Steps(p)[step].negated /\ new[Len(new)].type # Steps(p)[step].type
           \/ ~Steps(p)[step].negated /\ Steps(p)[step].constraint.kind = "after"
    PROVE  Followed(p, new, ev, step, count, f)
<1>0. /\ Len(ev) \in Nat \ {0} /\ \A i \in 1 .. Len(ev) : ev[i] \in 1 .. Len(log)
      /\ Len(log) \in Nat /\ Len(new) = Len(log) + 1
      /\ step \in 1 .. Len(Steps(p)) /\ Len(Steps(p)) \in Nat
  BY ElementOfSeq DEF Followed, MatchEvents, Longer, Supported
<1>1. Assigned(p, new, ev, f) /\ MatchEvents(new, ev)
  BY AssignedLonger DEF Followed
<1>2. ASSUME NEW s \in 1 .. Len(Steps(p)), s < step, Steps(p)[s].negated
      PROVE  \E i \in 1 .. Len(ev) : f[i] > s
  <2>1. ~Steps(p)[s + 1].negated /\ Steps(p)[s + 1].constraint.kind # "after"
    BY <1>0, <1>2 DEF Supported, SupportedStep
  <2>2. s + 1 < step
    BY <1>0, <1>2, <2>1
  <2>. QED BY <1>2, <2>2, LaterGiven
<1>3. ASSUME NEW s \in 1 .. Len(Steps(p)), s < step PROVE Passed(p, new, ev, f, s, Len(new))
  BY <1>2, <1>3, PassedLonger DEF Followed
<1>4. ASSUME Steps(p)[step].negated PROVE Excludes(p, new, ev, f, step, Len(new))
  <2>1. Excludes(p, log, ev, f, step, Len(log))
    BY <1>4 DEF Followed
  <2>2. \A n \in 1 .. Len(new) : n = Len(new) \/ (n \in 1 .. Len(log) /\ new[n] = log[n])
    BY <1>0 DEF Longer
  <2>. QED BY <1>4, <2>1, <2>2 DEF Excludes
<1>5. ASSUME ~Steps(p)[step].negated PROVE ~Steps(p)[step].optional
  BY <1>0, <1>5 DEF Supported, SupportedStep
<1>. QED BY <1>0, <1>1, <1>3, <1>4, <1>5 DEF Followed

\* The step after one that has been left: nothing was given to it.
LEMMA Entered ==
    ASSUME NEW p, Supported(p), NEW log, Len(log) \in Nat, NEW ev, NEW step, NEW f,
           MatchEvents(log, ev), Assigned(p, log, ev, f), step \in 1 .. Len(Steps(p)),
           \A i \in 1 .. Len(ev) : f[i] < step,
           \A s \in 1 .. Len(Steps(p)) : s < step => Passed(p, log, ev, f, s, Len(log)),
           \/ ev[Len(ev)] = Len(log)
           \/ ~Steps(p)[step].negated /\ ~Steps(p)[step].optional
    PROVE  Followed(p, log, ev, step, 0, f)
<1>00. Len(ev) \in Nat \ {0} /\ Len(Steps(p)) \in Nat
  BY DEF Supported, MatchEvents
<1>01. \A i \in 1 .. Len(ev) : f[i] \in 1 .. Len(Steps(p))
  BY DEF Assigned
<1>02. \A i \in 1 .. Len(ev) : f[i] <= step /\ f[i] # step
  BY <1>00, <1>01
<1>0. /\ Len(ev) \in Nat \ {0} /\ Len(Steps(p)) \in Nat
      /\ \A i \in 1 .. Len(ev) : f[i] \in 1 .. Len(Steps(p)) /\ f[i] <= step /\ f[i] # step
  BY <1>00, <1>01, <1>02
<1>1. Given(ev, f, step) = {}
  BY <1>0 DEF Given
<1>2. Cardinality(Given(ev, f, step)) = 0
  BY <1>1, FS_EmptySet
<1>3. 0 < Needed(Steps(p)[step])
  BY StepNeeds
<1>4. ASSUME Steps(p)[step].negated PROVE Excludes(p, log, ev, f, step, Len(log))
  <2>1. Len(ev) \in 1 .. Len(ev) /\ ev[Len(ev)] = Len(log)
    BY <1>0, <1>4
  <2>2. \A n \in 1 .. Len(log) : ~Between(ev, f, step, n)
    BY <2>1 DEF Between
  <2>. QED BY <2>2 DEF Excludes
<1>. QED BY <1>0, <1>2, <1>3, <1>4 DEF Followed

\* A list of events with one more, given to a step.
OneMore(ev, f, n, step, more, g) ==
    more = Append(ev, n) /\ g = [i \in 1 .. Len(ev) + 1 |-> IF i <= Len(ev) THEN f[i] ELSE step]

\* A partial match with one more event, given to its step.
LEMMA Takes ==
    ASSUME NEW p, Supported(p), NEW log, NEW new, Longer(new, log),
           NEW ev, NEW step, NEW count, NEW f, Followed(p, log, ev, step, count, f),
           step <= Len(Steps(p)), ~Steps(p)[step].negated,
           new[Len(new)].type = Steps(p)[step].type,
           Patterns[p].window > 0 => new[Len(new)].time - new[ev[1]].time <= Patterns[p].window,
           Steps(p)[step].constraint.kind \in {"within", "before"} =>
              new[Len(new)].time - new[ev[Len(ev)]].time <= Steps(p)[step].constraint.time,
           Steps(p)[step].constraint.kind = "after" =>
              new[Len(new)].time - new[ev[Len(ev)]].time >= Steps(p)[step].constraint.time,
           NEW more, NEW g, OneMore(ev, f, Len(new), step, more, g)
    PROVE  /\ MatchEvents(new, more) /\ Assigned(p, new, more, g)
           /\ Len(more) = Len(ev) + 1 /\ more[Len(more)] = Len(new) /\ g[Len(more)] = step
           /\ \A i \in 1 .. Len(more) : g[i] <= step
           /\ \A s \in 1 .. Len(Steps(p)) : s < step => Passed(p, new, more, g, s, Len(new))
           /\ Cardinality(Given(more, g, step)) = count + 1
           /\ count + 1 <= Needed(Steps(p)[step])
<1>. DEFINE k == Len(ev)
<1>00. /\ k \in Nat \ {0} /\ \A i \in 1 .. k : ev[i] \in 1 .. Len(log)
       /\ Len(log) \in Nat /\ Len(new) = Len(log) + 1 /\ Len(new) \in 1 .. Len(new)
       /\ step \in 1 .. Len(Steps(p)) /\ Len(Steps(p)) \in Nat
  BY ElementOfSeq DEF Followed, MatchEvents, Longer, Supported
<1>01. Assigned(p, log, ev, f) /\ \A i \in 1 .. k : f[i] <= step
  BY DEF Followed
<1>02. \A i \in 1 .. k : f[i] \in 1 .. Len(Steps(p))
  BY <1>01 DEF Assigned
<1>0. /\ k \in Nat \ {0} /\ \A i \in 1 .. k : ev[i] \in 1 .. Len(log)
      /\ Len(log) \in Nat /\ Len(new) = Len(log) + 1 /\ Len(new) \in 1 .. Len(new)
      /\ step \in 1 .. Len(Steps(p)) /\ Len(Steps(p)) \in Nat
      /\ \A i \in 1 .. k : f[i] \in 1 .. Len(Steps(p)) /\ f[i] <= step
  BY <1>00, <1>01, <1>02
<1>1. Assigned(p, new, ev, f) /\ ev \in Seq(1 .. Len(new))
  BY AssignedLonger DEF Followed, MatchEvents
<1>2. /\ more \in Seq(1 .. Len(new)) /\ Len(more) = k + 1 /\ more[k + 1] = Len(new)
      /\ \A i \in 1 .. k : more[i] = ev[i]
  BY <1>0, <1>1, AppendProperties DEF OneMore
<1>3. /\ g \in [1 .. k + 1 -> 1 .. Len(Steps(p))] /\ g[k + 1] = step
      /\ \A i \in 1 .. k : g[i] = f[i]
      /\ \A i \in 1 .. k + 1 : g[i] <= step
  BY <1>0 DEF OneMore
<1>4. MatchEvents(new, more)
  BY <1>0, <1>2 DEF MatchEvents
<1>5. Assigned(p, new, more, g)
  <2>1. 1 \in 1 .. k /\ k \in 1 .. k /\ more[1] = ev[1] /\ more[k] = ev[k] /\ k + 1 - 1 = k
    BY <1>0, <1>2
  <2>2. \A i \in 1 .. k + 1 : i \in 1 .. k \/ i = k + 1
    BY <1>0
  <2>3. ASSUME NEW i \in 1 .. k + 1
        PROVE  /\ new[more[i]].type = Steps(p)[g[i]].type
               /\ ~Steps(p)[g[i]].negated
               /\ Patterns[p].window > 0 => new[more[i]].time - new[more[1]].time <= Patterns[p].window
    <3>1. CASE i \in 1 .. k
      BY <1>1, <1>2, <1>3, <2>1, <3>1 DEF Assigned
    <3>2. CASE i = k + 1
      BY <1>2, <1>3, <2>1, <3>2
    <3>. QED BY <2>2, <3>1, <3>2
  <2>4. ASSUME NEW i \in 2 .. k + 1
        PROVE  /\ more[i - 1] < more[i] /\ g[i - 1] <= g[i]
               /\ Steps(p)[g[i]].constraint.kind \in {"within", "before"} =>
                    new[more[i]].time - new[more[i - 1]].time <= Steps(p)[g[i]].constraint.time
               /\ Steps(p)[g[i]].constraint.kind = "after" =>
                    new[more[i]].time - new[more[i - 1]].time >= Steps(p)[g[i]].constraint.time
    <3>1. CASE i \in 2 .. k
      <4>1. i \in 1 .. k /\ i - 1 \in 1 .. k
        BY <1>0, <3>1
      <4>2. more[i] = ev[i] /\ more[i - 1] = ev[i - 1] /\ g[i] = f[i] /\ g[i - 1] = f[i - 1]
        BY <1>2, <1>3, <4>1
      <4>. QED BY <1>1, <3>1, <4>2 DEF Assigned
    <3>2. CASE i = k + 1
      <4>1. more[i] = Len(new) /\ more[i - 1] = ev[k] /\ g[i] = step /\ g[i - 1] = f[k]
        BY <1>2, <1>3, <2>1, <3>2
      <4>2. ev[k] < Len(new) /\ f[k] <= step
        BY <1>0, <2>1
      <4>. QED BY <4>1, <4>2
    <3>3. i \in 2 .. k \/ i = k + 1
      BY <1>0
    <3>. QED BY <3>1, <3>2, <3>3
  <2>. QED BY <1>2, <1>3, <2>3, <2>4 DEF Assigned
<1>6. ASSUME NEW s \in 1 .. Len(Steps(p)), s < step PROVE Passed(p, new, more, g, s, Len(new))
  <2>1. Passed(p, log, ev, f, s, Len(log))
    BY <1>6 DEF Followed
  <2>2. CASE Steps(p)[s].negated
    <3>1. Excludes(p, log, ev, f, s, Len(log))
      BY <2>1, <2>2 DEF Passed
    <3>2. ASSUME NEW n \in 1 .. Len(new), Between(more, g, s, n)
          PROVE  n \in 1 .. Len(log) /\ new[n] = log[n] /\ Between(ev, f, s, n)
      <4>1. k + 1 \in 1 .. Len(more) /\ g[k + 1] > s
        BY <1>0, <1>2, <1>3, <1>6
      <4>2. n < Len(new)
        BY <1>2, <3>2, <4>1 DEF Between
      <4>3. n \in 1 .. Len(log) /\ new[n] = log[n]
        BY <1>0, <4>2 DEF Longer
      <4>4. \A i \in 1 .. k : i \in 1 .. Len(more) /\ more[i] = ev[i] /\ g[i] = f[i]
        BY <1>0, <1>2, <1>3
      <4>5. Between(ev, f, s, n)
        BY <3>2, <4>4 DEF Between
      <4>. QED BY <4>3, <4>5
    <3>3. Excludes(p, new, more, g, s, Len(new))
      BY <3>1, <3>2 DEF Excludes
    <3>. QED BY <2>2, <3>3 DEF Passed
  <2>3. CASE ~Steps(p)[s].negated
    <3>1. g[k + 1] # s /\ Len(more) = k + 1 /\ (\A i \in 1 .. k : g[i] = f[i])
          /\ 1 .. k + 1 = (1 .. k) \cup {k + 1}
      BY <1>0, <1>2, <1>3, <1>6
    <3>2. Given(more, g, s) = Given(ev, f, s)
      BY <3>1 DEF Given
    <3>. QED BY <2>1, <2>3, <3>2 DEF Passed
  <2>. QED BY <2>2, <2>3
<1>7. Cardinality(Given(more, g, step)) = count + 1 /\ count + 1 <= Needed(Steps(p)[step])
  <2>0. g[k + 1] = step /\ Len(more) = k + 1 /\ (\A i \in 1 .. k : g[i] = f[i])
        /\ 1 .. k + 1 = (1 .. k) \cup {k + 1} /\ k + 1 \notin 1 .. k
    BY <1>0, <1>2, <1>3
  <2>1. Given(more, g, step) = Given(ev, f, step) \cup {k + 1} /\ k + 1 \notin Given(ev, f, step)
    BY <2>0 DEF Given
  <2>2. IsFiniteSet(Given(ev, f, step))
    BY <1>0, GivenFinite
  <2>3. Cardinality(Given(more, g, step)) = Cardinality(Given(ev, f, step)) + 1
    BY <2>1, <2>2, FS_AddElement
  <2>4. Cardinality(Given(ev, f, step)) = count /\ count < Needed(Steps(p)[step]) /\ count \in Nat
    BY DEF Followed
  <2>5. Needed(Steps(p)[step]) \in Nat
    BY <1>0, StepNeeds
  <2>. QED BY <2>3, <2>4, <2>5
<1>8. Len(more) = k + 1 /\ more[Len(more)] = Len(new) /\ g[Len(more)] = step /\ \A i \in 1 .. Len(more) : g[i] <= step
  BY <1>2, <1>3
<1>. QED BY <1>2, <1>4, <1>5, <1>6, <1>7, <1>8

\* tryAdvanceMatch goes past a step: it is optional and the event does not match it.
Skipped(p, event, i) ==
    Steps(p)[i].optional /\ ~Steps(p)[i].negated /\ ~matchesEventPattern(event, Steps(p)[i])

\* The step that an event meets: those before it are skipped and it is not one of them.
LEMMA StepForIs ==
    ASSUME NEW p, Supported(p), NEW match, match.step \in 1 .. Len(Steps(p)) + 1, NEW event
    PROVE  LET s == StepFor(p, match, event)
           IN  /\ s \in match.step .. Len(Steps(p)) + 1
               /\ s <= Len(Steps(p)) => ~Skipped(p, event, s)
               /\ \A i \in match.step .. s - 1 : Skipped(p, event, i)
<1>. DEFINE L == Len(Steps(p))
            Met(s) == /\ s <= L => ~Skipped(p, event, s)
                      /\ \A i \in match.step .. s - 1 : Skipped(p, event, i)
            T == {s \in Nat : s \in match.step .. L + 1 /\ (s <= L => ~Skipped(p, event, s))}
<1>1. L \in Nat /\ match.step \in 1 .. L + 1
  BY DEF Supported
<1>. HIDE DEF L
<1>2. T \in SUBSET Nat /\ L + 1 \in T
  BY <1>1
<1>3. PICK n \in T : \A m \in T : n <= m
  <2>. HIDE DEF T
  <2>. QED BY <1>2, LeastOfSet
<1>4. ASSUME NEW i \in match.step .. n - 1 PROVE Skipped(p, event, i)
  <2>1. i \in Nat /\ i \in match.step .. L + 1 /\ i <= L /\ ~(n <= i)
    BY <1>1, <1>3
  <2>2. i \notin T
    BY <1>3, <2>1
  <2>. QED BY <2>1, <2>2
<1>5. n \in match.step .. L + 1 /\ Met(n)
  BY <1>3, <1>4
<1>6. StepFor(p, match, event) = CHOOSE s \in match.step .. L + 1 : Met(s)
  BY DEF StepFor, Skipped, Steps, L
<1>. HIDE DEF Met
<1>7. StepFor(p, match, event) \in match.step .. L + 1 /\ Met(StepFor(p, match, event))
  BY <1>5, <1>6
<1>. QED BY <1>7 DEF Met, L

\* Skipping optional steps leads to a step that nothing was given to.
LEMMA Skips ==
    ASSUME NEW p, Supported(p), NEW log, Len(log) \in Nat, NEW ev, NEW step, NEW count, NEW f,
           Followed(p, log, ev, step, count, f), NEW event,
           NEW s \in step .. Len(Steps(p)) + 1, s # step,
           \A i \in step .. s - 1 : Skipped(p, event, i)
    PROVE  /\ \A t \in 1 .. Len(Steps(p)) : t < s => Passed(p, log, ev, f, t, Len(log))
           /\ s <= Len(Steps(p)) => Followed(p, log, ev, s, 0, f)
           /\ \A i \in 1 .. Len(ev) : f[i] < step
<1>0. /\ Len(Steps(p)) \in Nat /\ step \in 1 .. Len(Steps(p)) + 1 /\ count \in Nat
      /\ s \in 1 .. Len(Steps(p)) + 1 /\ step < s /\ step \in step .. s - 1 /\ step <= Len(Steps(p))
      /\ step \in 1 .. Len(Steps(p))
  BY DEF Supported, Followed
<1>1. Steps(p)[step].optional /\ ~Steps(p)[step].negated
  BY <1>0 DEF Skipped
<1>2. MatchEvents(log, ev) /\ Assigned(p, log, ev, f) /\ Len(ev) \in Nat \ {0}
  BY DEF Followed, MatchEvents
<1>3. \A i \in 1 .. Len(ev) : f[i] \in 1 .. Len(Steps(p)) /\ f[i] <= step
  <2>1. \A i \in 1 .. Len(ev) : f[i] \in 1 .. Len(Steps(p))
    BY <1>2 DEF Assigned
  <2>. QED BY <2>1 DEF Followed
<1>4. Cardinality(Given(ev, f, step)) = 0 /\ ev[Len(ev)] = Len(log)
  <2>1. Cardinality(Given(ev, f, step)) = count /\ count < Needed(Steps(p)[step]) /\ ev[Len(ev)] = Len(log)
    BY <1>0, <1>1 DEF Followed
  <2>2. Needed(Steps(p)[step]) = 1
    BY <1>0, <1>1, StepNeeds
  <2>. QED BY <1>0, <2>1, <2>2
<1>5. Given(ev, f, step) = {}
  BY <1>2, <1>4, GivenFinite, FS_EmptySet
<1>6. \A i \in 1 .. Len(ev) : f[i] < step
  <2>1. \A i \in 1 .. Len(ev) : f[i] # step
    BY <1>5 DEF Given
  <2>. QED BY <1>0, <1>3, <2>1
<1>7. ASSUME NEW t \in 1 .. Len(Steps(p)), t < s PROVE Passed(p, log, ev, f, t, Len(log))
  <2>1. CASE t < step
    BY <2>1 DEF Followed
  <2>2. CASE ~(t < step)
    <3>1. t \in step .. s - 1
      BY <1>0, <1>7, <2>2
    <3>2. Steps(p)[t].optional /\ ~Steps(p)[t].negated
      BY <3>1 DEF Skipped
    <3>3. \A i \in 1 .. Len(ev) : f[i] # t
      BY <1>0, <1>3, <1>6, <2>2
    <3>4. Given(ev, f, t) = {}
      BY <3>3 DEF Given
    <3>5. Cardinality(Given(ev, f, t)) = 0
      BY <3>4, FS_EmptySet
    <3>6. Needed(Steps(p)[t]) \in Nat
      BY StepNeeds
    <3>. QED BY <3>2, <3>5, <3>6 DEF Passed
  <2>. QED BY <2>1, <2>2
<1>8. ASSUME s <= Len(Steps(p)) PROVE Followed(p, log, ev, s, 0, f)
  <2>1. s \in 1 .. Len(Steps(p))
    BY <1>0, <1>8
  <2>2. \A i \in 1 .. Len(ev) : f[i] < s
    BY <1>0, <1>3, <1>6
  <2>. QED BY <1>2, <1>4, <1>7, <2>1, <2>2, Entered
<1>. QED BY <1>0, <1>1, <1>6, <1>7, <1>8

\* The outcome of an event for a partial match.
Accounted(p, log, o) ==
    /\ o.is = "kept" => \E ev, step, count, f :
          /\ o.match = PartialMatch(ev, step, count)
          /\ Followed(p, log, ev, step, count, f)
    /\ o.is = "complete" => MatchEvents(log, o.match.events) /\ Justified(p, log, o.match.events, Len(log))

\* An outcome of tryAdvanceMatch that keeps a partial match in order is accounted for.
LEMMA KeptOutcome ==
    ASSUME NEW p, NEW log, NEW ev, NEW step, NEW count, NEW f, Followed(p, log, ev, step, count, f)
    PROVE  Accounted(p, log, Kept(PartialMatch(ev, step, count)))
<1>. DEFINE m == PartialMatch(ev, step, count)
<1>1. Kept(m).is = "kept" /\ Kept(m).match = m
  BY DEF Kept
<1>. QED BY <1>1, Zenon DEF Accounted

\* So is one that completes a match.
LEMMA CompleteOutcome ==
    ASSUME NEW p, NEW log, NEW m, MatchEvents(log, m.events), Justified(p, log, m.events, Len(log))
    PROVE  Accounted(p, log, Complete(m))
<1>1. Complete(m).is = "complete" /\ Complete(m).match = m
  BY DEF Complete
<1>. QED BY <1>1 DEF Accounted

\* So is one that gives up.
LEMMA DroppedOutcome == ASSUME NEW p, NEW log PROVE Accounted(p, log, Dropped)
<1>1. Dropped.is = "dropped"
  BY DEF Dropped
<1>. QED BY <1>1 DEF Accounted

\* A step that is left is the last one, which completes the match, or leads to the next.
LEMMA Leaves ==
    ASSUME NEW p, Supported(p), NEW log, Len(log) \in Nat, NEW ev, NEW step, NEW count, NEW f,
           MatchEvents(log, ev), Assigned(p, log, ev, f), step \in 1 .. Len(Steps(p)),
           \A i \in 1 .. Len(ev) : f[i] <= step,
           \A s \in 1 .. Len(Steps(p)) : s <= step => Passed(p, log, ev, f, s, Len(log)),
           \/ ev[Len(ev)] = Len(log)
           \/ Steps(p)[step].negated
    PROVE  Accounted(p, log, checkIfCompleted(p, log, PartialMatch(ev, step, count)))
<1>. DEFINE m == PartialMatch(ev, step, count)
            next == PartialMatch(ev, step + 1, 0)
<1>0. Len(Steps(p)) \in Nat /\ step \in Nat /\ Len(ev) \in Nat \ {0}
  BY DEF Supported, MatchEvents
<1>10. m.events = ev /\ m.step = step /\ next.events = ev /\ next.step = step + 1
  BY DEF PartialMatch
<1>1. checkIfCompleted(p, log, m) =
        IF step + 1 <= Len(Steps(p)) THEN Kept(next)
        ELSE IF checkConditions(log, ev, Patterns[p].conditions) THEN Complete(next) ELSE Dropped
  <2>. HIDE DEF m
  <2>. QED BY <1>10 DEF checkIfCompleted, Steps
<1>2. CASE step + 1 <= Len(Steps(p))
  <2>1. step + 1 \in 1 .. Len(Steps(p))
    BY <1>0, <1>2
  <2>2. \A i \in 1 .. Len(ev) : f[i] \in 1 .. Len(Steps(p))
    BY DEF Assigned
  <2>3. \A i \in 1 .. Len(ev) : f[i] < step + 1
    BY <1>0, <2>2
  <2>4. \A s \in 1 .. Len(Steps(p)) : s < step + 1 => Passed(p, log, ev, f, s, Len(log))
    BY <1>0
  <2>5. Steps(p)[step].negated => ~Steps(p)[step + 1].negated /\ ~Steps(p)[step + 1].optional
    BY <1>0, <1>2 DEF Supported, SupportedStep
  <2>6. Followed(p, log, ev, step + 1, 0, f)
    BY <2>1, <2>3, <2>4, <2>5, Entered
  <2>. QED BY <1>1, <1>2, <2>6, KeptOutcome
<1>3. CASE ~(step + 1 <= Len(Steps(p))) /\ checkConditions(log, ev, Patterns[p].conditions)
  <2>1. \A s \in 1 .. Len(Steps(p)) : Passed(p, log, ev, f, s, Len(log))
    BY <1>0, <1>3
  <2>2. Justified(p, log, ev, Len(log))
    BY <1>3, <2>1 DEF Justified
  <2>. QED BY <1>1, <1>3, <1>10, <2>2, CompleteOutcome
<1>4. CASE ~(step + 1 <= Len(Steps(p))) /\ ~checkConditions(log, ev, Patterns[p].conditions)
  BY <1>1, <1>4, DroppedOutcome
<1>. QED BY <1>2, <1>3, <1>4

\* A partial match that has no step left is a match.
LEMMA Ends ==
    ASSUME NEW p, Supported(p), NEW log, NEW new, Longer(new, log),
           NEW ev, NEW step, NEW count, NEW f, Followed(p, log, ev, step, count, f), NEW event,
           \A i \in step .. Len(Steps(p)) : Skipped(p, event, i)
    PROVE  MatchEvents(new, ev) /\ Justified(p, new, ev, Len(new))
<1>0. /\ Len(Steps(p)) \in Nat /\ step \in 1 .. Len(Steps(p)) + 1 /\ Len(log) \in Nat
      /\ Len(ev) \in Nat \ {0}
  BY DEF Supported, Followed, Longer, MatchEvents
<1>1. Assigned(p, new, ev, f) /\ MatchEvents(new, ev)
  BY AssignedLonger DEF Followed
<1>2. CASE step = Len(Steps(p)) + 1
  <2>1. Len(Steps(p)) = 1 /\ Len(ev) = 1
    BY <1>2 DEF Followed
  <2>2. f[1] = 1 /\ ~Steps(p)[1].negated
    <3>1. 1 \in 1 .. Len(ev) /\ f[1] \in 1 .. Len(Steps(p)) /\ ~Steps(p)[f[1]].negated
      BY <1>1, <2>1 DEF Assigned
    <3>. QED BY <2>1, <3>1
  <2>3. \A s \in 1 .. Len(Steps(p)) : s = 1 /\ s < step
    BY <1>2, <2>1
  <2>4. \A s \in 1 .. Len(Steps(p)) : Passed(p, new, ev, f, s, Len(new))
    BY <2>2, <2>3, PassedLonger DEF Followed
  <2>. QED BY <1>1, <2>1, <2>4 DEF Justified
<1>3. CASE step # Len(Steps(p)) + 1
  <2>. DEFINE L == Len(Steps(p))
  <2>0. PICK q \in step .. Len(Steps(p)) + 1 : q = L + 1
    BY <1>0
  <2>1. q # step /\ (\A i \in step .. q - 1 : Skipped(p, event, i)) /\ \A t \in 1 .. L : t < q
    BY <1>0, <1>3, <2>0
  <2>2. /\ \A t \in 1 .. L : Passed(p, log, ev, f, t, Len(log))
        /\ step <= L /\ Steps(p)[step].optional /\ ~Steps(p)[step].negated
        /\ \A i \in 1 .. Len(ev) : f[i] < step
    <3>1. Len(log) \in Nat /\ q # step /\ \A i \in step .. q - 1 : Skipped(p, event, i)
      BY <1>0, <2>1
    <3>2. \A t \in 1 .. Len(Steps(p)) : t < q => Passed(p, log, ev, f, t, Len(log))
      BY <3>1, Skips
    <3>3. step <= L /\ Steps(p)[step].optional /\ ~Steps(p)[step].negated
      BY <1>0, <1>3 DEF Skipped
    <3>4. \A i \in 1 .. Len(ev) : f[i] < step
      BY <3>1, Skips
    <3>. QED BY <2>1, <3>2, <3>3, <3>4
  <2>3. ASSUME NEW t \in 1 .. L, Steps(p)[t].negated PROVE \E i \in 1 .. Len(ev) : f[i] > t
    <3>1. ~Skipped(p, event, t)
      BY <2>3 DEF Skipped
    <3>2. t < step
      BY <1>0, <3>1
    <3>3. ~Steps(p)[t + 1].optional
      BY <1>0, <2>2, <2>3, <3>2 DEF Supported, SupportedStep
    <3>4. t + 1 < step
      BY <1>0, <2>2, <3>2, <3>3
    <3>. QED BY <2>3, <3>4, LaterGiven
  <2>4. \A t \in 1 .. L : Passed(p, new, ev, f, t, Len(new))
    BY <2>2, <2>3, PassedLonger DEF Followed
  <2>5. f[Len(ev)] # L
    <3>1. Len(ev) \in 1 .. Len(ev) /\ f[Len(ev)] \in 1 .. L
      BY <1>0, <1>1, SMTT(30) DEF Assigned
    <3>. QED BY <1>0, <2>2, <3>1
  <2>. QED BY <1>1, <2>4, <2>5 DEF Justified
<1>. QED BY <1>2, <1>3

\* An event that an unfinished match meets keeps it, drops it, or completes a match.
LEMMA Advances ==
    ASSUME NEW p, Supported(p), NEW log, NEW new, Longer(new, log),
           \A i \in 1 .. Len(new) : new[i].time \in Int,
           NEW ev, NEW step, NEW count, NEW f, Followed(p, log, ev, step, count, f),
           Patterns[p].window > 0 => new[Len(new)].time - new[ev[1]].time <= Patterns[p].window
    PROVE  Accounted(p, new, tryAdvanceMatch(p, new, PartialMatch(ev, step, count), Len(new)))
<1>. DEFINE L == Len(Steps(p))
            n == Len(new)
            event == new[n]
            m == PartialMatch(ev, step, count)
            s == StepFor(p, m, event)
            c == IF s = step THEN count ELSE 0
            st == Steps(p)[s]
            gap == event.time - new[ev[Len(ev)]].time
            o == tryAdvanceMatch(p, new, m, n)
            at == PartialMatch(ev, s, c)
            more == Append(ev, n)
            taken == PartialMatch(more, s, c + 1)
            late == st.constraint.kind \in {"within", "before"} /\ gap > st.constraint.time
            early == st.constraint.kind = "after" /\ gap < st.constraint.time
<1>0. /\ L \in Nat /\ step \in 1 .. L + 1 /\ count \in Nat /\ Len(log) \in Nat /\ n \in Nat /\ n = Len(log) + 1
      /\ Len(ev) \in Nat \ {0} /\ n \in 1 .. n /\ Len(ev) \in 1 .. Len(ev)
  BY DEF Supported, Followed, Longer, MatchEvents
<1>1. m.events = ev /\ m.step = step /\ m.count = count /\ at.events = ev /\ at.count = c
  BY DEF PartialMatch
<1>2. /\ s \in step .. L + 1 /\ (s <= L => ~Skipped(p, event, s))
      /\ \A i \in step .. s - 1 : Skipped(p, event, i)
  <2>. HIDE DEF m
  <2>. QED BY <1>0, <1>1, StepForIs
<1>3. o = IF s > L THEN Complete(at)
          ELSE IF st.negated
          THEN IF matchesEventPattern(event, st) THEN Dropped
               ELSE IF st.constraint.kind # "none" /\ gap > st.constraint.time
               THEN checkIfCompleted(p, new, at) ELSE Kept(at)
          ELSE IF ~matchesEventPattern(event, st) \/ late THEN Dropped
          ELSE IF early THEN Kept(at)
          ELSE IF isQuantifierSatisfied(st, c + 1) THEN checkIfCompleted(p, new, taken)
          ELSE Kept(taken)
  <2>1. taken.count = c + 1
    BY DEF PartialMatch
  <2>. HIDE DEF m, s, c, at, taken
  <2>2. at = PartialMatch(ev, s, c) /\ taken = PartialMatch(more, s, c + 1) /\ c = IF s = step THEN count ELSE 0
    BY DEF at, taken, c
  <2>3. s = StepFor(p, m, event)
    BY DEF s
  <2>. QED BY <1>1, <2>1, <2>2, <2>3 DEF tryAdvanceMatch, Steps, Last
<1>4. CASE s > L
  <2>1. \A i \in step .. L : Skipped(p, event, i)
    BY <1>0, <1>2, <1>4
  <2>2. MatchEvents(new, ev) /\ Justified(p, new, ev, n)
    BY <2>1, Ends
  <2>. HIDE DEF at, o
  <2>3. Accounted(p, new, Complete(at))
    BY <1>1, <2>2, CompleteOutcome
  <2>. QED BY <1>3, <1>4, <2>3 DEF o
<1>5. CASE s <= L
  <2>1. s \in 1 .. L /\ ~(s > L)
    BY <1>0, <1>2, <1>5
  <2>2. Followed(p, log, ev, s, c, f)
    <3>1. CASE s = step
      BY <3>1
    <3>2. CASE s # step
      BY <1>0, <1>2, <1>5, <3>2, Skips
    <3>. QED BY <3>1, <3>2
  <2>3. c \in Nat
    BY <1>0
  <2>4. gap \in Int /\ st.constraint.time \in Int
    <3>1. ev[Len(ev)] \in 1 .. n
      <4>1. ev[Len(ev)] \in 1 .. Len(log)
        BY <1>0, ElementOfSeq DEF Followed, MatchEvents
      <4>. QED BY <1>0, <4>1
    <3>2. st.constraint.time \in Int
      BY <2>1 DEF Supported, SupportedStep
    <3>. QED BY <1>0, <3>1, <3>2
  <2>5. matchesEventPattern(event, st) <=> event.type = st.type
    BY DEF matchesEventPattern
  <2>. HIDE DEF s, c, o, at, taken, gap
  <2>19. CASE st.negated /\ matchesEventPattern(event, st)
    <3>1. o = Dropped
      BY <1>3, <2>1, <2>19
    <3>. QED BY <3>1, DroppedOutcome DEF o
  <2>20. CASE ~st.negated /\ (~matchesEventPattern(event, st) \/ late)
    <3>1. o = Dropped
      BY <1>3, <2>1, <2>20
    <3>. QED BY <3>1, DroppedOutcome DEF o
  <2>21. CASE st.negated /\ ~matchesEventPattern(event, st)
    <3>1. Followed(p, new, ev, s, c, f)
      BY <2>1, <2>2, <2>5, <2>21, Waits
    <3>2. CASE st.constraint.kind # "none" /\ gap > st.constraint.time
      <4>1. o = checkIfCompleted(p, new, at)
        BY <1>3, <2>1, <2>21, <3>2
      <4>2. /\ MatchEvents(new, ev) /\ Assigned(p, new, ev, f) /\ \A i \in 1 .. Len(ev) : f[i] <= s
            /\ \A t \in 1 .. L : t < s => Passed(p, new, ev, f, t, n)
        BY <3>1 DEF Followed
      <4>3. Passed(p, new, ev, f, s, n)
        BY <2>1, <2>21, <3>1 DEF Followed, Passed
      <4>4. \A t \in 1 .. L : t <= s => Passed(p, new, ev, f, t, n)
        BY <2>1, <4>2, <4>3
      <4>5. Accounted(p, new, checkIfCompleted(p, new, at))
        BY <1>0, <2>1, <2>21, <4>2, <4>4, Leaves DEF at
      <4>. QED BY <4>1, <4>5 DEF o
    <3>3. CASE ~(st.constraint.kind # "none" /\ gap > st.constraint.time)
      <4>1. o = Kept(at)
        BY <1>3, <2>1, <2>21, <3>3
      <4>2. Accounted(p, new, Kept(at))
        BY <3>1, KeptOutcome DEF at
      <4>. QED BY <4>1, <4>2 DEF o
    <3>. QED BY <3>2, <3>3
  <2>22. CASE ~st.negated /\ matchesEventPattern(event, st) /\ ~late /\ early
    <3>1. Followed(p, new, ev, s, c, f)
      BY <2>1, <2>2, <2>22, Waits
    <3>2. o = Kept(at)
      BY <1>3, <2>1, <2>22
    <3>3. Accounted(p, new, Kept(at))
      BY <3>1, KeptOutcome DEF at
    <3>. QED BY <3>2, <3>3 DEF o
  <2>23. CASE ~st.negated /\ matchesEventPattern(event, st) /\ ~late /\ ~early
    <3>. DEFINE g == [i \in 1 .. Len(ev) + 1 |-> IF i <= Len(ev) THEN f[i] ELSE s]
    <3>1. /\ st.constraint.kind \in {"within", "before"} => gap <= st.constraint.time
          /\ st.constraint.kind = "after" => gap >= st.constraint.time
      BY <2>4, <2>23
    <3>11. OneMore(ev, f, n, s, more, g)
      BY DEF OneMore
    <3>. HIDE DEF g, more
    <3>2. /\ MatchEvents(new, more) /\ Assigned(p, new, more, g)
          /\ Len(more) = Len(ev) + 1 /\ more[Len(more)] = n /\ g[Len(more)] = s
          /\ \A i \in 1 .. Len(more) : g[i] <= s
          /\ \A t \in 1 .. L : t < s => Passed(p, new, more, g, t, n)
          /\ Cardinality(Given(more, g, s)) = c + 1
          /\ c + 1 <= Needed(st)
      <4>1. /\ s <= L /\ ~Steps(p)[s].negated /\ event.type = Steps(p)[s].type
            /\ Steps(p)[s].constraint.kind \in {"within", "before"} =>
                 new[n].time - new[ev[Len(ev)]].time <= Steps(p)[s].constraint.time
            /\ Steps(p)[s].constraint.kind = "after" =>
                 new[n].time - new[ev[Len(ev)]].time >= Steps(p)[s].constraint.time
        BY <2>1, <2>5, <2>23, <3>1 DEF gap
      <4>. HIDE DEF late, early
      <4>. QED BY <2>2, <3>11, <4>1, Takes
    <3>3. Needed(st) \in Nat /\ c < Needed(st)
      BY <2>1, <2>3, <3>2, StepNeeds
    <3>4. isQuantifierSatisfied(st, c + 1) <=> c + 1 = Needed(st)
      BY <2>1, <2>3, <3>3, StepNeeds
    <3>5. CASE isQuantifierSatisfied(st, c + 1)
      <4>1. o = checkIfCompleted(p, new, taken)
        BY <1>3, <2>1, <2>23, <3>5
      <4>2. Passed(p, new, more, g, s, n)
        BY <2>3, <2>23, <3>2, <3>3, <3>4, <3>5 DEF Passed
      <4>3. \A t \in 1 .. L : t <= s => Passed(p, new, more, g, t, n)
        BY <2>1, <3>2, <4>2
      <4>4. Accounted(p, new, checkIfCompleted(p, new, taken))
        BY <1>0, <2>1, <3>2, <4>3, Leaves DEF taken
      <4>. QED BY <4>1, <4>4 DEF o
    <3>6. CASE ~isQuantifierSatisfied(st, c + 1)
      <4>1. o = Kept(taken)
        BY <1>3, <2>1, <2>23, <3>6
      <4>2. Followed(p, new, more, s, c + 1, g)
        <5>1. s \in 1 .. L + 1 /\ s # L + 1 /\ c + 1 \in Nat /\ c + 1 < Needed(st)
          BY <1>0, <2>1, <2>3, <3>2, <3>3, <3>4, <3>6
        <5>. QED BY <2>23, <3>2, <5>1 DEF Followed
      <4>3. Accounted(p, new, Kept(taken))
        BY <4>2, KeptOutcome DEF taken
      <4>. QED BY <4>1, <4>3 DEF o
    <3>. QED BY <3>5, <3>6
  <2>24. st.negated \in BOOLEAN
    BY <2>1 DEF Supported, SupportedStep
  <2>25. /\ st.negated \/ ~st.negated
         /\ late \/ ~late
         /\ early \/ ~early
         /\ matchesEventPattern(event, st) \/ ~matchesEventPattern(event, st)
    BY <2>5, <2>24
  <2>26. CASE st.negated
    BY <2>19, <2>21, <2>25, <2>26
  <2>27. CASE ~st.negated
    BY <2>20, <2>22, <2>23, <2>25, <2>27
  <2>. QED BY <2>24, <2>26, <2>27
<1>. QED BY <1>0, <1>2, <1>4, <1>5

\* The engine follows a partial match.
IsFollowed(p, log, m) ==
    \E ev, step, count, f : m = PartialMatch(ev, step, count) /\ Followed(p, log, ev, step, count, f)

\* An event that matches the first step begins a match.
LEMMA Starts ==
    ASSUME NEW p, Supported(p), NEW log, Len(log) \in Nat \ {0},
           \A i \in 1 .. Len(log) : log[i].time \in Int,
           canStartNewMatch(p, log[Len(log)])
    PROVE  IsFollowed(p, log, createPartialMatch(p, Len(log)))
<1>. DEFINE n == Len(log)
            ev == <<n>>
            f == [i \in 1 .. 1 |-> 1]
            L == Len(Steps(p))
<1>1. L \in Nat \ {0} /\ 1 \in 1 .. L /\ n \in 1 .. n /\ Patterns[p].window \in Int
  BY DEF Supported
<1>2. ev \in Seq(1 .. n) /\ Len(ev) = 1 /\ ev[1] = n
  BY <1>1
<1>3. f \in [1 .. 1 -> 1 .. L] /\ f[1] = 1
  BY <1>1
<1>4. ~Steps(p)[1].negated /\ log[n].type = Steps(p)[1].type
  BY DEF canStartNewMatch, matchesEventPattern, Steps
<1>. HIDE DEF ev, f
<1>5. MatchEvents(log, ev)
  BY <1>2 DEF MatchEvents
<1>6. Assigned(p, log, ev, f)
  <2>1. \A i \in 1 .. 1 : i = 1
    OBVIOUS
  <2>2. \A i \in 2 .. 1 : FALSE
    OBVIOUS
  <2>3. Patterns[p].window > 0 => log[n].time - log[n].time <= Patterns[p].window
    BY <1>1
  <2>. QED BY <1>2, <1>3, <1>4, <2>1, <2>2, <2>3 DEF Assigned
<1>7. Cardinality(Given(ev, f, 1)) = 1
  <2>1. Given(ev, f, 1) = {1}
    BY <1>2, <1>3 DEF Given
  <2>. QED BY <2>1, FS_Singleton
<1>8. Needed(Steps(p)[1]) \in Nat /\ 0 < Needed(Steps(p)[1]) /\ (isQuantifierSatisfied(Steps(p)[1], 1) <=> 1 = Needed(Steps(p)[1]))
  <2>1. /\ Needed(Steps(p)[1]) \in Nat \ {0}
        /\ \A c \in Nat : c < Needed(Steps(p)[1]) =>
             (isQuantifierSatisfied(Steps(p)[1], c + 1) <=> c + 1 = Needed(Steps(p)[1]))
    BY <1>1, StepNeeds
  <2>2. 0 \in Nat /\ 0 < Needed(Steps(p)[1]) /\ 0 + 1 = 1
    BY <2>1
  <2>3. isQuantifierSatisfied(Steps(p)[1], 0 + 1) <=> 0 + 1 = Needed(Steps(p)[1])
    BY <2>1, <2>2
  <2>. QED BY <2>1, <2>2, <2>3
<1>9. CASE isQuantifierSatisfied(Steps(p)[1], 1)
  <2>1. createPartialMatch(p, n) = PartialMatch(ev, 2, 0)
    BY <1>9 DEF createPartialMatch, Steps, ev
  <2>2. Passed(p, log, ev, f, 1, n)
    BY <1>4, <1>7, <1>8, <1>9 DEF Passed
  <2>3. \A s \in 1 .. L : s < 2 => Passed(p, log, ev, f, s, n)
    BY <1>1, <2>2
  <2>4. \A i \in 1 .. Len(ev) : f[i] < 2
    BY <1>2, <1>3
  <2>5. CASE 2 <= L
    <3>1. 2 \in 1 .. L /\ ev[Len(ev)] = n
      BY <1>1, <1>2, <2>5
    <3>2. Followed(p, log, ev, 2, 0, f)
      BY <1>1, <1>5, <1>6, <2>3, <2>4, <3>1, Entered
    <3>. QED BY <2>1, <3>2 DEF IsFollowed
  <2>6. CASE ~(2 <= L)
    <3>1. L = 1 /\ 2 = L + 1 /\ 2 \in 1 .. L + 1
      <4>1. L = 1
        <5>. HIDE DEF L
        <5>1. L \in Nat /\ L # 0
          BY <1>1
        <5>. QED BY <2>6, <5>1
      <4>. QED BY <4>1
    <3>2. \A i \in 1 .. Len(ev) : f[i] <= 2
      BY <1>2, <1>3
    <3>3. Followed(p, log, ev, 2, 0, f)
      BY <1>2, <1>5, <1>6, <2>3, <3>1, <3>2 DEF Followed
    <3>. QED BY <2>1, <3>3 DEF IsFollowed
  <2>. QED BY <2>5, <2>6
<1>10. CASE ~isQuantifierSatisfied(Steps(p)[1], 1)
  <2>1. createPartialMatch(p, n) = PartialMatch(ev, 1, 1)
    BY <1>10 DEF createPartialMatch, Steps, ev
  <2>2. \A i \in 1 .. Len(ev) : f[i] <= 1
    BY <1>2, <1>3
  <2>3. 1 < Needed(Steps(p)[1])
    BY <1>8, <1>10
  <2>4. ev[Len(ev)] = n /\ 1 \in 1 .. L + 1 /\ 1 # L + 1 /\ \A s \in 1 .. L : ~(s < 1)
    BY <1>1, <1>2
  <2>5. Followed(p, log, ev, 1, 1, f)
    BY <1>4, <1>5, <1>6, <1>7, <2>2, <2>3, <2>4 DEF Followed
  <2>. QED BY <2>1, <2>5 DEF IsFollowed
<1>. QED BY <1>9, <1>10

\* A match stays one when another event comes.
LEMMA JustifiedLonger ==
    ASSUME NEW p, NEW log, NEW new, Longer(new, log), NEW ev, MatchEvents(log, ev),
           NEW at \in 0 .. Len(log), Justified(p, log, ev, at)
    PROVE  MatchEvents(new, ev) /\ Justified(p, new, ev, at)
<1>0. /\ Len(ev) \in Nat \ {0} /\ DOMAIN ev = 1 .. Len(ev) /\ \A i \in 1 .. Len(ev) : ev[i] \in 1 .. Len(log)
  BY ElementOfSeq, LenProperties DEF MatchEvents
<1>1. PICK f : /\ Assigned(p, log, ev, f)
               /\ \A s \in 1 .. Len(Steps(p)) : Passed(p, log, ev, f, s, at)
               /\ f[Len(ev)] = Len(Steps(p)) /\ Len(ev) > 1 => checkConditions(log, ev, Patterns[p].conditions)
  BY DEF Justified
<1>2. Assigned(p, new, ev, f) /\ MatchEvents(new, ev)
  BY <1>1, AssignedLonger
<1>3. ASSUME NEW s \in 1 .. Len(Steps(p)) PROVE Passed(p, new, ev, f, s, at)
  <2>1. Passed(p, log, ev, f, s, at)
    BY <1>1
  <2>2. \A n \in 1 .. at : new[n] = log[n]
    BY DEF Longer
  <2>3. Excludes(p, log, ev, f, s, at) => Excludes(p, new, ev, f, s, at)
    BY <2>2 DEF Excludes
  <2>. QED BY <2>1, <2>3 DEF Passed
<1>4. \A i \in 1 .. Len(ev) : new[ev[i]] = log[ev[i]]
  BY <1>0 DEF Longer
<1>5. checkConditions(log, ev, Patterns[p].conditions) => checkConditions(new, ev, Patterns[p].conditions)
  BY <1>0, <1>4 DEF checkConditions
<1>. QED BY <1>1, <1>2, <1>3, <1>5 DEF Justified

-----------------------------------------------------------------------------
\* The events that may be in the log.
LogEvents == {[type |-> k.type, user |-> k.user, time |-> t] : k \in EventKinds, t \in Nat}

\* Type invariant of the engine.
CepTyped ==
    /\ cepLog \in Seq(LogEvents) /\ cepNow \in Nat
    /\ registered \subseteq DOMAIN Patterns
    /\ partial = [p \in DOMAIN Patterns |-> partial[p]]
    /\ since \in [DOMAIN Patterns -> Nat]
    /\ matching = {} /\ found = {}

\* The engine follows what it keeps, and keeps nothing for a pattern it does not have.
PartialFollowed ==
    \A p \in DOMAIN Patterns :
        /\ p \notin registered => partial[p] = {}
        /\ \A m \in partial[p] : IsFollowed(p, cepLog, m)

\* What the engine reported is a match.
ReportedJustified ==
    \A m \in reported :
        /\ m.pattern \in DOMAIN Patterns /\ m.at \in 0 .. Len(cepLog)
        /\ MatchEvents(cepLog, m.events)
        /\ Justified(m.pattern, cepLog, m.events, m.at)

\* The inductive invariant.
CepInv == CepTyped /\ PartialFollowed /\ ReportedJustified

\* The log as it is and with another event.
LEMMA LogGrows ==
    ASSUME cepLog \in Seq(LogEvents), cepNow \in Nat, NEW e \in CepEvents
    PROVE  /\ e \in LogEvents
           /\ Append(cepLog, e) \in Seq(LogEvents)
           /\ Longer(Append(cepLog, e), cepLog)
           /\ Len(Append(cepLog, e)) = Len(cepLog) + 1 /\ Len(cepLog) \in Nat
           /\ Append(cepLog, e)[Len(cepLog) + 1] = e
           /\ \A i \in 1 .. Len(Append(cepLog, e)) : Append(cepLog, e)[i].time \in Int
<1>. DEFINE log == Append(cepLog, e)
<1>1. e \in LogEvents
  BY DEF CepEvents, LogEvents
<1>2. /\ Len(cepLog) \in Nat /\ log \in Seq(LogEvents) /\ Len(log) = Len(cepLog) + 1
      /\ log[Len(cepLog) + 1] = e /\ \A i \in 1 .. Len(cepLog) : log[i] = cepLog[i]
  BY <1>1, AppendProperties, LenProperties
<1>. HIDE DEF log
<1>3. \A x \in LogEvents : x.time \in Int
  BY DEF LogEvents
<1>4. \A i \in 1 .. Len(log) : log[i].time \in Int
  BY <1>2, <1>3, ElementOfSeq
<1>5. Longer(log, cepLog)
  BY <1>2 DEF Longer
<1>. QED BY <1>1, <1>2, <1>4, <1>5 DEF log

\* A new engine has nothing to account for.
LEMMA CepInitially == CepInit => CepInv
<1>. SUFFICES ASSUME CepInit PROVE CepInv
  OBVIOUS
<1>1. CepTyped
  BY PatternEngineAssumption DEF CepInit, CepTyped
<1>2. PartialFollowed
  BY DEF CepInit, PartialFollowed
<1>3. ReportedJustified
  BY DEF CepInit, ReportedJustified
<1>. QED BY <1>1, <1>2, <1>3 DEF CepInv

\* RegisterPattern and UnregisterPattern only forget partial matches.
LEMMA RegisterStep ==
    ASSUME CepInv, NEW q \in DOMAIN Patterns, RegisterPattern(q) \/ UnregisterPattern(q)
    PROVE  CepInv'
<1>1. /\ cepLog' = cepLog /\ cepNow' = cepNow /\ reported' = reported /\ partial' = [partial EXCEPT ![q] = {}]
      /\ matching' = matching /\ found' = found
      /\ registered' = registered \cup {q} \/ registered' = registered \ {q}
      /\ since' = since \/ since' = [since EXCEPT ![q] = Len(cepLog)]
  BY DEF RegisterPattern, UnregisterPattern, matcherVars
<1>2. /\ DOMAIN partial = DOMAIN Patterns /\ partial' = [p \in DOMAIN Patterns |-> IF p = q THEN {} ELSE partial[p]]
  BY <1>1 DEF CepInv, CepTyped
<1>3. CepTyped'
  <2>1. partial' = [p \in DOMAIN Patterns |-> partial'[p]]
    BY <1>2
  <2>2. Len(cepLog) \in Nat
    BY LenProperties DEF CepInv, CepTyped
  <2>3. since' \in [DOMAIN Patterns -> Nat]
    BY <1>1, <2>2 DEF CepInv, CepTyped
  <2>. QED BY <1>1, <2>1, <2>3 DEF CepInv, CepTyped
<1>4. PartialFollowed'
  BY <1>1, <1>2 DEF CepInv, PartialFollowed
<1>5. ReportedJustified'
  BY <1>1 DEF CepInv, ReportedJustified
<1>. QED BY <1>3, <1>4, <1>5 DEF CepInv

\* So does cleanupTimedOutMatches.
LEMMA CleanupStep ==
    ASSUME CepInv, cleanupTimedOutMatches
    PROVE  CepInv'
<1>1. /\ cepLog' = cepLog /\ cepNow' = cepNow /\ reported' = reported /\ since' = since
      /\ matching' = matching /\ found' = found /\ registered' = registered
  BY DEF cleanupTimedOutMatches, matcherVars
<1>2. partial' = [p \in DOMAIN Patterns |-> partial[p] \ {m \in partial[p] : hasTimedOut(p, m)}]
  BY DEF cleanupTimedOutMatches
<1>3. \A p \in DOMAIN Patterns : partial'[p] \subseteq partial[p]
  BY <1>2
<1>4. partial' = [p \in DOMAIN Patterns |-> partial'[p]]
  BY <1>2
<1>5. CepTyped'
  BY <1>1, <1>4 DEF CepInv, CepTyped
<1>6. PartialFollowed'
  BY <1>1, <1>3 DEF CepInv, PartialFollowed
<1>7. ReportedJustified'
  BY <1>1 DEF CepInv, ReportedJustified
<1>. QED BY <1>5, <1>6, <1>7 DEF CepInv

\* ProcessEvent: what it keeps and starts is in order, and what it returns is a match.
LEMMA ProcessStep ==
    ASSUME AllSupported, CepInv, NEW e \in CepEvents, ProcessEvent(e)
    PROVE  CepInv'
<1>. DEFINE n == Len(cepLog) + 1
            log == Append(cepLog, e)
            Alive(p) == {m \in partial[p] : ~hasTimedOut(p, m) /\ InWindow(p, m, e)}
            Outcomes(p) == {tryAdvanceMatch(p, log, m, n) : m \in Alive(p)}
            Started(p) == IF canStartNewMatch(p, e) THEN {createPartialMatch(p, n)} ELSE {}
<1>0. cepLog \in Seq(LogEvents) /\ cepNow \in Nat
  BY DEF CepInv, CepTyped
<1>1. /\ e \in LogEvents /\ log \in Seq(LogEvents) /\ Longer(log, cepLog)
      /\ Len(log) = n /\ Len(cepLog) \in Nat /\ log[n] = e
      /\ \A i \in 1 .. Len(log) : log[i].time \in Int
  BY <1>0, LogGrows
<1>2. /\ cepLog' = log /\ cepNow' = cepNow /\ since' = since
      /\ matching' = matching /\ found' = found /\ registered' = registered
  BY DEF ProcessEvent, matcherVars
<1>3. partial' = [p \in DOMAIN Patterns |->
                    IF p \in registered
                    THEN {o.match : o \in {x \in Outcomes(p) : x.is = "kept"}} \cup Started(p)
                    ELSE partial[p]]
  BY DEF ProcessEvent
<1>4. reported' = reported \cup
              UNION {{[pattern |-> p, events |-> o.match.events, at |-> n] :
                        o \in {x \in Outcomes(p) : x.is = "complete"}} : p \in registered}
  BY DEF ProcessEvent
<1>. HIDE DEF log
<1>5. ASSUME NEW p \in DOMAIN Patterns, NEW o \in Outcomes(p) PROVE Accounted(p, log, o)
  <2>1. PICK m \in Alive(p) : o = tryAdvanceMatch(p, log, m, n)
    BY <1>5
  <2>2. m \in partial[p] /\ InWindow(p, m, e)
    BY <2>1
  <2>3. IsFollowed(p, cepLog, m)
    BY <2>2 DEF CepInv, PartialFollowed
  <2>4. PICK ev, step, count, f : m = PartialMatch(ev, step, count) /\ Followed(p, cepLog, ev, step, count, f)
    BY <2>3 DEF IsFollowed
  <2>5. m.events = ev
    BY <2>4 DEF PartialMatch
  <2>6. 1 \in 1 .. Len(ev) /\ ev[1] \in 1 .. Len(cepLog)
    BY <2>4, ElementOfSeq DEF Followed, MatchEvents
  <2>7. log[ev[1]] = cepLog[ev[1]]
    BY <1>1, <2>6 DEF Longer
  <2>8. Patterns[p].window > 0 => log[Len(log)].time - log[ev[1]].time <= Patterns[p].window
    BY <1>1, <2>2, <2>5, <2>7 DEF InWindow
  <2>9. Supported(p)
    BY DEF AllSupported
  <2>10. Accounted(p, log, tryAdvanceMatch(p, log, PartialMatch(ev, step, count), Len(log)))
    BY <1>1, <2>4, <2>8, <2>9, Advances
  <2>. QED BY <1>1, <2>1, <2>4, <2>10
<1>6. ASSUME NEW p \in DOMAIN Patterns, NEW m \in Started(p) PROVE IsFollowed(p, log, m)
  <2>1. canStartNewMatch(p, e) /\ m = createPartialMatch(p, n)
    BY <1>6
  <2>2. Supported(p) /\ Len(log) \in Nat \ {0} /\ canStartNewMatch(p, log[Len(log)])
    BY <1>1, <2>1 DEF AllSupported
  <2>3. IsFollowed(p, log, createPartialMatch(p, Len(log)))
    BY <1>1, <2>2, Starts
  <2>. QED BY <1>1, <2>1, <2>3
<1>. HIDE DEF n, Outcomes, Started
<1>7. CepTyped'
  <2>1. partial' = [p \in DOMAIN Patterns |-> partial'[p]]
    BY <1>3
  <2>. QED BY <1>1, <1>2, <2>1 DEF CepInv, CepTyped
<1>8. PartialFollowed'
  <2>1. ASSUME NEW p \in DOMAIN Patterns
        PROVE  /\ p \notin registered => partial'[p] = {}
               /\ \A m \in partial'[p] : IsFollowed(p, log, m)
    <3>1. CASE p \in registered
      <4>1. partial'[p] = {o.match : o \in {x \in Outcomes(p) : x.is = "kept"}} \cup Started(p)
        BY <1>3, <3>1
      <4>2. ASSUME NEW m \in partial'[p] PROVE IsFollowed(p, log, m)
        <5>1. CASE m \in Started(p)
          BY <1>6, <5>1
        <5>2. CASE m \in {o.match : o \in {x \in Outcomes(p) : x.is = "kept"}}
          <6>1. PICK o \in Outcomes(p) : o.is = "kept" /\ m = o.match
            BY <5>2
          <6>2. Accounted(p, log, o)
            BY <1>5
          <6>. QED BY <6>1, <6>2 DEF Accounted, IsFollowed
        <5>. QED BY <4>1, <4>2, <5>1, <5>2
      <4>. QED BY <3>1, <4>2
    <3>2. CASE p \notin registered
      <4>1. partial'[p] = {}
        BY <1>3, <3>2 DEF CepInv, PartialFollowed
      <4>. QED BY <4>1
    <3>. QED BY <3>1, <3>2
  <2>. QED BY <1>2, <2>1 DEF PartialFollowed
<1>9. ReportedJustified'
  <2>1. ASSUME NEW m \in reported'
        PROVE  /\ m.pattern \in DOMAIN Patterns /\ m.at \in 0 .. Len(log)
               /\ MatchEvents(log, m.events)
               /\ Justified(m.pattern, log, m.events, m.at)
    <3>1. CASE m \in reported
      <4>1. /\ m.pattern \in DOMAIN Patterns /\ m.at \in 0 .. Len(cepLog) /\ MatchEvents(cepLog, m.events)
            /\ Justified(m.pattern, cepLog, m.events, m.at)
        BY <3>1 DEF CepInv, ReportedJustified
      <4>2. m.at \in 0 .. Len(log)
        BY <1>1, <4>1 DEF n
      <4>. QED BY <1>1, <4>1, <4>2, JustifiedLonger
    <3>2. CASE m \notin reported
      <4>1. PICK p \in registered : m \in {[pattern |-> p, events |-> o.match.events, at |-> n] :
                                              o \in {x \in Outcomes(p) : x.is = "complete"}}
        BY <1>4, <2>1, <3>2
      <4>2. PICK o \in Outcomes(p) : o.is = "complete" /\ m = [pattern |-> p, events |-> o.match.events, at |-> n]
        BY <4>1
      <4>3. p \in DOMAIN Patterns
        BY DEF CepInv, CepTyped
      <4>4. MatchEvents(log, o.match.events) /\ Justified(p, log, o.match.events, Len(log))
        BY <1>5, <4>2, <4>3 DEF Accounted
      <4>5. m.pattern = p /\ m.events = o.match.events /\ m.at = n
        BY <4>2
      <4>6. n \in 0 .. Len(log)
        BY <1>1 DEF n
      <4>. QED BY <1>1, <4>3, <4>4, <4>5, <4>6
    <3>. QED BY <3>1, <3>2
  <2>. QED BY <1>2, <2>1 DEF ReportedJustified
<1>. QED BY <1>7, <1>8, <1>9 DEF CepInv

\* The engine only ever follows and reports events that its patterns account for.
LEMMA CepInvAlways == ASSUME AllSupported PROVE CepSpec => []CepInv
<1>1. ASSUME CepInv, [EngineNext]_cepVars PROVE CepInv'
  <2>1. CASE CepTick
    <3>1. cepNow' \in Nat
      BY <1>1, <2>1 DEF CepTick, CepInv, CepTyped
    <3>. QED BY <1>1, <2>1, <3>1 DEF CepTick, engineVars, matcherVars, CepInv, CepTyped, PartialFollowed, ReportedJustified
  <2>2. CASE UNCHANGED cepVars
    BY <1>1, <2>2 DEF cepVars, engineVars, matcherVars, CepInv, CepTyped, PartialFollowed, ReportedJustified
  <2>. QED BY <1>1, <2>1, <2>2, RegisterStep, ProcessStep, CleanupStep DEF EngineNext
<1>. QED BY <1>1, CepInitially, PTL DEF CepSpec

\* A match of the engine is one in the sense of MatchesJustified.
LEMMA CepInvJustifies == ASSUME AllSupported, CepInv PROVE MatchesJustified
<1>1. ASSUME NEW m \in reported
      PROVE  \E f \in [1 .. Len(m.events) -> DOMAIN Patterns[m.pattern].steps] : Justifies(m, f)
  <2>. DEFINE p == m.pattern
              ev == m.events
              k == Len(ev)
  <2>1. /\ p \in DOMAIN Patterns /\ m.at \in 0 .. Len(cepLog) /\ MatchEvents(cepLog, ev)
        /\ Justified(p, cepLog, ev, m.at)
    BY <1>1 DEF CepInv, ReportedJustified
  <2>2. DOMAIN Steps(p) = 1 .. Len(Steps(p))
    BY <2>1 DEF AllSupported, Supported
  <2>3. DOMAIN cepLog = 1 .. Len(cepLog) /\ Len(cepLog) \in Nat
    BY LenProperties DEF CepInv, CepTyped
  <2>. HIDE DEF p, ev
  <2>4. PICK f : /\ Assigned(p, cepLog, ev, f)
                 /\ \A s \in 1 .. Len(Steps(p)) : Passed(p, cepLog, ev, f, s, m.at)
                 /\ f[Len(ev)] = Len(Steps(p)) /\ Len(ev) > 1 => checkConditions(cepLog, ev, Patterns[p].conditions)
    BY <2>1 DEF Justified
  <2>5. /\ f \in [1 .. k -> DOMAIN Steps(p)]
        /\ \A i \in 1 .. k : /\ cepLog[ev[i]].type = Steps(p)[f[i]].type
                             /\ ~Steps(p)[f[i]].negated
                             /\ Patterns[p].window > 0 => TimeOf(ev[i]) - TimeOf(ev[1]) <= Patterns[p].window
        /\ \A i \in 2 .. k :
              /\ ev[i - 1] < ev[i] /\ f[i - 1] <= f[i]
              /\ Steps(p)[f[i]].constraint.kind \in {"within", "before"} => TimeOf(ev[i]) - TimeOf(ev[i - 1]) <= Steps(p)[f[i]].constraint.time
              /\ Steps(p)[f[i]].constraint.kind = "after" => TimeOf(ev[i]) - TimeOf(ev[i - 1]) >= Steps(p)[f[i]].constraint.time
    BY <2>2, <2>4 DEF Assigned, TimeOf
  <2>6. ASSUME NEW s \in DOMAIN Steps(p), Steps(p)[s].negated, NEW n \in DOMAIN cepLog,
               \A b \in {ev[i] : i \in {j \in 1 .. k : f[j] < s}} : n > b,
               \A a \in {ev[i] : i \in {j \in 1 .. k : f[j] > s}} : n < a,
               n <= m.at
        PROVE  cepLog[n].type # Steps(p)[s].type
    <3>1. Between(ev, f, s, n)
      BY <2>6 DEF Between
    <3>2. n \in 1 .. m.at
      BY <2>1, <2>3, <2>6
    <3>3. Excludes(p, cepLog, ev, f, s, m.at)
      BY <2>2, <2>4, <2>6 DEF Passed
    <3>. QED BY <3>1, <3>2, <3>3 DEF Excludes
  <2>7. ASSUME NEW s \in DOMAIN Steps(p), ~Steps(p)[s].negated
        PROVE  /\ Cardinality({i \in 1 .. k : f[i] = s}) <= Needed(Steps(p)[s])
               /\ ~Steps(p)[s].optional => Cardinality({i \in 1 .. k : f[i] = s}) = Needed(Steps(p)[s])
    BY <2>2, <2>4, <2>7 DEF Passed, Given
  <2>8. \A s \in DOMAIN Steps(p) :
          IF Steps(p)[s].negated
          THEN \A n \in DOMAIN cepLog :
                  /\ \A b \in {ev[i] : i \in {j \in 1 .. k : f[j] < s}} : n > b
                  /\ \A a \in {ev[i] : i \in {j \in 1 .. k : f[j] > s}} : n < a
                  /\ n <= m.at
                  => cepLog[n].type # Steps(p)[s].type
          ELSE /\ Cardinality({i \in 1 .. k : f[i] = s}) <= Needed(Steps(p)[s])
               /\ ~Steps(p)[s].optional => Cardinality({i \in 1 .. k : f[i] = s}) = Needed(Steps(p)[s])
    BY <2>6, <2>7
  <2>. QED BY <2>4, <2>5, <2>8, Zenon DEF Justifies, Steps, p, ev
<1>2. matching = {}
  BY DEF CepInv, CepTyped
<1>. QED BY <1>1, <1>2, Zenon DEF MatchesJustified

-----------------------------------------------------------------------------
\* The first k events from number n on.
Prefix(n, k) == [i \in 1 .. k |-> n + i - 1]

\* They are the first k steps of the pattern, and more are to come.
Begun(p, log, n, k) ==
    /\ k < Len(Steps(p)) \/ (k = 1 /\ Len(Steps(p)) = 1)
    /\ \A i \in 1 .. k : log[n + i - 1].type = Steps(p)[i].type
    /\ Patterns[p].window > 0 => \A i \in 1 .. k : log[n + i - 1].time - log[n].time <= Patterns[p].window

\* The engine keeps the match that such events have begun, unless it timed out.
PrefixKept ==
    \A p \in registered, n \in 1 .. Len(cepLog) :
        /\ Plain(p) /\ n > since[p] /\ <<p, n>> \notin abandoned
        /\ Begun(p, cepLog, n, Len(cepLog) - n + 1)
        => PartialMatch(Prefix(n, Len(cepLog) - n + 1), Len(cepLog) - n + 2, 0) \in partial[p]

\* The inductive invariant of completeness.
FoundInv == PrefixKept /\ OccurrencesFound

\* Consecutive numbers, and one more.
LEMMA PrefixIs ==
    ASSUME NEW n \in Nat \ {0}, NEW k \in Nat \ {0}
    PROVE  /\ Prefix(n, k) \in Seq(Nat) /\ Len(Prefix(n, k)) = k /\ DOMAIN Prefix(n, k) = 1 .. k
           /\ Prefix(n, k)[1] = n /\ Prefix(n, k)[k] = n + k - 1
           /\ \A i \in 1 .. k : Prefix(n, k)[i] = n + i - 1
           /\ Append(Prefix(n, k), n + k) = Prefix(n, k + 1)
<1>. DEFINE q == Prefix(n, k)
            r == Append(q, n + k)
            s == Prefix(n, k + 1)
<1>1. q \in [1 .. k -> Nat] /\ \A i \in 1 .. k : q[i] = n + i - 1
  BY DEF Prefix
<1>2. q \in Seq(Nat) /\ Len(q) = k /\ DOMAIN q = 1 .. k
  <2>1. q \in Seq(Nat)
    BY <1>1, SeqDef
  <2>. QED BY <1>1, <2>1, LenProperties
<1>3. 1 \in 1 .. k /\ k \in 1 .. k
  OBVIOUS
<1>4. s \in [1 .. k + 1 -> Nat] /\ \A i \in 1 .. k + 1 : s[i] = n + i - 1
  BY DEF Prefix
<1>. HIDE DEF q, s
<1>5. /\ r \in Seq(Nat) /\ Len(r) = k + 1 /\ r[k + 1] = n + k /\ \A i \in 1 .. k : r[i] = q[i]
  BY <1>2, AppendProperties
<1>. HIDE DEF r
<1>6. DOMAIN r = 1 .. k + 1 /\ r \in [1 .. k + 1 -> Nat]
  BY <1>5, LenProperties
<1>7. \A i \in 1 .. k + 1 : r[i] = s[i]
  <2>1. \A i \in 1 .. k + 1 : i \in 1 .. k \/ i = k + 1
    OBVIOUS
  <2>. QED BY <1>1, <1>4, <1>5, <2>1
<1>8. r = s
  BY <1>4, <1>6, <1>7
<1>. QED BY <1>1, <1>2, <1>3, <1>8 DEF q, r, s

\* The first of them.
LEMMA PrefixOne == ASSUME NEW n \in Nat PROVE Prefix(n, 1) = <<n>>
<1>1. Prefix(n, 1) = [i \in 1 .. 1 |-> n]
  BY DEF Prefix
<1>. QED BY <1>1

\* What an occurrence is, in terms of the steps.
LEMMA OccurredIs ==
    ASSUME NEW p, Supported(p), NEW n \in Nat \ {0}, NEW log, NEW from
    PROVE  LET L == Len(Steps(p))
               last == IF L = 1 THEN n + 1 ELSE n + L - 1
           IN  /\ Occurrence(p, n) = Prefix(n, L)
               /\ Occurred(p, log, from, n) <=>
                    /\ Plain(p) /\ n > from /\ last <= Len(log)
                    /\ \A i \in 1 .. L : log[n + i - 1].type = Steps(p)[i].type
                    /\ Patterns[p].window > 0 =>
                          \A i \in n .. last : log[i].time - log[n].time <= Patterns[p].window
                    /\ checkConditions(log, Prefix(n, L), Patterns[p].conditions)
<1>. DEFINE L == Len(Steps(p))
            q == Prefix(n, L)
<1>1. L \in Nat \ {0} /\ DOMAIN Steps(p) = 1 .. L
  BY DEF Supported
<1>2. Occurrence(p, n) = q
  BY <1>1 DEF Occurrence, Prefix, Steps
<1>3. Len(q) = L /\ DOMAIN q = 1 .. L /\ q[L] = n + L - 1 /\ \A i \in 1 .. L : q[i] = n + i - 1
  <2>. HIDE DEF L
  <2>. QED BY <1>1, PrefixIs
<1>. HIDE DEF q
<1>4. Occurred(p, log, from, n) <=>
         /\ Plain(p) /\ n > from
         /\ (IF Len(q) = 1 THEN n + 1 ELSE q[Len(q)]) <= Len(log)
         /\ \A i \in DOMAIN q : log[q[i]].type = Patterns[p].steps[i].type
         /\ Patterns[p].window > 0 =>
               \A i \in n .. (IF Len(q) = 1 THEN n + 1 ELSE q[Len(q)]) : log[i].time - log[n].time <= Patterns[p].window
         /\ checkConditions(log, q, Patterns[p].conditions)
  BY <1>2 DEF Occurred, Last
<1>5. (IF Len(q) = 1 THEN n + 1 ELSE q[Len(q)]) = IF L = 1 THEN n + 1 ELSE n + L - 1
  BY <1>3
<1>6. (\A i \in DOMAIN q : log[q[i]].type = Patterns[p].steps[i].type)
        <=> \A i \in 1 .. L : log[n + i - 1].type = Steps(p)[i].type
  BY <1>3 DEF Steps
<1>. QED BY <1>2, <1>4, <1>5, <1>6 DEF q

\* The steps of a plain pattern.
LEMMA PlainStep ==
    ASSUME NEW p, Supported(p), Plain(p), NEW s \in 1 .. Len(Steps(p))
    PROVE  /\ ~Steps(p)[s].negated /\ ~Steps(p)[s].optional /\ Steps(p)[s].constraint.kind = "none"
           /\ isQuantifierSatisfied(Steps(p)[s], 1)
<1>1. s \in DOMAIN Patterns[p].steps
  BY DEF Supported, Steps
<1>2. PICK t : Steps(p)[s] = Event(t)
  BY <1>1 DEF Plain, Steps
<1>3. /\ Event(t).negated = FALSE /\ Event(t).optional = FALSE /\ Event(t).constraint.kind = "none"
      /\ Event(t).quantifier = "one"
  BY DEF Event, NoConstraint
<1>4. isQuantifierSatisfied(Event(t), 1)
  BY <1>3 DEF isQuantifierSatisfied
<1>. QED BY <1>2, <1>3, <1>4

\* The next event of a plain pattern takes a match one step further.
LEMMA PlainAdvances ==
    ASSUME NEW p, Supported(p), Plain(p), NEW log, NEW n \in Nat \ {0}, NEW k \in Nat \ {0},
           k < Len(Steps(p)), log[n + k].type = Steps(p)[k + 1].type
    PROVE  tryAdvanceMatch(p, log, PartialMatch(Prefix(n, k), k + 1, 0), n + k) =
             IF k + 1 < Len(Steps(p)) THEN Kept(PartialMatch(Prefix(n, k + 1), k + 2, 0))
             ELSE IF checkConditions(log, Prefix(n, k + 1), Patterns[p].conditions)
             THEN Complete(PartialMatch(Prefix(n, k + 1), k + 2, 0)) ELSE Dropped
<1>. DEFINE L == Len(Steps(p))
            m == PartialMatch(Prefix(n, k), k + 1, 0)
            event == log[n + k]
            s == StepFor(p, m, event)
            st == Steps(p)[k + 1]
            taken == PartialMatch(Prefix(n, k + 1), k + 1, 1)
<1>0. L \in Nat /\ k + 1 \in 1 .. L /\ k + 1 \in 1 .. L + 1 /\ k + 1 <= L
  BY DEF Supported
<1>1. m.events = Prefix(n, k) /\ m.step = k + 1 /\ m.count = 0
  BY DEF PartialMatch
<1>2. ~st.negated /\ ~st.optional /\ st.constraint.kind = "none" /\ isQuantifierSatisfied(st, 1)
  BY <1>0, PlainStep
<1>3. s = k + 1
  <2>1. s \in k + 1 .. L + 1 /\ \A i \in k + 1 .. s - 1 : Skipped(p, event, i)
    <3>. HIDE DEF m
    <3>. QED BY <1>0, <1>1, StepForIs
  <2>2. ~Skipped(p, event, k + 1)
    BY <1>2 DEF Skipped
  <2>. HIDE DEF s
  <2>3. k + 1 \notin k + 1 .. s - 1
    BY <2>1, <2>2
  <2>. QED BY <1>0, <2>1, <2>3
<1>4. matchesEventPattern(event, st)
  BY DEF matchesEventPattern
<1>5. Append(Prefix(n, k), n + k) = Prefix(n, k + 1)
  BY PrefixIs
<1>6. tryAdvanceMatch(p, log, m, n + k) = checkIfCompleted(p, log, taken)
  <2>1. /\ PartialMatch(m.events, s, IF s = m.step THEN m.count ELSE 0) = m
        /\ PartialMatch(Append(m.events, n + k), s, m.count + 1) = taken
    <3>1. (IF s = m.step THEN m.count ELSE 0) = 0 /\ m.count + 1 = 1
      BY <1>1
    <3>2. PartialMatch(m.events, s, 0) = m /\ PartialMatch(Append(m.events, n + k), s, 1) = taken
      BY <1>1, <1>3, <1>5, Zenon
    <3>. QED BY <3>1, <3>2, Zenon
  <2>2. taken.count = 1
    BY DEF PartialMatch
  <2>. HIDE DEF m, taken, s
  <2>3. s = StepFor(p, m, log[n + k]) /\ ~(s > Len(Patterns[p].steps)) /\ Patterns[p].steps[s] = st
    BY <1>0, <1>3 DEF s, Steps
  <2>. QED BY <1>2, <1>4, <2>1, <2>2, <2>3 DEF tryAdvanceMatch
<1>7. taken.events = Prefix(n, k + 1) /\ taken.step = k + 1
  BY DEF PartialMatch
<1>. DEFINE next == PartialMatch(Prefix(n, k + 1), k + 2, 0)
<1>8. PartialMatch(taken.events, taken.step + 1, 0) = next /\ next.step = k + 2
  BY <1>7 DEF PartialMatch
<1>. HIDE DEF m, taken, next
<1>9. checkIfCompleted(p, log, taken) =
        IF k + 2 <= L THEN Kept(next)
        ELSE IF checkConditions(log, Prefix(n, k + 1), Patterns[p].conditions) THEN Complete(next) ELSE Dropped
  BY <1>7, <1>8 DEF checkIfCompleted, Steps
<1>10. k + 2 <= L <=> k + 1 < L
  BY <1>0
<1>. QED BY <1>6, <1>9, <1>10 DEF m, next

\* Any event completes the match of a pattern with a single plain step.
LEMMA SingleCompletes ==
    ASSUME NEW p, Supported(p), Len(Steps(p)) = 1, NEW log, NEW n, NEW j
    PROVE  tryAdvanceMatch(p, log, PartialMatch(<<n>>, 2, 0), j) = Complete(PartialMatch(<<n>>, 2, 0))
<1>. DEFINE m == PartialMatch(<<n>>, 2, 0)
            s == StepFor(p, m, log[j])
<1>1. m.events = <<n>> /\ m.step = 2 /\ m.count = 0
  BY DEF PartialMatch
<1>2. s = 2
  <2>1. m.step \in 1 .. Len(Steps(p)) + 1
    BY <1>1
  <2>. HIDE DEF m
  <2>2. s \in m.step .. Len(Steps(p)) + 1
    BY <2>1, StepForIs
  <2>. QED BY <1>1, <2>2
<1>3. PartialMatch(m.events, s, IF s = m.step THEN m.count ELSE 0) = m
  BY <1>1, <1>2
<1>4. s > Len(Patterns[p].steps)
  BY <1>2 DEF Steps
<1>. HIDE DEF m
<1>. QED BY <1>3, <1>4 DEF tryAdvanceMatch, m

\* A new engine has missed nothing.
LEMMA FoundInitially == CepInit => FoundInv
BY DEF CepInit, FoundInv, PrefixKept, OccurrencesFound

\* A pattern registered anew has no event behind it to match.
LEMMA FoundRegister ==
    ASSUME CepInv, FoundInv, NEW q \in DOMAIN Patterns, RegisterPattern(q) \/ UnregisterPattern(q)
    PROVE  FoundInv'
<1>1. /\ cepLog' = cepLog /\ reported' = reported /\ abandoned' = abandoned
      /\ partial' = [partial EXCEPT ![q] = {}]
  BY DEF RegisterPattern, UnregisterPattern
<1>2. DOMAIN partial = DOMAIN Patterns /\ DOMAIN since = DOMAIN Patterns /\ registered \subseteq DOMAIN Patterns
      /\ Len(cepLog) \in Nat /\ DOMAIN cepLog = 1 .. Len(cepLog)
  BY LenProperties DEF CepInv, CepTyped
<1>3. \A p \in registered' :
        \/ p \in registered /\ p # q /\ since'[p] = since[p] /\ partial'[p] = partial[p]
        \/ since'[p] = Len(cepLog)
  <2>1. CASE RegisterPattern(q)
    BY <1>1, <1>2, <2>1 DEF RegisterPattern
  <2>2. CASE UnregisterPattern(q)
    BY <1>1, <1>2, <2>2 DEF UnregisterPattern
  <2>. QED BY <2>1, <2>2
<1>4. \A n \in 1 .. Len(cepLog) : ~(n > Len(cepLog))
  BY <1>2
<1>5. PrefixKept'
  <2>. SUFFICES ASSUME NEW p \in registered', NEW n \in 1 .. Len(cepLog),
                       Plain(p) /\ n > since'[p] /\ <<p, n>> \notin abandoned,
                       Begun(p, cepLog, n, Len(cepLog) - n + 1)
                PROVE  PartialMatch(Prefix(n, Len(cepLog) - n + 1), Len(cepLog) - n + 2, 0) \in partial'[p]
    BY <1>1 DEF PrefixKept
  <2>1. p \in registered /\ since'[p] = since[p] /\ partial'[p] = partial[p]
    BY <1>3, <1>4
  <2>. QED BY <2>1 DEF FoundInv, PrefixKept
<1>6. OccurrencesFound'
  <2>. SUFFICES ASSUME NEW p \in registered', NEW n \in DOMAIN cepLog,
                       Occurred(p, cepLog, since'[p], n), <<p, n>> \notin abandoned
                PROVE  Reported(p, Occurrence(p, n))'
    BY <1>1 DEF OccurrencesFound
  <2>1. n > since'[p]
    BY DEF Occurred
  <2>2. p \in registered /\ since'[p] = since[p]
    BY <1>2, <1>3, <1>4, <2>1
  <2>3. Reported(p, Occurrence(p, n))
    BY <2>2 DEF FoundInv, OccurrencesFound
  <2>. QED BY <1>1, <2>3 DEF Reported
<1>. QED BY <1>5, <1>6 DEF FoundInv

\* The match that a prefix has begun starts with its first event.
LEMMA PrefixMatch ==
    ASSUME NEW n \in Nat \ {0}, NEW k \in Nat \ {0}, NEW s
    PROVE  PartialMatch(Prefix(n, k), s, 0).events[1] = n
<1>1. PartialMatch(Prefix(n, k), s, 0).events = Prefix(n, k)
  BY DEF PartialMatch
<1>. QED BY <1>1, PrefixIs, ZenonT(40)

\* cleanupTimedOutMatches notes what it abandons.
LEMMA FoundCleanup ==
    ASSUME CepInv, FoundInv, cleanupTimedOutMatches
    PROVE  FoundInv'
<1>1. /\ cepLog' = cepLog /\ reported' = reported /\ registered' = registered /\ since' = since
      /\ partial' = [p \in DOMAIN Patterns |-> partial[p] \ {m \in partial[p] : hasTimedOut(p, m)}]
      /\ abandoned' = abandoned \cup UNION {{<<p, m.events[1]>> : m \in {m \in partial[p] : hasTimedOut(p, m)}} : p \in registered}
  BY DEF cleanupTimedOutMatches
<1>2. registered \subseteq DOMAIN Patterns /\ Len(cepLog) \in Nat
  BY LenProperties DEF CepInv, CepTyped
<1>3. PrefixKept'
  <2>. SUFFICES ASSUME NEW p \in registered, NEW n \in 1 .. Len(cepLog),
                       Plain(p) /\ n > since[p] /\ <<p, n>> \notin abandoned',
                       Begun(p, cepLog, n, Len(cepLog) - n + 1)
                PROVE  PartialMatch(Prefix(n, Len(cepLog) - n + 1), Len(cepLog) - n + 2, 0) \in partial'[p]
    BY <1>1 DEF PrefixKept
  <2>. DEFINE k == Len(cepLog) - n + 1
              m == PartialMatch(Prefix(n, k), Len(cepLog) - n + 2, 0)
  <2>1. m \in partial[p]
    BY <1>1 DEF FoundInv, PrefixKept
  <2>2. n \in Nat \ {0} /\ k \in Nat \ {0}
    BY <1>2
  <2>3. m.events[1] = n
    BY <2>2, PrefixMatch
  <2>. HIDE DEF m
  <2>4. ~hasTimedOut(p, m)
    <3>1. SUFFICES ASSUME hasTimedOut(p, m) PROVE <<p, n>> \in abandoned'
      OBVIOUS
    <3>2. <<p, n>> \in {<<p, x.events[1]>> : x \in {x \in partial[p] : hasTimedOut(p, x)}}
      BY <2>1, <2>3, <3>1
    <3>. QED BY <1>1, <3>2
  <2>5. m \in partial'[p]
    BY <1>1, <1>2, <2>1, <2>4
  <2>. QED BY <2>5 DEF m
<1>4. OccurrencesFound'
  BY <1>1 DEF FoundInv, OccurrencesFound, Reported
<1>. QED BY <1>3, <1>4 DEF FoundInv

\* ProcessEvent takes every match that plain events have begun a step further, and reports it
\* with the last of them.
LEMMA FoundProcess ==
    ASSUME AllSupported, CepInv, FoundInv, NEW e \in CepEvents, ProcessEvent(e)
    PROVE  FoundInv'
<1>. DEFINE N == Len(cepLog)
            log == Append(cepLog, e)
            Alive(p) == {m \in partial[p] : ~hasTimedOut(p, m) /\ InWindow(p, m, e)}
            Outcomes(p) == {tryAdvanceMatch(p, log, m, N + 1) : m \in Alive(p)}
            Started(p) == IF canStartNewMatch(p, e) THEN {createPartialMatch(p, N + 1)} ELSE {}
<1>0. cepLog \in Seq(LogEvents) /\ cepNow \in Nat /\ registered \subseteq DOMAIN Patterns
      /\ DOMAIN cepLog = 1 .. N
  BY LenProperties DEF CepInv, CepTyped
<1>1. /\ log \in Seq(LogEvents) /\ Longer(log, cepLog)
      /\ Len(log) = N + 1 /\ N \in Nat /\ log[N + 1] = e
  BY <1>0, LogGrows
<1>2. cepLog' = log /\ since' = since /\ registered' = registered
  BY DEF ProcessEvent
<1>3. partial' = [p \in DOMAIN Patterns |->
                    IF p \in registered
                    THEN {o.match : o \in {x \in Outcomes(p) : x.is = "kept"}} \cup Started(p)
                    ELSE partial[p]]
  BY DEF ProcessEvent
<1>4. reported' = reported \cup
              UNION {{[pattern |-> p, events |-> o.match.events, at |-> N + 1] :
                        o \in {x \in Outcomes(p) : x.is = "complete"}} : p \in registered}
  BY DEF ProcessEvent
<1>5. abandoned' = abandoned \cup
              UNION {{<<p, m.events[1]>> : m \in {x \in partial[p] : hasTimedOut(p, x)}} : p \in registered}
  BY DEF ProcessEvent
<1>. HIDE DEF log
<1>6. \A i \in 1 .. N : log[i] = cepLog[i]
  BY <1>1 DEF Longer
<1>7. ASSUME NEW p \in registered, NEW n \in 1 .. N, Plain(p), n > since[p], <<p, n>> \notin abandoned',
             Begun(p, cepLog, n, N - n + 1),
             Patterns[p].window > 0 => e.time - cepLog[n].time <= Patterns[p].window
      PROVE  tryAdvanceMatch(p, log, PartialMatch(Prefix(n, N - n + 1), N - n + 2, 0), N + 1) \in Outcomes(p)
  <2>. DEFINE k == N - n + 1
              m == PartialMatch(Prefix(n, k), N - n + 2, 0)
  <2>1. m \in partial[p]
    BY <1>5, <1>7 DEF FoundInv, PrefixKept
  <2>2. n \in Nat \ {0} /\ k \in Nat \ {0}
    BY <1>1
  <2>3. m.events[1] = n
    BY <2>2, PrefixMatch
  <2>. HIDE DEF m
  <2>4. ~hasTimedOut(p, m)
    <3>1. SUFFICES ASSUME hasTimedOut(p, m) PROVE <<p, n>> \in abandoned'
      BY <1>7
    <3>2. <<p, n>> \in {<<p, x.events[1]>> : x \in {x \in partial[p] : hasTimedOut(p, x)}}
      BY <2>1, <2>3, <3>1
    <3>. QED BY <1>5, <3>2
  <2>5. InWindow(p, m, e)
    BY <1>7, <2>3 DEF InWindow
  <2>6. m \in Alive(p)
    BY <2>1, <2>4, <2>5
  <2>7. tryAdvanceMatch(p, log, m, N + 1) \in Outcomes(p)
    <3>. HIDE DEF Alive
    <3>. QED BY <2>6
  <2>. QED BY <2>7 DEF m
<1>. HIDE DEF Outcomes, Alive
<1>8. PrefixKept'
  <2>1. SUFFICES ASSUME NEW p \in registered, NEW n \in 1 .. N + 1,
                        Plain(p) /\ n > since[p] /\ <<p, n>> \notin abandoned',
                        Begun(p, log, n, (N + 1) - n + 1)
                 PROVE  PartialMatch(Prefix(n, (N + 1) - n + 1), (N + 1) - n + 2, 0) \in partial'[p]
    BY <1>1, <1>2 DEF PrefixKept
  <2>. DEFINE L == Len(Steps(p))
  <2>2. Supported(p) /\ L \in Nat \ {0} /\ p \in DOMAIN Patterns
    BY <1>0 DEF AllSupported, Supported
  <2>. HIDE DEF L
  <2>3. CASE n = N + 1
    <3>1. (N + 1) - n + 1 = 1 /\ (N + 1) - n + 2 = 2 /\ 1 \in 1 .. 1 /\ n + 1 - 1 = N + 1 /\ n \in Nat
      BY <1>1, <2>3
    <3>2. log[N + 1].type = Steps(p)[1].type
      BY <2>1, <3>1 DEF Begun
    <3>3. ~Steps(p)[1].negated /\ isQuantifierSatisfied(Steps(p)[1], 1)
      BY <2>1, <2>2, PlainStep DEF L
    <3>4. canStartNewMatch(p, e)
      BY <1>1, <3>2, <3>3 DEF canStartNewMatch, matchesEventPattern, Steps
    <3>5. createPartialMatch(p, N + 1) = PartialMatch(<<n>>, 2, 0)
      BY <2>3, <3>3 DEF createPartialMatch, Steps
    <3>6. createPartialMatch(p, N + 1) \in partial'[p]
      BY <1>3, <2>2, <3>4
    <3>. QED BY <3>1, <3>5, <3>6, PrefixOne
  <2>4. CASE n # N + 1
    <3>. DEFINE k == N - n + 1
    <3>1. /\ n \in 1 .. N /\ n \in Nat \ {0} /\ k \in Nat \ {0} /\ n + k = N + 1
          /\ (N + 1) - n + 1 = k + 1 /\ (N + 1) - n + 2 = k + 2 /\ N - n + 2 = k + 1
          /\ \A i \in 1 .. k : i \in 1 .. k + 1 /\ n + i - 1 \in 1 .. N
          /\ k + 1 \in 1 .. k + 1 /\ n + (k + 1) - 1 = N + 1
      BY <1>1, <2>4
    <3>. HIDE DEF k
    <3>2. Begun(p, log, n, k + 1)
      BY <2>1, <3>1
    <3>3. k + 1 < L /\ k < L
      BY <2>2, <3>1, <3>2 DEF Begun, L
    <3>4. Begun(p, cepLog, n, k)
      <4>1. \A i \in 1 .. k : log[n + i - 1] = cepLog[n + i - 1]
        BY <1>6, <3>1
      <4>2. log[n] = cepLog[n]
        BY <1>6, <3>1
      <4>. QED BY <3>1, <3>2, <3>3, <4>1, <4>2 DEF Begun, L
    <3>5. Patterns[p].window > 0 => e.time - cepLog[n].time <= Patterns[p].window
      BY <1>1, <1>6, <3>1, <3>2 DEF Begun
    <3>6. tryAdvanceMatch(p, log, PartialMatch(Prefix(n, k), k + 1, 0), n + k) \in Outcomes(p)
      BY <1>7, <2>1, <3>1, <3>4, <3>5 DEF k
    <3>7. log[n + k].type = Steps(p)[k + 1].type
      BY <3>1, <3>2 DEF Begun
    <3>8. Kept(PartialMatch(Prefix(n, k + 1), k + 2, 0)) \in Outcomes(p)
      BY <2>1, <2>2, <3>1, <3>3, <3>6, <3>7, PlainAdvances DEF L
    <3>9. ASSUME NEW m, Kept(m) \in Outcomes(p) PROVE m \in partial'[p]
      <4>1. Kept(m).is = "kept" /\ Kept(m).match = m
        BY DEF Kept
      <4>2. m \in {o.match : o \in {x \in Outcomes(p) : x.is = "kept"}}
        BY <3>9, <4>1
      <4>. QED BY <1>3, <2>2, <4>2
    <3>. QED BY <3>1, <3>8, <3>9
  <2>. QED BY <2>3, <2>4
<1>9. ASSUME NEW p \in registered, NEW m, Complete(m) \in Outcomes(p)
      PROVE  \E r \in reported' : r.pattern = p /\ r.events = m.events
  <2>1. Complete(m).is = "complete" /\ Complete(m).match = m
    BY DEF Complete
  <2>2. [pattern |-> p, events |-> m.events, at |-> N + 1] \in
          {[pattern |-> p, events |-> o.match.events, at |-> N + 1] : o \in {x \in Outcomes(p) : x.is = "complete"}}
    BY <1>9, <2>1
  <2>3. [pattern |-> p, events |-> m.events, at |-> N + 1] \in reported'
    BY <1>4, <2>2
  <2>. QED BY <2>3
<1>10. OccurrencesFound'
  <2>1. SUFFICES ASSUME NEW p \in registered, NEW n \in 1 .. N + 1,
                        Occurred(p, log, since[p], n), <<p, n>> \notin abandoned'
                 PROVE  Reported(p, Occurrence(p, n))'
    <3>1. DOMAIN log = 1 .. N + 1
      BY <1>1, LenProperties
    <3>. QED BY <1>2, <3>1 DEF OccurrencesFound
  <2>. DEFINE L == Len(Steps(p))
              last == IF L = 1 THEN n + 1 ELSE n + L - 1
  <2>2. Supported(p) /\ L \in Nat \ {0} /\ p \in DOMAIN Patterns
    BY <1>0 DEF AllSupported, Supported
  <2>3. n \in Nat \ {0}
    BY <1>1
  <2>4. /\ Occurrence(p, n) = Prefix(n, L)
        /\ Plain(p) /\ n > since[p] /\ last <= N + 1
        /\ \A i \in 1 .. L : log[n + i - 1].type = Steps(p)[i].type
        /\ Patterns[p].window > 0 =>
              \A i \in n .. last : log[i].time - log[n].time <= Patterns[p].window
        /\ checkConditions(log, Prefix(n, L), Patterns[p].conditions)
    BY <1>1, <2>1, <2>2, <2>3, OccurredIs, ZenonT(40)
  <2>. HIDE DEF L
  <2>5. last \in Nat /\ last >= n /\ last >= n + L - 1
    BY <2>2, <2>3
  <2>6. CASE last <= N
    <3>1. /\ n \in 1 .. N /\ n \in n .. last
          /\ \A i \in 1 .. L : n + i - 1 \in 1 .. N
          /\ \A i \in n .. last : i \in 1 .. N
      BY <1>1, <2>2, <2>3, <2>5, <2>6
    <3>2. DOMAIN Prefix(n, L) = 1 .. L /\ \A i \in 1 .. L : Prefix(n, L)[i] = n + i - 1
      BY <2>2, <2>3, PrefixIs
    <3>3. \A i \in 1 .. L : log[Prefix(n, L)[i]] = cepLog[Prefix(n, L)[i]]
      BY <1>6, <3>1, <3>2
    <3>4. checkConditions(cepLog, Prefix(n, L), Patterns[p].conditions)
      BY <2>4, <3>2, <3>3 DEF checkConditions
    <3>5. \A i \in 1 .. L : cepLog[n + i - 1].type = Steps(p)[i].type
      BY <1>6, <2>4, <3>1
    <3>6. Patterns[p].window > 0 => \A i \in n .. last : cepLog[i].time - cepLog[n].time <= Patterns[p].window
      BY <1>6, <2>4, <3>1
    <3>7. Occurred(p, cepLog, since[p], n)
      BY <2>2, <2>3, <2>4, <2>6, <3>4, <3>5, <3>6, OccurredIs DEF L
    <3>8. <<p, n>> \notin abandoned
      BY <1>5, <2>1
    <3>9. Reported(p, Occurrence(p, n))
      BY <1>0, <3>1, <3>7, <3>8 DEF FoundInv, OccurrencesFound
    <3>. QED BY <1>4, <3>9 DEF Reported
  <2>7. CASE last = N + 1 /\ L = 1
    <3>1. /\ n = N /\ n \in 1 .. N /\ N - n + 1 = 1 /\ N - n + 2 = 2 /\ N + 1 \in n .. last
          /\ (\A i \in 1 .. 1 : i = 1) /\ 1 \in 1 .. L /\ n + 1 - 1 = n
      BY <1>1, <2>3, <2>7
    <3>2. log[n] = cepLog[n]
      BY <1>6, <3>1
    <3>3. cepLog[n].type = Steps(p)[1].type
      BY <2>4, <3>1, <3>2
    <3>4. Patterns[p].window > 0 => cepLog[n].time - cepLog[n].time <= Patterns[p].window
      BY <2>4, <3>1, <3>2, <2>5
    <3>5. Begun(p, cepLog, n, 1)
      BY <2>7, <3>1, <3>3, <3>4 DEF Begun, L
    <3>6. Patterns[p].window > 0 => e.time - cepLog[n].time <= Patterns[p].window
      BY <1>1, <2>4, <3>1, <3>2
    <3>7. tryAdvanceMatch(p, log, PartialMatch(Prefix(n, 1), 2, 0), N + 1) \in Outcomes(p)
      BY <1>7, <2>1, <2>4, <3>1, <3>5, <3>6
    <3>8. Prefix(n, 1) = <<n>>
      BY <2>3, PrefixOne
    <3>9. Complete(PartialMatch(<<n>>, 2, 0)) \in Outcomes(p)
      BY <2>2, <2>7, <3>7, <3>8, SingleCompletes DEF L
    <3>10. PartialMatch(<<n>>, 2, 0).events = <<n>>
      BY DEF PartialMatch
    <3>11. \E r \in reported' : r.pattern = p /\ r.events = PartialMatch(<<n>>, 2, 0).events
      BY <1>9, <3>9
    <3>. QED BY <2>4, <2>7, <3>8, <3>10, <3>11 DEF Reported
  <2>8. CASE last = N + 1 /\ L # 1
    <3>. DEFINE k == N - n + 1
    <3>1. /\ n \in 1 .. N /\ k \in Nat \ {0} /\ k + 1 = L /\ k < L /\ n + k = N + 1 /\ N - n + 2 = k + 1
          /\ n + (k + 1) - 1 = n + k /\ k + 1 \in 1 .. L
          /\ \A i \in 1 .. k : i \in 1 .. L /\ n + i - 1 \in 1 .. N /\ n + i - 1 \in n .. last
          /\ N + 1 \in n .. last
      BY <1>1, <2>2, <2>3, <2>8
    <3>. HIDE DEF k
    <3>2. log[n] = cepLog[n] /\ \A i \in 1 .. k : log[n + i - 1] = cepLog[n + i - 1]
      BY <1>6, <3>1
    <3>3. Begun(p, cepLog, n, k)
      BY <2>4, <3>1, <3>2 DEF Begun, L
    <3>4. Patterns[p].window > 0 => e.time - cepLog[n].time <= Patterns[p].window
      BY <1>1, <2>4, <3>1, <3>2
    <3>5. tryAdvanceMatch(p, log, PartialMatch(Prefix(n, k), k + 1, 0), n + k) \in Outcomes(p)
      BY <1>7, <2>1, <2>4, <3>1, <3>3, <3>4 DEF k
    <3>6. log[n + k].type = Steps(p)[k + 1].type
      BY <2>4, <3>1
    <3>7. ~(k + 1 < L) /\ checkConditions(log, Prefix(n, k + 1), Patterns[p].conditions)
      BY <2>2, <2>4, <3>1
    <3>8. Complete(PartialMatch(Prefix(n, k + 1), k + 2, 0)) \in Outcomes(p)
      BY <2>2, <2>3, <2>4, <3>1, <3>5, <3>6, <3>7, PlainAdvances DEF L
    <3>9. PartialMatch(Prefix(n, k + 1), k + 2, 0).events = Prefix(n, k + 1)
      BY DEF PartialMatch
    <3>10. \E r \in reported' : r.pattern = p /\ r.events = PartialMatch(Prefix(n, k + 1), k + 2, 0).events
      BY <1>9, <3>8
    <3>. QED BY <2>4, <3>1, <3>9, <3>10 DEF Reported
  <2>. QED BY <1>1, <2>4, <2>5, <2>6, <2>7, <2>8
<1>. QED BY <1>8, <1>10 DEF FoundInv

(* The engine reports occurrences of its patterns, and all of them: for any patterns it can
   follow, registered and unregistered at any time, and any events, ProcessEvent returns only
   matches whose events the steps account for, in order, within the window and the time
   constraints, with nothing a negated step excludes in between; and every run of events that
   a plain pattern spells is returned unless it timed out. *)
THEOREM EngineMatchesExact == ASSUME AllFollowable PROVE CepSpec => []MatchesExact
<1>0. AllSupported
  BY FollowableSupported
<1>1. ASSUME CepInv, FoundInv, [EngineNext]_cepVars PROVE FoundInv'
  <2>1. CASE CepTick
    BY <1>1, <2>1 DEF CepTick, engineVars, matcherVars, FoundInv, PrefixKept, OccurrencesFound, Reported
  <2>2. CASE UNCHANGED cepVars
    BY <1>1, <2>2 DEF cepVars, engineVars, matcherVars, FoundInv, PrefixKept, OccurrencesFound, Reported
  <2>. QED BY <1>0, <1>1, <2>1, <2>2, FoundRegister, FoundProcess, FoundCleanup DEF EngineNext
<1>2. CepInv /\ FoundInv => MatchesExact
  BY <1>0, CepInvJustifies DEF FoundInv, MatchesExact
<1>. QED BY <1>0, <1>1, <1>2, CepInvAlways, FoundInitially, PTL DEF CepSpec

-----------------------------------------------------------------------------
(* The matcher.                                                            *)

\* A list of numbers that increase.
Increasing(q) == \A i, j \in 1 .. Len(q) : i < j => q[i] < q[j]

\* Events matched with the first steps of a pattern, all of them in a set and in order.
Paired(p, log, S, events) ==
    /\ events \in Seq(Nat) /\ Len(events) <= Len(Steps(p))
    /\ Increasing(events)
    /\ \A i \in 1 .. Len(events) : events[i] \in S /\ MatcherMatches(log[events[i]], Steps(p)[i])

\* The values the loop of tryMatch takes.
Loops(F, p, log, buffer, origin, K) ==
    /\ F[0] = {<<>>}
    /\ \A i \in 1 .. K : F[i] = UNION {Meet(p, log, buffer[origin + i - 1], events) : events \in F[i - 1]}

\* One round of the loop of tryMatch makes lists from lists.
LEMMA MeetTyped ==
    ASSUME NEW p, NEW log, NEW n \in Nat, NEW events \in Seq(Nat)
    PROVE  Meet(p, log, n, events) \subseteq Seq(Nat)
<1>1. Append(events, n) \in Seq(Nat)
  BY AppendProperties
<1>. QED BY <1>1 DEF Meet

\* The loop of tryMatch exists, and the search returns what comes out of it.
LEMMA LoopDefined ==
    ASSUME NEW p, NEW log, NEW buffer \in Seq(Nat), NEW origin \in 1 .. Len(buffer)
    PROVE  \E F : /\ Loops(F, p, log, buffer, origin, Len(buffer) - origin + 1)
                  /\ \A events \in tryMatch(p, log, buffer, origin) :
                        /\ events \in F[Len(buffer) - origin + 1]
                        /\ Len(events) = Len(Steps(p))
<1>. DEFINE K == Len(buffer) - origin + 1
            V == SUBSET Seq(Nat)
            st == [q \in (1 .. K) \X V |-> UNION {Meet(p, log, buffer[origin + q[1] - 1], events) : events \in q[2]}]
<1>1. K \in Nat /\ \A i \in 1 .. K : origin + i - 1 \in 1 .. Len(buffer) /\ buffer[origin + i - 1] \in Nat
  <2>1. Len(buffer) \in Nat
    BY LenProperties
  <2>2. \A i \in 1 .. K : origin + i - 1 \in 1 .. Len(buffer)
    BY <2>1
  <2>3. \A j \in 1 .. Len(buffer) : buffer[j] \in Nat
    BY ElementOfSeq
  <2>. QED BY <2>1, <2>2, <2>3
<1>. HIDE DEF K
<1>2. ASSUME NEW i \in 1 .. K, NEW v \in V
      PROVE  UNION {Meet(p, log, buffer[origin + i - 1], events) : events \in v} \in V
  <2>1. SUFFICES ASSUME NEW events \in v, NEW x \in Meet(p, log, buffer[origin + i - 1], events)
                 PROVE  x \in Seq(Nat)
    OBVIOUS
  <2>2. events \in Seq(Nat) /\ buffer[origin + i - 1] \in Nat
    BY <1>1, <1>2, <2>1
  <2>3. Meet(p, log, buffer[origin + i - 1], events) \subseteq Seq(Nat)
    BY <2>2, MeetTyped
  <2>. QED BY <2>1, <2>3
<1>3. st \in [(1 .. K) \X V -> V]
  <2>. HIDE DEF V
  <2>. QED BY <1>2
<1>4. {<<>>} \in V
  OBVIOUS
<1>5. PICK g \in [0 .. K -> V] : Follows(g, {<<>>}, st, K)
  <2>. HIDE DEF st, V
  <2>. QED BY <1>1, <1>3, <1>4, Recursion
<1>6. \A i \in 1 .. K : i - 1 \in 0 .. K /\ g[i - 1] \in V
  BY <1>1, <1>5
<1>7. g[0] = {<<>>} /\ \A i \in 1 .. K : g[i] = UNION {Meet(p, log, buffer[origin + i - 1], events) : events \in g[i - 1]}
  <2>1. \A i \in 1 .. K : st[<<i, g[i - 1]>>] = UNION {Meet(p, log, buffer[origin + i - 1], events) : events \in g[i - 1]}
    <3>. HIDE DEF V
    <3>. QED BY <1>6
  <2>. HIDE DEF st
  <2>. QED BY <1>5, <2>1 DEF Follows
<1>8. g = [i \in 0 .. Len(buffer) - origin + 1 |->
             IF i = 0 THEN {<<>>}
             ELSE UNION {Meet(p, log, buffer[origin + i - 1], events) : events \in g[i - 1]}]
  <2>1. \A i \in 0 .. K : i = 0 \/ i \in 1 .. K
    BY <1>1
  <2>. QED BY <1>5, <1>7, <2>1 DEF K
<1>. DEFINE F == CHOOSE f : f = [i \in 0 .. Len(buffer) - origin + 1 |->
             IF i = 0 THEN {<<>>}
             ELSE UNION {Meet(p, log, buffer[origin + i - 1], events) : events \in f[i - 1]}]
<1>9. F = [i \in 0 .. Len(buffer) - origin + 1 |->
             IF i = 0 THEN {<<>>}
             ELSE UNION {Meet(p, log, buffer[origin + i - 1], events) : events \in F[i - 1]}]
  BY <1>8, Zenon
<1>10. tryMatch(p, log, buffer, origin) =
          {events \in F[Len(buffer) - origin + 1] :
              /\ Len(events) = Len(Patterns[p].steps)
              /\ checkConditions(log, events, Patterns[p].conditions)}
  BY Zenon DEF tryMatch
<1>. HIDE DEF F
<1>11. Loops(F, p, log, buffer, origin, K)
  <2>1. 0 \in 0 .. K /\ \A i \in 1 .. K : i \in 0 .. K /\ i # 0
    BY <1>1
  <2>2. \A i \in 0 .. K : F[i] = IF i = 0 THEN {<<>>}
             ELSE UNION {Meet(p, log, buffer[origin + i - 1], events) : events \in F[i - 1]}
    BY <1>9, Zenon DEF K
  <2>. QED BY <2>1, <2>2, Zenon DEF Loops
<1>. QED BY <1>10, <1>11 DEF K, Steps

\* An event later than the ones before it keeps a match in the making one.
LEMMA MeetKeeps ==
    ASSUME NEW p, Len(Steps(p)) \in Nat, NEW log, NEW S, NEW events, Paired(p, log, S, events),
           NEW n \in Nat, n \in S, \A i \in 1 .. Len(events) : events[i] < n,
           NEW more \in Meet(p, log, n, events)
    PROVE  /\ Paired(p, log, S, more)
           /\ \A i \in 1 .. Len(more) : more[i] <= n
<1>0. events \in Seq(Nat) /\ Len(events) \in Nat /\ \A i \in 1 .. Len(events) : events[i] \in Nat
  BY LenProperties, ElementOfSeq DEF Paired
<1>1. more = events \/ (/\ more = Append(events, n) /\ Len(events) # Len(Steps(p))
                        /\ MatcherMatches(log[n], Steps(p)[Len(events) + 1]))
  BY DEF Meet, Steps
<1>2. CASE more = events
  BY <1>0, <1>2
<1>3. CASE /\ more = Append(events, n) /\ Len(events) # Len(Steps(p))
           /\ MatcherMatches(log[n], Steps(p)[Len(events) + 1])
  <2>1. /\ more \in Seq(Nat) /\ Len(more) = Len(events) + 1
        /\ \A i \in 1 .. Len(events) : more[i] = events[i]
        /\ more[Len(events) + 1] = n
    BY <1>0, <1>3, AppendProperties
  <2>2. \A i \in 1 .. Len(more) : i \in 1 .. Len(events) \/ i = Len(events) + 1
    BY <1>0, <2>1
  <2>3. Len(more) <= Len(Steps(p))
    BY <1>0, <1>3, <2>1 DEF Paired
  <2>4. ASSUME NEW i \in 1 .. Len(more), NEW j \in 1 .. Len(more), i < j PROVE more[i] < more[j]
    <3>1. i \in 1 .. Len(events)
      BY <1>0, <2>1, <2>4
    <3>2. CASE j \in 1 .. Len(events)
      BY <2>1, <2>4, <3>1, <3>2 DEF Paired, Increasing
    <3>3. CASE j = Len(events) + 1
      BY <2>1, <3>1, <3>3
    <3>. QED BY <2>2, <3>2, <3>3
  <2>5. \A i \in 1 .. Len(more) : more[i] \in S /\ MatcherMatches(log[more[i]], Steps(p)[i])
    BY <1>3, <2>1, <2>2 DEF Paired
  <2>6. \A i \in 1 .. Len(more) : more[i] <= n
    BY <1>0, <2>1, <2>2, SMTT(30)
  <2>. QED BY <2>1, <2>3, <2>4, <2>5, <2>6 DEF Paired, Increasing
<1>. QED BY <1>1, <1>2, <1>3

\* What tryMatch returns has an event of the buffer for every step, in the buffer's order.
LEMMA TryMatchIs ==
    ASSUME NEW p, Len(Steps(p)) \in Nat, NEW log, NEW buffer \in Seq(Nat), Increasing(buffer),
           NEW S, \A i \in 1 .. Len(buffer) : buffer[i] \in S,
           NEW origin \in 1 .. Len(buffer), NEW events \in tryMatch(p, log, buffer, origin)
    PROVE  Paired(p, log, S, events) /\ Len(events) = Len(Steps(p))
<1>. DEFINE K == Len(buffer) - origin + 1
<1>1. PICK F : /\ Loops(F, p, log, buffer, origin, K)
               /\ events \in F[K] /\ Len(events) = Len(Steps(p))
  BY LoopDefined
<1>2. /\ K \in Nat /\ Len(buffer) \in Nat
      /\ \A i \in 1 .. K : origin + i - 1 \in 1 .. Len(buffer)
      /\ \A j \in 1 .. Len(buffer) : buffer[j] \in Nat
  BY LenProperties, ElementOfSeq
<1>. HIDE DEF K
<1>. DEFINE Ready(m, x) == /\ Paired(p, log, S, x)
                           /\ \A i \in 1 .. Len(x) : m < K => x[i] < buffer[origin + m]
            P(m) == m <= K => \A x \in F[m] : Ready(m, x)
            T == {m \in Nat : P(m)}
<1>3. P(0)
  <2>1. <<>> \in Seq(Nat) /\ Len(<<>>) = 0
    OBVIOUS
  <2>2. Paired(p, log, S, <<>>)
    BY <2>1 DEF Paired, Increasing
  <2>3. \A x \in F[0] : x = <<>>
    BY <1>1 DEF Loops
  <2>. QED BY <2>1, <2>2, <2>3
<1>4. ASSUME NEW m \in Nat, P(m) PROVE P(m + 1)
  <2>. SUFFICES ASSUME m + 1 <= K, NEW x \in F[m + 1] PROVE Ready(m + 1, x)
    OBVIOUS
  <2>1. /\ m + 1 \in 1 .. K /\ m + 1 - 1 = m /\ m < K /\ m <= K
        /\ origin + (m + 1) - 1 = origin + m /\ origin + m \in 1 .. Len(buffer)
    <3>1. m + 1 \in 1 .. K /\ m + 1 - 1 = m /\ m < K /\ m <= K /\ origin + (m + 1) - 1 = origin + m
      BY <1>2
    <3>2. origin + (m + 1) - 1 \in 1 .. Len(buffer)
      BY <1>2, <3>1
    <3>. QED BY <3>1, <3>2
  <2>2. PICK y \in F[m] : x \in Meet(p, log, buffer[origin + m], y)
    BY <1>1, <2>1 DEF Loops
  <2>3. Paired(p, log, S, y) /\ \A i \in 1 .. Len(y) : y[i] < buffer[origin + m]
    BY <1>4, <2>1, <2>2
  <2>4. buffer[origin + m] \in Nat /\ buffer[origin + m] \in S
    BY <1>2, <2>1
  <2>5. Paired(p, log, S, x) /\ \A i \in 1 .. Len(x) : x[i] <= buffer[origin + m]
    BY <2>2, <2>3, <2>4, MeetKeeps
  <2>6. ASSUME m + 1 < K, NEW i \in 1 .. Len(x) PROVE x[i] < buffer[origin + (m + 1)]
    <3>1. origin + (m + 1) \in 1 .. Len(buffer) /\ origin + m < origin + (m + 1)
      BY <1>2, <2>6 DEF K
    <3>2. buffer[origin + m] < buffer[origin + (m + 1)] /\ buffer[origin + (m + 1)] \in Nat
      BY <1>2, <2>1, <3>1 DEF Increasing
    <3>3. x[i] \in Nat
      BY <2>5, ElementOfSeq DEF Paired
    <3>4. x[i] <= buffer[origin + m]
      BY <2>5
    <3>. QED BY <2>4, <3>2, <3>3, <3>4, SMTT(30)
  <2>. QED BY <2>5, <2>6
<1>5. P(K)
  <2>1. T \in SUBSET Nat /\ 0 \in T
    BY <1>3
  <2>2. \A n \in T : n + 1 \in T
    <3>. HIDE DEF P
    <3>. QED BY <1>4
  <2>3. T = Nat
    <3>. HIDE DEF T
    <3>. QED BY <2>1, <2>2, SetInduction
  <2>. HIDE DEF P
  <2>. QED BY <1>2, <2>3
<1>. QED BY <1>1, <1>2, <1>5

\* The events of a buffer that are in a set, from one of them on.
Remains(q, S, from, buffer) == buffer = SubSeq(Only(q, S), from, Len(Only(q, S)))

\* What pruneOldEvents and the limit leave of a buffer in order, is in order too.
LEMMA BufferKept ==
    ASSUME NEW q \in Seq(Nat), Increasing(q), NEW T, \A i \in 1 .. Len(q) : q[i] \in T,
           NEW S, NEW from \in Nat \ {0},
           NEW buffer, Remains(q, S, from, buffer)
    PROVE  /\ buffer \in Seq(Nat) /\ Increasing(buffer)
           /\ \A i \in 1 .. Len(buffer) : buffer[i] \in S /\ buffer[i] \in T
<1>. DEFINE recent == Only(q, S)
<1>0. buffer = SubSeq(recent, from, Len(recent))
  BY DEF Remains
<1>1. /\ recent \in Seq(Nat) /\ Len(recent) \in Nat
      /\ \A i \in 1 .. Len(recent) : recent[i] \in Nat /\ recent[i] \in S /\ recent[i] \in T
  <2>1. recent \in Seq(Nat)
    BY OnlyProperties
  <2>2. \A x : (\E i \in 1 .. Len(recent) : recent[i] = x) => x \in S /\ \E j \in 1 .. Len(q) : q[j] = x
    <3>1. \A x : (\E i \in 1 .. Len(Only(q, S)) : Only(q, S)[i] = x) <=> x \in S /\ \E i \in 1 .. Len(q) : q[i] = x
      BY OnlyProperties, ZenonT(30)
    <3>. QED BY <3>1, Zenon
  <2>. HIDE DEF recent
  <2>. QED BY <2>1, <2>2, LenProperties, ElementOfSeq
<1>2. \A i, j \in 1 .. Len(recent) : i < j => recent[i] < recent[j]
  BY OnlyIncreasing DEF Increasing
<1>. HIDE DEF recent
<1>3. from \in Int /\ Len(recent) \in Int /\ \A i \in from .. Len(recent) : recent[i] \in Nat
  BY <1>1
<1>4. /\ buffer \in Seq(Nat)
      /\ Len(buffer) = IF from <= Len(recent) THEN Len(recent) - from + 1 ELSE 0
      /\ \A i \in 1 .. Len(recent) - from + 1 : buffer[i] = recent[from + i - 1]
  BY <1>0, <1>3, SubSeqProperties
<1>5. \A i \in 1 .. Len(buffer) : from + i - 1 \in 1 .. Len(recent) /\ buffer[i] = recent[from + i - 1]
  <2>. SUFFICES ASSUME NEW i \in 1 .. Len(buffer)
                PROVE  from + i - 1 \in 1 .. Len(recent) /\ buffer[i] = recent[from + i - 1]
    OBVIOUS
  <2>1. CASE from <= Len(recent)
    <3>1. i \in 1 .. Len(recent) - from + 1 /\ from + i - 1 \in 1 .. Len(recent)
      BY <1>1, <1>4, <2>1
    <3>. QED BY <1>4, <3>1
  <2>2. CASE ~(from <= Len(recent))
    BY <1>4, <2>2
  <2>. QED BY <2>1, <2>2
<1>6. Increasing(buffer)
  <2>. SUFFICES ASSUME NEW i \in 1 .. Len(buffer), NEW j \in 1 .. Len(buffer), i < j PROVE buffer[i] < buffer[j]
    BY DEF Increasing
  <2>1. from + i - 1 < from + j - 1
    BY <1>4
  <2>. QED BY <1>2, <1>5, <2>1
<1>7. \A i \in 1 .. Len(buffer) : buffer[i] \in S /\ buffer[i] \in T
  BY <1>1, <1>5
<1>. QED BY <1>4, <1>6, <1>7

\* Events for every step in order, the past ones less than the window apart.
FoundRight ==
    \A p \in matching : \A events \in found :
        /\ DOMAIN events = DOMAIN Patterns[p].steps
        /\ \A i \in DOMAIN events :
              MatcherMatches(cepLog[events[i]], Patterns[p].steps[i])
        /\ \A i, j \in DOMAIN events :
              /\ i < j => events[i] < events[j]
              /\ TimeOf(events[j]) <= foundAt =>
                    TimeOf(events[j]) - TimeOf(events[i]) < Patterns[p].window

\* The inductive invariant of the matcher.
MatcherInv ==
    /\ cepLog \in Seq(LogEvents) /\ cepNow \in Nat
    /\ matcherBuffer \in Seq(Nat) /\ Increasing(matcherBuffer)
    /\ \A i \in 1 .. Len(matcherBuffer) : matcherBuffer[i] \in 1 .. Len(cepLog)
    /\ registered = {} /\ reported = {}
    /\ matching \subseteq DOMAIN Patterns /\ (\A p, q \in matching : p = q)
    /\ matching = {} => found = {}
    /\ FoundRight

\* A call of AddEvent.
LEMMA AddEventStep ==
    ASSUME MatcherInv, NEW p \in matching, NEW e \in CepEvents, AddEvent(p, e)
    PROVE  MatcherInv'
<1>. DEFINE n == Len(cepLog) + 1
            log == Append(cepLog, e)
            inWindow == {i \in DOMAIN log : log[i].time > cepNow - Patterns[p].window}
            all == Append(matcherBuffer, n)
            recent == Only(all, inWindow)
            from == IF Len(recent) - MatcherBuffer + 1 > 1 THEN Len(recent) - MatcherBuffer + 1 ELSE 1
            buffer == SubSeq(recent, from, Len(recent))
<1>1. /\ cepLog' = log /\ matcherBuffer' = buffer /\ matching' = matching
      /\ found' = UNION {tryMatch(p, log, buffer, i) : i \in DOMAIN buffer}
      /\ cepNow' = cepNow /\ foundAt' = cepNow /\ registered' = registered /\ reported' = reported
  BY DEF AddEvent, engineVars
<1>2. /\ p \in DOMAIN Patterns /\ Patterns[p].window \in Int
      /\ Len(Steps(p)) \in Nat /\ DOMAIN Steps(p) = 1 .. Len(Steps(p))
      /\ \A q \in matching : q = p
  BY PatternsAssumption DEF MatcherInv, Steps
<1>3. cepLog \in Seq(LogEvents) /\ cepNow \in Nat
  BY DEF MatcherInv
<1>4. /\ log \in Seq(LogEvents) /\ Longer(log, cepLog) /\ Len(log) = n /\ Len(cepLog) \in Nat
      /\ log[n] = e /\ \A i \in 1 .. Len(log) : log[i].time \in Int
  BY <1>3, LogGrows
<1>5. DOMAIN log = 1 .. n
  BY <1>4, LenProperties
<1>. HIDE DEF log
<1>8. /\ all \in Seq(Nat) /\ Increasing(all) /\ \A i \in 1 .. Len(all) : all[i] \in 1 .. n
  <2>1. matcherBuffer \in Seq(Nat) /\ Len(matcherBuffer) \in Nat /\ n \in Nat
    BY <1>4, LenProperties DEF MatcherInv
  <2>2. /\ all \in Seq(Nat) /\ Len(all) = Len(matcherBuffer) + 1
        /\ \A i \in 1 .. Len(matcherBuffer) : all[i] = matcherBuffer[i]
        /\ all[Len(matcherBuffer) + 1] = n
    BY <2>1, AppendProperties
  <2>3. \A i \in 1 .. Len(all) : i \in 1 .. Len(matcherBuffer) \/ i = Len(matcherBuffer) + 1
    BY <2>1, <2>2
  <2>4. \A i \in 1 .. Len(matcherBuffer) : matcherBuffer[i] \in 1 .. Len(cepLog)
    BY DEF MatcherInv
  <2>. HIDE DEF all
  <2>5. \A i \in 1 .. Len(all) : all[i] \in 1 .. n
    BY <1>4, <2>2, <2>3, <2>4, SMTT(30)
  <2>6. ASSUME NEW i \in 1 .. Len(all), NEW j \in 1 .. Len(all), i < j PROVE all[i] < all[j]
    <3>1. i \in 1 .. Len(matcherBuffer)
      BY <2>1, <2>2, <2>6
    <3>2. CASE j \in 1 .. Len(matcherBuffer)
      BY <2>2, <2>6, <3>1, <3>2 DEF MatcherInv, Increasing
    <3>3. CASE j = Len(matcherBuffer) + 1
      BY <1>4, <2>2, <2>4, <3>1, <3>3
    <3>. QED BY <2>3, <3>2, <3>3
  <2>. QED BY <2>2, <2>5, <2>6 DEF Increasing
<1>9. from \in Nat \ {0}
  <2>1. Len(recent) \in Nat
    <3>1. recent \in Seq(Nat)
      <4>. HIDE DEF all, inWindow
      <4>. QED BY <1>8, OnlyProperties
    <3>. QED BY <3>1, LenProperties
  <2>. HIDE DEF recent
  <2>. QED BY <2>1, PatternEngineAssumption
<1>10. /\ buffer \in Seq(Nat) /\ Increasing(buffer)
       /\ \A i \in 1 .. Len(buffer) : buffer[i] \in inWindow /\ buffer[i] \in 1 .. n
  <2>1. Remains(all, inWindow, from, buffer)
    BY DEF Remains
  <2>. HIDE DEF all, inWindow, from, recent, buffer
  <2>. QED BY <1>8, <1>9, <2>1, BufferKept
<1>. HIDE DEF buffer, all
<1>11. \A i \in 1 .. Len(buffer) : buffer[i] \in 1 .. n
  BY <1>10
<1>12. DOMAIN buffer = 1 .. Len(buffer)
  BY <1>10, LenProperties
<1>13. ASSUME NEW events \in found'
       PROVE  Paired(p, log, inWindow, events) /\ Len(events) = Len(Steps(p))
  <2>1. PICK i \in 1 .. Len(buffer) : events \in tryMatch(p, log, buffer, i)
    BY <1>1, <1>12, <1>13
  <2>. HIDE DEF inWindow
  <2>. QED BY <1>2, <1>10, <2>1, TryMatchIs
<1>14. FoundRight'
  <2>. SUFFICES ASSUME NEW events \in found'
                PROVE  /\ DOMAIN events = DOMAIN Patterns[p].steps
                       /\ \A i \in DOMAIN events : MatcherMatches(log[events[i]], Patterns[p].steps[i])
                       /\ \A i, j \in DOMAIN events :
                             /\ i < j => events[i] < events[j]
                             /\ log[events[j]].time <= cepNow =>
                                   log[events[j]].time - log[events[i]].time < Patterns[p].window
    BY <1>1, <1>2, Zenon DEF FoundRight, TimeOf
  <2>1. Paired(p, log, inWindow, events) /\ Len(events) = Len(Steps(p))
    BY <1>13
  <2>2. DOMAIN events = 1 .. Len(events)
    BY <2>1, LenProperties DEF Paired
  <2>3. \A i \in DOMAIN events : MatcherMatches(log[events[i]], Patterns[p].steps[i])
    BY <2>1, <2>2 DEF Paired, Steps
  <2>4. \A i, j \in DOMAIN events : i < j => events[i] < events[j]
    BY <2>1, <2>2 DEF Paired, Increasing
  <2>5. \A i \in DOMAIN events : events[i] \in inWindow
    BY <2>1, <2>2 DEF Paired
  <2>6. ASSUME NEW i \in DOMAIN events
        PROVE  /\ log[events[i]].time \in Int
               /\ log[events[i]].time > cepNow - Patterns[p].window
    BY <1>4, <1>5, <2>5
  <2>7. \A i, j \in DOMAIN events : log[events[j]].time <= cepNow =>
            log[events[j]].time - log[events[i]].time < Patterns[p].window
    BY <1>2, <1>3, <2>6
  <2>. QED BY <1>2, <2>1, <2>2, <2>3, <2>4, <2>7 DEF Steps
<1>15. \A i \in 1 .. Len(buffer) : buffer[i] \in 1 .. Len(log)
  BY <1>4, <1>11
<1>. HIDE DEF n
<1>. QED BY <1>1, <1>2, <1>3, <1>4, <1>10, <1>14, <1>15 DEF MatcherInv

\* The invariant of the matcher holds at first and for every step.
LEMMA MatcherInvAlways == MatcherSpec => []MatcherInv
<1>1. CepInit => MatcherInv
  BY PatternEngineAssumption DEF CepInit, MatcherInv, FoundRight, Increasing
<1>2. ASSUME MatcherInv, [MatcherNext]_cepVars PROVE MatcherInv'
  <2>1. ASSUME NEW p \in DOMAIN Patterns, NewPatternMatcher(p) PROVE MatcherInv'
    <3>1. found = {} /\ matching = {}
      BY <1>2, <2>1 DEF MatcherInv, NewPatternMatcher
    <3>2. /\ cepLog' = cepLog /\ cepNow' = cepNow /\ matcherBuffer' = matcherBuffer
          /\ registered' = registered /\ reported' = reported /\ found' = {} /\ matching' = {p}
      BY <2>1, <3>1 DEF NewPatternMatcher, engineVars
    <3>3. FoundRight'
      BY <3>2 DEF FoundRight
    <3>. QED BY <1>2, <3>2, <3>3 DEF MatcherInv
  <2>2. CASE CepTick
    <3>1. /\ cepLog' = cepLog /\ cepNow' = cepNow + 1 /\ matcherBuffer' = matcherBuffer
          /\ registered' = registered /\ reported' = reported /\ found' = found /\ matching' = matching
      BY <2>2 DEF CepTick, engineVars, matcherVars
    <3>2. foundAt' = foundAt
      BY <2>2 DEF CepTick, matcherVars
    <3>3. FoundRight'
      BY <1>2, <3>1, <3>2 DEF MatcherInv, FoundRight, TimeOf
    <3>. QED BY <1>2, <3>1, <3>3 DEF MatcherInv
  <2>3. CASE UNCHANGED cepVars
    <3>1. /\ cepLog' = cepLog /\ cepNow' = cepNow /\ matcherBuffer' = matcherBuffer
          /\ registered' = registered /\ reported' = reported /\ found' = found /\ matching' = matching
          /\ foundAt' = foundAt
      BY <2>3 DEF cepVars, engineVars, matcherVars
    <3>2. FoundRight'
      BY <1>2, <3>1 DEF MatcherInv, FoundRight, TimeOf
    <3>. QED BY <1>2, <3>1, <3>2 DEF MatcherInv
  <2>. QED BY <1>2, <2>1, <2>2, <2>3, AddEventStep DEF MatcherNext
<1>. QED BY <1>1, <1>2, PTL DEF MatcherSpec

(* What the matcher finds in its buffer are occurrences of the pattern: whatever the patterns,
   the limit of the buffer and the times of the events, a match of AddEvent has an event for
   every step, in the order of the log, and none that the clock had reached lies the time
   window or more after another; an event ahead of the clock may. *)
THEOREM MatcherMatchesExact == MatcherSpec => []MatchesExact
<1>1. MatcherInv => MatchesExact
  BY DEF MatcherInv, FoundRight, MatchesExact, MatchesJustified, OccurrencesFound
<1>. QED BY <1>1, MatcherInvAlways, PTL
==============================================================================
