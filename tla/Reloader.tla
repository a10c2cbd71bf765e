------------------------------ MODULE Reloader ------------------------------
(***************************************************************************)
(* Configuration in memory and on disk: load_config (app/core/config.py),  *)
(* load_registry (app/core/registry.py), the watcher of                    *)
(* app/core/reloader.py, and the boot sequence of app/main.py.             *)
(*                                                                         *)
(* The hub's side is one thread: a run of synchronous code, of which       *)
(* every system call on a file is a step of its own, because editors work  *)
(* on the files at any moment in between.  A file's content is its mtime,  *)
(* which every edit renews, and whether it loads.                          *)
(***************************************************************************)
EXTENDS Integers, FiniteSets

CONSTANTS
    ConfigFile,     \* config.yaml
    RegistryFiles,  \* the paths that registry/*.yaml may match
    Absent,         \* no such file, and the time stamp of none
    Defaults,       \* HubConfig(), the configuration without a file
    MaxEdits        \* bound: edits of the files

Files == {ConfigFile} \cup RegistryFiles

\* "good": loads; "void": parses, but to an empty configuration, or to no valid
\* registry entry; "broken": loading raises.
Kinds == {"good", "void", "broken"}

File == [mtime : Nat, kind : Kinds]

ASSUME ReloaderAssumption ==
    /\ ConfigFile \notin RegistryFiles
    /\ Absent \notin Nat \cup File
    /\ MaxEdits \in Nat

VARIABLES
    disk,      \* the files
    edits,     \* how often they were edited; the clock that stamps them
    config,    \* config._config: the version in memory
    registry,  \* registry._registry: the versions of the files it stems from
    mtimes,    \* HotReloader._mtimes; a file that is missing there is Absent
    baseline,  \* history: the watcher's first snapshot
    missed,    \* history: files deleted in a version the watcher had not seen
    watcher,   \* how far the boot, and after it the watcher task, has come
    run        \* the synchronous code under way: locals and program counter

reloadVars == <<disk, edits, config, registry, mtimes, baseline, missed,
                watcher, run>>

Stamps == [Files -> Nat \cup {Absent}]

Idle == [by |-> "nobody"]

\* left: files still to stat or to read; snap and entries: what was collected;
\* next: a load of the registry follows the load of the configuration.
Run == [by : {"boot", "first", "poll", "admin", "request"},
        at : {"stat", "config", "config_read", "registry", "registry_read"},
        left : SUBSET Files, snap : Stamps, entries : SUBSET (RegistryFiles \X Nat),
        next : BOOLEAN]

ReloadTypeOK ==
    /\ disk \in [Files -> File \cup {Absent}]
    /\ config \in Nat \cup {Defaults}
    /\ registry \subseteq RegistryFiles \X Nat
    /\ {mtimes, baseline} \subseteq Stamps
    /\ missed \subseteq Files
    /\ watcher \in {"booting", "starting", "off", "watching", "dead", "failed", "stopped"}
    /\ run \in Run \cup {Idle}

NoStamps == [f \in Files |-> Absent]

Exists(f) == disk[f] # Absent
Stamp(f)  == IF Exists(f) THEN disk[f].mtime ELSE Absent
Is(f, kind) == Exists(f) /\ disk[f].kind = kind

Begin(by, at, next) ==
    [by |-> by, at |-> at, left |-> {f \in Files : at = "stat" /\ Exists(f)},
     snap |-> NoStamps, entries |-> {}, next |-> next]

\* The process starts on files that somebody has put there.
ReloadInit ==
    /\ disk \in [Files -> {[mtime |-> 0, kind |-> "good"], Absent}]
    /\ edits = 0
    /\ config = Defaults
    /\ registry = {}
    /\ mtimes = NoStamps
    /\ baseline = NoStamps
    /\ missed = {}
    /\ watcher = "booting"
    /\ run = Begin("boot", "config", TRUE)

-----------------------------------------------------------------------------
(* The files change under the hub *)

Touch(f, file) ==
    /\ edits < MaxEdits
    /\ edits' = edits + 1
    /\ disk' = [disk EXCEPT ![f] = file]
    /\ UNCHANGED <<config, registry, mtimes, baseline, watcher, run>>

Edit(f) == \E k \in Kinds : Touch(f, [mtime |-> edits + 1, kind |-> k]) /\ UNCHANGED missed

Delete(f) ==
    /\ Exists(f)
    /\ Touch(f, Absent)
    /\ missed' = missed \cup {x \in {f} : watcher = "watching" /\ Stamp(f) # mtimes[f]}

-----------------------------------------------------------------------------
(* Where a load, or an exception, leads *)

At(place) == run # Idle /\ run.at = place

\* The run is over.  That of the boot goes on with init_tracker, which may raise,
\* and creates the watcher's task unless FREELLM_DISABLE_RELOADER is set.
Finish ==
    /\ run' = Idle
    /\ watcher' \in IF run.by = "boot" THEN {"starting", "off", "failed"} ELSE {watcher}

AfterConfig ==
    IF run.next THEN run' = [run EXCEPT !.at = "registry"] /\ UNCHANGED watcher
                ELSE Finish

\* An exception ends the watcher's loop as well.
Mut_LoopDies ==
    /\ run' = Idle
    /\ watcher' = CASE run.by \in {"first", "poll"} -> "dead"
                    [] run.by = "boot" -> "failed"
                    [] OTHER -> watcher

\* reload_now catches the exception of each load by itself, and _run_loop every
\* other one, but its first snapshot is outside the try: the task dies.  lifespan
\* catches nothing: the process does not come up.  A request fails with a 500.
Raise ==
    IF run.by = "poll" /\ At("config_read") THEN AfterConfig
    ELSE /\ run' = Idle
         /\ watcher' = CASE run.by = "first" -> "dead"
                         [] run.by = "boot" -> "failed"
                         [] OTHER -> watcher

-----------------------------------------------------------------------------
(* load_config *)

\* Without a file there is no configuration either.
Mut_NoneConfig ==
    /\ At("config") /\ ~Exists(ConfigFile)
    /\ config' = Absent
    /\ AfterConfig
    /\ UNCHANGED <<disk, edits, registry, mtimes, baseline, missed>>

ConfigMissing ==
    /\ At("config") /\ ~Exists(ConfigFile)
    /\ config' = Defaults
    /\ AfterConfig
    /\ UNCHANGED <<disk, edits, registry, mtimes, baseline, missed>>

ConfigFound ==
    /\ At("config") /\ Exists(ConfigFile)
    /\ run' = [run EXCEPT !.at = "config_read"]
    /\ UNCHANGED <<disk, edits, config, registry, mtimes, baseline, missed, watcher>>

ConfigRead ==
    /\ At("config_read")
    /\ \/ Is(ConfigFile, "good") /\ config' = Stamp(ConfigFile) /\ AfterConfig
       \/ Is(ConfigFile, "void") /\ config' = Defaults /\ AfterConfig
       \/ (~Exists(ConfigFile) \/ Is(ConfigFile, "broken")) /\ UNCHANGED config /\ Raise
    /\ UNCHANGED <<disk, edits, registry, mtimes, baseline, missed>>

-----------------------------------------------------------------------------
(* load_registry: the directory, the files one by one, the swap at the end *)

RegistryListing == [run EXCEPT !.at = "registry_read", !.left = {f \in RegistryFiles : Exists(f)}]

\* The list in memory emptied before the files are read.
Mut_ClearFirst ==
    /\ At("registry")
    /\ run' = RegistryListing
    /\ registry' = {}
    /\ UNCHANGED <<disk, edits, config, mtimes, baseline, missed, watcher>>

RegistryList ==
    /\ At("registry")
    /\ run' = RegistryListing
    /\ UNCHANGED <<disk, edits, config, registry, mtimes, baseline, missed, watcher>>

\* An entry that does not validate is skipped; only the read or the YAML raises.
RegistryRead(f) ==
    /\ At("registry_read") /\ f \in run.left
    /\ \/ ~Exists(f) /\ Raise
       \/ Is(f, "broken") /\ Raise
       \/ Is(f, "void") /\ run' = [run EXCEPT !.left = @ \ {f}] /\ UNCHANGED watcher
       \/ /\ Is(f, "good")
          /\ run' = [run EXCEPT !.left = @ \ {f}, !.entries = @ \cup {<<f, Stamp(f)>>}]
          /\ UNCHANGED watcher
    /\ UNCHANGED <<disk, edits, config, registry, mtimes, baseline, missed>>

RegistrySwap ==
    /\ At("registry_read") /\ run.left = {}
    /\ registry' = run.entries
    /\ Finish
    /\ UNCHANGED <<disk, edits, config, mtimes, baseline, missed>>

-----------------------------------------------------------------------------
(* The watcher *)

\* _run_loop's first snapshot
StartWatching ==
    /\ run = Idle /\ watcher = "starting"
    /\ run' = Begin("first", "stat", FALSE)
    /\ UNCHANGED <<disk, edits, config, registry, mtimes, baseline, missed, watcher>>

\* The interval is over.
Poll ==
    /\ run = Idle /\ watcher = "watching"
    /\ run' = Begin("poll", "stat", FALSE)
    /\ UNCHANGED <<disk, edits, config, registry, mtimes, baseline, missed, watcher>>

\* _snapshot: stat of a file that was there when it was listed
StatFile(f) ==
    /\ At("stat") /\ f \in run.left
    /\ \/ ~Exists(f) /\ Raise
       \/ /\ Exists(f)
          /\ run' = [run EXCEPT !.left = @ \ {f}, !.snap[f] = Stamp(f)]
          /\ UNCHANGED watcher
    /\ UNCHANGED <<disk, edits, config, registry, mtimes, baseline, missed>>

\* The first snapshot is complete; the loop's first poll follows at once.
FirstSnapshot ==
    /\ At("stat") /\ run.left = {} /\ run.by = "first"
    /\ mtimes' = run.snap
    /\ baseline' = run.snap
    /\ watcher' = "watching"
    /\ run' = Begin("poll", "stat", FALSE)
    /\ UNCHANGED <<disk, edits, config, registry, missed>>

ChangedIn(files) == \E f \in files : run.snap[f] # mtimes[f]

\* A poll that has reloaded the configuration leaves the registry to the next
\* one.
Mut_OneLoadPerPoll ==
    /\ At("stat") /\ run.left = {} /\ run.by = "poll"
    /\ mtimes' = run.snap
    /\ run' = IF ChangedIn({ConfigFile}) THEN Begin("poll", "config", FALSE)
              ELSE IF ChangedIn(RegistryFiles) THEN Begin("poll", "registry", FALSE)
              ELSE Idle
    /\ UNCHANGED <<disk, edits, config, registry, baseline, missed, watcher>>

\* _detect_changes keeps the new time stamps before anything is loaded.
DetectChanges ==
    /\ At("stat") /\ run.left = {} /\ run.by = "poll"
    /\ mtimes' = run.snap
    /\ run' = IF ChangedIn({ConfigFile})
                THEN Begin("poll", "config", ChangedIn(RegistryFiles))
              ELSE IF ChangedIn(RegistryFiles) THEN Begin("poll", "registry", FALSE)
              ELSE Idle
    /\ UNCHANGED <<disk, edits, config, registry, baseline, missed, watcher>>

-----------------------------------------------------------------------------
(* Other users of the loads *)

Booted == watcher \in {"starting", "off", "watching", "dead"}

\* POST /admin/reload: both loads, the time stamps untouched
AdminReload ==
    /\ run = Idle /\ Booted
    /\ run' = Begin("admin", "config", TRUE)
    /\ UNCHANGED <<disk, edits, config, registry, mtimes, baseline, missed, watcher>>

\* get_registry reads an empty registry again, on behalf of whoever asks.
GetRegistry ==
    /\ run = Idle /\ Booted /\ registry = {}
    /\ run' = Begin("request", "registry", FALSE)
    /\ UNCHANGED <<disk, edits, config, registry, mtimes, baseline, missed, watcher>>

\* The process is told to end: lifespan stops the watcher, which is waiting for
\* its interval to end, has not begun, is dead or was never started.
Shutdown ==
    /\ run = Idle /\ Booted
    /\ watcher' = "stopped"
    /\ UNCHANGED <<disk, edits, config, registry, mtimes, baseline, missed, run>>

RunStep ==
    \/ ConfigMissing \/ ConfigFound \/ ConfigRead
    \/ RegistryList \/ (\E f \in RegistryFiles : RegistryRead(f)) \/ RegistrySwap
    \/ (\E f \in Files : StatFile(f)) \/ FirstSnapshot \/ DetectChanges

ReloadNext ==
    \/ \E f \in Files : Edit(f) \/ Delete(f)
    \/ RunStep
    \/ StartWatching \/ Poll
    \/ AdminReload \/ GetRegistry
    \/ Shutdown

ReloadSpec == ReloadInit /\ [][ReloadNext]_reloadVars

\* Synchronous code runs to its end.  A due timer and a new task get their turn
\* on the event loop however often requests get theirs: it serves what is ready
\* in order.
FairReloadSpec ==
    /\ ReloadSpec
    /\ WF_reloadVars(RunStep)
    /\ SF_reloadVars(StartWatching) /\ SF_reloadVars(Poll)

-----------------------------------------------------------------------------
(* Properties *)

\* What a complete load of the files as they are would leave in memory
ConfigOnDisk == IF Is(ConfigFile, "good") THEN Stamp(ConfigFile) ELSE Defaults
RegistryOnDisk == {<<f, Stamp(f)>> : f \in {x \in RegistryFiles : Is(x, "good")}}

ConfigCurrent   == Is(ConfigFile, "broken") \/ config = ConfigOnDisk
RegistryCurrent == (\E f \in RegistryFiles : Is(f, "broken")) \/ registry = RegistryOnDisk

ChangedSince(stamps, files) == \E f \in files : Stamp(f) # stamps[f]

\* The watcher never takes itself to be up to date when it is not: between two
\* runs, files whose time stamps it knows, and has seen change, are in memory as
\* they are on disk unless they do not load.  Edits between a stat and the read
\* that follows it, and failed loads, included.  But a file may come and go
\* between two polls: a load that has read it, or has failed on it, is not
\* repeated.
NoticedMeansLoaded ==
    run = Idle /\ watcher = "watching" =>
        /\ /\ ConfigFile \notin missed
           /\ mtimes[ConfigFile] # baseline[ConfigFile]
           /\ ~ChangedSince(mtimes, {ConfigFile})
           => ConfigCurrent
        /\ /\ RegistryFiles \cap missed = {}
           /\ \E f \in RegistryFiles : mtimes[f] # baseline[f]
           /\ ~ChangedSince(mtimes, RegistryFiles)
           => RegistryCurrent

\* Files that nobody touches keep serving, whatever happens to the others and
\* whichever load fails half-way.
UntouchedStays ==
    Booted =>
        /\ disk[ConfigFile] = [mtime |-> 0, kind |-> "good"] => config = 0
        /\ \A f \in RegistryFiles :
              disk[f] = [mtime |-> 0, kind |-> "good"] => <<f, 0>> \in registry

\* Once the watcher runs, whatever was edited since is in memory in the end, with
\* the same exception, unless the process is told to end.
EditsArrive ==
    watcher = "watching" ~>
        []( watcher # "stopped" =>
            /\ ConfigFile \notin missed /\ ChangedSince(baseline, {ConfigFile}) => ConfigCurrent
            /\ RegistryFiles \cap missed = {} /\ ChangedSince(baseline, RegistryFiles)
                => RegistryCurrent )

\* "loaded at boot, hot-reloadable" (TECH_DESIGN.md:76): the same of every edit, of
\* those before the watcher's first snapshot as well.
HotReloadable ==
    watcher = "watching" ~>
        [](watcher = "stopped" \/ missed # {} \/ (ConfigCurrent /\ RegistryCurrent))
=============================================================================
