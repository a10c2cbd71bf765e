---------------------------- MODULE ReloaderProofs ----------------------------
(***************************************************************************)
(* Theorems about Reloader, for any number of files and edits: types, what *)
(* untouched files may rely on, and what the watcher's time stamps say     *)
(* about the memory.                                                       *)
(***************************************************************************)
EXTENDS Reloader, TLAPS

StampsUpTo(n) == [Files -> 0..n \cup {Absent}]

\* Time stamps come from the edits so far.
StampsOld ==
    /\ edits \in Nat
    /\ \A f \in Files : Exists(f) => disk[f].mtime \in 0..edits
    /\ mtimes \in StampsUpTo(edits)
    /\ run # Idle => run.snap \in StampsUpTo(edits)

TypeInv == ReloadTypeOK /\ StampsOld

\* What is known of a file that exists.
LEMMA FileTypes ==
  ASSUME TypeInv, NEW f \in Files
  PROVE  /\ Exists(f) => disk[f] \in File /\ Stamp(f) = disk[f].mtime /\ Stamp(f) \in 0..edits
         /\ ~Exists(f) => Stamp(f) = Absent
         /\ Stamp(f) \in 0..edits \cup {Absent}
         /\ Absent \notin 0..edits
         /\ ConfigFile \in Files /\ RegistryFiles \subseteq Files
BY ReloaderAssumption
   DEF TypeInv, StampsOld, ReloadTypeOK, Exists, Stamp, Files, ReloaderAssumption

LEMMA StampsGrow ==
  ASSUME NEW n \in Nat, NEW s \in StampsUpTo(n)
  PROVE  s \in StampsUpTo(n + 1) /\ s \in Stamps
BY DEF StampsUpTo, Stamps

\* How runs begin
Starts == {Begin("boot", "config", TRUE), Begin("first", "stat", FALSE),
           Begin("poll", "stat", FALSE), Begin("poll", "config", TRUE),
           Begin("poll", "config", FALSE), Begin("poll", "registry", FALSE),
           Begin("admin", "config", TRUE), Begin("request", "registry", FALSE)}

\* A run that begins is a run, and has collected nothing.
LEMMA BeginTypes ==
  ASSUME NEW b \in Starts, NEW n \in Nat
  PROVE  b \in Run /\ b # Idle /\ b.snap \in StampsUpTo(n) /\ b.entries = {}
<1>1. NoStamps \in StampsUpTo(n) /\ NoStamps \in Stamps
  BY DEF NoStamps, StampsUpTo, Stamps
<1>2. PICK by \in {"boot", "first", "poll", "admin", "request"},
           at \in {"stat", "config", "config_read", "registry", "registry_read"},
           next \in {TRUE, FALSE} :
             b = [by |-> by, at |-> at, left |-> {f \in Files : at = "stat" /\ Exists(f)},
                  snap |-> NoStamps, entries |-> {}, next |-> next]
  BY DEF Starts, Begin
<1>3. b \in Run
  BY <1>1, <1>2 DEF Run
<1>4. b.by # Idle.by
  BY <1>2 DEF Idle
<1> QED
  BY <1>1, <1>2, <1>3, <1>4

\* A step that leaves the disk and the time stamps in memory keeps the types if it
\* keeps those of what it writes.
LEMMA TypesKept ==
  ASSUME TypeInv, UNCHANGED <<disk, edits, mtimes, baseline, missed>>,
         config' \in Nat \cup {Defaults},
         registry' \subseteq RegistryFiles \X Nat,
         watcher' \in {"booting", "starting", "off", "watching", "dead", "failed", "stopped"},
         run' \in Run \cup {Idle},
         run' # Idle => run'.snap \in StampsUpTo(edits)
  PROVE  TypeInv'
BY DEF TypeInv, ReloadTypeOK, StampsOld, StampsUpTo, Stamps, Files, Exists, File, Run

\* Where loads and exceptions lead: to the end of the run, or on with it.
LEMMA Leads ==
  ASSUME TypeInv, run # Idle, Finish \/ AfterConfig \/ Raise
  PROVE  /\ watcher' \in {"booting", "starting", "off", "watching", "dead", "failed", "stopped"}
         /\ run' = Idle \/ run' = [run EXCEPT !.at = "registry"]
         /\ run' \in Run \cup {Idle}
         /\ run' # Idle => run'.snap \in StampsUpTo(edits)
<1>1. run \in Run /\ run.snap \in StampsUpTo(edits)
  BY DEF TypeInv, ReloadTypeOK, StampsOld
<1>2. [run EXCEPT !.at = "registry"] \in Run /\ [run EXCEPT !.at = "registry"].snap = run.snap
  BY <1>1 DEF Run
<1>3. watcher \in {"booting", "starting", "off", "watching", "dead", "failed", "stopped"}
  BY DEF TypeInv, ReloadTypeOK
<1>4. CASE Finish
  BY <1>3, <1>4 DEF Finish
<1>5. ASSUME AfterConfig
      PROVE  /\ watcher' \in {"booting", "starting", "off", "watching", "dead", "failed", "stopped"}
             /\ run' = Idle \/ run' = [run EXCEPT !.at = "registry"]
  BY <1>3, <1>5 DEF AfterConfig, Finish
<1>6. CASE Raise
  BY <1>1, <1>2, <1>3, <1>5, <1>6 DEF Raise
<1> QED
  BY <1>1, <1>2, <1>4, <1>5, <1>6

\* What follows a poll that has compared the time stamps
LEMMA DetectStarts ==
  ASSUME DetectChanges
  PROVE  \/ run' = Begin("poll", "config", TRUE) /\ ChangedIn(RegistryFiles)
         \/ run' = Begin("poll", "config", FALSE) /\ ~ChangedIn(RegistryFiles)
         \/ run' = Begin("poll", "registry", FALSE) /\ ~ChangedIn({ConfigFile})
         \/ run' = Idle /\ ~ChangedIn({ConfigFile}) /\ ~ChangedIn(RegistryFiles)
<1>1. ChangedIn(RegistryFiles) = TRUE \/ ChangedIn(RegistryFiles) = FALSE
  BY DEF ChangedIn
<1>2. CASE ChangedIn({ConfigFile})
  BY <1>1, <1>2 DEF DetectChanges
<1>3. CASE ~ChangedIn({ConfigFile})
  BY <1>1, <1>3 DEF DetectChanges
<1> QED
  BY <1>2, <1>3

\* No step breaks the types.
LEMMA TypesStep == TypeInv /\ [ReloadNext]_reloadVars => TypeInv'
<1> SUFFICES ASSUME TypeInv, [ReloadNext]_reloadVars PROVE TypeInv'
  OBVIOUS
<1>0. /\ config \in Nat \cup {Defaults} /\ registry \subseteq RegistryFiles \X Nat
      /\ watcher \in {"booting", "starting", "off", "watching", "dead", "failed", "stopped"}
      /\ edits \in Nat /\ run \in Run \cup {Idle}
      /\ run # Idle => run \in Run /\ run.snap \in StampsUpTo(edits)
      /\ mtimes \in StampsUpTo(edits) /\ missed \subseteq Files
      /\ disk \in [Files -> File \cup {Absent}]
      /\ baseline \in Stamps
      /\ ConfigFile \in Files
  BY DEF TypeInv, ReloadTypeOK, StampsOld, Files
<1>1. ASSUME NEW f \in Files, NEW file \in File \cup {Absent}, Touch(f, file),
             file # Absent => file.mtime = edits + 1, missed' \subseteq Files
      PROVE  TypeInv'
  <2>1. edits' = edits + 1 /\ edits' \in Nat
    BY <1>0, <1>1 DEF Touch
  <2>2. disk' = [disk EXCEPT ![f] = file] /\ disk' \in [Files -> File \cup {Absent}]
    BY <1>0, <1>1 DEF Touch
  <2>3. \A g \in Files : Exists(g)' => disk'[g].mtime \in 0..edits'
    <3> TAKE g \in Files
    <3>1. CASE g = f
      BY <1>0, <1>1, <2>1, <2>2, <3>1 DEF Exists
    <3>2. CASE g # f
      BY <1>0, <2>1, <2>2, <3>2 DEF Exists, TypeInv, StampsOld
    <3> QED
      BY <3>1, <3>2
  <2>4. mtimes' \in StampsUpTo(edits') /\ (run' # Idle => run'.snap \in StampsUpTo(edits'))
    BY <1>0, <1>1, <2>1, StampsGrow DEF Touch
  <2> QED
    BY <1>0, <1>1, <2>1, <2>2, <2>3, <2>4 DEF Touch, TypeInv, ReloadTypeOK, StampsOld
<1>2. ASSUME NEW f \in Files, Edit(f) PROVE TypeInv'
  <2>1. PICK k \in Kinds : Touch(f, [mtime |-> edits + 1, kind |-> k]) /\ UNCHANGED missed
    BY <1>2 DEF Edit
  <2>2. [mtime |-> edits + 1, kind |-> k] \in File
    BY <1>0 DEF File
  <2> QED
    BY <1>0, <1>1, <2>1, <2>2
<1>3. ASSUME NEW f \in Files, Delete(f) PROVE TypeInv'
  BY <1>0, <1>1, <1>3 DEF Delete
<1>4. CASE ConfigMissing
  BY <1>0, <1>4, Leads, TypesKept DEF ConfigMissing, At
<1>5. CASE ConfigFound
  <2>1. [run EXCEPT !.at = "config_read"] \in Run
        /\ [run EXCEPT !.at = "config_read"].snap \in StampsUpTo(edits)
    BY <1>0, <1>5 DEF ConfigFound, At, Run
  <2> QED
    BY <1>0, <1>5, <2>1, TypesKept DEF ConfigFound
<1>6. CASE ConfigRead
  <2>1. config' \in Nat \cup {Defaults}
    BY <1>0, <1>6, FileTypes DEF ConfigRead, Is
  <2> QED
    BY <1>0, <1>6, <2>1, Leads, TypesKept DEF ConfigRead, At
<1>7. CASE RegistryList
  <2>1. RegistryListing \in Run /\ RegistryListing.snap \in StampsUpTo(edits)
    BY <1>0, <1>7 DEF RegistryList, RegistryListing, At, Run, Files
  <2> QED
    BY <1>0, <1>7, <2>1, TypesKept DEF RegistryList
<1>8. ASSUME NEW f \in RegistryFiles, RegistryRead(f) PROVE TypeInv'
  <2>1. run \in Run /\ run # Idle /\ f \in Files
    BY <1>0, <1>8 DEF RegistryRead, At, Files
  <2>2. CASE Raise
    BY <1>0, <1>8, <2>1, <2>2, Leads, TypesKept DEF RegistryRead
  <2>3. CASE run' = [run EXCEPT !.left = @ \ {f}] /\ UNCHANGED watcher
    <3>1. run' \in Run /\ run'.snap = run.snap
      BY <2>1, <2>3 DEF Run
    <3> QED
      BY <1>0, <1>8, <2>1, <2>3, <3>1, TypesKept DEF RegistryRead
  <2>4. CASE /\ Is(f, "good")
             /\ run' = [run EXCEPT !.left = @ \ {f}, !.entries = @ \cup {<<f, Stamp(f)>>}]
             /\ UNCHANGED watcher
    <3>1. Stamp(f) \in Nat
      BY <1>0, <2>1, <2>4, FileTypes DEF Is
    <3>2. run.entries \cup {<<f, Stamp(f)>>} \in SUBSET (RegistryFiles \X Nat)
      BY <2>1, <3>1 DEF Run
    <3>4. run.left \ {f} \in SUBSET Files
      BY <2>1 DEF Run
    <3>3. run' \in Run /\ run'.snap = run.snap
      BY <2>1, <2>4, <3>2, <3>4 DEF Run
    <3> QED
      BY <1>0, <1>8, <2>1, <2>4, <3>3, TypesKept DEF RegistryRead
  <2> QED
    BY <1>8, <2>2, <2>3, <2>4 DEF RegistryRead
<1>9. CASE RegistrySwap
  <2>1. run \in Run /\ run # Idle
    BY <1>0, <1>9 DEF RegistrySwap, At
  <2>2. registry' \subseteq RegistryFiles \X Nat
    BY <1>9, <2>1 DEF RegistrySwap, Run
  <2> QED
    BY <1>0, <1>9, <2>1, <2>2, Leads, TypesKept DEF RegistrySwap
<1>10. ASSUME NEW f \in Files, StatFile(f) PROVE TypeInv'
  <2>1. run \in Run /\ run # Idle /\ run.snap \in StampsUpTo(edits)
    BY <1>0, <1>10 DEF StatFile, At
  <2>2. CASE Raise
    BY <1>0, <1>10, <2>1, <2>2, Leads, TypesKept DEF StatFile
  <2>3. CASE run' = [run EXCEPT !.left = @ \ {f}, !.snap[f] = Stamp(f)] /\ UNCHANGED watcher
    <3>1. [run.snap EXCEPT ![f] = Stamp(f)] \in StampsUpTo(edits)
      BY <2>1, FileTypes DEF StampsUpTo
    <3>2. [run.snap EXCEPT ![f] = Stamp(f)] \in Stamps
      BY <1>0, <3>1, StampsGrow
    <3>3. run' \in Run /\ run'.snap = [run.snap EXCEPT ![f] = Stamp(f)]
      BY <2>1, <2>3, <3>2 DEF Run
    <3> QED
      BY <1>0, <1>10, <2>3, <3>1, <3>3, TypesKept DEF StatFile
  <2> QED
    BY <1>10, <2>2, <2>3 DEF StatFile
<1>11. CASE FirstSnapshot
  <2>1. run \in Run /\ run.snap \in StampsUpTo(edits) /\ run.snap \in Stamps
    BY <1>0, <1>11, StampsGrow DEF FirstSnapshot, At
  <2>2. run' \in Run /\ run'.snap \in StampsUpTo(edits)
    BY <1>0, <1>11, BeginTypes DEF FirstSnapshot, Starts
  <2> QED
    BY <1>0, <1>11, <2>1, <2>2
       DEF FirstSnapshot, TypeInv, ReloadTypeOK, StampsOld, Exists
<1>12. CASE DetectChanges
  <2>1. run \in Run /\ run.snap \in StampsUpTo(edits) /\ run.snap \in Stamps
    BY <1>0, <1>12, StampsGrow DEF DetectChanges, At
  <2>3. run' \in Starts \cup {Idle}
    BY <1>12, DetectStarts DEF Starts
  <2>4. run' \in Run \cup {Idle} /\ (run' # Idle => run'.snap \in StampsUpTo(edits))
    BY <1>0, <2>3, BeginTypes
  <2> QED
    BY <1>0, <1>12, <2>1, <2>4
       DEF DetectChanges, TypeInv, ReloadTypeOK, StampsOld, Exists
<1>13. CASE StartWatching
  BY <1>0, <1>13, BeginTypes, TypesKept DEF StartWatching, Starts
<1>14. CASE Poll
  BY <1>0, <1>14, BeginTypes, TypesKept DEF Poll, Starts
<1>15. CASE AdminReload
  BY <1>0, <1>15, BeginTypes, TypesKept DEF AdminReload, Starts
<1>16. CASE GetRegistry
  BY <1>0, <1>16, BeginTypes, TypesKept DEF GetRegistry, Starts
<1>17. CASE Shutdown
  BY <1>0, <1>17, TypesKept DEF Shutdown
<1>18. CASE UNCHANGED reloadVars
  BY <1>0, <1>18, TypesKept DEF reloadVars
<1> QED
  BY <1>2, <1>3, <1>4, <1>5, <1>6, <1>7, <1>8, <1>9, <1>10, <1>11, <1>12, <1>13, <1>14,
     <1>15, <1>16, <1>17, <1>18 DEF ReloadNext, RunStep

\* The first state is type-correct.
LEMMA TypesInit == ReloadInit => TypeInv
<1> SUFFICES ASSUME ReloadInit PROVE TypeInv
  OBVIOUS
<1>1. [mtime |-> 0, kind |-> "good"] \in File
  BY DEF File, Kinds
<1>2. disk \in [Files -> File \cup {Absent}]
  BY <1>1 DEF ReloadInit
<1>3. \A f \in Files : Exists(f) => disk[f].mtime = 0
  BY DEF ReloadInit, Exists
<1>4. NoStamps \in StampsUpTo(0) /\ NoStamps \in Stamps
  BY DEF NoStamps, StampsUpTo, Stamps
<1>5. run \in Run /\ run.snap \in StampsUpTo(0)
  BY BeginTypes DEF ReloadInit, Starts
<1>6. edits = 0 /\ mtimes = NoStamps /\ baseline = NoStamps
  BY DEF ReloadInit
<1>7. StampsOld
  BY <1>3, <1>4, <1>5, <1>6 DEF StampsOld
<1>8. ReloadTypeOK
  BY <1>2, <1>4, <1>5, <1>6 DEF ReloadInit, ReloadTypeOK
<1> QED
  BY <1>7, <1>8 DEF TypeInv

\* Memory, time stamps and the running code are type-correct in every reachable
\* state, however edits and system calls interleave.
THEOREM ReloadTypeCorrect == ReloadSpec => []ReloadTypeOK
<1>1. TypeInv => ReloadTypeOK
  BY DEF TypeInv
<1> QED
  BY <1>1, TypesInit, TypesStep, PTL DEF ReloadSpec

-----------------------------------------------------------------------------
(* Untouched files *)

Fresh(f) == disk[f] = [mtime |-> 0, kind |-> "good"]

\* Whose code runs tells how far boot and watcher have come.
Stages ==
    /\ run = Idle => watcher # "booting"
    /\ run # Idle =>
         /\ run.by = "boot" => watcher = "booting" /\ run.at # "stat"
         /\ run.by = "boot" /\ run.at \in {"config", "config_read"} => run.next
         /\ run.by = "first" => watcher = "starting"
         /\ run.by = "poll" => watcher = "watching"
         /\ run.by \in {"admin", "request"} => Booted
         /\ run.at # "registry_read" => run.entries = {}

\* Where the configuration, and the registry, have been loaded once
ConfigLoaded == Booted \/ (watcher = "booting" /\ (At("registry") \/ At("registry_read")))

UntouchedInv ==
    /\ ConfigLoaded /\ Fresh(ConfigFile) => config = 0
    /\ \A f \in RegistryFiles : Fresh(f) =>
         /\ Booted => <<f, 0>> \in registry
         /\ At("registry_read") => f \in run.left \/ <<f, 0>> \in run.entries

\* An edited file is no longer fresh, the others are what they were.
LEMMA FreshAfterTouch ==
  ASSUME TypeInv, NEW f \in Files, Edit(f) \/ Delete(f)
  PROVE  /\ \A g \in Files : Fresh(g)' => Fresh(g)
         /\ UNCHANGED <<config, registry, mtimes, baseline, watcher, run>>
<1>1. PICK file \in {Absent} \cup {[mtime |-> edits + 1, kind |-> k] : k \in Kinds} :
          Touch(f, file)
  BY DEF Edit, Delete
<1>2. edits + 1 # 0 /\ disk \in [Files -> File \cup {Absent}]
  BY DEF TypeInv, StampsOld, ReloadTypeOK
<1>3. Absent # [mtime |-> 0, kind |-> "good"]
  BY ReloaderAssumption DEF ReloaderAssumption, File, Kinds
<1>4. disk' = [disk EXCEPT ![f] = file] /\ UNCHANGED <<config, registry, mtimes, baseline, watcher, run>>
  BY <1>1 DEF Touch
<1>5. file # [mtime |-> 0, kind |-> "good"]
  BY <1>1, <1>2, <1>3
<1> QED
  BY <1>2, <1>4, <1>5 DEF Fresh

\* A load of the configuration goes on with the registry, or ends the run.
LEMMA EndsAtConfig ==
  ASSUME TypeInv, Stages, At("config") \/ At("config_read"),
         AfterConfig \/ (At("config_read") /\ Raise)
  PROVE  /\ \/ run' = Idle /\ watcher' # "booting"
            \/ run' = [run EXCEPT !.at = "registry"] /\ run.next /\ watcher' = watcher
         /\ run.by = "poll" /\ run.next => run' # Idle
         /\ Booted' => Booted
         /\ watcher' = "watching" <=> watcher = "watching"
<1>1. /\ run \in Run /\ run # Idle /\ run.at \in {"config", "config_read"}
      /\ run.by \in {"boot", "first", "poll", "admin", "request"}
  BY DEF TypeInv, ReloadTypeOK, At, Run
<1>2. [run EXCEPT !.at = "registry"] # Idle
  <2>1. [run EXCEPT !.at = "registry"].by = run.by /\ run.by # Idle.by
    BY <1>1 DEF Run, Idle
  <2> QED
    BY <2>1
<1>3. ASSUME AfterConfig
      PROVE  \/ run.next /\ run' = [run EXCEPT !.at = "registry"] /\ watcher' = watcher
             \/ ~run.next /\ run' = Idle /\ watcher' = watcher /\ run.by # "boot"
  BY <1>1, <1>3 DEF AfterConfig, Finish, Stages
<1>4. CASE AfterConfig
  BY <1>1, <1>2, <1>3, <1>4 DEF Stages, Booted
<1>5. CASE At("config_read") /\ Raise /\ ~AfterConfig
  BY <1>1, <1>5 DEF Raise, Stages, Booted, At
<1> QED
  BY <1>4, <1>5

\* An exception anywhere else ends the run.
LEMMA EndsElsewhere ==
  ASSUME TypeInv, Stages, run # Idle, ~At("config_read"), Raise
  PROVE  /\ run' = Idle /\ watcher' # "booting"
         /\ Booted' => Booted
         /\ watcher' = "watching" <=> watcher = "watching"
<1>1. run \in Run
  BY DEF TypeInv, ReloadTypeOK
<1> QED
  BY <1>1 DEF Raise, Stages, Booted, Run

\* No step takes code where Stages does not expect it.
LEMMA StagesStep == TypeInv /\ Stages /\ [ReloadNext]_reloadVars => Stages'
<1> SUFFICES ASSUME TypeInv, Stages, [ReloadNext]_reloadVars PROVE Stages'
  OBVIOUS
<1>0. /\ run \in Run \cup {Idle}
      /\ Idle.by = "nobody"
  BY DEF TypeInv, ReloadTypeOK, Idle
<1>1. ASSUME NEW f \in Files, Edit(f) \/ Delete(f) PROVE Stages'
  BY <1>1, FreshAfterTouch DEF Stages, Booted, At
<1>2. ASSUME run \in Run,
             \/ run' = Idle /\ watcher' # "booting"
             \/ /\ run' = [run EXCEPT !.at = "registry"] /\ watcher' = watcher
                /\ run.entries = {}
      PROVE  Stages'
  <2>1. CASE run' = Idle /\ watcher' # "booting"
    BY <1>0, <1>2, <2>1 DEF Stages
  <2>2. CASE run' = [run EXCEPT !.at = "registry"] /\ watcher' = watcher /\ run.entries = {}
    <3>1. /\ run'.by = run.by /\ run'.at = "registry" /\ run'.next = run.next
          /\ run'.entries = {} /\ run # Idle
      BY <1>0, <1>2, <2>2 DEF Run
    <3>2. run'.by # Idle.by
      BY <1>0, <1>2, <3>1 DEF Run
    <3> QED
      BY <2>2, <3>1, <3>2 DEF Stages, Booted
  <2> QED
    BY <1>2, <2>1, <2>2
<1>3. CASE ConfigMissing \/ ConfigRead
  <2>1. run \in Run /\ run # Idle /\ (At("config") \/ At("config_read")) /\ run.entries = {}
    BY <1>0, <1>3 DEF ConfigMissing, ConfigRead, At, Stages
  <2>2. AfterConfig \/ (At("config_read") /\ Raise)
    BY <1>3 DEF ConfigMissing, ConfigRead
  <2> QED
    BY <1>2, <2>1, <2>2, EndsAtConfig
<1>4. CASE ConfigFound
  <2>1. run \in Run /\ run # Idle /\ run.at = "config" /\ watcher' = watcher
    BY <1>0, <1>4 DEF ConfigFound, At
  <2>2. run'.by = run.by /\ run'.at = "config_read" /\ run'.next = run.next
        /\ run'.entries = run.entries
    BY <1>4, <2>1 DEF ConfigFound, Run
  <2>3. run' # Idle
    BY <1>0, <2>1, <2>2 DEF Run
  <2> QED
    BY <2>1, <2>2, <2>3 DEF Stages, Booted
<1>5. CASE RegistryList
  <2>1. run \in Run /\ run # Idle /\ run.at = "registry" /\ watcher' = watcher
    BY <1>0, <1>5 DEF RegistryList, At
  <2>2. run'.by = run.by /\ run'.at = "registry_read"
    BY <1>5, <2>1 DEF RegistryList, RegistryListing, Run
  <2>3. run' # Idle
    BY <1>0, <2>1, <2>2 DEF Run
  <2> QED
    BY <2>1, <2>2, <2>3 DEF Stages, Booted
<1>6. ASSUME NEW f \in RegistryFiles, RegistryRead(f) PROVE Stages'
  <2>1. run \in Run /\ run # Idle /\ run.at = "registry_read"
    BY <1>0, <1>6 DEF RegistryRead, At
  <2>2. CASE Raise
    BY <1>2, <2>1, <2>2, EndsElsewhere DEF At
  <2>3. CASE ~Raise
    <3>1. run'.by = run.by /\ run'.at = "registry_read" /\ watcher' = watcher
      BY <1>6, <2>1, <2>3 DEF RegistryRead, Run
    <3>2. run' # Idle
      BY <1>0, <2>1, <3>1 DEF Run
    <3> QED
      BY <2>1, <3>1, <3>2 DEF Stages, Booted
  <2> QED
    BY <2>2, <2>3
<1>7. CASE RegistrySwap
  <2>1. run \in Run /\ run # Idle /\ run' = Idle /\ watcher' # "booting"
    BY <1>0, <1>7 DEF RegistrySwap, Finish, At, Stages, Booted, Run
  <2> QED
    BY <1>2, <2>1
<1>8. ASSUME NEW f \in Files, StatFile(f) PROVE Stages'
  <2>1. run \in Run /\ run # Idle /\ run.at = "stat"
    BY <1>0, <1>8 DEF StatFile, At
  <2>2. CASE Raise
    BY <1>2, <2>1, <2>2, EndsElsewhere DEF At
  <2>3. CASE ~Raise
    <3>1. run'.by = run.by /\ run'.at = "stat" /\ run'.entries = run.entries
          /\ watcher' = watcher
      BY <1>8, <2>1, <2>3 DEF StatFile, Run
    <3>2. run' # Idle
      BY <1>0, <2>1, <3>1 DEF Run
    <3> QED
      BY <2>1, <3>1, <3>2 DEF Stages, Booted
  <2> QED
    BY <2>2, <2>3
<1>9. CASE FirstSnapshot
  BY <1>9 DEF FirstSnapshot, Begin, Stages, Idle
<1>10. CASE DetectChanges
  <2>1. run # Idle /\ run.by = "poll" /\ watcher = "watching" /\ watcher' = watcher
    BY <1>10 DEF DetectChanges, At, Stages
  <2>2. run' = Idle \/ (run' # Idle /\ run'.by = "poll" /\ run'.entries = {})
    BY <1>10, DetectStarts DEF Begin, Idle
  <2> QED
    BY <2>1, <2>2 DEF Stages
<1>11. CASE StartWatching
  BY <1>11 DEF StartWatching, Begin, Stages, Idle
<1>12. CASE Poll
  BY <1>12 DEF Poll, Begin, Stages, Idle
<1>13. CASE AdminReload
  BY <1>13 DEF AdminReload, Begin, Stages, Booted
<1>14. CASE GetRegistry
  BY <1>14 DEF GetRegistry, Begin, Stages, Booted
<1>15. CASE Shutdown
  BY <1>15 DEF Shutdown, Stages
<1>16. CASE UNCHANGED reloadVars
  BY <1>16 DEF reloadVars, Stages, Booted
<1> QED
  BY <1>1, <1>3, <1>4, <1>5, <1>6, <1>7, <1>8, <1>9, <1>10, <1>11, <1>12, <1>13, <1>14,
     <1>15, <1>16 DEF ReloadNext, RunStep

\* A step that leaves disk and memory keeps what untouched files rely on, if no
\* loads are passed over: the process was up before if it is up now.
LEMMA UntouchedKept ==
  ASSUME TypeInv, Stages, UntouchedInv, UNCHANGED <<disk, config, registry>>,
         Booted' => Booted, ConfigLoaded' => ConfigLoaded, ~At("registry_read")'
  PROVE  UntouchedInv'
BY DEF UntouchedInv, Fresh

\* No step takes an untouched file's contents out of memory.
LEMMA UntouchedStep ==
  TypeInv /\ Stages /\ UntouchedInv /\ [ReloadNext]_reloadVars => UntouchedInv'
<1> SUFFICES ASSUME TypeInv, Stages, UntouchedInv, [ReloadNext]_reloadVars
             PROVE  UntouchedInv'
  OBVIOUS
<1>0. /\ run \in Run \cup {Idle}
      /\ ConfigFile \in Files /\ RegistryFiles \subseteq Files
      /\ \A f \in Files : Fresh(f) => Is(f, "good") /\ Stamp(f) = 0 /\ Exists(f)
  <2>1. \A f \in Files : Fresh(f) => Exists(f)
    BY ReloaderAssumption DEF ReloaderAssumption, Fresh, Exists, File, Kinds
  <2> QED
    BY <2>1 DEF TypeInv, ReloadTypeOK, Fresh, Is, Stamp, Files
<1>1. ASSUME NEW f \in Files, Edit(f) \/ Delete(f) PROVE UntouchedInv'
  BY <1>0, <1>1, FreshAfterTouch DEF UntouchedInv, ConfigLoaded, Booted, At
<1>2. CASE ConfigMissing \/ ConfigRead
  <2>1. /\ At("config") \/ At("config_read")
        /\ AfterConfig \/ (At("config_read") /\ Raise)
        /\ UNCHANGED <<disk, registry>>
        /\ run # Idle
    BY <1>2 DEF ConfigMissing, ConfigRead, At
  <2>2. run' = Idle \/ run' = [run EXCEPT !.at = "registry"]
    BY <2>1, EndsAtConfig
  <2>3. Booted' => Booted
    BY <2>1, EndsAtConfig
  <2>4. ~At("registry_read")'
    BY <1>0, <2>1, <2>2 DEF At, Run
  <2>5. ConfigLoaded' /\ Fresh(ConfigFile)' => config' = 0
    <3> SUFFICES ASSUME ConfigLoaded', Fresh(ConfigFile)' PROVE config' = 0
      OBVIOUS
    <3>1. Fresh(ConfigFile) /\ Is(ConfigFile, "good") /\ Stamp(ConfigFile) = 0 /\ Exists(ConfigFile)
      BY <1>0, <2>1 DEF Fresh
    <3> QED
      BY <1>2, <3>1 DEF ConfigMissing, ConfigRead, Is
  <2> QED
    BY <2>1, <2>3, <2>4, <2>5 DEF UntouchedInv, Fresh
<1>3. CASE ConfigFound
  <2>1. run \in Run /\ run.at = "config" /\ run' = [run EXCEPT !.at = "config_read"]
        /\ UNCHANGED <<disk, config, registry, watcher>>
    BY <1>0, <1>3 DEF ConfigFound, At
  <2>2. ~At("registry_read")' /\ ~At("registry")'
    BY <2>1 DEF At, Run
  <2>3. (Booted' => Booted) /\ (ConfigLoaded' => ConfigLoaded)
    BY <2>1, <2>2 DEF Booted, ConfigLoaded
  <2> QED
    BY <2>1, <2>2, <2>3, UntouchedKept
<1>4. CASE RegistryList
  <2>1. /\ run \in Run /\ run # Idle /\ run.at = "registry" /\ run' = RegistryListing
        /\ UNCHANGED <<disk, config, registry, watcher>>
    BY <1>0, <1>4 DEF RegistryList, At
  <2>2. run'.left = {f \in RegistryFiles : Exists(f)}
    BY <2>1 DEF RegistryListing, Run
  <2>3. (Booted' => Booted) /\ (ConfigLoaded' => ConfigLoaded)
    BY <2>1 DEF Booted, ConfigLoaded, At
  <2> QED
    BY <1>0, <2>1, <2>2, <2>3 DEF UntouchedInv, Fresh
<1>5. ASSUME NEW f \in RegistryFiles, RegistryRead(f) PROVE UntouchedInv'
  <2>1. /\ run \in Run /\ run # Idle /\ At("registry_read") /\ f \in run.left
        /\ UNCHANGED <<disk, config, registry>>
    BY <1>0, <1>5 DEF RegistryRead, At
  <2>2. CASE Raise
    <3>1. run' = Idle /\ (Booted' => Booted) /\ watcher' # "booting"
      BY <2>1, <2>2, EndsElsewhere DEF At
    <3> QED
      BY <2>1, <3>1, UntouchedKept DEF At, ConfigLoaded
  <2>3. ASSUME ~Raise
        PROVE  /\ run'.left = run.left \ {f} /\ run.entries \subseteq run'.entries
               /\ Is(f, "good") => <<f, Stamp(f)>> \in run'.entries
               /\ watcher' = watcher
    BY <1>5, <2>1, <2>3 DEF RegistryRead, Run, Is
  <2>4. CASE ~Raise
    <3>1. (Booted' => Booted) /\ (ConfigLoaded' => ConfigLoaded)
      BY <2>1, <2>3, <2>4 DEF Booted, ConfigLoaded
    <3>2. \A g \in RegistryFiles : Fresh(g) => g \in run'.left \/ <<g, 0>> \in run'.entries
      BY <1>0, <2>1, <2>3, <2>4 DEF UntouchedInv
    <3> QED
      BY <2>1, <3>1, <3>2 DEF UntouchedInv, Fresh
  <2> QED
    BY <2>2, <2>4
<1>6. CASE RegistrySwap
  <2>1. /\ run \in Run /\ run # Idle /\ At("registry_read") /\ run.left = {}
        /\ registry' = run.entries /\ run' = Idle /\ UNCHANGED <<disk, config>>
    BY <1>0, <1>6 DEF RegistrySwap, At, Finish
  <2>2. \A g \in RegistryFiles : Fresh(g) => <<g, 0>> \in registry'
    BY <2>1 DEF UntouchedInv
  <2>3. ConfigLoaded
    <3>1. run.by \in {"boot", "first", "poll", "admin", "request"}
      BY <2>1 DEF Run
    <3> QED
      BY <2>1, <3>1 DEF ConfigLoaded, Stages, Booted
  <2>4. ~At("registry_read")'
    BY <2>1 DEF At
  <2> QED
    BY <2>1, <2>2, <2>3, <2>4 DEF UntouchedInv, Fresh
<1>7. ASSUME NEW f \in Files, StatFile(f) PROVE UntouchedInv'
  <2>1. run \in Run /\ run # Idle /\ run.at = "stat" /\ UNCHANGED <<disk, config, registry>>
    BY <1>0, <1>7 DEF StatFile, At
  <2>2. CASE Raise
    <3>1. run' = Idle /\ (Booted' => Booted) /\ watcher' # "booting"
      BY <2>1, <2>2, EndsElsewhere DEF At
    <3> QED
      BY <2>1, <3>1, UntouchedKept DEF At, ConfigLoaded
  <2>3. CASE ~Raise
    <3>1. run'.at = "stat" /\ watcher' = watcher
      BY <1>7, <2>1, <2>3 DEF StatFile, Run
    <3> QED
      BY <2>1, <3>1, UntouchedKept DEF At, ConfigLoaded, Booted
  <2> QED
    BY <2>2, <2>3
<1>8. CASE FirstSnapshot
  <2>1. watcher = "starting"
    BY <1>8 DEF FirstSnapshot, At, Stages
  <2>2. ~At("registry_read")' /\ ~At("registry")'
    BY <1>8 DEF FirstSnapshot, At, Begin
  <2> QED
    BY <1>8, <2>1, <2>2, UntouchedKept DEF FirstSnapshot, ConfigLoaded, Booted
<1>9. CASE DetectChanges
  <2>1. Booted /\ UNCHANGED <<disk, config, registry, watcher>>
    BY <1>9 DEF DetectChanges, At, Stages, Booted
  <2>2. ~At("registry_read")'
    BY <1>9, DetectStarts DEF At, Begin
  <2> QED
    BY <2>1, <2>2, UntouchedKept DEF ConfigLoaded
<1>10. CASE StartWatching \/ Poll \/ AdminReload \/ GetRegistry
  <2>1. Booted /\ UNCHANGED <<disk, config, registry, watcher>>
    BY <1>10 DEF StartWatching, Poll, AdminReload, GetRegistry, Booted
  <2>2. ~At("registry_read")'
    BY <1>10 DEF StartWatching, Poll, AdminReload, GetRegistry, At, Begin
  <2> QED
    BY <2>1, <2>2, UntouchedKept DEF ConfigLoaded
<1>11. CASE Shutdown
  BY <1>11, UntouchedKept DEF Shutdown, Booted, ConfigLoaded, At
<1>12. CASE UNCHANGED reloadVars
  BY <1>12 DEF reloadVars, UntouchedInv, ConfigLoaded, Booted, Fresh, At
<1> QED
  BY <1>1, <1>2, <1>3, <1>4, <1>5, <1>6, <1>7, <1>8, <1>9, <1>10, <1>11, <1>12
     DEF ReloadNext, RunStep

\* The first state: nothing is loaded, and nobody relies on it.
LEMMA UntouchedInit == ReloadInit => Stages /\ UntouchedInv
<1> SUFFICES ASSUME ReloadInit PROVE Stages /\ UntouchedInv
  OBVIOUS
<1>1. /\ run.by = "boot" /\ run.at = "config" /\ run.next /\ run.entries = {}
      /\ watcher = "booting"
  BY DEF ReloadInit, Begin
<1>2. run # Idle
  BY <1>1 DEF Idle
<1> QED
  BY <1>1, <1>2 DEF Stages, UntouchedInv, ConfigLoaded, Booted, At

\* Files that nobody touches keep serving, whatever happens to the others, and
\* whichever load of the boot, the watcher or a request fails half-way.
THEOREM UntouchedKeepsServing == ReloadSpec => []UntouchedStays
<1>1. UntouchedInv => UntouchedStays
  BY DEF UntouchedInv, UntouchedStays, ConfigLoaded, Fresh
<1> QED
  BY <1>1, TypesInit, UntouchedInit, TypesStep, StagesStep, UntouchedStep, PTL DEF ReloadSpec

-----------------------------------------------------------------------------
(* What the time stamps say *)

\* The watcher knows the version of f on disk, and has missed none before it.
Quiet(f) == f \notin missed /\ Stamp(f) = mtimes[f]

LoadingConfig == At("config") \/ At("config_read")

\* The registry is about to be loaded: the poll owes it its next step.
LoadingRegistry == \/ At("registry") \/ At("registry_read")
                   \/ LoadingConfig /\ run.by = "poll" /\ run.next

ConfigNoticed ==
    /\ ~LoadingConfig /\ Quiet(ConfigFile) /\ mtimes[ConfigFile] # baseline[ConfigFile]
         => ConfigCurrent
    /\ At("config_read") /\ Quiet(ConfigFile) => Exists(ConfigFile)

\* A running load has collected what the quiet files hold.
Collected(f) ==
    /\ f \in run.left => Exists(f) /\ \A v \in Nat : <<f, v>> \notin run.entries
    /\ f \notin run.left =>
         \A v \in Nat : <<f, v>> \in run.entries <=> Is(f, "good") /\ v = Stamp(f)

RegistryNoticed ==
    /\ /\ ~LoadingRegistry
       /\ \A f \in RegistryFiles : Quiet(f)
       /\ \E f \in RegistryFiles : mtimes[f] # baseline[f]
       => RegistryCurrent
    /\ At("registry_read") =>
         /\ run.left \subseteq RegistryFiles
         /\ \A f \in RegistryFiles : Quiet(f) => Collected(f)

NoticedInv == watcher = "watching" => ConfigNoticed /\ RegistryNoticed

\* An edit or a deletion leaves its file unquiet, and the others as they were.
LEMMA QuietAfterTouch ==
  ASSUME TypeInv, watcher = "watching", NEW f \in Files, Edit(f) \/ Delete(f),
         NEW g \in Files, Quiet(g)'
  PROVE  Quiet(g) /\ g # f /\ disk'[g] = disk[g]
<1>1. /\ disk \in [Files -> File \cup {Absent}] /\ edits \in Nat
      /\ mtimes[f] \in 0..edits \cup {Absent} /\ mtimes[g] \in 0..edits \cup {Absent}
      /\ edits + 1 \notin 0..edits \cup {Absent}
  BY ReloaderAssumption
     DEF TypeInv, ReloadTypeOK, StampsOld, StampsUpTo, ReloaderAssumption
<1>2. missed \subseteq missed' /\ UNCHANGED mtimes
  BY DEF Edit, Delete, Touch
<1>3. ASSUME g = f PROVE FALSE
  <2>1. CASE Edit(f)
    <3>1. PICK k \in Kinds : disk' = [disk EXCEPT ![f] = [mtime |-> edits + 1, kind |-> k]]
      BY <2>1 DEF Edit, Touch
    <3>2. [mtime |-> edits + 1, kind |-> k] # Absent
      BY <1>1, ReloaderAssumption DEF ReloaderAssumption, File
    <3>3. Stamp(f)' = edits + 1
      BY <1>1, <3>1, <3>2 DEF Stamp, Exists
    <3> QED
      BY <1>1, <1>2, <1>3, <3>3 DEF Quiet
  <2>2. CASE Delete(f)
    <3>1. Exists(f) /\ disk' = [disk EXCEPT ![f] = Absent]
          /\ (Stamp(f) # mtimes[f] => f \in missed')
      BY <2>2 DEF Delete, Touch
    <3>2. Stamp(f)' = Absent
      BY <1>1, <3>1 DEF Stamp, Exists
    <3>3. Stamp(f) # Absent
      BY <3>1, FileTypes
    <3> QED
      BY <1>2, <1>3, <3>1, <3>2, <3>3 DEF Quiet
  <2> QED
    BY <2>1, <2>2
<1>4. ASSUME g # f PROVE Quiet(g) /\ disk'[g] = disk[g]
  <2>1. disk'[g] = disk[g]
    BY <1>1, <1>4 DEF Edit, Delete, Touch
  <2> QED
    BY <1>2, <2>1 DEF Quiet, Stamp, Exists
<1> QED
  BY <1>3, <1>4

\* Nobody's edit makes the watcher's knowledge wrong.
LEMMA NoticedAfterTouch ==
  ASSUME TypeInv, NoticedInv, watcher = "watching", NEW f \in Files, Edit(f) \/ Delete(f)
  PROVE  ConfigNoticed' /\ RegistryNoticed'
<1>1. UNCHANGED <<config, registry, mtimes, baseline, watcher, run>>
  BY FreshAfterTouch
<1>2. ConfigNoticed /\ RegistryNoticed /\ ConfigFile \in Files /\ RegistryFiles \subseteq Files
  BY DEF NoticedInv, Files
<1>3. ConfigNoticed'
  <2> SUFFICES ASSUME Quiet(ConfigFile)' PROVE ConfigNoticed'
    BY DEF ConfigNoticed
  <2>1. Quiet(ConfigFile) /\ disk'[ConfigFile] = disk[ConfigFile]
    BY <1>2, QuietAfterTouch
  <2>2. /\ Exists(ConfigFile)' <=> Exists(ConfigFile)
        /\ ConfigCurrent => ConfigCurrent'
    BY <1>1, <2>1 DEF ConfigCurrent, ConfigOnDisk, Exists, Is, Stamp
  <2> QED
    BY <1>1, <1>2, <2>1, <2>2 DEF ConfigNoticed, LoadingConfig, At
<1>4. ASSUME \A g \in RegistryFiles : Quiet(g)'
      PROVE  (\A g \in RegistryFiles : Quiet(g)) /\ (RegistryCurrent => RegistryCurrent')
  <2>1. \A g \in RegistryFiles : Quiet(g) /\ disk'[g] = disk[g]
    BY <1>2, <1>4, QuietAfterTouch
  <2>2. RegistryOnDisk' = RegistryOnDisk
    BY <2>1 DEF RegistryOnDisk, Stamp, Exists, Is
  <2>3. (\E g \in RegistryFiles : Is(g, "broken")) => \E g \in RegistryFiles : Is(g, "broken")'
    BY <2>1 DEF Is, Exists
  <2> QED
    BY <1>1, <2>1, <2>2, <2>3 DEF RegistryCurrent
<1>5. ASSUME At("registry_read"), NEW g \in RegistryFiles, Quiet(g)' PROVE Collected(g)'
  <2>1. Quiet(g) /\ disk'[g] = disk[g]
    BY <1>2, <1>5, QuietAfterTouch
  <2>2. Collected(g)
    BY <1>2, <1>5, <2>1 DEF RegistryNoticed
  <2> QED
    BY <1>1, <2>1, <2>2 DEF Collected, Exists, Is, Stamp
<1>6. RegistryNoticed'
  <2>1. /\ LoadingRegistry' <=> LoadingRegistry
        /\ At("registry_read")' <=> At("registry_read")
    BY <1>1 DEF LoadingRegistry, LoadingConfig, At
  <2> QED
    BY <1>1, <1>2, <1>4, <1>5, <2>1 DEF RegistryNoticed
<1> QED
  BY <1>3, <1>6

\* A step that neither changes nor ends a load keeps what is noticed.
LEMMA NoticedKept ==
  ASSUME NoticedInv, UNCHANGED <<disk, config, registry, mtimes, baseline, missed>>,
         watcher' = "watching" => watcher = "watching",
         LoadingConfig => LoadingConfig', LoadingRegistry => LoadingRegistry',
         ~At("config_read")', ~At("registry_read")'
  PROVE  NoticedInv'
<1>1. /\ ConfigCurrent' <=> ConfigCurrent
      /\ RegistryCurrent' <=> RegistryCurrent
      /\ \A f : Quiet(f)' <=> Quiet(f)
  BY DEF ConfigCurrent, RegistryCurrent, ConfigOnDisk, RegistryOnDisk, Quiet, Is, Exists, Stamp
<1> QED
  BY <1>1 DEF NoticedInv, ConfigNoticed, RegistryNoticed

\* A load of the configuration that has come to its end has done its work, or has
\* failed on a broken file or on one that is not quiet.
LEMMA NoticedAfterConfig ==
  ASSUME TypeInv, Stages, NoticedInv, ConfigMissing \/ ConfigRead
  PROVE  NoticedInv'
<1> SUFFICES ASSUME watcher' = "watching" PROVE ConfigNoticed' /\ RegistryNoticed'
  BY DEF NoticedInv
<1>1. /\ run \in Run /\ run # Idle /\ LoadingConfig
      /\ AfterConfig \/ (At("config_read") /\ Raise)
      /\ UNCHANGED <<disk, registry, mtimes, baseline, missed>>
  BY DEF ConfigMissing, ConfigRead, At, LoadingConfig, TypeInv, ReloadTypeOK
<1>2. /\ watcher = "watching"
      /\ run' = Idle \/ (run' = [run EXCEPT !.at = "registry"])
      /\ run.by = "poll" /\ run.next => run' # Idle
  BY <1>1, EndsAtConfig DEF LoadingConfig
<1>3. ConfigNoticed /\ RegistryNoticed
  BY <1>2 DEF NoticedInv
<1>4. /\ \A f : Quiet(f)' <=> Quiet(f)
      /\ RegistryCurrent' <=> RegistryCurrent
  BY <1>1 DEF Quiet, Stamp, Exists, RegistryCurrent, RegistryOnDisk, Is
<1>5. ~At("config_read")' /\ ~At("registry_read")' /\ (run' # Idle => At("registry")')
  BY <1>1, <1>2 DEF At, Run
<1>6. ASSUME Quiet(ConfigFile) PROVE ConfigCurrent'
  <2>1. CASE ConfigMissing
    BY <2>1 DEF ConfigMissing, ConfigCurrent, ConfigOnDisk, Is, Exists
  <2>2. CASE ConfigRead
    <3>1. Exists(ConfigFile)
      BY <1>3, <1>6, <2>2 DEF ConfigNoticed, ConfigRead
    <3>2. CASE Is(ConfigFile, "good")
      BY <1>1, <2>2, <3>1, <3>2 DEF ConfigRead, ConfigCurrent, ConfigOnDisk, Is, Exists, Stamp
    <3>3. CASE Is(ConfigFile, "void")
      BY <1>1, <2>2, <3>1, <3>3 DEF ConfigRead, ConfigCurrent, ConfigOnDisk, Is, Exists, Stamp
    <3>4. CASE Is(ConfigFile, "broken")
      BY <1>1, <3>4 DEF ConfigCurrent, Is, Exists
    <3> QED
      BY <2>2, <3>1, <3>2, <3>3, <3>4 DEF ConfigRead
  <2> QED
    BY <2>1, <2>2
<1>7. ConfigNoticed'
  BY <1>4, <1>5, <1>6 DEF ConfigNoticed
<1>8. ~LoadingRegistry' => ~LoadingRegistry
  BY <1>1, <1>2, <1>5 DEF LoadingRegistry, LoadingConfig, At
<1>9. RegistryNoticed'
  BY <1>1, <1>3, <1>4, <1>5, <1>8 DEF RegistryNoticed
<1> QED
  BY <1>7, <1>9

\* One file of the registry is read.
LEMMA NoticedAfterRead ==
  ASSUME TypeInv, Stages, NoticedInv, NEW f \in RegistryFiles, RegistryRead(f)
  PROVE  NoticedInv'
<1> SUFFICES ASSUME watcher' = "watching" PROVE ConfigNoticed' /\ RegistryNoticed'
  BY DEF NoticedInv
<1>1. /\ run \in Run /\ run # Idle /\ At("registry_read") /\ f \in run.left
      /\ UNCHANGED <<disk, config, registry, mtimes, baseline, missed>>
  BY DEF RegistryRead, At, TypeInv, ReloadTypeOK
<1>2. watcher = "watching"
  <2>1. CASE Raise
    BY <1>1, <2>1, EndsElsewhere DEF At
  <2>2. CASE ~Raise
    BY <2>2 DEF RegistryRead
  <2> QED
    BY <2>1, <2>2
<1>3. /\ ConfigNoticed /\ RegistryNoticed
      /\ ~LoadingConfig
  BY <1>1, <1>2 DEF NoticedInv, LoadingConfig, At
<1>4. /\ \A g : Quiet(g)' <=> Quiet(g)
      /\ ConfigCurrent' <=> ConfigCurrent
      /\ RegistryCurrent' <=> RegistryCurrent
  BY <1>1 DEF Quiet, Stamp, Exists, RegistryCurrent, RegistryOnDisk, ConfigCurrent,
              ConfigOnDisk, Is
<1>5. CASE Raise
  <2>1. run' = Idle
    BY <1>1, <1>5, EndsElsewhere DEF At
  <2>2. ConfigNoticed'
    BY <1>1, <1>3, <1>4, <2>1 DEF ConfigNoticed, At
  <2>3. (\A g \in RegistryFiles : Quiet(g)) => RegistryCurrent
    <3> SUFFICES ASSUME \A g \in RegistryFiles : Quiet(g) PROVE RegistryCurrent
      OBVIOUS
    <3>1. Exists(f)
      BY <1>1, <1>3 DEF RegistryNoticed, Collected
    <3>2. CASE Is(f, "broken")
      BY <3>2 DEF RegistryCurrent
    <3>3. CASE ~Is(f, "broken")
      <4>1. run' # Idle
        <5>1. PICK l, e : run' = [run EXCEPT !.left = l, !.entries = e]
                          \/ run' = [run EXCEPT !.left = l]
          BY <3>1, <3>3 DEF RegistryRead
        <5>2. run'.by = run.by /\ run.by # Idle.by
          BY <1>1, <5>1 DEF Run, Idle
        <5> QED
          BY <5>2
      <4> QED
        BY <2>1, <4>1
    <3> QED
      BY <3>2, <3>3
  <2>4. RegistryNoticed'
    BY <1>4, <2>1, <2>3 DEF RegistryNoticed, At
  <2> QED
    BY <2>2, <2>4
<1>6. CASE ~Raise
  <2>1. /\ run'.left = run.left \ {f}
        /\ \/ Is(f, "void") /\ run'.entries = run.entries
           \/ Is(f, "good") /\ run'.entries = run.entries \cup {<<f, Stamp(f)>>}
    BY <1>1, <1>6 DEF RegistryRead, Run
  <2>2. run'.at = "registry_read" /\ run'.by = run.by
    BY <1>1, <1>6 DEF RegistryRead, At, Run
  <2>3. run' # Idle
    BY <1>1, <2>2 DEF Run, Idle
  <2>4. ConfigNoticed'
    BY <1>1, <1>3, <1>4, <2>2 DEF ConfigNoticed, At, LoadingConfig
  <2>5. ASSUME NEW g \in RegistryFiles, Quiet(g) PROVE Collected(g)'
    <3>1. Collected(g)
      BY <1>1, <1>3, <2>5 DEF RegistryNoticed
    <3>2. /\ Exists(g)' <=> Exists(g)
          /\ Is(g, "good")' <=> Is(g, "good")
          /\ Stamp(g)' = Stamp(g)
      BY <1>1 DEF Exists, Is, Stamp
    <3>3. CASE g # f
      <4>1. \A v \in Nat : <<g, v>> \in run'.entries <=> <<g, v>> \in run.entries
        BY <2>1, <3>3
      <4> QED
        BY <2>1, <3>1, <3>2, <3>3, <4>1 DEF Collected
    <3>4. CASE g = f
      <4>1. \A v \in Nat : <<f, v>> \notin run.entries
        BY <1>1, <3>1, <3>4 DEF Collected
      <4>2. ~(Is(f, "void") /\ Is(f, "good"))
        BY DEF Is
      <4>3. \A v \in Nat : <<f, v>> \in run'.entries <=> Is(f, "good") /\ v = Stamp(f)
        BY <2>1, <4>1, <4>2
      <4> QED
        BY <2>1, <3>2, <3>4, <4>3 DEF Collected
    <3> QED
      BY <3>3, <3>4
  <2>6. run'.left \subseteq RegistryFiles
    BY <1>1, <1>3, <2>1 DEF RegistryNoticed
  <2>7. LoadingRegistry'
    BY <2>2, <2>3 DEF LoadingRegistry, At
  <2>8. RegistryNoticed'
    BY <1>4, <2>5, <2>6, <2>7 DEF RegistryNoticed
  <2> QED
    BY <2>4, <2>8
<1> QED
  BY <1>5, <1>6

\* The collected entries take the place of the registry.
LEMMA NoticedAfterSwap ==
  ASSUME TypeInv, Stages, NoticedInv, RegistrySwap
  PROVE  NoticedInv'
<1> SUFFICES ASSUME watcher' = "watching" PROVE ConfigNoticed' /\ RegistryNoticed'
  BY DEF NoticedInv
<1>1. /\ run \in Run /\ run # Idle /\ At("registry_read") /\ run.left = {}
      /\ registry' = run.entries /\ run' = Idle
      /\ UNCHANGED <<disk, config, mtimes, baseline, missed>>
  BY DEF RegistrySwap, At, Finish, TypeInv, ReloadTypeOK
<1>2. watcher = "watching"
  BY DEF RegistrySwap, Finish
<1>3. ConfigNoticed /\ RegistryNoticed /\ ~LoadingConfig
  BY <1>1, <1>2 DEF NoticedInv, LoadingConfig, At
<1>4. /\ \A g : Quiet(g)' <=> Quiet(g)
      /\ ConfigCurrent' <=> ConfigCurrent
  BY <1>1 DEF Quiet, Stamp, Exists, ConfigCurrent, ConfigOnDisk, Is
<1>5. ConfigNoticed'
  BY <1>1, <1>3, <1>4 DEF ConfigNoticed, At
<1>6. ASSUME \A g \in RegistryFiles : Quiet(g) PROVE RegistryCurrent'
  <2>1. \A g \in RegistryFiles, v \in Nat :
           <<g, v>> \in run.entries <=> Is(g, "good") /\ v = Stamp(g)
    BY <1>1, <1>3, <1>6 DEF RegistryNoticed, Collected
  <2>2. \A g \in RegistryFiles : Is(g, "good") => Stamp(g) \in Nat
    <3>1. \A g \in RegistryFiles : g \in Files /\ edits \in Nat
      BY DEF Files, TypeInv, StampsOld
    <3> QED
      BY <3>1, FileTypes DEF Is
  <2>3. run.entries \subseteq RegistryFiles \X Nat
    BY <1>1 DEF Run
  <2>4. RegistryOnDisk \subseteq run.entries
    BY <2>1, <2>2 DEF RegistryOnDisk
  <2>5. run.entries \subseteq RegistryOnDisk
    BY <2>1, <2>3 DEF RegistryOnDisk
  <2>6. RegistryOnDisk' = RegistryOnDisk
    BY <1>1 DEF RegistryOnDisk, Is, Exists, Stamp
  <2> QED
    BY <1>1, <2>4, <2>5, <2>6 DEF RegistryCurrent
<1>7. RegistryNoticed'
  BY <1>1, <1>4, <1>6 DEF RegistryNoticed, At
<1> QED
  BY <1>5, <1>7

\* The poll takes note of the new time stamps, and owes a load of what has changed.
LEMMA NoticedAfterDetect ==
  ASSUME TypeInv, Stages, NoticedInv, DetectChanges
  PROVE  NoticedInv'
<1> SUFFICES ASSUME watcher' = "watching" PROVE ConfigNoticed' /\ RegistryNoticed'
  BY DEF NoticedInv
<1>1. /\ run \in Run /\ run # Idle /\ At("stat") /\ mtimes' = run.snap
      /\ watcher = "watching"
      /\ UNCHANGED <<disk, config, registry, baseline, missed>>
  BY DEF DetectChanges, At, TypeInv, ReloadTypeOK
<1>2. /\ ConfigNoticed /\ RegistryNoticed
      /\ ~LoadingConfig /\ ~LoadingRegistry
  BY <1>1 DEF NoticedInv, LoadingConfig, LoadingRegistry, At
<1>3. /\ ConfigCurrent' <=> ConfigCurrent
      /\ RegistryCurrent' <=> RegistryCurrent
      /\ \A g : mtimes'[g] = mtimes[g] => (Quiet(g)' <=> Quiet(g))
  BY <1>1 DEF Quiet, Stamp, Exists, ConfigCurrent, ConfigOnDisk, RegistryCurrent,
              RegistryOnDisk, Is
<1>4. ~At("config_read")' /\ ~At("registry_read")'
  BY DetectStarts DEF At, Begin, Idle
<1>5. ~LoadingConfig' => mtimes'[ConfigFile] = mtimes[ConfigFile]
  BY <1>1, DetectStarts DEF LoadingConfig, At, Begin, Idle, ChangedIn
<1>6. ~LoadingRegistry' => \A f \in RegistryFiles : mtimes'[f] = mtimes[f]
  BY <1>1, DetectStarts DEF LoadingRegistry, LoadingConfig, At, Begin, Idle, ChangedIn
<1>7. ConfigNoticed'
  BY <1>1, <1>2, <1>3, <1>4, <1>5 DEF ConfigNoticed
<1>8. RegistryNoticed'
  BY <1>1, <1>2, <1>3, <1>4, <1>6 DEF RegistryNoticed
<1> QED
  BY <1>7, <1>8

\* No step makes the watcher take itself to be up to date when it is not.
LEMMA NoticedStep ==
  TypeInv /\ Stages /\ NoticedInv /\ [ReloadNext]_reloadVars => NoticedInv'
<1> SUFFICES ASSUME TypeInv, Stages, NoticedInv, [ReloadNext]_reloadVars PROVE NoticedInv'
  OBVIOUS
<1>0. run \in Run \cup {Idle}
  BY DEF TypeInv, ReloadTypeOK
<1>1. ASSUME NEW f \in Files, Edit(f) \/ Delete(f) PROVE NoticedInv'
  BY <1>1, FreshAfterTouch, NoticedAfterTouch DEF NoticedInv
<1>2. CASE ConfigMissing \/ ConfigRead
  BY <1>2, NoticedAfterConfig
<1>3. CASE ConfigFound
  <2>1. /\ run \in Run /\ run # Idle /\ At("config")
        /\ run' = [run EXCEPT !.at = "config_read"]
        /\ Exists(ConfigFile)
        /\ UNCHANGED <<disk, config, registry, mtimes, baseline, missed, watcher>>
    BY <1>0, <1>3 DEF ConfigFound, At
  <2>2. run'.at = "config_read" /\ run'.by = run.by /\ run'.next = run.next /\ run' # Idle
    BY <2>1 DEF Run, Idle
  <2>3. /\ At("config_read")' /\ ~At("registry_read")' /\ LoadingConfig'
        /\ LoadingRegistry' <=> LoadingRegistry
    BY <2>1, <2>2 DEF At, LoadingConfig, LoadingRegistry
  <2>4. /\ \A g : Quiet(g)' <=> Quiet(g)
        /\ RegistryCurrent' <=> RegistryCurrent
        /\ Exists(ConfigFile)'
    BY <2>1 DEF Quiet, RegistryCurrent, RegistryOnDisk, Is, Exists, Stamp
  <2> QED
    BY <2>1, <2>3, <2>4 DEF NoticedInv, ConfigNoticed, RegistryNoticed
<1>4. CASE RegistryList
  <2>1. /\ run \in Run /\ run # Idle /\ At("registry") /\ run' = RegistryListing
        /\ run.entries = {}
        /\ UNCHANGED <<disk, config, registry, mtimes, baseline, missed, watcher>>
    BY <1>0, <1>4 DEF RegistryList, At, Stages
  <2>2. /\ run'.at = "registry_read" /\ run'.left = {f \in RegistryFiles : Exists(f)}
        /\ run'.entries = {} /\ run'.by = run.by
    BY <2>1 DEF RegistryListing, Run
  <2>3. run' # Idle
    BY <2>1, <2>2 DEF Run, Idle
  <2>4. /\ ConfigCurrent' <=> ConfigCurrent
        /\ \A g : Quiet(g)' <=> Quiet(g)
    BY <2>1 DEF Quiet, ConfigCurrent, ConfigOnDisk, Is, Exists, Stamp
  <2>5. \A f \in RegistryFiles : Collected(f)'
    BY <2>1, <2>2 DEF Collected, Exists, Is
  <2>6. At("registry_read")' /\ ~At("config_read")' /\ LoadingRegistry' /\ ~LoadingConfig
    BY <2>1, <2>2, <2>3 DEF At, LoadingRegistry, LoadingConfig
  <2> QED
    BY <2>1, <2>2, <2>4, <2>5, <2>6 DEF NoticedInv, ConfigNoticed, RegistryNoticed
<1>5. ASSUME NEW f \in RegistryFiles, RegistryRead(f) PROVE NoticedInv'
  BY <1>5, NoticedAfterRead
<1>6. CASE RegistrySwap
  BY <1>6, NoticedAfterSwap
<1>7. ASSUME NEW f \in Files, StatFile(f) PROVE NoticedInv'
  <2>1. /\ run \in Run /\ run # Idle /\ run.at = "stat"
        /\ UNCHANGED <<disk, config, registry, mtimes, baseline, missed>>
    BY <1>0, <1>7 DEF StatFile, At
  <2>2. ~LoadingConfig /\ ~LoadingRegistry
    BY <2>1 DEF LoadingConfig, LoadingRegistry, At
  <2>3. CASE Raise
    <3>1. run' = Idle /\ (watcher' = "watching" => watcher = "watching")
      BY <2>1, <2>3, EndsElsewhere DEF At
    <3> QED
      BY <2>1, <2>2, <3>1, NoticedKept DEF At
  <2>4. CASE ~Raise
    <3>1. run'.at = "stat" /\ watcher' = watcher
      BY <1>7, <2>1, <2>4 DEF StatFile, Run
    <3> QED
      BY <2>1, <2>2, <3>1, NoticedKept DEF At
  <2> QED
    BY <2>3, <2>4
<1>8. CASE FirstSnapshot
  <2>1. mtimes' = baseline' /\ ~At("config_read")' /\ ~At("registry_read")'
    BY <1>8 DEF FirstSnapshot, Begin, At
  <2> QED
    BY <2>1 DEF NoticedInv, ConfigNoticed, RegistryNoticed
<1>9. CASE DetectChanges
  BY <1>9, NoticedAfterDetect
<1>10. CASE StartWatching \/ Poll \/ AdminReload \/ GetRegistry
  <2>1. run = Idle /\ UNCHANGED <<disk, config, registry, mtimes, baseline, missed, watcher>>
    BY <1>10 DEF StartWatching, Poll, AdminReload, GetRegistry
  <2>2. ~At("config_read")' /\ ~At("registry_read")'
    BY <1>10 DEF StartWatching, Poll, AdminReload, GetRegistry, At, Begin
  <2> QED
    BY <2>1, <2>2, NoticedKept DEF LoadingConfig, LoadingRegistry, At
<1>11. CASE Shutdown
  BY <1>11 DEF Shutdown, NoticedInv
<1>12. CASE UNCHANGED reloadVars
  <2>1. UNCHANGED <<disk, config, registry, mtimes, baseline, missed, watcher, run>>
    BY <1>12 DEF reloadVars
  <2> QED
    BY <2>1 DEF NoticedInv, ConfigNoticed, RegistryNoticed, ConfigCurrent, RegistryCurrent,
                ConfigOnDisk, RegistryOnDisk, Quiet, Collected, LoadingConfig,
                LoadingRegistry, At, Is, Exists, Stamp
<1> QED
  BY <1>1, <1>2, <1>3, <1>4, <1>5, <1>6, <1>7, <1>8, <1>9, <1>10, <1>11, <1>12
     DEF ReloadNext, RunStep

\* Between two runs, files whose time stamps the watcher knows, and has seen change,
\* are in memory as they are on disk unless they do not load: no edit between a
\* stat and a read, and no failed load, is lost.
THEOREM NoticedIsLoaded == ReloadSpec => []NoticedMeansLoaded
<1>1. ReloadInit => NoticedInv
  BY DEF ReloadInit, NoticedInv
<1>2. NoticedInv => NoticedMeansLoaded
  <2> SUFFICES ASSUME NoticedInv, run = Idle, watcher = "watching" PROVE NoticedMeansLoaded
    BY DEF NoticedMeansLoaded
  <2>1. ConfigNoticed /\ RegistryNoticed /\ ~LoadingConfig /\ ~LoadingRegistry
    BY DEF NoticedInv, LoadingConfig, LoadingRegistry, At
  <2>2. /\ ConfigFile \notin missed /\ ~ChangedSince(mtimes, {ConfigFile}) => Quiet(ConfigFile)
        /\ RegistryFiles \cap missed = {} /\ ~ChangedSince(mtimes, RegistryFiles)
             => \A f \in RegistryFiles : Quiet(f)
    BY DEF ChangedSince, Quiet
  <2> QED
    BY <2>1, <2>2 DEF NoticedMeansLoaded, ConfigNoticed, RegistryNoticed
<1> QED
  BY <1>1, <1>2, TypesInit, UntouchedInit, TypesStep, StagesStep, NoticedStep, PTL
     DEF ReloadSpec
=============================================================================
