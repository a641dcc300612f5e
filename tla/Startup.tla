------------------------------ MODULE Startup ------------------------------
(***************************************************************************)
(* The start of the desktop miner, up to the first hash: the launcher picks *)
(* a binary (launcher/src/main.rs), the files of every model of the lineup  *)
(* are downloaded, resumed or found complete (src/slm.rs), the tiers are    *)
(* recorded for the GPU workers and GPU inference is probed (src/main.rs).  *)
(*                                                                         *)
(* One process runs at a time.  It may be killed between any two steps and  *)
(* be started again by its supervisor; the files stay.  The gateway may     *)
(* refuse, cut or restart any answer, and may not tell the total length.    *)
(***************************************************************************)
EXTENDS Integers, Sequences, FiniteSets

CONSTANTS
    Lineup,       \* the models to serve, a sequence without repetition
    Parts,        \* the files of each model, in the order they are fetched
    Weights,      \* the files that hold weights; the others are small
    Size,         \* the length of a complete file
    Rigs,         \* the machines considered
    Packages,     \* the sets of binaries considered next to the launcher
    MAX_ATTEMPTS, \* failures after which a download is given up
    MaxOutages,   \* bound: failures of the network or of the gateway
    MaxStarts     \* bound: starts of the process

Models == {Lineup[i] : i \in DOMAIN Lineup}
FilesOf(x) == {Parts[x][i] : i \in DOMAIN Parts[x]}

ASSUME StartupAssumption ==
    /\ Lineup \in Seq(Models)
    /\ \A x \in Models : /\ Parts[x] \in Seq(FilesOf(x))
                          /\ \A i, j \in DOMAIN Parts[x] : Parts[x][i] = Parts[x][j] => i = j
    /\ Size \in Nat \ {0, 1}
    /\ MAX_ATTEMPTS \in Nat \ {0}
    /\ MaxOutages \in Nat
    /\ MaxStarts \in Nat \ {0}
    /\ Packages \subseteq SUBSET {"nvidia", "amd"}
    /\ Rigs \subseteq [nvidia : BOOLEAN, other : BOOLEAN, listed : BOOLEAN, workers : BOOLEAN,
                      linux : BOOLEAN]

Absent == -1

VARIABLES
    rig,       \* the machine: GPUs by vendor, whether they can be listed, whether there are
               \* plugin workers, and whether libraries can be installed (Linux)
    package,   \* the binaries next to the launcher
    bin,       \* the binary that runs
    stage,     \* where the process is, or how it ended
    m, f,      \* index of the model and of the file being fetched
    disk,      \* length of each file of each model, or Absent
    ok,        \* the models whose .ok sentinel exists
    attempt,   \* failures of the current download
    known,     \* whether the answer told the total length
    tiers,     \* the models recorded for the GPU workers
    libs,      \* the CUDA runtime libraries: missing, installed or loadable
    outages,   \* failures of the network so far
    starts     \* starts so far

startupVars == <<rig, package, bin, stage, m, f, disk, ok, attempt, known, tiers, libs, outages, starts>>
machine == <<rig, package>>

\* How the process can end before it mines.
Exits == {"down", "noBinary", "noModels", "noGpu", "noLibs", "noWorkers", "restart"}
Steps == {"ensure", "file", "request", "stream", "sentinel", "record", "probe", "reprobe", "workers"}

StartupTypeOK ==
    /\ rig \in Rigs /\ package \in Packages /\ bin \in {"none", "nvidia", "amd"}
    /\ stage \in Exits \cup Steps \cup {"mining"}
    /\ m \in 1..(Len(Lineup) + 1)
    /\ f \in Nat \ {0}
    /\ DOMAIN disk = Models
    /\ \A x \in Models : disk[x] \in [FilesOf(x) -> Absent..Size]
    /\ ok \subseteq Models /\ tiers \subseteq Models
    /\ attempt \in 0..MAX_ATTEMPTS /\ known \in BOOLEAN
    /\ libs \in {"missing", "installed", "loadable"}
    /\ outages \in 0..MaxOutages /\ starts \in 0..MaxStarts

Model == Lineup[m]
File == Parts[Model][f]
Have == disk[Model][File]
Put(n) == disk' = [disk EXCEPT ![Model][File] = n]

\* A machine on which nothing has been downloaded, or where the user has put
\* complete weight files himself; the libraries may be missing.
StartupInit ==
    /\ rig \in Rigs /\ package \in Packages /\ bin = "none"
    /\ stage = "down" /\ m = 1 /\ f = 1
    /\ \E staged \in BOOLEAN :
          disk = [x \in Models |-> [p \in FilesOf(x) |->
                       IF staged /\ p \in Weights THEN Size ELSE Absent]]
    /\ ok = {} /\ attempt = 0 /\ known = FALSE /\ tiers = {}
    /\ libs \in {"missing", "loadable"}
    /\ outages = 0 /\ starts = 0

-----------------------------------------------------------------------------
(* The launcher.                                                           *)

nvidia_driver_present == rig.nvidia

\* <<an NVIDIA GPU, another GPU>>; without a list, only the driver is looked for.
count_gpus_by_vendor == IF rig.listed /\ (rig.nvidia \/ rig.other)
                        THEN <<rig.nvidia, rig.other>>
                        ELSE <<nvidia_driver_present, FALSE>>

Preferred == LET gpus == count_gpus_by_vendor
             IN  IF gpus[1] /\ ~gpus[2] THEN "nvidia" ELSE "amd"

Launch ==
    /\ stage \in Exits /\ starts < MaxStarts
    /\ starts' = starts + 1
    /\ IF package = {}
       THEN stage' = "noBinary" /\ UNCHANGED bin
       ELSE /\ bin' = IF Preferred \in package THEN Preferred ELSE CHOOSE b \in package : TRUE
            /\ stage' = "ensure"
    /\ m' = 1 /\ f' = 1 /\ tiers' = {}
    \* A new process has a fresh loader cache.
    /\ libs' = IF libs = "installed" THEN "loadable" ELSE libs
    /\ UNCHANGED <<machine, disk, ok, attempt, known, outages>>

-----------------------------------------------------------------------------
(* prefetch_models: every model in turn, every file in turn.               *)

frame == <<machine, bin, tiers, libs, starts>>

\* Faulty variant: the sentinel is not looked at.
CompleteNoFlag(x) == \A p \in DOMAIN disk[x] : disk[x][p] # Absent

Complete(x) == x \in ok /\ \A p \in DOMAIN disk[x] : disk[x][p] # Absent

prefetch_models ==
    /\ stage = "ensure"
    /\ m > Len(Lineup)
    /\ stage' = "record"
    /\ UNCHANGED <<frame, m, f, disk, ok, attempt, known, outages>>

\* The files are there and so is the sentinel.
Found ==
    /\ stage = "ensure" /\ m <= Len(Lineup)
    /\ Complete(Model)
    /\ m' = m + 1
    /\ UNCHANGED <<frame, stage, f, disk, ok, attempt, known, outages>>

\* Otherwise the sentinel goes, and the files are fetched.
Clear ==
    /\ stage = "ensure" /\ m <= Len(Lineup)
    /\ ~Complete(Model)
    /\ ok' = ok \ {Model}
    /\ stage' = "file" /\ f' = 1
    /\ UNCHANGED <<frame, m, disk, attempt, known, outages>>

\* A small file is fetched only if it does not exist, weights always.
NextFile ==
    /\ stage = "file"
    /\ IF f > Len(Parts[Model])
       THEN stage' = "sentinel" /\ UNCHANGED <<f, attempt>>
       ELSE IF File \notin Weights /\ Have # Absent
            THEN f' = f + 1 /\ UNCHANGED <<stage, attempt>>
            ELSE stage' = "request" /\ attempt' = 0 /\ UNCHANGED f
    /\ UNCHANGED <<frame, m, disk, ok, known, outages>>

WriteSentinel ==
    /\ stage = "sentinel"
    /\ ok' = ok \cup {Model}
    /\ m' = m + 1 /\ stage' = "ensure"
    /\ UNCHANGED <<frame, f, disk, attempt, known, outages>>

\* Creating the directory, a file or the sentinel fails.
DiskFails ==
    /\ stage \in {"file", "request", "sentinel"} /\ outages < MaxOutages
    /\ outages' = outages + 1
    /\ stage' = "noModels"
    /\ UNCHANGED <<frame, m, f, disk, ok, attempt, known>>

-----------------------------------------------------------------------------
(* download_file: one file, resumed where it was left.                     *)

\* Faulty variant: an attempt is not counted, the download goes on for ever.
RetryForever == stage' = "request" /\ UNCHANGED attempt

Retry ==
    /\ attempt' = attempt + 1
    /\ stage' = IF attempt + 1 >= MAX_ATTEMPTS THEN "noModels" ELSE "request"

RequestFails ==
    /\ stage = "request" /\ outages < MaxOutages
    /\ outages' = outages + 1
    /\ Retry
    /\ UNCHANGED <<frame, m, f, disk, ok, known>>

\* A range that starts at the end of the file is answered 416.  The HTTP
\* library returns every status from 400 on as an error, so the branch that
\* would take the file for complete is never reached: one more failure.
RangeRefused ==
    /\ stage = "request" /\ Have = Size
    /\ Retry
    /\ UNCHANGED <<frame, m, f, disk, ok, known, outages>>

\* 206: what is missing follows; the total is told, or left out ("*").
Resume(t) ==
    /\ stage = "request" /\ Have \in 1..(Size - 1)
    /\ ~t => outages < MaxOutages
    /\ outages' = outages + (IF t THEN 0 ELSE 1)
    /\ known' = t /\ stage' = "stream"
    /\ UNCHANGED <<frame, m, f, disk, ok, attempt>>

\* 200: the whole file follows and what was there is dropped.  To a request
\* with a range this is a gateway that ignores it.
Restart(t) ==
    /\ stage = "request"
    /\ Have > 0 \/ ~t => outages < MaxOutages
    /\ outages' = outages + (IF Have > 0 \/ ~t THEN 1 ELSE 0)
    /\ Put(0)
    /\ known' = t /\ stage' = "stream"
    /\ UNCHANGED <<frame, m, f, ok, attempt>>

Read ==
    /\ stage = "stream" /\ Have < Size
    /\ Put(Have + 1)
    /\ UNCHANGED <<frame, stage, m, f, ok, attempt, known, outages>>

\* Faulty variant: an answer of unknown length is complete when it ends.
ReachedUnknown == ~known \/ Have >= Size

\* A clean end of the stream completes the file if the total is known and reached.
Reached == known /\ Have >= Size

\* The stream ends early, with an error of the network or of the disk or
\* without one; a stream that has given everything just ends.
StreamEnds(clean) ==
    /\ stage = "stream"
    /\ Have < Size \/ ~clean => outages < MaxOutages
    /\ outages' = outages + (IF Have < Size \/ ~clean THEN 1 ELSE 0)
    /\ IF clean /\ Reached
       THEN stage' = "file" /\ f' = f + 1 /\ UNCHANGED attempt
       ELSE Retry /\ UNCHANGED f
    /\ UNCHANGED <<frame, m, disk, ok, known>>

-----------------------------------------------------------------------------
(* The end of the start-up in main.                                        *)

files == <<m, f, disk, ok, attempt, known, outages>>

set_mining_tier ==
    /\ stage = "record"
    /\ tiers' = Models
    /\ stage' = "probe"
    /\ UNCHANGED <<machine, bin, files, libs, starts>>

\* The desktop device is a CUDA one whatever the binary was built for; the
\* "amd" binary is built without CUDA support, so opening the device fails.
probe_gpu_inference ==
    IF bin # "nvidia" \/ ~rig.nvidia THEN "NoCuda"
    ELSE IF libs = "loadable" THEN "Ok"
    ELSE "CublasMissing"

\* Through the package manager, which may be missing or fail.
install_cuda_libs ==
    \/ libs' = "installed" /\ stage' = "reprobe"
    \/ stage' = "noLibs" /\ UNCHANGED libs

Probe ==
    /\ stage = "probe"
    /\ \/ probe_gpu_inference = "Ok" /\ stage' = "workers" /\ UNCHANGED libs
       \/ probe_gpu_inference = "NoCuda" /\ stage' = "noGpu" /\ UNCHANGED libs
       \/ probe_gpu_inference = "CublasMissing" /\ ~rig.linux /\ stage' = "noLibs" /\ UNCHANGED libs
       \/ probe_gpu_inference = "CublasMissing" /\ rig.linux /\ install_cuda_libs
    /\ UNCHANGED <<machine, bin, files, tiers, starts>>

\* After the installation the loader may find the libraries or still hold its
\* old cache; in that case the process leaves, to be started again.
Reprobe ==
    /\ stage = "reprobe"
    /\ \/ libs' = "loadable" /\ stage' = "workers"
       \/ stage' = "restart" /\ UNCHANGED libs
    /\ UNCHANGED <<machine, bin, files, tiers, starts>>

CheckWorkers ==
    /\ stage = "workers"
    /\ stage' = IF rig.workers THEN "mining" ELSE "noWorkers"
    /\ UNCHANGED <<machine, bin, files, tiers, libs, starts>>

Crash ==
    /\ stage \in Steps \cup {"mining"}
    /\ stage' = "down"
    /\ UNCHANGED <<machine, bin, files, tiers, libs, starts>>

-----------------------------------------------------------------------------
Prefetch == \/ prefetch_models \/ Found \/ Clear \/ NextFile \/ WriteSentinel \/ DiskFails
Download == \/ RequestFails \/ RangeRefused \/ Read
            \/ \E t \in BOOLEAN : Resume(t) \/ Restart(t) \/ StreamEnds(t)
Finish == set_mining_tier \/ Probe \/ Reprobe \/ CheckWorkers

Process == Prefetch \/ Download \/ Finish

StartupNext == Launch \/ Process \/ Crash

\* A running process goes on; a supervisor need not start it again.
StartupSpec == StartupInit /\ [][StartupNext]_startupVars /\ WF_startupVars(Process)

-----------------------------------------------------------------------------
(* Properties.                                                             *)

\* The weights of a model announced to the node and to the workers are
\* complete, whatever the gateway cut and wherever the process was killed.
ReadyIsWhole == \A x \in ok : \A p \in Weights \cap DOMAIN disk[x] : disk[x][p] = Size

\* The process hashes only with every model of its lineup complete on disk
\* and recorded, and with an inference device that has been seen to work.
MiningIsBacked ==
    stage = "mining" => /\ Models \subseteq ok
                     /\ \A x \in Models : \A p \in Weights \cap DOMAIN disk[x] : disk[x][p] = Size
                     /\ tiers = Models
                     /\ rig.nvidia /\ libs = "loadable"

\* A start ends: with mining, or with the process gone and a reason given.
StartupEnds == (stage \in Steps) ~> (stage \in Exits \cup {"mining"})

(* What the documentation says and the code does not give: TLC refutes what follows, at the
   constants the README names. *)

\* A launcher that finds an AMD or Intel GPU starts a binary that mines on it
\* (Cargo.toml and launcher/src/main.rs say so): it does not end for want of
\* a CUDA device.
AmdRigMines == ~(stage = "noGpu" /\ bin = "amd" /\ rig.other)

\* A complete file is left alone (the comment of download_file says so): a
\* start that meets no failure of the network does not give the models up.
StagedIsUsed == stage = "noModels" => outages > 0
=============================================================================
