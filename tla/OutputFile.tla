----------------------------- MODULE OutputFile -----------------------------
(***************************************************************************)
(* The files of an encode run: runEncoder of internal/queue/worker.go with *)
(* the steps EncodeQueue keeps abstract.  A run copies its source to the   *)
(* temp directory, encodes it there, moves the result to its destination   *)
(* and removes the source where the settings say so.  Runs of several      *)
(* workers go on at once, a request may cancel any of them, writes may     *)
(* fail and the process may die at any step.                               *)
(*                                                                         *)
(* A title is one piece of media, named by the path it has at first.  A    *)
(* file is a complete copy of a title (original or encoded), or torn, or   *)
(* absent.  Which job has which settings is chosen in the initial state.   *)
(***************************************************************************)
EXTENDS Naturals, FiniteSets

CONSTANTS
    Jobs,        \* rows of the jobs table, each run once by some worker
    Dirs, Bases, Exts,
    Titles,      \* the files of the library at first
    SameDir,     \* a job without an output directory
    Absent, Torn,
    MaxCrashes   \* bound: abrupt deaths of the process

Paths == [dir : Dirs, base : Bases, ext : Exts]

ASSUME OutputAssumption ==
    /\ Titles \subseteq Paths
    /\ SameDir \notin Dirs
    /\ Absent \notin Titles
    /\ Torn \notin Titles \cup {Absent}
    /\ MaxCrashes \in Nat

VARIABLES
    settings,     \* the columns of a job that decide where its output goes
    renameFails,  \* renameFails[j]: os.Rename cannot move j's output, most often
                  \* because temp and library are different file systems
    disk,         \* content of each path of the library
    tempIn, tempOut,
    sole,         \* sole[j]: the file at j's destination is the one j has open
                  \* for writing, and nobody else has written into it
    read,         \* what the source j has open contains
    published,    \* the output of j has taken its final place
    cancelled,    \* the context of j's run is cancelled
    pc,
    outcome,
    crashes

vars == <<settings, renameFails, disk, tempIn, tempOut, sole, read, published,
          cancelled, pc, outcome, crashes>>
fixedVars == <<settings, renameFails>>
tempVars == <<tempIn, tempOut>>
fileVars == <<disk, tempVars, sole, read, published>>

Contents == Titles \cup {Absent, Torn}

Settings == [src : Titles, outputDir : Dirs \cup {SameDir}, outExt : Exts,
             deleteSource : BOOLEAN]

Src(j) == settings[j].src
OutputElsewhere(j) == settings[j].outputDir # SameDir

(* finalOutPath: the base name of the source, the extension of the         *)
(* container, in the output directory or beside the source.                *)
Dst(j) == [dir |-> IF OutputElsewhere(j) THEN settings[j].outputDir
                                         ELSE Src(j).dir,
           base |-> Src(j).base,
           ext |-> settings[j].outExt]

Steps == {"queued", "prepare", "probe", "copyIn", "encode", "validate", "move",
          "copyBack", "removeSource", "report", "cleanup", "ended"}

TypeOK ==
    /\ settings \in [Jobs -> Settings]
    /\ renameFails \in [Jobs -> BOOLEAN]
    /\ disk \in [Paths -> Contents]
    /\ tempIn \in [Jobs -> Contents]
    /\ tempOut \in [Jobs -> Contents]
    /\ sole \in [Jobs -> BOOLEAN]
    /\ read \in [Jobs -> Contents]
    /\ published \in [Jobs -> BOOLEAN]
    /\ cancelled \in [Jobs -> BOOLEAN]
    /\ pc \in [Jobs -> Steps]
    /\ outcome \in [Jobs -> {"none", "success", "skipped", "failed"}]
    /\ crashes \in 0 .. MaxCrashes

Start ==
    /\ disk = [p \in Paths |-> IF p \in Titles THEN p ELSE Absent]
    /\ tempIn = [j \in Jobs |-> Absent]
    /\ tempOut = [j \in Jobs |-> Absent]
    /\ sole = [j \in Jobs |-> FALSE]
    /\ read = [j \in Jobs |-> Absent]
    /\ published = [j \in Jobs |-> FALSE]
    /\ cancelled = [j \in Jobs |-> FALSE]
    /\ pc = [j \in Jobs |-> "queued"]
    /\ outcome = [j \in Jobs |-> "none"]
    /\ crashes = 0

Init ==
    /\ settings \in [Jobs -> Settings]
    /\ renameFails \in [Jobs -> BOOLEAN]
    /\ Start

-----------------------------------------------------------------------------
(* Mutant: a verdict the history does not know. *)
LeaveWithError(j, verdict) ==
    /\ pc' = [pc EXCEPT ![j] = "cleanup"]
    /\ outcome' = [outcome EXCEPT ![j] = IF verdict = "failed" THEN "error" ELSE verdict]

(* Every way out of runEncoder passes the deferred cleanupTemps. *)
Leave(j, verdict) ==
    /\ pc' = [pc EXCEPT ![j] = "cleanup"]
    /\ outcome' = [outcome EXCEPT ![j] = verdict]

Goto(j, step) ==
    /\ pc' = [pc EXCEPT ![j] = step]
    /\ UNCHANGED outcome

(* A path gets a new file or loses the one it has: whoever was writing the *)
(* file there writes to one nobody sees any more, or into a mixture.       *)
PutFile(p, content) ==
    /\ disk' = [disk EXCEPT ![p] = content]
    /\ sole' = [k \in Jobs |-> sole[k] /\ Dst(k) # p]

RemoveFile(p) == PutFile(p, Absent)

Publish(j) == published' = [published EXCEPT ![j] = TRUE]

(* The source exists, the temp directory can be made. *)
Begin(j) ==
    /\ pc[j] = "queued"
    /\ \/ disk[Src(j)] # Absent /\ Goto(j, "prepare")
       \/ Leave(j, "failed")
    /\ UNCHANGED <<fixedVars, fileVars, cancelled, crashes>>

(* The duration is probed, then the context is looked at. *)
Prepare(j) ==
    /\ pc[j] = "prepare"
    /\ \/ Leave(j, "failed")
       \/ ~cancelled[j] /\ Goto(j, "probe")
    /\ UNCHANGED <<fixedVars, fileVars, cancelled, crashes>>

(* ffprobe runs for the skip rules, so a skip is reported of a run that a  *)
(* cancel has reached meanwhile.  After the resolution and the disk space  *)
(* copyFile looks at the context, opens the source and makes the temp file. *)
Probe(j) ==
    /\ pc[j] = "probe"
    /\ \/ /\ Leave(j, "skipped") \/ Leave(j, "failed")
          /\ UNCHANGED <<tempIn, read>>
       \/ /\ ~cancelled[j]
          /\ disk[Src(j)] # Absent
          /\ read' = [read EXCEPT ![j] = disk[Src(j)]]
          /\ tempIn' = [tempIn EXCEPT ![j] = Torn]
          /\ Goto(j, "copyIn")
    /\ UNCHANGED <<fixedVars, published, disk, tempOut, sole, cancelled, crashes>>

(* copyFile tests the context before each block and removes what it has    *)
(* written; after a read or write error the partial file stays.            *)
CopyIn(j) ==
    /\ pc[j] = "copyIn"
    /\ \/ /\ cancelled[j]
          /\ tempIn' = [tempIn EXCEPT ![j] = Absent]
          /\ Leave(j, "failed")
       \/ /\ Leave(j, "failed")
          /\ UNCHANGED tempIn
       \/ /\ tempIn' = [tempIn EXCEPT ![j] = read[j]]
          /\ Goto(j, "encode")
    /\ UNCHANGED <<fixedVars, published, disk, tempOut, sole, read, cancelled, crashes>>

(* Mutant: the exit status of ffmpeg is not looked at. *)
EncodeUnchecked(j) ==
    /\ pc[j] = "encode"
    /\ \E content \in {tempIn[j], Torn} : tempOut' = [tempOut EXCEPT ![j] = content]
    /\ Goto(j, "validate")
    /\ UNCHANGED <<fixedVars, published, disk, tempIn, sole, read, cancelled, crashes>>

(* ffmpeg runs to its end, or fails or is killed and leaves a torn file. *)
Encode(j) ==
    /\ pc[j] = "encode"
    /\ \/ /\ ~cancelled[j]
          /\ tempOut' = [tempOut EXCEPT ![j] = tempIn[j]]
          /\ Goto(j, "validate")
       \/ /\ tempOut' = [tempOut EXCEPT ![j] = Torn]
          /\ Leave(j, "failed")
    /\ UNCHANGED <<fixedVars, published, disk, tempIn, sole, read, cancelled, crashes>>

(* ValidateFile and the comparison of the durations.  A torn file gets     *)
(* past them only when the duration of the source was not known.  Then the *)
(* size, the output directory and the space there.                         *)
Validate(j) ==
    /\ pc[j] = "validate"
    /\ \/ /\ tempOut' = [tempOut EXCEPT ![j] = Absent]
          /\ Leave(j, "failed")
       \/ /\ tempOut' = [tempOut EXCEPT ![j] = Absent]
          /\ Leave(j, "skipped")       \* KeepOriginalIfLarger
       \/ Leave(j, "failed") /\ UNCHANGED tempOut
       \/ Goto(j, "move") /\ UNCHANGED tempOut
    /\ UNCHANGED <<fixedVars, published, disk, tempIn, sole, read, cancelled, crashes>>

-----------------------------------------------------------------------------
(* ensureDiskSpace, then os.Rename, which is atomic; when it fails, as it  *)
(* does across file systems, copyFile begins: os.Create truncates the      *)
(* destination, also for those who are reading it or writing to it.        *)
Move(j) ==
    /\ pc[j] = "move"
    /\ \/ /\ Leave(j, "failed")
          /\ UNCHANGED fileVars
       \/ /\ ~renameFails[j]
          /\ PutFile(Dst(j), tempOut[j])
          /\ tempOut' = [tempOut EXCEPT ![j] = Absent]
          /\ Publish(j)
          /\ Goto(j, "removeSource")
          /\ UNCHANGED <<tempIn, read>>
       \/ /\ renameFails[j] /\ ~cancelled[j]
          /\ disk' = [disk EXCEPT ![Dst(j)] = Torn]
          /\ LET writers == {k \in Jobs \ {j} : pc[k] = "copyBack" /\ Dst(k) = Dst(j)}
             IN  sole' = [k \in Jobs |-> IF k = j THEN writers = {}
                                         ELSE sole[k] /\ Dst(k) # Dst(j)]
          /\ \E hit \in SUBSET {k \in Jobs : pc[k] = "copyIn" /\ Src(k) = Dst(j)} :
                read' = [k \in Jobs |-> IF k \in hit THEN Torn ELSE read[k]]
          /\ Goto(j, "copyBack")
          /\ UNCHANGED <<tempVars, published>>
    /\ UNCHANGED <<fixedVars, cancelled, crashes>>

(* Mutant: a write error of the copy is not returned. *)
CopyBackBlind(j) ==
    /\ pc[j] = "copyBack"
    /\ tempOut' = [tempOut EXCEPT ![j] = Absent]
    /\ sole' = [sole EXCEPT ![j] = FALSE]
    /\ Publish(j)
    /\ Goto(j, "removeSource")
    /\ UNCHANGED <<fixedVars, disk, tempIn, read, cancelled, crashes>>

(* The rest of copyFile: seen between two blocks, a cancel removes the     *)
(* destination; a write error leaves it torn.                              *)
CopyBack(j) ==
    /\ pc[j] = "copyBack"
    /\ \/ /\ cancelled[j]
          /\ RemoveFile(Dst(j))
          /\ Leave(j, "failed")
          /\ UNCHANGED <<tempOut, published>>
       \/ /\ sole' = [sole EXCEPT ![j] = FALSE]
          /\ Leave(j, "failed")
          /\ UNCHANGED <<disk, tempOut, published>>
       \/ /\ disk' = [disk EXCEPT ![Dst(j)] = IF sole[j] THEN tempOut[j] ELSE @]
          /\ tempOut' = [tempOut EXCEPT ![j] = Absent]
          /\ sole' = [sole EXCEPT ![j] = FALSE]
          /\ Publish(j)
          /\ Goto(j, "removeSource")
    /\ UNCHANGED <<fixedVars, tempIn, read, cancelled, crashes>>

(* Mutant: the source goes whenever an output directory is set. *)
SourceGoesAlways(j) == OutputElsewhere(j) \/ Dst(j) # Src(j)

SourceGoes(j) ==
    IF OutputElsewhere(j) THEN settings[j].deleteSource ELSE Dst(j) # Src(j)

RemoveSource(j) ==
    /\ pc[j] = "removeSource"
    /\ IF SourceGoes(j) THEN RemoveFile(Src(j)) ELSE UNCHANGED <<disk, sole>>
    /\ Goto(j, "report")
    /\ UNCHANGED <<fixedVars, published, tempVars, read, cancelled, crashes>>

(* AddJobReport may fail; the run is then reported as failed. *)
Report(j) ==
    /\ pc[j] = "report"
    /\ Leave(j, "success") \/ Leave(j, "failed")
    /\ UNCHANGED <<fixedVars, fileVars, cancelled, crashes>>

Cleanup(j) ==
    /\ pc[j] = "cleanup"
    /\ tempIn' = [tempIn EXCEPT ![j] = Absent]
    /\ tempOut' = [tempOut EXCEPT ![j] = Absent]
    /\ Goto(j, "ended")
    /\ UNCHANGED <<fixedVars, published, disk, sole, read, cancelled, crashes>>

-----------------------------------------------------------------------------
(* POST /api/jobs/cancel of a running job, or Manager.Stop. *)
Cancel(j) ==
    /\ pc[j] \notin {"queued", "cleanup", "ended"}
    /\ ~cancelled[j]
    /\ cancelled' = [cancelled EXCEPT ![j] = TRUE]
    /\ UNCHANGED <<fixedVars, fileVars, pc, outcome, crashes>>

(* The process dies: files and reports stay as they are, running jobs      *)
(* become failed at the next start, pending ones are still there.          *)
Crash ==
    /\ crashes < MaxCrashes
    /\ crashes' = crashes + 1
    /\ pc' = [j \in Jobs |-> IF pc[j] = "queued" THEN "queued" ELSE "ended"]
    /\ outcome' = [j \in Jobs |-> IF pc[j] = "queued" \/ outcome[j] \in {"success", "skipped"}
                                    THEN outcome[j] ELSE "failed"]
    /\ sole' = [j \in Jobs |-> FALSE]
    /\ UNCHANGED <<fixedVars, published, disk, tempVars, read, cancelled>>

JobStep(j) ==
    \/ Begin(j) \/ Prepare(j) \/ Probe(j) \/ CopyIn(j) \/ Encode(j) \/ Validate(j)
    \/ Move(j) \/ CopyBack(j) \/ RemoveSource(j) \/ Report(j) \/ Cleanup(j)
    \/ Cancel(j)

Next == (\E j \in Jobs : JobStep(j)) \/ Crash

Spec == Init /\ [][Next]_vars

-----------------------------------------------------------------------------
(* The settings under which the code keeps every title.  One job must not  *)
(* copy over its own source, nor count it as a source to delete after      *)
(* replacing it; two jobs of one source must not meet at one place when    *)
(* one of them has to copy; and no output path may be that of another      *)
(* title.                                                                  *)
KeepsOwnSource(j) ==
    Dst(j) = Src(j) =>
        /\ ~renameFails[j]
        /\ ~(OutputElsewhere(j) /\ settings[j].deleteSource)

Separate(j, k) ==
    IF Src(j) = Src(k)
      THEN renameFails[j] \/ renameFails[k] => Dst(j) # Dst(k)
      ELSE Dst(j) # Dst(k)

SafeLayout ==
    /\ \A j \in Jobs :
        /\ KeepsOwnSource(j)
        /\ Dst(j) \in Titles => Dst(j) = Src(j)
    /\ \A j, k \in Jobs : j # k => Separate(j, k)

SafeInit == Init /\ SafeLayout
SafeSpec == SafeInit /\ [][Next]_vars

(* "Replace in place": no output directory, and the container of the       *)
(* source.                                                                 *)
InPlace == \A j \in Jobs : ~OutputElsewhere(j) /\ Dst(j) = Src(j)

InPlaceInit == Init /\ InPlace
InPlaceSpec == InPlaceInit /\ [][Next]_vars

(* Whatever is cancelled, fails or crashes, and in whatever order two runs *)
(* move their results and remove their sources, under settings that are    *)
(* safe: the path of a title never holds a torn or a foreign file, and     *)
(* when it holds nothing, one of the jobs of the title has left a complete *)
(* copy at its destination.                                                *)
LibraryWhole ==
    \A t \in Titles :
        \/ disk[t] = t
        \/ disk[t] = Absent /\ \E j \in Jobs : Src(j) = t /\ disk[Dst(j)] = t

(* A run that reported success has left a complete file where it said, as  *)
(* long as no other job works on its source.                               *)
SuccessIsThere ==
    \A j \in Jobs :
        (/\ outcome[j] = "success"
         /\ \A k \in Jobs \ {j} : Src(k) # Src(j))
            => disk[Dst(j)] = Src(j)

(* The folder form says that an empty output directory replaces the file   *)
(* in place: a complete copy of the title is always somewhere, if only in  *)
(* the temp directory.                                                     *)
NothingLost ==
    \A t \in Titles :
        \/ \E p \in Paths : disk[p] = t
        \/ \E j \in Jobs : tempIn[j] = t \/ tempOut[j] = t
=============================================================================
