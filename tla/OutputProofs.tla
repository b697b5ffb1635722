---------------------------- MODULE OutputProofs ----------------------------
(***************************************************************************)
(* Theorems about OutputFile for any number of jobs, titles, directories,  *)
(* containers and crashes, and any settings that are safe.                 *)
(***************************************************************************)
EXTENDS OutputLifecycle, TLAPS

USE DEF fixedVars, tempVars, fileVars

-----------------------------------------------------------------------------
(* Types.  The flags are functions into BOOLEAN, which only Zenon reads.   *)
FlagTypes ==
    /\ sole \in [Jobs -> BOOLEAN]
    /\ published \in [Jobs -> BOOLEAN]
    /\ cancelled \in [Jobs -> BOOLEAN]
    /\ renameFails \in [Jobs -> BOOLEAN]

DataTypes ==
    /\ settings \in [Jobs -> Settings]
    /\ disk \in [Paths -> Contents]
    /\ tempIn \in [Jobs -> Contents]
    /\ tempOut \in [Jobs -> Contents]
    /\ read \in [Jobs -> Contents]
    /\ pc \in [Jobs -> Steps]
    /\ outcome \in [Jobs -> {"none", "success", "skipped", "failed"}]
    /\ crashes \in 0 .. MaxCrashes

(* A function into BOOLEAN stays one when a flag is set. *)
LEMMA FlagSet ==
    ASSUME NEW S, NEW g \in [S -> BOOLEAN], NEW s \in S, NEW b \in BOOLEAN
    PROVE  [g EXCEPT ![s] = b] \in [S -> BOOLEAN]
  OBVIOUS

(* Sources are titles, destinations are paths. *)
LEMMA PathTypes ==
    ASSUME DataTypes, NEW j \in Jobs
    PROVE  Src(j) \in Titles /\ Src(j) \in Paths /\ Dst(j) \in Paths
  BY OutputAssumption DEF DataTypes, Settings, Src, Dst, OutputElsewhere, Paths

(* The updates of sole. *)
LEMMA SoleKept ==
    ASSUME FlagTypes, NEW p, NEW j \in Jobs, NEW b \in BOOLEAN
    PROVE  /\ [k \in Jobs |-> sole[k] /\ Dst(k) # p] \in [Jobs -> BOOLEAN]
           /\ [k \in Jobs |-> IF k = j THEN b ELSE sole[k] /\ Dst(k) # p]
                \in [Jobs -> BOOLEAN]
           /\ [k \in Jobs |-> FALSE] \in [Jobs -> BOOLEAN]
  <1>1. \A k \in Jobs : (sole[k] /\ Dst(k) # p) \in BOOLEAN
    BY Zenon
  <1>2. \A k \in Jobs : (IF k = j THEN b ELSE sole[k] /\ Dst(k) # p) \in BOOLEAN
    BY <1>1, Zenon
  <1>3. QED BY <1>1, <1>2, Zenon

(* Each step keeps the types, the flags and the rest. *)
LEMMA FlagTypesStep ==
    ASSUME FlagTypes, [Next]_vars
    PROVE  FlagTypes'
  <1>1. sole' \in [Jobs -> BOOLEAN]
    <2>1. ASSUME NEW j \in Jobs, NEW p, NEW content, PutFile(p, content)
          PROVE  sole' \in [Jobs -> BOOLEAN]
      BY <2>1, SoleKept, TRUE \in BOOLEAN, Zenon DEF PutFile
    <2>2. ASSUME NEW j \in Jobs, Move(j) PROVE sole' \in [Jobs -> BOOLEAN]
      <3>1. CASE \E w : sole' = [k \in Jobs |-> IF k = j THEN w = {}
                                               ELSE sole[k] /\ Dst(k) # Dst(j)]
        <4>1. PICK w : sole' = [k \in Jobs |-> IF k = j THEN w = {}
                                               ELSE sole[k] /\ Dst(k) # Dst(j)]
          BY <3>1
        <4>2. (w = {}) \in BOOLEAN
          BY Zenon
        <4>3. QED BY <4>1, <4>2, SoleKept, Zenon
      <3>2. QED BY <2>1, <2>2, <3>1, Zenon DEF Move, FlagTypes
    <2>3. ASSUME NEW j \in Jobs, CopyBack(j) PROVE sole' \in [Jobs -> BOOLEAN]
      BY <2>1, <2>3, FlagSet, FALSE \in BOOLEAN, Zenon DEF CopyBack, RemoveFile, FlagTypes
    <2>4. ASSUME NEW j \in Jobs, RemoveSource(j) PROVE sole' \in [Jobs -> BOOLEAN]
      BY <2>1, <2>4, Zenon DEF RemoveSource, RemoveFile, FlagTypes
    <2>5. CASE Crash
      BY <2>5, FALSE \in BOOLEAN, Zenon DEF Crash
    <2>6. CASE UNCHANGED sole
      BY <2>6, Zenon DEF FlagTypes
    <2>7. QED BY <2>2, <2>3, <2>4, <2>5, <2>6, ZenonT(30) DEF Next, JobStep, vars, Begin,
      Prepare, Probe, CopyIn, Encode, Validate, Report, Cleanup, Cancel
  <1>2. cancelled' \in [Jobs -> BOOLEAN]
    <2>1. ASSUME NEW j \in Jobs, Cancel(j) PROVE cancelled' \in [Jobs -> BOOLEAN]
      BY <2>1, FlagSet, TRUE \in BOOLEAN, Zenon DEF Cancel, FlagTypes
    <2>2. CASE UNCHANGED cancelled
      BY <2>2, Zenon DEF FlagTypes
    <2>3. QED BY <2>1, <2>2, ZenonT(30) DEF Next, JobStep, vars, Begin, Prepare, Probe, CopyIn,
      Encode, Validate, Move, CopyBack, RemoveSource, Report, Cleanup, Crash
  <1>3. published' \in [Jobs -> BOOLEAN]
    <2>1. ASSUME NEW j \in Jobs, Publish(j) PROVE published' \in [Jobs -> BOOLEAN]
      BY <2>1, FlagSet, TRUE \in BOOLEAN, Zenon DEF Publish, FlagTypes
    <2>2. CASE UNCHANGED published
      BY <2>2, Zenon DEF FlagTypes
    <2>3. QED BY <2>1, <2>2, ZenonT(30) DEF Next, JobStep, vars, Begin, Prepare, Probe, CopyIn,
      Encode, Validate, Move, CopyBack, RemoveSource, Report, Cleanup, Cancel, Crash
  <1>4. renameFails' \in [Jobs -> BOOLEAN]
    <2>1. UNCHANGED renameFails
      BY ZenonT(30) DEF Next, JobStep, vars, Begin, Prepare, Probe, CopyIn, Encode,
        Validate, Move, CopyBack, RemoveSource, Report, Cleanup, Cancel, Crash
    <2>2. QED BY <2>1, Zenon DEF FlagTypes
  <1>5. QED BY <1>1, <1>2, <1>3, <1>4 DEF FlagTypes

LEMMA DataTypesStep ==
    ASSUME DataTypes, [Next]_vars
    PROVE  DataTypes'
  <1> USE OutputAssumption, PathTypes DEF DataTypes, Contents, Steps
  <1>1. ASSUME NEW j \in Jobs, Begin(j) PROVE DataTypes'
    BY <1>1 DEF Begin, Goto, Leave
  <1>2. ASSUME NEW j \in Jobs, Prepare(j) \/ Probe(j) PROVE DataTypes'
    BY <1>2 DEF Prepare, Probe, Goto, Leave
  <1>3. ASSUME NEW j \in Jobs, CopyIn(j) PROVE DataTypes'
    BY <1>3 DEF CopyIn, Goto, Leave
  <1>4. ASSUME NEW j \in Jobs, Encode(j) PROVE DataTypes'
    BY <1>4 DEF Encode, Goto, Leave
  <1>5. ASSUME NEW j \in Jobs, Validate(j) PROVE DataTypes'
    BY <1>5 DEF Validate, Goto, Leave
  <1>6. ASSUME NEW j \in Jobs, Move(j) PROVE DataTypes'
    BY <1>6 DEF Move, PutFile, Goto, Leave
  <1>7. ASSUME NEW j \in Jobs, CopyBack(j) PROVE DataTypes'
    BY <1>7 DEF CopyBack, RemoveFile, PutFile, Goto, Leave
  <1>8. ASSUME NEW j \in Jobs, RemoveSource(j) PROVE DataTypes'
    BY <1>8 DEF RemoveSource, RemoveFile, PutFile, Goto
  <1>9. ASSUME NEW j \in Jobs, Report(j) PROVE DataTypes'
    BY <1>9 DEF Report, Leave
  <1>10. ASSUME NEW j \in Jobs, Cleanup(j) PROVE DataTypes'
    BY <1>10 DEF Cleanup, Goto
  <1>11. ASSUME NEW j \in Jobs, Cancel(j) PROVE DataTypes'
    BY <1>11 DEF Cancel
  <1>12. CASE Crash
    BY <1>12 DEF Crash
  <1>13. CASE UNCHANGED vars
    BY <1>13 DEF vars
  <1> HIDE DEF DataTypes
  <1>14. QED BY <1>1, <1>2, <1>3, <1>4, <1>5, <1>6, <1>7, <1>8, <1>9, <1>10, <1>11,
    <1>12, <1>13, Zenon DEF Next, JobStep

LEMMA InitTypes ==
    ASSUME Init
    PROVE  DataTypes /\ FlagTypes
  <1>1. DataTypes
    BY OutputAssumption DEF Init, Start, DataTypes, Contents, Steps
  <1>2. FlagTypes
    BY FALSE \in BOOLEAN, Zenon DEF Init, Start, FlagTypes
  <1>3. QED BY <1>1, <1>2

(* Every variable keeps its type, whatever the settings: a job is at one   *)
(* step of runEncoder and every path holds a title, a torn file or none.   *)
THEOREM OutputTyped == Spec => []TypeOK
  <1>1. Init => DataTypes /\ FlagTypes
    BY InitTypes
  <1>2. DataTypes /\ FlagTypes /\ [Next]_vars => (DataTypes /\ FlagTypes)'
    BY DataTypesStep, FlagTypesStep
  <1>3. DataTypes /\ FlagTypes => TypeOK
    BY DEF DataTypes, FlagTypes, TypeOK
  <1>4. QED BY <1>1, <1>2, <1>3, PTL DEF Spec

-----------------------------------------------------------------------------
(* What safe settings mean for the paths.  Two jobs with one destination   *)
(* work on one source and need no copy; a destination that is a title is   *)
(* the job's own; a source that goes is not the destination.               *)
LEMMA Layout ==
    ASSUME SafeLayout, NEW j \in Jobs
    PROVE  /\ \A k \in Jobs : k # j /\ Dst(k) = Dst(j)
                => Src(k) = Src(j) /\ ~renameFails[j] /\ ~renameFails[k]
           /\ Dst(j) \in Titles => Dst(j) = Src(j) /\ ~renameFails[j]
           /\ SourceGoes(j) => Dst(j) # Src(j)
  <1>1. KeepsOwnSource(j) /\ (Dst(j) \in Titles => Dst(j) = Src(j))
    BY DEF SafeLayout
  <1>2. ASSUME NEW k \in Jobs, k # j, Dst(k) = Dst(j)
        PROVE  Src(k) = Src(j) /\ ~renameFails[j] /\ ~renameFails[k]
    BY <1>2 DEF SafeLayout, Separate
  <1>3. Dst(j) \in Titles => Dst(j) = Src(j) /\ ~renameFails[j]
    BY <1>1 DEF KeepsOwnSource
  <1>4. SourceGoes(j) => Dst(j) # Src(j)
    BY <1>1 DEF SourceGoes, KeepsOwnSource
  <1>5. QED BY <1>2, <1>3, <1>4

(* The settings never change, nor what is computed from them. *)
LEMMA Fixed ==
    ASSUME [Next]_vars
    PROVE  /\ settings' = settings /\ renameFails' = renameFails
           /\ SafeLayout' <=> SafeLayout
           /\ \A j \in Jobs : Src(j)' = Src(j) /\ Dst(j)' = Dst(j)
  <1>1. settings' = settings /\ renameFails' = renameFails
    BY Zenon DEF Next, JobStep, vars, Begin, Prepare, Probe, CopyIn, Encode, Validate, Move,
      CopyBack, RemoveSource, Report, Cleanup, Cancel, Crash
  <1>2. \A j \in Jobs : Src(j)' = Src(j) /\ Dst(j)' = Dst(j)
    BY <1>1, Zenon DEF Src, Dst, OutputElsewhere
  <1>3. SafeLayout' <=> SafeLayout
    BY <1>1 DEF SafeLayout, KeepsOwnSource, Separate, OutputElsewhere, Src, Dst
  <1>4. QED BY <1>1, <1>2, <1>3

(* Everything on the way to a destination is a complete copy. *)
Cargo ==
    \A j \in Jobs :
        /\ pc[j] = "copyIn" => read[j] = Src(j)
        /\ pc[j] = "encode" => tempIn[j] = Src(j)
        /\ pc[j] \in {"validate", "move", "copyBack"} => tempOut[j] = Src(j)

(* A copy goes to a file of its own. *)
Writers == \A j \in Jobs : pc[j] = "copyBack" => renameFails[j] /\ sole[j]

(* The file at the path of a title is whole or gone. *)
Sources == \A t \in Titles : disk[t] \in {t, Absent}

(* Before the source is removed, the copy that replaces it is in place. *)
Arrived ==
    \A j \in Jobs : pc[j] = "removeSource" /\ Dst(j) # Src(j) => disk[Dst(j)] = Src(j)

Moved(j) ==
    /\ pc[j] \in {"removeSource", "report", "cleanup", "ended"}
    /\ Dst(j) # Src(j) /\ disk[Dst(j)] = Src(j)

Kept == \A t \in Titles : disk[t] = t \/ (\E j \in Jobs : Src(j) = t /\ Moved(j))

(* A job alone with its source finds its output where it has put it. *)
Alone(j) == \A k \in Jobs \ {j} : Src(k) # Src(j)

Delivered ==
    \A j \in Jobs :
        /\ pc[j] \in {"removeSource", "report"} \/ outcome[j] = "success"
             => (Alone(j) => disk[Dst(j)] = Src(j))
        /\ outcome[j] = "success" => pc[j] \in {"cleanup", "ended"}

FileInv == Cargo /\ Writers /\ Sources /\ Arrived /\ Kept /\ Delivered

(* At first every title is at its path and nothing is under way. *)
LEMMA InitFiles ==
    ASSUME SafeInit
    PROVE  FileInv
  <1> USE DEF SafeInit, Init, Start
  <1>1. Cargo /\ Writers /\ Arrived
    BY DEF Cargo, Writers, Arrived
  <1>2. Sources /\ Kept
    BY OutputAssumption DEF Sources, Kept
  <1>3. Delivered
    BY DEF Delivered
  <1>4. QED BY <1>1, <1>2, <1>3 DEF FileInv

(* What one step of a job does to the library: it leaves it alone, moves   *)
(* the whole output in, begins, gives up or ends a copy that nobody else   *)
(* writes, or removes the source the output of which has arrived.          *)
Effect(j) ==
    \/ disk' = disk
    \/ /\ pc[j] = "move" /\ ~renameFails[j]
       /\ disk' = [disk EXCEPT ![Dst(j)] = Src(j)]
    \/ /\ pc[j] \in {"move", "copyBack"} /\ renameFails[j]
       /\ \E content \in {Torn, Absent, Src(j)} : disk' = [disk EXCEPT ![Dst(j)] = content]
    \/ /\ pc[j] = "removeSource" /\ SourceGoes(j)
       /\ disk' = [disk EXCEPT ![Src(j)] = Absent]

(* Every step has one of these effects. *)
LEMMA StepEffect ==
    ASSUME FileInv, NEW j \in Jobs, JobStep(j)
    PROVE  Effect(j)
  <1> USE DEF Effect
  <1>1. CASE Move(j)
    BY <1>1 DEF Move, PutFile, FileInv, Cargo
  <1>2. CASE CopyBack(j)
    BY <1>2 DEF CopyBack, RemoveFile, PutFile, FileInv, Cargo, Writers
  <1>3. CASE RemoveSource(j)
    BY <1>3 DEF RemoveSource, RemoveFile, PutFile
  <1>4. CASE UNCHANGED disk
    BY <1>4
  <1>5. QED BY <1>1, <1>2, <1>3, <1>4, Zenon DEF JobStep, Begin, Prepare, Probe, CopyIn, Encode,
    Validate, Report, Cleanup, Cancel

(* The other jobs stay where they are. *)
LEMMA StepMoves ==
    ASSUME DataTypes, NEW j \in Jobs, JobStep(j)
    PROVE  /\ \A k \in Jobs \ {j} : pc'[k] = pc[k] /\ outcome'[k] = outcome[k]
           /\ pc'[j] = "copyIn" => pc[j] \in {"probe", "copyIn"}
           /\ pc[j] \in {"report", "cleanup", "ended"}
                => pc'[j] \in {"report", "cleanup", "ended"} /\ disk' = disk
           /\ pc[j] = "removeSource" => pc'[j] \in {"removeSource", "report"}
           /\ pc'[j] = "removeSource" /\ pc[j] # "removeSource"
                => \/ pc[j] = "move" /\ ~renameFails[j] /\ disk' = [disk EXCEPT ![Dst(j)] = tempOut[j]]
                   \/ pc[j] = "copyBack"
                        /\ disk' = [disk EXCEPT ![Dst(j)] = IF sole[j] THEN tempOut[j] ELSE @]
           /\ pc'[j] = "report" => pc[j] \in {"removeSource", "report"}
           /\ outcome'[j] = "success" /\ outcome[j] # "success"
                => pc[j] = "report" /\ pc'[j] = "cleanup" /\ disk' = disk
           /\ outcome[j] = "success" /\ pc[j] \in {"cleanup", "ended"}
                => pc'[j] \in {"cleanup", "ended"}
  <1> USE DEF DataTypes, Leave, Goto
  <1>1. CASE Begin(j)
    BY <1>1 DEF Begin
  <1>2. CASE Prepare(j) \/ Probe(j)
    BY <1>2 DEF Prepare, Probe
  <1>3. CASE CopyIn(j)
    BY <1>3 DEF CopyIn
  <1>4. CASE Encode(j)
    BY <1>4 DEF Encode
  <1>5. CASE Validate(j)
    BY <1>5 DEF Validate
  <1>6. CASE Move(j)
    BY <1>6 DEF Move, PutFile
  <1>7. CASE CopyBack(j)
    BY <1>7 DEF CopyBack
  <1>8. CASE RemoveSource(j)
    BY <1>8 DEF RemoveSource
  <1>9. CASE Report(j)
    BY <1>9 DEF Report
  <1>10. CASE Cleanup(j)
    BY <1>10 DEF Cleanup
  <1>11. CASE Cancel(j)
    BY <1>11 DEF Cancel
  <1>12. QED BY <1>1, <1>2, <1>3, <1>4, <1>5, <1>6, <1>7, <1>8, <1>9, <1>10, <1>11
    DEF JobStep

(* What follows is about a step of one job, seen by itself and by others.  *)
Stepping(j) ==
    /\ SafeLayout /\ DataTypes /\ FlagTypes /\ FileInv
    /\ JobStep(j) /\ [Next]_vars

(* The source a job reads is whole when it opens it and is not truncated   *)
(* under it.                                                               *)
LEMMA CargoStep ==
    ASSUME NEW j \in Jobs, Stepping(j)
    PROVE  Cargo'
  <1> USE DEF Stepping, Leave, Goto
  <1>1. \A k \in Jobs : Src(k)' = Src(k) /\ Src(k) \in Titles
    BY Fixed, PathTypes
  <1> DEFINE Held(k) == /\ pc[k] = "copyIn" => read[k] = Src(k)
                        /\ pc[k] = "encode" => tempIn[k] = Src(k)
                        /\ pc[k] \in {"validate", "move", "copyBack"} => tempOut[k] = Src(k)
  <1>2. \A k \in Jobs : Held(k)
    BY DEF FileInv, Cargo
  <1>3. ASSUME UNCHANGED read,
               tempIn' = tempIn \/ (\E c : tempIn' = [tempIn EXCEPT ![j] = c]),
               tempOut' = tempOut \/ (\E c : tempOut' = [tempOut EXCEPT ![j] = c]),
               Held(j)'
        PROVE  Cargo'
    <2>1. \A k \in Jobs \ {j} : pc'[k] = pc[k]
      BY StepMoves
    <2>2. \A k \in Jobs \ {j} : Held(k)'
      BY <1>1, <1>2, <1>3, <2>1 DEF DataTypes
    <2>3. QED BY <1>3, <2>2 DEF Cargo
  <1>4. CASE Begin(j)
    BY <1>1, <1>2, <1>3, <1>4 DEF Begin, DataTypes
  <1>4a. CASE Prepare(j)
    BY <1>1, <1>2, <1>3, <1>4a DEF Prepare, DataTypes
  <1>5. CASE Probe(j)
    <2>1. CASE UNCHANGED <<tempIn, read>> /\ \E verdict : Leave(j, verdict)
      BY <1>1, <1>3, <1>5, <2>1 DEF Probe, DataTypes
    <2>2. CASE /\ disk[Src(j)] # Absent
               /\ read' = [read EXCEPT ![j] = disk[Src(j)]]
               /\ Goto(j, "copyIn")
      <3>1. read'[j] = Src(j) /\ pc'[j] = "copyIn"
        BY <1>1, <2>2 DEF FileInv, Sources, DataTypes
      <3>2. \A k \in Jobs \ {j} : pc'[k] = pc[k] /\ read'[k] = read[k]
        BY <2>2 DEF DataTypes
      <3>3. \A k \in Jobs \ {j} : tempIn'[k] = tempIn[k] /\ tempOut'[k] = tempOut[k]
        BY <1>5 DEF Probe, DataTypes
      <3>4. QED BY <1>1, <1>2, <3>1, <3>2, <3>3 DEF Cargo
    <2>3. QED BY <1>5, <2>1, <2>2 DEF Probe
  <1>6. CASE CopyIn(j)
    BY <1>1, <1>2, <1>3, <1>6 DEF CopyIn, DataTypes
  <1>7. CASE Encode(j)
    BY <1>1, <1>2, <1>3, <1>7 DEF Encode, DataTypes
  <1>8. CASE Validate(j)
    BY <1>1, <1>2, <1>3, <1>8 DEF Validate, DataTypes
  <1>9. CASE Move(j)
    <2>1. read' = read
      <3>1. CASE /\ renameFails[j]
                 /\ \E hit \in SUBSET {k \in Jobs : pc[k] = "copyIn" /\ Src(k) = Dst(j)} :
                      read' = [k \in Jobs |-> IF k \in hit THEN Torn ELSE read[k]]
        <4>1. \A k \in Jobs : Src(k) # Dst(j)
          BY <1>1, <3>1, Layout
        <4>2. read' = [k \in Jobs |-> read[k]]
          BY <3>1, <4>1
        <4>3. QED BY <4>2 DEF DataTypes
      <3>2. QED BY <1>9, <3>1 DEF Move
    <2>2. QED BY <1>1, <1>2, <1>3, <1>9, <2>1 DEF Move, PutFile, DataTypes
  <1>10. CASE CopyBack(j)
    BY <1>1, <1>3, <1>10 DEF CopyBack, DataTypes
  <1>11. CASE RemoveSource(j)
    BY <1>1, <1>3, <1>11 DEF RemoveSource, DataTypes
  <1>12. CASE Report(j)
    BY <1>1, <1>3, <1>12 DEF Report, DataTypes
  <1>13. CASE Cleanup(j)
    BY <1>1, <1>3, <1>13 DEF Cleanup, DataTypes
  <1>14. CASE Cancel(j)
    BY <1>1, <1>2, <1>3, <1>14 DEF Cancel
  <1>15. QED BY <1>4, <1>5, <1>4a, <1>6, <1>7, <1>8, <1>9, <1>10, <1>11, <1>12, <1>13, <1>14
    DEF JobStep

(* Nobody else opens, replaces or removes the file a copy writes. *)
LEMMA WritersStep ==
    ASSUME NEW j \in Jobs, Stepping(j)
    PROVE  Writers'
  <1> USE DEF Stepping, Leave, Goto
  <1>1. renameFails' = renameFails /\ (\A k \in Jobs : Src(k) \in Titles)
    BY Fixed, PathTypes
  <1>2. \A k \in Jobs \ {j} : pc'[k] = pc[k]
    BY StepMoves
  <1>3. \A k \in Jobs : pc[k] = "copyBack" => renameFails[k] /\ sole[k]
    BY DEF FileInv, Writers
  <1>4. ASSUME NEW k \in Jobs \ {j}, renameFails[j] \/ renameFails[k]
        PROVE  Dst(k) # Dst(j)
    BY <1>4, Layout
  <1>4a. ASSUME NEW k \in Jobs, renameFails[k]
         PROVE  Dst(k) # Src(j)
    BY <1>1, <1>4a, Layout
  <1>5. CASE Move(j)
    <2>1. CASE UNCHANGED sole /\ pc' = [pc EXCEPT ![j] = "cleanup"]
      BY <1>1, <1>2, <1>3, <2>1 DEF Writers, DataTypes
    <2>2. CASE PutFile(Dst(j), tempOut[j]) /\ pc' = [pc EXCEPT ![j] = "removeSource"]
      BY <1>1, <1>2, <1>3, <1>4, <2>2 DEF Writers, DataTypes, PutFile
    <2>3. CASE /\ renameFails[j]
               /\ LET writers == {k \in Jobs \ {j} : pc[k] = "copyBack" /\ Dst(k) = Dst(j)}
                  IN  sole' = [k \in Jobs |-> IF k = j THEN writers = {}
                                              ELSE sole[k] /\ Dst(k) # Dst(j)]
      <3>1. {k \in Jobs \ {j} : pc[k] = "copyBack" /\ Dst(k) = Dst(j)} = {}
        BY <1>4, <2>3
      <3>2. sole'[j]
        BY <2>3, <3>1
      <3>3. \A k \in Jobs \ {j} : pc'[k] = "copyBack" => sole'[k]
        BY <1>2, <1>3, <1>4, <2>3
      <3>4. QED BY <1>1, <1>2, <1>3, <2>3, <3>2, <3>3 DEF Writers
    <2>4. QED BY <1>5, <2>1, <2>2, <2>3 DEF Move
  <1>6. CASE CopyBack(j)
    <2>1. pc'[j] # "copyBack"
      BY <1>6 DEF CopyBack, DataTypes
    <2>2. \A k \in Jobs \ {j} : pc[k] = "copyBack" => sole'[k]
      BY <1>3, <1>4, <1>6 DEF CopyBack, RemoveFile, PutFile, FlagTypes
    <2>3. QED BY <1>1, <1>2, <1>3, <2>1, <2>2 DEF Writers
  <1>7. CASE RemoveSource(j)
    <2>1. pc'[j] # "copyBack"
      BY <1>7 DEF RemoveSource, DataTypes
    <2>2. \A k \in Jobs \ {j} : pc[k] = "copyBack" => sole'[k]
      BY <1>3, <1>4a, <1>7 DEF RemoveSource, RemoveFile, PutFile
    <2>3. QED BY <1>1, <1>2, <1>3, <2>1, <2>2 DEF Writers
  <1>8. CASE UNCHANGED sole /\ (pc'[j] = pc[j] \/ pc'[j] # "copyBack")
    BY <1>1, <1>2, <1>3, <1>8 DEF Writers
  <1>9. QED BY <1>5, <1>6, <1>7, <1>8 DEF JobStep, Begin, Prepare, Probe, CopyIn, Encode,
    Validate, Report, Cleanup, Cancel, DataTypes

(* Only its own job writes to the path of a title, with a whole file. *)
LEMMA SourcesStep ==
    ASSUME NEW j \in Jobs, Stepping(j)
    PROVE  Sources'
  <1>1. Effect(j)
    BY StepEffect DEF Stepping
  <1>2. Src(j) \in Titles /\ Src(j) \in Paths /\ Dst(j) \in Paths
    BY PathTypes DEF Stepping
  <1>3. Dst(j) \in Titles => Dst(j) = Src(j) /\ ~renameFails[j]
    BY Layout DEF Stepping
  <1>4. QED BY <1>1, <1>2, <1>3, OutputAssumption DEF Stepping, FileInv, Sources, Effect,
    DataTypes

(* Until its job goes on nobody takes an output away that has arrived. *)
LEMMA ArrivedStep ==
    ASSUME NEW j \in Jobs, Stepping(j)
    PROVE  Arrived'
  <1> USE DEF Stepping
  <1>1. SUFFICES ASSUME NEW k \in Jobs, pc'[k] = "removeSource", Dst(k) # Src(k)
                 PROVE  disk'[Dst(k)] = Src(k)
    BY Fixed DEF Arrived
  <1>2. \A i \in Jobs : Src(i) \in Titles /\ Dst(i) \in Paths
    BY PathTypes
  <1>3. Effect(j)
    BY StepEffect
  <1>4. CASE k # j
    <2>1. pc[k] = "removeSource" /\ disk[Dst(k)] = Src(k)
      BY <1>1, <1>4, StepMoves DEF FileInv, Arrived
    <2>2. Dst(k) = Dst(j) => Src(k) = Src(j) /\ ~renameFails[j]
      BY <1>4, Layout
    <2>3. Dst(k) # Src(j)
      BY <1>1, <1>2, Layout
    <2>4. QED BY <1>2, <1>3, <2>1, <2>2, <2>3 DEF Effect, DataTypes
  <1>5. CASE k = j /\ pc[j] = "removeSource"
    <2>1. disk[Dst(j)] = Src(j)
      BY <1>1, <1>5 DEF FileInv, Arrived
    <2>2. QED BY <1>1, <1>2, <1>3, <1>5, <2>1 DEF Effect, DataTypes
  <1>6. CASE k = j /\ pc[j] # "removeSource"
    BY <1>1, <1>2, <1>6, StepMoves DEF DataTypes, FileInv, Cargo, Writers
  <1>7. QED BY <1>4, <1>5, <1>6

(* A title that leaves its path has a job that moved it; nobody undoes     *)
(* that.                                                                   *)
LEMMA KeptStep ==
    ASSUME NEW j \in Jobs, Stepping(j)
    PROVE  Kept'
  <1> USE DEF Stepping
  <1>1. SUFFICES ASSUME NEW t \in Titles
                 PROVE  \/ disk'[t] = t
                        \/ \E k \in Jobs : Src(k) = t /\ Moved(k)'
    BY Fixed DEF Kept
  <1>2. \A i \in Jobs : Src(i)' = Src(i) /\ Dst(i)' = Dst(i)
    BY Fixed
  <1>3. \A i \in Jobs : Src(i) \in Titles /\ Src(i) \in Paths /\ Dst(i) \in Paths
    BY PathTypes
  <1>4. Effect(j)
    BY StepEffect
  <1>5. ASSUME NEW k \in Jobs, Src(k) = t, Moved(k)
        PROVE  Moved(k)'
    <2>1. pc'[k] \in {"removeSource", "report", "cleanup", "ended"}
      BY <1>5, StepMoves DEF Moved
    <2>2. pc[j] \in {"move", "copyBack"} => k # j
      BY <1>5 DEF Moved
    <2>3. k # j /\ Dst(k) = Dst(j) => Src(k) = Src(j) /\ ~renameFails[j]
      BY Layout
    <2>4. Dst(k) # Src(j)
      BY <1>3, <1>5, Layout DEF Moved
    <2>5. disk'[Dst(k)] = Src(k)
      BY <1>3, <1>4, <1>5, <2>2, <2>3, <2>4 DEF Effect, Moved, DataTypes
    <2>6. QED BY <1>2, <1>5, <2>1, <2>5 DEF Moved
  <1>6. ASSUME disk[t] = t
        PROVE  disk'[t] = t \/ (t = Src(j) /\ Moved(j)')
    <2>1. Dst(j) = t => Src(j) = t /\ ~renameFails[j]
      BY <1>1, Layout
    <2>2. CASE pc[j] = "removeSource" /\ SourceGoes(j) /\ disk' = [disk EXCEPT ![Src(j)] = Absent]
      <3>1. Dst(j) # Src(j)
        BY <2>2, Layout
      <3>2. disk[Dst(j)] = Src(j)
        BY <2>2, <3>1 DEF FileInv, Arrived
      <3>3. pc'[j] \in {"removeSource", "report"}
        BY <2>2, StepMoves
      <3>4. disk'[Dst(j)] = Src(j)
        BY <1>3, <2>2, <3>1, <3>2 DEF DataTypes
      <3>5. t # Src(j) => disk'[t] = t
        BY <1>6, <2>2, OutputAssumption DEF DataTypes
      <3>6. QED BY <1>2, <3>1, <3>3, <3>4, <3>5 DEF Moved
    <2>3. CASE disk' = disk
      BY <1>6, <2>3
    <2>4. CASE ~renameFails[j] /\ disk' = [disk EXCEPT ![Dst(j)] = Src(j)]
      BY <1>3, <1>6, <2>1, <2>4, OutputAssumption DEF DataTypes
    <2>5. CASE renameFails[j] /\ \E content : disk' = [disk EXCEPT ![Dst(j)] = content]
      BY <1>6, <2>1, <2>5, OutputAssumption DEF DataTypes
    <2>6. QED BY <1>4, <2>2, <2>3, <2>4, <2>5 DEF Effect
  <1>7. QED BY <1>5, <1>6 DEF FileInv, Kept

(* What a job alone with its source has delivered stays. *)
LEMMA DeliveredStep ==
    ASSUME NEW j \in Jobs, Stepping(j)
    PROVE  Delivered'
  <1> USE DEF Stepping
  <1>1. \A k \in Jobs : Src(k)' = Src(k) /\ Dst(k)' = Dst(k) /\ Alone(k)' = Alone(k)
    BY Fixed DEF Alone
  <1>2. \A i \in Jobs : Src(i) \in Titles /\ Dst(i) \in Paths
    BY PathTypes
  <1>3. Effect(j)
    BY StepEffect
  <1>4. \A k \in Jobs : outcome'[k] = "success" => pc'[k] \in {"cleanup", "ended"}
    BY StepMoves DEF FileInv, Delivered
  <1>5. ASSUME NEW k \in Jobs, Alone(k),
               pc'[k] \in {"removeSource", "report"} \/ outcome'[k] = "success"
        PROVE  disk'[Dst(k)] = Src(k)
    <2>1. CASE k # j
      <3>1. disk[Dst(k)] = Src(k)
        BY <1>5, <2>1, StepMoves DEF FileInv, Delivered
      <3>2. Dst(k) # Dst(j)
        BY <1>5, <2>1, Layout DEF Alone
      <3>3. Dst(k) # Src(j)
        BY <1>2, <1>5, <2>1, Layout DEF Alone
      <3>4. QED BY <1>2, <1>3, <3>1, <3>2, <3>3 DEF Effect, DataTypes
    <2>2. CASE k = j /\ (pc[j] \in {"removeSource", "report"} \/ outcome[j] = "success")
      <3>1. disk[Dst(j)] = Src(j) /\ pc[j] \notin {"move", "copyBack"}
        BY <1>5, <2>2 DEF FileInv, Delivered
      <3>2. SourceGoes(j) => Dst(j) # Src(j)
        BY Layout
      <3>3. QED BY <1>2, <1>3, <2>2, <3>1, <3>2 DEF Effect, DataTypes
    <2>3. CASE k = j /\ ~(pc[j] \in {"removeSource", "report"} \/ outcome[j] = "success")
      <3>1. pc'[j] = "removeSource"
        BY <1>5, <2>3, StepMoves
      <3>2. QED BY <1>2, <2>3, <3>1, StepMoves DEF DataTypes, FileInv, Cargo, Writers
    <2>4. QED BY <2>1, <2>2, <2>3
  <1>6. QED BY <1>1, <1>4, <1>5 DEF Delivered

(* Death freezes the files and drops whoever was at work. *)
LEMMA CrashKeeps ==
    ASSUME SafeLayout, DataTypes, FileInv, Crash, [Next]_vars
    PROVE  FileInv'
  <1> USE DEF Crash
  <1>1. \A k \in Jobs : Src(k)' = Src(k) /\ Dst(k)' = Dst(k) /\ Alone(k)' = Alone(k)
    BY Fixed DEF Alone
  <1>2. disk' = disk /\ \A k \in Jobs : pc'[k] \in {"queued", "ended"}
    BY DEF DataTypes
  <1>3. Cargo' /\ Writers' /\ Arrived'
    BY <1>2 DEF Cargo, Writers, Arrived
  <1>4. Sources'
    BY <1>2 DEF FileInv, Sources
  <1>5. Kept'
    BY <1>1, <1>2 DEF FileInv, Kept, Moved
  <1>6. Delivered'
    BY <1>1, <1>2 DEF FileInv, Delivered, DataTypes
  <1>7. QED BY <1>3, <1>4, <1>5, <1>6 DEF FileInv

(* All parts of the invariant, for every step. *)
LEMMA FilesStep ==
    ASSUME SafeLayout, DataTypes, FlagTypes, FileInv, [Next]_vars
    PROVE  FileInv'
  <1>1. ASSUME NEW j \in Jobs, JobStep(j) PROVE FileInv'
    <2>1. Stepping(j)
      BY <1>1 DEF Stepping
    <2>2. QED BY <2>1, CargoStep, WritersStep, SourcesStep, ArrivedStep, KeptStep,
      DeliveredStep DEF FileInv
  <1>2. CASE Crash
    BY <1>2, CrashKeeps
  <1>3. CASE UNCHANGED vars
    BY <1>3 DEF vars, FileInv, Cargo, Writers, Sources, Arrived, Kept, Moved, Delivered,
      Alone, Src, Dst, OutputElsewhere
  <1>4. QED BY <1>1, <1>2, <1>3 DEF Next

OutputInv == SafeLayout /\ DataTypes /\ FlagTypes /\ FileInv

(* The invariant of every behaviour under safe settings. *)
LEMMA OutputInvAlways == SafeSpec => []OutputInv
  <1>1. SafeInit => OutputInv
    BY InitTypes, InitFiles DEF SafeInit, OutputInv
  <1>2. OutputInv /\ [Next]_vars => OutputInv'
    BY Fixed, DataTypesStep, FlagTypesStep, FilesStep DEF OutputInv
  <1>3. QED BY <1>1, <1>2, PTL DEF SafeSpec

(* Under safe settings every title is whole at its own path or, when that  *)
(* is empty, at the destination of one of its jobs: at every instant,      *)
(* whatever is cancelled, fails or dies, and however many runs move their  *)
(* results and remove their sources at once.                               *)
THEOREM TitlesKept == SafeSpec => []LibraryWhole
  <1>1. OutputInv => LibraryWhole
    BY DEF OutputInv, FileInv, Sources, Kept, Moved, LibraryWhole
  <1>2. QED BY <1>1, OutputInvAlways, PTL

(* A success in the history has its output where the settings put it, as   *)
(* long as no other job works on the same source.                          *)
THEOREM OutputDelivered == SafeSpec => []SuccessIsThere
  <1>1. OutputInv => SuccessIsThere
    BY DEF OutputInv, FileInv, Delivered, Alone, SuccessIsThere
  <1>2. QED BY <1>1, OutputInvAlways, PTL
-----------------------------------------------------------------------------
(* Replacing in place by renames that succeed is a safe layout, however    *)
(* many jobs a file has.                                                   *)
LEMMA InPlaceIsSafe == InPlaceInit /\ (\A j \in Jobs : ~renameFails[j]) => SafeInit
  BY DEF InPlaceInit, InPlace, SafeInit, SafeLayout, KeepsOwnSource, Separate, OutputElsewhere

(* The other side of the finding about copying back: where no rename       *)
(* fails, as it does across file systems, replacing in place never leaves  *)
(* a path without its complete title, also for those who look in between,  *)
(* for any number of jobs and deaths.                                      *)
THEOREM InPlaceKeeps ==
    InPlaceSpec /\ (\A j \in Jobs : ~renameFails[j]) => [](\A t \in Titles : disk[t] = t)
  <1> DEFINE Whole == \A t \in Titles : disk[t] = t
             PlaceInv == OutputInv /\ InPlace
  <1>1. InPlaceInit /\ (\A j \in Jobs : ~renameFails[j]) => PlaceInv
    BY InPlaceIsSafe, InitTypes, InitFiles DEF SafeInit, OutputInv, InPlaceInit
  <1>2. PlaceInv /\ [Next]_vars => PlaceInv'
    <2> SUFFICES ASSUME PlaceInv, [Next]_vars PROVE PlaceInv'
      OBVIOUS
    <2>1. OutputInv'
      BY Fixed, DataTypesStep, FlagTypesStep, FilesStep DEF OutputInv
    <2>2. InPlace'
      BY Fixed DEF InPlace, OutputElsewhere
    <2>3. QED BY <2>1, <2>2
  <1>3. PlaceInv => Whole
    BY DEF OutputInv, FileInv, Kept, Moved, InPlace
  <1>4. QED
    <2>1. InPlaceSpec /\ (\A j \in Jobs : ~renameFails[j]) => []PlaceInv
      BY <1>1, <1>2, PTL DEF InPlaceSpec
    <2>2. QED BY <1>3, <2>1, PTL

-----------------------------------------------------------------------------
(* OutputFile implements JobLifecycle, under any settings. *)

(* When a job has published, that it is told of once, and only once begun  *)
(* cancelled.                                                              *)
PublishedOK(j) ==
    /\ pc[j] \in {"removeSource", "report"} => published[j]
    /\ published[j] => pc[j] \in {"removeSource", "report", "cleanup", "ended"}
    /\ pc[j] \notin {"cleanup", "ended"} => outcome[j] = "none"
    /\ pc[j] = "queued" => ~cancelled[j]

PublishInv == \A j \in Jobs : PublishedOK(j)

(* A step of one job leaves the others alone. *)
LEMMA OthersUntouched ==
    ASSUME DataTypes, FlagTypes, NEW j \in Jobs, JobStep(j), NEW k \in Jobs \ {j}
    PROVE  /\ pc'[k] = pc[k] /\ outcome'[k] = outcome[k]
           /\ published'[k] <=> published[k]
           /\ cancelled'[k] <=> cancelled[k]
  <1>1. pc'[k] = pc[k] /\ outcome'[k] = outcome[k]
    BY StepMoves
  <1>2. ASSUME NEW g \in [Jobs -> BOOLEAN], NEW h, h = [g EXCEPT ![j] = TRUE]
        PROVE  h[k] <=> g[k]
    BY <1>2
  <1>3. published'[k] <=> published[k]
    <2>1. published' = published \/ Publish(j)
      BY Zenon DEF JobStep, Begin, Prepare, Probe, CopyIn, Encode, Validate, Move, CopyBack,
        RemoveSource, Report, Cleanup, Cancel
    <2>2. QED BY <1>2, <2>1, Zenon DEF FlagTypes, Publish
  <1>4. cancelled'[k] <=> cancelled[k]
    <2>1. cancelled' = cancelled \/ cancelled' = [cancelled EXCEPT ![j] = TRUE]
      BY Zenon DEF JobStep, Begin, Prepare, Probe, CopyIn, Encode, Validate, Move, CopyBack,
        RemoveSource, Report, Cleanup, Cancel
    <2>2. QED BY <1>2, <2>1, Zenon DEF FlagTypes
  <1>5. QED BY <1>1, <1>3, <1>4
(* What a step makes of its own job: its label, its flags and its outcome. *)
OwnEffect(j) ==
    \/ /\ pc[j] = "queued" /\ pc'[j] \in {"prepare", "cleanup"}
       /\ outcome'[j] \in {"none", "failed"}
       /\ (pc'[j] = "prepare" => outcome'[j] = "none")
       /\ UNCHANGED <<published, cancelled>>
    \/ /\ pc[j] \in {"prepare", "probe", "copyIn", "encode"}
       /\ \/ pc'[j] = "cleanup" /\ outcome'[j] \in {"failed", "skipped"}
          \/ pc'[j] \in {"probe", "copyIn", "encode"} /\ outcome'[j] = outcome[j]
          \/ ~cancelled[j] /\ pc'[j] = "validate" /\ outcome'[j] = outcome[j]
       /\ UNCHANGED <<published, cancelled>>
    \/ /\ pc[j] \in {"validate", "move", "copyBack"}
       /\ \/ pc'[j] = "cleanup" /\ outcome'[j] \in {"failed", "skipped"}
          \/ pc'[j] \in {"move", "copyBack"} /\ outcome'[j] = outcome[j]
       /\ UNCHANGED <<published, cancelled>>
    \/ /\ pc[j] \in {"move", "copyBack"} /\ pc'[j] = "removeSource"
       /\ outcome'[j] = outcome[j]
       /\ Publish(j) /\ UNCHANGED cancelled
    \/ /\ pc[j] = "removeSource" /\ pc'[j] = "report"
       /\ outcome'[j] = outcome[j]
       /\ UNCHANGED <<published, cancelled>>
    \/ /\ pc[j] = "report" /\ pc'[j] = "cleanup"
       /\ outcome'[j] \in {"success", "failed"}
       /\ UNCHANGED <<published, cancelled>>
    \/ /\ pc[j] = "cleanup" /\ pc'[j] = "ended"
       /\ outcome'[j] = outcome[j]
       /\ UNCHANGED <<published, cancelled>>
    \/ /\ pc[j] \notin {"queued", "cleanup", "ended"} /\ ~cancelled[j]
       /\ cancelled' = [cancelled EXCEPT ![j] = TRUE]
       /\ UNCHANGED <<pc, outcome, published>>

(* Every action has one of these effects on its job. *)
LEMMA OwnStep ==
    ASSUME DataTypes, PublishInv, NEW j \in Jobs, JobStep(j)
    PROVE  OwnEffect(j)
  <1> USE DEF DataTypes, Leave, Goto
  <1>0. pc[j] = "queued" => outcome[j] = "none"
    BY DEF PublishInv, PublishedOK
  <1>1. CASE Begin(j)
    BY <1>0, <1>1 DEF Begin, OwnEffect
  <1>2. CASE Prepare(j) \/ Probe(j)
    BY <1>2 DEF Prepare, Probe, OwnEffect
  <1>3. CASE CopyIn(j)
    BY <1>3 DEF CopyIn, OwnEffect
  <1>4. CASE Encode(j)
    BY <1>4 DEF Encode, OwnEffect
  <1>5. CASE Validate(j)
    BY <1>5 DEF Validate, OwnEffect
  <1>6. CASE Move(j)
    <2>1. CASE published' = published
      BY <1>6, <2>1 DEF Move, OwnEffect, Publish
    <2>2. CASE Publish(j)
      BY <1>6, <2>2 DEF Move, OwnEffect
    <2>3. QED BY <1>6, <2>1, <2>2 DEF Move
  <1>7. CASE CopyBack(j)
    BY <1>7 DEF CopyBack, OwnEffect
  <1>8. CASE RemoveSource(j)
    BY <1>8 DEF RemoveSource, OwnEffect
  <1>9. CASE Report(j)
    BY <1>9 DEF Report, OwnEffect
  <1>10. CASE Cleanup(j)
    BY <1>10 DEF Cleanup, OwnEffect
  <1>11. CASE Cancel(j)
    BY <1>11 DEF Cancel, OwnEffect
  <1>12. QED BY <1>1, <1>2, <1>3, <1>4, <1>5, <1>6, <1>7, <1>8, <1>9, <1>10, <1>11
    DEF JobStep

(* The output is published just before the source goes, and once. *)
LEMMA PublishInvStep ==
    ASSUME DataTypes, FlagTypes, PublishInv, [Next]_vars
    PROVE  PublishInv'
  <1>1. ASSUME NEW j \in Jobs, JobStep(j), NEW k \in Jobs
        PROVE  PublishedOK(k)'
    <2>1. PublishedOK(k)
      BY DEF PublishInv
    <2>2. CASE k # j
      BY <1>1, <2>1, <2>2, OthersUntouched DEF PublishedOK
    <2>3. CASE k = j
      <3>1. OwnEffect(j)
        BY <1>1, OwnStep
      <3>2. Publish(j) => published'[j]
        BY DEF Publish, FlagTypes
      <3>3. QED BY <2>1, <2>3, <3>1, <3>2 DEF OwnEffect, PublishedOK
    <2>4. QED BY <2>2, <2>3
  <1>2. CASE Crash
    BY <1>2 DEF Crash, PublishInv, PublishedOK, DataTypes
  <1>3. CASE UNCHANGED vars
    BY <1>3 DEF vars, PublishInv, PublishedOK
  <1>4. QED BY <1>1, <1>2, <1>3 DEF Next, PublishInv

(* What the lifecycle sees of a step. *)
LifeStep == [Life!Next]_(Life!vars)

(* The cancel that comes to a run, and what it dooms. *)
LEMMA CancelledThen ==
    ASSUME FlagTypes, NEW j \in Jobs, cancelled' = [cancelled EXCEPT ![j] = TRUE]
    PROVE  cancelled'[j]
  BY DEF FlagTypes

LEMMA JobImplements ==
    ASSUME DataTypes, FlagTypes, PublishInv, NEW j \in Jobs, JobStep(j)
    PROVE  LifeStep
  <1> USE DEF LifeStep
  <1>1. \A k \in Jobs \ {j} : StateOf(k)' = StateOf(k) /\ VerdictsOf(k)' = VerdictsOf(k)
    BY OthersUntouched DEF StateOf, Doomed, VerdictsOf
  <1>2. OwnEffect(j) /\ PublishedOK(j)
    BY OwnStep DEF PublishInv
  <1>3. states[j] = StateOf(j) /\ verdicts[j] = VerdictsOf(j)
    BY DEF states, verdicts
  <1>4. ASSUME NEW s, StateOf(j)' = s PROVE states' = [states EXCEPT ![j] = s]
    BY <1>1, <1>4 DEF states
  <1>5. ASSUME NEW told, VerdictsOf(j)' = told PROVE verdicts' = [verdicts EXCEPT ![j] = told]
    BY <1>1, <1>5 DEF verdicts
  <1>6. ASSUME StateOf(j)' = StateOf(j) PROVE states' = states
    BY <1>1, <1>6 DEF states
  <1>7. ASSUME VerdictsOf(j)' = VerdictsOf(j) PROVE verdicts' = verdicts
    BY <1>1, <1>7 DEF verdicts
  (* Nothing is seen. *)
  <1>8. CASE StateOf(j)' = StateOf(j) /\ VerdictsOf(j)' = VerdictsOf(j) /\ published' = published
    BY <1>6, <1>7, <1>8 DEF Life!vars
  (* Taken. *)
  <1>9. CASE /\ StateOf(j) = "waiting" /\ StateOf(j)' = "running"
             /\ VerdictsOf(j)' = VerdictsOf(j) /\ published' = published
    BY <1>3, <1>4, <1>7, <1>9 DEF Life!Next, Life!Take
  (* Replaced. *)
  <1>10. CASE /\ StateOf(j) = "running" /\ StateOf(j)' = StateOf(j) /\ ~published[j]
              /\ VerdictsOf(j)' = VerdictsOf(j) /\ Publish(j)
    BY <1>3, <1>6, <1>7, <1>10 DEF Life!Next, Life!Replace, Publish
  (* Doomed. *)
  <1>11. CASE /\ StateOf(j) = "running" /\ StateOf(j)' = "doomed" /\ ~published[j]
              /\ VerdictsOf(j)' = VerdictsOf(j) /\ published' = published
    BY <1>3, <1>4, <1>7, <1>11 DEF Life!Next, Life!Doom
  (* Told. *)
  <1>12. CASE /\ StateOf(j) = "running" /\ StateOf(j)' = StateOf(j) /\ published[j]
              /\ VerdictsOf(j) = {} /\ VerdictsOf(j)' = {"success"}
              /\ published' = published
    <2>1. verdicts' = [verdicts EXCEPT ![j] = @ \cup {"success"}] /\ states' = states
      BY <1>3, <1>5, <1>6, <1>12
    <2>2. QED BY <1>3, <1>12, <2>1 DEF Life!Next, Life!Record
  <1>12a. CASE /\ StateOf(j) \in {"running", "doomed"} /\ StateOf(j)' = "doomed" /\ ~published[j]
              /\ VerdictsOf(j) = {} /\ VerdictsOf(j)' = {"skipped"}
              /\ published' = published
    <2>1. /\ verdicts' = [verdicts EXCEPT ![j] = @ \cup {"skipped"}]
          /\ states' = [states EXCEPT ![j] = "doomed"]
      BY <1>3, <1>4, <1>5, <1>12a
    <2>2. QED BY <1>3, <1>12a, <2>1 DEF Life!Next, Life!Skip
  (* Over. *)
  <1>13. CASE /\ StateOf(j) \in {"running", "doomed"} /\ StateOf(j)' = "over"
              /\ VerdictsOf(j)' = VerdictsOf(j) /\ published' = published
    <2>1. states' = [k \in Jobs |-> IF k \in {j} THEN "over" ELSE states[k]]
      BY <1>1, <1>13 DEF states
    <2>2. {j} \in SUBSET Life!Present
      BY <1>3, <1>13 DEF Life!Present
    <2>3. QED BY <1>7, <1>13, <2>1, <2>2 DEF Life!Next, Life!Retire
  <1> HIDE DEF LifeStep
  <1>14. cancelled' = [cancelled EXCEPT ![j] = TRUE] => cancelled'[j]
    BY CancelledThen
  <1>15. QED
    <2>1. CASE pc[j] = "queued"
      BY <1>2, <1>9, <2>1 DEF OwnEffect, StateOf, Doomed, VerdictsOf, PublishedOK
    <2>2. CASE pc[j] \in {"prepare", "probe", "copyIn", "encode"}
      <3>1. CASE pc'[j] = "cleanup" /\ outcome'[j] = "skipped"
        BY <1>2, <1>12a, <2>2, <3>1 DEF OwnEffect, StateOf, Doomed, VerdictsOf, PublishedOK
      <3>2. CASE cancelled' = [cancelled EXCEPT ![j] = TRUE]
        BY <1>2, <1>8, <1>11, <1>14, <2>2, <3>2 DEF OwnEffect, StateOf, Doomed, VerdictsOf, PublishedOK
      <3>3. CASE pc'[j] = "cleanup" /\ outcome'[j] = "failed" /\ UNCHANGED <<published, cancelled>>
        BY <1>2, <1>8, <2>2, <3>3 DEF StateOf, Doomed, VerdictsOf, PublishedOK
      <3>4. CASE /\ pc'[j] \in {"probe", "copyIn", "encode"} \/ (~cancelled[j] /\ pc'[j] = "validate")
                 /\ outcome'[j] = outcome[j] /\ UNCHANGED <<published, cancelled>>
        BY <1>2, <1>8, <2>2, <3>4 DEF StateOf, Doomed, VerdictsOf, PublishedOK
      <3>5. QED BY <1>2, <2>2, <3>1, <3>2, <3>3, <3>4 DEF OwnEffect
    <2>3. CASE pc[j] \in {"validate", "move", "copyBack"}
      <3>1. CASE pc'[j] = "cleanup" /\ outcome'[j] = "skipped"
        BY <1>2, <1>12a, <2>3, <3>1 DEF OwnEffect, StateOf, Doomed, VerdictsOf, PublishedOK
      <3>2. CASE pc'[j] = "cleanup" /\ outcome'[j] = "failed"
        BY <1>2, <1>8, <1>11, <2>3, <3>2 DEF OwnEffect, StateOf, Doomed, VerdictsOf, PublishedOK
      <3>3. CASE pc'[j] = "removeSource"
        BY <1>2, <1>10, <2>3, <3>3 DEF OwnEffect, StateOf, Doomed, VerdictsOf, PublishedOK
      <3>4. CASE pc' = pc /\ UNCHANGED <<outcome, published>>
        BY <1>2, <1>8, <2>3, <3>4 DEF StateOf, Doomed, VerdictsOf, PublishedOK
      <3>5. CASE /\ pc'[j] \in {"move", "copyBack"} /\ outcome'[j] = outcome[j]
                 /\ UNCHANGED <<published, cancelled>>
        BY <1>2, <1>8, <2>3, <3>5 DEF StateOf, Doomed, VerdictsOf, PublishedOK
      <3>6. QED BY <1>2, <2>3, <3>1, <3>2, <3>3, <3>4, <3>5 DEF OwnEffect
    <2>4. CASE pc[j] = "removeSource"
      BY <1>2, <1>8, <2>4 DEF OwnEffect, StateOf, Doomed, VerdictsOf, PublishedOK
    <2>5. CASE pc[j] = "report"
      <3>1. CASE pc'[j] = "cleanup" /\ outcome'[j] = "success"
        BY <1>2, <1>12, <2>5, <3>1 DEF OwnEffect, StateOf, Doomed, VerdictsOf, PublishedOK
      <3>2. QED BY <1>2, <1>8, <2>5, <3>1 DEF OwnEffect, StateOf, Doomed, VerdictsOf, PublishedOK
    <2>6. CASE pc[j] = "cleanup"
      BY <1>2, <1>13, <2>6 DEF OwnEffect, StateOf, Doomed, VerdictsOf, PublishedOK
    <2>7. pc[j] # "ended"
      BY <1>2 DEF OwnEffect
    <2>8. QED BY <2>1, <2>2, <2>3, <2>4, <2>5, <2>6, <2>7 DEF DataTypes, Steps

(* Death retires whoever was at work and tells nothing. *)
LEMMA CrashImplements ==
    ASSUME DataTypes, PublishInv, Crash
    PROVE  LifeStep
  <1> DEFINE S == {j \in Jobs : pc[j] \notin {"queued", "ended"}}
  <1>1. \A j \in Jobs : StateOf(j)' = IF j \in S THEN "over" ELSE StateOf(j)
    BY DEF Crash, StateOf, DataTypes
  <1>2. \A j \in Jobs : VerdictsOf(j)' = VerdictsOf(j)
    BY DEF Crash, VerdictsOf, PublishInv, PublishedOK, DataTypes
  <1>3. states' = [j \in Jobs |-> IF j \in S THEN "over" ELSE states[j]]
    BY <1>1 DEF states
  <1>4. verdicts' = verdicts
    BY <1>2 DEF verdicts
  <1>5. S \in SUBSET Life!Present
    BY DEF states, StateOf, Life!Present
  <1>6. QED BY <1>3, <1>4, <1>5 DEF Crash, LifeStep, Life!Next, Life!Retire

(* Under any settings, with any number of jobs, cancels and deaths, the    *)
(* steps of OutputFile are steps of JobLifecycle, as those of EncodeQueue  *)
(* are: a cancel that reaches a run before its encoder has ended well      *)
(* keeps the library from being touched, and a success is told only of a   *)
(* job whose output has taken its place.                                   *)
THEOREM OutputRefinement == Spec => ImplementsLifecycle
  <1> DEFINE LifeInv == DataTypes /\ FlagTypes /\ PublishInv
  <1>1. Init => LifeInv
    <2>1. Init => PublishInv
      BY DEF Init, Start, PublishInv, PublishedOK
    <2>2. QED BY <2>1, InitTypes
  <1>2. LifeInv /\ [Next]_vars => LifeInv'
    BY DataTypesStep, FlagTypesStep, PublishInvStep
  <1>3. LifeInv /\ [Next]_vars => [Life!Next]_(Life!vars)
    <2>1. CASE UNCHANGED vars
      BY <2>1 DEF vars, Life!vars, states, verdicts, StateOf, Doomed, VerdictsOf
    <2>2. QED BY <2>1, JobImplements, CrashImplements DEF Next, LifeStep
  <1> HIDE DEF LifeInv
  <1>4. QED BY <1>1, <1>2, <1>3, PTL DEF Spec, ImplementsLifecycle
=============================================================================
