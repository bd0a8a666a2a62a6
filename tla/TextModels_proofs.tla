-------------------------- MODULE TextModels_proofs --------------------------
(***************************************************************************)
(* Proofs about text models: a model and its file (MonacoEditorModel), and *)
(* the collection of references that the models are handed out by          *)
(* (ReferenceCollection).                                                  *)
(*                                                                         *)
(* Two invariants about MonacoEditorModel.  FileInv holds always: it says  *)
(* which text the model's contentChanges, and the changes that a save has  *)
(* taken, were made in.  EditInv needs autosave: it follows the edits      *)
(* through the text, what a save has taken and the file.                   *)
(***************************************************************************)
EXTENDS MonacoEditorModel, ReferenceCollection, TLAPS

\* The phases of a save that has taken its changes.
Taken == {"updating", "refused", "statting", "setting", "updated"}

InMade ==
  /\ text \cup content \cup changes \cup contentChanges \subseteq made
  /\ file.content \cup result.content \subseteq made

VersionInv ==
  /\ stat <= file.version
  /\ phase \in {"setting", "updated", "read"} =>
       stat <= result.version /\ result.version <= file.version
  /\ phase = "updated" => stat < result.version

\* What contentChanges were made in: what a save has taken, while there is one, and otherwise the file,
\* if the resource has the stat of it and is not adrift.
FitInv ==
  /\ phase \in Taken => contentChanges \subseteq text /\ content = text \ contentChanges
  /\ phase = "updating" /\ stat = file.version /\ ~adrift =>
       changes \subseteq content /\ file.content = content \ changes
  /\ phase = "updated" /\ result.version = file.version /\ ~adrift => file.content = content
  /\ phase \notin Taken /\ stat = file.version /\ ~adrift =>
       contentChanges \subseteq text /\ file.content = text \ contentChanges
  /\ phase = "read" /\ result.version = file.version => file.content = result.content

FileInv == InMade /\ VersionInv /\ FitInv

\* With autosave: the edits of the file are in the text, those that were not taken by the save that
\* runs have cancelled it, and those of a clean model are in the file.
EditInv ==
  /\ phase \in SavePhases => dirty
  /\ ~dirty => contentChanges \cap Edits = {}
  /\ (contentChanges \cup file.content) \cap Edits \subseteq text
  /\ phase \in Taken =>
       /\ (changes \cup content) \cap Edits \subseteq text
       /\ text \cap Edits \subseteq content \cup contentChanges
       /\ ~cancelled => contentChanges \cap Edits = {}
  /\ phase = "updated" /\ ~adrift => content \cap Edits \subseteq file.content
  /\ phase = "read" => result.content \cap Edits = file.content \cap Edits
  /\ CleanMeansSaved

-----------------------------------------------------------------------------
(* Types. *)

Operations == [op : {"save", "sync"}, cancelled : BOOLEAN]

LEMMA Phases ==
  /\ SavePhases = {"willSave", "updating", "updated", "refused", "statting", "setting"}
  /\ SyncPhases = {"reading", "read"}
BY DEF SavePhases, SyncPhases

LEMMA QueueType ==
  ASSUME queue \in Seq(Operations)
  PROVE  \A ops : QueueWithout(ops) \in Seq(Operations)
<1>1. ASSUME NEW ops PROVE QueueWithout(ops) \in Seq(Operations)
  <2>1. \A k \in 1..Len(queue) : queue[k] \in Operations
    OBVIOUS
  <2>2. \A k \in 1..Len(queue) : Operation(queue[k].op, TRUE) \in Operations
    BY <2>1 DEF Operation, Operations
  <2> DEFINE kept(k) == IF queue[k].op \in ops THEN Operation(queue[k].op, TRUE) ELSE queue[k]
  <2>3. \A k \in 1..Len(queue) : kept(k) \in Operations
    BY <2>1, <2>2
  <2>4. Len(queue) \in Nat /\ QueueWithout(ops) = [k \in 1..Len(queue) |-> kept(k)]
    BY DEF QueueWithout
  <2> HIDE DEF kept
  <2> QED
    BY <2>3, <2>4
<1> QED
  BY <1>1

LEMMA OperationType ==
  ASSUME NEW b \in BOOLEAN
  PROVE  Operation("save", b) \in Operations /\ Operation("sync", b) \in Operations
BY DEF Operation, Operations

LEMMA AppendType ==
  ASSUME NEW S, NEW s \in Seq(S), NEW e \in S
  PROVE  Append(s, e) \in Seq(S)
OBVIOUS

LEMMA TypeInit == Init => TypeOK
<1> SUFFICES ASSUME Init PROVE TypeOK
  OBVIOUS
<1>1. 0 \in 0..MaxSaves /\ 0 \in 0..MaxFailures
  BY EditorAssumption
<1>2. file \in [version : Nat, content : SUBSET Items]
      /\ result \in [version : Nat, content : SUBSET Items]
  BY DEF Init
<1>3. queue \in Seq([op : {"save", "sync"}, cancelled : BOOLEAN])
  BY DEF Init
<1> QED
  BY <1>1, <1>2, <1>3 DEF Init, TypeOK

LEMMA TypeNext == TypeOK /\ [Next]_vars => TypeOK'
<1> SUFFICES ASSUME TypeOK, [Next]_vars PROVE TypeOK'
  OBVIOUS
<1> USE EditorAssumption, Phases DEF TypeOK
<1>1. \A ops : QueueWithout(ops) \in Seq(Operations)
  BY QueueType DEF Operations
<1>2. \A ops : CancelledWith(ops) \in BOOLEAN
  BY DEF CancelledWith
<1>3. ASSUME NEW e \in Edits, Type(e) PROVE TypeOK'
  BY <1>1, <1>2, <1>3 DEF Type, TypeWith, Operations, Items, resourceVars, fileVars
<1>4. CASE Save
  <2>1. queue' \in Seq(Operations) /\ cancelled' \in BOOLEAN
    <3>1. QueueWithout({"save"}) \in Seq(Operations) /\ Operation("save", FALSE) \in Operations
      BY <1>1, OperationType
    <3>2. queue' \in Seq(Operations)
      BY <1>4, <3>1, AppendType, Zenon DEF Save
    <3> QED
      BY <1>4, <3>2 DEF Save, CancelledWith
  <2>2. saves' \in 0..MaxSaves /\ timer' \in {"none", "armed", "cancelled"}
    BY <1>4 DEF Save
  <2> QED
    BY <1>4, <2>1, <2>2 DEF Save, Operations, Items, resourceVars, fileVars
<1>5. ASSUME NEW x \in External, ChangeFile(x) PROVE TypeOK'
  BY <1>5 DEF ChangeFile, Items, modelVars, runVars, resourceVars
<1>6. ASSUME NEW fixes \in SUBSET Fixes, LateFixes(fixes) PROVE TypeOK'
  BY <1>6 DEF LateFixes, ApplyFixes, Items, runVars, resourceVars, fileVars
<1>7. ASSUME NEW fixes \in SUBSET Fixes, WillSaved(fixes) PROVE TypeOK'
  <2>1. late' \in Nat
    BY <1>7 DEF WillSaved
  <2>2. text' \subseteq Items /\ made' \subseteq Items
    BY <1>7 DEF WillSaved, ApplyFixes, Items
  <2>3. /\ contentChanges' \subseteq Edits \cup Fixes /\ changes' \subseteq Edits \cup Fixes
        /\ content' \subseteq Items /\ cancelled' \in BOOLEAN
        /\ phase' \in {"idle"} \cup SavePhases \cup SyncPhases
    BY <1>7, <2>2 DEF WillSaved, ApplyFixes, Done
  <2> QED
    BY <1>7, <2>1, <2>2, <2>3 DEF WillSaved, resourceVars, fileVars
<1>8. CASE Timeout
  <2>1. queue' \in Seq(Operations)
    <3>1. queue \in Seq(Operations) /\ Operation("save", timer = "cancelled") \in Operations
      BY OperationType DEF Operations
    <3> QED
      BY <1>8, <3>1 DEF Timeout
  <2> QED
    BY <1>8, <2>1 DEF Timeout, Operations, runVars, resourceVars, fileVars
<1>9. CASE StartSave
  BY <1>9 DEF StartSave, modelVars, resourceVars, fileVars
<1>10. CASE UpdateRefused
  BY <1>10 DEF UpdateRefused, Done, GoOn, modelVars, resourceVars, fileVars
<1>11. CASE Saved
  BY <1>11 DEF Saved, Done, fileVars
<1>12. CASE StartSync
  BY <1>12 DEF StartSync, modelVars, resourceVars, fileVars
<1>13. CASE Synced
  BY <1>13 DEF Synced, ReadWith, Done
<1>14. CASE FilesChanged
  BY <1>14 DEF FilesChanged, modelVars, runVars
<1>15. ASSUME NEW stale \in checks, IsInSync(stale) PROVE TypeOK'
  <2>1. queue' \in Seq(Operations) /\ cancelled' \in BOOLEAN
    <3>1. /\ queue \in Seq(Operations) /\ QueueWithout({"sync"}) \in Seq(Operations)
          /\ Operation("sync", FALSE) \in Operations
      BY <1>1, OperationType DEF Operations
    <3>2. Append(QueueWithout({"sync"}), Operation("sync", FALSE)) \in Seq(Operations)
      BY <3>1, AppendType, Zenon
    <3>3. queue' \in Seq(Operations)
      BY <1>15, <3>1, <3>2, Zenon DEF IsInSync
    <3> QED
      BY <1>15, <3>3 DEF IsInSync, CancelledWith
  <2> QED
    BY <1>15, <2>1 DEF IsInSync, Operations, modelVars, fileVars
<1>16. CASE UpdateContent
  <2>1. failures' \in 0..MaxFailures
    <3>1. failures' = failures \/ (failures < MaxFailures /\ failures' = failures + 1)
      BY <1>16 DEF UpdateContent, WriteFile, Fails, fileVars
    <3> QED
      BY <3>1
  <2>2. /\ file' \in [version : Nat, content : SUBSET Items] /\ changed' \in BOOLEAN
        /\ result' \in [version : Nat, content : SUBSET Items]
    <3>1. ASSUME NEW newContent \in SUBSET (file.content \cup changes), WriteFile(newContent)
          PROVE  /\ file' \in [version : Nat, content : SUBSET Items] /\ changed' \in BOOLEAN
                 /\ result' \in [version : Nat, content : SUBSET Items]
      <4>1. newContent \in SUBSET Items /\ file.version + 1 \in Nat
        BY DEF Items
      <4>2. [version |-> file.version + 1, content |-> newContent]
              \in [version : Nat, content : SUBSET Items]
        BY <4>1
      <4> QED
        BY <3>1, <4>2 DEF WriteFile
    <3>2. CASE UNCHANGED <<file, result, changed>>
      BY <3>2
    <3> QED
      BY <1>16, <3>1, <3>2 DEF UpdateContent, fileVars
  <2>3. /\ phase' \in {"idle"} \cup SavePhases \cup SyncPhases
        /\ UNCHANGED <<cancelled, changes, content, adrift>>
    BY <1>16 DEF UpdateContent, WriteFile, GoOn, fileVars
  <2> QED
    BY <1>16, <2>1, <2>2, <2>3 DEF UpdateContent, modelVars, resourceVars
<1>17. CASE GetFileStat
  BY <1>17 DEF GetFileStat, GoOn, modelVars, resourceVars, fileVars
<1>18. CASE SetContent
  <2>1. failures' \in 0..MaxFailures
    <3>1. failures' = failures \/ (failures < MaxFailures /\ failures' = failures + 1)
      BY <1>18 DEF SetContent, WriteFile, Fails, fileVars
    <3> QED
      BY <3>1
  <2>2. /\ file' \in [version : Nat, content : SUBSET Items] /\ changed' \in BOOLEAN
        /\ result' \in [version : Nat, content : SUBSET Items]
    <3>1. content \in SUBSET Items /\ file.version + 1 \in Nat
      OBVIOUS
    <3>2. [version |-> file.version + 1, content |-> content]
            \in [version : Nat, content : SUBSET Items]
      BY <3>1
    <3>3. \/ UNCHANGED <<file, result, changed>>
          \/ /\ file' = [version |-> file.version + 1, content |-> content]
             /\ result' = file' /\ changed' = TRUE
      BY <1>18 DEF SetContent, WriteFile, fileVars
    <3> QED
      BY <3>1, <3>2, <3>3
  <2>3. /\ phase' \in {"idle"} \cup SavePhases \cup SyncPhases /\ cancelled' \in BOOLEAN
        /\ changes' \subseteq Edits \cup Fixes /\ content' \subseteq Items /\ adrift' \in BOOLEAN
    BY <1>18 DEF SetContent, WriteFile, Done, GoOn
  <2> QED
    BY <1>18, <2>1, <2>2, <2>3 DEF SetContent, modelVars, resourceVars
<1>19. CASE ResolveContent
  BY <1>19 DEF ResolveContent, GoOn, modelVars, resourceVars, fileVars
<1>20. CASE UNCHANGED vars
  BY <1>20 DEF vars, modelVars, runVars, resourceVars, fileVars
<1> QED
  BY <1>3, <1>4, <1>5, <1>6, <1>7, <1>8, <1>9, <1>10, <1>11, <1>12, <1>13, <1>14, <1>15, <1>16,
     <1>17, <1>18, <1>19, <1>20 DEF Next, Participant, Frontend, Backend

\* Type correctness, whatever fails and whatever the preferences are.
THEOREM TypeCorrect == Spec => []TypeOK
BY TypeInit, TypeNext, PTL DEF Spec

-----------------------------------------------------------------------------
(* Changes and the text that they were made in. *)

LEMMA FileInit == Init => FileInv
BY Phases DEF Init, FileInv, InMade, VersionInv, FitInv, Taken

\* A step that leaves alone what the invariant is about.
LEMMA FileKept ==
  ASSUME FileInv, UNCHANGED <<text, contentChanges, phase, changes, content, stat, result, file,
                              adrift, made>>
  PROVE  FileInv'
BY DEF FileInv, InMade, VersionInv, FitInv

\* An edit is a change that was not made before: neither in a file nor in a save.
LEMMA FileType ==
  ASSUME TypeOK, FileInv, NEW e \in Edits, Type(e)
  PROVE  FileInv'
<1>1. /\ e \notin made /\ made' = made \cup {e} /\ text' = text \cup {e}
      /\ contentChanges' = contentChanges \cup {e}
      /\ UNCHANGED <<phase, changes, content, stat, result, file, adrift>>
  BY DEF Type, TypeWith, resourceVars, fileVars
<1>2. InMade' /\ VersionInv'
  BY <1>1 DEF FileInv, InMade, VersionInv
<1>3. FitInv'
  BY <1>1 DEF FileInv, InMade, FitInv
<1> QED
  BY <1>2, <1>3 DEF FileInv

\* Another program's change gives the file a version that nobody knows.
LEMMA FileChangeFile ==
  ASSUME TypeOK, FileInv, NEW x \in External, ChangeFile(x)
  PROVE  FileInv'
<1>1. /\ made' = made \cup {x} /\ file'.version = file.version + 1
      /\ file'.content = file.content \cup {x}
      /\ UNCHANGED <<text, contentChanges, phase, changes, content, stat, result, adrift>>
  BY DEF ChangeFile, modelVars, runVars, resourceVars
<1>2. stat \in Nat /\ file.version \in Nat /\ result.version \in Nat
  BY DEF TypeOK
<1>3. InMade' /\ VersionInv'
  BY <1>1, <1>2 DEF FileInv, InMade, VersionInv
<1>4. stat # file'.version
  BY <1>1, <1>2 DEF FileInv, VersionInv
<1>5. phase \in {"updated", "read"} => result.version # file'.version
  BY <1>1, <1>2 DEF FileInv, VersionInv
<1>6. FitInv'
  BY <1>1, <1>4, <1>5 DEF FileInv, FitInv
<1> QED
  BY <1>3, <1>6 DEF FileInv

\* So are the changes of participants.
LEMMA FileLateFixes ==
  ASSUME TypeOK, FileInv, NEW fixes \in SUBSET Fixes, LateFixes(fixes)
  PROVE  FileInv'
<1>1. /\ fixes \cap made = {} /\ made' = made \cup fixes /\ text' = text \cup fixes
      /\ contentChanges' = contentChanges \cup fixes
      /\ UNCHANGED <<phase, changes, content, stat, result, file, adrift>>
  BY DEF LateFixes, ApplyFixes, runVars, resourceVars, fileVars
<1>2. InMade' /\ VersionInv'
  BY <1>1 DEF FileInv, InMade, VersionInv
<1>3. FitInv'
  BY <1>1 DEF FileInv, InMade, FitInv
<1> QED
  BY <1>2, <1>3 DEF FileInv

\* What a save takes was made in the file, and its content is the text.
LEMMA FileWillSaved ==
  ASSUME TypeOK, FileInv, NEW fixes \in SUBSET Fixes, WillSaved(fixes)
  PROVE  FileInv'
<1>1. /\ fixes \cap made = {} /\ made' = made \cup fixes /\ text' = text \cup fixes
      /\ UNCHANGED <<stat, result, file, adrift>>
      /\ phase = "willSave"
  BY DEF WillSaved, ApplyFixes, resourceVars, fileVars
<1>2. \/ /\ phase' = "idle" /\ contentChanges' = contentChanges \cup fixes
         /\ changes' = {} /\ content' = {}
      \/ /\ phase' \in {"updating", "statting"} /\ contentChanges' = {}
         /\ changes' = contentChanges \cup fixes /\ content' = text'
  BY DEF WillSaved, Done
<1>3. InMade' /\ VersionInv'
  BY <1>1, <1>2 DEF FileInv, InMade, VersionInv
<1>4. stat = file.version /\ ~adrift =>
        contentChanges \subseteq text /\ file.content = text \ contentChanges
  BY <1>1 DEF FileInv, FitInv, Taken
<1>5. stat = file.version /\ ~adrift =>
        /\ contentChanges \cup fixes \subseteq text'
        /\ file.content = text' \ (contentChanges \cup fixes)
  BY <1>1, <1>4 DEF FileInv, InMade
<1>6. FitInv'
  BY <1>1, <1>2, <1>5 DEF FitInv, Taken
<1> QED
  BY <1>3, <1>6 DEF FileInv

LEMMA FileStart ==
  ASSUME TypeOK, FileInv, StartSave \/ StartSync
  PROVE  FileInv'
<1>1. UNCHANGED <<text, contentChanges, changes, content, stat, result, file, adrift, made>>
  BY DEF StartSave, StartSync, modelVars, resourceVars, fileVars
<1>2. phase = "idle" /\ phase' \in {"idle", "willSave", "reading"}
  BY DEF StartSave, StartSync
<1> QED
  BY <1>1, <1>2 DEF FileInv, InMade, VersionInv, FitInv, Taken

\* What a write leaves: the file has a version that only the answer tells.
LEMMA FileWrite ==
  ASSUME TypeOK, FileInv, NEW newContent \in SUBSET made, WriteFile(newContent),
         phase \in {"updating", "setting"}, adrift' \/ newContent = content,
         UNCHANGED <<text, contentChanges, stat, made>>
  PROVE  FileInv'
<1>1. /\ file'.version = file.version + 1 /\ file'.content = newContent /\ result' = file'
      /\ phase' = "updated" /\ UNCHANGED <<changes, content>>
  BY DEF WriteFile, GoOn
<1>2. stat \in Nat /\ file.version \in Nat
  BY DEF TypeOK
<1>3. InMade' /\ VersionInv'
  BY <1>1, <1>2 DEF FileInv, InMade, VersionInv
<1>4. FitInv'
  BY <1>1 DEF FileInv, FitInv, Taken
<1> QED
  BY <1>3, <1>4 DEF FileInv

\* A save that ends without a write leaves the resource adrift.
LEMMA FileGivenUp ==
  ASSUME FileInv, Done, adrift', UNCHANGED <<text, contentChanges, stat, result, file, made>>
  PROVE  FileInv'
BY DEF Done, FileInv, InMade, VersionInv, FitInv, Taken

LEMMA FileUpdateContent ==
  ASSUME TypeOK, FileInv, UpdateContent
  PROVE  FileInv'
<1>1. /\ phase = "updating"
      /\ UNCHANGED <<text, contentChanges, stat, made, adrift>>
  BY DEF UpdateContent, modelVars, resourceVars, fileVars
<1>2. ASSUME file.version = stat,
             NEW newContent \in SUBSET (file.content \cup changes), MadeInFile => newContent = content,
             WriteFile(newContent)
      PROVE  FileInv'
  <2>1. ~adrift => newContent = content
    BY <1>1, <1>2 DEF FileInv, FitInv, MadeInFile
  <2>2. newContent \in SUBSET made
    BY <1>2 DEF FileInv, InMade
  <2> QED
    BY <1>1, <1>2, <2>1, <2>2, FileWrite DEF TypeOK
<1>3. ASSUME phase' = "refused", UNCHANGED <<changes, content, result, file>> PROVE FileInv'
  BY <1>1, <1>3 DEF FileInv, InMade, VersionInv, FitInv, Taken
<1> QED
  BY <1>2, <1>3 DEF UpdateContent, GoOn, fileVars

LEMMA FileUpdateRefused ==
  ASSUME TypeOK, FileInv, UpdateRefused
  PROVE  FileInv'
<1>1. phase = "refused" /\ UNCHANGED <<text, contentChanges, stat, result, file, made>>
  BY DEF UpdateRefused, modelVars, resourceVars
<1>2. CASE cancelled /\ Done /\ adrift' = TRUE
  BY <1>1, <1>2, FileGivenUp
<1>3. CASE GoOn("statting") /\ UNCHANGED adrift
  BY <1>1, <1>3 DEF GoOn, FileInv, InMade, VersionInv, FitInv, Taken
<1> QED
  BY <1>2, <1>3 DEF UpdateRefused

LEMMA FileRead ==
  ASSUME TypeOK, FileInv, GetFileStat \/ ResolveContent
  PROVE  FileInv'
<1>1. /\ UNCHANGED <<text, contentChanges, stat, made, file, changes, content, adrift>>
      /\ result' = file
      /\ \/ phase = "statting" /\ phase' = "setting"
         \/ phase = "reading" /\ phase' = "read"
  BY DEF GetFileStat, ResolveContent, GoOn, modelVars, resourceVars, fileVars
<1>2. file.version \in Nat
  BY DEF TypeOK
<1>3. InMade' /\ VersionInv'
  BY <1>1, <1>2 DEF FileInv, InMade, VersionInv
<1>4. FitInv'
  BY <1>1 DEF FileInv, FitInv, Taken
<1> QED
  BY <1>3, <1>4 DEF FileInv

LEMMA FileSetContent ==
  ASSUME TypeOK, FileInv, SetContent
  PROVE  FileInv'
<1>1. phase = "setting" /\ UNCHANGED <<text, contentChanges, stat, made>>
  BY DEF SetContent, modelVars, resourceVars
<1>2. CASE WriteFile(content)
  <2>1. content \in SUBSET made
    BY DEF FileInv, InMade
  <2> QED
    BY <1>1, <1>2, <2>1, FileWrite
<1>3. CASE Done /\ adrift' = TRUE /\ UNCHANGED <<result, file>>
  BY <1>1, <1>3, FileGivenUp
<1> QED
  BY <1>2, <1>3 DEF SetContent

\* The resource has the stat of the content that was written, which is the text but for what came since.
LEMMA FileSaved ==
  ASSUME TypeOK, FileInv, Saved
  PROVE  FileInv'
<1>1. /\ phase = "updated" /\ stat' = result.version /\ phase' = "idle"
      /\ changes' = {} /\ content' = {}
      /\ UNCHANGED <<text, contentChanges, made, result, file, adrift>>
  BY DEF Saved, Done, fileVars
<1>2. InMade' /\ VersionInv'
  BY <1>1 DEF FileInv, InMade, VersionInv
<1>3. FitInv'
  BY <1>1 DEF FileInv, FitInv, Taken
<1> QED
  BY <1>2, <1>3 DEF FileInv

\* The resource has the stat of what was read.  If that is not the text then, it is adrift.
LEMMA FileSynced ==
  ASSUME TypeOK, FileInv, Synced
  PROVE  FileInv'
<1>1. /\ phase = "read" /\ stat' = result.version /\ phase' = "idle"
      /\ changes' = {} /\ content' = {}
      /\ UNCHANGED <<contentChanges, made, result, file>>
  BY DEF Synced, ReadWith, Done
<1>2. \/ text' = text /\ adrift' = (adrift \/ result.version # stat)
      \/ text' = result.content /\ adrift' = (contentChanges # {})
  BY DEF Synced, ReadWith
<1>3. InMade' /\ VersionInv'
  BY <1>1, <1>2 DEF FileInv, InMade, VersionInv
<1>4. FitInv'
  <2>1. CASE text' = text /\ adrift' = (adrift \/ result.version # stat)
    BY <1>1, <2>1 DEF FileInv, FitInv, Taken
  <2>2. CASE text' = result.content /\ adrift' = (contentChanges # {})
    BY <1>1, <2>2 DEF FileInv, FitInv, Taken
  <2> QED
    BY <1>2, <2>1, <2>2
<1> QED
  BY <1>3, <1>4 DEF FileInv

LEMMA FileNext == TypeOK /\ FileInv /\ [Next]_vars => FileInv'
<1> SUFFICES ASSUME TypeOK, FileInv, [Next]_vars PROVE FileInv'
  OBVIOUS
<1>1. ASSUME Save \/ Timeout \/ FilesChanged PROVE FileInv'
  BY <1>1, FileKept DEF Save, Timeout, FilesChanged, modelVars, runVars, resourceVars, fileVars
<1>2. ASSUME NEW stale \in checks, IsInSync(stale) PROVE FileInv'
  BY <1>2, FileKept DEF IsInSync, modelVars, fileVars
<1>3. CASE UNCHANGED vars
  BY <1>3, FileKept DEF vars, modelVars, runVars, resourceVars, fileVars
<1> QED
  BY <1>1, <1>2, <1>3, FileType, FileChangeFile, FileLateFixes, FileWillSaved, FileStart,
     FileUpdateContent, FileUpdateRefused, FileRead, FileSetContent, FileSaved, FileSynced
     DEF Next, Participant, Frontend, Backend

\* Incremental updates that the backend accepts fit the file, with autosave or without, whatever fails:
\* unless the resource is adrift.
THEOREM UpdatesAlwaysFit == Spec => []UpdatesFit
<1>1. Init => TypeOK /\ FileInv
  BY TypeInit, FileInit
<1>2. TypeOK /\ FileInv /\ [Next]_vars => (TypeOK /\ FileInv)'
  BY TypeNext, FileNext
<1>3. FileInv => UpdatesFit
  BY DEF FileInv, FitInv, UpdatesFit, MadeInFile
<1> QED
  BY <1>1, <1>2, <1>3, PTL DEF Spec

-----------------------------------------------------------------------------
(* Edits, with autosave. *)

LEMMA EditInit == Init => EditInv
BY Phases DEF Init, EditInv, CleanMeansSaved, Taken

\* A step that leaves alone what the invariant is about, except for tokens that it cancels.
LEMMA EditKept ==
  ASSUME TypeOK, EditInv, cancelled' \in {cancelled, TRUE},
         UNCHANGED <<text, dirty, contentChanges, phase, changes, content, result, file, adrift>>
  PROVE  EditInv'
BY DEF EditInv, CleanMeansSaved

\* An edit is in the text and in contentChanges, makes the model dirty and cancels the save that runs.
LEMMA EditType ==
  ASSUME AutoSave, TypeOK, EditInv, NEW e \in Edits, Type(e)
  PROVE  EditInv'
<1>1. /\ text' = text \cup {e} /\ dirty' /\ contentChanges' = contentChanges \cup {e}
      /\ UNCHANGED <<phase, changes, content, result, file, adrift>>
  BY DEF Type, TypeWith, fileVars
<1>2. phase \in Taken => cancelled'
  BY DEF Type, TypeWith, CancelledWith, PhasesOf, SavePhases, Taken
<1> QED
  BY <1>1, <1>2 DEF EditInv, CleanMeansSaved

\* What other programs and participants do is not about edits.
LEMMA EditOthers ==
  ASSUME TypeOK, EditInv,
         \/ \E x \in External : ChangeFile(x)
         \/ \E fixes \in SUBSET Fixes : LateFixes(fixes)
  PROVE  EditInv'
<1>1. ASSUME NEW x \in External, ChangeFile(x) PROVE EditInv'
  <2>1. /\ file'.content = file.content \cup {x} /\ x \notin Edits
        /\ UNCHANGED <<text, dirty, contentChanges, phase, cancelled, changes, content, result, adrift>>
    BY <1>1, DistinctChanges DEF ChangeFile, modelVars, runVars
  <2> QED
    BY <2>1 DEF EditInv, CleanMeansSaved
<1>2. ASSUME NEW fixes \in SUBSET Fixes, LateFixes(fixes) PROVE EditInv'
  <2>1. /\ text' = text \cup fixes /\ contentChanges' = contentChanges \cup fixes
        /\ fixes \cap Edits = {}
        /\ UNCHANGED <<dirty, phase, cancelled, changes, content, result, file, adrift>>
    BY <1>2, DistinctChanges DEF LateFixes, ApplyFixes, runVars, fileVars
  <2> QED
    BY <2>1 DEF EditInv, CleanMeansSaved
<1> QED
  BY <1>1, <1>2

\* What the save takes was in contentChanges, and its content is the text, with all edits.
LEMMA EditWillSaved ==
  ASSUME TypeOK, EditInv, NEW fixes \in SUBSET Fixes, WillSaved(fixes)
  PROVE  EditInv'
<1>1. /\ text' = text \cup fixes /\ fixes \cap Edits = {} /\ phase = "willSave"
      /\ UNCHANGED <<dirty, result, file, adrift>>
  BY DistinctChanges DEF WillSaved, ApplyFixes, fileVars
<1>2. \/ phase' = "idle" /\ contentChanges' = contentChanges \cup fixes
      \/ /\ phase' \in {"updating", "statting"} /\ contentChanges' = {}
         /\ changes' = contentChanges \cup fixes /\ content' = text'
  BY DEF WillSaved, Done
<1>3. dirty
  BY <1>1, Phases DEF EditInv
<1> QED
  BY <1>1, <1>2, <1>3, Phases DEF EditInv, CleanMeansSaved, Taken

LEMMA EditStart ==
  ASSUME TypeOK, EditInv, StartSave \/ StartSync
  PROVE  EditInv'
<1>1. UNCHANGED <<text, dirty, contentChanges, changes, content, result, file, adrift>>
  BY DEF StartSave, StartSync, modelVars, fileVars
<1>2. phase = "idle" /\ (phase' \in {"idle", "reading"} \/ (phase' = "willSave" /\ dirty))
  BY DEF StartSave, StartSync
<1> QED
  BY <1>1, <1>2, Phases DEF EditInv, CleanMeansSaved, Taken

\* What is written holds no edit that the text has not, and if it fits all that the save has taken.
LEMMA EditWrite ==
  ASSUME TypeOK, EditInv, NEW newContent, WriteFile(newContent), phase \in {"updating", "setting"},
         newContent \cap Edits \subseteq text, adrift' \/ newContent = content,
         UNCHANGED <<text, dirty, contentChanges>>
  PROVE  EditInv'
<1>1. /\ file'.content = newContent /\ phase' = "updated"
      /\ UNCHANGED <<changes, content, cancelled>>
  BY DEF WriteFile, GoOn
<1>2. dirty
  BY Phases DEF EditInv
<1> QED
  BY <1>1, <1>2, Phases DEF EditInv, CleanMeansSaved, Taken

LEMMA EditUpdateContent ==
  ASSUME TypeOK, FileInv, EditInv, UpdateContent
  PROVE  EditInv'
<1>1. phase = "updating" /\ UNCHANGED <<text, dirty, contentChanges, adrift>>
  BY DEF UpdateContent, modelVars, fileVars
<1>2. ASSUME file.version = stat,
             NEW newContent \in SUBSET (file.content \cup changes), MadeInFile => newContent = content,
             WriteFile(newContent)
      PROVE  EditInv'
  <2>1. ~adrift => newContent = content
    BY <1>1, <1>2 DEF FileInv, FitInv, MadeInFile
  <2>2. newContent \cap Edits \subseteq text
    BY <1>1, <1>2 DEF EditInv, Taken
  <2> QED
    BY <1>1, <1>2, <2>1, <2>2, EditWrite DEF TypeOK
<1>3. ASSUME phase' = "refused", UNCHANGED <<changes, content, cancelled, result, file>> PROVE EditInv'
  BY <1>1, <1>3, Phases DEF EditInv, CleanMeansSaved, Taken
<1> QED
  BY <1>2, <1>3 DEF UpdateContent, GoOn, fileVars

LEMMA EditUpdateRefused ==
  ASSUME TypeOK, EditInv, UpdateRefused
  PROVE  EditInv'
<1>1. phase = "refused" /\ UNCHANGED <<text, dirty, contentChanges, result, file>>
  BY DEF UpdateRefused, modelVars
<1>2. \/ phase' = "idle" /\ adrift'
      \/ phase' = "statting" /\ UNCHANGED <<changes, content, cancelled, adrift>>
  BY DEF UpdateRefused, Done, GoOn
<1>3. dirty
  BY <1>1, Phases DEF EditInv
<1> QED
  BY <1>1, <1>2, <1>3, Phases DEF EditInv, CleanMeansSaved, Taken

LEMMA EditRead ==
  ASSUME TypeOK, EditInv, GetFileStat \/ ResolveContent
  PROVE  EditInv'
<1>1. /\ UNCHANGED <<text, dirty, contentChanges, file, changes, content, cancelled, adrift>>
      /\ result' = file
      /\ \/ phase = "statting" /\ phase' = "setting"
         \/ phase = "reading" /\ phase' = "read"
  BY DEF GetFileStat, ResolveContent, GoOn, modelVars, fileVars
<1> QED
  BY <1>1, Phases DEF EditInv, CleanMeansSaved, Taken

LEMMA EditSetContent ==
  ASSUME TypeOK, EditInv, SetContent
  PROVE  EditInv'
<1>1. phase = "setting" /\ UNCHANGED <<text, dirty, contentChanges>>
  BY DEF SetContent, modelVars
<1>2. CASE WriteFile(content)
  <2>1. content \cap Edits \subseteq text
    BY <1>1 DEF EditInv, Taken
  <2> QED
    BY <1>1, <1>2, <2>1, EditWrite
<1>3. CASE Done /\ adrift' = TRUE /\ UNCHANGED <<result, file>>
  <2>1. dirty
    BY <1>1, Phases DEF EditInv
  <2>2. phase' = "idle" /\ adrift'
    BY <1>3 DEF Done
  <2> QED
    BY <1>1, <1>3, <2>1, <2>2, Phases DEF EditInv, CleanMeansSaved, Taken
<1> QED
  BY <1>2, <1>3 DEF SetContent

\* The model is clean when nothing has cancelled the save, and so nothing was typed since.
LEMMA EditSaved ==
  ASSUME TypeOK, EditInv, Saved
  PROVE  EditInv'
<1>1. /\ phase = "updated" /\ dirty' = (dirty /\ cancelled) /\ phase' = "idle"
      /\ UNCHANGED <<text, contentChanges, result, file, adrift>>
  BY DEF Saved, Done, fileVars
<1>2. dirty
  BY <1>1, Phases DEF EditInv
<1>3. ~dirty' => contentChanges \cap Edits = {} /\ (~adrift => text \cap Edits \subseteq file.content)
  BY <1>1, <1>2 DEF EditInv, Taken
<1> QED
  BY <1>1, <1>3, Phases DEF EditInv, CleanMeansSaved, Taken

\* The text is replaced only when the model is clean, by what has the edits of the file.
LEMMA EditSynced ==
  ASSUME TypeOK, EditInv, Synced
  PROVE  EditInv'
<1>1. /\ phase = "read" /\ phase' = "idle"
      /\ UNCHANGED <<dirty, contentChanges, result, file>>
      /\ result.content \cap Edits = file.content \cap Edits
  BY DEF Synced, ReadWith, Done, EditInv
<1>2. CASE text' = text /\ (~adrift' => ~adrift)
  BY <1>1, <1>2, Phases DEF EditInv, CleanMeansSaved, Taken
<1>3. CASE text' = result.content /\ ~dirty
  BY <1>1, <1>3, Phases DEF EditInv, CleanMeansSaved, Taken
<1> QED
  BY <1>2, <1>3 DEF Synced, ReadWith

LEMMA EditNext ==
  ASSUME AutoSave, TypeOK, FileInv, EditInv, [Next]_vars
  PROVE  EditInv'
<1>1. cancelled \in BOOLEAN
  BY DEF TypeOK
<1>2. ASSUME Save \/ Timeout \/ FilesChanged PROVE EditInv'
  BY <1>1, <1>2, EditKept
     DEF Save, Timeout, FilesChanged, CancelledWith, modelVars, runVars, resourceVars, fileVars
<1>3. ASSUME NEW stale \in checks, IsInSync(stale) PROVE EditInv'
  BY <1>1, <1>3, EditKept DEF IsInSync, CancelledWith, modelVars, fileVars
<1>4. CASE UNCHANGED vars
  BY <1>4, EditKept DEF vars, modelVars, runVars, resourceVars, fileVars
<1> QED
  BY <1>2, <1>3, <1>4, EditType, EditOthers, EditWillSaved, EditStart, EditUpdateContent,
     EditUpdateRefused, EditRead, EditSetContent, EditSaved, EditSynced
     DEF Next, Participant, Frontend, Backend

\* The text grows, except when it is replaced by what was read from the file; and what the file has, the
\* text has.
LEMMA EditStays ==
  ASSUME TypeOK, EditInv, [Next]_vars, NEW e \in Edits, e \in text \cup file.content, ~adrift
  PROVE  e \in text' \cup file'.content
<1>1. e \in text
  BY DEF EditInv
<1>2. CASE Synced
  <2>1. phase = "read" /\ file' = file /\ (text' = text \/ ~dirty)
    BY <1>2 DEF Synced, ReadWith
  <2> QED
    BY <1>1, <2>1 DEF EditInv, CleanMeansSaved
<1>3. CASE ~Synced
  <2>1. text \subseteq text'
    BY <1>3 DEF Next, Participant, Frontend, Backend, Type, TypeWith, Save, ChangeFile, LateFixes,
       ApplyFixes, WillSaved, Timeout, StartSave, UpdateRefused, Saved, StartSync, FilesChanged, IsInSync,
       UpdateContent, GetFileStat, SetContent, ResolveContent, vars, modelVars
  <2> QED
    BY <1>1, <2>1
<1> QED
  BY <1>2, <1>3

\* With autosave no edit is lost while the resource is not adrift, for any edits, participants, saves,
\* failures and other programs.
THEOREM EditsKept == ASSUME AutoSave PROVE Spec => NoEditLost
<1>1. Init => TypeOK /\ FileInv /\ EditInv
  BY TypeInit, FileInit, EditInit
<1>2. TypeOK /\ FileInv /\ EditInv /\ [Next]_vars => (TypeOK /\ FileInv /\ EditInv)'
  BY TypeNext, FileNext, EditNext
<1>3. TypeOK /\ EditInv /\ [Next]_vars =>
        [\A e \in Edits :
           e \in text \cup file.content => e \in text' \cup file'.content \/ adrift]_vars
  BY EditStays
<1> QED
  BY <1>1, <1>2, <1>3, PTL DEF Spec, NoEditLost

\* On the same condition a model that is not dirty has all its edits in the file, unless adrift.
THEOREM CleanIsSaved == ASSUME AutoSave PROVE Spec => []CleanMeansSaved
<1>1. Init => TypeOK /\ FileInv /\ EditInv
  BY TypeInit, FileInit, EditInit
<1>2. TypeOK /\ FileInv /\ EditInv /\ [Next]_vars => (TypeOK /\ FileInv /\ EditInv)'
  BY TypeNext, FileNext, EditNext
<1>3. EditInv => CleanMeansSaved
  BY DEF EditInv
<1> QED
  BY <1>1, <1>2, <1>3, PTL DEF Spec

-----------------------------------------------------------------------------
(* ReferenceCollection: of all DisposableCollections that were made for a key, only the    *)
(* one in the map has members.                                                             *)

\* pendingValues has the one creation that is under way, and _values nothing meanwhile.
Creations ==
  /\ \A v \in Acquires : creation[v] = "pending" => pending = v
  /\ pending # None => current = None
  /\ current # None => creation[current] = "done"
  /\ \A v \in dead : creation[v] = "done"
  /\ \A r \in Acquires : state[r] = "idle" => creation[r] = "none"

\* Every reference that is held is in the collection of the map, which was created by an
\* acquire that had got its value.
OneCollection ==
  \A r \in Acquires :
    state[r] = "held" =>
      /\ collection[r] = references
      /\ references \in Acquires
      /\ state[references] # "idle"
      /\ object[references] \in Acquires
      /\ creation[object[references]] = "done"

Waiting ==
  \A r \in Acquires : state[r] # "idle" => object[r] \in Acquires

ReferencesInv == ReferencesTypeOK /\ Creations /\ OneCollection /\ Waiting /\ EntryIsLive

LEMMA ReferencesInitInv == ReferencesInit => ReferencesInv
BY AcquiresAssumption
   DEF ReferencesInit, ReferencesInv, ReferencesTypeOK, Creations, OneCollection, Waiting, EntryIsLive

LEMMA AcquireInv ==
  ASSUME ReferencesInv, NEW r \in Acquires, Acquire(r)
  PROVE  ReferencesInv'
<1> USE AcquiresAssumption
<1>1. ReferencesTypeOK'
  BY DEF ReferencesInv, ReferencesTypeOK, Creations, Acquire
<1>2. Creations'
  BY DEF ReferencesInv, ReferencesTypeOK, Creations, Acquire
<1>3. OneCollection'
  BY DEF ReferencesInv, ReferencesTypeOK, Creations, OneCollection, Acquire
<1>4. Waiting'
  BY DEF ReferencesInv, ReferencesTypeOK, Waiting, Acquire
<1>5. EntryIsLive'
  BY DEF ReferencesInv, ReferencesTypeOK, EntryIsLive, Members, Acquire
<1> QED BY <1>1, <1>2, <1>3, <1>4, <1>5 DEF ReferencesInv

LEMMA ReceiveInv ==
  ASSUME ReferencesInv, NEW r \in Acquires, Receive(r)
  PROVE  ReferencesInv'
<1> USE AcquiresAssumption
<1>1. ReferencesTypeOK'
  BY DEF ReferencesInv, ReferencesTypeOK, Creations, Receive
<1>2. Creations'
  BY DEF ReferencesInv, ReferencesTypeOK, Creations, Receive
<1>3. \A s \in Acquires : state'[s] = "held" => collection'[s] = references'
  BY DEF ReferencesInv, ReferencesTypeOK, OneCollection, Receive
<1>4. OneCollection'
  <2>1. CASE references = None
    BY <1>3, <2>1 DEF ReferencesInv, ReferencesTypeOK, OneCollection, Waiting, Receive
  <2>2. CASE references # None
    <3>1. PICK s \in Acquires : state[s] = "held" /\ collection[s] = references
      BY <2>2 DEF ReferencesInv, EntryIsLive, Members
    <3> QED BY <1>3, <2>2, <3>1 DEF ReferencesInv, ReferencesTypeOK, OneCollection, Receive
  <2> QED BY <2>1, <2>2
<1>5. Waiting'
  BY DEF ReferencesInv, ReferencesTypeOK, Waiting, Receive
<1>6. EntryIsLive'
  BY DEF ReferencesInv, ReferencesTypeOK, EntryIsLive, Members, Receive
<1> QED BY <1>1, <1>2, <1>4, <1>5, <1>6 DEF ReferencesInv

\* A reference is disposed: the last one leaves no reference to the key at all.
LEMMA DisposeInv ==
  ASSUME ReferencesInv, NEW r \in Acquires, Dispose(r)
  PROVE  /\ ReferencesInv'
         /\ \/ dead' = dead
            \/ \A s \in Acquires : state'[s] # "held"
<1> USE AcquiresAssumption
<1>1. collection[r] = references /\ references \in Acquires
  BY DEF ReferencesInv, OneCollection, Dispose
<1>2. \A s \in Acquires : state'[s] = "held" => s # r /\ state[s] = "held"
  BY DEF ReferencesInv, ReferencesTypeOK, Dispose
<1>3. CASE Members(collection[r]) = {r}
  <2>1. \A s \in Acquires : state'[s] # "held"
    BY <1>1, <1>2, <1>3 DEF ReferencesInv, OneCollection, Members
  <2>2. object[references] \in Acquires /\ creation[object[references]] = "done"
    BY DEF ReferencesInv, OneCollection, Dispose
  <2>3. ReferencesTypeOK'
    BY <1>1, <1>3, <2>2 DEF ReferencesInv, ReferencesTypeOK, Dispose
  <2>4. Creations'
    BY <1>1, <1>3, <2>2 DEF ReferencesInv, ReferencesTypeOK, Creations, Dispose
  <2>5. OneCollection' /\ EntryIsLive'
    BY <1>3, <2>1 DEF OneCollection, EntryIsLive, Dispose
  <2>6. Waiting'
    BY DEF ReferencesInv, ReferencesTypeOK, Waiting, Dispose
  <2> QED BY <2>1, <2>3, <2>4, <2>5, <2>6 DEF ReferencesInv
<1>4. CASE Members(collection[r]) # {r}
  <2>1. UNCHANGED <<dead, current, references, object, creation, pending, collection>>
    BY <1>4 DEF Dispose
  <2>2. PICK s \in Acquires : s # r /\ state[s] = "held" /\ collection[s] = references
    BY <1>1, <1>4 DEF Dispose, Members
  <2>3. ReferencesTypeOK'
    BY <2>1 DEF ReferencesInv, ReferencesTypeOK, Dispose
  <2>4. Creations'
    BY <2>1 DEF ReferencesInv, ReferencesTypeOK, Creations, Dispose
  <2>5. OneCollection'
    BY <1>2, <2>1 DEF ReferencesInv, ReferencesTypeOK, OneCollection, Dispose
  <2>6. EntryIsLive'
    BY <2>1, <2>2 DEF ReferencesInv, ReferencesTypeOK, EntryIsLive, Members, Dispose
  <2>7. Waiting'
    BY <2>1 DEF ReferencesInv, ReferencesTypeOK, Waiting, Dispose
  <2> QED BY <2>1, <2>3, <2>4, <2>5, <2>6, <2>7 DEF ReferencesInv
<1> QED BY <1>3, <1>4

LEMMA FactoryInv ==
  ASSUME ReferencesInv, NEW v \in Acquires, FactoryReturns(v) \/ FactoryFails(v)
  PROVE  ReferencesInv'
<1> USE AcquiresAssumption
<1>1. ReferencesTypeOK'
  BY DEF ReferencesInv, ReferencesTypeOK, Creations, FactoryReturns, FactoryFails
<1>2. v \notin dead /\ pending = v /\ state[v] # "idle"
  BY DEF ReferencesInv, Creations, FactoryReturns, FactoryFails
<1>3. Creations'
  BY <1>2 DEF ReferencesInv, ReferencesTypeOK, Creations, FactoryReturns, FactoryFails
<1>4. OneCollection'
  BY DEF ReferencesInv, ReferencesTypeOK, OneCollection, FactoryReturns, FactoryFails
<1>5. Waiting'
  BY DEF ReferencesInv, ReferencesTypeOK, Waiting, FactoryReturns, FactoryFails
<1>6. EntryIsLive'
  BY <1>2 DEF ReferencesInv, ReferencesTypeOK, EntryIsLive, Members, FactoryReturns, FactoryFails
<1> QED BY <1>1, <1>3, <1>4, <1>5, <1>6 DEF ReferencesInv

LEMMA RejectInv ==
  ASSUME ReferencesInv, NEW r \in Acquires, Reject(r)
  PROVE  ReferencesInv'
<1>1. ReferencesTypeOK' /\ Creations'
  BY DEF ReferencesInv, ReferencesTypeOK, Creations, Reject
<1>2. OneCollection' /\ Waiting'
  BY DEF ReferencesInv, ReferencesTypeOK, OneCollection, Waiting, Reject
<1>3. EntryIsLive'
  BY DEF ReferencesInv, ReferencesTypeOK, EntryIsLive, Members, Reject
<1> QED BY <1>1, <1>2, <1>3 DEF ReferencesInv

LEMMA ReferencesStepInv == ReferencesInv /\ [ReferencesNext]_referencesVars => ReferencesInv'
<1> SUFFICES ASSUME ReferencesInv, [ReferencesNext]_referencesVars PROVE ReferencesInv'
  OBVIOUS
<1>1. CASE UNCHANGED referencesVars
  BY <1>1 DEF referencesVars, ReferencesInv, ReferencesTypeOK, Creations, OneCollection, Waiting, EntryIsLive, Members
<1>2. ASSUME NEW r \in Acquires,
             \/ Acquire(r) \/ Receive(r) \/ Reject(r) \/ Dispose(r)
             \/ FactoryReturns(r) \/ FactoryFails(r)
      PROVE  ReferencesInv'
  BY <1>2, AcquireInv, ReceiveInv, RejectInv, DisposeInv, FactoryInv
<1> QED BY <1>1, <1>2 DEF ReferencesNext

\* The strengthened invariant holds, for any number of acquires of a key.
THEOREM ReferencesInvariance == ReferencesSpec => []ReferencesInv
BY ReferencesInitInv, ReferencesStepInv, PTL DEF ReferencesSpec

\* Every variable has its type, and a promise in pendingValues is not settled.
THEOREM ReferencesTypeCorrect == ReferencesSpec => []ReferencesTypeOK
BY ReferencesInvariance, PTL DEF ReferencesInv

\* The factory is called once at a time, however many acquires come together
\* (getOrCreateValue's two maps).
THEOREM CreatedOnce == ReferencesSpec => []OneCreation
<1>1. ReferencesInv => OneCreation
  BY AcquiresAssumption DEF ReferencesInv, ReferencesTypeOK, Creations, OneCreation
<1> QED BY <1>1, ReferencesInvariance, PTL

\* The maps never have a disposed value or an empty collection.
THEOREM EntryAlwaysLive == ReferencesSpec => []EntryIsLive
BY ReferencesInvariance, PTL DEF ReferencesInv

\* No reference that is held loses its value to the disposal of another one.
THEOREM DisposedByLast == ReferencesSpec => LastReferenceDisposes
<1> DEFINE Kept == \A r \in Acquires :
             state'[r] = "held" /\ object[r] \in dead' => object[r] \in dead \/ state[r] # "held"
<1>1. ReferencesInv /\ [ReferencesNext]_referencesVars => [Kept]_referencesVars
  <2> SUFFICES ASSUME ReferencesInv, [ReferencesNext]_referencesVars PROVE [Kept]_referencesVars
    OBVIOUS
  <2>1. CASE UNCHANGED referencesVars
    BY <2>1 DEF referencesVars
  <2>2. ASSUME NEW r \in Acquires, Dispose(r) PROVE Kept
    BY <2>2, DisposeInv
  <2>3. ASSUME NEW r \in Acquires,
               \/ Acquire(r) \/ Receive(r) \/ Reject(r)
               \/ FactoryReturns(r) \/ FactoryFails(r)
        PROVE  Kept
    BY <2>3 DEF Acquire, Receive, Reject, FactoryReturns, FactoryFails
  <2> QED BY <2>1, <2>2, <2>3 DEF ReferencesNext
<1> QED BY <1>1, ReferencesInvariance, PTL DEF ReferencesSpec, LastReferenceDisposes
=============================================================================
