-------------------------- MODULE MonacoEditorModel --------------------------
(***************************************************************************)
(* A text document that is edited, saved and kept in sync with its file:   *)
(* MonacoEditorModel (monaco/browser) over a FileResource                  *)
(* (filesystem/browser), which reads and writes the file by requests to    *)
(* DiskFileSystem on the backend (NodeFileSystem, filesystem/node).        *)
(*                                                                         *)
(* A content is the set of the changes it contains.  Changes have ranges,  *)
(* which are right only in the text that they were made in: applied to     *)
(* another one, they land somewhere and replace something.                 *)
(*                                                                         *)
(* Operations of the model (doSave, doSync) run one after the other; each  *)
(* request to the backend takes two steps, its execution there and its     *)
(* answer here, and the user, the save participants and other programs act *)
(* in between.  A cancellation token is the flag of the operation that has *)
(* it.                                                                     *)
(***************************************************************************)
EXTENDS Naturals, Sequences

CONSTANTS
  Edits,         \* changes that the user can type
  Fixes,         \* changes that participants of onWillSaveModel can make (formatting)
  External,      \* changes that other programs can make to the file
  AutoSave,      \* whether the preference editor.autoSave is "on"
  Participants,  \* how many listeners of onWillSaveModel call waitUntil
  MaxSaves,      \* bound: saves that the user asks for
  MaxFailures    \* bound: writes that fail on the backend for reasons of its own

ASSUME EditorAssumption ==
  /\ AutoSave \in BOOLEAN
  /\ Participants \in Nat \ {0}
  /\ MaxSaves \in Nat
  /\ MaxFailures \in Nat

ASSUME DistinctChanges ==
  Edits \cap Fixes = {} /\ Edits \cap External = {} /\ Fixes \cap External = {}

VARIABLES
  \* MonacoEditorModel
  text,            \* model.getValue()
  dirty,
  contentChanges,  \* changes since the last save took them
  timer,           \* the autosave timer: "none", "armed", or "cancelled" (its token is)
  queue,           \* operations that wait for pendingOperation
  phase,           \* of the operation that runs
  cancelled,       \* its token
  changes, content, \* what it saves
  late,            \* thenables of participants that no save waits for any more
  \* FileResource
  stat,            \* the version of the file it has read or written last
  checks,          \* the stats for which isInSync is under way
  \* requests and the file
  result,          \* version and content that the running operation's request yields
  file,            \* version (its modification time and size) and content
  changed,         \* the file watcher has something to report
  adrift,          \* history: the file that stat stands for may not be the text that
                   \* contentChanges were made in
  \* the environment
  made,            \* the changes made so far
  saves, failures

modelVars == <<text, dirty, contentChanges, timer>>
runVars == <<phase, cancelled, changes, content>>
resourceVars == <<stat, checks>>
fileVars == <<file, changed, adrift>>
vars == <<modelVars, queue, runVars, late, resourceVars, result, fileVars, made, saves, failures>>

Items == Edits \cup Fixes \cup External

Init ==
  /\ text = {} /\ dirty = FALSE /\ contentChanges = {} /\ timer = "none"
  /\ queue = <<>>
  /\ phase = "idle" /\ cancelled = FALSE /\ changes = {} /\ content = {}
  /\ late = 0
  /\ stat = 0 /\ checks = {}
  /\ result = [version |-> 0, content |-> {}]
  /\ file = [version |-> 0, content |-> {}]
  /\ changed = FALSE /\ adrift = FALSE
  /\ made = {} /\ saves = 0 /\ failures = 0

-----------------------------------------------------------------------------
(* Tokens and the queue. *)

SavePhases == {"willSave", "updating", "updated", "refused", "statting", "setting"}
SyncPhases == {"reading", "read"}
PhasesOf == [save |-> SavePhases, sync |-> SyncPhases]

Operation(op, isCancelled) == [op |-> op, cancelled |-> isCancelled]

\* cancelSave and cancelSync: only the latest token of a kind is ever in use, so cancelling
\* it cancels every operation of the kinds ops, those in the queue and the one that runs.
QueueWithout(ops) ==
  [k \in 1..Len(queue) |->
     IF queue[k].op \in ops THEN Operation(queue[k].op, TRUE) ELSE queue[k]]
CancelledWith(ops) == cancelled \/ \E op \in ops : phase \in PhasesOf[op]

-----------------------------------------------------------------------------
(* The user, and other programs. *)

\* fireDidChangeContent of an edit: pushContentChanges, markAsDirty and doAutoSave, which
\* cancels the saves that are scheduled or run and starts the timer again.
TypeWith(e, newTimer) ==
  LET ops == IF AutoSave THEN {"save", "sync"} ELSE {"sync"}
  IN  /\ e \in Edits \ made
      /\ made' = made \cup {e}
      /\ text' = text \cup {e}
      /\ contentChanges' = contentChanges \cup {e}
      /\ dirty' = TRUE
      /\ timer' = IF AutoSave THEN newTimer ELSE timer
      /\ queue' = QueueWithout(ops)
      /\ cancelled' = CancelledWith(ops)
      /\ UNCHANGED <<phase, changes, content, late, resourceVars, result, fileVars, saves,
                     failures>>

\* Mutant: a timer that is armed is left alone, although its token is cancelled.
TypeKeepsTimer(e) == TypeWith(e, IF timer = "none" THEN "armed" ELSE "cancelled")

Type(e) == TypeWith(e, "armed")

\* The autosave timer fires: scheduleSave with the timer's own token.
Timeout ==
  /\ timer # "none"
  /\ queue' = Append(queue, Operation("save", timer = "cancelled"))
  /\ timer' = "none"
  /\ UNCHANGED <<text, dirty, contentChanges, runVars, late, resourceVars, result, fileVars,
                 made, saves, failures>>

\* Saveable.save: nothing unless the model is dirty; scheduleSave cancels other saves.
Save ==
  /\ dirty
  /\ saves < MaxSaves
  /\ saves' = saves + 1
  /\ queue' = Append(QueueWithout({"save"}), Operation("save", FALSE))
  /\ timer' = IF timer = "armed" THEN "cancelled" ELSE timer
  /\ cancelled' = CancelledWith({"save"})
  /\ UNCHANGED <<text, dirty, contentChanges, phase, changes, content, late, resourceVars,
                 result, fileVars, made, failures>>

\* Another program changes the file.
ChangeFile(x) ==
  /\ x \in External \ made
  /\ made' = made \cup {x}
  /\ file' = [version |-> file.version + 1, content |-> file.content \cup {x}]
  /\ changed' = TRUE
  /\ UNCHANGED <<modelVars, queue, runVars, late, resourceVars, result, adrift, saves, failures>>

-----------------------------------------------------------------------------
(* The file watcher: FileResource.sync. *)

\* onFilesChanged: isInSync asks the backend for the file's stat.
FilesChanged ==
  /\ changed
  /\ changed' = FALSE
  /\ checks' = checks \cup {stat}
  /\ UNCHANGED <<modelVars, queue, runVars, late, stat, result, file, adrift, made, saves,
                 failures>>

\* The file is newer than the resource knew: onDidChangeContents, and MonacoEditorModel.sync.
IsInSync(current) ==
  /\ current \in checks
  /\ checks' = checks \ {current}
  /\ IF current < file.version
     THEN /\ queue' = Append(QueueWithout({"sync"}), Operation("sync", FALSE))
          /\ cancelled' = CancelledWith({"sync"})
     ELSE UNCHANGED <<queue, cancelled>>
  /\ UNCHANGED <<modelVars, phase, changes, content, late, stat, result, fileVars, made, saves,
                 failures>>

-----------------------------------------------------------------------------
(* Operations. *)

\* The running operation ends.  (A save that has taken its changes and ends without having written
\* them has lost them: they are in the text, but not in contentChanges any more.)
Done == phase' = "idle" /\ cancelled' = FALSE /\ changes' = {} /\ content' = {}

GoOn(next) == phase' = next /\ UNCHANGED <<cancelled, changes, content>>

\* doSave begins: onWillSaveModel is fired, and its participants are awaited.
StartSave ==
  /\ phase = "idle"
  /\ queue # <<>>
  /\ Head(queue).op = "save"
  /\ queue' = Tail(queue)
  /\ phase' = IF Head(queue).cancelled \/ ~dirty THEN "idle" ELSE "willSave"
  /\ UNCHANGED <<modelVars, cancelled, changes, content, late, resourceVars, result, fileVars,
                 made, saves, failures>>

\* The edits of a participant are applied (ignoreDirty), cancelled or not.
ApplyFixes(fixes) ==
  /\ fixes \subseteq Fixes \ made
  /\ made' = made \cup fixes
  /\ text' = text \cup fixes

\* The first participant answers, and the save goes on: it takes the content changes, and
\* sends them or, when they are longer than it, the content.
WillSaved(fixes) ==
  LET taken == contentChanges \cup fixes
  IN  /\ phase = "willSave"
      /\ ApplyFixes(fixes)
      /\ late' = late + Participants - 1
      /\ \/ /\ cancelled \/ taken = {}
            /\ Done
            /\ contentChanges' = taken
         \/ /\ ~cancelled /\ taken # {}
            /\ phase' \in {"updating", "statting"}
            /\ changes' = taken
            /\ content' = text'
            /\ contentChanges' = {}
            /\ UNCHANGED cancelled
      /\ UNCHANGED <<dirty, timer, queue, resourceVars, result, fileVars, saves, failures>>

\* Another participant answers: its edits are applied whatever the model does by then.
LateFixes(fixes) ==
  /\ late > 0
  /\ late' = late - 1
  /\ ApplyFixes(fixes)
  /\ contentChanges' = contentChanges \cup fixes
  /\ UNCHANGED <<dirty, timer, queue, runVars, resourceVars, result, fileVars, saves, failures>>

\* The file is written on the backend, and its new stat is sent back.
WriteFile(newContent) ==
  /\ file' = [version |-> file.version + 1, content |-> newContent]
  /\ result' = file'
  /\ changed' = TRUE
  /\ GoOn("updated")
  /\ UNCHANGED failures

Fails ==
  /\ failures < MaxFailures
  /\ failures' = failures + 1

\* The changes were made in the text that the file holds, and each in what the one before it made.
\* (Once the two have come apart, sets that are equal do not mean texts that are.)
MadeInFile == ~adrift /\ changes \subseteq content /\ file.content = content \ changes

\* updateContent on the backend, if the file has the stat of the request.  applyContentChanges puts
\* each change where its range is in the file: in another text, it replaces anything there.
UpdateContent ==
  /\ phase = "updating"
  /\ \/ /\ file.version = stat
        /\ \E newContent \in SUBSET (file.content \cup changes) :
             /\ MadeInFile => newContent = content
             /\ WriteFile(newContent)
        /\ UNCHANGED adrift
     \/ /\ file.version # stat
        /\ GoOn("refused")
        /\ UNCHANGED <<result, fileVars, failures>>
     \/ /\ Fails
        /\ GoOn("refused")
        /\ UNCHANGED <<result, fileVars>>
  /\ UNCHANGED <<modelVars, queue, late, resourceVars, made, saves>>

\* trySaveContentChanges fails: Resource.save sends the content instead, unless cancelled.
UpdateRefused ==
  /\ phase = "refused"
  /\ \/ cancelled /\ Done /\ adrift' = TRUE
     \/ ~cancelled /\ GoOn("statting") /\ UNCHANGED adrift
  /\ UNCHANGED <<modelVars, queue, late, resourceVars, result, file, changed, made, saves,
                 failures>>

\* doSaveContents: the file's stat of now is what setContent is called with.
GetFileStat ==
  /\ phase = "statting"
  /\ result' = file
  /\ GoOn("setting")
  /\ UNCHANGED <<modelVars, queue, late, resourceVars, fileVars, made, saves, failures>>

\* setContent on the backend: if the file has changed since, the user is asked.  When it is
\* rejected, run reports that, and the save is over.
SetContent ==
  /\ phase = "setting"
  /\ \/ WriteFile(content) /\ adrift' = FALSE
     \/ /\ file.version # result.version
        /\ Done /\ adrift' = TRUE
        /\ UNCHANGED <<result, file, changed, failures>>
     \/ /\ Fails
        /\ Done /\ adrift' = TRUE
        /\ UNCHANGED <<result, file, changed>>
  /\ UNCHANGED <<modelVars, queue, late, resourceVars, made, saves>>

\* Mutant: the token is not looked at after the file was written.
SavedAnyway ==
  /\ phase = "updated"
  /\ stat' = result.version
  /\ dirty' = FALSE
  /\ Done
  /\ UNCHANGED <<text, contentChanges, timer, queue, late, checks, result, fileVars, made,
                 saves, failures>>

\* Mutant: the content changes are dropped when they are saved, with those that came meanwhile.
SavedClearsChanges ==
  /\ phase = "updated"
  /\ stat' = result.version
  /\ dirty' = (dirty /\ cancelled)
  /\ contentChanges' = {}
  /\ Done
  /\ UNCHANGED <<text, timer, queue, late, checks, result, fileVars, made, saves, failures>>

\* The answer to a write: the resource keeps the stat, and the model is clean, unless the
\* save was cancelled meanwhile.
Saved ==
  /\ phase = "updated"
  /\ stat' = result.version
  /\ dirty' = (dirty /\ cancelled)
  /\ Done
  /\ UNCHANGED <<text, contentChanges, timer, queue, late, checks, result, fileVars, made,
                 saves, failures>>

\* doSync begins.
StartSync ==
  /\ phase = "idle"
  /\ queue # <<>>
  /\ Head(queue).op = "sync"
  /\ queue' = Tail(queue)
  /\ phase' = IF Head(queue).cancelled \/ dirty THEN "idle" ELSE "reading"
  /\ UNCHANGED <<modelVars, cancelled, changes, content, late, resourceVars, result, fileVars,
                 made, saves, failures>>

\* resolveContent on the backend.
ResolveContent ==
  /\ phase = "reading"
  /\ result' = file
  /\ GoOn("read")
  /\ UNCHANGED <<modelVars, queue, late, resourceVars, fileVars, made, saves, failures>>

\* The answer of readContents: the resource keeps the stat of what it has read.  If the text is not
\* replaced by it, the model has another text than the file with this stat; if it is, changes that
\* wait to be saved were made in a text that is gone.
ReadWith(skipped) ==
  /\ phase = "read"
  /\ stat' = result.version
  /\ text' = IF skipped THEN text ELSE result.content
  /\ adrift' = IF skipped THEN adrift \/ result.version # stat ELSE contentChanges # {}
  /\ Done
  /\ UNCHANGED <<dirty, timer, queue, late, checks, result, file, changed, made, saves, failures>>

\* Mutant: what was checked before the file was read is not checked again.
SyncedAnyway == ReadWith(FALSE) /\ UNCHANGED contentChanges

\* Mutant: the replacement counts as content changes (no ignoreContentChanges).
SyncedWithChanges ==
  /\ ReadWith(cancelled \/ dirty)
  /\ contentChanges' = contentChanges \cup (text' \ text)

\* The text is replaced (ignoreDirty, ignoreContentChanges), unless the user has edited it meanwhile
\* or another sync is to come.
Synced == ReadWith(cancelled \/ dirty) /\ UNCHANGED contentChanges

-----------------------------------------------------------------------------
Backend == UpdateContent \/ GetFileStat \/ SetContent \/ ResolveContent
Participant == \E fixes \in SUBSET Fixes : WillSaved(fixes)
Frontend ==
  \/ Timeout
  \/ StartSave \/ UpdateRefused \/ Saved
  \/ StartSync \/ Synced
  \/ FilesChanged
  \/ \E current \in checks : IsInSync(current)

Next ==
  \/ \E e \in Edits : Type(e)
  \/ Save
  \/ \E x \in External : ChangeFile(x)
  \/ \E fixes \in SUBSET Fixes : LateFixes(fixes)
  \/ Participant
  \/ Frontend
  \/ Backend

Spec == Init /\ [][Next]_vars

\* The event loops run what is due, the backend answers, and MonacoWorkspace.fireWillSave
\* answers after a second at the latest, whatever its own participants do.
FairSpec == Spec /\ WF_vars(Frontend) /\ WF_vars(Backend) /\ WF_vars(Participant)

-----------------------------------------------------------------------------
(* Properties. *)

TypeOK ==
  /\ text \subseteq Items
  /\ dirty \in BOOLEAN
  /\ contentChanges \subseteq Edits \cup Fixes
  /\ timer \in {"none", "armed", "cancelled"}
  /\ queue \in Seq([op : {"save", "sync"}, cancelled : BOOLEAN])
  /\ phase \in {"idle"} \cup SavePhases \cup SyncPhases
  /\ cancelled \in BOOLEAN
  /\ changes \subseteq Edits \cup Fixes
  /\ content \subseteq Items
  /\ late \in Nat
  /\ stat \in Nat
  /\ checks \subseteq Nat
  /\ result \in [version : Nat, content : SUBSET Items]
  /\ file \in [version : Nat, content : SUBSET Items]
  /\ changed \in BOOLEAN /\ adrift \in BOOLEAN
  /\ made \subseteq Items
  /\ saves \in 0..MaxSaves
  /\ failures \in 0..MaxFailures

\* What the user typed is not lost: an edit that is in the text or has reached the file stays in one
\* of them, whatever saves are cancelled, refused, failed or overtaken by edits, and whatever the file
\* watcher replaces the text by.  That is so but for a resource that is adrift: it has taken the stat
\* of a content that the model then did not take, or its changes were dropped by a save that ended
\* early, or were made (by a late participant) in a text that a sync replaced.  The next incremental
\* update is then accepted by the backend and applied to a text it was not made for.
NoEditLost ==
  [][\A e \in Edits :
       e \in text \cup file.content => e \in text' \cup file'.content \/ adrift]_vars

\* A model that is not dirty has nothing to save: every edit in it is in the file (unless the resource
\* is adrift, see above).  The dirty flag is cleared by an answer that comes after more edits, and the
\* changes of a save that was cancelled half-way are gone from contentChanges, so both are easily
\* wrong.  (It relies on autosave, whose restart cancels the running save; see UnpersistedIsDirty.)
CleanMeansSaved == ~dirty /\ ~adrift => text \cap Edits \subseteq file.content

\* Changes that the backend accepts were made in the text that the file holds: the stat, the model's
\* contentChanges and the text go together, over saves, syncs, cancellations and failures.  The three
\* ways in which they come apart are the ones of adrift, and writing the whole content, or reading the
\* file when nothing waits to be saved, puts them right again.
UpdatesFit ==
  phase = "updating" /\ file.version = stat /\ ~adrift => MadeInFile

\* "`true` if there are unpersisted changes." (plugin/src/theia.d.ts:1102) says isDirty, which
\* plugins are given model.dirty as (plugin-ext/src/main/browser/documents-main.ts:41): while
\* the text has an edit that the file has not, the model is dirty, whatever the preference
\* editor.autoSave.
UnpersistedIsDirty == (text \cap Edits) \ file.content # {} => dirty

\* A change that another program made to the file is overwritten only by a setContent that
\* found the file changed, and so has asked the user ("Tests whether the given file can be
\* overwritten in the case if it is out of sync", filesystem/src/common/filesystem.ts:114).
OverwritesAsked ==
  [][\A x \in External :
       x \in file.content /\ x \notin file'.content
         => phase = "setting" /\ file.version # result.version]_vars

\* With autosave, and as long as no other program changes the file, no write fails and the resource is
\* not adrift, every edit reaches the file: the timers, cancellations and retries of saving do not
\* leave one behind.
EditsReachFile ==
  [](made \cap External = {} /\ failures = 0 /\ ~adrift)
    => <>[](made \cap Edits \subseteq file.content)
=============================================================================
