------------------------------- MODULE GitStatus -------------------------------
(***************************************************************************)
(* Polling the status of one git repository (packages/git, backend): the   *)
(* GitRepositoryWatcher that GitRepositoryManager has, the                 *)
(* DugiteGitWatcherServer of each connection, which holds references to it *)
(* and forwards its events, and the git operations that ask for a status   *)
(* when they end.                                                          *)
(*                                                                         *)
(* A watcher whose last reference is disposed leaves the manager, and the  *)
(* next one to ask gets a new object; what the old one has scheduled or    *)
(* started goes on, heard by nobody: of such a stray only its being there  *)
(* is kept.  An acquire and what follows it run in microtasks of one       *)
(* message or of one exit of git, so they are one step here.               *)
(***************************************************************************)
EXTENDS Naturals, Sequences, SequencesExt

CONSTANTS
  Pages,          \* connections to the watcher service; a closed one can come again
  Statuses,       \* working directory statuses
  Gone, None,     \* no repository there; no status or no watcher
  MaxStrays,      \* bound: watchers that poll although nobody has them
  MaxRunning,     \* bound: git status processes of the watcher
  MaxReferences,  \* bound: watches of one connection
  MaxChanges,     \* bound: changes of the working directory
  MaxErrors       \* bound: runs of git status that fail

\* A run of git status and a watcher, as records.
Runs == [initial : BOOLEAN, read : Statuses \cup {Gone, None}]
Watchers == [status : Statuses \cup {None}, timer : BOOLEAN, initial : BOOLEAN,
             watched : BOOLEAN, running : Seq(Runs)]

ASSUME GitStatusAssumption ==
  /\ Gone \notin Statuses /\ None \notin Statuses /\ Gone # None
  /\ None \notin Watchers
  /\ {MaxStrays, MaxRunning, MaxReferences, MaxChanges, MaxErrors} \subseteq Nat

VARIABLES
  watcher,      \* the GitRepositoryWatcher of the manager, or None
  strays,       \* number of watchers that left the manager and still poll
  references,   \* page -> number of references its server holds
  heard,        \* page -> the last status it was told since it watches
  repository,   \* the status of the working directory, or Gone
  changes, errors,
  gaveUp,       \* the watcher found no repository and was not scheduled since
  lostInitial   \* the last initial status of the watcher ended in an error

vars == <<watcher, strays, references, heard, repository, changes, errors, gaveUp, lostInitial>>

NewWatcher ==
  [status |-> None, timer |-> FALSE, initial |-> TRUE, watched |-> FALSE, running |-> <<>>]

Init ==
  /\ watcher = None /\ strays = 0
  /\ references = [p \in Pages |-> 0]
  /\ heard = [p \in Pages |-> None]
  /\ repository \in Statuses
  /\ changes = 0 /\ errors = 0
  /\ gaveUp = FALSE /\ lostInitial = FALSE

-----------------------------------------------------------------------------
(* The methods of a GitRepositoryWatcher, as functions of the object. *)

Polls(w) == w.timer \/ w.running # <<>>

Clear(w) == [w EXCEPT !.timer = FALSE]

\* schedule: with any delay; a timer that is set stays as it is.
Schedule(w) == [w EXCEPT !.timer = TRUE]

\* Mutant: watch does not ask for an initial status again.
WatchedAgain(w) == Schedule([w EXCEPT !.watched = TRUE])

\* Mutant: schedule(true) clears the timer, and sets no other.
WatchedCleared(w) ==
  LET watched == [w EXCEPT !.watched = TRUE, !.initial = TRUE]
  IN  IF w.timer THEN Clear(watched) ELSE Schedule(watched)

\* watch: schedule(true) clears the timer of a watcher that is not initial any more, and
\* sets it again.
Watched(w) == Schedule([w EXCEPT !.watched = TRUE, !.initial = TRUE])

\* dispose: nothing to dispose of unless it was watched.
Disposed(w) == IF w.watched THEN [Clear(w) EXCEPT !.watched = FALSE] ELSE w

-----------------------------------------------------------------------------
(* The manager and the servers. *)

\* acquire: the watcher there is, or a new one.
Acquired == IF watcher = None THEN NewWatcher ELSE watcher

\* watchGitChanges: the first watch of a page subscribes to the events.
Watch(p) ==
  /\ watcher = None => strays < MaxStrays
  /\ references[p] < MaxReferences
  /\ watcher' = Watched(Acquired)
  /\ references' = [references EXCEPT ![p] = @ + 1]
  /\ gaveUp' = FALSE
  /\ lostInitial' = FALSE
  /\ UNCHANGED <<strays, heard, repository, changes, errors>>

\* Mutant: the watcher is disposed of with the last reference of a page.
ReleaseOwn(p, n) ==
  LET left == [references EXCEPT ![p] = @ - n]
      last == left[p] = 0
  IN  /\ references' = left
      /\ heard' = [heard EXCEPT ![p] = IF left[p] = 0 THEN None ELSE @]
      /\ watcher' = IF last THEN None ELSE watcher
      /\ strays' = IF last /\ watcher # None /\ Polls(Disposed(watcher)) THEN strays + 1 ELSE strays
      /\ gaveUp' = (~last /\ gaveUp)
      /\ lostInitial' = (~last /\ lostInitial)
      /\ UNCHANGED <<repository, changes, errors>>

\* The server of p disposes of n references: with its last one it unsubscribes, and with
\* the last of all the watcher is disposed of and leaves the manager.
Release(p, n) ==
  LET left == [references EXCEPT ![p] = @ - n]
      last == \A q \in Pages : left[q] = 0
  IN  /\ references' = left
      /\ heard' = [heard EXCEPT ![p] = IF left[p] = 0 THEN None ELSE @]
      /\ watcher' = IF last THEN None ELSE watcher
      /\ strays' = IF last /\ Polls(Disposed(watcher)) THEN strays + 1 ELSE strays
      /\ gaveUp' = (~last /\ gaveUp)
      /\ lostInitial' = (~last /\ lostInitial)
      /\ UNCHANGED <<repository, changes, errors>>

\* unwatchGitChanges
Unwatch(p) == references[p] > 0 /\ Release(p, 1)

\* The connection of p is closed.
Close(p) == references[p] > 0 /\ Release(p, references[p])

\* A git operation has ended: sync acquires the watcher, releases it and only then clears
\* and schedules it.  When nobody watches, that is a new watcher, disposed of before it is
\* scheduled.
Sync ==
  LET synced == Schedule(Clear(Acquired))
  IN  /\ IF watcher = None
         THEN strays < MaxStrays /\ strays' = strays + 1 /\ UNCHANGED watcher
         ELSE watcher' = synced /\ UNCHANGED strays
      /\ gaveUp' = FALSE
      /\ UNCHANGED <<references, heard, repository, changes, errors, lostInitial>>

-----------------------------------------------------------------------------
(* The timer, and the processes that read the status. *)

\* The timer runs out and syncStatus starts git status.
TimerFires ==
  /\ watcher # None
  /\ watcher.timer
  /\ Len(watcher.running) < MaxRunning
  /\ watcher' = [watcher EXCEPT !.timer = FALSE, !.initial = FALSE,
       !.running = Append(@, [initial |-> watcher.initial, read |-> None])]
  /\ UNCHANGED <<strays, references, heard, repository, changes, errors, gaveUp, lostInitial>>

\* git status looks at the working directory.
Read(n) ==
  /\ watcher.running[n].read = None
  /\ watcher' = [watcher EXCEPT !.running[n].read = repository]
  /\ UNCHANGED <<strays, references, heard, repository, changes, errors, gaveUp, lostInitial>>

\* The watcher without its n-th run.
Ended(n) == [watcher EXCEPT !.running = RemoveAt(@, n)]
LostBy(n) == lostInitial \/ watcher.running[n].initial

\* It answers: a new or an initial status is kept and told, and the next one is scheduled.
StatusRead(n) ==
  LET run == watcher.running[n]
      told == run.initial \/ run.read # watcher.status
  IN  /\ run.read \in Statuses
      /\ watcher' = Schedule(IF told THEN [Ended(n) EXCEPT !.status = run.read] ELSE Ended(n))
      /\ heard' = [p \in Pages |-> IF told /\ references[p] > 0 THEN run.read ELSE heard[p]]
      /\ lostInitial' = (lostInitial /\ ~run.initial)
      /\ UNCHANGED <<strays, references, repository, changes, errors, gaveUp>>

\* There is no repository: nothing is scheduled.
RepositoryMissing(n) ==
  /\ watcher.running[n].read = Gone
  /\ watcher' = Ended(n)
  /\ gaveUp' = ~Polls(Ended(n))
  /\ lostInitial' = LostBy(n)
  /\ UNCHANGED <<strays, references, heard, repository, changes, errors>>

\* Any other error is logged, and the next status is scheduled.
StatusError(n) ==
  /\ errors < MaxErrors
  /\ errors' = errors + 1
  /\ watcher' = Schedule(Ended(n))
  /\ lostInitial' = LostBy(n)
  /\ UNCHANGED <<strays, references, heard, repository, changes, gaveUp>>

RunGoesOn(n) ==
  /\ watcher # None
  /\ n \in DOMAIN watcher.running
  /\ Read(n) \/ StatusRead(n) \/ RepositoryMissing(n) \/ StatusError(n)

\* A stray finds no repository, and stops.
StrayStops ==
  /\ strays > 0
  /\ repository = Gone
  /\ strays' = strays - 1
  /\ UNCHANGED <<watcher, references, heard, repository, changes, errors, gaveUp, lostInitial>>

\* The working directory changes, by an operation or by another program.
Change ==
  /\ changes < MaxChanges
  /\ changes' = changes + 1
  /\ repository' \in (Statuses \cup {Gone}) \ {repository}
  /\ UNCHANGED <<watcher, strays, references, heard, errors, gaveUp, lostInitial>>

-----------------------------------------------------------------------------
Next ==
  \/ \E p \in Pages : Watch(p) \/ Unwatch(p) \/ Close(p)
  \/ Sync \/ TimerFires \/ StrayStops \/ Change
  \/ \E n \in 1..MaxRunning : RunGoesOn(n)

\* The event loop of the backend fires the timer when it is due, and the git process that
\* has run longest ends.
Fairness == WF_vars(TimerFires) /\ WF_vars(RunGoesOn(1))

Spec == Init /\ [][Next]_vars /\ Fairness

-----------------------------------------------------------------------------
(* Properties. *)

\* The watcher is well formed, and the manager has one exactly while a connection holds a
\* reference to it.
TypeOK ==
  /\ watcher \in Watchers \cup {None}
  /\ watcher # None => watcher.watched /\ Len(watcher.running) <= MaxRunning
  /\ strays \in 0..MaxStrays
  /\ references \in [Pages -> 0..MaxReferences]
  /\ watcher # None <=> \E p \in Pages : references[p] > 0
  /\ heard \in [Pages -> Statuses \cup {None}]
  /\ repository \in Statuses \cup {Gone}
  /\ changes \in 0..MaxChanges /\ errors \in 0..MaxErrors
  /\ gaveUp \in BOOLEAN /\ lostInitial \in BOOLEAN

\* A repository that is watched is polled: its watcher has a timer or a git status that
\* runs, in every order in which pages come and go and operations and polls end, unless git
\* found no repository there.
WatchedIsPolled == watcher # None => Polls(watcher) \/ gaveUp

\* A watcher nobody has a reference to goes on polling in two cases only: its last reference
\* went while git status ran, which schedules the next one, or an operation ended on a
\* repository that nobody watches.  (Both go on as long as there is a repository.)
StraysExplained ==
  [][strays' > strays => watcher = None \/ watcher.running # <<>>]_vars

\* A page that keeps watching hears the status at which the working directory stays, also
\* when another page has watched before it and when runs of git status end out of order,
\* unless the status that was to tell it first ended in an error.
PagesLearnStatus ==
  \A p \in Pages, s \in Statuses :
    <>[](repository = s /\ references[p] > 0 /\ ~gaveUp /\ ~lostInitial) => <>[](heard[p] = s)
=============================================================================
