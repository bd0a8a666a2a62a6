------------------------------ MODULE GitTracking ------------------------------
(***************************************************************************)
(* Following the selected git repository (packages/git): the               *)
(* GitRepositoryTracker of a page, the ReconnectingGitWatcherServer below  *)
(* it, and the DugiteGitWatcherServer that the backend makes for each      *)
(* connection (its polling is in GitStatus).  Each change of the selected  *)
(* repository runs a handler of the tracker, which watches it and asks for *)
(* its status; nothing keeps one handler from overtaking another.          *)
(*                                                                         *)
(* A handler asks for one watch, so the local ids 1, 2, ... number the     *)
(* handlers too.  Of a status only the repository it is of is kept.  Calls *)
(* made while the connection is closed wait for the next one; calls that   *)
(* it closes on are rejected.                                              *)
(***************************************************************************)
EXTENDS Naturals, Sequences, FiniteSets, SequencesExt

CONSTANTS
  Repositories,
  NoRepository,           \* no repository
  MaxSessions,    \* bound: connections opened one after the other
  MaxSelections,  \* bound: selections of a repository
  MaxEvents       \* bound: changes of a status that are told

ASSUME TrackingAssumption ==
  /\ NoRepository \notin Repositories
  /\ {MaxSessions, MaxSelections, MaxEvents} \subseteq Nat

VARIABLES
  selected,       \* selectedRepository of the GitRepositoryProvider
  handlers,       \* local id -> [repository, state] of the handler that watches
  toDispose,      \* the local ids the tracker unwatches, and listens for, in order
  shown,          \* the repository that workingDirectoryStatus is of, or NoRepository
  asked,          \* the local ids whose git.status is not answered
  startStatus,    \* "todo", "done", or the repository whose status init asks for
  watchParams,    \* the local ids that are watched
  localToRemote,  \* local id -> remote id, or 0
  session, connected,
  waiting,        \* requests that wait for a connection
  up, down,       \* what the connection carries
  remotes,        \* the server: remote id -> [id, live]
  events,
  robbed          \* local ids whose remote watcher another id's unwatch stopped

trackerVars == <<selected, handlers, toDispose, shown, asked, startStatus>>
serverVars == <<remotes, events, robbed>>
trackingVars == <<trackerVars, watchParams, localToRemote, session, connected, waiting, up, down,
          serverVars>>

Ids == 1..MaxSelections

TrackingInit ==
  /\ selected = NoRepository /\ shown = NoRepository /\ startStatus = "todo"
  /\ handlers = <<>> /\ toDispose = <<>> /\ asked = {}
  /\ watchParams = {}
  /\ localToRemote = [i \in Ids |-> 0]
  /\ session = 0 /\ connected = FALSE
  /\ waiting = <<>> /\ up = <<>> /\ down = <<>>
  /\ remotes = <<>> /\ events = 0 /\ robbed = {}

-----------------------------------------------------------------------------
(* Requests and the two things the server sends.  "first" tells the call a handler waits   *)
(* for from the one that reconnect repeats.                                                *)

WatchRequest(i, first) == [kind |-> "watch", id |-> i, first |-> first]
UnwatchRequest(i, r) == [kind |-> "unwatch", id |-> i, remote |-> r]
WatchAnswer(i, first, r) == [kind |-> "watched", id |-> i, first |-> first, remote |-> r]
Changed(repository) == [kind |-> "changed", repository |-> repository]

\* A call of the proxy: at once, or when there is a connection.
Send(requests) ==
  /\ up' = IF connected THEN up \o requests ELSE up
  /\ waiting' = IF connected THEN waiting ELSE waiting \o requests

\* unwatchGitChanges of local ids, in order, as a map and the requests made so far: the id
\* that is deleted from the map is the remote one.
UnwatchedAlso(acc, i) ==
  LET r == acc.map[i]
  IN  IF r = 0 THEN acc
      ELSE [map |-> [j \in Ids |-> IF j = r THEN 0 ELSE acc.map[j]],
            requests |-> Append(acc.requests, UnwatchRequest(i, r))]
Unwatched(is) ==
  LET after[n \in 0..Len(is)] ==
        IF n = 0 THEN [map |-> localToRemote, requests |-> <<>>] ELSE UnwatchedAlso(after[n - 1], is[n])
  IN  after[Len(is)]

-----------------------------------------------------------------------------
(* The page. *)

\* The selected repository is set, or found again by a refresh: onDidChangeRepository.
Select(repository) ==
  LET unwatched == Unwatched(Reverse(toDispose))
      i == Len(handlers) + 1
      watches == repository # NoRepository
  IN  /\ i \in Ids
      /\ selected' = repository
      /\ shown' = NoRepository
      /\ toDispose' = <<>>
      /\ handlers' = IF watches
                     THEN Append(handlers, [repository |-> repository, state |-> "watching"])
                     ELSE handlers
      /\ watchParams' = (watchParams \ ToSet(toDispose)) \cup (IF watches THEN {i} ELSE {})
      /\ localToRemote' = unwatched.map
      /\ Send(unwatched.requests \o IF watches THEN <<WatchRequest(i, TRUE)>> ELSE <<>>)
      /\ UNCHANGED <<asked, startStatus, session, connected, down, serverVars>>

\* init asks for the status of what is selected then, if anything is.
InitAsks ==
  /\ startStatus = "todo"
  /\ startStatus' = IF selected = NoRepository THEN "done" ELSE selected
  /\ UNCHANGED <<selected, handlers, toDispose, shown, asked, watchParams, localToRemote,
                 session, connected, waiting, up, down, serverVars>>

InitAnswered ==
  /\ connected
  /\ startStatus \in Repositories
  /\ shown' = startStatus
  /\ startStatus' = "done"
  /\ UNCHANGED <<selected, handlers, toDispose, asked, watchParams, localToRemote,
                 session, connected, waiting, up, down, serverVars>>

Receive(kind) ==
  /\ down # <<>> /\ Head(down).kind = kind
  /\ down' = Tail(down)
  /\ UNCHANGED <<session, connected, waiting, up, serverVars>>

\* A watch is answered: its handler pushes what stops it, listens, and asks for the status.
ReceiveWatched ==
  LET i == Head(down).id
  IN  /\ Receive("watched")
      /\ localToRemote' = [localToRemote EXCEPT ![i] = Head(down).remote]
      /\ IF Head(down).first
         THEN /\ handlers' = [handlers EXCEPT ![i].state = "listening"]
              /\ toDispose' = Append(toDispose, i)
              /\ asked' = asked \cup {i}
         ELSE UNCHANGED <<handlers, toDispose, asked>>
      /\ UNCHANGED <<selected, shown, startStatus, watchParams>>

\* git.status of a handler is answered, whatever is selected by then.
StatusAnswered(i) ==
  /\ connected
  /\ i \in asked
  /\ asked' = asked \ {i}
  /\ shown' = handlers[i].repository
  /\ UNCHANGED <<selected, handlers, toDispose, startStatus, watchParams, localToRemote,
                 session, connected, waiting, up, down, serverVars>>

\* onGitChanged: every listener takes the status, whose ever it is.
ReceiveChanged ==
  /\ Receive("changed")
  /\ shown' = IF toDispose = <<>> THEN shown ELSE Head(down).repository
  /\ UNCHANGED <<selected, handlers, toDispose, asked, startStatus, watchParams, localToRemote>>

-----------------------------------------------------------------------------
(* Connection. *)

\* The ids of a set in the order of a Map, in which they were added.
Ascending(ids) ==
  {s \in [1..Cardinality(ids) -> ids] : ToSet(s) = ids /\ \A m, n \in DOMAIN s : m < n => s[m] < s[n]}

\* Mutant: the listener that repeats the watches is gone after the first connection.
ConnectOnce ==
  /\ ~connected
  /\ session < MaxSessions
  /\ session' = session + 1
  /\ connected' = TRUE
  /\ \E again \in Ascending(IF session = 0 THEN watchParams ELSE {}) :
       up' = waiting \o [n \in DOMAIN again |-> WatchRequest(again[n], FALSE)]
  /\ waiting' = <<>>
  /\ UNCHANGED <<trackerVars, watchParams, localToRemote, down, serverVars>>

\* A connection is opened, the first one too, with a new server: what waited for it is sent,
\* then reconnect repeats every watch, also those that have waited.
Connect ==
  /\ ~connected
  /\ session < MaxSessions
  /\ session' = session + 1
  /\ connected' = TRUE
  /\ \E again \in Ascending(watchParams) :
       up' = waiting \o [n \in DOMAIN again |-> WatchRequest(again[n], FALSE)]
  /\ waiting' = <<>>
  /\ UNCHANGED <<trackerVars, watchParams, localToRemote, down, serverVars>>

\* The connection is closed: its calls are rejected, which ends the handlers that wait, and
\* its server is disposed.
CloseConnection ==
  /\ connected
  /\ connected' = FALSE
  /\ up' = <<>> /\ down' = <<>>
  /\ remotes' = <<>> /\ robbed' = {}
  /\ handlers' = [i \in DOMAIN handlers |->
       IF handlers[i].state = "watching" THEN [handlers[i] EXCEPT !.state = "rejected"]
       ELSE handlers[i]]
  /\ asked' = {}
  /\ startStatus' = IF startStatus \in Repositories THEN "done" ELSE startStatus
  /\ UNCHANGED <<selected, toDispose, shown, watchParams, localToRemote, session, waiting,
                 events>>

-----------------------------------------------------------------------------
(* Server. *)

ServeWatch ==
  LET request == Head(up)
  IN  /\ up # <<>> /\ request.kind = "watch"
      /\ up' = Tail(up)
      /\ remotes' = Append(remotes, [id |-> request.id, live |-> TRUE])
      /\ down' = Append(down, WatchAnswer(request.id, request.first, Len(remotes) + 1))
      /\ UNCHANGED <<trackerVars, watchParams, localToRemote, session, connected, waiting,
                     events, robbed>>

\* An id that is not registered is refused, which nobody handles.
ServeUnwatch ==
  LET request == Head(up)
      r == request.remote
  IN  /\ up # <<>> /\ request.kind = "unwatch"
      /\ up' = Tail(up)
      /\ IF r \in DOMAIN remotes /\ remotes[r].live
         THEN /\ remotes' = [remotes EXCEPT ![r].live = FALSE]
              /\ robbed' = robbed \cup ({remotes[r].id} \ {request.id})
         ELSE UNCHANGED <<remotes, robbed>>
      /\ UNCHANGED <<trackerVars, watchParams, localToRemote, session, connected, waiting,
                     down, events>>

\* The status of a repository that this server is subscribed to changes.
TellChange(repository) ==
  /\ events < MaxEvents
  /\ \E r \in DOMAIN remotes :
       remotes[r].live /\ handlers[remotes[r].id].repository = repository
  /\ events' = events + 1
  /\ down' = Append(down, Changed(repository))
  /\ UNCHANGED <<trackerVars, watchParams, localToRemote, session, connected, waiting, up,
                 remotes, robbed>>

-----------------------------------------------------------------------------
TrackingNext ==
  \/ \E repository \in Repositories \cup {NoRepository} : Select(repository)
  \/ InitAsks \/ InitAnswered \/ \E i \in asked : StatusAnswered(i)
  \/ ReceiveWatched \/ ReceiveChanged
  \/ Connect \/ CloseConnection \/ ServeWatch \/ ServeUnwatch
  \/ \E repository \in Repositories : TellChange(repository)

TrackingSpec == TrackingInit /\ [][TrackingNext]_trackingVars

-----------------------------------------------------------------------------
(* Properties. *)

\* Local id i is asked for on this connection.
Asked(i) ==
  \/ \E n \in DOMAIN up : up[n].kind = "watch" /\ up[n].id = i
  \/ \E n \in DOMAIN down : down[n].kind = "watched" /\ down[n].id = i

\* The last selection is followed, over all reconnects, also when its watch was rejected with a
\* connection, which ends its handler: the server of a connection watches its repository or is
\* about to, and if the watch was answered to the handler, the tracker listens, and knows how to
\* stop it.  The exception is an unwatch of another id, sent while the repeated watches are not
\* answered, that stops it.
SelectedIsFollowed ==
  LET i == Len(handlers)
  IN  i > 0 /\ selected # NoRepository =>
        /\ handlers[i].repository = selected
        /\ i \in watchParams
        /\ handlers[i].state = "listening" => i \in ToSet(toDispose)
        /\ connected => \/ Asked(i) \/ i \in robbed
                        \/ \E r \in DOMAIN remotes : remotes[r].id = i /\ remotes[r].live

\* "Returns the last known status of the selected respository"
\* (git/src/browser/git-repository-tracker.ts:67).
StatusIsOfSelected == shown \in {selected, NoRepository}
=============================================================================
