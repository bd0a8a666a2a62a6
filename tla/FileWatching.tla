---------------------------- MODULE FileWatching ----------------------------
(***************************************************************************)
(* Watching files (packages/filesystem): the clients of FileSystemWatcher  *)
(* in the frontend, the ReconnectingFileSystemWatcherServer below it, and  *)
(* the NsfwFileSystemWatcherServer that the backend makes for each         *)
(* connection.  Local watcher ids outlive a connection; the remote ids     *)
(* they are mapped to are numbered anew by every server.                   *)
(*                                                                         *)
(* The connection is the proxy that JsonRpc models: calls made while it is *)
(* closed wait for the next one, calls it closes on are rejected.  Every   *)
(* client watches a path of its own.  A server whose connection is closed  *)
(* is disposed; what it does afterwards reaches nobody and is left out.    *)
(***************************************************************************)
EXTENDS Naturals, Sequences, FiniteSets, SequencesExt

CONSTANTS
  Clients,      \* callers of FileSystemWatcher.watchFileChanges, each with its uri
  Missing,      \* those whose path does not exist at first
  Unwatchable,  \* those whose path nsfw may fail to watch
  MaxSessions,  \* bound: connections opened one after the other
  MaxWatches,   \* bound: local watcher ids
  MaxChanges    \* bound: changes that watchers notice

ASSUME WatchingAssumption ==
  /\ Missing \subseteq Clients /\ Unwatchable \subseteq Clients
  /\ MaxSessions \in Nat /\ MaxWatches \in Nat /\ MaxChanges \in Nat

VARIABLES
  client,         \* client -> "idle", "asking", "watching", "stopped", "failed"
  toStop,         \* client -> the local id that its disposable stops, or 0
  toRestartAll,   \* the local ids to restart when the ignored patterns change
  owners,         \* the client of the local ids 1, 2, ...; the next is watcherSequence
  watchParams,    \* the local ids that are watched
  localToRemote,  \* local id -> remote id, or 0
  pending,        \* local ids whose promise is not settled
  session,        \* number of connections opened so far
  connected,
  waiting,        \* requests that wait for a connection
  up, down,       \* what the connection carries
  watchers,       \* the server: remote id -> [id, first, status]
  changes,        \* client -> the last change of its path in the debounced event, or 0
  exists,         \* the clients whose path exists
  noticed,        \* client -> number of changes of its path that watchers have noticed
  told,           \* client -> the last of them it was notified of
  rejected,       \* local ids whose promise was rejected
  robbed          \* local ids whose watcher on this server another id's unwatch stopped

clientVars == <<client, toStop, toRestartAll, owners, watchParams, localToRemote, pending,
                told, rejected>>
netVars == <<session, connected, waiting, up, down>>
serverVars == <<watchers, changes, robbed>>
fileVars == <<exists, noticed>>
vars == <<clientVars, netVars, serverVars, fileVars>>

Ids == 1..MaxWatches
Nowhere == [c \in Clients |-> 0]

\* The members of a finite set of numbers, in ascending order.
Ascending(S) ==
  [n \in 1..Cardinality(S) |-> CHOOSE i \in S : Cardinality({j \in S : j < i}) = n - 1]

Init ==
  /\ client = [c \in Clients |-> "idle"]
  /\ toStop = Nowhere
  /\ toRestartAll = <<>> /\ owners = <<>>
  /\ watchParams = {} /\ pending = {} /\ rejected = {}
  /\ localToRemote = [i \in Ids |-> 0]
  /\ session = 0 /\ connected = FALSE
  /\ waiting = <<>> /\ up = <<>> /\ down = <<>>
  /\ watchers = <<>> /\ changes = Nowhere /\ robbed = {}
  /\ exists = Clients \ Missing
  /\ noticed = Nowhere /\ told = Nowhere

-----------------------------------------------------------------------------
(* Requests, responses and the notification.  "first" tells the call a client waits for   *)
(* from the one that reconnect repeats.                                                   *)

WatchRequest(i, first) == [kind |-> "watch", id |-> i, first |-> first]
UnwatchRequest(i) == [kind |-> "unwatch", id |-> i, remote |-> localToRemote[i]]
Watched(i, first, r) == [kind |-> "watched", id |-> i, first |-> first, remote |-> r]
Refused(i, first) == [kind |-> "refused", id |-> i, first |-> first]
Changed(cs) == [kind |-> "changed", changes |-> cs]

\* A call of the proxy: at once, or when there is a connection.
Send(requests) ==
  /\ up' = IF connected THEN up \o requests ELSE up
  /\ waiting' = IF connected THEN waiting ELSE waiting \o requests
  /\ UNCHANGED <<session, connected, down>>

\* unwatchFileChanges of local ids, in order: only those with a remote id make a call.
Unwatches(is) ==
  LET mapped == Ascending({n \in DOMAIN is : localToRemote[is[n]] # 0})
  IN  [n \in DOMAIN mapped |-> UnwatchRequest(is[mapped[n]])]

Forget(is) ==
  localToRemote' = [i \in Ids |-> IF i \in ToSet(is) THEN 0 ELSE localToRemote[i]]

-----------------------------------------------------------------------------
(* Frontend. *)

Watch(c) ==
  LET i == Len(owners) + 1
  IN  /\ client[c] = "idle"
      /\ i \in Ids
      /\ client' = [client EXCEPT ![c] = "asking"]
      /\ owners' = Append(owners, c)
      /\ watchParams' = watchParams \cup {i}
      /\ pending' = pending \cup {i}
      /\ Send(<<WatchRequest(i, TRUE)>>)
      /\ UNCHANGED <<toStop, toRestartAll, localToRemote, told, rejected, serverVars, fileVars>>

\* Mutant: unwatchFileChanges does not delete the watchParams.
DisposeKeepsParams(c) ==
  LET is == IF toStop[c] = 0 THEN <<>> ELSE <<toStop[c]>>
  IN  /\ client[c] = "watching"
      /\ client' = [client EXCEPT ![c] = "stopped"]
      /\ toStop' = [toStop EXCEPT ![c] = 0]
      /\ Forget(is)
      /\ Send(Unwatches(is))
      /\ UNCHANGED <<watchParams, toRestartAll, owners, pending, told, rejected, serverVars, fileVars>>

\* A client disposes what watchFileChanges returned.  While its watch is being restarted,
\* that collection is empty.
Dispose(c) ==
  LET is == IF toStop[c] = 0 THEN <<>> ELSE <<toStop[c]>>
  IN  /\ client[c] = "watching"
      /\ client' = [client EXCEPT ![c] = "stopped"]
      /\ toStop' = [toStop EXCEPT ![c] = 0]
      /\ watchParams' = watchParams \ ToSet(is)
      /\ Forget(is)
      /\ Send(Unwatches(is))
      /\ UNCHANGED <<toRestartAll, owners, pending, told, rejected, serverVars, fileVars>>

\* The preference files.watcherExclude changes: everything in toRestartAll is stopped, last
\* in first out, and watched again under a new id.
PreferenceChanged ==
  LET is == Reverse(toRestartAll)
      new == [n \in DOMAIN is |-> Len(owners) + n]
  IN  /\ is # <<>>
      /\ ToSet(new) \subseteq Ids
      /\ toRestartAll' = <<>>
      /\ owners' = owners \o [n \in DOMAIN is |-> owners[is[n]]]
      /\ toStop' = [c \in Clients |-> IF toStop[c] \in ToSet(is) THEN 0 ELSE toStop[c]]
      /\ watchParams' = (watchParams \ ToSet(is)) \cup ToSet(new)
      /\ pending' = pending \cup ToSet(new)
      /\ Forget(is)
      /\ Send(Unwatches(is) \o [n \in DOMAIN new |-> WatchRequest(new[n], TRUE)])
      /\ UNCHANGED <<client, told, rejected, serverVars, fileVars>>

Receive(kind) == down # <<>> /\ Head(down).kind = kind /\ down' = Tail(down)

\* Mutant: the answers to what reconnect repeats are not looked at.
ReceiveWatchedFirst ==
  LET i == Head(down).id
      c == owners[i]
  IN  /\ Receive("watched")
      /\ IF Head(down).first
         THEN /\ localToRemote' = [localToRemote EXCEPT ![i] = Head(down).remote]
              /\ pending' = pending \ {i}
              /\ client' = [client EXCEPT ![c] = IF @ = "asking" THEN "watching" ELSE @]
              /\ toStop' = [toStop EXCEPT ![c] = IF client[c] = "stopped" THEN 0 ELSE i]
              /\ toRestartAll' = Append(toRestartAll, i)
         ELSE UNCHANGED <<localToRemote, pending, client, toStop, toRestartAll>>
      /\ UNCHANGED <<owners, watchParams, told, rejected, session, connected, waiting, up,
                     serverVars, fileVars>>

\* A watch request is answered; the disposable of a watch that was restarted is pushed to
\* its client's collection.
ReceiveWatched ==
  LET i == Head(down).id
      c == owners[i]
  IN  /\ Receive("watched")
      /\ localToRemote' = [localToRemote EXCEPT ![i] = Head(down).remote]
      /\ IF Head(down).first
         THEN /\ pending' = pending \ {i}
              /\ client' = [client EXCEPT ![c] = IF @ = "asking" THEN "watching" ELSE @]
              /\ toStop' = [toStop EXCEPT ![c] = IF client[c] = "stopped" THEN 0 ELSE i]
              /\ toRestartAll' = Append(toRestartAll, i)
         ELSE UNCHANGED <<pending, client, toStop, toRestartAll>>
      /\ UNCHANGED <<owners, watchParams, told, rejected, session, connected, waiting, up,
                     serverVars, fileVars>>

\* The promises of local ids are rejected: nobody deletes their watchParams.
RejectAll(is) ==
  /\ pending' = pending \ is
  /\ rejected' = rejected \cup is
  /\ client' = [c \in Clients |->
       IF client[c] = "asking" /\ \E i \in is : owners[i] = c THEN "failed" ELSE client[c]]
  /\ UNCHANGED <<toStop, toRestartAll, owners, watchParams, localToRemote, told>>

ReceiveRefused ==
  /\ Receive("refused")
  /\ RejectAll(IF Head(down).first THEN {Head(down).id} ELSE {})
  /\ UNCHANGED <<session, connected, waiting, up, serverVars, fileVars>>

ReceiveChanged ==
  /\ Receive("changed")
  /\ told' = [c \in Clients |->
       IF Head(down).changes[c] = 0 THEN told[c] ELSE Head(down).changes[c]]
  /\ UNCHANGED <<client, toStop, toRestartAll, owners, watchParams, localToRemote, pending,
                 rejected, session, connected, waiting, up, serverVars, fileVars>>

-----------------------------------------------------------------------------
(* Connection. *)

\* Mutant: reconnect repeats the watches that have a remote id.
ConnectRepeatsMapped ==
  LET again == Ascending({i \in watchParams : localToRemote[i] # 0})
  IN  /\ ~connected
      /\ session < MaxSessions
      /\ session' = session + 1
      /\ connected' = TRUE
      /\ up' = waiting \o IF session = 0 THEN <<>>
                          ELSE [n \in DOMAIN again |-> WatchRequest(again[n], FALSE)]
      /\ waiting' = <<>>
      /\ UNCHANGED <<down, clientVars, serverVars, fileVars>>

\* A connection is opened, with a new server: what waited for it is sent and then, but for
\* the first connection, reconnect repeats every watch.
Connect ==
  LET again == Ascending(watchParams)
  IN  /\ ~connected
      /\ session < MaxSessions
      /\ session' = session + 1
      /\ connected' = TRUE
      /\ up' = waiting \o IF session = 0 THEN <<>>
                          ELSE [n \in DOMAIN again |-> WatchRequest(again[n], FALSE)]
      /\ waiting' = <<>>
      /\ UNCHANGED <<down, clientVars, serverVars, fileVars>>

\* The connection is closed: what it carries is lost, its calls are rejected and its server
\* is disposed.
Close ==
  /\ connected
  /\ connected' = FALSE
  /\ up' = <<>> /\ down' = <<>>
  /\ watchers' = <<>> /\ changes' = Nowhere /\ robbed' = {}
  /\ RejectAll(pending)
  /\ UNCHANGED <<session, waiting, fileVars>>

-----------------------------------------------------------------------------
(* Server. *)

Respond(messages) ==
  /\ down' = down \o messages
  /\ UNCHANGED <<session, connected, waiting, clientVars>>

\* watchFileChanges: a path that does not exist is polled, and that is answered at once.
ServeWatch ==
  LET request == Head(up)
      found == owners[request.id] \in exists
  IN  /\ up # <<>> /\ request.kind = "watch"
      /\ up' = Tail(up)
      /\ watchers' = Append(watchers,
           [id |-> request.id, first |-> request.first,
            status |-> IF found THEN "starting" ELSE "polling"])
      /\ Respond(IF found THEN <<>>
                 ELSE <<Watched(request.id, request.first, Len(watchers) + 1)>>)
      /\ UNCHANGED <<changes, robbed, fileVars>>

\* Mutant: stopping a watcher stops the debounce timer.
ServeUnwatchStopsTimer ==
  LET request == Head(up)
      r == request.remote
  IN  /\ up # <<>> /\ request.kind = "unwatch"
      /\ up' = Tail(up)
      /\ IF r \in DOMAIN watchers /\ watchers[r].status = "running"
         THEN /\ watchers' = [watchers EXCEPT ![r].status = "stopped"]
              /\ changes' = Nowhere
              /\ robbed' = robbed \cup ({watchers[r].id} \ {request.id})
         ELSE UNCHANGED <<watchers, changes, robbed>>
      /\ Respond(<<>>)
      /\ UNCHANGED fileVars

\* unwatchFileChanges: only a watcher that has started is in the map of watchers.
ServeUnwatch ==
  LET request == Head(up)
      r == request.remote
  IN  /\ up # <<>> /\ request.kind = "unwatch"
      /\ up' = Tail(up)
      /\ IF r \in DOMAIN watchers /\ watchers[r].status = "running"
         THEN /\ watchers' = [watchers EXCEPT ![r].status = "stopped"]
              /\ robbed' = robbed \cup ({watchers[r].id} \ {request.id})
         ELSE UNCHANGED <<watchers, robbed>>
      /\ Respond(<<>>)
      /\ UNCHANGED <<changes, fileVars>>

\* start goes on: nsfw has started to watch, or has failed.  Nobody waits for that when the
\* path was polled.
Started(r) ==
  /\ watchers[r].status \in {"starting", "found"}
  /\ watchers' = [watchers EXCEPT ![r].status = "running"]
  /\ Respond(IF watchers[r].status = "found" THEN <<>>
             ELSE <<Watched(watchers[r].id, watchers[r].first, r)>>)
  /\ UNCHANGED <<up, changes, robbed, fileVars>>

StartFails(r) ==
  /\ watchers[r].status \in {"starting", "found"}
  /\ owners[watchers[r].id] \in Unwatchable
  /\ watchers' = [watchers EXCEPT ![r].status = "failed"]
  /\ Respond(IF watchers[r].status = "found" THEN <<>>
             ELSE <<Refused(watchers[r].id, watchers[r].first)>>)
  /\ UNCHANGED <<up, changes, robbed, fileVars>>

\* The path of c changes: the debounce timer is started again.
PushFileChange(c) ==
  /\ SumFunction(noticed) < MaxChanges
  /\ noticed' = [noticed EXCEPT ![c] = @ + 1]
  /\ changes' = [changes EXCEPT ![c] = noticed'[c]]

\* The interval of a path that did not exist finds it: it is reported as added.
Poll(r) ==
  /\ watchers[r].status = "polling"
  /\ owners[watchers[r].id] \in exists
  /\ watchers' = [watchers EXCEPT ![r].status = "found"]
  /\ PushFileChange(owners[watchers[r].id])
  /\ UNCHANGED <<clientVars, netVars, robbed, exists>>

\* nsfw calls back with a change that a watcher has noticed.
Notice(r) ==
  /\ watchers[r].status = "running"
  /\ PushFileChange(owners[watchers[r].id])
  /\ UNCHANGED <<clientVars, netVars, watchers, robbed, exists>>

\* The debounce timer.
FireDidFilesChanged ==
  /\ changes # Nowhere
  /\ changes' = Nowhere
  /\ Respond(<<Changed(changes)>>)
  /\ UNCHANGED <<up, watchers, robbed, fileVars>>

\* The path of a client appears.
CreateFile(c) ==
  /\ c \notin exists
  /\ exists' = exists \cup {c}
  /\ UNCHANGED <<clientVars, netVars, serverVars, noticed>>

-----------------------------------------------------------------------------
Receives == ReceiveWatched \/ ReceiveRefused \/ ReceiveChanged
Serves == ServeWatch \/ ServeUnwatch

Next ==
  \/ \E c \in Clients : Watch(c) \/ Dispose(c) \/ CreateFile(c)
  \/ PreferenceChanged \/ Connect \/ Close
  \/ Receives \/ Serves \/ FireDidFilesChanged
  \/ \E r \in DOMAIN watchers : Started(r) \/ StartFails(r) \/ Poll(r) \/ Notice(r)

Spec == Init /\ [][Next]_vars

\* Messages arrive and the debounce timer runs.
FairSpec == Spec /\ WF_vars(Receives) /\ WF_vars(FireDidFilesChanged)

-----------------------------------------------------------------------------
(* Properties. *)

TypeOK ==
  /\ client \in [Clients -> {"idle", "asking", "watching", "stopped", "failed"}]
  /\ toStop \in [Clients -> Ids \cup {0}]
  /\ toRestartAll \in Seq(Ids)
  /\ owners \in Seq(Clients) /\ Len(owners) <= MaxWatches
  /\ watchParams \subseteq 1..Len(owners)
  /\ pending \subseteq watchParams
  /\ rejected \subseteq watchParams
  /\ localToRemote \in [Ids -> Nat]
  /\ session \in 0..MaxSessions /\ connected \in BOOLEAN
  /\ connected => waiting = <<>>
  /\ ~connected => up = <<>> /\ down = <<>> /\ watchers = <<>> /\ changes = Nowhere
  /\ \A r \in DOMAIN watchers :
       /\ watchers[r].id \in 1..Len(owners) /\ watchers[r].first \in BOOLEAN
       /\ watchers[r].status \in {"starting", "polling", "found", "running", "stopped", "failed"}
  /\ exists \subseteq Clients
  /\ noticed \in [Clients -> Nat]
  /\ \A c \in Clients : changes[c] \in 0..noticed[c] /\ told[c] \in 0..noticed[c]
  /\ robbed \subseteq 1..Len(owners)

\* A local id is asked for on this connection.
Asked(i) ==
  \/ \E n \in DOMAIN up : up[n].kind = "watch" /\ up[n].id = i
  \/ \E r \in DOMAIN watchers : watchers[r].id = i /\ watchers[r].status \in {"starting", "failed"}
  \/ \E n \in DOMAIN down : down[n].kind = "watched" /\ down[n].id = i

\* Once a connection has answered for a local id, and nsfw has not failed, the remote id it
\* is mapped to is that of a watcher this server made for it.
IdsAgree ==
  \A i \in watchParams :
    connected /\ localToRemote[i] # 0 /\ ~Asked(i) =>
      localToRemote[i] \in DOMAIN watchers /\ watchers[localToRemote[i]].id = i

\* What clients want to be watched is, over all reconnects: the request is on its way or
\* this server has a watcher for it (which nsfw may have refused), except for a watcher that
\* the unwatch of another id has stopped.
WantedIsWatched ==
  \A i \in watchParams :
    connected /\ i \notin robbed =>
      \/ Asked(i)
      \/ \E r \in DOMAIN watchers : watchers[r].id = i /\ watchers[r].status # "stopped"

\* A watch that no client can stop any more is one whose promise was rejected, or one that
\* was restarted for a client that had stopped it.
OrphansExplained ==
  \A i \in watchParams \ (pending \cup rejected) :
    \/ toStop[owners[i]] = i
    \/ client[owners[i]] = "stopped" /\ \E j \in 1..i - 1 : owners[j] = owners[i]

\* A change that a watcher notices reaches its client, even if the watcher is stopped while
\* the debounce timer runs, unless the connection closes.
ChangesReachClient ==
  \A c \in Clients, k \in 1..MaxChanges : changes[c] = k ~> told[c] >= k \/ ~connected

\* "Stop file watching for the given id." (filesystem/common/filesystem-watcher-protocol.ts:23):
\* a watch that nobody stops goes on.
StopsGivenId ==
  \A i \in watchParams :
    connected =>
      Asked(i) \/ \E r \in DOMAIN watchers : watchers[r].id = i /\ watchers[r].status # "stopped"
=============================================================================
