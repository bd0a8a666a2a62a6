------------------------- MODULE SearchInWorkspace -------------------------
(***************************************************************************)
(* Search in workspace: the tree of results and the service of a page, and *)
(* the server behind a connection, which runs ripgrep.  The user types     *)
(* while a search runs, and every key starts the next search; ids are      *)
(* counted by the server of a connection, from zero.  The channel of the   *)
(* proxy is WsChannels's: a socket is open here when the proxy's channel   *)
(* on it is ready, and calls wait until then.  A server whose socket has   *)
(* closed runs on unheard, and is left out.                                *)
(***************************************************************************)
EXTENDS Integers, Sequences, FiniteSets, SequencesExt

CONSTANTS
    Files,       \* the files of the workspace
    KnownIcons,  \* those whose icon the page knows by their name
    MaxResults,  \* maxResults of the widget
    MaxMatches,  \* how many matches a file has at most
    MaxSearches, \* how many searches the user starts
    MaxSockets   \* how often the page gets a connection

ASSUME SearchAssumption ==
    /\ KnownIcons \subseteq Files
    /\ MaxResults \in Nat \ {0}
    /\ {MaxMatches, MaxSearches, MaxSockets} \subseteq Nat

Searches == 1 .. MaxSearches
Ids == 0 .. MaxSearches - 1
None == -1
Match == [search : Searches, file : Files, number : 1 .. MaxMatches]

VARIABLES
    latest,    \* the search that the widget started last: the tokens of those before are cancelled
    term,      \* whether the search term is not empty
    listening, \* the id that the latest search's token cancels, when it is known
    tree,      \* resultTree: the matches under every file
    shown,     \* the children of the model's root, as they were when it was refreshed
    icons,     \* the matches whose file's icon has been asked for
    pending,   \* pendingSearches: the search of an id, or None
    stashed,   \* pendingOnDones: ends that have come before their ids
    lastKnown, \* lastKnownSearchId
    timers,    \* callbacks of setTimeout, in order
    calls,     \* calls that wait for a connection
    socket,    \* the number of the socket, and whether it is open with the proxy's channel ready
    handler,   \* whether a channel or a listener has the handler of the proxy
    up, down,  \* messages of the open socket
    nextId,    \* nextSearchId of the connection's server
    runs,      \* the processes of its searches
    found,     \* history: the matches of the latest search that the server has sent before its end
    ended,     \* history: the latest search whose end has refreshed the tree
    lost,      \* history: searches whose socket closed before their end came, those whose end came
               \* before their id and was not kept, and those that were given another one's end
    late       \* history: searches that a timer has cancelled when their socket had closed

widget == <<latest, term, listening, tree, shown, icons, ended>>
service == <<pending, stashed, lastKnown, timers>>
server == <<nextId, runs, found>>
history == <<lost, late>>
vars == <<widget, service, calls, socket, handler, up, down, server, history>>

Message(kind, search, id) == [kind |-> kind, search |-> search, id |-> id]
Found(run, match) == [kind |-> "result", search |-> run.search, id |-> run.id, match |-> match]

Init ==
    /\ latest = 0 /\ term = FALSE /\ listening = None
    /\ tree = [f \in Files |-> {}] /\ shown = tree /\ icons = {}
    /\ pending = [id \in Ids |-> None] /\ stashed = {} /\ lastKnown = None /\ timers = << >>
    /\ calls = << >> /\ socket = [number |-> 0, open |-> FALSE] /\ handler = TRUE /\ up = << >> /\ down = << >>
    /\ nextId = 0 /\ runs = {} /\ found = {}
    /\ ended = 0 /\ lost = {} /\ late = {}

----------------------------------------------------------------------------
(* The page.                                                               *)

Call(messages) ==
    IF socket.open THEN up' = up \o messages /\ calls' = calls
    ELSE up' = up /\ calls' = calls \o messages

\* cancel of the service, when there is something to cancel.
Cancel(search, id) == IF id = None THEN << >> ELSE <<Message("cancel", search, id)>>
Without(id) == IF id = None THEN pending ELSE [pending EXCEPT ![id] = None]

\* Wrong: the search before is cancelled when the new one has been started.
SearchThenCancel ==
    /\ latest < MaxSearches
    /\ latest' = latest + 1 /\ term' = TRUE /\ listening' = None
    /\ tree' = [f \in Files |-> {}] /\ found' = {}
    /\ pending' = Without(listening)
    /\ Call(<<Message("search", latest', None)>> \o Cancel(latest, listening))
    /\ UNCHANGED <<shown, icons, stashed, lastKnown, timers, socket, handler, down, nextId, runs, ended, history>>

\* search of the widget with a term: the token of the search before is cancelled, which cancels that
\* search at once if its id is known, although it may have ended long ago.
Search ==
    /\ latest < MaxSearches
    /\ latest' = latest + 1 /\ term' = TRUE /\ listening' = None
    /\ tree' = [f \in Files |-> {}] /\ found' = {}
    /\ pending' = Without(listening)
    /\ Call(Cancel(latest, listening) \o <<Message("search", latest', None)>>)
    /\ UNCHANGED <<shown, icons, stashed, lastKnown, timers, socket, handler, down, nextId, runs, ended, history>>

\* search of the widget with the empty term: the search before goes on.
SearchNothing ==
    /\ term' = FALSE
    /\ tree' = [f \in Files |-> {}] /\ shown' = tree'
    /\ UNCHANGED <<latest, listening, icons, ended, service, calls, socket, handler, up, down, server, history>>

\* A new connection comes a second after the old one at the earliest, when no timer is left; the
\* proxy's channel is opened on it, and is ready.
Connect ==
    /\ ~socket.open /\ handler /\ socket.number < MaxSockets /\ timers = << >>
    /\ socket' = [number |-> socket.number + 1, open |-> TRUE]
    /\ up' = calls /\ calls' = << >>
    /\ nextId' = 0 /\ runs' = {}
    /\ UNCHANGED <<widget, service, handler, down, found, history>>

\* A socket opens and closes before the proxy's channel is ready on it: nobody listens for the next
\* one, so that from then on all calls wait.
Abandon ==
    /\ ~socket.open /\ handler /\ socket.number < MaxSockets /\ timers = << >>
    /\ handler' = FALSE
    /\ UNCHANGED <<widget, service, calls, socket, up, down, server, history>>

\* The socket closes: the answers of calls that were sent do not come, nor do the ends of searches.
Close ==
    /\ socket.open
    /\ socket' = [socket EXCEPT !.open = FALSE]
    /\ lost' = lost \union
         {n \in 1 .. latest :
            \/ \E id \in Ids : pending[id] = n
            \/ \E message \in ToSet(up) \union ToSet(down) : message.kind \in {"search", "answer"} /\ message.search = n}
    /\ up' = << >> /\ down' = << >> /\ runs' = {} /\ icons' = {}
    /\ UNCHANGED <<latest, term, listening, tree, shown, ended, service, calls, handler, nextId, found, late>>

Stashed(id) == {message \in stashed : message.id = id}
Told(id) == IF Stashed(id) = {} THEN << >> ELSE <<CHOOSE message \in Stashed(id) : TRUE>>

\* Wrong: an end that came first is not looked for.
ReceiveAnswerOnly(message) ==
    /\ pending' = [pending EXCEPT ![message.id] = message.search]
    /\ lastKnown' = message.id
    /\ stashed' = stashed
    /\ listening' = IF message.search = latest THEN message.id ELSE listening
    /\ timers' = timers \o (IF message.search = latest THEN << >> ELSE Cancel(message.search, message.id))
    /\ UNCHANGED <<tree, shown, icons, ended, lost>>

\* Wrong: a search that was cancelled before its id came is left alone.
ReceiveAnswerAlone(message) ==
    /\ pending' = [pending EXCEPT ![message.id] = message.search]
    /\ lastKnown' = message.id
    /\ stashed' = stashed \ Stashed(message.id)
    /\ listening' = IF message.search = latest THEN message.id ELSE listening
    /\ timers' = timers \o Told(message.id)
    /\ UNCHANGED <<tree, shown, icons, ended, lost>>

\* The id of a search: search of the service, then that of the widget.  An end that came first is
\* told by a timer, and so is the cancellation when the token is cancelled already.
ReceiveAnswer(message) ==
    /\ pending' = [pending EXCEPT ![message.id] = message.search]
    /\ lastKnown' = message.id
    /\ stashed' = stashed \ Stashed(message.id)
    /\ listening' = IF message.search = latest THEN message.id ELSE listening
    /\ timers' = timers
         \o Told(message.id)
         \o (IF message.search = latest THEN << >> ELSE Cancel(message.search, message.id))
    /\ UNCHANGED <<tree, shown, icons, ended, lost>>

\* onResult: a match of the latest search joins those of its file; the first one of a file waits for
\* the file's icon, which is asked of the backend when its name does not tell.
ReceiveResult(message) ==
    LET file == message.match.file
    IN /\ IF pending[message.id] # latest THEN UNCHANGED <<tree, icons>>
          ELSE IF tree[file] # {} \/ file \in KnownIcons
          THEN tree' = [tree EXCEPT ![file] = @ \union {message.match}] /\ icons' = icons
          ELSE icons' = icons \union {message.match} /\ tree' = tree
       /\ UNCHANGED <<shown, listening, ended, service, lost>>

\* The icon has come: the match begins the list of its file, in the tree of now.
ReceiveIcon(match) ==
    /\ match \in icons
    /\ icons' = icons \ {match}
    /\ tree' = [tree EXCEPT ![match.file] = {match}]
    /\ UNCHANGED <<latest, term, listening, shown, ended, service, calls, socket, handler, up, down, server, history>>

\* onDone of the service: a search it does not know has not got its id yet, or is an old one.
Done(message) ==
    LET id == message.id
        search == pending[id]
        kept == search = None /\ id > lastKnown
    IN /\ pending' = [pending EXCEPT ![id] = None]
       /\ IF search = latest THEN shown' = tree /\ ended' = latest ELSE UNCHANGED <<shown, ended>>
       /\ stashed' = IF kept THEN (stashed \ Stashed(id)) \union {message} ELSE stashed
       /\ lost' = lost \union
            (IF search \notin {None, message.search} THEN {search} ELSE {}) \union
            {answer.search : answer \in {a \in ToSet(down) : a.kind = "answer" /\ a.id = id /\ ~kept}}
       /\ UNCHANGED <<lastKnown, tree, icons, listening>>

Receive ==
    /\ down # << >>
    /\ LET message == Head(down)
       IN \/ message.kind = "answer" /\ ReceiveAnswer(message)
          \/ message.kind = "result" /\ ReceiveResult(message)
          \/ message.kind = "done" /\ Done(message) /\ UNCHANGED timers
    /\ down' = Tail(down)
    /\ UNCHANGED <<latest, term, calls, socket, handler, up, server, late>>

Timer ==
    /\ timers # << >>
    /\ LET timer == Head(timers)
       IN \/ timer.kind = "done" /\ Done(timer) /\ UNCHANGED <<calls, up, late>>
          \/ /\ timer.kind = "cancel"
             /\ pending' = Without(timer.id) /\ Call(<<timer>>)
             /\ late' = IF socket.open THEN late ELSE late \union {timer.search}
             /\ UNCHANGED <<stashed, lastKnown, tree, shown, icons, ended, listening, lost>>
    /\ timers' = Tail(timers)
    /\ UNCHANGED <<latest, term, socket, handler, down, server>>

----------------------------------------------------------------------------
(* The server of the connection.                                           *)

\* search: when ripgrep cannot be started, the end may be sent before the id.
ServeSearch(message) ==
    LET answer == Message("answer", message.search, nextId)
        done == Message("done", message.search, nextId)
    IN /\ nextId' = nextId + 1
       /\ \/ /\ runs' = runs \union {[id |-> nextId, search |-> message.search, ongoing |-> TRUE, matches |-> {}]}
             /\ down' = Append(down, answer)
          \/ /\ runs' = runs
             /\ \E order \in {<<answer, done>>, <<done, answer>>} : down' = down \o order

\* wrapUpSearch: the client is told once.
WrapUp(run) == IF run.ongoing THEN <<Message("done", run.search, run.id)>> ELSE << >>

\* cancel: the process is killed, and what it has printed by then is still to be read.
ServeCancel(message) ==
    /\ nextId' = nextId
    /\ \/ /\ \A run \in runs : run.id # message.id
          /\ UNCHANGED <<runs, down>>
       \/ \E run \in runs :
            /\ run.id = message.id
            /\ runs' = (runs \ {run}) \union {[run EXCEPT !.ongoing = FALSE]}
            /\ down' = down \o WrapUp(run)

Serve ==
    /\ up # << >>
    /\ LET message == Head(up)
       IN \/ message.kind = "search" /\ ServeSearch(message)
          \/ message.kind = "cancel" /\ ServeCancel(message)
    /\ up' = Tail(up)
    /\ UNCHANGED <<widget, service, calls, socket, handler, found, history>>

\* Wrong: at the limit the search is wrapped up before its last result is sent.
OutputEndsFirst(run, file) ==
    LET number == Cardinality({m \in run.matches : m.file = file}) + 1
        match == [search |-> run.search, file |-> file, number |-> number]
        matches == run.matches \union {match}
        full == Cardinality(matches) = MaxResults
    IN /\ run.ongoing \/ Cardinality(run.matches) < MaxResults
       /\ number <= MaxMatches
       /\ runs' = (runs \ {run}) \union {[run EXCEPT !.matches = matches, !.ongoing = @ /\ ~full]}
       /\ down' = down \o (IF full THEN WrapUp(run) ELSE << >>) \o <<Found(run, match)>>
       /\ found' = IF run.ongoing /\ run.search = latest THEN found \union {match} ELSE found
       /\ UNCHANGED <<widget, service, calls, socket, handler, up, nextId, history>>

\* A line of ripgrep: a result, unless the search has enough of them; the last one ends the search.
Output(run, file) ==
    LET number == Cardinality({m \in run.matches : m.file = file}) + 1
        match == [search |-> run.search, file |-> file, number |-> number]
        matches == run.matches \union {match}
        full == Cardinality(matches) = MaxResults
    IN /\ Cardinality(run.matches) < MaxResults
       /\ number <= MaxMatches
       /\ runs' = (runs \ {run}) \union {[run EXCEPT !.matches = matches, !.ongoing = @ /\ ~full]}
       /\ down' = down \o <<Found(run, match)>> \o (IF full THEN WrapUp(run) ELSE << >>)
       /\ found' = IF run.ongoing /\ run.search = latest THEN found \union {match} ELSE found
       /\ UNCHANGED <<widget, service, calls, socket, handler, up, nextId, history>>

\* The end of the process's output; at the limit, the search has been wrapped up before.
End(run) ==
    /\ runs' = runs \ {run}
    /\ down' = down \o (IF Cardinality(run.matches) = MaxResults THEN << >> ELSE WrapUp(run))
    /\ UNCHANGED <<widget, service, calls, socket, handler, up, nextId, found, history>>

Next ==
    \/ Search \/ SearchNothing
    \/ Connect \/ Abandon \/ Close \/ Receive \/ Timer \/ Serve
    \/ \E match \in icons : ReceiveIcon(match)
    \/ \E run \in runs : End(run) \/ \E file \in Files : Output(run, file)

\* The event loops of page and backend go on, the socket tries again until it has a connection, and
\* ripgrep comes to an end; the user need not do anything, nor does the socket close.
Spec ==
    /\ Init /\ [][Next]_vars
    /\ WF_vars(Connect) /\ WF_vars(Receive) /\ WF_vars(Timer) /\ WF_vars(Serve)
    /\ WF_vars(\E run \in runs : End(run))

----------------------------------------------------------------------------
(* Properties.                                                             *)

\* What every variable holds; a search listens for its cancellation by the id it was given last.
TypeOK ==
    /\ latest \in 0 .. MaxSearches /\ term \in BOOLEAN /\ listening \in Ids \union {None}
    /\ tree \in [Files -> SUBSET Match] /\ shown \in [Files -> SUBSET Match] /\ icons \subseteq Match
    /\ pending \in [Ids -> 1 .. latest \union {None}] /\ {message.id : message \in stashed} \subseteq Ids /\ lastKnown \in Ids \union {None}
    /\ handler \in BOOLEAN /\ (socket.open => handler /\ calls = << >>)
    /\ ~socket.open => up = << >> /\ down = << >> /\ runs = {}
    /\ \A run \in runs : run.id < nextId /\ run.search \in 1 .. latest /\ run.matches \subseteq Match
    /\ found \subseteq Match /\ ended \in 0 .. latest /\ lost \union late \subseteq 1 .. latest

\* A cancel that reaches a server ends the search that it was made for or none, although it may have
\* waited for another connection, whose server counts its searches from zero again; but for a
\* timer's cancel when the socket closes, and the user types, before the timer can fire.
CancelHitsOwnSearch ==
    up # << >> /\ Head(up).kind = "cancel" =>
        \A run \in runs : run.ongoing /\ run.id = Head(up).id =>
            run.search = Head(up).search \/ Head(up).search \in late

\* A search that is superseded does not run on: its cancel is on its way, or its id is, which will
\* be answered by one.
SupersededIsCancelled ==
    \A run \in runs : run.ongoing /\ run.search < latest =>
        \/ \E message \in ToSet(up) \union ToSet(timers) : message.kind = "cancel" /\ message.search = run.search
        \/ \E message \in ToSet(down) : message.kind = "answer" /\ message.search = run.search

\* When the latest search has ended, what is shown for a file is what the server has sent of it for
\* this search and nothing else, up to the limit, whatever came late of the searches before; for
\* files whose icon is known by name (the match of another file replaces those that came while
\* its icon was asked for, even in the tree of the next search), and a term that is not empty.
ShownIsComplete ==
    ended = latest /\ term /\ latest \notin lost =>
        \A file \in KnownIcons : shown[file] = {match \in found : match.file = file}

\* Every search ends for the user, or another one is started, but for those whose socket has closed,
\* those whose end came before their id, with an id that is not greater than the last one of another
\* connection, and those of a page whose proxy was abandoned: a socket has closed before the proxy's
\* channel was ready on it, and the search waits for ever.
SearchEnds ==
    \A n \in Searches :
        latest = n ~> (\/ ended = n \/ latest > n \/ n \in lost
                       \/ ~handler \/ (~socket.open /\ socket.number = MaxSockets))
=============================================================================
