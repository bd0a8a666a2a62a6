----------------------------- MODULE Terminals -----------------------------
(***************************************************************************)
(* Terminal widgets and the processes behind them (terminal-widget.ts, the *)
(* shell terminal server, the process manager).  A widget asks for a new   *)
(* process or attaches to one it knows, and opens a channel for its input  *)
(* and output; the socket may close, the page may be loaded again, and the *)
(* process may exit at any time.  The output itself: MultiRingBuffer.      *)
(***************************************************************************)
EXTENDS Integers, Sequences, FiniteSets, SequencesExt

CONSTANTS
    Widgets,      \* the terminal widgets the user opens
    MaxProcesses, \* how many processes are created
    MaxSockets,   \* how often the frontend gets a connection
    MaxReloads    \* how often the page is loaded again

ASSUME TerminalsAssumption ==
    /\ IsFiniteSet(Widgets)
    /\ {MaxProcesses, MaxSockets, MaxReloads} \subseteq Nat

Ids == 0 .. MaxProcesses - 1
None == -1
Sockets == 1 .. MaxSockets

VARIABLES
    processes, \* ProcessManager.processes: those that run and those that are being killed
    killed,    \* the ones that have been sent a signal
    failed,    \* those that could not be spawned
    nextId,    \* ProcessManager.id
    client,    \* the socket of BaseTerminalServer.client; 0 before there is one
    widgets,   \* state of every widget
    closes,    \* terminals whose close call waits for a connection
    socket,    \* the socket of the page, whether it is open and its shell proxy is connected
    handler,   \* whether a channel or a listener has the handler of the page's shell proxy
    served,    \* sockets whose end the backend has not noticed
    up, down,  \* messages of every socket
    reloads,   \* how often the page was loaded again
    abandoned  \* history: processes that nobody will close, because the answer that names them was
               \* lost, came to a disposed widget, or the close call was lost

vars == <<processes, killed, failed, nextId, client, widgets, closes, socket, handler, served, up, down,
          reloads, abandoned>>

Message(kind, w, id) == [kind |-> kind, widget |-> w, id |-> id]
Lost(w) == Message("lost", w, None)

\* status: none, open or disposed; id: terminalId; call: the request that start waits for; sent: it
\* is on its way; reopen: there is a listener for the next connection; channel: none, opening, open.
NewWidget == [status |-> "none", id |-> None, call |-> "none", sent |-> FALSE,
              reopen |-> FALSE, channel |-> "none", title |-> "shell"]

Init ==
    /\ processes = {} /\ killed = {} /\ failed = {} /\ nextId = 0 /\ client = 0
    /\ widgets = [w \in Widgets |-> NewWidget]
    /\ closes = << >>
    /\ socket = [number |-> 0, open |-> FALSE, connected |-> FALSE]
    /\ handler = TRUE
    /\ served = {}
    /\ up = [s \in Sockets |-> << >>] /\ down = [s \in Sockets |-> << >>]
    /\ reloads = 0
    /\ abandoned = {}

----------------------------------------------------------------------------
(* The frontend.                                                           *)

Requests(ws) == {Message(ws[w].call, w, ws[w].id) : w \in {v \in Widgets : ws[v].call # "none" /\ ~ws[v].sent}}

\* Calls are sent at once when the proxy is connected, and otherwise when it will be.
Send(ws, calls) ==
    IF socket.connected
    THEN /\ \E order \in SetToSeqs(Requests(ws)) :
                up' = [up EXCEPT ![socket.number] = @ \o order \o calls]
         /\ widgets' = [w \in Widgets |-> [ws[w] EXCEPT !.sent = ws[w].call # "none"]]
         /\ closes' = closes
    ELSE /\ widgets' = ws
         /\ closes' = closes \o calls
         /\ up' = up

\* start: create a terminal, or attach to one.
Started(widget) ==
    [widget EXCEPT !.call = IF widget.id = None THEN "create" ELSE "attach", !.sent = FALSE]

Open(w) ==
    /\ widgets[w].status = "none"
    /\ Send([widgets EXCEPT ![w] = [Started(@) EXCEPT !.status = "open"]], << >>)
    /\ UNCHANGED <<processes, killed, failed, nextId, client, socket, handler, served, down, reloads, abandoned>>

\* Wrong: the terminal is left running.
DisposeOnly(w) ==
    /\ widgets[w].status = "open"
    /\ widgets' = [widgets EXCEPT ![w].status = "disposed", ![w].reopen = FALSE]
    /\ UNCHANGED <<processes, killed, failed, nextId, client, closes, socket, handler, served, up, down, reloads,
                   abandoned>>

\* dispose, when the user closes the widget: the terminal is closed if its id is known; a start that
\* waits for an answer goes on.
Dispose(w) ==
    /\ widgets[w].status = "open"
    /\ LET id == widgets[w].id
           disposed == [NewWidget EXCEPT !.status = "disposed", !.id = IF widgets[w].call = "none" THEN None ELSE id,
                                         !.call = widgets[w].call, !.sent = widgets[w].sent]
       IN Send([widgets EXCEPT ![w] = disposed],
               IF id = None THEN << >> ELSE <<Message("close", w, id)>>)
    /\ UNCHANGED <<processes, killed, failed, nextId, client, socket, handler, served, down, reloads, abandoned>>

\* The socket opens: the handler that listens for it opens the channel of the shell proxy.
Connect ==
    /\ ~socket.open /\ socket.number < MaxSockets
    /\ socket' = [number |-> socket.number + 1, open |-> TRUE, connected |-> FALSE]
    /\ served' = served \union {socket'.number}
    /\ up' = [up EXCEPT ![socket'.number] =
                IF handler THEN <<Message("shell", CHOOSE w \in Widgets : TRUE, None)>> ELSE << >>]
    /\ UNCHANGED <<processes, killed, failed, nextId, client, widgets, closes, handler, down, reloads, abandoned>>

\* Processes whose answer, or close call, is lost when the messages from the backend are.
Unnamed(messages) ==
    {messages[i].id : i \in {j \in DOMAIN messages : messages[j].kind = "created"}} \ {None}

\* The frontend notices that the socket has closed: calls that were sent are rejected, and channels of
\* terminals do not reconnect by themselves.  That of the shell proxy does, when it has a connection:
\* before it is ready there is nobody to listen again.
Close ==
    /\ socket.open
    /\ socket' = [socket EXCEPT !.open = FALSE, !.connected = FALSE]
    /\ handler' = socket.connected
    /\ widgets' = [w \in Widgets |->
                    [widgets[w] EXCEPT
                        !.call = IF widgets[w].sent THEN "none" ELSE @,
                        !.sent = FALSE,
                        !.reopen = @ \/ (socket.connected /\ widgets[w].status = "open"),
                        !.channel = "none"]]
    /\ abandoned' = abandoned \union Unnamed(down[socket.number])
    /\ down' = [down EXCEPT ![socket.number] = << >>]
    /\ UNCHANGED <<processes, killed, failed, nextId, client, closes, served, up, reloads>>

\* The page is loaded again: storeState before, restoreState after.  Calls that wait for a connection
\* are gone with the page.
Reload ==
    /\ reloads < MaxReloads
    /\ reloads' = reloads + 1
    /\ socket' = [socket EXCEPT !.open = FALSE, !.connected = FALSE]
    /\ handler' = TRUE
    /\ widgets' = [w \in Widgets |->
                    IF widgets[w].status = "open"
                    THEN Started([NewWidget EXCEPT !.status = "open", !.id = widgets[w].id, !.title = widgets[w].title])
                    ELSE [NewWidget EXCEPT !.status = widgets[w].status]]
    /\ closes' = << >>
    /\ abandoned' = abandoned \union {closes[i].id : i \in DOMAIN closes}
                              \union (IF socket.open THEN Unnamed(down[socket.number]) ELSE {})
    /\ down' = IF socket.open THEN [down EXCEPT ![socket.number] = << >>] ELSE down
    /\ UNCHANGED <<processes, killed, failed, nextId, client, served, up>>

\* Wrong: only calls that have waited are sent.
ReceiveReadyOnly ==
    /\ socket' = [socket EXCEPT !.connected = TRUE]
    /\ \E order \in SetToSeqs(Requests(widgets)) :
            /\ up' = [up EXCEPT ![socket.number] = @ \o closes \o order]
            /\ widgets' = [w \in Widgets |-> [widgets[w] EXCEPT !.sent = widgets[w].call # "none", !.reopen = FALSE]]
    /\ closes' = << >>

\* The shell proxy is connected: calls that have waited are sent, and reconnectTerminalProcess of
\* every widget that has seen the connection close starts again with its id, if it has one.
ReceiveReady ==
    /\ socket' = [socket EXCEPT !.connected = TRUE]
    /\ LET back == [w \in Widgets |->
                        IF widgets[w].reopen /\ widgets[w].id # None THEN Started(widgets[w]) ELSE widgets[w]]
       IN \E order \in SetToSeqs(Requests(back)) :
            /\ up' = [up EXCEPT ![socket.number] = @ \o closes \o order]
            /\ widgets' = [w \in Widgets |-> [back[w] EXCEPT !.sent = back[w].call # "none", !.reopen = FALSE]]
    /\ closes' = << >>

\* The rest of start: with the id of a running terminal, a channel is opened to it.
Attached(w, id) ==
    /\ widgets' = [widgets EXCEPT ![w].call = "none", ![w].sent = FALSE, ![w].id = id,
                                  ![w].channel = IF id = None THEN "none" ELSE "opening"]
    /\ up' = IF id = None THEN up ELSE [up EXCEPT ![socket.number] = Append(@, Message("channel", w, id))]

ReceiveCreated(message) ==
    /\ Attached(message.widget, message.id)
    /\ abandoned' = IF widgets[message.widget].status = "disposed" /\ message.id # None
                    THEN abandoned \union {message.id} ELSE abandoned
    /\ UNCHANGED <<socket, closes>>

\* attachTerminal: when the terminal is gone, a new one is created.
ReceiveAttached(message) ==
    /\ IF message.id # None THEN Attached(message.widget, message.id)
       ELSE /\ widgets' = [widgets EXCEPT ![message.widget].call = "create"]
            /\ up' = [up EXCEPT ![socket.number] = Append(@, Message("create", message.widget, None))]
    /\ UNCHANGED <<socket, closes, abandoned>>

ReceiveExit(id) ==
    /\ widgets' = [w \in Widgets |->
                    IF widgets[w].status = "open" /\ widgets[w].id = id
                    THEN [widgets[w] EXCEPT !.title = "terminated"] ELSE widgets[w]]
    /\ UNCHANGED <<socket, closes, up, abandoned>>

ReceiveChannelReady(message) ==
    /\ widgets' = [w \in Widgets |->
                    IF w = message.widget /\ widgets[w].channel = "opening"
                    THEN [widgets[w] EXCEPT !.channel = "open"] ELSE widgets[w]]
    /\ UNCHANGED <<socket, closes, up, abandoned>>

Receive ==
    /\ socket.open /\ down[socket.number] # << >>
    /\ LET message == Head(down[socket.number])
       IN \/ message.kind = "ready" /\ ReceiveReady /\ UNCHANGED abandoned
          \/ message.kind = "created" /\ ReceiveCreated(message)
          \/ message.kind = "attached" /\ ReceiveAttached(message)
          \/ message.kind = "exit" /\ ReceiveExit(message.id)
          \/ message.kind = "channelReady" /\ ReceiveChannelReady(message)
    /\ down' = [down EXCEPT ![socket.number] = Tail(@)]
    /\ UNCHANGED <<processes, killed, failed, nextId, client, handler, served, reloads>>

----------------------------------------------------------------------------
(* The backend.                                                            *)

\* What the backend sends on a socket that the frontend has left is lost.
Answer(s, message) ==
    IF s = socket.number /\ socket.open
    THEN down' = [down EXCEPT ![s] = Append(@, message)] /\ abandoned' = abandoned
    ELSE down' = down /\ abandoned' = abandoned \union Unnamed(<<message>>)

\* Wrong: the id of a process that has ended is given again.
ServeCreateReusing(s, message) ==
    LET id == CHOOSE i \in 0 .. nextId : i \notin processes /\ \A j \in 0 .. i - 1 : j \in processes
    IN /\ id < MaxProcesses
       /\ processes' = processes \union {id}
       /\ nextId' = IF id = nextId THEN nextId + 1 ELSE nextId
       /\ Answer(s, Message("created", message.widget, id))
       /\ UNCHANGED <<killed, client, failed>>

\* createTerminal of the server.  A process registers in its constructor, before it is spawned: when
\* that fails it stays registered.  Beyond the bound, the factory fails before.
ServeCreate(s, message) ==
    /\ \/ /\ nextId < MaxProcesses
          /\ \/ failed' = failed /\ Answer(s, Message("created", message.widget, nextId))
             \/ failed' = failed \union {nextId} /\ Answer(s, Message("created", message.widget, None))
          /\ processes' = processes \union {nextId}
          /\ nextId' = nextId + 1
       \/ /\ nextId = MaxProcesses
          /\ Answer(s, Message("created", message.widget, None))
          /\ UNCHANGED <<processes, nextId, failed>>
    /\ UNCHANGED <<killed, client>>

ServeAttach(s, message) ==
    /\ Answer(s, Message("attached", message.widget, IF message.id \in processes THEN message.id ELSE None))
    /\ UNCHANGED <<processes, killed, failed, nextId, client>>

ServeClose(message) ==
    /\ killed' = killed \union ({message.id} \intersect processes)
    /\ UNCHANGED <<processes, failed, nextId, client, down, abandoned>>

\* The channel of a terminal: ready if its process is there, and otherwise never answered.
ServeChannel(s, message) ==
    /\ IF message.id \in processes THEN Answer(s, Message("channelReady", message.widget, message.id))
       ELSE UNCHANGED <<down, abandoned>>
    /\ UNCHANGED <<processes, killed, failed, nextId, client>>

\* A connection of the shell terminal server: setClient.
ServeShell(s, message) ==
    /\ client' = s
    /\ Answer(s, [message EXCEPT !.kind = "ready"])
    /\ UNCHANGED <<processes, killed, failed, nextId>>

Serve(s) ==
    /\ s \in served /\ up[s] # << >>
    /\ LET message == Head(up[s])
       IN \/ message.kind = "shell" /\ ServeShell(s, message)
          \/ message.kind = "create" /\ ServeCreate(s, message)
          \/ message.kind = "attach" /\ ServeAttach(s, message)
          \/ message.kind = "close" /\ ServeClose(message)
          \/ message.kind = "channel" /\ ServeChannel(s, message)
    /\ up' = [up EXCEPT ![s] = Tail(@)]
    /\ UNCHANGED <<widgets, closes, socket, handler, served, reloads>>

\* The backend notices that a socket has closed; what it has not received by then is lost.
ServerClose(s) ==
    /\ s \in served /\ ~(socket.open /\ socket.number = s)
    /\ served' = served \ {s}
    /\ abandoned' = abandoned \union {up[s][i].id : i \in {j \in DOMAIN up[s] : up[s][j].kind = "close"}}
    /\ up' = [up EXCEPT ![s] = << >>]
    /\ UNCHANGED <<processes, killed, failed, nextId, client, widgets, closes, socket, handler, down, reloads>>

\* Wrong: unregister disposes the server's listener before it is called.
ExitSilently(p) ==
    /\ p \in processes \ failed
    /\ processes' = processes \ {p}
    /\ killed' = killed \ {p}
    /\ UNCHANGED <<failed, nextId, client, widgets, closes, socket, handler, served, up, down, reloads,
                   abandoned>>

\* A process ends, by itself or because it was killed: it is unregistered, then the client is told.
Exit(p) ==
    /\ p \in processes \ failed
    /\ processes' = processes \ {p}
    /\ killed' = killed \ {p}
    /\ IF client \in served
       THEN Answer(client, Message("exit", CHOOSE w \in Widgets : TRUE, p)) ELSE UNCHANGED <<down, abandoned>>
    /\ UNCHANGED <<failed, nextId, client, widgets, closes, socket, handler, served, up, reloads>>

Next ==
    \/ \E w \in Widgets : Open(w) \/ Dispose(w)
    \/ Connect \/ Close \/ Reload \/ Receive
    \/ \E s \in Sockets : Serve(s) \/ ServerClose(s)
    \/ \E p \in Ids : Exit(p)

\* The event loops of the page and of the backend go on; nobody has to open, close or exit anything.
Frontend == Connect \/ Receive
Backend == \E s \in Sockets : Serve(s) \/ ServerClose(s)

Spec == Init /\ [][Next]_vars /\ WF_vars(Frontend) /\ WF_vars(Backend)

----------------------------------------------------------------------------
(* Properties.                                                             *)

\* A start has at most one request, and only while its proxy is connected is it on its way; a channel
\* belongs to a terminal with an id.
TypeOK ==
    /\ killed \subseteq processes \ failed /\ failed \subseteq processes /\ processes \subseteq 0 .. nextId - 1 /\ nextId \in 0 .. MaxProcesses
    /\ client \in 0 .. socket.number /\ served \subseteq 1 .. socket.number
    /\ handler \in BOOLEAN /\ (socket.connected => socket.open /\ socket.number \in served)
    /\ closes # << >> => ~socket.connected
    /\ \A w \in Widgets :
        /\ widgets[w].status \in {"none", "open", "disposed"}
        /\ widgets[w].id \in Ids \union {None}
        /\ widgets[w].call \in {"none", "create", "attach"}
        /\ widgets[w].sent => widgets[w].call # "none" /\ socket.connected
        /\ widgets[w].channel # "none" => widgets[w].id # None /\ socket.connected

\* No two widgets show the same terminal, although widgets attach by ids they were given long ago,
\* over other connections and pages.
OneWidgetPerTerminal ==
    \A v, w \in Widgets : v # w /\ widgets[v].id # None => widgets[v].id # widgets[w].id

Known(p) ==
    \/ \E w \in Widgets : widgets[w].status = "open" /\ widgets[w].id = p
    \/ \E s \in Sockets : \E message \in ToSet(down[s]) : message.kind = "created" /\ message.id = p
    \/ \E s \in Sockets : \E message \in ToSet(up[s]) : message.kind = "close" /\ message.id = p
    \/ \E message \in ToSet(closes) : message.id = p

\* A process that runs belongs to a widget, is about to, or is being closed, unless its id or the
\* call that closes it was lost with a connection or a page, it was made for a disposed widget, or it
\* never ran.  (The call that closes it may wait for as long as the shell proxy is not connected.)
OrphansExplained == \A p \in processes : Known(p) \/ p \in killed \union failed \union abandoned

Quiet == socket.connected /\ down[socket.number] = << >> /\ up[socket.number] = << >>

\* When nothing is under way, a terminal whose process has ended says so, although the exit may come
\* while the widget starts; unless a message of an old socket, or of another page, came late and has
\* made its client the one that all exits are told to.
TitleTellsExit ==
    Quiet /\ client = socket.number => \A w \in Widgets :
        widgets[w].status = "open" /\ widgets[w].id # None /\ widgets[w].id \notin processes
            => widgets[w].title = "terminated"

\* A terminal with an id gets a channel to its process again after the connection was lost or the
\* page loaded again, unless its process has ended or a new one could not be made.  It is only the
\* widget's listener that starts again: its channel's handler does not reconnect.  That of the shell
\* proxy does, unless a socket has closed before the proxy was ready: then terminals of this page do
\* not come back.
TerminalComesBack ==
    \A w \in Widgets :
        (widgets[w].status = "open" /\ widgets[w].id # None) ~>
            (\/ widgets[w].status # "open" \/ widgets[w].id = None \/ widgets[w].channel = "open"
             \/ widgets[w].id \notin processes \/ ~handler \/ (~socket.open /\ socket.number = MaxSockets))
=============================================================================
