--------------------- MODULE SearchInWorkspace_proofs ---------------------
(***************************************************************************)
(* Proofs about SearchInWorkspace: a superseded search is cancelled, a     *)
(* cancel hits the search that it was made for or none, and what is shown  *)
(* when a search has ended is what was found, for any files, limits and    *)
(* numbers of searches and connections.  A cancellation begins as an       *)
(* answer, or as the id that the widget listens with, becomes a timer or a *)
(* call, and ends as a message: the first invariant, IInv, says of each    *)
(* form that it has the id of the search's process, and that a search      *)
(* whose request is still on its way has none of them; the second, OwnInv, *)
(* that its id is one of this server, or that it comes to the server       *)
(* before all searches.  The third, ShownInv, follows the latest search    *)
(* from its request to its end: the tree, and what is on its way before    *)
(* the end, is what was found.                                             *)
(***************************************************************************)
EXTENDS SearchInWorkspace, SequenceTheorems, FiniteSetTheorems, TLAPS

----------------------------------------------------------------------------
(* Queues, by what is in them.                                             *)

Queue(s) == s \in Seq(ToSet(s))

LEMMA QueueOf == ASSUME NEW S, NEW s \in Seq(S) PROVE Queue(s)
BY DEF Queue, ToSet

LEMMA EmptyQueue == Queue(<< >>) /\ ToSet(<< >>) = {}
BY DEF Queue, ToSet

LEMMA Singleton == ASSUME NEW v PROVE Queue(<<v>>) /\ ToSet(<<v>>) = {v}
<1>1. ToSet(<<v>>) = {v}
  BY DEF ToSet
<1> QED BY <1>1 DEF Queue

LEMMA Pair == ASSUME NEW v, NEW w PROVE Queue(<<v, w>>) /\ ToSet(<<v, w>>) = {v, w}
<1>1. ToSet(<<v, w>>) = {v, w}
  BY DEF ToSet
<1> QED BY <1>1 DEF Queue

LEMMA Concatenated ==
  ASSUME NEW s, NEW t, Queue(s), Queue(t)
  PROVE  Queue(s \o t) /\ ToSet(s \o t) = ToSet(s) \union ToSet(t)
<1> DEFINE S == ToSet(s) \union ToSet(t)
<1>1. s \in Seq(S) /\ t \in Seq(S)
  BY DEF Queue
<1>2. s \o t \in Seq(S) /\ Len(s \o t) = Len(s) + Len(t)
  BY <1>1
<1>3. \A i \in 1 .. Len(s) + Len(t) : (s \o t)[i] = IF i <= Len(s) THEN s[i] ELSE t[i - Len(s)]
  BY <1>1
<1>4. ToSet(s \o t) \subseteq S
  BY <1>2, <1>3 DEF ToSet
<1>5. ASSUME NEW v \in ToSet(s) PROVE v \in ToSet(s \o t)
  <2>1. PICK i \in 1 .. Len(s) : v = s[i]
    BY <1>1 DEF ToSet
  <2> QED BY <1>1, <1>2, <1>3, <2>1 DEF ToSet
<1>6. ASSUME NEW v \in ToSet(t) PROVE v \in ToSet(s \o t)
  <2>1. PICK i \in 1 .. Len(t) : v = t[i]
    BY <1>1 DEF ToSet
  <2>2. i + Len(s) \in 1 .. Len(s) + Len(t) /\ (s \o t)[i + Len(s)] = v
    BY <1>1, <1>3, <2>1
  <2> QED BY <1>2, <2>2 DEF ToSet
<1>7. ToSet(s \o t) = S
  BY <1>4, <1>5, <1>6
<1> QED BY <1>2, <1>7 DEF Queue

LEMMA Tailed ==
  ASSUME NEW s, Queue(s), s # << >>
  PROVE  /\ Queue(Tail(s)) /\ Head(s) \in ToSet(s) /\ ToSet(Tail(s)) \subseteq ToSet(s)
         /\ ToSet(s) \subseteq ToSet(Tail(s)) \union {Head(s)}
<1> DEFINE S == ToSet(s)
<1>1. s \in Seq(S) /\ DOMAIN s = 1 .. Len(s) /\ Len(s) \in Nat
  BY DEF Queue
<1>2. Len(s) # 0 /\ Head(s) = s[1]
  BY <1>1
<1>3. /\ Tail(s) \in Seq(S) /\ DOMAIN Tail(s) = 1 .. Len(s) - 1
      /\ \A i \in 1 .. Len(s) - 1 : Tail(s)[i] = s[i + 1]
  BY <1>1, <1>2
<1>4. Queue(Tail(s))
  BY <1>3, QueueOf
<1>5. ToSet(Tail(s)) \subseteq S
  <2>1. SUFFICES ASSUME NEW i \in 1 .. Len(s) - 1 PROVE Tail(s)[i] \in S
    BY <1>1, <1>3 DEF ToSet
  <2> QED BY <1>1, <1>3 DEF ToSet
<1>6. Head(s) \in S
  BY <1>1, <1>2 DEF ToSet
<1>7. ASSUME NEW v \in S, v # Head(s) PROVE v \in ToSet(Tail(s))
  <2>1. PICK i \in 1 .. Len(s) : v = s[i]
    BY <1>1 DEF ToSet
  <2>2. i - 1 \in 1 .. Len(s) - 1 /\ Tail(s)[i - 1] = v
    BY <1>1, <1>2, <1>3, <1>7, <2>1
  <2> QED BY <1>1, <1>3, <2>2 DEF ToSet
<1> QED BY <1>4, <1>5, <1>6, <1>7

\* In a queue every search is asked for once.
Once(s) == \A i, j \in DOMAIN s :
             s[i].kind = "search" /\ s[j].kind = "search" /\ s[i].search = s[j].search => i = j

Asks(s, n) == \E message \in ToSet(s) : message.kind = "search" /\ message.search = n

LEMMA OnceEmpty == Once(<< >>)
BY DEF Once

\* What joins a queue asks for nothing that the queue asks for.
LEMMA OnceConcatenated ==
  ASSUME NEW s, NEW t, Queue(s), Queue(t), Once(s), Once(t),
         \A v \in ToSet(t) : v.kind = "search" => ~Asks(s, v.search)
  PROVE  Once(s \o t)
<1> DEFINE S == ToSet(s) \union ToSet(t)
<1>1. /\ s \in Seq(S) /\ Len(s) \in Nat /\ DOMAIN s = 1 .. Len(s)
      /\ t \in Seq(S) /\ Len(t) \in Nat /\ DOMAIN t = 1 .. Len(t)
  BY DEF Queue
<1>2. DOMAIN (s \o t) = 1 .. Len(s) + Len(t)
  BY <1>1
<1>3. \A i \in 1 .. Len(s) + Len(t) : (s \o t)[i] = IF i <= Len(s) THEN s[i] ELSE t[i - Len(s)]
  BY <1>1
<1>4. /\ \A i \in 1 .. Len(s) : s[i] \in ToSet(s)
      /\ \A i \in 1 .. Len(t) : t[i] \in ToSet(t)
  BY <1>1 DEF ToSet
<1>5. \A i \in 1 .. Len(s), j \in 1 .. Len(t) :
        ~(s[i].kind = "search" /\ t[j].kind = "search" /\ s[i].search = t[j].search)
  BY <1>4 DEF Asks
<1>6. SUFFICES ASSUME NEW i \in 1 .. Len(s) + Len(t), NEW j \in 1 .. Len(s) + Len(t),
                      (s \o t)[i].kind = "search", (s \o t)[j].kind = "search",
                      (s \o t)[i].search = (s \o t)[j].search
               PROVE  i = j
  BY <1>2 DEF Once
<1>7. CASE i <= Len(s) /\ j <= Len(s)
  BY <1>1, <1>3, <1>6, <1>7 DEF Once
<1>8. CASE i > Len(s) /\ j > Len(s)
  <2>1. i - Len(s) \in DOMAIN t /\ j - Len(s) \in DOMAIN t
    BY <1>1, <1>8
  <2>2. i - Len(s) = j - Len(s)
    BY <1>1, <1>3, <1>6, <1>8, <2>1 DEF Once
  <2> QED BY <1>1, <2>2
<1>9. CASE i <= Len(s) /\ j > Len(s)
  <2>1. i \in 1 .. Len(s) /\ j - Len(s) \in 1 .. Len(t)
    BY <1>1, <1>9
  <2> QED BY <1>1, <1>3, <1>5, <1>6, <1>9, <2>1
<1>10. CASE i > Len(s) /\ j <= Len(s)
  <2>1. j \in 1 .. Len(s) /\ i - Len(s) \in 1 .. Len(t)
    BY <1>1, <1>10
  <2> QED BY <1>1, <1>3, <1>5, <1>6, <1>10, <2>1
<1> QED BY <1>1, <1>7, <1>8, <1>9, <1>10

LEMMA OnceTailed ==
  ASSUME NEW s, Queue(s), Once(s), s # << >>
  PROVE  Once(Tail(s)) /\ (Head(s).kind = "search" => ~Asks(Tail(s), Head(s).search))
<1> DEFINE S == ToSet(s)
<1>1. s \in Seq(S) /\ DOMAIN s = 1 .. Len(s) /\ Len(s) \in Nat
  BY DEF Queue
<1>2. Len(s) # 0 /\ Head(s) = s[1]
  BY <1>1
<1>3. /\ DOMAIN Tail(s) = 1 .. Len(s) - 1
      /\ \A i \in 1 .. Len(s) - 1 : Tail(s)[i] = s[i + 1]
  BY <1>1, <1>2
<1>4. Once(Tail(s))
  BY <1>1, <1>3 DEF Once
<1>5. ASSUME Head(s).kind = "search", Asks(Tail(s), Head(s).search) PROVE FALSE
  <2>1. PICK i \in 1 .. Len(s) - 1 : Tail(s)[i].kind = "search" /\ Tail(s)[i].search = Head(s).search
    BY <1>3, <1>5 DEF Asks, ToSet
  <2> QED BY <1>1, <1>2, <1>3, <1>5, <2>1 DEF Once
<1> QED BY <1>4, <1>5

----------------------------------------------------------------------------
(* The inductive invariant.                                                *)

Shaped(run) ==
    /\ run = [id |-> run.id, search |-> run.search, ongoing |-> run.ongoing, matches |-> run.matches]
    /\ run.id \in Nat /\ run.id < nextId /\ run.search \in 1 .. latest /\ run.ongoing \in BOOLEAN

Shapes ==
    /\ latest \in Nat /\ nextId \in Nat
    /\ \A run \in runs : Shaped(run)
    /\ \A message \in ToSet(up) \union ToSet(calls) : message.search \in 0 .. latest /\ (message.kind = "search" => message.search > 0)
    /\ \A timer \in ToSet(timers) : timer.kind = "cancel" => timer.search \in 0 .. latest
    /\ \A message \in ToSet(down) : message.kind = "answer" => message.search \in 1 .. latest /\ message.id \in Nat
    /\ \A message \in stashed : message.kind = "done"

Queues ==
    /\ Queue(up) /\ Queue(calls) /\ Queue(timers) /\ Queue(down)
    /\ Once(up) /\ Once(calls)
    /\ socket.open => calls = << >>
    /\ ~socket.open => up = << >> /\ down = << >> /\ runs = {}

\* One process for an id and for a search.
Distinct == \A r1, r2 \in runs : r1.id = r2.id \/ r1.search = r2.search => r1 = r2

\* A search that is still asked for has no id yet.
AskedFirst ==
    \A message \in ToSet(up) \union ToSet(calls) : message.kind = "search" =>
        /\ \A m \in ToSet(up) \union ToSet(calls) \union ToSet(timers) : ~(m.kind = "cancel" /\ m.search = message.search)
        /\ \A m \in ToSet(down) : ~(m.kind = "answer" /\ m.search = message.search)
        /\ \A run \in runs : run.search # message.search
        /\ message.search = latest => listening = None

\* Whoever cancels a search has the id of its process.
RightIds ==
    \A run \in runs :
        /\ \A m \in ToSet(up) \union ToSet(timers) : m.kind = "cancel" /\ m.search = run.search => m.id = run.id
        /\ \A m \in ToSet(down) : m.kind = "answer" /\ m.search = run.search => m.id = run.id
        /\ run.search = latest /\ listening # None => listening = run.id

\* The latest search is listened for, or will be.
LatestIsHeard ==
    \A run \in runs : run.ongoing /\ run.search = latest =>
        \/ listening = run.id
        \/ \E m \in ToSet(down) : m.kind = "answer" /\ m.search = run.search

IInv == Shapes /\ Queues /\ Distinct /\ AskedFirst /\ RightIds /\ LatestIsHeard /\ SupersededIsCancelled

----------------------------------------------------------------------------
(* Messages and calls.                                                     *)

LEMMA CancelMessages ==
  ASSUME NEW n, NEW id
  PROVE  /\ Queue(Cancel(n, id)) /\ Once(Cancel(n, id))
         /\ ToSet(Cancel(n, id)) = IF id = None THEN {} ELSE {Message("cancel", n, id)}
<1>1. CASE id = None
  BY <1>1, EmptyQueue, OnceEmpty DEF Cancel
<1>2. CASE id # None
  <2>1. Cancel(n, id) = <<Message("cancel", n, id)>>
    BY <1>2 DEF Cancel
  <2>2. Once(<<Message("cancel", n, id)>>)
    BY DEF Once
  <2> QED BY <1>2, <2>1, <2>2, Singleton
<1> QED BY <1>1, <1>2

\* What is told of a stashed end is an end.
LEMMA ToldMessages ==
  ASSUME Shapes, NEW id
  PROVE  Queue(Told(id)) /\ \A message \in ToSet(Told(id)) : message.kind = "done"
<1>1. CASE Stashed(id) = {}
  BY <1>1, EmptyQueue DEF Told
<1>2. CASE Stashed(id) # {}
  <2> DEFINE end == CHOOSE message \in Stashed(id) : TRUE
  <2>1. end \in Stashed(id)
    BY <1>2
  <2>2. Told(id) = <<end>> /\ end.kind = "done"
    BY <1>2, <2>1 DEF Told, Stashed, Shapes
  <2> HIDE DEF end
  <2> QED BY <2>2, Singleton
<1> QED BY <1>1, <1>2

LEMMA Called ==
  ASSUME Queues, NEW t, Queue(t), Once(t), Call(t),
         \A v \in ToSet(t) : v.kind = "search" => ~Asks(up, v.search) /\ ~Asks(calls, v.search)
  PROVE  /\ Queue(up') /\ Queue(calls') /\ Once(up') /\ Once(calls')
         /\ socket.open => ToSet(up') = ToSet(up) \union ToSet(t) /\ calls' = calls
         /\ ~socket.open => up' = up /\ ToSet(calls') = ToSet(calls) \union ToSet(t)
<1>1. Queue(up) /\ Queue(calls) /\ Once(up) /\ Once(calls)
  BY DEF Queues
<1>2. CASE socket.open
  <2>1. up' = up \o t /\ calls' = calls
    BY <1>2 DEF Call
  <2> QED BY <1>1, <1>2, <2>1, Concatenated, OnceConcatenated
<1>3. CASE ~socket.open
  <2>1. up' = up /\ calls' = calls \o t
    BY <1>3 DEF Call
  <2> QED BY <1>1, <1>3, <2>1, Concatenated, OnceConcatenated
<1> QED BY <1>2, <1>3

----------------------------------------------------------------------------
(* The initial states and the steps.                                       *)

LEMMA InitInv == Init => IInv
<1> SUFFICES ASSUME Init PROVE IInv
  OBVIOUS
<1>1. ToSet(up) = {} /\ ToSet(down) = {} /\ ToSet(calls) = {} /\ ToSet(timers) = {} /\ Queues
  BY EmptyQueue, OnceEmpty DEF Init, Queues
<1> QED BY <1>1 DEF Init, IInv, Shapes, Distinct, AskedFirst, RightIds, LatestIsHeard, SupersededIsCancelled

\* What the invariant is about.
relevant == <<latest, listening, stashed, timers, calls, socket, up, down, nextId, runs>>

LEMMA IrrelevantInv == ASSUME IInv, UNCHANGED relevant PROVE IInv'
BY DEF relevant, IInv, Shapes, Shaped, Queues, Distinct, AskedFirst, RightIds, LatestIsHeard, SupersededIsCancelled

LEMMA SearchInv == ASSUME IInv, Search PROVE IInv'
<1> DEFINE request == Message("search", latest', None)
           t == Cancel(latest, listening) \o <<request>>
           sent == (IF listening = None THEN {} ELSE {Message("cancel", latest, listening)}) \union {request}
<1>1. /\ latest' = latest + 1 /\ listening' = None /\ Call(t)
      /\ UNCHANGED <<stashed, timers, socket, down, nextId, runs>>
  BY DEF Search
<1>2. latest \in Nat /\ Queues
  BY DEF IInv, Shapes
<1>3. \A m \in ToSet(up) \union ToSet(calls) : m.search \in 0 .. latest
  BY DEF IInv, Shapes
<1>4. Queue(t) /\ ToSet(t) = sent /\ Once(t)
  <2>1. Queue(<<request>>) /\ ToSet(<<request>>) = {request} /\ Once(<<request>>)
    BY Singleton DEF Once
  <2>2. \A v \in ToSet(<<request>>) : v.kind = "search" => ~Asks(Cancel(latest, listening), v.search)
    BY <2>1, CancelMessages DEF Asks, Message
  <2> HIDE DEF request
  <2> QED BY <2>1, <2>2, CancelMessages, Concatenated, OnceConcatenated
<1>5. \A v \in ToSet(t) : v.kind = "search" => ~Asks(up, v.search) /\ ~Asks(calls, v.search)
  BY <1>1, <1>2, <1>3, <1>4 DEF Message, Asks
<1> HIDE DEF t
<1>6. /\ Queue(up') /\ Queue(calls') /\ Once(up') /\ Once(calls')
      /\ socket.open => ToSet(up') = ToSet(up) \union sent /\ calls' = calls
      /\ ~socket.open => up' = up /\ ToSet(calls') = ToSet(calls) \union sent
  BY <1>1, <1>2, <1>4, <1>5, Called
<1>7. \A m \in sent :
                    \/ m.kind = "search" /\ m.search = latest + 1
                    \/ m.kind = "cancel" /\ m.search = latest /\ m.id = listening /\ listening # None
  BY <1>1 DEF Message
<1>8. \A m \in ToSet(up') \union ToSet(calls') : m \in ToSet(up) \union ToSet(calls) \/ m \in sent
  BY <1>6
<1>9. ToSet(up) \subseteq ToSet(up') /\ (runs # {} => socket.open)
  BY <1>2, <1>6 DEF Queues
<1>10. Queues'
  BY <1>1, <1>2, <1>6 DEF Queues
<1>11. Shapes'
  BY <1>1, <1>2, <1>3, <1>7, <1>8 DEF IInv, Shapes, Shaped
<1>12. Distinct'
  BY <1>1 DEF IInv, Distinct
<1>13. AskedFirst'
  <2>1. SUFFICES ASSUME NEW message \in ToSet(up') \union ToSet(calls'), message.kind = "search"
                 PROVE  /\ \A m \in ToSet(up') \union ToSet(calls') \union ToSet(timers) : ~(m.kind = "cancel" /\ m.search = message.search)
                        /\ \A m \in ToSet(down) : ~(m.kind = "answer" /\ m.search = message.search)
                        /\ \A run \in runs : run.search # message.search
    BY <1>1 DEF AskedFirst
  <2>2. CASE message \in sent
    BY <1>2, <1>3, <1>7, <1>8, <2>1, <2>2 DEF IInv, Shapes, Shaped
  <2>3. CASE message \in ToSet(up) \union ToSet(calls)
    <3>1. message.search = latest => listening = None
      BY <2>1, <2>3 DEF IInv, AskedFirst
    <3> QED BY <1>7, <1>8, <2>1, <2>3, <3>1 DEF IInv, AskedFirst
  <2> QED BY <1>8, <2>2, <2>3
<1>14. RightIds'
  <2>1. SUFFICES ASSUME NEW run \in runs
                 PROVE  \A m \in ToSet(up') : m.kind = "cancel" /\ m.search = run.search => m.id = run.id
    BY <1>1, <1>2 DEF IInv, RightIds, Shapes, Shaped
  <2>2. \A m \in sent : m.kind = "cancel" /\ m.search = run.search => m.id = run.id
    BY <1>7, <2>1 DEF IInv, RightIds
  <2>3. \A m \in ToSet(up) : m.kind = "cancel" /\ m.search = run.search => m.id = run.id
    BY <2>1 DEF IInv, RightIds
  <2> QED BY <1>6, <2>2, <2>3
<1>15. LatestIsHeard'
  BY <1>1, <1>2 DEF IInv, LatestIsHeard, Shapes, Shaped
<1>16. SupersededIsCancelled'
  <2>1. SUFFICES ASSUME NEW run \in runs, run.ongoing, run.search < latest'
                 PROVE  \/ \E m \in ToSet(up') \union ToSet(timers) : m.kind = "cancel" /\ m.search = run.search
                        \/ \E m \in ToSet(down) : m.kind = "answer" /\ m.search = run.search
    BY <1>1 DEF SupersededIsCancelled
  <2>2. CASE run.search < latest
    BY <1>9, <2>1, <2>2 DEF IInv, SupersededIsCancelled
  <2>3. CASE run.search = latest /\ listening = run.id
    <3>1. listening # None /\ Message("cancel", latest, listening) \in ToSet(up')
      BY <1>6, <1>9, <2>3 DEF IInv, Shapes, Shaped, None
    <3> QED BY <2>3, <3>1 DEF Message
  <2>4. CASE run.search = latest /\ listening # run.id
    BY <2>1, <2>4 DEF IInv, LatestIsHeard
  <2> QED BY <1>1, <1>2, <2>1, <2>2, <2>3, <2>4 DEF IInv, Shapes, Shaped
<1> QED BY <1>10, <1>11, <1>12, <1>13, <1>14, <1>15, <1>16 DEF IInv

LEMMA ConnectInv == ASSUME IInv, Connect PROVE IInv'
<1>1. /\ up' = calls /\ calls' = << >> /\ nextId' = 0 /\ runs' = {} /\ socket'.open /\ ~socket.open
      /\ UNCHANGED <<latest, listening, stashed, timers, down>>
  BY DEF Connect, widget, service
<1>2. up = << >> /\ ToSet(up') = ToSet(calls) /\ ToSet(calls') = {} /\ ToSet(up) = {}
  BY <1>1, EmptyQueue DEF IInv, Queues
<1>3. Queues'
  BY <1>1, EmptyQueue, OnceEmpty DEF IInv, Queues
<1>4. Shapes'
  BY <1>1, <1>2 DEF IInv, Shapes
<1>5. AskedFirst'
  BY <1>1, <1>2 DEF IInv, AskedFirst
<1> QED BY <1>1, <1>3, <1>4, <1>5 DEF IInv, Distinct, RightIds, LatestIsHeard, SupersededIsCancelled

LEMMA CloseInv == ASSUME IInv, Close PROVE IInv'
<1>1. /\ up' = << >> /\ down' = << >> /\ runs' = {} /\ ~socket'.open /\ socket.open
      /\ UNCHANGED <<latest, listening, stashed, timers, calls, nextId>>
  BY DEF Close, service
<1>2. ToSet(up') = {} /\ ToSet(down') = {}
  BY <1>1, EmptyQueue
<1>3. Queues'
  BY <1>1, EmptyQueue, OnceEmpty DEF IInv, Queues
<1>4. Shapes'
  BY <1>1, <1>2 DEF IInv, Shapes
<1>5. AskedFirst'
  BY <1>1, <1>2 DEF IInv, AskedFirst
<1> QED BY <1>1, <1>3, <1>4, <1>5 DEF IInv, Distinct, RightIds, LatestIsHeard, SupersededIsCancelled

\* Messages that are taken in and mean no answer, and timers that are no cancellation.
LEMMA DoneKeeps ==
  ASSUME Shapes, NEW message, message.kind = "done", Done(message)
  PROVE  listening' = listening /\ \A m \in stashed' : m.kind = "done"
BY DEF Done, Shapes

LEMMA TakenInv ==
  ASSUME IInv, down # << >>, down' = Tail(down), Head(down).kind # "answer",
         \A m \in stashed' : m.kind = "done",
         UNCHANGED <<latest, listening, timers, calls, socket, up, nextId, runs>>
  PROVE  IInv'
<1>1. Queue(down)
  BY DEF IInv, Queues
<1>2. /\ Queue(down') /\ ToSet(down') \subseteq ToSet(down)
      /\ \A m \in ToSet(down) : m.kind = "answer" => m \in ToSet(down')
  BY <1>1, Tailed
<1>3. Queues'
  BY <1>2 DEF IInv, Queues
<1>4. Shapes'
  BY <1>2 DEF IInv, Shapes, Shaped
<1>5. AskedFirst' /\ RightIds'
  BY <1>2 DEF IInv, AskedFirst, RightIds
<1>6. LatestIsHeard' /\ SupersededIsCancelled'
  BY <1>2 DEF IInv, LatestIsHeard, SupersededIsCancelled
<1> QED BY <1>3, <1>4, <1>5, <1>6 DEF IInv, Distinct

LEMMA AnswerInv ==
  ASSUME IInv, down # << >>, down' = Tail(down), Head(down).kind = "answer", ReceiveAnswer(Head(down)),
         UNCHANGED <<latest, calls, socket, up, nextId, runs>>
  PROVE  IInv'
<1> DEFINE message == Head(down)
           cancels == IF message.search = latest THEN {} ELSE {Message("cancel", message.search, message.id)}
<1>1. /\ Queue(down) /\ Queue(timers) /\ Queues /\ Shapes
      /\ stashed' \subseteq stashed
      /\ listening' = IF message.search = latest THEN message.id ELSE listening
  BY DEF IInv, Queues, ReceiveAnswer
<1>2. /\ Queue(down') /\ ToSet(down') \subseteq ToSet(down) /\ message \in ToSet(down)
      /\ ToSet(down) \subseteq ToSet(down') \union {message}
  BY <1>1, Tailed
<1>3. message.kind = "answer" /\ message.search \in 1 .. latest /\ message.id \in Nat /\ message.id # None
  BY <1>1, <1>2 DEF Shapes, None
<1>4. /\ Queue(timers') /\ ToSet(timers) \subseteq ToSet(timers') /\ cancels \subseteq ToSet(timers')
      /\ \A m \in ToSet(timers') : m.kind = "cancel" => m \in ToSet(timers) \/ m \in cancels
  <2> DEFINE last == IF message.search = latest THEN << >> ELSE Cancel(message.search, message.id)
  <2>1. Queue(last) /\ ToSet(last) = cancels
    BY <1>3, CancelMessages, EmptyQueue
  <2>2. timers' = (timers \o Told(message.id)) \o last
    BY DEF ReceiveAnswer
  <2> HIDE DEF last, cancels
  <2>3. Queue(Told(message.id)) /\ \A m \in ToSet(Told(message.id)) : m.kind # "cancel"
    BY <1>1, ToldMessages
  <2>4. /\ Queue(timers \o Told(message.id))
        /\ ToSet(timers \o Told(message.id)) = ToSet(timers) \union ToSet(Told(message.id))
    BY <1>1, <2>3, Concatenated
  <2>5. Queue(timers') /\ ToSet(timers') = ToSet(timers) \union ToSet(Told(message.id)) \union cancels
    BY <2>1, <2>2, <2>4, Concatenated
  <2> QED BY <2>3, <2>5
<1>5. /\ \A m \in cancels : m.kind = "cancel" /\ m.search = message.search /\ m.id = message.id
      /\ message.search # latest => \E m \in cancels : m.kind = "cancel" /\ m.search = message.search
  <2> HIDE DEF message
  <2> DEFINE cancel == Message("cancel", message.search, message.id)
  <2>1. cancel.kind = "cancel" /\ cancel.search = message.search /\ cancel.id = message.id
    BY DEF Message
  <2>2. cancels = IF message.search = latest THEN {} ELSE {cancel}
    OBVIOUS
  <2> HIDE DEF cancels, cancel
  <2> QED BY <2>1, <2>2
<1> HIDE DEF cancels, message
<1>6. Queues'
  BY <1>1, <1>2, <1>4 DEF Queues
<1>7. Shapes'
  <2>1. \A timer \in ToSet(timers') : timer.kind = "cancel" => timer.search \in 0 .. latest
    BY <1>1, <1>3, <1>4, <1>5 DEF Shapes
  <2> QED BY <1>1, <1>2, <2>1 DEF Shapes, Shaped
<1>8. AskedFirst'
  <2>1. SUFFICES ASSUME NEW request \in ToSet(up) \union ToSet(calls), request.kind = "search"
                 PROVE  /\ \A m \in ToSet(up) \union ToSet(calls) \union ToSet(timers') : ~(m.kind = "cancel" /\ m.search = request.search)
                        /\ \A m \in ToSet(down') : ~(m.kind = "answer" /\ m.search = request.search)
                        /\ \A run \in runs : run.search # request.search
                        /\ request.search = latest => listening' = None
    BY DEF AskedFirst
  <2>2. request.search # message.search
    BY <1>2, <1>3, <2>1 DEF IInv, AskedFirst
  <2> QED BY <1>1, <1>2, <1>4, <1>5, <2>1, <2>2 DEF IInv, AskedFirst
<1>9. RightIds'
  <2>1. SUFFICES ASSUME NEW run \in runs
                 PROVE  /\ \A m \in ToSet(up) \union ToSet(timers') : m.kind = "cancel" /\ m.search = run.search => m.id = run.id
                        /\ \A m \in ToSet(down') : m.kind = "answer" /\ m.search = run.search => m.id = run.id
                        /\ run.search = latest /\ listening' # None => listening' = run.id
    BY DEF RightIds
  <2>2. message.search = run.search => message.id = run.id
    BY <1>2, <1>3, <2>1 DEF IInv, RightIds
  <2> QED BY <1>1, <1>2, <1>4, <1>5, <2>1, <2>2 DEF IInv, RightIds
<1>10. LatestIsHeard'
  <2>1. SUFFICES ASSUME NEW run \in runs, run.ongoing, run.search = latest
                 PROVE  \/ listening' = run.id
                        \/ \E m \in ToSet(down') : m.kind = "answer" /\ m.search = run.search
    BY DEF LatestIsHeard
  <2>2. message.search = run.search => message.id = run.id
    BY <1>2, <1>3, <2>1 DEF IInv, RightIds
  <2> QED BY <1>1, <1>2, <2>1, <2>2 DEF IInv, LatestIsHeard
<1>11. SupersededIsCancelled'
  <2>1. SUFFICES ASSUME NEW run \in runs, run.ongoing, run.search < latest
                 PROVE  \/ \E m \in ToSet(up) \union ToSet(timers') : m.kind = "cancel" /\ m.search = run.search
                        \/ \E m \in ToSet(down') : m.kind = "answer" /\ m.search = run.search
    BY DEF SupersededIsCancelled
  <2>2. CASE message.search = run.search
    <3>1. run.search # latest
      BY <1>1, <2>1 DEF Shapes, Shaped
    <3> QED BY <1>4, <1>5, <2>2, <3>1
  <2>3. CASE message.search # run.search
    BY <1>2, <1>4, <2>1, <2>3 DEF IInv, SupersededIsCancelled
  <2> QED BY <2>2, <2>3
<1> QED BY <1>6, <1>7, <1>8, <1>9, <1>10, <1>11 DEF IInv, Distinct

LEMMA ReceiveInv == ASSUME IInv, Receive PROVE IInv'
<1>1. down # << >> /\ down' = Tail(down) /\ UNCHANGED <<latest, calls, socket, up, nextId, runs>>
  BY DEF Receive, server
<1>2. CASE Head(down).kind = "answer" /\ ReceiveAnswer(Head(down))
  BY <1>1, <1>2, AnswerInv
<1>3. CASE Head(down).kind = "result" /\ ReceiveResult(Head(down))
  BY <1>1, <1>3, TakenInv DEF ReceiveResult, service, IInv, Shapes
<1>4. CASE Head(down).kind = "done" /\ Done(Head(down)) /\ UNCHANGED timers
  BY <1>1, <1>4, TakenInv, DoneKeeps DEF IInv
<1> QED BY <1>2, <1>3, <1>4 DEF Receive

LEMMA TimerInv == ASSUME IInv, Timer PROVE IInv'
<1> DEFINE timer == Head(timers)
<1>1. /\ timers # << >> /\ timers' = Tail(timers)
      /\ UNCHANGED <<latest, socket, down, nextId, runs>>
  BY DEF Timer, server
<1>2. Queue(timers) /\ Queues /\ Shapes
  BY DEF IInv, Queues
<1>3. /\ Queue(timers') /\ ToSet(timers') \subseteq ToSet(timers) /\ timer \in ToSet(timers)
      /\ ToSet(timers) \subseteq ToSet(timers') \union {timer}
  BY <1>1, <1>2, Tailed
<1>4. CASE timer.kind = "done" /\ Done(timer) /\ UNCHANGED <<calls, up, late>>
  <2>1. listening' = listening /\ \A m \in stashed' : m.kind = "done"
    BY <1>2, <1>4, DoneKeeps
  <2>2. \A m \in ToSet(timers) : m.kind = "cancel" => m \in ToSet(timers')
    BY <1>3, <1>4
  <2>3. Queues' /\ Shapes'
    BY <1>1, <1>2, <1>3, <1>4, <2>1 DEF Queues, Shapes, Shaped
  <2>4. AskedFirst' /\ RightIds'
    BY <1>1, <1>3, <1>4, <2>1 DEF IInv, AskedFirst, RightIds
  <2>5. LatestIsHeard' /\ SupersededIsCancelled'
    BY <1>1, <1>4, <2>1, <2>2 DEF IInv, LatestIsHeard, SupersededIsCancelled
  <2> QED BY <1>1, <2>3, <2>4, <2>5 DEF IInv, Distinct
<1>5. CASE timer.kind = "cancel" /\ Call(<<timer>>) /\ UNCHANGED <<stashed, listening>>
  <2> HIDE DEF timer
  <2>1. Queue(<<timer>>) /\ ToSet(<<timer>>) = {timer} /\ Once(<<timer>>)
    BY Singleton DEF Once
  <2>2. /\ Queue(up') /\ Queue(calls') /\ Once(up') /\ Once(calls')
        /\ socket.open => ToSet(up') = ToSet(up) \union {timer} /\ calls' = calls
        /\ ~socket.open => up' = up /\ ToSet(calls') = ToSet(calls) \union {timer}
    BY <1>2, <1>5, <2>1, Called
  <2>3. \A m \in ToSet(up') \union ToSet(calls') : m \in ToSet(up) \union ToSet(calls) \/ m = timer
    BY <2>2
  <2>4. ToSet(up) \subseteq ToSet(up') /\ (runs # {} => timer \in ToSet(up'))
    BY <1>2, <2>2 DEF Queues
  <2>5. Queues'
    BY <1>1, <1>2, <1>3, <2>2 DEF Queues
  <2>6. Shapes'
    BY <1>1, <1>2, <1>3, <1>5, <2>3 DEF Shapes, Shaped
  <2>7. AskedFirst'
    BY <1>1, <1>3, <1>5, <2>3 DEF IInv, AskedFirst
  <2>8. RightIds'
    <3>1. SUFFICES ASSUME NEW run \in runs
                   PROVE  /\ \A m \in ToSet(up') : m.kind = "cancel" /\ m.search = run.search => m.id = run.id
                          /\ \A m \in ToSet(timers') : m.kind = "cancel" /\ m.search = run.search => m.id = run.id
      BY <1>1, <1>5 DEF IInv, RightIds
    <3>2. \A m \in ToSet(up) \union ToSet(timers) : m.kind = "cancel" /\ m.search = run.search => m.id = run.id
      BY <3>1 DEF IInv, RightIds
    <3>3. \A m \in ToSet(up') : m \in ToSet(up) \union ToSet(timers)
      BY <1>3, <2>2
    <3> QED BY <1>3, <3>2, <3>3
  <2>9. LatestIsHeard'
    BY <1>1, <1>5 DEF IInv, LatestIsHeard
  <2>10. SupersededIsCancelled'
    BY <1>1, <1>3, <2>4 DEF IInv, SupersededIsCancelled
  <2> QED BY <1>1, <2>5, <2>6, <2>7, <2>8, <2>9, <2>10 DEF IInv, Distinct
<1> QED BY <1>4, <1>5 DEF Timer

\* A run that came from another: the same search under the same id, that has ended or goes on.
From(new, run) ==
    /\ new = [id |-> new.id, search |-> new.search, ongoing |-> new.ongoing, matches |-> new.matches]
    /\ new.id = run.id /\ new.search = run.search /\ new.ongoing \in BOOLEAN /\ (new.ongoing => run.ongoing)

\* The runs of the server go on and end, it tells no ids, and of the cancellations it has taken in
\* no search is left.
LEMMA RunsInv ==
  ASSUME IInv, Distinct',
         \A new \in runs' : \E run \in runs : From(new, run),
         Queue(up'), Once(up'), ToSet(up') \subseteq ToSet(up),
         \A m \in ToSet(up) : \/ m.kind # "cancel" \/ m \in ToSet(up')
                              \/ \A new \in runs' : new.search = m.search => ~new.ongoing,
         Queue(down'), ToSet(down) \subseteq ToSet(down'),
         \A m \in ToSet(down') : m.kind = "answer" => m \in ToSet(down),
         socket.open,
         UNCHANGED <<latest, listening, stashed, timers, calls, socket, nextId>>
  PROVE  IInv'
<1>1. Shapes /\ Queues /\ AskedFirst /\ RightIds /\ LatestIsHeard /\ SupersededIsCancelled
  BY DEF IInv
<1>2. Queues'
  BY <1>1 DEF Queues
<1>3. Shapes'
  <2>1. \A new \in runs' : Shaped(new)'
    BY <1>1 DEF Shapes, Shaped, From
  <2> QED BY <1>1, <2>1 DEF Shapes
<1>4. AskedFirst'
  BY <1>1 DEF AskedFirst, From
<1>5. RightIds'
  <2>1. SUFFICES ASSUME NEW new \in runs'
                 PROVE  /\ \A m \in ToSet(up') \union ToSet(timers) : m.kind = "cancel" /\ m.search = new.search => m.id = new.id
                        /\ \A m \in ToSet(down') : m.kind = "answer" /\ m.search = new.search => m.id = new.id
                        /\ new.search = latest /\ listening # None => listening = new.id
    BY DEF RightIds
  <2>2. PICK run \in runs : new.id = run.id /\ new.search = run.search
    BY <2>1 DEF From
  <2> QED BY <1>1, <2>2 DEF RightIds
<1>6. LatestIsHeard'
  BY <1>1 DEF LatestIsHeard, From
<1>7. SupersededIsCancelled'
  <2>1. SUFFICES ASSUME NEW new \in runs', new.ongoing, new.search < latest
                 PROVE  \/ \E m \in ToSet(up') \union ToSet(timers) : m.kind = "cancel" /\ m.search = new.search
                        \/ \E m \in ToSet(down') : m.kind = "answer" /\ m.search = new.search
    BY DEF SupersededIsCancelled
  <2>2. PICK run \in runs : run.ongoing /\ run.search = new.search
    BY <2>1 DEF From
  <2>3. \/ \E m \in ToSet(up) \union ToSet(timers) : m.kind = "cancel" /\ m.search = new.search
        \/ \E m \in ToSet(down) : m.kind = "answer" /\ m.search = new.search
    BY <1>1, <2>1, <2>2 DEF SupersededIsCancelled
  <2> QED BY <2>1, <2>3
<1> QED BY <1>2, <1>3, <1>4, <1>5, <1>6, <1>7 DEF IInv

LEMMA RecordShape ==
  ASSUME NEW I, NEW N, NEW L, NEW r \in [id : I, search : N, ongoing : BOOLEAN, matches : L]
  PROVE  /\ r = [id |-> r.id, search |-> r.search, ongoing |-> r.ongoing, matches |-> r.matches]
         /\ r.ongoing \in BOOLEAN
OBVIOUS

LEMMA ChangedRun ==
  ASSUME NEW run \in runs, Shapes, NEW m, NEW o \in BOOLEAN
  PROVE  /\ From([run EXCEPT !.matches = m, !.ongoing = @ /\ o], run)
         /\ From([run EXCEPT !.ongoing = FALSE], run) /\ ~[run EXCEPT !.ongoing = FALSE].ongoing
<1> DEFINE R == [id : {run.id}, search : {run.search}, ongoing : BOOLEAN, matches : {run.matches, m}]
           more == [run EXCEPT !.matches = m, !.ongoing = @ /\ o]
           done == [run EXCEPT !.ongoing = FALSE]
<1>1. run \in R
  BY DEF Shapes, Shaped
<1>2. more \in R /\ more.id = run.id /\ more.search = run.search /\ (more.ongoing => run.ongoing)
  BY <1>1
<1>3. done \in R /\ done.id = run.id /\ done.search = run.search /\ ~done.ongoing
  BY <1>1
<1> HIDE DEF more, done
<1>4. From(more, run)
  BY <1>2, RecordShape DEF From
<1>5. From(done, run)
  BY <1>3, RecordShape DEF From
<1> QED BY <1>3, <1>4, <1>5 DEF more, done

LEMMA Replaced ==
  ASSUME Shapes, Distinct, NEW run \in runs, NEW new, From(new, run), runs' = (runs \ {run}) \union {new}
  PROVE  Distinct' /\ \A r \in runs' : \E q \in runs : From(r, q)
<1>1. Distinct'
  BY DEF Distinct, From
<1>2. \A r \in runs : From(r, r)
  BY DEF Shapes, Shaped, From
<1> QED BY <1>1, <1>2

LEMMA WrapUpMessages ==
  ASSUME NEW run PROVE Queue(WrapUp(run)) /\ \A m \in ToSet(WrapUp(run)) : m.kind # "answer"
<1> DEFINE done == Message("done", run.search, run.id)
<1>1. done.kind = "done" /\ WrapUp(run) = IF run.ongoing THEN <<done>> ELSE << >>
  BY DEF Message, WrapUp
<1> HIDE DEF done
<1> QED BY <1>1, Singleton, EmptyQueue

LEMMA OutputInv == ASSUME IInv, NEW run \in runs, NEW file \in Files, Output(run, file) PROVE IInv'
<1> DEFINE number == Cardinality({m \in run.matches : m.file = file}) + 1
           match == [search |-> run.search, file |-> file, number |-> number]
           matches == run.matches \union {match}
           full == Cardinality(matches) = MaxResults
           new == [run EXCEPT !.matches = matches, !.ongoing = @ /\ ~full]
           last == IF full THEN WrapUp(run) ELSE << >>
           result == Found(run, match)
<1>1. /\ runs' = (runs \ {run}) \union {new}
      /\ down' = (down \o <<result>>) \o last
      /\ UNCHANGED <<latest, listening, stashed, timers, calls, socket, up, nextId>>
  BY DEF Output, widget, service
<1>2. Shapes /\ Distinct /\ Queues
  BY DEF IInv
<1>3. From(new, run)
  <2>1. full \in BOOLEAN
    OBVIOUS
  <2> HIDE DEF matches, full
  <2> QED BY <1>2, <2>1, ChangedRun
<1>4. Queue(last) /\ (\A m \in ToSet(last) : m.kind # "answer") /\ result.kind = "result"
  BY WrapUpMessages, EmptyQueue DEF Found
<1> HIDE DEF new, last, result
<1>5. Queue(<<result>>) /\ ToSet(<<result>>) = {result}
  BY Singleton
<1>6. Queue(down \o <<result>>) /\ ToSet(down \o <<result>>) = ToSet(down) \union {result}
  BY <1>2, <1>5, Concatenated DEF Queues
<1>7. Queue(down') /\ ToSet(down') = ToSet(down) \union {result} \union ToSet(last)
  BY <1>1, <1>4, <1>6, Concatenated
<1>8. Distinct' /\ (\A r \in runs' : \E q \in runs : From(r, q)) /\ socket.open /\ Queue(up) /\ Once(up)
  BY <1>1, <1>2, <1>3, Replaced DEF Queues
<1> QED BY <1>1, <1>4, <1>7, <1>8, RunsInv

LEMMA EndInv == ASSUME IInv, NEW run \in runs, End(run) PROVE IInv'
<1> DEFINE last == IF Cardinality(run.matches) = MaxResults THEN << >> ELSE WrapUp(run)
<1>1. /\ runs' = runs \ {run} /\ down' = down \o last
      /\ UNCHANGED <<latest, listening, stashed, timers, calls, socket, up, nextId>>
  BY DEF End, widget, service
<1>2. Shapes /\ Distinct /\ Queues
  BY DEF IInv
<1>3. Queue(last) /\ \A m \in ToSet(last) : m.kind # "answer"
  BY WrapUpMessages, EmptyQueue
<1> HIDE DEF last
<1>4. Queue(down') /\ ToSet(down') = ToSet(down) \union ToSet(last)
  BY <1>1, <1>2, <1>3, Concatenated DEF Queues
<1>5. Distinct' /\ (\A r \in runs' : From(r, r) /\ r \in runs) /\ socket.open /\ Queue(up) /\ Once(up)
  BY <1>1, <1>2 DEF Queues, Distinct, Shapes, Shaped, From
<1> QED BY <1>1, <1>3, <1>4, <1>5, RunsInv

LEMMA ServeCancelInv ==
  ASSUME IInv, up # << >>, up' = Tail(up), Head(up).kind = "cancel", ServeCancel(Head(up)),
         UNCHANGED <<latest, listening, stashed, timers, calls, socket>>
  PROVE  IInv'
<1> DEFINE message == Head(up)
<1>1. Shapes /\ Distinct /\ Queues /\ RightIds
  BY DEF IInv
<1>2. /\ Queue(up') /\ Once(up') /\ ToSet(up') \subseteq ToSet(up) /\ message \in ToSet(up)
      /\ ToSet(up) \subseteq ToSet(up') \union {message} /\ socket.open
  BY <1>1, Tailed, OnceTailed DEF Queues
<1>3. \A run \in runs : run.search = message.search => run.id = message.id
  BY <1>1, <1>2 DEF RightIds
<1>4. CASE (\A run \in runs : run.id # message.id) /\ UNCHANGED <<runs, down>>
  <2>1. \A run \in runs : From(run, run)
    BY <1>1 DEF Shapes, Shaped, From
  <2>2. Distinct' /\ \A r \in runs' : \E q \in runs : From(r, q)
    BY <1>1, <1>4, <2>1 DEF Distinct
  <2>3. nextId' = nextId /\ Queue(down') /\ down' = down
    BY <1>1, <1>4 DEF Queues, ServeCancel
  <2> HIDE DEF message
  <2> QED BY <1>2, <1>3, <1>4, <2>2, <2>3, RunsInv
<1>5. ASSUME NEW run \in runs, run.id = message.id, nextId' = nextId,
             runs' = (runs \ {run}) \union {[run EXCEPT !.ongoing = FALSE]},
             down' = down \o WrapUp(run)
      PROVE  IInv'
  <2> DEFINE new == [run EXCEPT !.ongoing = FALSE]
  <2>1. From(new, run) /\ ~new.ongoing
    BY <1>1, ChangedRun
  <2> HIDE DEF new, message
  <2>2. Distinct' /\ \A r \in runs' : \E q \in runs : From(r, q)
    BY <1>1, <1>5, <2>1, Replaced DEF new
  <2>3. /\ Queue(down') /\ ToSet(down) \subseteq ToSet(down')
        /\ \A m \in ToSet(down') : m.kind = "answer" => m \in ToSet(down)
    BY <1>1, <1>5, Concatenated, WrapUpMessages DEF Queues
  <2>4. \A r \in runs' : r.search = message.search => ~r.ongoing
    BY <1>1, <1>3, <1>5, <2>1 DEF Distinct, new
  <2> QED BY <1>2, <1>5, <2>2, <2>3, <2>4, RunsInv
<1> QED BY <1>4, <1>5 DEF ServeCancel

LEMMA ServeSearchInv ==
  ASSUME IInv, up # << >>, up' = Tail(up), Head(up).kind = "search", ServeSearch(Head(up)),
         UNCHANGED <<latest, listening, stashed, timers, calls, socket>>
  PROVE  IInv'
<1> DEFINE message == Head(up)
           n == message.search
           answer == Message("answer", n, nextId)
           done == Message("done", n, nextId)
           new == [id |-> nextId, search |-> n, ongoing |-> TRUE, matches |-> {}]
<1>1. Shapes /\ Distinct /\ Queues /\ AskedFirst /\ RightIds /\ LatestIsHeard /\ SupersededIsCancelled
  BY DEF IInv
<1>2. /\ Queue(up') /\ Once(up') /\ ToSet(up') \subseteq ToSet(up) /\ message \in ToSet(up)
      /\ ToSet(up) \subseteq ToSet(up') \union {message} /\ ~Asks(up', n)
      /\ socket.open /\ calls = << >> /\ ToSet(calls) = {}
  BY <1>1, Tailed, OnceTailed, EmptyQueue DEF Queues
<1>3. /\ answer.kind = "answer" /\ answer.search = n /\ answer.id = nextId /\ done.kind = "done"
      /\ new.id = nextId /\ new.search = n
  BY DEF Message
\* The search was still asked for, and is so no more.
<1>4. /\ \A m \in ToSet(up) \union ToSet(timers) : ~(m.kind = "cancel" /\ m.search = n)
      /\ \A m \in ToSet(down) : ~(m.kind = "answer" /\ m.search = n)
      /\ \A run \in runs : run.search # n
      /\ n = latest => listening = None
      /\ \A m \in ToSet(up') : m.kind = "search" => m.search # n
  BY <1>1, <1>2 DEF AskedFirst, Asks
<1>5. /\ nextId' = nextId + 1 /\ nextId \in Nat
      /\ \/ runs' = runs \union {new} /\ down' = Append(down, answer)
         \/ runs' = runs /\ \E order \in {<<answer, done>>, <<done, answer>>} : down' = down \o order
  BY <1>1 DEF ServeSearch, Shapes
<1>6. /\ n \in 1 .. latest
      /\ new = [id |-> new.id, search |-> new.search, ongoing |-> new.ongoing, matches |-> new.matches]
      /\ new.ongoing \in BOOLEAN
  BY <1>1, <1>2 DEF Shapes
<1> HIDE DEF answer, done, new, n, message
<1>7. /\ Queue(down') /\ ToSet(down) \subseteq ToSet(down') /\ answer \in ToSet(down')
      /\ ToSet(down') \subseteq ToSet(down) \union {answer, done}
  <2>1. Queue(down)
    BY <1>1 DEF Queues
  <2>2. CASE down' = Append(down, answer)
    <3>1. down' = down \o <<answer>>
      BY <2>1, <2>2 DEF Queue
    <3> QED BY <2>1, <3>1, Concatenated, Singleton
  <2>3. CASE down' = down \o <<answer, done>>
    BY <2>1, <2>3, Concatenated, Pair
  <2>4. CASE down' = down \o <<done, answer>>
    BY <2>1, <2>4, Concatenated, Pair
  <2> QED BY <1>5, <2>2, <2>3, <2>4
<1>8. runs \subseteq runs' /\ runs' \subseteq runs \union {new}
  BY <1>5
<1>9. \A m \in ToSet(down') : m.kind = "answer" => m \in ToSet(down) \/ m = answer
  BY <1>3, <1>7
<1>10. Queues'
  BY <1>1, <1>2, <1>7 DEF Queues
<1>11. Shapes'
  <2>1. \A run \in runs' : Shaped(run)'
    <3>1. ASSUME NEW run \in runs PROVE Shaped(run)'
      BY <1>1, <1>5 DEF Shapes, Shaped
    <3>2. ASSUME NEW run, run = new PROVE Shaped(run)'
      <4>1. run.id = nextId /\ run.search = n /\ run.ongoing \in BOOLEAN
        BY <1>3, <1>6, <3>2
      <4>2. run = [id |-> run.id, search |-> run.search, ongoing |-> run.ongoing, matches |-> run.matches]
        BY <1>6, <3>2
      <4> QED BY <1>5, <1>6, <4>1, <4>2 DEF Shaped
    <3> QED BY <1>8, <3>1, <3>2
  <2>2. answer.search \in 1 .. latest /\ answer.id \in Nat
    BY <1>3, <1>5, <1>6
  <2>3. \A m \in ToSet(down') : m.kind = "answer" => m.search \in 1 .. latest /\ m.id \in Nat
    BY <1>1, <1>9, <2>2 DEF Shapes
  <2> QED BY <1>1, <1>2, <1>5, <2>1, <2>3 DEF Shapes
<1>12. Distinct'
  <2>1. \A run \in runs : run.id # new.id /\ run.search # new.search
    BY <1>1, <1>3, <1>4, <1>5 DEF Shapes, Shaped
  <2> QED BY <1>1, <1>8, <2>1 DEF Distinct
<1>13. AskedFirst'
  <2>1. SUFFICES ASSUME NEW request \in ToSet(up'), request.kind = "search"
                 PROVE  /\ \A m \in ToSet(up') \union ToSet(timers) : ~(m.kind = "cancel" /\ m.search = request.search)
                        /\ \A m \in ToSet(down') : ~(m.kind = "answer" /\ m.search = request.search)
                        /\ \A run \in runs' : run.search # request.search
                        /\ request.search = latest => listening = None
    BY <1>2 DEF AskedFirst
  <2>2. request.search # n /\ request \in ToSet(up)
    BY <1>2, <1>4, <2>1
  <2> QED BY <1>1, <1>2, <1>3, <1>8, <1>9, <2>1, <2>2 DEF AskedFirst
<1>14. RightIds'
  <2>1. SUFFICES ASSUME NEW run \in runs'
                 PROVE  /\ \A m \in ToSet(up') \union ToSet(timers) : m.kind = "cancel" /\ m.search = run.search => m.id = run.id
                        /\ \A m \in ToSet(down') : m.kind = "answer" /\ m.search = run.search => m.id = run.id
                        /\ run.search = latest /\ listening # None => listening = run.id
    BY DEF RightIds
  <2>2. CASE run \in runs
    BY <1>1, <1>2, <1>3, <1>4, <1>9, <2>2 DEF RightIds
  <2>3. CASE run = new
    BY <1>2, <1>3, <1>4, <1>9, <2>3
  <2> QED BY <1>8, <2>2, <2>3
<1>15. LatestIsHeard'
  BY <1>1, <1>3, <1>7, <1>8 DEF LatestIsHeard
<1>16. SupersededIsCancelled'
  <2>1. SUFFICES ASSUME NEW run \in runs', run.ongoing, run.search < latest
                 PROVE  \/ \E m \in ToSet(up') \union ToSet(timers) : m.kind = "cancel" /\ m.search = run.search
                        \/ \E m \in ToSet(down') : m.kind = "answer" /\ m.search = run.search
    BY DEF SupersededIsCancelled
  <2>2. CASE run \in runs
    <3>1. message.kind = "search"
      BY DEF message
    <3> QED BY <1>1, <1>2, <1>7, <2>1, <2>2, <3>1 DEF SupersededIsCancelled
  <2>3. CASE run = new
    BY <1>3, <1>7, <2>3
  <2> QED BY <1>8, <2>2, <2>3
<1> QED BY <1>10, <1>11, <1>12, <1>13, <1>14, <1>15, <1>16 DEF IInv

LEMMA ServeInv == ASSUME IInv, Serve PROVE IInv'
<1>1. up # << >> /\ up' = Tail(up) /\ UNCHANGED <<latest, listening, stashed, timers, calls, socket>>
  BY DEF Serve, widget, service
<1>2. CASE Head(up).kind = "search" /\ ServeSearch(Head(up))
  BY <1>1, <1>2, ServeSearchInv
<1>3. CASE Head(up).kind = "cancel" /\ ServeCancel(Head(up))
  BY <1>1, <1>3, ServeCancelInv
<1> QED BY <1>2, <1>3 DEF Serve

LEMMA NextInv == ASSUME IInv, [Next]_vars PROVE IInv'
<1>1. CASE SearchNothing
  BY <1>1, IrrelevantInv DEF SearchNothing, relevant, service, server
<1>2. ASSUME NEW match \in icons, ReceiveIcon(match) PROVE IInv'
  BY <1>2, IrrelevantInv DEF ReceiveIcon, relevant, service, server
<1>3. CASE UNCHANGED vars \/ Abandon
  BY <1>3, IrrelevantInv DEF vars, Abandon, relevant, widget, service, server
<1> QED
  BY <1>1, <1>2, <1>3, SearchInv, ConnectInv, CloseInv, ReceiveInv, TimerInv, ServeInv, OutputInv, EndInv DEF Next

----------------------------------------------------------------------------
(* Ids and connections: a cancellation names a search by the id that the   *)
(* server of one connection has given it, and may reach the next server.   *)
(* There it is harmless as long as it comes before all searches.           *)

\* On the server of now, id is that of search n and of no other.
Own(n, id) == id \in Nat /\ id < nextId /\ \A run \in runs : run.id = id => run.search = n

Fresh(s) == \A m \in ToSet(s) : m.kind # "search"

\* What comes after a search in a queue.
Behind(s) == {s[i] : i \in {i \in DOMAIN s : \E j \in 1 .. i - 1 : s[j].kind = "search"}}

OwnInv ==
    /\ \A m \in ToSet(down) : m.kind = "answer" => Own(m.search, m.id)
    /\ \A m \in ToSet(timers) : m.kind = "cancel" => Own(m.search, m.id)
    /\ listening # None => (Own(latest, listening) \/ (nextId = 0 /\ Fresh(up))) /\ Fresh(calls)
    /\ \A m \in ToSet(up) : m.kind = "cancel" /\ m.search \notin late => Own(m.search, m.id) \/ nextId = 0
    /\ \A m \in Behind(up) : m.kind = "cancel" /\ m.search \notin late => Own(m.search, m.id)
    /\ \A m \in Behind(calls) : m.kind = "cancel" => m.search \in late

LEMMA BehindShort == Behind(<< >>) = {} /\ Fresh(<< >>) /\ \A v : Behind(<<v>>) = {}
<1>1. Behind(<< >>) = {} /\ Fresh(<< >>)
  BY EmptyQueue DEF Behind, Fresh
<1>2. ASSUME NEW v PROVE Behind(<<v>>) = {}
  <2>1. DOMAIN <<v>> = {1}
    OBVIOUS
  <2>2. {i \in DOMAIN <<v>> : \E j \in 1 .. i - 1 : <<v>>[j].kind = "search"} = {}
    BY <2>1
  <2> QED BY <2>2 DEF Behind
<1> QED BY <1>1, <1>2

LEMMA BehindIn == ASSUME NEW s PROVE Behind(s) \subseteq ToSet(s)
BY DEF Behind, ToSet

LEMMA BehindConcatenated ==
  ASSUME NEW s, NEW t, Queue(s), Queue(t), NEW m \in Behind(s \o t)
  PROVE  m \in Behind(s) \/ m \in Behind(t) \/ (m \in ToSet(t) /\ ~Fresh(s))
<1> DEFINE S == ToSet(s) \union ToSet(t)
<1>1. /\ s \in Seq(S) /\ Len(s) \in Nat /\ DOMAIN s = 1 .. Len(s)
      /\ t \in Seq(S) /\ Len(t) \in Nat /\ DOMAIN t = 1 .. Len(t)
  BY DEF Queue
<1>2. DOMAIN (s \o t) = 1 .. Len(s) + Len(t)
  BY <1>1
<1>3. \A i \in 1 .. Len(s) + Len(t) : (s \o t)[i] = IF i <= Len(s) THEN s[i] ELSE t[i - Len(s)]
  BY <1>1
<1>4. PICK i \in 1 .. Len(s) + Len(t) : m = (s \o t)[i] /\ \E j \in 1 .. i - 1 : (s \o t)[j].kind = "search"
  BY <1>2 DEF Behind
<1>5. PICK j \in 1 .. i - 1 : (s \o t)[j].kind = "search"
  BY <1>4
<1>6. j \in 1 .. Len(s) + Len(t) /\ j < i /\ i \in Nat /\ j \in Nat
  BY <1>1
<1>7. CASE i <= Len(s)
  <2>1. i \in DOMAIN s /\ m = s[i] /\ j \in 1 .. i - 1 /\ s[j].kind = "search"
    BY <1>1, <1>3, <1>4, <1>5, <1>6, <1>7
  <2> QED BY <2>1 DEF Behind
<1>8. CASE i > Len(s)
  <2>1. i - Len(s) \in DOMAIN t /\ m = t[i - Len(s)]
    BY <1>1, <1>3, <1>4, <1>8
  <2>2. CASE j <= Len(s)
    <3>1. j \in DOMAIN s /\ s[j].kind = "search"
      BY <1>1, <1>3, <1>5, <1>6, <2>2
    <3> QED BY <2>1, <3>1 DEF Fresh, ToSet
  <2>3. CASE j > Len(s)
    <3>1. j - Len(s) \in 1 .. (i - Len(s)) - 1 /\ t[j - Len(s)].kind = "search"
      BY <1>1, <1>3, <1>5, <1>6, <2>3
    <3> QED BY <2>1, <3>1 DEF Behind
  <2> QED BY <1>1, <1>6, <2>2, <2>3
<1> QED BY <1>1, <1>6, <1>7, <1>8

LEMMA BehindTailed ==
  ASSUME NEW s, Queue(s), s # << >>
  PROVE  /\ Behind(Tail(s)) \subseteq Behind(s)
         /\ Head(s).kind = "search" => ToSet(Tail(s)) \subseteq Behind(s)
<1> DEFINE S == ToSet(s)
<1>1. s \in Seq(S) /\ DOMAIN s = 1 .. Len(s) /\ Len(s) \in Nat
  BY DEF Queue
<1>2. Len(s) # 0 /\ Head(s) = s[1]
  BY <1>1
<1>3. /\ DOMAIN Tail(s) = 1 .. Len(s) - 1
      /\ \A i \in 1 .. Len(s) - 1 : Tail(s)[i] = s[i + 1]
  BY <1>1, <1>2
<1>4. ASSUME NEW m \in Behind(Tail(s)) PROVE m \in Behind(s)
  <2>1. PICK i \in 1 .. Len(s) - 1 : m = Tail(s)[i] /\ \E j \in 1 .. i - 1 : Tail(s)[j].kind = "search"
    BY <1>3 DEF Behind
  <2>2. PICK j \in 1 .. i - 1 : Tail(s)[j].kind = "search"
    BY <2>1
  <2>3. i + 1 \in DOMAIN s /\ m = s[i + 1]
    BY <1>1, <1>3, <2>1
  <2>4. j \in 1 .. Len(s) - 1 /\ j + 1 \in 1 .. (i + 1) - 1
    BY <1>1
  <2>5. s[j + 1].kind = "search"
    BY <1>3, <2>2, <2>4
  <2> QED BY <2>3, <2>4, <2>5 DEF Behind
<1>5. ASSUME Head(s).kind = "search", NEW m \in ToSet(Tail(s)) PROVE m \in Behind(s)
  <2>1. PICK i \in 1 .. Len(s) - 1 : m = Tail(s)[i]
    BY <1>3 DEF ToSet
  <2>2. i + 1 \in DOMAIN s /\ m = s[i + 1] /\ 1 \in 1 .. (i + 1) - 1
    BY <1>1, <1>3, <2>1
  <2> QED BY <1>2, <1>5, <2>2 DEF Behind
<1> QED BY <1>4, <1>5

\* The ids that were given stay what they are as long as the server does.
LEMMA OwnKept ==
  ASSUME NEW n, NEW id, Own(n, id), nextId \in Nat, nextId' \in Nat, nextId <= nextId',
         \A r \in runs' : r.id >= nextId \/ \E q \in runs : q.id = r.id /\ q.search = r.search,
         \A r \in runs' : r.id \in Nat
  PROVE  Own(n, id)'
<1>1. id \in Nat /\ id < nextId /\ \A run \in runs : run.id = id => run.search = n
  BY DEF Own
<1>2. ASSUME NEW r \in runs', r.id = id PROVE r.search = n
  <2>1. ~(r.id >= nextId)
    BY <1>1, <1>2
  <2>2. PICK q \in runs : q.id = r.id /\ q.search = r.search
    BY <2>1
  <2> QED BY <1>1, <1>2, <2>2
<1>3. id < nextId'
  BY <1>1
<1> QED BY <1>1, <1>2, <1>3 DEF Own

\* Steps that make no search, cancel or answer, and take none away but from the front.
LEMMA QuietOwn ==
  ASSUME IInv, OwnInv, IInv', nextId' = nextId,
         \A r \in runs' : \E q \in runs : q.id = r.id /\ q.search = r.search,
         \A m \in ToSet(down') : m.kind = "answer" => m \in ToSet(down),
         \A m \in ToSet(timers') : m.kind = "cancel" => m \in ToSet(timers),
         ToSet(up') \subseteq ToSet(up), Behind(up') \subseteq Behind(up),
         UNCHANGED <<latest, listening, calls, late>>
  PROVE  OwnInv'
<1>1. /\ nextId \in Nat /\ \A r \in runs' : r.id \in Nat
  BY DEF IInv, Shapes, Shaped
<1>2. ASSUME NEW n, NEW id, Own(n, id) PROVE Own(n, id)'
  <2>1. nextId' \in Nat /\ nextId <= nextId'
    BY <1>1
  <2> QED BY <1>1, <1>2, <2>1, OwnKept
<1>3. \A m \in ToSet(down') : m.kind = "answer" => Own(m.search, m.id)'
  BY <1>2 DEF OwnInv
<1>4. \A m \in ToSet(timers') : m.kind = "cancel" => Own(m.search, m.id)'
  BY <1>2 DEF OwnInv
<1>5. listening' # None => (Own(latest, listening)' \/ (nextId' = 0 /\ Fresh(up'))) /\ Fresh(calls')
  <2>1. PICK n, id : n = latest /\ id = listening
    OBVIOUS
  <2>2. listening # None => (Own(n, id) \/ (nextId = 0 /\ Fresh(up))) /\ Fresh(calls)
    BY <2>1 DEF OwnInv
  <2>3. Own(n, id) => Own(n, id)'
    BY <1>2
  <2>4. Own(n, id)' => Own(latest, listening)'
    BY <2>1 DEF Own
  <2> QED BY <2>2, <2>3, <2>4 DEF Fresh
<1>6. \A m \in ToSet(up') : m.kind = "cancel" /\ m.search \notin late' => Own(m.search, m.id)' \/ nextId' = 0
  BY <1>2 DEF OwnInv
<1>7. \A m \in Behind(up') : m.kind = "cancel" /\ m.search \notin late' => Own(m.search, m.id)'
  BY <1>2 DEF OwnInv
<1>8. \A m \in Behind(calls') : m.kind = "cancel" => m.search \in late'
  BY DEF OwnInv
<1> QED BY <1>3, <1>4, <1>5, <1>6, <1>7, <1>8 DEF OwnInv

LEMMA InitOwn == Init => OwnInv
<1> SUFFICES ASSUME Init PROVE OwnInv
  OBVIOUS
<1>1. /\ down = << >> /\ timers = << >> /\ up = << >> /\ calls = << >> /\ listening = None
  BY DEF Init
<1>2. ToSet(down) = {} /\ ToSet(timers) = {} /\ ToSet(up) = {} /\ Behind(up) = {} /\ Behind(calls) = {}
  BY <1>1, EmptyQueue, BehindShort
<1> QED BY <1>1, <1>2 DEF OwnInv

LEMMA SearchOwn == ASSUME IInv, OwnInv, Search PROVE OwnInv'
<1> DEFINE request == Message("search", latest', None)
           cancel == Message("cancel", latest, listening)
           t == Cancel(latest, listening) \o <<request>>
<1>1. /\ listening' = None /\ Call(t)
      /\ UNCHANGED <<timers, socket, down, nextId, runs, late>>
  BY DEF Search, history
<1>2. Queues
  BY DEF IInv
<1>3. /\ request.kind = "search" /\ cancel.kind = "cancel" /\ cancel.search = latest /\ cancel.id = listening
  BY DEF Message
<1>4. /\ Queue(Cancel(latest, listening)) /\ Fresh(Cancel(latest, listening))
      /\ ToSet(Cancel(latest, listening)) = IF listening = None THEN {} ELSE {cancel}
  BY <1>3, CancelMessages DEF Fresh
<1>5. Behind(Cancel(latest, listening)) = {}
  BY BehindShort DEF Cancel
<1>6. Queue(<<request>>) /\ ToSet(<<request>>) = {request} /\ Behind(<<request>>) = {}
  BY Singleton, BehindShort
<1> HIDE DEF request, cancel
<1>7. Queue(t) /\ ToSet(t) = (IF listening = None THEN {} ELSE {cancel}) \union {request}
  BY <1>4, <1>6, Concatenated
<1>8. Behind(t) = {}
  BY <1>4, <1>5, <1>6, BehindConcatenated
<1> HIDE DEF t
<1>9. \A m \in ToSet(t) : m.kind = "cancel" => m = cancel /\ listening # None
  BY <1>3, <1>7
<1>10. listening # None => (Own(latest, listening) \/ (nextId = 0 /\ Fresh(up))) /\ Fresh(calls)
  BY DEF OwnInv
<1>11. \A n, id : Own(n, id) => Own(n, id)'
  BY <1>1 DEF Own
<1>12. CASE socket.open
  <2>1. up' = up \o t /\ calls' = calls /\ Queue(up) /\ ToSet(up') = ToSet(up) \union ToSet(t)
    BY <1>1, <1>2, <1>7, <1>12, Concatenated DEF Call, Queues
  <2>2. \A m \in ToSet(up') : m.kind = "cancel" /\ m.search \notin late' => Own(m.search, m.id)' \/ nextId' = 0
    <3>1. SUFFICES ASSUME NEW m \in ToSet(up'), m.kind = "cancel", m.search \notin late
                   PROVE  Own(m.search, m.id)' \/ nextId = 0
      BY <1>1
    <3>2. Own(m.search, m.id) \/ nextId = 0
      BY <1>3, <1>9, <1>10, <2>1, <3>1 DEF OwnInv
    <3> QED BY <1>11, <3>2
  <2>3. \A m \in Behind(up') : m.kind = "cancel" /\ m.search \notin late' => Own(m.search, m.id)'
    <3>1. SUFFICES ASSUME NEW m \in Behind(up'), m.kind = "cancel", m.search \notin late
                   PROVE  Own(m.search, m.id)'
      BY <1>1
    <3>2. m \in Behind(up) \/ (m \in ToSet(t) /\ ~Fresh(up))
      BY <1>7, <1>8, <2>1, <3>1, BehindConcatenated
    <3>3. Own(m.search, m.id)
      BY <1>3, <1>9, <1>10, <3>1, <3>2 DEF OwnInv
    <3> QED BY <1>11, <3>3
  <2>4. \A m \in Behind(calls') : m.kind = "cancel" => m.search \in late'
    BY <1>1, <2>1 DEF OwnInv
  <2> QED BY <1>1, <1>11, <2>2, <2>3, <2>4 DEF OwnInv
<1>13. CASE ~socket.open
  <2>1. up' = up /\ calls' = calls \o t /\ Queue(calls)
    BY <1>1, <1>2, <1>13 DEF Call, Queues
  <2>2. \A m \in Behind(calls') : m.kind = "cancel" => m.search \in late'
    <3>1. SUFFICES ASSUME NEW m \in Behind(calls'), m.kind = "cancel" PROVE m.search \in late
      BY <1>1
    <3>2. m \in Behind(calls) \/ (m \in ToSet(t) /\ ~Fresh(calls))
      BY <1>7, <1>8, <2>1, <3>1, BehindConcatenated
    <3> QED BY <1>9, <1>10, <3>1, <3>2 DEF OwnInv
  <2> QED BY <1>1, <1>11, <2>1, <2>2 DEF OwnInv
<1> QED BY <1>12, <1>13

LEMMA ConnectOwn == ASSUME IInv, OwnInv, Connect PROVE OwnInv'
<1>1. /\ up' = calls /\ calls' = << >> /\ nextId' = 0 /\ runs' = {} /\ ~socket.open /\ timers = << >>
      /\ UNCHANGED <<listening, timers, down, late>>
  BY DEF Connect, widget, service, history
<1>2. down = << >>
  BY <1>1 DEF IInv, Queues
<1>3. ToSet(down') = {} /\ ToSet(timers') = {} /\ Behind(calls') = {} /\ Fresh(calls')
  BY <1>1, <1>2, EmptyQueue, BehindShort
<1>4. listening' # None => Fresh(up')
  BY <1>1 DEF OwnInv
<1>5. \A m \in Behind(up') : m.kind = "cancel" => m.search \in late'
  BY <1>1 DEF OwnInv
<1> QED BY <1>1, <1>3, <1>4, <1>5 DEF OwnInv

LEMMA CloseOwn == ASSUME IInv, OwnInv, Close PROVE OwnInv'
<1>1. /\ up' = << >> /\ down' = << >> /\ runs' = {}
      /\ UNCHANGED <<latest, listening, timers, calls, nextId, late>>
  BY DEF Close, service
<1>2. ToSet(down') = {} /\ ToSet(up') = {} /\ Behind(up') = {} /\ Fresh(up')
  BY <1>1, EmptyQueue, BehindShort
<1>3. \A n, id : Own(n, id) => Own(n, id)'
  BY <1>1 DEF Own
<1>4. \A m \in ToSet(timers') : m.kind = "cancel" => Own(m.search, m.id)'
  BY <1>1, <1>3 DEF OwnInv
<1>5. listening' # None => (Own(latest, listening)' \/ (nextId' = 0 /\ Fresh(up'))) /\ Fresh(calls')
  <2>1. listening # None => (Own(latest, listening) \/ nextId = 0) /\ Fresh(calls)
    BY DEF OwnInv
  <2>2. Own(latest, listening) => Own(latest, listening)'
    BY <1>1 DEF Own
  <2> QED BY <1>1, <1>2, <2>1, <2>2
<1>6. \A m \in Behind(calls') : m.kind = "cancel" => m.search \in late'
  BY <1>1 DEF OwnInv
<1> QED BY <1>2, <1>4, <1>5, <1>6 DEF OwnInv

LEMMA AnswerOwn ==
  ASSUME IInv, OwnInv, down # << >>, down' = Tail(down), Head(down).kind = "answer", ReceiveAnswer(Head(down)),
         UNCHANGED <<latest, calls, socket, up, nextId, runs, late>>
  PROVE  OwnInv'
<1> DEFINE message == Head(down)
           last == IF message.search = latest THEN << >> ELSE Cancel(message.search, message.id)
           cancel == Message("cancel", message.search, message.id)
<1>1. /\ Queue(down) /\ Queue(timers) /\ Shapes
      /\ listening' = IF message.search = latest THEN message.id ELSE listening
      /\ timers' = (timers \o Told(message.id)) \o last
  BY DEF IInv, Queues, ReceiveAnswer
<1>2. /\ ToSet(down') \subseteq ToSet(down) /\ message \in ToSet(down) /\ message.kind = "answer"
  BY <1>1, Tailed
<1>3. Own(message.search, message.id)
  BY <1>2 DEF OwnInv
<1>4. calls = << >> /\ Fresh(calls)
  BY BehindShort DEF IInv, Queues
<1>5. cancel.kind = "cancel" /\ cancel.search = message.search /\ cancel.id = message.id
  BY DEF Message
<1>6. Queue(last) /\ \A m \in ToSet(last) : m = cancel
  BY CancelMessages, EmptyQueue
<1>7. Queue(Told(message.id)) /\ \A m \in ToSet(Told(message.id)) : m.kind = "done"
  BY <1>1, ToldMessages
<1> HIDE DEF last, cancel, message
<1>8. /\ Queue(timers \o Told(message.id))
      /\ ToSet(timers \o Told(message.id)) = ToSet(timers) \union ToSet(Told(message.id))
  BY <1>1, <1>7, Concatenated
<1>9. ToSet(timers') = ToSet(timers) \union ToSet(Told(message.id)) \union ToSet(last)
  BY <1>1, <1>6, <1>8, Concatenated
<1>10. \A n, id : Own(n, id) => Own(n, id)'
  BY DEF Own
<1>11. \A m \in ToSet(timers') : m.kind = "cancel" => Own(m.search, m.id)'
  BY <1>3, <1>5, <1>6, <1>7, <1>9, <1>10 DEF OwnInv
<1>12. \A m \in ToSet(down') : m.kind = "answer" => Own(m.search, m.id)'
  BY <1>2, <1>10 DEF OwnInv
<1>13. listening' # None => (Own(latest, listening)' \/ (nextId' = 0 /\ Fresh(up'))) /\ Fresh(calls')
  <2>1. CASE message.search = latest
    <3>1. Own(latest, listening)'
      BY <1>1, <1>3, <2>1 DEF Own
    <3> QED BY <1>4, <3>1
  <2>2. CASE message.search # latest
    <3>1. listening' = listening
      BY <1>1, <2>2
    <3>2. Own(latest, listening) => Own(latest, listening)'
      BY <3>1 DEF Own
    <3>3. listening # None => Own(latest, listening) \/ (nextId = 0 /\ Fresh(up))
      BY DEF OwnInv
    <3> QED BY <1>4, <3>1, <3>2, <3>3
  <2> QED BY <2>1, <2>2
<1>14. \A m \in ToSet(up') : m.kind = "cancel" /\ m.search \notin late' => Own(m.search, m.id)' \/ nextId' = 0
  BY <1>10 DEF OwnInv
<1>15. \A m \in Behind(up') : m.kind = "cancel" /\ m.search \notin late' => Own(m.search, m.id)'
  BY <1>10 DEF OwnInv
<1>16. \A m \in Behind(calls') : m.kind = "cancel" => m.search \in late'
  BY DEF OwnInv
<1> QED BY <1>11, <1>12, <1>13, <1>14, <1>15, <1>16 DEF OwnInv

LEMMA ReceiveOwn == ASSUME IInv, OwnInv, Receive PROVE OwnInv'
<1>1. down # << >> /\ down' = Tail(down) /\ UNCHANGED <<latest, calls, socket, up, nextId, runs, late>>
  BY DEF Receive, server
<1>2. IInv' /\ Queue(down)
  BY ReceiveInv DEF IInv, Queues
<1>3. ToSet(down') \subseteq ToSet(down)
  BY <1>1, <1>2, Tailed
<1>4. CASE Head(down).kind = "answer" /\ ReceiveAnswer(Head(down))
  BY <1>1, <1>4, AnswerOwn
<1>5. CASE Head(down).kind = "result" /\ ReceiveResult(Head(down))
  <2>1. timers' = timers /\ listening' = listening
    BY <1>5 DEF ReceiveResult, service
  <2> QED BY <1>1, <1>2, <1>3, <2>1, QuietOwn
<1>6. CASE Head(down).kind = "done" /\ Done(Head(down)) /\ UNCHANGED timers
  <2>1. timers' = timers /\ listening' = listening
    BY <1>6 DEF Done
  <2> QED BY <1>1, <1>2, <1>3, <2>1, QuietOwn
<1> QED BY <1>4, <1>5, <1>6 DEF Receive

LEMMA TimerOwn == ASSUME IInv, OwnInv, Timer PROVE OwnInv'
<1> DEFINE timer == Head(timers)
<1>1. /\ timers # << >> /\ timers' = Tail(timers)
      /\ UNCHANGED <<latest, socket, down, nextId, runs>>
  BY DEF Timer, server
<1>2. Queue(timers) /\ Queue(up) /\ Queue(calls) /\ IInv'
  BY TimerInv DEF IInv, Queues
<1>3. ToSet(timers') \subseteq ToSet(timers) /\ timer \in ToSet(timers)
  BY <1>1, <1>2, Tailed
<1>4. CASE timer.kind = "done" /\ Done(timer) /\ UNCHANGED <<calls, up, late>>
  <2>1. listening' = listening
    BY <1>4 DEF Done
  <2> QED BY <1>1, <1>2, <1>3, <1>4, <2>1, QuietOwn
<1>5. CASE /\ timer.kind = "cancel" /\ Call(<<timer>>) /\ listening' = listening
           /\ late' = IF socket.open THEN late ELSE late \union {timer.search}
  <2> HIDE DEF timer
  <2>1. Queue(<<timer>>) /\ ToSet(<<timer>>) = {timer} /\ Behind(<<timer>>) = {}
    BY Singleton, BehindShort
  <2>2. \A n, id : Own(n, id) => Own(n, id)'
    BY <1>1 DEF Own
  <2>3. Own(timer.search, timer.id)
    BY <1>3, <1>5 DEF OwnInv
  <2>4. /\ \A m \in ToSet(down') : m.kind = "answer" => Own(m.search, m.id)'
        /\ \A m \in ToSet(timers') : m.kind = "cancel" => Own(m.search, m.id)'
    BY <1>1, <1>3, <2>2 DEF OwnInv
  <2>5. listening # None => (Own(latest, listening)' \/ (nextId = 0 /\ Fresh(up))) /\ Fresh(calls)
    <3>1. Own(latest, listening) => Own(latest, listening)'
      BY <1>1, <1>5 DEF Own
    <3> QED BY <3>1 DEF OwnInv
  <2>6. CASE socket.open
    <3>1. up' = up \o <<timer>> /\ calls' = calls /\ late' = late
      BY <1>5, <2>6 DEF Call
    <3>2. ToSet(up') = ToSet(up) \union {timer}
      BY <1>2, <2>1, <3>1, Concatenated
    <3>3. \A m \in Behind(up') : m \in Behind(up) \/ m = timer
      BY <1>2, <2>1, <3>1, BehindConcatenated
    <3>4. Fresh(up) => Fresh(up')
      BY <1>5, <3>2 DEF Fresh
    <3>5. \A m \in ToSet(up') : m.kind = "cancel" /\ m.search \notin late' => Own(m.search, m.id)' \/ nextId' = 0
      BY <1>1, <2>2, <2>3, <3>1, <3>2 DEF OwnInv
    <3>6. \A m \in Behind(up') : m.kind = "cancel" /\ m.search \notin late' => Own(m.search, m.id)'
      BY <2>2, <2>3, <3>1, <3>3 DEF OwnInv
    <3>7. \A m \in Behind(calls') : m.kind = "cancel" => m.search \in late'
      BY <3>1 DEF OwnInv
    <3>8. listening' # None => (Own(latest, listening)' \/ (nextId' = 0 /\ Fresh(up'))) /\ Fresh(calls')
      BY <1>1, <1>5, <2>5, <3>1, <3>4
    <3> QED BY <2>4, <3>5, <3>6, <3>7, <3>8 DEF OwnInv
  <2>7. CASE ~socket.open
    <3>1. up' = up /\ calls' = calls \o <<timer>> /\ late' = late \union {timer.search}
      BY <1>5, <2>7 DEF Call
    <3>2. ToSet(calls') = ToSet(calls) \union {timer}
      BY <1>2, <2>1, <3>1, Concatenated
    <3>3. \A m \in Behind(calls') : m \in Behind(calls) \/ m = timer
      BY <1>2, <2>1, <3>1, BehindConcatenated
    <3>4. Fresh(calls) => Fresh(calls')
      BY <1>5, <3>2 DEF Fresh
    <3>5. \A m \in ToSet(up') : m.kind = "cancel" /\ m.search \notin late' => Own(m.search, m.id)' \/ nextId' = 0
      BY <1>1, <2>2, <3>1 DEF OwnInv
    <3>6. \A m \in Behind(up') : m.kind = "cancel" /\ m.search \notin late' => Own(m.search, m.id)'
      BY <2>2, <3>1 DEF OwnInv
    <3>7. \A m \in Behind(calls') : m.kind = "cancel" => m.search \in late'
      BY <3>1, <3>3 DEF OwnInv
    <3>8. listening' # None => (Own(latest, listening)' \/ (nextId' = 0 /\ Fresh(up'))) /\ Fresh(calls')
      BY <1>1, <1>5, <2>5, <3>1, <3>4
    <3> QED BY <2>4, <3>5, <3>6, <3>7, <3>8 DEF OwnInv
  <2> QED BY <2>6, <2>7
<1> QED BY <1>4, <1>5 DEF Timer

LEMMA ServeOwn == ASSUME IInv, OwnInv, Serve PROVE OwnInv'
<1> DEFINE message == Head(up)
<1>1. up # << >> /\ up' = Tail(up) /\ UNCHANGED <<latest, listening, timers, calls, late>>
  BY DEF Serve, widget, service, history
<1>2. Queue(up) /\ Queue(down) /\ Shapes /\ IInv'
  BY ServeInv DEF IInv, Queues
<1>3. /\ ToSet(up') \subseteq ToSet(up) /\ message \in ToSet(up) /\ Behind(up') \subseteq Behind(up)
      /\ message.kind = "search" => ToSet(up') \subseteq Behind(up)
  BY <1>1, <1>2, Tailed, BehindTailed
<1>4. CASE message.kind = "cancel" /\ ServeCancel(message)
  <2>1. nextId' = nextId
    BY <1>4 DEF ServeCancel
  <2>2. CASE UNCHANGED <<runs, down>>
    <3>1. \A r \in runs' : \E q \in runs : q.id = r.id /\ q.search = r.search
      BY <2>2
    <3> QED BY <1>1, <1>2, <1>3, <2>1, <2>2, <3>1, QuietOwn
  <2>3. ASSUME NEW run \in runs, runs' = (runs \ {run}) \union {[run EXCEPT !.ongoing = FALSE]},
               down' = down \o WrapUp(run)
        PROVE  OwnInv'
    <3> DEFINE new == [run EXCEPT !.ongoing = FALSE]
    <3>1. From(new, run)
      BY <1>2, ChangedRun
    <3> HIDE DEF new
    <3>2. \A r \in runs' : \E q \in runs : q.id = r.id /\ q.search = r.search
      BY <2>3, <3>1 DEF From, new
    <3>3. \A m \in ToSet(down') : m.kind = "answer" => m \in ToSet(down)
      BY <1>2, <2>3, Concatenated, WrapUpMessages
    <3> QED BY <1>1, <1>2, <1>3, <2>1, <3>2, <3>3, QuietOwn
  <2> QED BY <1>4, <2>2, <2>3 DEF ServeCancel
<1>5. CASE message.kind = "search" /\ ServeSearch(message)
  <2> DEFINE n == message.search
             answer == Message("answer", n, nextId)
             done == Message("done", n, nextId)
             new == [id |-> nextId, search |-> n, ongoing |-> TRUE, matches |-> {}]
  <2>1. /\ nextId' = nextId + 1 /\ nextId \in Nat
        /\ \/ runs' = runs \union {new} /\ down' = Append(down, answer)
           \/ runs' = runs /\ \E order \in {<<answer, done>>, <<done, answer>>} : down' = down \o order
    BY <1>2, <1>5 DEF ServeSearch, Shapes
  <2>2. /\ answer.kind = "answer" /\ answer.search = n /\ answer.id = nextId /\ done.kind = "done"
        /\ new.id = nextId /\ new.search = n
    BY DEF Message
  <2>3. \A run \in runs : run.id \in Nat /\ run.id < nextId
    BY <1>2 DEF Shapes, Shaped
  <2> HIDE DEF message, n, answer, done, new
  <2>4. \A r \in runs' : r \in runs \/ r = new
    BY <2>1
  <2>5. \A m \in ToSet(down') : m.kind = "answer" => m \in ToSet(down) \/ m = answer
    <3>1. CASE down' = Append(down, answer)
      <4>1. down' = down \o <<answer>>
        BY <1>2, <3>1 DEF Queue
      <4> QED BY <1>2, <4>1, Concatenated, Singleton
    <3>2. CASE down' = down \o <<answer, done>>
      BY <1>2, <2>2, <3>2, Concatenated, Pair
    <3>3. CASE down' = down \o <<done, answer>>
      BY <1>2, <2>2, <3>3, Concatenated, Pair
    <3> QED BY <2>1, <3>1, <3>2, <3>3
  <2>6. ASSUME NEW k, NEW id, Own(k, id) PROVE Own(k, id)'
    <3>1. \A r \in runs' : r.id >= nextId \/ \E q \in runs : q.id = r.id /\ q.search = r.search
      BY <2>1, <2>2, <2>4
    <3>2. nextId' \in Nat /\ nextId <= nextId' /\ \A r \in runs' : r.id \in Nat
      BY <2>1, <2>2, <2>3, <2>4
    <3> QED BY <2>1, <2>6, <3>1, <3>2, OwnKept
  <2>7. ASSUME NEW k, NEW id, k = n, id = nextId PROVE Own(k, id)'
    <3>1. id \in Nat /\ id < nextId' /\ \A r \in runs' : r.id = id => r.search = k
      BY <2>1, <2>2, <2>3, <2>4, <2>7
    <3> QED BY <3>1 DEF Own
  <2>8. \A m \in ToSet(down') : m.kind = "answer" => Own(m.search, m.id)'
    <3>1. SUFFICES ASSUME NEW m \in ToSet(down'), m.kind = "answer" PROVE Own(m.search, m.id)'
      OBVIOUS
    <3>2. PICK k, id : k = m.search /\ id = m.id
      OBVIOUS
    <3>3. CASE m \in ToSet(down)
      <4>1. Own(k, id)
        BY <3>1, <3>2, <3>3 DEF OwnInv
      <4> QED BY <2>6, <3>2, <4>1
    <3>4. CASE m = answer
      <4>1. k = n /\ id = nextId
        BY <2>2, <3>2, <3>4
      <4> QED BY <2>7, <3>2, <4>1
    <3> QED BY <2>5, <3>1, <3>3, <3>4
  <2>9. \A m \in ToSet(timers') : m.kind = "cancel" => Own(m.search, m.id)'
    BY <1>1, <2>6 DEF OwnInv
  <2>10. listening' # None => (Own(latest, listening)' \/ (nextId' = 0 /\ Fresh(up'))) /\ Fresh(calls')
    <3>1. ~Fresh(up)
      BY <1>3, <1>5 DEF Fresh
    <3>2. PICK k, id : k = latest /\ id = listening
      OBVIOUS
    <3>3. listening # None => Own(k, id) /\ Fresh(calls)
      BY <3>1, <3>2 DEF OwnInv
    <3>4. Own(k, id)' => Own(latest, listening)'
      BY <1>1, <3>2 DEF Own
    <3> QED BY <1>1, <2>6, <3>3, <3>4
  <2>11. \A m \in Behind(up) : m.kind = "cancel" /\ m.search \notin late => Own(m.search, m.id)'
    BY <2>6 DEF OwnInv
  <2>12. \A m \in Behind(calls') : m.kind = "cancel" => m.search \in late'
    BY <1>1 DEF OwnInv
  <2>13. ToSet(up') \subseteq Behind(up)
    BY <1>3, <1>5
  <2> QED BY <1>1, <1>3, <2>8, <2>9, <2>10, <2>11, <2>12, <2>13 DEF OwnInv
<1> QED BY <1>4, <1>5 DEF Serve

LEMMA OutputOwn == ASSUME IInv, OwnInv, NEW run \in runs, NEW file \in Files, Output(run, file) PROVE OwnInv'
<1> DEFINE number == Cardinality({m \in run.matches : m.file = file}) + 1
           match == [search |-> run.search, file |-> file, number |-> number]
           matches == run.matches \union {match}
           full == Cardinality(matches) = MaxResults
           new == [run EXCEPT !.matches = matches, !.ongoing = @ /\ ~full]
           last == IF full THEN WrapUp(run) ELSE << >>
           result == Found(run, match)
<1>1. /\ runs' = (runs \ {run}) \union {new}
      /\ down' = (down \o <<result>>) \o last
      /\ UNCHANGED <<latest, listening, timers, calls, up, nextId, late>>
  BY DEF Output, widget, service, history
<1>2. Shapes /\ Queue(down) /\ IInv'
  BY OutputInv DEF IInv, Queues
<1>3. From(new, run)
  <2>1. full \in BOOLEAN
    OBVIOUS
  <2> HIDE DEF matches, full
  <2> QED BY <1>2, <2>1, ChangedRun
<1>4. Queue(last) /\ (\A m \in ToSet(last) : m.kind # "answer") /\ result.kind = "result"
  BY WrapUpMessages, EmptyQueue DEF Found
<1> HIDE DEF new, last, result
<1>5. Queue(<<result>>) /\ ToSet(<<result>>) = {result}
  BY Singleton
<1>6. Queue(down \o <<result>>) /\ ToSet(down \o <<result>>) = ToSet(down) \union {result}
  BY <1>2, <1>5, Concatenated
<1>7. ToSet(down') = ToSet(down) \union {result} \union ToSet(last)
  BY <1>1, <1>4, <1>6, Concatenated
<1>8. \A m \in ToSet(down') : m.kind = "answer" => m \in ToSet(down)
  BY <1>4, <1>7
<1>9. \A r \in runs' : \E q \in runs : q.id = r.id /\ q.search = r.search
  BY <1>1, <1>3 DEF From
<1> QED BY <1>1, <1>2, <1>8, <1>9, QuietOwn

LEMMA EndOwn == ASSUME IInv, OwnInv, NEW run \in runs, End(run) PROVE OwnInv'
<1> DEFINE last == IF Cardinality(run.matches) = MaxResults THEN << >> ELSE WrapUp(run)
<1>1. /\ runs' = runs \ {run} /\ down' = down \o last
      /\ UNCHANGED <<latest, listening, timers, calls, up, nextId, late>>
  BY DEF End, widget, service, history
<1>2. Queue(down) /\ IInv'
  BY EndInv DEF IInv, Queues
<1>3. Queue(last) /\ \A m \in ToSet(last) : m.kind # "answer"
  BY WrapUpMessages, EmptyQueue
<1> HIDE DEF last
<1>4. \A m \in ToSet(down') : m.kind = "answer" => m \in ToSet(down)
  BY <1>1, <1>2, <1>3, Concatenated
<1>5. \A r \in runs' : \E q \in runs : q.id = r.id /\ q.search = r.search
  BY <1>1
<1> QED BY <1>1, <1>2, <1>4, <1>5, QuietOwn

LEMMA UnchangedOwn == ASSUME IInv, OwnInv, UNCHANGED <<relevant, late>> PROVE OwnInv'
<1>1. IInv'
  BY IrrelevantInv
<1> QED BY <1>1, QuietOwn DEF relevant

LEMMA NextOwn == ASSUME IInv, OwnInv, [Next]_vars PROVE OwnInv'
<1>1. CASE SearchNothing
  BY <1>1, UnchangedOwn DEF SearchNothing, relevant, service, server, history
<1>2. ASSUME NEW match \in icons, ReceiveIcon(match) PROVE OwnInv'
  BY <1>2, UnchangedOwn DEF ReceiveIcon, relevant, service, server, history
<1>3. CASE UNCHANGED vars \/ Abandon
  BY <1>3, UnchangedOwn DEF vars, Abandon, relevant, widget, service, server, history
<1> QED
  BY <1>1, <1>2, <1>3, SearchOwn, ConnectOwn, CloseOwn, ReceiveOwn, TimerOwn, ServeOwn, OutputOwn, EndOwn DEF Next

----------------------------------------------------------------------------
(* The order of messages: the tree becomes what was found before the end   *)
(* of the search, no result comes before the id, and no search that is     *)
(* asked for overtakes another.                                            *)

Has(S, kind, n) == \E m \in S : m.kind = kind /\ m.search = n

\* The messages of a kind come in the order of their searches.
InTurn(s, kind) == \A i, j \in DOMAIN s :
                     i < j /\ s[i].kind = kind /\ s[j].kind = kind => s[i].search < s[j].search

\* What comes before the first message of a kind for search n.
Until(s, kind, n) == {s[i] : i \in {i \in DOMAIN s : \A j \in 1 .. i : ~(s[j].kind = kind /\ s[j].search = n)}}

LEMMA QueueFacts ==
  ASSUME NEW s, Queue(s)
  PROVE  /\ s \in Seq(ToSet(s)) /\ Len(s) \in Nat /\ DOMAIN s = 1 .. Len(s)
         /\ \A i \in 1 .. Len(s) : s[i] \in ToSet(s)
         /\ \A m \in ToSet(s) : \E i \in 1 .. Len(s) : m = s[i]
BY DEF Queue, ToSet

LEMMA TailFacts ==
  ASSUME NEW s, Queue(s), s # << >>
  PROVE  /\ Len(s) \in Nat \ {0} /\ DOMAIN s = 1 .. Len(s) /\ Head(s) = s[1]
         /\ Queue(Tail(s)) /\ DOMAIN Tail(s) = 1 .. Len(s) - 1
         /\ \A i \in 1 .. Len(s) - 1 : Tail(s)[i] = s[i + 1]
<1>1. s \in Seq(ToSet(s)) /\ Len(s) \in Nat /\ DOMAIN s = 1 .. Len(s)
  BY QueueFacts
<1>2. Len(s) # 0 /\ Head(s) = s[1]
  BY <1>1
<1>3. DOMAIN Tail(s) = 1 .. Len(s) - 1 /\ \A i \in 1 .. Len(s) - 1 : Tail(s)[i] = s[i + 1]
  BY <1>1, <1>2
<1> QED BY <1>1, <1>2, <1>3, Tailed

LEMMA JoinFacts ==
  ASSUME NEW s, NEW t, Queue(s), Queue(t)
  PROVE  /\ Len(s) \in Nat /\ DOMAIN s = 1 .. Len(s) /\ Len(t) \in Nat /\ DOMAIN t = 1 .. Len(t)
         /\ DOMAIN (s \o t) = 1 .. Len(s) + Len(t)
         /\ \A i \in 1 .. Len(s) : (s \o t)[i] = s[i]
         /\ \A i \in 1 .. Len(t) : (s \o t)[Len(s) + i] = t[i]
<1> DEFINE S == ToSet(s) \union ToSet(t)
<1>1. /\ s \in Seq(S) /\ Len(s) \in Nat /\ DOMAIN s = 1 .. Len(s)
      /\ t \in Seq(S) /\ Len(t) \in Nat /\ DOMAIN t = 1 .. Len(t)
  BY DEF Queue
<1>2. DOMAIN (s \o t) = 1 .. Len(s) + Len(t)
  BY <1>1
<1>3. \A i \in 1 .. Len(s) + Len(t) : (s \o t)[i] = IF i <= Len(s) THEN s[i] ELSE t[i - Len(s)]
  BY <1>1
<1>4. \A i \in 1 .. Len(t) : (s \o t)[Len(s) + i] = t[i]
  <2>1. TAKE i \in 1 .. Len(t)
  <2>2. Len(s) + i \in 1 .. Len(s) + Len(t) /\ ~(Len(s) + i <= Len(s)) /\ Len(s) + i - Len(s) = i
    BY <1>1
  <2> QED BY <1>3, <2>2
<1>5. \A i \in 1 .. Len(s) : (s \o t)[i] = s[i]
  BY <1>1, <1>3
<1> QED BY <1>1, <1>2, <1>4, <1>5

LEMMA InTurnShort == ASSUME NEW kind PROVE InTurn(<< >>, kind) /\ \A v : InTurn(<<v>>, kind)
<1>1. ASSUME NEW v PROVE DOMAIN <<v>> = {1}
  OBVIOUS
<1> QED BY <1>1 DEF InTurn

LEMMA InTurnTailed ==
  ASSUME NEW s, NEW kind, Queue(s), s # << >>, InTurn(s, kind)
  PROVE  /\ InTurn(Tail(s), kind)
         /\ Head(s).kind = kind => \A m \in ToSet(Tail(s)) : m.kind = kind => Head(s).search < m.search
<1>1. /\ Len(s) \in Nat \ {0} /\ DOMAIN s = 1 .. Len(s) /\ Head(s) = s[1]
      /\ Queue(Tail(s)) /\ DOMAIN Tail(s) = 1 .. Len(s) - 1
      /\ \A i \in 1 .. Len(s) - 1 : Tail(s)[i] = s[i + 1]
  BY TailFacts
<1>2. InTurn(Tail(s), kind)
  <2>1. SUFFICES ASSUME NEW i \in 1 .. Len(s) - 1, NEW j \in 1 .. Len(s) - 1, i < j,
                        Tail(s)[i].kind = kind, Tail(s)[j].kind = kind
                 PROVE  Tail(s)[i].search < Tail(s)[j].search
    BY <1>1 DEF InTurn
  <2>2. i + 1 \in DOMAIN s /\ j + 1 \in DOMAIN s /\ i + 1 < j + 1
    BY <1>1, <2>1
  <2> QED BY <1>1, <2>1, <2>2 DEF InTurn
<1>3. ASSUME Head(s).kind = kind, NEW m \in ToSet(Tail(s)), m.kind = kind PROVE Head(s).search < m.search
  <2>1. PICK i \in 1 .. Len(s) - 1 : m = Tail(s)[i]
    BY <1>1 DEF ToSet
  <2>2. 1 \in DOMAIN s /\ i + 1 \in DOMAIN s /\ 1 < i + 1 /\ m = s[i + 1]
    BY <1>1, <2>1
  <2> QED BY <1>1, <1>3, <2>2 DEF InTurn
<1> QED BY <1>2, <1>3

LEMMA InTurnConcatenated ==
  ASSUME NEW s, NEW t, NEW kind, Queue(s), Queue(t), InTurn(s, kind), InTurn(t, kind),
         \A a \in ToSet(s), b \in ToSet(t) : a.kind = kind /\ b.kind = kind => a.search < b.search
  PROVE  InTurn(s \o t, kind)
<1>1. /\ Len(s) \in Nat /\ DOMAIN s = 1 .. Len(s) /\ Len(t) \in Nat /\ DOMAIN t = 1 .. Len(t)
      /\ DOMAIN (s \o t) = 1 .. Len(s) + Len(t)
      /\ \A i \in 1 .. Len(s) : (s \o t)[i] = s[i]
      /\ \A i \in 1 .. Len(t) : (s \o t)[Len(s) + i] = t[i]
  BY JoinFacts
<1>2. /\ \A i \in 1 .. Len(s) : s[i] \in ToSet(s)
      /\ \A i \in 1 .. Len(t) : t[i] \in ToSet(t)
  BY QueueFacts
<1>3. SUFFICES ASSUME NEW i \in 1 .. Len(s) + Len(t), NEW j \in 1 .. Len(s) + Len(t), i < j,
                      (s \o t)[i].kind = kind, (s \o t)[j].kind = kind
               PROVE  (s \o t)[i].search < (s \o t)[j].search
  BY <1>1 DEF InTurn
<1>4. CASE j <= Len(s)
  <2>1. i \in 1 .. Len(s) /\ j \in 1 .. Len(s)
    BY <1>1, <1>3, <1>4
  <2> QED BY <1>1, <1>3, <2>1 DEF InTurn
<1>5. CASE i <= Len(s) /\ j > Len(s)
  <2>1. i \in 1 .. Len(s) /\ j - Len(s) \in 1 .. Len(t) /\ Len(s) + (j - Len(s)) = j
    BY <1>1, <1>5
  <2>2. (s \o t)[i] = s[i] /\ (s \o t)[j] = t[j - Len(s)]
    BY <1>1, <2>1
  <2> QED BY <1>2, <1>3, <2>1, <2>2
<1>6. CASE i > Len(s)
  <2>1. /\ i - Len(s) \in 1 .. Len(t) /\ Len(s) + (i - Len(s)) = i
        /\ j - Len(s) \in 1 .. Len(t) /\ Len(s) + (j - Len(s)) = j /\ i - Len(s) < j - Len(s)
    BY <1>1, <1>3, <1>6
  <2>2. (s \o t)[i] = t[i - Len(s)] /\ (s \o t)[j] = t[j - Len(s)]
    BY <1>1, <2>1
  <2> QED BY <1>1, <1>3, <2>1, <2>2 DEF InTurn
<1> QED BY <1>1, <1>4, <1>5, <1>6

LEMMA UntilIn ==
  ASSUME NEW s, NEW kind, NEW n, Queue(s)
  PROVE  /\ Until(s, kind, n) \subseteq ToSet(s)
         /\ \A m \in Until(s, kind, n) : ~(m.kind = kind /\ m.search = n)
         /\ ~Has(ToSet(s), kind, n) => Until(s, kind, n) = ToSet(s)
<1>1. /\ s \in Seq(ToSet(s)) /\ Len(s) \in Nat /\ DOMAIN s = 1 .. Len(s)
      /\ \A i \in 1 .. Len(s) : s[i] \in ToSet(s)
      /\ \A m \in ToSet(s) : \E i \in 1 .. Len(s) : m = s[i]
  BY QueueFacts
<1>2. Until(s, kind, n) \subseteq ToSet(s)
  BY <1>1 DEF Until
<1>3. ASSUME NEW m \in Until(s, kind, n) PROVE ~(m.kind = kind /\ m.search = n)
  <2>1. PICK i \in 1 .. Len(s) : m = s[i] /\ \A j \in 1 .. i : ~(s[j].kind = kind /\ s[j].search = n)
    BY <1>1 DEF Until
  <2> QED BY <1>1, <2>1
<1>4. ASSUME ~Has(ToSet(s), kind, n), NEW m \in ToSet(s) PROVE m \in Until(s, kind, n)
  <2>1. PICK i \in 1 .. Len(s) : m = s[i]
    BY <1>1
  <2>2. \A j \in 1 .. i : j \in 1 .. Len(s)
    BY <1>1
  <2>3. \A j \in 1 .. i : ~(s[j].kind = kind /\ s[j].search = n)
    BY <1>1, <1>4, <2>2 DEF Has
  <2> QED BY <1>1, <2>1, <2>3 DEF Until
<1> QED BY <1>2, <1>3, <1>4

LEMMA UntilTailed ==
  ASSUME NEW s, NEW kind, NEW n, Queue(s), s # << >>
  PROVE  Until(s, kind, n) = IF Head(s).kind = kind /\ Head(s).search = n THEN {}
                             ELSE {Head(s)} \union Until(Tail(s), kind, n)
<1> DEFINE Is(m) == m.kind = kind /\ m.search = n
<1>1. /\ Len(s) \in Nat \ {0} /\ DOMAIN s = 1 .. Len(s) /\ Head(s) = s[1]
      /\ Queue(Tail(s)) /\ DOMAIN Tail(s) = 1 .. Len(s) - 1
      /\ \A i \in 1 .. Len(s) - 1 : Tail(s)[i] = s[i + 1]
  BY TailFacts
<1>2. \A m : m \in Until(s, kind, n) <=> \E i \in 1 .. Len(s) : m = s[i] /\ \A j \in 1 .. i : ~Is(s[j])
  BY <1>1 DEF Until
<1>3. \A m : m \in Until(Tail(s), kind, n)
               <=> \E i \in 1 .. Len(s) - 1 : m = Tail(s)[i] /\ \A j \in 1 .. i : ~Is(Tail(s)[j])
  BY <1>1 DEF Until
<1> HIDE DEF Is
<1>4. CASE Is(Head(s))
  <2>1. ASSUME NEW m \in Until(s, kind, n) PROVE FALSE
    <3>1. PICK i \in 1 .. Len(s) : \A j \in 1 .. i : ~Is(s[j])
      BY <1>2, <2>1
    <3>2. 1 \in 1 .. i
      BY <1>1
    <3> QED BY <1>1, <1>4, <3>1, <3>2
  <2> QED BY <1>4, <2>1 DEF Is
<1>5. CASE ~Is(Head(s))
  <2>1. ASSUME NEW m \in Until(s, kind, n) PROVE m \in {Head(s)} \union Until(Tail(s), kind, n)
    <3>1. PICK i \in 1 .. Len(s) : m = s[i] /\ \A j \in 1 .. i : ~Is(s[j])
      BY <1>2, <2>1
    <3>2. CASE i = 1
      BY <1>1, <3>1, <3>2
    <3>3. CASE i > 1
      <4>1. i - 1 \in 1 .. Len(s) - 1 /\ m = Tail(s)[i - 1]
        BY <1>1, <3>1, <3>3
      <4>2. ASSUME NEW j \in 1 .. i - 1 PROVE ~Is(Tail(s)[j])
        <5>1. j \in 1 .. Len(s) - 1 /\ j + 1 \in 1 .. i
          BY <1>1
        <5> QED BY <1>1, <3>1, <5>1
      <4> QED BY <1>3, <4>1, <4>2
    <3> QED BY <1>1, <3>2, <3>3
  <2>2. Head(s) \in Until(s, kind, n)
    <3>1. 1 \in 1 .. Len(s) /\ \A j \in 1 .. 1 : j = 1
      BY <1>1
    <3> QED BY <1>1, <1>2, <1>5, <3>1
  <2>3. ASSUME NEW m \in Until(Tail(s), kind, n) PROVE m \in Until(s, kind, n)
    <3>1. PICK i \in 1 .. Len(s) - 1 : m = Tail(s)[i] /\ \A j \in 1 .. i : ~Is(Tail(s)[j])
      BY <1>3, <2>3
    <3>2. i + 1 \in 1 .. Len(s) /\ m = s[i + 1]
      BY <1>1, <3>1
    <3>3. ASSUME NEW j \in 1 .. i + 1 PROVE ~Is(s[j])
      <4>1. CASE j = 1
        BY <1>1, <1>5, <4>1
      <4>2. CASE j > 1
        <5>1. j - 1 \in 1 .. i /\ j - 1 \in 1 .. Len(s) - 1 /\ (j - 1) + 1 = j
          BY <1>1, <4>2
        <5>2. Tail(s)[j - 1] = s[j]
          BY <1>1, <5>1
        <5> QED BY <3>1, <5>1, <5>2
      <4> QED BY <1>1, <4>1, <4>2
    <3> QED BY <1>2, <3>2, <3>3
  <2> QED BY <1>5, <2>1, <2>2, <2>3 DEF Is
<1> QED BY <1>4, <1>5

LEMMA UntilConcatenated ==
  ASSUME NEW s, NEW t, NEW kind, NEW n, Queue(s), Queue(t)
  PROVE  Until(s \o t, kind, n) = IF Has(ToSet(s), kind, n) THEN Until(s, kind, n)
                                  ELSE ToSet(s) \union Until(t, kind, n)
<1> DEFINE Is(m) == m.kind = kind /\ m.search = n
           u == s \o t
<1>1. /\ Len(s) \in Nat /\ DOMAIN s = 1 .. Len(s) /\ Len(t) \in Nat /\ DOMAIN t = 1 .. Len(t)
      /\ DOMAIN u = 1 .. Len(s) + Len(t)
      /\ \A i \in 1 .. Len(s) : u[i] = s[i]
      /\ \A i \in 1 .. Len(t) : u[Len(s) + i] = t[i]
  BY JoinFacts
<1>2. \A m : m \in Until(s, kind, n) <=> \E i \in 1 .. Len(s) : m = s[i] /\ \A j \in 1 .. i : ~Is(s[j])
  BY <1>1 DEF Until
<1>3. \A m : m \in Until(t, kind, n) <=> \E i \in 1 .. Len(t) : m = t[i] /\ \A j \in 1 .. i : ~Is(t[j])
  BY <1>1 DEF Until
<1>4. \A m : m \in Until(u, kind, n) <=> \E i \in 1 .. Len(s) + Len(t) : m = u[i] /\ \A j \in 1 .. i : ~Is(u[j])
  BY <1>1 DEF Until
<1>5. Has(ToSet(s), kind, n) <=> \E i \in 1 .. Len(s) : Is(s[i])
  BY QueueFacts DEF Has
<1>6. \A m : m \in ToSet(s) <=> \E i \in 1 .. Len(s) : m = s[i]
  BY QueueFacts
<1> HIDE DEF Is, u
<1>7. ASSUME NEW m \in Until(s, kind, n) PROVE m \in Until(u, kind, n)
  <2>1. PICK i \in 1 .. Len(s) : m = s[i] /\ \A j \in 1 .. i : ~Is(s[j])
    BY <1>2, <1>7
  <2>2. i \in 1 .. Len(s) + Len(t) /\ m = u[i] /\ \A j \in 1 .. i : j \in 1 .. Len(s)
    BY <1>1, <2>1
  <2>3. \A j \in 1 .. i : ~Is(u[j])
    BY <1>1, <2>1, <2>2
  <2> QED BY <1>4, <2>2, <2>3
<1>8. CASE Has(ToSet(s), kind, n)
  <2>1. PICK h \in 1 .. Len(s) : Is(s[h])
    BY <1>5, <1>8
  <2>2. ASSUME NEW m \in Until(u, kind, n) PROVE m \in Until(s, kind, n)
    <3>1. PICK i \in 1 .. Len(s) + Len(t) : m = u[i] /\ \A j \in 1 .. i : ~Is(u[j])
      BY <1>4, <2>2
    <3>2. i < h
      <4>1. CASE h <= i
        <5>1. h \in 1 .. i /\ Is(u[h])
          BY <1>1, <2>1, <4>1
        <5> QED BY <3>1, <5>1
      <4> QED BY <1>1, <4>1
    <3>3. i \in 1 .. Len(s) /\ m = s[i] /\ \A j \in 1 .. i : j \in 1 .. Len(s)
      BY <1>1, <3>1, <3>2
    <3>4. \A j \in 1 .. i : ~Is(s[j])
      BY <1>1, <3>1, <3>3
    <3> QED BY <1>2, <3>3, <3>4
  <2> QED BY <1>7, <1>8, <2>2 DEF u
<1>9. CASE ~Has(ToSet(s), kind, n)
  <2>1. \A i \in 1 .. Len(s) : ~Is(s[i])
    BY <1>5, <1>9
  <2>2. ASSUME NEW m \in Until(u, kind, n) PROVE m \in ToSet(s) \union Until(t, kind, n)
    <3>1. PICK i \in 1 .. Len(s) + Len(t) : m = u[i] /\ \A j \in 1 .. i : ~Is(u[j])
      BY <1>4, <2>2
    <3>2. CASE i <= Len(s)
      <4>1. i \in 1 .. Len(s) /\ m = s[i]
        BY <1>1, <3>1, <3>2
      <4> QED BY <1>6, <4>1
    <3>3. CASE i > Len(s)
      <4>1. i - Len(s) \in 1 .. Len(t) /\ Len(s) + (i - Len(s)) = i
        BY <1>1, <3>3
      <4>2. m = t[i - Len(s)]
        BY <1>1, <3>1, <4>1
      <4>3. ASSUME NEW j \in 1 .. i - Len(s) PROVE ~Is(t[j])
        <5>1. j \in 1 .. Len(t) /\ Len(s) + j \in 1 .. i
          BY <1>1, <3>3, <4>1
        <5> QED BY <1>1, <3>1, <5>1
      <4> QED BY <1>3, <4>1, <4>2, <4>3
    <3> QED BY <1>1, <3>2, <3>3
  <2>3. ASSUME NEW m \in ToSet(s) PROVE m \in Until(u, kind, n)
    <3>1. m \in Until(s, kind, n)
      BY <1>9, UntilIn
    <3> QED BY <1>7, <3>1
  <2>4. ASSUME NEW m \in Until(t, kind, n) PROVE m \in Until(u, kind, n)
    <3>1. PICK i \in 1 .. Len(t) : m = t[i] /\ \A j \in 1 .. i : ~Is(t[j])
      BY <1>3, <2>4
    <3>2. Len(s) + i \in 1 .. Len(s) + Len(t) /\ m = u[Len(s) + i]
      BY <1>1, <3>1
    <3>3. ASSUME NEW j \in 1 .. Len(s) + i PROVE ~Is(u[j])
      <4>1. CASE j <= Len(s)
        <5>1. j \in 1 .. Len(s)
          BY <1>1, <4>1
        <5> QED BY <1>1, <2>1, <5>1
      <4>2. CASE j > Len(s)
        <5>1. j - Len(s) \in 1 .. i /\ j - Len(s) \in 1 .. Len(t) /\ Len(s) + (j - Len(s)) = j
          BY <1>1, <4>2
        <5>2. u[j] = t[j - Len(s)]
          BY <1>1, <5>1
        <5> QED BY <3>1, <5>1, <5>2
      <4> QED BY <1>1, <4>1, <4>2
    <3> QED BY <1>4, <3>2, <3>3
  <2> QED BY <1>9, <2>2, <2>3, <2>4 DEF u
<1> QED BY <1>8, <1>9

\* The files of matches among messages of search n.
Matches(S, n, file) == {m.match : m \in {m \in S : m.kind = "result" /\ m.search = n /\ m.match.file = file}}

Requests == ToSet(up) \union ToSet(calls)
Ending == stashed \union ToSet(timers)

Values ==
    /\ latest <= MaxSearches /\ nextId <= latest
    /\ pending \in [Ids -> 1 .. latest \union {None}] /\ lost \subseteq 1 .. latest /\ ended \in 0 .. latest
    /\ tree = [f \in Files |-> tree[f]]
    /\ \A match \in icons : match.file \notin KnownIcons
    /\ \A m \in ToSet(down) : m.search \in 1 .. latest /\ m.id \in Nat /\ m.id < nextId
    /\ \A m \in Ending : m.kind = "done" => m.search \in 1 .. latest /\ m.id \in Ids

\* Searches are asked for in turn, and so no more often than there are ids.
Turns ==
    /\ InTurn(up, "search") /\ InTurn(calls, "search") /\ InTurn(down, "answer")
    /\ \A m \in Requests : m.kind = "search" =>
         nextId < m.search /\ \A a \in ToSet(down) : a.kind = "answer" => a.search < m.search

\* The searches that the server has begun, with their ids; the latest one of the page, too, unless its socket has
\* closed.
Known == {<<m.search, m.id>> : m \in ToSet(down)} \union {<<run.search, run.id>> : run \in runs}
           \union {<<latest, id>> : id \in {id \in Ids : pending[id] = latest /\ latest \notin lost}}

\* A search has an id of its own, and none as long as it is asked for.
OneId ==
    /\ \A p, q \in Known : p[1] = q[1] <=> p[2] = q[2]
    /\ \A p \in Known : p[2] \in Nat /\ p[2] < nextId
    /\ \A m \in Requests : m.kind = "search" => \A p \in Known : p[1] # m.search

\* The latest search is asked for, its id comes, or its id is known and its end has not come yet.
Asked == Has(Requests, "search", latest)
Answering == Has(ToSet(down), "answer", latest)
Heard == \E id \in Ids : pending[id] = latest
Live == Asked \/ Answering \/ Heard

\* The end of the latest search came before its id.
Early == Has(Ending, "done", latest)
NoMatches == (\A run \in runs : run.search # latest) /\ ~Has(ToSet(down), "result", latest)

\* In each of these states, what is not there yet or no more.
Stages ==
    /\ Asked => ~Early /\ ended # latest
    /\ Answering =>
         /\ ~Heard /\ ended # latest
         /\ ~Has(Until(down, "answer", latest), "result", latest)
         /\ Has(Until(down, "answer", latest), "done", latest) => NoMatches
    /\ Heard => socket.open /\ ended # latest
    /\ Live /\ Early => NoMatches

\* A search that has ended finds nothing more, and one that finds nothing more has its end on the way.
Ends ==
    /\ Has(ToSet(down), "done", latest) \/ Early \/ ended = latest =>
         \A run \in runs : ~(run.search = latest /\ run.ongoing)
    /\ Live => \A run \in runs : run.search = latest /\ ~run.ongoing => Has(ToSet(down), "done", latest)

\* The tree and what comes before the end is what was found.
Arriving ==
    term /\ Live => \A file \in KnownIcons :
        tree[file] \union Matches(Until(down, "done", latest), latest, file) = {match \in found : match.file = file}

Latest == latest \notin lost => Stages /\ Ends /\ Arriving

ShownInv == Values /\ Turns /\ OneId /\ Latest /\ ShownIsComplete

LEMMA HasIn == ASSUME NEW S, NEW T, S \subseteq T, NEW kind, NEW n, Has(S, kind, n) PROVE Has(T, kind, n)
BY DEF Has

LEMMA InitShown == Init => ShownInv
<1> SUFFICES ASSUME Init PROVE ShownInv
  OBVIOUS
<1>1. /\ latest = 0 /\ nextId = 0 /\ ended = 0 /\ lost = {} /\ runs = {} /\ icons = {} /\ stashed = {} /\ ~term
      /\ pending = [id \in Ids |-> None] /\ tree = [f \in Files |-> {}]
      /\ up = << >> /\ down = << >> /\ calls = << >> /\ timers = << >>
  BY DEF Init
<1>2. ToSet(up) = {} /\ ToSet(down) = {} /\ ToSet(calls) = {} /\ ToSet(timers) = {}
  BY <1>1, EmptyQueue
<1>3. \A kind : InTurn(up, kind) /\ InTurn(down, kind) /\ InTurn(calls, kind)
  BY <1>1, InTurnShort
<1>4. Requests = {} /\ Ending = {} /\ \A id \in Ids : pending[id] # latest
  BY <1>1, <1>2 DEF Requests, Ending, None
<1>5. Known = {}
  BY <1>1, <1>2, <1>4 DEF Known
<1>6. Values
  <2>1. 0 <= MaxSearches
    BY SearchAssumption
  <2> QED BY <1>1, <1>2, <1>4, <2>1 DEF Values
<1>7. Turns /\ OneId
  BY <1>2, <1>3, <1>4, <1>5 DEF Turns, OneId
<1>8. ~Live /\ ~Early /\ Stages /\ Ends /\ Arriving
  BY <1>1, <1>2, <1>4 DEF Live, Asked, Answering, Heard, Early, Has, Stages, Ends, Arriving
<1>9. ShownIsComplete
  BY <1>1 DEF ShownIsComplete
<1> QED BY <1>6, <1>7, <1>8, <1>9 DEF ShownInv, Latest

LEMMA KnownLess ==
  ASSUME OneId, nextId' = nextId, Known' \subseteq Known,
         \A m \in Requests' : m.kind = "search" => m \in Requests
  PROVE  OneId'
BY DEF OneId

\* Steps in which the server does nothing and the latest search gets no further: it may be forgotten.
LEMMA Quieter ==
  ASSUME ShownInv, Values', InTurn(up', "search"), InTurn(calls', "search"),
         UNCHANGED <<latest, down, runs, nextId, ended, found, socket>>, lost \subseteq lost',
         term' => term /\ shown' = shown /\ \A file \in KnownIcons : tree'[file] = tree[file],
         \A m \in Requests' : m.kind = "search" => m \in Requests,
         \A id \in Ids : pending'[id] = latest => pending[id] = latest,
         \A m \in Ending' : m.kind = "done" => m \in Ending
  PROVE  ShownInv'
<1>1. Turns /\ OneId /\ Latest /\ ShownIsComplete
  BY DEF ShownInv
<1>2. Turns'
  BY <1>1 DEF Turns
<1>3. Known' \subseteq Known
  <2>1. \A id \in Ids : pending'[id] = latest' /\ latest' \notin lost' => pending[id] = latest /\ latest \notin lost
    OBVIOUS
  <2> QED BY <2>1 DEF Known
<1>4. OneId'
  BY <1>1, <1>3, KnownLess
<1>5. (Asked' => Asked) /\ (Heard' => Heard) /\ (Answering' <=> Answering) /\ (Early' => Early) /\ (NoMatches' <=> NoMatches)
  <2>1. Asked' => Asked
    BY DEF Asked, Has
  <2>2. Heard' => Heard
    BY DEF Heard
  <2>3. Early' => Early
    BY DEF Early, Has
  <2> QED BY <2>1, <2>2, <2>3 DEF Answering, NoMatches
<1>6. Live' => Live
  BY <1>5 DEF Live
<1>7. ASSUME latest \notin lost' PROVE Stages' /\ Ends' /\ Arriving'
  <2>1. Stages /\ Ends /\ Arriving
    BY <1>1, <1>7 DEF Latest
  <2>2. Stages'
    BY <1>5, <1>6, <2>1 DEF Stages
  <2>3. Ends'
    BY <1>5, <1>6, <2>1 DEF Ends
  <2>4. Arriving'
    BY <1>6, <2>1 DEF Arriving
  <2> QED BY <2>2, <2>3, <2>4
<1>8. ShownIsComplete'
  BY <1>1 DEF ShownIsComplete
<1> QED BY <1>2, <1>4, <1>7, <1>8 DEF ShownInv, Latest

----------------------------------------------------------------------------
(* What is shown: the steps of the page.                                   *)

LEMMA CalledTurn ==
  ASSUME Queues, Turns, NEW t, Queue(t), InTurn(t, "search"), Call(t),
         \A a \in Requests, b \in ToSet(t) : a.kind = "search" /\ b.kind = "search" => a.search < b.search
  PROVE  InTurn(up', "search") /\ InTurn(calls', "search") /\ Requests' = Requests \union ToSet(t)
<1>1. Queue(up) /\ Queue(calls) /\ InTurn(up, "search") /\ InTurn(calls, "search")
  BY DEF Queues, Turns
<1>2. CASE socket.open
  <2>1. up' = up \o t /\ calls' = calls
    BY <1>2 DEF Call
  <2>2. InTurn(up', "search") /\ ToSet(up') = ToSet(up) \union ToSet(t)
    BY <1>1, <2>1, InTurnConcatenated, Concatenated DEF Requests
  <2> QED BY <1>1, <2>1, <2>2 DEF Requests
<1>3. CASE ~socket.open
  <2>1. up' = up /\ calls' = calls \o t
    BY <1>3 DEF Call
  <2>2. InTurn(calls', "search") /\ ToSet(calls') = ToSet(calls) \union ToSet(t)
    BY <1>1, <2>1, InTurnConcatenated, Concatenated DEF Requests
  <2> QED BY <1>1, <2>1, <2>2 DEF Requests
<1> QED BY <1>2, <1>3

LEMMA SearchShown == ASSUME IInv, ShownInv, Search PROVE ShownInv'
<1> DEFINE request == Message("search", latest + 1, None)
           t == Cancel(latest, listening) \o <<request>>
<1>1. /\ latest < MaxSearches /\ latest' = latest + 1 /\ Call(t) /\ pending' = Without(listening)
      /\ tree' = [f \in Files |-> {}] /\ found' = {}
      /\ UNCHANGED <<icons, stashed, timers, socket, down, nextId, runs, ended, lost>>
  BY DEF Search, history
<1>2. /\ latest \in Nat /\ Queues /\ Values /\ Turns /\ OneId
      /\ \A m \in Requests : m.search \in 0 .. latest
      /\ \A run \in runs : run.search \in 1 .. latest
  BY DEF IInv, Shapes, Shaped, ShownInv, Requests
<1>3. /\ Queue(t) /\ InTurn(t, "search") /\ request \in ToSet(t)
      /\ \A m \in ToSet(t) : m.kind = "search" => m.search = latest + 1
  <2>1. Queue(<<request>>) /\ ToSet(<<request>>) = {request} /\ InTurn(<<request>>, "search")
    BY Singleton, InTurnShort
  <2>2. Queue(Cancel(latest, listening)) /\ \A m \in ToSet(Cancel(latest, listening)) : m.kind # "search"
    BY CancelMessages DEF Message
  <2>3. InTurn(Cancel(latest, listening), "search")
    BY InTurnShort DEF Cancel
  <2>4. request.search = latest + 1
    BY DEF Message
  <2> HIDE DEF request
  <2>5. Queue(t) /\ ToSet(t) = ToSet(Cancel(latest, listening)) \union {request}
    BY <2>1, <2>2, Concatenated
  <2>6. InTurn(t, "search")
    BY <2>1, <2>2, <2>3, InTurnConcatenated
  <2> QED BY <2>2, <2>4, <2>5, <2>6
<1>4. request.kind = "search" /\ request.search = latest'
  BY <1>1 DEF Message
<1> HIDE DEF t, request
<1>5. \A a \in Requests, b \in ToSet(t) : a.kind = "search" /\ b.kind = "search" => a.search < b.search
  BY <1>2, <1>3
<1>6. InTurn(up', "search") /\ InTurn(calls', "search") /\ Requests' = Requests \union ToSet(t)
  BY <1>1, <1>2, <1>3, <1>5, CalledTurn
<1>7. Ending' = Ending
  BY <1>1 DEF Ending
<1>8. pending' \in [Ids -> 1 .. latest \union {None}]
  <2>1. pending \in [Ids -> 1 .. latest \union {None}]
    BY <1>2 DEF Values
  <2> QED BY <1>1, <2>1 DEF Without
<1>9. Values'
  <2>1. \A f \in Files : tree'[f] = {}
    BY <1>1
  <2>2. latest' <= MaxSearches /\ nextId' <= latest'
    BY <1>1, <1>2, SearchAssumption, nextId \in Nat DEF Values, IInv, Shapes
  <2>3. 1 .. latest \subseteq 1 .. latest' /\ 0 .. latest \subseteq 0 .. latest'
    BY <1>1, <1>2
  <2>4. pending' \in [Ids -> 1 .. latest' \union {None}]
    BY <1>8, <2>3
  <2> QED BY <1>1, <1>2, <1>7, <2>1, <2>2, <2>3, <2>4 DEF Values
<1>10. /\ \A m \in ToSet(down) : m.search # latest'
       /\ \A run \in runs : run.search # latest'
       /\ \A id \in Ids : pending'[id] # latest'
       /\ \A m \in Ending : m.kind = "done" => m.search # latest'
       /\ ended # latest'
  BY <1>1, <1>2, <1>8 DEF Values, None
<1>11. Turns'
  <2>1. \A m \in Requests' : m.kind = "search" => m \in Requests \/ m.search = latest + 1
    BY <1>3, <1>6
  <2>2. nextId < latest + 1 /\ \A a \in ToSet(down) : a.search < latest + 1
    BY <1>2 DEF Values, IInv, Shapes
  <2> QED BY <1>1, <1>2, <1>6, <2>1, <2>2 DEF Turns
<1>12. OneId'
  <2>1. Known' \subseteq Known
    BY <1>1, <1>10 DEF Known
  <2>2. \A p \in Known' : p[1] # latest'
    BY <1>1, <1>10 DEF Known
  <2>3. \A m \in Requests' : m.kind = "search" => m \in Requests \/ m.search = latest'
    BY <1>1, <1>3, <1>6
  <2> QED BY <1>1, <1>2, <2>1, <2>2, <2>3 DEF OneId
<1>13. /\ ~Answering' /\ ~Heard' /\ ~Early' /\ ~Has(ToSet(down'), "done", latest')
       /\ ~Has(ToSet(down'), "result", latest')
  BY <1>1, <1>7, <1>10 DEF Answering, Heard, Early, Has
<1>14. Stages' /\ Ends'
  BY <1>1, <1>10, <1>13 DEF Stages, Ends
<1>15. Arriving'
  <2>1. Queue(down')
    BY <1>1, <1>2 DEF Queues
  <2>2. \A file : Matches(Until(down', "done", latest'), latest', file) = {}
    BY <1>13, <2>1, UntilIn DEF Matches, Has
  <2>3. \A file \in KnownIcons : tree'[file] = {}
    BY <1>1, SearchAssumption
  <2> QED BY <1>1, <2>2, <2>3 DEF Arriving
<1>16. ShownIsComplete'
  BY <1>1, <1>10 DEF ShownIsComplete
<1> QED BY <1>9, <1>11, <1>12, <1>14, <1>15, <1>16 DEF ShownInv, Latest

LEMMA ConnectShown == ASSUME IInv, ShownInv, Connect PROVE ShownInv'
<1>1. /\ ~socket.open /\ up' = calls /\ calls' = << >> /\ nextId' = 0 /\ runs' = {}
      /\ UNCHANGED <<latest, term, tree, shown, icons, ended, pending, stashed, timers, down, found, lost>>
  BY DEF Connect, widget, service, history
<1>2. /\ up = << >> /\ down = << >> /\ runs = {} /\ Queues /\ Values /\ Turns /\ OneId /\ Latest
      /\ latest \in Nat /\ nextId \in Nat /\ ShownIsComplete
      /\ \A m \in Requests : m.kind = "search" => m.search \in 1 .. latest
  BY <1>1 DEF IInv, Shapes, Queues, ShownInv, Requests
<1>3. ToSet(down) = {} /\ ToSet(up) = {} /\ Requests' = Requests /\ ToSet(up') = Requests /\ Ending' = Ending
  BY <1>1, <1>2, EmptyQueue DEF Requests, Ending
<1>4. Values'
  BY <1>1, <1>2, <1>3 DEF Values
<1>5. Turns'
  BY <1>1, <1>2, <1>3, InTurnShort DEF Turns
<1>6. latest \notin lost => ~Heard
  BY <1>1, <1>2 DEF Latest, Stages
<1>7. Known' = {}
  BY <1>1, <1>3, <1>6 DEF Known, Heard
<1>8. OneId'
  BY <1>7 DEF OneId
<1>9. (Asked' <=> Asked) /\ (Heard' <=> Heard) /\ ~Answering' /\ (Early' <=> Early)
  BY <1>1, <1>3 DEF Asked, Heard, Answering, Early, Has
<1>10. Live' => Live
  BY <1>9 DEF Live
<1>11. ASSUME latest \notin lost PROVE Stages' /\ Ends' /\ Arriving'
  <2>1. Stages /\ Ends /\ Arriving
    BY <1>2, <1>11 DEF Latest
  <2>2. NoMatches'
    BY <1>1, <1>3 DEF NoMatches, Has
  <2>3. Stages'
    BY <1>1, <1>6, <1>9, <1>11, <2>1, <2>2 DEF Stages
  <2>4. Ends'
    BY <1>1 DEF Ends
  <2>5. Arriving'
    BY <1>1, <1>10, <2>1 DEF Arriving
  <2> QED BY <2>3, <2>4, <2>5
<1>12. ShownIsComplete'
  BY <1>1, <1>2 DEF ShownIsComplete
<1> QED BY <1>1, <1>4, <1>5, <1>8, <1>11, <1>12 DEF ShownInv, Latest

LEMMA CloseShown == ASSUME IInv, ShownInv, Close PROVE ShownInv'
<1> DEFINE unanswered(n) ==
              \/ \E id \in Ids : pending[id] = n
              \/ \E message \in ToSet(up) \union ToSet(down) : message.kind \in {"search", "answer"} /\ message.search = n
<1>1. /\ socket.open /\ up' = << >> /\ down' = << >> /\ runs' = {} /\ icons' = {}
      /\ lost' = lost \union {n \in 1 .. latest : unanswered(n)}
      /\ UNCHANGED <<latest, term, tree, shown, ended, pending, stashed, timers, calls, nextId, found>>
  BY DEF Close, service
<1>2. /\ calls = << >> /\ Queues /\ Values /\ Turns /\ OneId /\ ShownIsComplete /\ latest \in Nat
      /\ \A m \in Requests : m.kind = "search" => m.search \in 1 .. latest
  BY <1>1 DEF IInv, Shapes, Queues, ShownInv, Requests
<1>3. /\ ToSet(calls) = {} /\ ToSet(up') = {} /\ ToSet(down') = {} /\ Requests' = {} /\ Requests = ToSet(up)
      /\ Ending' = Ending
  BY <1>1, <1>2, EmptyQueue DEF Requests, Ending
<1>4. Values'
  BY <1>1, <1>2, <1>3 DEF Values
<1>5. Turns'
  BY <1>1, <1>2, <1>3, InTurnShort DEF Turns
<1>6. ASSUME latest \notin lost' PROVE ~Heard
  <2>1. SUFFICES ASSUME NEW id \in Ids, pending[id] = latest PROVE FALSE
    BY DEF Heard
  <2>2. latest \in 1 .. latest
    BY <1>2, <2>1 DEF Values, None
  <2> QED BY <1>1, <1>6, <2>1, <2>2
<1>7. Known' \subseteq Known
  BY <1>1, <1>3, <1>6 DEF Known, Heard
<1>8. OneId'
  BY <1>1, <1>2, <1>3, <1>7, KnownLess
<1>9. ASSUME latest \notin lost' PROVE Stages' /\ Ends' /\ Arriving'
  <2>1. ~Heard' /\ ~Asked' /\ ~Answering'
    BY <1>1, <1>3, <1>6, <1>9 DEF Heard, Asked, Answering, Has
  <2>2. ~Live'
    BY <2>1 DEF Live
  <2> QED BY <1>1, <2>1, <2>2 DEF Stages, Ends, Arriving
<1>10. ShownIsComplete'
  BY <1>1, <1>2 DEF ShownIsComplete
<1> QED BY <1>1, <1>4, <1>5, <1>8, <1>9, <1>10 DEF ShownInv, Latest

LEMMA SearchNothingShown == ASSUME IInv, ShownInv, SearchNothing PROVE ShownInv'
<1>1. /\ ~term' /\ tree' = [f \in Files |-> {}]
      /\ UNCHANGED <<latest, icons, ended, pending, stashed, timers, calls, socket, up, down, nextId, runs, found, lost>>
  BY DEF SearchNothing, service, server, history
<1>2. Values /\ Turns
  BY DEF ShownInv
<1>3. Requests' = Requests /\ Ending' = Ending
  BY <1>1 DEF Requests, Ending
<1>4. Values'
  <2>1. \A f \in Files : tree'[f] = {}
    BY <1>1
  <2> QED BY <1>1, <1>2, <1>3, <2>1 DEF Values
<1> QED BY <1>1, <1>2, <1>3, <1>4, Quieter DEF Turns

LEMMA ReceiveIconShown == ASSUME IInv, ShownInv, NEW match \in icons, ReceiveIcon(match) PROVE ShownInv'
<1>1. /\ icons' = icons \ {match} /\ tree' = [tree EXCEPT ![match.file] = {match}]
      /\ UNCHANGED <<latest, term, shown, ended, pending, stashed, timers, calls, socket, up, down, nextId, runs, found, lost>>
  BY DEF ReceiveIcon, service, server, history
<1>2. Values /\ Turns /\ match.file \notin KnownIcons
  BY DEF ShownInv, Values
<1>3. Requests' = Requests /\ Ending' = Ending
  BY <1>1 DEF Requests, Ending
<1>4. \A file \in KnownIcons : tree'[file] = tree[file]
  BY <1>1, <1>2, SearchAssumption DEF Values
<1>5. Values'
  BY <1>1, <1>2, <1>3 DEF Values
<1> QED BY <1>1, <1>2, <1>3, <1>4, <1>5, Quieter DEF Turns

LEMMA UnchangedShown == ASSUME ShownInv, UNCHANGED vars \/ Abandon PROVE ShownInv'
<1>1. /\ UNCHANGED <<latest, term, tree, shown, icons, ended, pending, stashed, timers, calls, socket>>
      /\ UNCHANGED <<up, down, nextId, runs, found, lost>>
  BY DEF vars, Abandon, widget, service, server, history
<1>2. Values /\ Turns
  BY DEF ShownInv
<1>3. Requests' = Requests /\ Ending' = Ending
  BY <1>1 DEF Requests, Ending
<1>4. Values'
  BY <1>1, <1>2, <1>3 DEF Values
<1> QED BY <1>1, <1>2, <1>3, <1>4, Quieter DEF Turns

\* The end of a search: what it does to pending, stashed and lost.
LEMMA DoneMeans ==
  ASSUME Values, latest \in Nat, NEW m, m.kind = "done", m.search \in 1 .. latest, m.id \in Ids, Done(m)
  PROVE  /\ pending' \in [Ids -> 1 .. latest \union {None}] /\ lost \subseteq lost' /\ lost' \subseteq 1 .. latest
         /\ \A id \in Ids : pending'[id] = latest => id # m.id /\ pending[id] = latest
         /\ stashed' \subseteq stashed \union {m}
         /\ pending[m.id] = latest /\ latest \notin lost' => m.search = latest
         /\ IF pending[m.id] = latest THEN shown' = tree /\ ended' = latest ELSE UNCHANGED <<shown, ended>>
         /\ UNCHANGED <<tree, icons>>
<1>1. /\ pending \in [Ids -> 1 .. latest \union {None}] /\ lost \subseteq 1 .. latest
      /\ \A a \in ToSet(down) : a.search \in 1 .. latest
  BY DEF Values
<1> DEFINE kept == pending[m.id] = None /\ m.id > lastKnown
           others == IF pending[m.id] \notin {None, m.search} THEN {pending[m.id]} ELSE {}
           unkept == {answer.search : answer \in {a \in ToSet(down) : a.kind = "answer" /\ a.id = m.id /\ ~kept}}
<1>2. /\ pending' = [pending EXCEPT ![m.id] = None]
      /\ lost' = lost \union others \union unkept
      /\ stashed' = IF kept THEN (stashed \ Stashed(m.id)) \union {m} ELSE stashed
      /\ IF pending[m.id] = latest THEN shown' = tree /\ ended' = latest ELSE UNCHANGED <<shown, ended>>
      /\ UNCHANGED <<tree, icons>>
  BY DEF Done
<1>3. pending' \in [Ids -> 1 .. latest \union {None}]
  BY <1>1, <1>2
<1>4. \A id \in Ids : pending'[id] = latest => id # m.id /\ pending[id] = latest
  BY <1>1, <1>2 DEF None
<1>5. others \subseteq 1 .. latest
  BY <1>1
<1>6. unkept \subseteq 1 .. latest
  BY <1>1
<1>7. pending[m.id] = latest /\ latest \notin lost' => m.search = latest
  <2>1. latest # None
    BY DEF None
  <2> QED BY <1>2, <2>1
<1>8. stashed' \subseteq stashed \union {m}
  BY <1>2
<1> QED BY <1>1, <1>2, <1>3, <1>4, <1>5, <1>6, <1>7, <1>8

\* The end of the latest search shows the tree: nothing of that search is on its way any more.
LEMMA LatestEndShown ==
  ASSUME IInv, ShownInv, Values', InTurn(down', "answer"), NEW m, m.kind = "done", m.search \in 1 .. latest, m.id \in Ids, Done(m),
         pending[m.id] = latest, ToSet(down') \subseteq ToSet(down),
         \/ down # << >> /\ m = Head(down)
         \/ m \in Ending,
         UNCHANGED <<latest, term, calls, socket, up, nextId, runs, found>>
  PROVE  ShownInv'
<1>1. Values /\ Turns /\ OneId /\ Latest /\ ShownIsComplete /\ Queue(down) /\ latest \in Nat
  BY DEF ShownInv, IInv, Queues, Shapes
<1>2. /\ lost \subseteq lost'
      /\ latest \notin lost' => m.search = latest
      /\ \A id \in Ids : pending'[id] = latest => id # m.id /\ pending[id] = latest
      /\ shown' = tree /\ ended' = latest /\ UNCHANGED <<tree, icons>>
  BY <1>1, DoneMeans
<1>3. Requests' = Requests /\ Known' \subseteq Known
  BY <1>2 DEF Requests, Known
<1>4. Turns'
  BY <1>1, <1>3 DEF Turns
<1>5. OneId'
  BY <1>1, <1>3, KnownLess
<1>6. ASSUME latest \notin lost' PROVE Stages' /\ Ends' /\ Arriving' /\ ShownIsComplete'
  <2>1. latest \notin lost /\ Stages /\ Ends /\ Arriving /\ m.search = latest
    BY <1>1, <1>2, <1>6 DEF Latest
  <2>2. <<latest, m.id>> \in Known
    BY <2>1 DEF Known
  <2>3. Heard /\ Live
    BY DEF Heard, Live
  <2>4. ~Heard'
    <3>1. SUFFICES ASSUME NEW id \in Ids, pending'[id] = latest PROVE FALSE
      BY DEF Heard
    <3>2. id # m.id /\ <<latest, id>> \in Known
      BY <1>2, <2>1, <3>1 DEF Known
    <3>3. \A p, q \in Known : p[1] = q[1] <=> p[2] = q[2]
      BY <1>1 DEF OneId
    <3> QED BY <2>2, <3>2, <3>3
  <2>5. ~Asked'
    BY <1>1, <1>3, <2>2 DEF Asked, Has, OneId
  <2>6. ~Answering'
    BY <2>1, <2>3 DEF Stages, Answering, Has
  <2>7. ~Live' /\ Stages'
    BY <2>4, <2>5, <2>6 DEF Live, Stages
  <2>8. Has(ToSet(down), "done", latest) \/ Early
    <3>1. CASE down # << >> /\ m = Head(down)
      BY <1>1, <2>1, <3>1, Tailed DEF Has
    <3>2. CASE m \in Ending
      BY <2>1, <3>2 DEF Early, Has
    <3> QED BY <3>1, <3>2
  <2>9. Ends'
    BY <2>1, <2>7, <2>8 DEF Ends
  <2>10. Arriving'
    BY <2>7 DEF Arriving
  <2>11. ASSUME NEW file \in KnownIcons PROVE Matches(Until(down, "done", latest), latest, file) = {}
    <3>1. CASE down # << >> /\ m = Head(down)
      <4>1. Until(down, "done", latest) = {}
        BY <1>1, <2>1, <3>1, UntilTailed
      <4> QED BY <4>1 DEF Matches
    <3>2. CASE m \in Ending
      <4>1. NoMatches
        BY <2>1, <2>3, <3>2 DEF Stages, Early, Has
      <4>2. Until(down, "done", latest) \subseteq ToSet(down)
        BY <1>1, UntilIn
      <4> QED BY <4>1, <4>2 DEF Matches, NoMatches, Has
    <3> QED BY <3>1, <3>2
  <2>12. ShownIsComplete'
    BY <1>2, <2>1, <2>3, <2>11 DEF ShownIsComplete, Arriving
  <2> QED BY <2>7, <2>9, <2>10, <2>12
<1>7. Latest' /\ ShownIsComplete'
  BY <1>6 DEF Latest, ShownIsComplete
<1> QED BY <1>4, <1>5, <1>7 DEF ShownInv

LEMMA TimerShown == ASSUME IInv, ShownInv, Timer PROVE ShownInv'
<1> DEFINE timer == Head(timers)
<1>1. /\ timers # << >> /\ timers' = Tail(timers)
      /\ UNCHANGED <<latest, term, socket, down, nextId, runs, found>>
  BY DEF Timer, server
<1>2. Queues /\ Values /\ Turns /\ latest \in Nat
  BY DEF IInv, Shapes, ShownInv
<1>3. ToSet(timers') \subseteq ToSet(timers) /\ timer \in ToSet(timers)
  BY <1>1, <1>2, Tailed DEF Queues
<1> HIDE DEF timer
<1>4. CASE timer.kind = "done" /\ Done(timer) /\ UNCHANGED <<calls, up, late>>
  <2>1. timer \in Ending /\ timer.search \in 1 .. latest /\ timer.id \in Ids
    BY <1>2, <1>3, <1>4 DEF Values, Ending
  <2>2. /\ pending' \in [Ids -> 1 .. latest \union {None}] /\ lost \subseteq lost' /\ lost' \subseteq 1 .. latest
        /\ \A id \in Ids : pending'[id] = latest => pending[id] = latest
        /\ stashed' \subseteq stashed \union {timer}
        /\ IF pending[timer.id] = latest THEN shown' = tree /\ ended' = latest ELSE UNCHANGED <<shown, ended>>
        /\ UNCHANGED <<tree, icons>>
    BY <1>2, <1>4, <2>1, DoneMeans
  <2>3. Ending' \subseteq Ending /\ Requests' = Requests
    BY <1>3, <1>4, <2>1, <2>2 DEF Ending, Requests
  <2>4. Values'
    <3>1. ended' \in 0 .. latest
      BY <1>2, <2>2 DEF Values
    <3> QED BY <1>1, <1>2, <2>2, <2>3, <3>1 DEF Values
  <2>5. CASE pending[timer.id] = latest
    BY <1>1, <1>2, <1>4, <2>1, <2>4, <2>5, LatestEndShown DEF Turns
  <2>6. CASE pending[timer.id] # latest
    BY <1>1, <1>2, <1>4, <2>2, <2>3, <2>4, <2>6, Quieter DEF Turns
  <2> QED BY <2>5, <2>6
<1>5. CASE /\ timer.kind = "cancel" /\ pending' = Without(timer.id) /\ Call(<<timer>>)
           /\ UNCHANGED <<stashed, tree, shown, icons, ended, lost>>
  <2>1. Queue(<<timer>>) /\ ToSet(<<timer>>) = {timer} /\ InTurn(<<timer>>, "search")
    BY Singleton, InTurnShort
  <2>2. InTurn(up', "search") /\ InTurn(calls', "search") /\ Requests' = Requests \union {timer}
    BY <1>2, <1>5, <2>1, CalledTurn
  <2>3. /\ pending' \in [Ids -> 1 .. latest \union {None}]
        /\ \A id \in Ids : pending'[id] = latest => pending[id] = latest
    <3>1. pending \in [Ids -> 1 .. latest \union {None}]
      BY <1>2 DEF Values
    <3>2. \A id \in Ids : pending'[id] \in {None, pending[id]}
      BY <1>5, <3>1 DEF Without
    <3>3. pending' \in [Ids -> 1 .. latest \union {None}]
      BY <1>5, <3>1 DEF Without
    <3>4. latest # None
      BY <1>2 DEF None
    <3> QED BY <3>2, <3>3, <3>4
  <2>4. Ending' \subseteq Ending
    BY <1>3, <1>5 DEF Ending
  <2>5. Values'
    BY <1>1, <1>2, <1>5, <2>3, <2>4 DEF Values
  <2>6. \A m \in Requests' : m.kind = "search" => m \in Requests
    BY <1>5, <2>2
  <2> QED BY <1>1, <1>5, <2>2, <2>3, <2>4, <2>5, <2>6, Quieter
<1>6. timer = Head(timers)
  BY DEF timer
<1> QED BY <1>4, <1>5, <1>6 DEF Timer

\* The first message is taken in: its id is that of its search.
LEMMA TakenKnown ==
  ASSUME IInv, ShownInv, down # << >>
  PROVE  /\ Head(down).id \in Ids /\ <<Head(down).search, Head(down).id>> \in Known
         /\ Head(down).search \in 1 .. latest
         /\ \A m \in Requests : m.kind = "search" => m.search # Head(down).search
         /\ latest \notin lost =>
              \A id \in Ids : pending[id] = latest => (id = Head(down).id <=> Head(down).search = latest)
<1> DEFINE message == Head(down)
<1>1. Queue(down) /\ Values /\ OneId /\ nextId \in Nat /\ latest \in Nat
  BY DEF IInv, Shapes, Queues, ShownInv
<1>2. message \in ToSet(down)
  BY <1>1, Tailed
<1> HIDE DEF message
<1>3. message.search \in 1 .. latest /\ message.id \in Nat /\ message.id < nextId
  BY <1>1, <1>2 DEF Values
<1>4. message.id \in Ids
  BY <1>1, <1>3, SearchAssumption DEF Values, Ids
<1>5. <<message.search, message.id>> \in Known
  BY <1>2 DEF Known
<1>6. \A m \in Requests : m.kind = "search" => m.search # message.search
  BY <1>1, <1>5 DEF OneId
<1>7. ASSUME latest \notin lost, NEW id \in Ids, pending[id] = latest
      PROVE  id = message.id <=> message.search = latest
  <2>1. <<latest, id>> \in Known
    BY <1>7 DEF Known
  <2> QED BY <1>1, <1>5, <2>1 DEF OneId
<1> QED BY <1>3, <1>4, <1>5, <1>6, <1>7 DEF message

\* Of what is left in the queue.
LEMMA LeftOver ==
  ASSUME Queue(down), down # << >>, down' = Tail(down), NEW n
  PROVE  /\ Head(down) \in ToSet(down) /\ ToSet(down') \subseteq ToSet(down)
         /\ \A kind : Has(ToSet(down'), kind, n) => Has(ToSet(down), kind, n)
         /\ \A kind : Has(ToSet(down), kind, n) => Has(ToSet(down'), kind, n) \/ (Head(down).kind = kind /\ Head(down).search = n)
         /\ ~(Head(down).kind = "answer" /\ Head(down).search = n) =>
              /\ Head(down) \in Until(down, "answer", n)
              /\ Until(down', "answer", n) \subseteq Until(down, "answer", n)
         /\ ~(Head(down).kind = "done" /\ Head(down).search = n) =>
              Until(down, "done", n) = {Head(down)} \union Until(down', "done", n)
<1>1. /\ Head(down) \in ToSet(down) /\ ToSet(down') \subseteq ToSet(down)
      /\ ToSet(down) \subseteq ToSet(down') \union {Head(down)}
  BY Tailed
<1>2. \A kind : Until(down, kind, n) = IF Head(down).kind = kind /\ Head(down).search = n THEN {}
                                       ELSE {Head(down)} \union Until(down', kind, n)
  BY UntilTailed
<1> QED BY <1>1, <1>2 DEF Has

LEMMA ReceiveResultShown ==
  ASSUME IInv, ShownInv, down # << >>, down' = Tail(down), Head(down).kind = "result", ReceiveResult(Head(down)),
         UNCHANGED <<latest, term, calls, socket, up, server, late>>
  PROVE  ShownInv'
<1> DEFINE message == Head(down)
           file == message.match.file
<1>1. /\ UNCHANGED <<latest, term, shown, ended, pending, stashed, timers, calls, socket, up, nextId, runs, found, lost>>
      /\ IF pending[message.id] # latest THEN UNCHANGED <<tree, icons>>
         ELSE IF tree[file] # {} \/ file \in KnownIcons
         THEN tree' = [tree EXCEPT ![file] = @ \union {message.match}] /\ icons' = icons
         ELSE icons' = icons \union {message.match} /\ tree' = tree
  BY DEF ReceiveResult, service, server
<1>2. Values /\ Turns /\ OneId /\ Latest /\ ShownIsComplete /\ Queue(down)
  BY DEF ShownInv, IInv, Queues
<1>3. /\ message \in ToSet(down) /\ ToSet(down') \subseteq ToSet(down)
      /\ \A kind : Has(ToSet(down'), kind, latest) => Has(ToSet(down), kind, latest)
      /\ \A kind : Has(ToSet(down), kind, latest) => Has(ToSet(down'), kind, latest) \/ kind = "result"
      /\ message \in Until(down, "answer", latest)
      /\ Until(down', "answer", latest) \subseteq Until(down, "answer", latest)
      /\ Until(down, "done", latest) = {message} \union Until(down', "done", latest)
  <2>1. message.kind = "result"
    OBVIOUS
  <2> QED BY <1>2, <2>1, LeftOver
<1>4. message.id \in Ids /\ \A m \in Requests : m.kind = "search" => m.search # message.search
  BY TakenKnown
<1>5. ASSUME latest \notin lost, NEW id \in Ids, pending[id] = latest
      PROVE  id = message.id <=> message.search = latest
  BY <1>5, TakenKnown
<1>6. message.kind = "result"
  OBVIOUS
<1> HIDE DEF message
<1>7. Requests' = Requests /\ Ending' = Ending /\ Known' \subseteq Known
  BY <1>1, <1>3 DEF Requests, Ending, Known
<1>8. Values'
  BY <1>1, <1>2, <1>3, <1>7 DEF Values
<1>9. Turns'
  <2>1. InTurn(down', "answer")
    BY <1>2, InTurnTailed DEF Turns
  <2> QED BY <1>1, <1>2, <1>3, <1>7, <2>1 DEF Turns
<1>10. OneId'
  BY <1>1, <1>2, <1>7, KnownLess
<1>11. /\ (Asked' <=> Asked) /\ (Heard' <=> Heard) /\ (Answering' <=> Answering) /\ (Early' <=> Early)
       /\ (NoMatches => NoMatches')
  BY <1>1, <1>3, <1>7 DEF Asked, Heard, Answering, Early, NoMatches
<1>12. Live' <=> Live
  BY <1>11 DEF Live
<1>13. ASSUME latest \notin lost PROVE Stages' /\ Ends' /\ Arriving'
  <2>1. Stages /\ Ends /\ Arriving
    BY <1>2, <1>13 DEF Latest
  <2>2. \A kind : Has(Until(down', "answer", latest), kind, latest) => Has(Until(down, "answer", latest), kind, latest)
    BY <1>3, HasIn
  <2>3. Stages'
    BY <1>1, <1>11, <1>12, <2>1, <2>2 DEF Stages
  <2>4. Ends'
    BY <1>1, <1>3, <1>11, <1>12, <2>1 DEF Ends
  <2>5. ASSUME term, Live, NEW f \in KnownIcons
        PROVE  tree'[f] \union Matches(Until(down', "done", latest), latest, f) = tree[f] \union Matches(Until(down, "done", latest), latest, f)
    <3>1. Matches(Until(down, "done", latest), latest, f)
            = Matches(Until(down', "done", latest), latest, f) \union
              (IF message.search = latest /\ file = f THEN {message.match} ELSE {})
      BY <1>3, <1>6 DEF Matches
    <3>2. message.search = latest <=> pending[message.id] = latest
      <4>1. CASE pending[message.id] = latest
        BY <1>4, <1>5, <1>13, <4>1
      <4>2. CASE message.search = latest
        <5>1. ~Asked
          BY <1>4, <4>2 DEF Asked, Has
        <5>2. ~Answering
          BY <1>3, <1>6, <2>1, <4>2 DEF Stages, Has
        <5>3. PICK id \in Ids : pending[id] = latest
          BY <2>5, <5>1, <5>2 DEF Live, Heard
        <5> QED BY <1>5, <1>13, <4>2, <5>3
      <4> QED BY <4>1, <4>2
    <3>3. tree[f] \subseteq tree'[f] /\ tree'[f] \subseteq tree[f] \union (IF pending[message.id] = latest /\ file = f THEN {message.match} ELSE {})
      BY <1>1, <1>2, <2>5, SearchAssumption DEF Values
    <3>4. pending[message.id] = latest /\ file = f => message.match \in tree'[f]
      BY <1>1, <1>2, <2>5, SearchAssumption DEF Values
    <3> QED BY <3>1, <3>2, <3>3, <3>4
  <2>6. Arriving'
    BY <1>1, <1>12, <2>1, <2>5 DEF Arriving
  <2> QED BY <2>3, <2>4, <2>6
<1>14. ShownIsComplete'
  BY <1>1, <1>2 DEF ShownIsComplete
<1> QED BY <1>1, <1>8, <1>9, <1>10, <1>13, <1>14 DEF ShownInv, Latest

LEMMA ReceiveAnswerShown ==
  ASSUME IInv, ShownInv, down # << >>, down' = Tail(down), Head(down).kind = "answer", ReceiveAnswer(Head(down)),
         UNCHANGED <<latest, term, calls, socket, up, server, late>>
  PROVE  ShownInv'
<1> DEFINE message == Head(down)
<1>1. /\ UNCHANGED <<latest, term, tree, shown, icons, ended, calls, socket, up, nextId, runs, found, lost>>
      /\ pending' = [pending EXCEPT ![message.id] = message.search]
      /\ stashed' \subseteq stashed
  BY DEF ReceiveAnswer, server
<1>2. Values /\ Turns /\ OneId /\ Latest /\ ShownIsComplete /\ Queues /\ Shapes /\ Queue(down) /\ latest \in Nat
  BY DEF ShownInv, IInv, Queues, Shapes
<1>3. Ending' \subseteq Ending \union {m \in ToSet(timers') : m.kind = "cancel"}
  <2> DEFINE last == IF message.search = latest THEN << >> ELSE Cancel(message.search, message.id)
  <2>1. timers' = (timers \o Told(message.id)) \o last
    BY DEF ReceiveAnswer
  <2>2. Queue(last) /\ \A m \in ToSet(last) : m.kind = "cancel"
    BY CancelMessages, EmptyQueue DEF Message
  <2> HIDE DEF last
  <2>3. Queue(Told(message.id)) /\ ToSet(Told(message.id)) \subseteq stashed
    <3>1. CASE Stashed(message.id) = {}
      BY <3>1, EmptyQueue DEF Told
    <3>2. CASE Stashed(message.id) # {}
      <4> DEFINE end == CHOOSE m \in Stashed(message.id) : TRUE
      <4>1. end \in Stashed(message.id)
        BY <3>2
      <4>2. Told(message.id) = <<end>> /\ end \in stashed
        BY <3>2, <4>1 DEF Told, Stashed
      <4> HIDE DEF end
      <4> QED BY <4>2, Singleton
    <3> QED BY <3>1, <3>2
  <2>4. /\ Queue(timers \o Told(message.id))
        /\ ToSet(timers \o Told(message.id)) = ToSet(timers) \union ToSet(Told(message.id))
    BY <1>2, <2>3, Concatenated DEF Queues
  <2>5. ToSet(timers') = ToSet(timers) \union ToSet(Told(message.id)) \union ToSet(last)
    BY <2>1, <2>2, <2>4, Concatenated
  <2> QED BY <1>1, <2>2, <2>3, <2>5 DEF Ending
<1>4. \A m \in Ending' : m.kind = "done" => m \in Ending
  BY <1>3
<1>5. /\ message \in ToSet(down) /\ ToSet(down') \subseteq ToSet(down)
      /\ \A kind : Has(ToSet(down'), kind, latest) => Has(ToSet(down), kind, latest)
      /\ Has(ToSet(down), "done", latest) => Has(ToSet(down'), "done", latest)
      /\ message.search # latest => Until(down', "answer", latest) \subseteq Until(down, "answer", latest)
      /\ Until(down, "done", latest) = {message} \union Until(down', "done", latest)
  <2>1. message.kind = "answer"
    OBVIOUS
  <2> QED BY <1>2, <2>1, LeftOver
<1>6. /\ message.id \in Ids /\ message.search \in 1 .. latest /\ <<message.search, message.id>> \in Known
      /\ \A m \in Requests : m.kind = "search" => m.search # message.search
  BY TakenKnown
<1>7. /\ InTurn(down', "answer")
      /\ \A m \in ToSet(down') : m.kind = "answer" => message.search < m.search
  BY <1>2, InTurnTailed DEF Turns
<1>8. message.kind = "answer" /\ socket.open
  BY <1>2 DEF Queues
<1> HIDE DEF message
<1>9. /\ pending' \in [Ids -> 1 .. latest \union {None}]
      /\ \A id \in Ids : pending'[id] = latest => pending[id] = latest \/ (id = message.id /\ message.search = latest)
      /\ message.search = latest => pending'[message.id] = latest
  BY <1>1, <1>2, <1>6 DEF Values
<1>10. Requests' = Requests /\ Known' \subseteq Known
  BY <1>1, <1>5, <1>6, <1>9 DEF Requests, Known
<1>11. Values'
  BY <1>1, <1>2, <1>4, <1>5, <1>9 DEF Values
<1>12. Turns'
  BY <1>1, <1>2, <1>5, <1>7, <1>10 DEF Turns
<1>13. OneId'
  BY <1>1, <1>2, <1>10, KnownLess
<1>14. /\ (Asked' => Asked) /\ (Early' => Early) /\ (NoMatches => NoMatches')
       /\ Answering' => Answering /\ message.search # latest
       /\ message.search = latest => ~Asked /\ Answering
       /\ Heard' => Heard \/ message.search = latest
  <2>1. (Asked' => Asked) /\ (message.search = latest => ~Asked)
    BY <1>1, <1>6, <1>10 DEF Asked, Has
  <2>2. Early' => Early
    BY <1>1, <1>4 DEF Early, Has
  <2>3. NoMatches => NoMatches'
    BY <1>1, <1>5 DEF NoMatches
  <2>4. /\ Answering' => Answering /\ message.search # latest
        /\ message.search = latest => Answering
    BY <1>1, <1>5, <1>6, <1>7, <1>8 DEF Answering, Has
  <2>5. Heard' => Heard \/ message.search = latest
    BY <1>1, <1>9 DEF Heard
  <2> QED BY <2>1, <2>2, <2>3, <2>4, <2>5
<1>15. Live' => Live
  BY <1>14 DEF Live
<1>16. ASSUME latest \notin lost PROVE Stages' /\ Ends' /\ Arriving'
  <2>1. Stages /\ Ends /\ Arriving
    BY <1>2, <1>16 DEF Latest
  <2>2. message.search # latest =>
          \A kind : Has(Until(down', "answer", latest), kind, latest) => Has(Until(down, "answer", latest), kind, latest)
    BY <1>5, HasIn
  <2>3. Asked' => ~Early' /\ ended' # latest'
    BY <1>1, <1>14, <2>1 DEF Stages
  <2>4. Answering' =>
          /\ ~Heard' /\ ended' # latest'
          /\ ~Has(Until(down', "answer", latest'), "result", latest')
          /\ Has(Until(down', "answer", latest'), "done", latest') => NoMatches'
    BY <1>1, <1>14, <2>1, <2>2 DEF Stages
  <2>5. Heard' => socket'.open /\ ended' # latest'
    BY <1>1, <1>8, <1>14, <2>1 DEF Stages
  <2>6. Live' /\ Early' => NoMatches'
    BY <1>14, <1>15, <2>1 DEF Stages
  <2>7. Ends'
    BY <1>1, <1>5, <1>14, <1>15, <2>1 DEF Ends
  <2>8. \A f : Matches(Until(down', "done", latest), latest, f) = Matches(Until(down, "done", latest), latest, f)
    BY <1>5, <1>8 DEF Matches
  <2>9. Arriving'
    BY <1>1, <1>15, <2>1, <2>8 DEF Arriving
  <2> QED BY <2>3, <2>4, <2>5, <2>6, <2>7, <2>9 DEF Stages
<1>17. ShownIsComplete'
  BY <1>1, <1>2 DEF ShownIsComplete
<1> QED BY <1>1, <1>11, <1>12, <1>13, <1>16, <1>17 DEF ShownInv, Latest

LEMMA ReceiveDoneShown ==
  ASSUME IInv, ShownInv, down # << >>, down' = Tail(down), Head(down).kind = "done", Done(Head(down)),
         UNCHANGED <<latest, term, timers, calls, socket, up, server, late>>
  PROVE  ShownInv'
<1> DEFINE message == Head(down)
<1>1. UNCHANGED <<latest, term, timers, calls, socket, up, nextId, runs, found>>
  BY DEF server
<1>2. Values /\ Turns /\ OneId /\ Latest /\ ShownIsComplete /\ Queues /\ Queue(down) /\ latest \in Nat
  BY DEF ShownInv, IInv, Queues, Shapes
<1>3. /\ message \in ToSet(down) /\ ToSet(down') \subseteq ToSet(down)
      /\ \A kind : Has(ToSet(down'), kind, latest) => Has(ToSet(down), kind, latest)
      /\ \A kind : Has(ToSet(down), kind, latest) => Has(ToSet(down'), kind, latest) \/ (kind = "done" /\ message.search = latest)
      /\ message \in Until(down, "answer", latest)
      /\ Until(down', "answer", latest) \subseteq Until(down, "answer", latest)
      /\ message.search # latest => Until(down, "done", latest) = {message} \union Until(down', "done", latest)
  <2>1. message.kind = "done"
    OBVIOUS
  <2> QED BY <1>2, <2>1, LeftOver
<1>4. /\ message.id \in Ids /\ message.search \in 1 .. latest
      /\ \A m \in Requests : m.kind = "search" => m.search # message.search
  BY TakenKnown
<1>5. ASSUME latest \notin lost, NEW id \in Ids, pending[id] = latest
      PROVE  id = message.id <=> message.search = latest
  BY <1>5, TakenKnown
<1>6. InTurn(down', "answer")
  BY <1>2, InTurnTailed DEF Turns
<1>7. message.kind = "done" /\ Done(message) /\ message = Head(down)
  OBVIOUS
<1> HIDE DEF message
<1>8. /\ pending' \in [Ids -> 1 .. latest \union {None}] /\ lost \subseteq lost' /\ lost' \subseteq 1 .. latest
      /\ \A id \in Ids : pending'[id] = latest => pending[id] = latest
      /\ stashed' \subseteq stashed \union {message}
      /\ IF pending[message.id] = latest THEN shown' = tree /\ ended' = latest ELSE UNCHANGED <<shown, ended>>
      /\ UNCHANGED <<tree, icons>>
  BY <1>2, <1>4, <1>7, DoneMeans
<1>9. /\ Requests' = Requests /\ Known' \subseteq Known /\ Ending' \subseteq Ending \union {message}
  <2>1. \A id \in Ids : pending'[id] = latest' /\ latest' \notin lost' => pending[id] = latest /\ latest \notin lost
    BY <1>1, <1>8
  <2>2. Known' \subseteq Known
    BY <1>1, <1>3, <2>1 DEF Known
  <2> QED BY <1>1, <1>8, <2>2 DEF Requests, Ending
<1>10. Values'
  <2>1. ended' \in 0 .. latest
    BY <1>2, <1>8 DEF Values
  <2> QED BY <1>1, <1>2, <1>3, <1>4, <1>8, <1>9, <2>1 DEF Values
<1>11. CASE pending[message.id] = latest
  BY <1>1, <1>3, <1>4, <1>6, <1>7, <1>10, <1>11, LatestEndShown
<1>12. CASE pending[message.id] # latest
  <2>1. UNCHANGED <<shown, ended>>
    BY <1>8, <1>12
  <2>2. Turns'
    BY <1>1, <1>2, <1>3, <1>6, <1>9 DEF Turns
  <2>3. OneId'
    BY <1>1, <1>2, <1>9, KnownLess
  <2>4. /\ (Asked' <=> Asked) /\ (Heard' => Heard) /\ (Answering' <=> Answering) /\ (NoMatches => NoMatches')
        /\ Early' => Early \/ message.search = latest
        /\ message.search = latest => ~Asked /\ Has(ToSet(down), "done", latest)
    <3>1. (Asked' <=> Asked) /\ (message.search = latest => ~Asked)
      BY <1>1, <1>4, <1>9 DEF Asked, Has
    <3>2. Heard' => Heard
      BY <1>1, <1>8 DEF Heard
    <3>3. (Answering' <=> Answering) /\ (NoMatches => NoMatches')
      BY <1>1, <1>3 DEF Answering, NoMatches
    <3>4. Early' => Early \/ message.search = latest
      BY <1>1, <1>9 DEF Early, Has
    <3>5. message.search = latest => Has(ToSet(down), "done", latest)
      BY <1>3, <1>7 DEF Has
    <3> QED BY <3>1, <3>2, <3>3, <3>4, <3>5
  <2>5. Live' => Live
    BY <2>4 DEF Live
  <2>6. ASSUME latest \notin lost' PROVE Stages' /\ Ends' /\ Arriving'
    <3>1. latest \notin lost /\ Stages /\ Ends /\ Arriving
      BY <1>2, <1>8, <2>6 DEF Latest
\* The end came before the id: nothing was found.
    <3>2. message.search = latest /\ Live => NoMatches
      <4>1. SUFFICES ASSUME message.search = latest, Live PROVE NoMatches
        OBVIOUS
      <4>2. ~Heard
        BY <1>4, <1>5, <1>12, <3>1, <4>1 DEF Heard
      <4>3. Answering
        BY <2>4, <4>1, <4>2 DEF Live
      <4>4. Has(Until(down, "answer", latest), "done", latest)
        BY <1>3, <1>7, <4>1 DEF Has
      <4> QED BY <3>1, <4>3, <4>4 DEF Stages
    <3>3. \A kind : Has(Until(down', "answer", latest), kind, latest) => Has(Until(down, "answer", latest), kind, latest)
      BY <1>3, HasIn
    <3>4. Stages'
      BY <1>1, <2>1, <2>4, <2>5, <3>1, <3>2, <3>3 DEF Stages
    <3>5. Ends'
      <4>1. /\ Has(ToSet(down'), "done", latest) \/ Early' \/ ended' = latest =>
                 Has(ToSet(down), "done", latest) \/ Early \/ ended = latest
            /\ message.search = latest /\ Live => \A run \in runs : run.search # latest
            /\ message.search # latest /\ Has(ToSet(down), "done", latest) => Has(ToSet(down'), "done", latest)
        BY <1>3, <2>1, <2>4, <3>2 DEF NoMatches
      <4> QED BY <1>1, <2>5, <3>1, <4>1 DEF Ends
    <3>6. ASSUME Live, NEW f PROVE Matches(Until(down', "done", latest), latest, f) = Matches(Until(down, "done", latest), latest, f)
      <4>1. CASE message.search # latest
        BY <1>3, <4>1 DEF Matches
      <4>2. CASE message.search = latest
        <5>1. Queue(down')
          BY <1>2, <1>7, Tailed
        <5>2. Until(down, "done", latest) \subseteq ToSet(down) /\ Until(down', "done", latest) \subseteq ToSet(down)
          BY <1>2, <1>3, <5>1, UntilIn
        <5>3. ~Has(ToSet(down), "result", latest)
          BY <3>2, <3>6, <4>2 DEF NoMatches
        <5> QED BY <5>2, <5>3 DEF Matches, Has
      <4> QED BY <4>1, <4>2
    <3>7. Arriving'
      BY <1>1, <1>8, <2>5, <3>1, <3>6 DEF Arriving
    <3> QED BY <3>4, <3>5, <3>7
  <2>7. ShownIsComplete'
    BY <1>1, <1>2, <1>8, <2>1 DEF ShownIsComplete
  <2> QED BY <1>1, <1>10, <2>2, <2>3, <2>6, <2>7 DEF ShownInv, Latest
<1> QED BY <1>11, <1>12

LEMMA ReceiveShown == ASSUME IInv, ShownInv, Receive PROVE ShownInv'
<1>1. down # << >> /\ down' = Tail(down) /\ UNCHANGED <<latest, term, calls, socket, up, server, late>>
  BY DEF Receive
<1>2. CASE Head(down).kind = "answer" /\ ReceiveAnswer(Head(down))
  BY <1>1, <1>2, ReceiveAnswerShown
<1>3. CASE Head(down).kind = "result" /\ ReceiveResult(Head(down))
  BY <1>1, <1>3, ReceiveResultShown
<1>4. CASE Head(down).kind = "done" /\ Done(Head(down)) /\ UNCHANGED timers
  BY <1>1, <1>4, ReceiveDoneShown
<1> QED BY <1>2, <1>3, <1>4 DEF Receive

----------------------------------------------------------------------------
(* What is shown: the steps of the server.                                 *)

\* What is sent and is no match of search n adds nothing before its end.
LEMMA MatchesKept ==
  ASSUME NEW s, NEW t, NEW n, NEW file, Queue(s), Queue(t), ~Has(ToSet(t), "result", n)
  PROVE  Matches(Until(s \o t, "done", n), n, file) = Matches(Until(s, "done", n), n, file)
<1>1. CASE Has(ToSet(s), "done", n)
  BY <1>1, UntilConcatenated
<1>2. CASE ~Has(ToSet(s), "done", n)
  <2>1. Until(s \o t, "done", n) = Until(s, "done", n) \union Until(t, "done", n)
    BY <1>2, UntilConcatenated, UntilIn
  <2>2. Until(t, "done", n) \subseteq ToSet(t)
    BY UntilIn
  <2> QED BY <2>1, <2>2 DEF Matches, Has
<1> QED BY <1>1, <1>2

\* The processes go on or end, and what they send is theirs.
LEMMA RunsShown ==
  ASSUME IInv, ShownInv, socket.open, NEW t, Queue(t), down' = down \o t,
         \A m \in ToSet(t) : /\ m.kind \in {"result", "done"}
                             /\ \E run \in runs : m.search = run.search /\ m.id = run.id
                             /\ m.kind = "done" => \A new \in runs' : new.search = m.search => ~new.ongoing,
         \A new \in runs' : \E run \in runs : From(new, run),
         \A new \in runs' : new.ongoing \/ Has(ToSet(t), "done", new.search)
                                        \/ \E run \in runs : run.search = new.search /\ ~run.ongoing,
         InTurn(up', "search"), ToSet(up') \subseteq ToSet(up),
         UNCHANGED <<latest, tree, icons, ended, pending, stashed, timers, calls, socket, nextId, lost>>
  PROVE  /\ Values' /\ Turns' /\ OneId' /\ (latest \notin lost => Stages' /\ Ends')
         /\ Live' => Live
<1>1. /\ Values /\ Turns /\ OneId /\ Latest /\ Queue(down) /\ Queue(t) /\ latest \in Nat /\ nextId \in Nat
      /\ \A run \in runs : run.search \in 1 .. latest /\ run.id \in Nat /\ run.id < nextId
  BY DEF ShownInv, IInv, Queues, Shapes, Shaped
<1>2. ToSet(down') = ToSet(down) \union ToSet(t)
  BY <1>1, Concatenated
<1>3. Requests' \subseteq Requests /\ Ending' = Ending
  BY DEF Requests, Ending
<1>4. \A m \in ToSet(t) : <<m.search, m.id>> \in {<<run.search, run.id>> : run \in runs}
  OBVIOUS
<1>5. \A new \in runs' : <<new.search, new.id>> \in {<<run.search, run.id>> : run \in runs}
  BY DEF From
<1>6. Known' \subseteq Known
  BY <1>2, <1>4, <1>5 DEF Known
<1>7. Values'
  <2>1. \A m \in ToSet(t) : m.search \in 1 .. latest /\ m.id \in Nat /\ m.id < nextId
    BY <1>1
  <2> QED BY <1>1, <1>2, <1>3, <2>1 DEF Values
<1>8. Turns'
  <2>1. InTurn(t, "answer")
    BY DEF InTurn, ToSet
  <2>2. \A m \in ToSet(t) : m.kind # "answer"
    OBVIOUS
  <2>3. InTurn(down', "answer")
    BY <1>1, <2>1, <2>2, InTurnConcatenated DEF Turns
  <2> QED BY <1>1, <1>2, <1>3, <2>2, <2>3 DEF Turns
<1>9. OneId'
  BY <1>1, <1>3, <1>6, KnownLess
<1>10. /\ (Asked' => Asked) /\ (Heard' <=> Heard) /\ (Answering' <=> Answering) /\ (Early' <=> Early)
       /\ (NoMatches => NoMatches')
  <2>1. Answering' <=> Answering
    BY <1>2 DEF Answering, Has
  <2>2. NoMatches => NoMatches'
    BY <1>2 DEF NoMatches, Has, From
  <2> QED BY <1>3, <2>1, <2>2 DEF Asked, Heard, Early, Has
<1>11. Live' => Live
  BY <1>10 DEF Live
<1>12. ASSUME latest \notin lost PROVE Stages' /\ Ends'
  <2>1. Stages /\ Ends
    BY <1>1, <1>12 DEF Latest
  <2>2. Answering => Until(down', "answer", latest) = Until(down, "answer", latest)
    BY <1>1, UntilConcatenated DEF Answering
  <2>3. Stages'
    BY <1>10, <1>11, <2>1, <2>2 DEF Stages
  <2>4. \A new \in runs' : new.search = latest /\ new.ongoing => \E run \in runs : run.search = latest /\ run.ongoing
    BY DEF From
  <2>5. ~Has(ToSet(down), "done", latest) /\ Has(ToSet(down'), "done", latest) => Has(ToSet(t), "done", latest)
    BY <1>2 DEF Has
  <2>6. Has(ToSet(t), "done", latest) => \A new \in runs' : ~(new.search = latest /\ new.ongoing)
    BY DEF Has
  <2>7. Has(ToSet(t), "done", latest) \/ Has(ToSet(down), "done", latest) => Has(ToSet(down'), "done", latest)
    BY <1>2 DEF Has
  <2>8. Live' => \A new \in runs' : new.search = latest /\ ~new.ongoing => Has(ToSet(down'), "done", latest)
    BY <1>11, <2>1, <2>7 DEF Ends
  <2>9. Has(ToSet(down'), "done", latest') \/ Early' \/ ended' = latest' =>
          \A new \in runs' : ~(new.search = latest /\ new.ongoing)
    BY <1>10, <2>1, <2>4, <2>5, <2>6 DEF Ends
  <2> QED BY <2>3, <2>8, <2>9 DEF Ends
<1> QED BY <1>7, <1>8, <1>9, <1>11, <1>12

\* Steps of the processes that find nothing.
LEMMA RunsEndShown ==
  ASSUME IInv, ShownInv, NEW t, Queue(t), ~Has(ToSet(t), "result", latest), down' = down \o t,
         Values', Turns', OneId', latest \notin lost => Stages' /\ Ends', Live' => Live,
         UNCHANGED <<latest, term, tree, shown, ended, found, lost>>
  PROVE  ShownInv'
<1>1. Latest /\ ShownIsComplete /\ Queue(down)
  BY DEF ShownInv, IInv, Queues
<1>2. \A file : Matches(Until(down', "done", latest), latest, file) = Matches(Until(down, "done", latest), latest, file)
  BY <1>1, MatchesKept
<1>3. latest \notin lost => Arriving'
  BY <1>1, <1>2 DEF Latest, Arriving
<1>4. ShownIsComplete'
  BY <1>1 DEF ShownIsComplete
<1> QED BY <1>3, <1>4 DEF ShownInv, Latest

LEMMA WrapUpDone ==
  ASSUME NEW run
  PROVE  /\ Queue(WrapUp(run))
         /\ \A m \in ToSet(WrapUp(run)) : m.kind = "done" /\ m.search = run.search /\ m.id = run.id
         /\ IF run.ongoing THEN Has(ToSet(WrapUp(run)), "done", run.search) ELSE ToSet(WrapUp(run)) = {}
<1> DEFINE done == Message("done", run.search, run.id)
<1>1. /\ done.kind = "done" /\ done.search = run.search /\ done.id = run.id
      /\ WrapUp(run) = IF run.ongoing THEN <<done>> ELSE << >>
  BY DEF Message, WrapUp
<1> HIDE DEF done
<1> QED BY <1>1, Singleton, EmptyQueue DEF Has

LEMMA EndShown == ASSUME IInv, ShownInv, NEW run \in runs, End(run) PROVE ShownInv'
<1> DEFINE last == IF Cardinality(run.matches) = MaxResults THEN << >> ELSE WrapUp(run)
<1>1. /\ runs' = runs \ {run} /\ down' = down \o last
      /\ UNCHANGED <<latest, term, tree, shown, icons, ended, pending, stashed, timers, calls, socket, up, nextId, found, lost>>
  BY DEF End, widget, service, history
<1>2. Shapes /\ Distinct /\ Queues /\ Turns /\ socket.open
  BY DEF IInv, Queues, ShownInv
<1>3. Queue(last) /\ \A m \in ToSet(last) : m.kind = "done" /\ m.search = run.search /\ m.id = run.id
  BY WrapUpDone, EmptyQueue
<1> HIDE DEF last
<1>4. \A new \in runs' : new \in runs /\ From(new, new) /\ new.search # run.search
  BY <1>1, <1>2 DEF Distinct, Shapes, Shaped, From
<1>5. Values' /\ Turns' /\ OneId' /\ (latest \notin lost => Stages' /\ Ends') /\ (Live' => Live)
  BY <1>1, <1>2, <1>3, <1>4, RunsShown DEF Turns
<1>6. ~Has(ToSet(last), "result", latest)
  BY <1>3 DEF Has
<1> QED BY <1>1, <1>3, <1>5, <1>6, RunsEndShown

LEMMA ServeCancelShown ==
  ASSUME IInv, ShownInv, up # << >>, up' = Tail(up), Head(up).kind = "cancel", ServeCancel(Head(up)),
         UNCHANGED <<widget, service, calls, socket, found, history>>
  PROVE  ShownInv'
<1> DEFINE message == Head(up)
<1>1. UNCHANGED <<latest, term, tree, shown, icons, ended, pending, stashed, timers, calls, socket, nextId, found, lost>>
  BY DEF ServeCancel, widget, service, history
<1>2. Shapes /\ Distinct /\ Queues /\ Values /\ Turns /\ socket.open
  BY DEF IInv, Queues, ShownInv
<1>3. ToSet(up') \subseteq ToSet(up) /\ InTurn(up', "search") /\ InTurn(calls', "search")
  BY <1>1, <1>2, Tailed, InTurnTailed DEF Queues, Turns
<1>4. CASE UNCHANGED <<runs, down>>
  <2>1. Requests' \subseteq Requests /\ Ending' = Ending
    BY <1>1, <1>3 DEF Requests, Ending
  <2>2. Values'
    BY <1>1, <1>2, <1>4, <2>1 DEF Values
  <2> QED BY <1>1, <1>3, <1>4, <2>1, <2>2, Quieter
<1>5. ASSUME NEW run \in runs, runs' = (runs \ {run}) \union {[run EXCEPT !.ongoing = FALSE]}, down' = down \o WrapUp(run)
      PROVE  ShownInv'
  <2> DEFINE new == [run EXCEPT !.ongoing = FALSE]
             t == WrapUp(run)
  <2>1. From(new, run) /\ ~new.ongoing
    BY <1>2, ChangedRun
  <2>2. /\ Queue(t) /\ \A m \in ToSet(t) : m.kind = "done" /\ m.search = run.search /\ m.id = run.id
    BY WrapUpDone
  <2>3. run.ongoing => Has(ToSet(t), "done", run.search)
    BY WrapUpDone
  <2>4. runs' = (runs \ {run}) \union {new} /\ down' = down \o t
    BY <1>5
  <2> HIDE DEF new, t
  <2>5. \A r \in runs' : r = new \/ (r \in runs /\ From(r, r) /\ r.search # run.search)
    BY <1>2, <2>4 DEF Distinct, Shapes, Shaped, From
  <2>6. new.search = run.search
    BY <2>1 DEF From
  <2>7. \A m \in ToSet(t) : /\ m.kind \in {"result", "done"}
                            /\ \E r \in runs : m.search = r.search /\ m.id = r.id
                            /\ m.kind = "done" => \A r \in runs' : r.search = m.search => ~r.ongoing
    BY <2>1, <2>2, <2>5
  <2>8. \A r \in runs' : r.ongoing \/ Has(ToSet(t), "done", r.search) \/ \E q \in runs : q.search = r.search /\ ~q.ongoing
    BY <2>3, <2>5, <2>6
  <2>9. \A r \in runs' : \E q \in runs : From(r, q)
    BY <2>1, <2>5
  <2>10. Values' /\ Turns' /\ OneId' /\ (latest \notin lost => Stages' /\ Ends') /\ (Live' => Live)
    BY <1>1, <1>2, <1>3, <2>2, <2>4, <2>7, <2>8, <2>9, RunsShown
  <2>11. ~Has(ToSet(t), "result", latest)
    BY <2>2 DEF Has
  <2> QED BY <1>1, <2>2, <2>4, <2>10, <2>11, RunsEndShown
<1> QED BY <1>4, <1>5 DEF ServeCancel

LEMMA OutputShown == ASSUME IInv, ShownInv, NEW run \in runs, NEW file \in Files, Output(run, file) PROVE ShownInv'
<1> DEFINE number == Cardinality({m \in run.matches : m.file = file}) + 1
           match == [search |-> run.search, file |-> file, number |-> number]
           matches == run.matches \union {match}
           full == Cardinality(matches) = MaxResults
           new == [run EXCEPT !.matches = matches, !.ongoing = @ /\ ~full]
           last == IF full THEN WrapUp(run) ELSE << >>
           result == Found(run, match)
           t == <<result>> \o last
<1>1. /\ runs' = (runs \ {run}) \union {new}
      /\ down' = (down \o <<result>>) \o last
      /\ found' = IF run.ongoing /\ run.search = latest THEN found \union {match} ELSE found
      /\ UNCHANGED <<latest, term, tree, shown, icons, ended, pending, stashed, timers, calls, socket, up, nextId, lost>>
  BY DEF Output, widget, service, history
<1>2. /\ Shapes /\ Distinct /\ Queues /\ Queue(down) /\ Turns /\ Latest /\ ShownIsComplete /\ socket.open
      /\ run.ongoing \in BOOLEAN
  BY DEF IInv, Queues, ShownInv, Shapes, Shaped
<1>3. From(new, run) /\ (run.ongoing /\ ~new.ongoing => full) /\ (full => ~new.ongoing)
  <2>1. PICK b \in BOOLEAN : b = full
    OBVIOUS
  <2> HIDE DEF matches, full
  <2>2. From([run EXCEPT !.matches = matches, !.ongoing = @ /\ ~b], run)
    BY <1>2, ChangedRun
  <2>3. /\ run = [id |-> run.id, search |-> run.search, ongoing |-> run.ongoing, matches |-> run.matches]
    BY <1>2 DEF Shapes, Shaped
  <2>4. [run EXCEPT !.matches = matches, !.ongoing = @ /\ ~b].ongoing = (run.ongoing /\ ~b)
    BY <2>3
  <2> QED BY <2>1, <2>2, <2>4
<1>4. /\ Queue(last) /\ \A m \in ToSet(last) : m.kind = "done" /\ m.search = run.search /\ m.id = run.id
      /\ ToSet(last) # {} => full
      /\ full /\ run.ongoing => Has(ToSet(last), "done", run.search)
  BY WrapUpDone, EmptyQueue
<1>5. /\ result.kind = "result" /\ result.search = run.search /\ result.id = run.id /\ result.match = match
      /\ match.file = file
  BY DEF Found
<1> HIDE DEF match, full, new, last, result
<1>6. Queue(<<result>>) /\ ToSet(<<result>>) = {result}
  BY Singleton
<1>7. Queue(t) /\ ToSet(t) = {result} \union ToSet(last)
  BY <1>4, <1>6, Concatenated
<1>8. down' = down \o t
  <2> DEFINE S == ToSet(down) \union {result} \union ToSet(last)
  <2>1. down \in Seq(S) /\ <<result>> \in Seq(S) /\ last \in Seq(S)
    BY <1>2, <1>4 DEF Queue
  <2> QED BY <1>1, <2>1, ConcatAssociative
<1> HIDE DEF t
<1>9. \A r \in runs' : r = new \/ (r \in runs /\ From(r, r) /\ r.search # run.search)
  BY <1>1, <1>2 DEF Distinct, Shapes, Shaped, From
<1>10. new.search = run.search
  BY <1>3 DEF From
<1>11. \A m \in ToSet(t) : /\ m.kind \in {"result", "done"}
                           /\ \E r \in runs : m.search = r.search /\ m.id = r.id
                           /\ m.kind = "done" => \A r \in runs' : r.search = m.search => ~r.ongoing
  BY <1>3, <1>4, <1>5, <1>7, <1>9
<1>12. \A r \in runs' : r.ongoing \/ Has(ToSet(t), "done", r.search) \/ \E q \in runs : q.search = r.search /\ ~q.ongoing
  <2>1. full /\ run.ongoing => Has(ToSet(t), "done", run.search)
    BY <1>4, <1>7, HasIn
  <2> QED BY <1>3, <1>9, <1>10, <2>1
<1>13. \A r \in runs' : \E q \in runs : From(r, q)
  BY <1>3, <1>9
<1>14. Values' /\ Turns' /\ OneId' /\ (latest \notin lost => Stages' /\ Ends') /\ (Live' => Live)
  BY <1>1, <1>2, <1>7, <1>8, <1>11, <1>12, <1>13, RunsShown DEF Turns
<1>15. CASE run.search # latest
  <2>1. ~Has(ToSet(t), "result", latest) /\ found' = found
    BY <1>1, <1>4, <1>5, <1>7, <1>15 DEF Has
  <2> QED BY <1>1, <1>7, <1>8, <1>14, <2>1, RunsEndShown
<1>16. CASE run.search = latest
  <2>1. ASSUME latest \notin lost, term, Live, NEW f \in KnownIcons
        PROVE  tree[f] \union Matches(Until(down', "done", latest), latest, f) = {m \in found' : m.file = f}
    <3>1. tree[f] \union Matches(Until(down, "done", latest), latest, f) = {m \in found : m.file = f} /\ Ends
      BY <1>2, <2>1 DEF Latest, Arriving
    <3>2. CASE run.ongoing
      <4>1. ~Has(ToSet(down), "done", latest)
        BY <1>16, <3>1, <3>2 DEF Ends
      <4>2. Until(down', "done", latest) = Until(down, "done", latest) \union Until(t, "done", latest)
        BY <1>2, <1>7, <1>8, <4>1, UntilConcatenated, UntilIn
      <4>3. Until(t, "done", latest) = {result} \union Until(last, "done", latest)
        <5>1. ~Has(ToSet(<<result>>), "done", latest)
          BY <1>5, <1>6 DEF Has
        <5> QED BY <1>4, <1>6, <5>1, UntilConcatenated DEF t
      <4>4. Until(last, "done", latest) \subseteq ToSet(last)
        BY <1>4, UntilIn
      <4>5. Matches(Until(down', "done", latest), latest, f)
              = Matches(Until(down, "done", latest), latest, f) \union (IF file = f THEN {match} ELSE {})
        BY <1>4, <1>5, <1>16, <4>2, <4>3, <4>4 DEF Matches
      <4>6. found' = found \union {match}
        BY <1>1, <1>16, <3>2
      <4> QED BY <1>5, <3>1, <4>5, <4>6
    <3>3. CASE ~run.ongoing
      <4>1. Has(ToSet(down), "done", latest)
        BY <1>16, <2>1, <3>1, <3>3 DEF Ends
      <4>2. Until(down', "done", latest) = Until(down, "done", latest)
        BY <1>2, <1>7, <1>8, <4>1, UntilConcatenated
      <4> QED BY <1>1, <3>1, <3>3, <4>2
    <3> QED BY <3>2, <3>3
  <2>2. latest \notin lost => Arriving'
    BY <1>1, <1>14, <2>1 DEF Arriving
  <2>3. ShownIsComplete'
    <3>1. ended = latest /\ latest \notin lost => ~run.ongoing
      BY <1>2, <1>16 DEF Latest, Ends
    <3> QED BY <1>1, <1>2, <3>1 DEF ShownIsComplete
  <2> QED BY <1>1, <1>14, <2>2, <2>3 DEF ShownInv, Latest
<1> QED BY <1>15, <1>16

\* What is sent of other searches changes nothing for search n.
LEMMA OthersKept ==
  ASSUME NEW s, NEW t, NEW n, NEW kind, Queue(s), Queue(t), \A m \in ToSet(t) : m.search # n
  PROVE  \A k : Has(Until(s \o t, kind, n), k, n) => Has(Until(s, kind, n), k, n)
<1>1. Until(s \o t, kind, n) \subseteq Until(s, kind, n) \union ToSet(t)
  BY UntilConcatenated, UntilIn
<1> QED BY <1>1 DEF Has

LEMMA ServeSearchShown ==
  ASSUME IInv, ShownInv, up # << >>, up' = Tail(up), Head(up).kind = "search", ServeSearch(Head(up)),
         UNCHANGED <<widget, service, calls, socket, found, history>>
  PROVE  ShownInv'
<1> DEFINE n == Head(up).search
           answer == Message("answer", n, nextId)
           done == Message("done", n, nextId)
           new == [id |-> nextId, search |-> n, ongoing |-> TRUE, matches |-> {}]
<1>1. UNCHANGED <<latest, term, tree, shown, icons, ended, pending, stashed, timers, calls, socket, found, lost>>
  BY DEF widget, service, history
<1>2. /\ Shapes /\ Queues /\ Queue(down) /\ Queue(up) /\ Values /\ Turns /\ OneId /\ Latest /\ ShownIsComplete
      /\ socket.open /\ nextId \in Nat /\ latest \in Nat /\ ToSet(calls) = {}
  BY EmptyQueue DEF IInv, Queues, ShownInv, Shapes
<1>3. /\ Head(up) \in ToSet(up) /\ ToSet(up') \subseteq ToSet(up) /\ InTurn(up', "search")
      /\ \A m \in ToSet(up') : m.kind = "search" => n < m.search
  BY <1>2, Tailed, InTurnTailed DEF Turns
<1>4. /\ n \in 1 .. latest /\ nextId < n
      /\ \A a \in ToSet(down) : a.kind = "answer" => a.search < n
      /\ \A p \in Known : p[1] # n /\ p[2] < nextId /\ p[2] \in Nat
  BY <1>2, <1>3 DEF Shapes, Turns, OneId, Requests
<1>5. /\ answer.kind = "answer" /\ answer.search = n /\ answer.id = nextId
      /\ done.kind = "done" /\ done.search = n /\ done.id = nextId
      /\ new.id = nextId /\ new.search = n /\ new.ongoing = TRUE
  BY DEF Message
<1>6. n = latest => Asked
  BY <1>3 DEF Asked, Has, Requests
<1> HIDE DEF n, answer, done, new
<1>7. PICK t : /\ down' = down \o t /\ nextId' = nextId + 1
               /\ \/ t = <<answer>> /\ runs' = runs \union {new}
                  \/ t \in {<<answer, done>>, <<done, answer>>} /\ runs' = runs
  <2>1. /\ nextId' = nextId + 1
        /\ \/ runs' = runs \union {new} /\ down' = Append(down, answer)
           \/ runs' = runs /\ \E order \in {<<answer, done>>, <<done, answer>>} : down' = down \o order
    BY DEF ServeSearch, n, answer, done, new
  <2>2. Append(down, answer) = down \o <<answer>>
    BY <1>2 DEF Queue
  <2> QED BY <2>1, <2>2
<1>8. /\ Queue(t) /\ ToSet(t) \subseteq {answer, done} /\ answer \in ToSet(t) /\ InTurn(t, "answer")
      /\ runs' = runs \/ ToSet(t) = {answer}
  <2>1. CASE t = <<answer>> /\ runs' = runs \union {new}
    BY <2>1, Singleton, InTurnShort
  <2>2. CASE t \in {<<answer, done>>, <<done, answer>>} /\ runs' = runs
    <3>1. Queue(t) /\ ToSet(t) = {answer, done}
      BY <2>2, Pair
    <3>2. DOMAIN t = {1, 2} /\ (t[1] = done \/ t[2] = done)
      BY <2>2
    <3>3. InTurn(t, "answer")
      BY <1>5, <3>2 DEF InTurn
    <3> QED BY <2>2, <3>1, <3>3
  <2> QED BY <1>7, <2>1, <2>2
<1>9. ToSet(down') = ToSet(down) \union ToSet(t)
  BY <1>2, <1>7, <1>8, Concatenated
<1>10. Requests' \subseteq Requests /\ Ending' = Ending /\ Requests' = ToSet(up')
  BY <1>1, <1>2, <1>3 DEF Requests, Ending
<1>11. \A m \in ToSet(t) : m.search = n /\ m.id = nextId
  BY <1>5, <1>8
<1>12. Known' \subseteq Known \union {<<n, nextId>>}
  <2>1. \A r \in runs' : r \in runs \/ (r.search = n /\ r.id = nextId)
    BY <1>5, <1>7
  <2> QED BY <1>1, <1>9, <1>11, <2>1 DEF Known
<1>13. Values'
  <2>1. nextId' <= latest /\ nextId < nextId' /\ \A i \in Nat : i < nextId => i < nextId'
    BY <1>2, <1>4, <1>7
  <2>2. \A m \in ToSet(down') : m.search \in 1 .. latest /\ m.id \in Nat /\ m.id < nextId'
    BY <1>2, <1>4, <1>9, <1>11, <2>1 DEF Values
  <2> QED BY <1>1, <1>2, <1>10, <2>1, <2>2 DEF Values
<1>14. Turns'
  <2>1. InTurn(down', "answer")
    BY <1>2, <1>4, <1>7, <1>8, <1>11, InTurnConcatenated DEF Turns
  <2>2. ASSUME NEW m \in Requests', m.kind = "search"
        PROVE  nextId' < m.search /\ \A a \in ToSet(down') : a.kind = "answer" => a.search < m.search
    <3>1. n < m.search /\ m.search \in 1 .. latest
      BY <1>2, <1>3, <1>10, <2>2 DEF Shapes
    <3> QED BY <1>2, <1>4, <1>7, <1>9, <1>11, <3>1 DEF Values
  <2> QED BY <1>1, <1>2, <1>3, <2>1, <2>2 DEF Turns
<1>15. OneId'
  <2>1. \A p \in Known' : p \in Known \/ (p[1] = n /\ p[2] = nextId)
    BY <1>12
  <2>2. \A p, q \in Known' : p[1] = q[1] <=> p[2] = q[2]
    BY <1>2, <1>4, <2>1 DEF OneId
  <2>3. \A p \in Known' : p[2] \in Nat /\ p[2] < nextId'
    BY <1>2, <1>4, <1>7, <2>1
  <2>4. \A m \in Requests' : m.kind = "search" => m \in Requests /\ m.search # n
    BY <1>3, <1>4, <1>10
  <2>5. \A m \in Requests' : m.kind = "search" => \A p \in Known' : p[1] # m.search
    BY <1>2, <2>1, <2>4 DEF OneId
  <2> QED BY <2>2, <2>3, <2>5 DEF OneId
<1>16. ShownIsComplete'
  BY <1>1, <1>2 DEF ShownIsComplete
<1>17. ~Has(ToSet(t), "result", latest)
  BY <1>5, <1>8 DEF Has
<1>18. \A file : Matches(Until(down', "done", latest), latest, file) = Matches(Until(down, "done", latest), latest, file)
  BY <1>2, <1>7, <1>8, <1>17, MatchesKept
<1>19. (Asked' => Asked /\ n # latest) /\ (Heard' <=> Heard) /\ (Early' <=> Early)
  <2>1. \A m \in Requests' : m.kind = "search" => m \in Requests /\ m.search # n
    BY <1>3, <1>4, <1>10
  <2> QED BY <1>1, <1>10, <2>1 DEF Asked, Heard, Early, Has
<1>20. ASSUME latest \notin lost, n = latest PROVE Stages' /\ Ends' /\ Arriving'
  <2>1. Stages /\ Arriving
    BY <1>2, <1>20 DEF Latest
  <2>2. /\ \A m \in ToSet(down) : m.search # latest
        /\ \A run \in runs : run.search # latest
        /\ \A id \in Ids : pending[id] # latest
    <3>1. /\ \A m \in ToSet(down) : <<m.search, m.id>> \in Known
          /\ \A run \in runs : <<run.search, run.id>> \in Known
          /\ \A id \in Ids : pending[id] = latest => <<latest, id>> \in Known
      BY <1>20 DEF Known
    <3> QED BY <1>4, <1>20, <3>1
  <2>3. ~Asked' /\ ~Heard' /\ ~Early' /\ ended # latest
    BY <1>6, <1>19, <1>20, <2>1, <2>2 DEF Stages, Heard
  <2>4. ~Has(ToSet(down'), "result", latest)
    BY <1>9, <1>17, <2>2 DEF Has
  <2>5. Queue(down')
    BY <1>2, <1>7, <1>8, Concatenated
  <2>6. ~Has(Until(down', "answer", latest), "result", latest)
    BY <2>4, <2>5, HasIn, UntilIn
  <2>7. CASE runs' = runs
    <3>1. NoMatches' /\ \A run \in runs' : run.search # latest
      BY <1>1, <2>2, <2>4, <2>7 DEF NoMatches
    <3>2. Stages'
      BY <1>1, <2>3, <2>6, <3>1 DEF Stages
    <3>3. Ends'
      BY <1>1, <3>1 DEF Ends
    <3> QED BY <1>1, <1>6, <1>18, <1>20, <2>1, <3>2, <3>3 DEF Arriving, Live
  <2>8. CASE ToSet(t) = {answer} /\ runs' = runs \union {new}
    <3>1. ~Has(ToSet(down'), "done", latest)
      BY <1>5, <1>9, <2>2, <2>8 DEF Has
    <3>2. ~Has(Until(down', "answer", latest), "done", latest)
      BY <2>5, <3>1, HasIn, UntilIn
    <3>3. Stages'
      BY <1>1, <2>3, <2>6, <3>2 DEF Stages
    <3>4. Ends'
      BY <1>1, <1>5, <2>2, <2>3, <2>8, <3>1 DEF Ends
    <3> QED BY <1>1, <1>6, <1>18, <1>20, <2>1, <3>3, <3>4 DEF Arriving, Live
  <2> QED BY <1>7, <1>8, <2>7, <2>8
<1>21. ASSUME latest \notin lost, n # latest PROVE Stages' /\ Ends' /\ Arriving'
  <2>1. Stages /\ Ends /\ Arriving
    BY <1>2, <1>21 DEF Latest
  <2>2. \A m \in ToSet(t) : m.search # latest
    BY <1>11, <1>21
  <2>3. \A kind : Has(ToSet(down'), kind, latest) <=> Has(ToSet(down), kind, latest)
    BY <1>9, <2>2 DEF Has
  <2>4. \A kind : Has(Until(down', "answer", latest), kind, latest) => Has(Until(down, "answer", latest), kind, latest)
    BY <1>2, <1>7, <1>8, <2>2, OthersKept
  <2>5. \A r \in runs' : r.search = latest => r \in runs
    BY <1>5, <1>7, <1>21
  <2>6. (Answering' <=> Answering) /\ (NoMatches => NoMatches') /\ (Live' => Live)
    BY <1>1, <1>19, <2>3, <2>5 DEF Answering, NoMatches, Live
  <2>7. Stages'
    BY <1>1, <1>19, <2>1, <2>4, <2>6 DEF Stages
  <2>8. Ends'
    BY <1>1, <1>19, <2>1, <2>3, <2>5, <2>6 DEF Ends
  <2>9. Arriving'
    BY <1>1, <1>18, <2>1, <2>6 DEF Arriving
  <2> QED BY <2>7, <2>8, <2>9
<1> QED BY <1>1, <1>13, <1>14, <1>15, <1>16, <1>20, <1>21 DEF ShownInv, Latest

LEMMA ServeShown == ASSUME IInv, ShownInv, Serve PROVE ShownInv'
<1>1. up # << >> /\ up' = Tail(up) /\ UNCHANGED <<widget, service, calls, socket, found, history>>
  BY DEF Serve
<1>2. CASE Head(up).kind = "search" /\ ServeSearch(Head(up))
  BY <1>1, <1>2, ServeSearchShown
<1>3. CASE Head(up).kind = "cancel" /\ ServeCancel(Head(up))
  BY <1>1, <1>3, ServeCancelShown
<1> QED BY <1>2, <1>3 DEF Serve

LEMMA NextShown == ASSUME IInv, ShownInv, [Next]_vars PROVE ShownInv'
BY SearchShown, SearchNothingShown, ConnectShown, CloseShown, ReceiveShown, ReceiveIconShown, TimerShown, ServeShown,
   OutputShown, EndShown, UnchangedShown DEF Next

----------------------------------------------------------------------------
(* The theorems.                                                           *)

\* A superseded search that has a process is cancelled by what is on its way, or by the answer to
\* its id: the widget's search, its token and the server's cancel, in every state.
THEOREM SupersededIsCancelledAlways == Spec => []SupersededIsCancelled
<1>1. Init => IInv
  BY InitInv
<1>2. IInv /\ [Next]_vars => IInv'
  BY NextInv
<1>3. IInv => SupersededIsCancelled
  BY DEF IInv
<1> QED BY <1>1, <1>2, <1>3, PTL DEF Spec

\* A cancel that comes to a server finds no other search than its own there, but for the cancels in
\* late, whatever calls waited for the connection: the service's cancel and the server's ids, which
\* every connection counts from zero.
THEOREM CancelsHitOwnSearch == Spec => []CancelHitsOwnSearch
<1>1. Init => IInv /\ OwnInv
  BY InitInv, InitOwn
<1>2. IInv /\ OwnInv /\ [Next]_vars => IInv' /\ OwnInv'
  BY NextInv, NextOwn
<1>3. IInv /\ OwnInv => CancelHitsOwnSearch
  <2>1. SUFFICES ASSUME IInv, OwnInv, up # << >>, Head(up).kind = "cancel", Head(up).search \notin late,
                        NEW run \in runs, run.id = Head(up).id
                 PROVE  run.search = Head(up).search
    BY DEF CancelHitsOwnSearch
  <2>2. Head(up) \in ToSet(up)
    BY <2>1, Tailed DEF IInv, Queues
  <2>3. Own(Head(up).search, Head(up).id) \/ nextId = 0
    BY <2>1, <2>2 DEF OwnInv
  <2>4. run.id \in Nat /\ run.id < nextId
    BY <2>1 DEF IInv, Shapes, Shaped
  <2> QED BY <2>1, <2>3, <2>4 DEF Own
<1> QED BY <1>1, <1>2, <1>3, PTL DEF Spec

\* When the latest search has ended, what is shown of the files whose icons are known is what the server has sent of
\* it before its end, whatever else was on its way: onResult and onDone of the widget, the service's
\* pendingSearches and pendingOnDones, and the limit of results.
THEOREM ShownIsWhatWasFound == Spec => []ShownIsComplete
<1>1. Init => IInv /\ ShownInv
  BY InitInv, InitShown
<1>2. IInv /\ ShownInv /\ [Next]_vars => IInv' /\ ShownInv'
  BY NextInv, NextShown
<1>3. ShownInv => ShownIsComplete
  BY DEF ShownInv
<1> QED BY <1>1, <1>2, <1>3, PTL DEF Spec

----------------------------------------------------------------------------
(* What every variable holds.                                              *)

\* The ids that the page holds, the matches of the tree and of messages, those of processes, and timers.
Tokens == listening \in Ids \union {None} /\ lastKnown \in Ids \union {None} /\ term \in BOOLEAN
Results ==
    /\ tree \in [Files -> SUBSET Match] /\ shown \in [Files -> SUBSET Match]
    /\ icons \subseteq Match /\ found \subseteq Match
    /\ \A m \in ToSet(down) : m.kind = "result" => m.match \in Match
Listed == \A run \in runs : run.matches \subseteq Match /\ IsFiniteSet(run.matches)
Timely ==
    /\ \A timer \in ToSet(timers) : timer.kind = "cancel" => timer.search \in 1 .. latest
    /\ late \subseteq 1 .. latest

Holds == Tokens /\ Results /\ Listed /\ Timely

LEMMA InitHolds == Init => Holds
<1> SUFFICES ASSUME Init PROVE Holds
  OBVIOUS
<1>1. ToSet(down) = {} /\ ToSet(timers) = {}
  BY EmptyQueue DEF Init
<1>2. Tokens
  BY DEF Init, Tokens
<1>3. Results
  BY <1>1 DEF Init, Results
<1>4. Listed /\ Timely
  BY <1>1 DEF Init, Listed, Timely
<1> QED BY <1>2, <1>3, <1>4 DEF Holds

LEMMA SearchHolds == ASSUME IInv, Holds, Search PROVE Holds'
<1>1. /\ latest' = latest + 1 /\ term' = TRUE /\ listening' = None /\ found' = {}
      /\ tree' = [f \in Files |-> {}]
      /\ UNCHANGED <<shown, icons, lastKnown, timers, down, runs, late>>
  BY DEF Search, history
<1>2. latest \in Nat
  BY DEF IInv, Shapes
<1>3. 1 .. latest \subseteq 1 .. latest'
  BY <1>1, <1>2
<1>4. Tokens'
  BY <1>1 DEF Holds, Tokens
<1>5. Results'
  BY <1>1 DEF Holds, Results
<1>6. Listed' /\ Timely'
  BY <1>1, <1>3 DEF Holds, Listed, Timely
<1> QED BY <1>4, <1>5, <1>6 DEF Holds

LEMMA SearchNothingHolds == ASSUME Holds, SearchNothing PROVE Holds'
<1>1. /\ term' = FALSE /\ tree' = [f \in Files |-> {}] /\ shown' = tree'
      /\ UNCHANGED <<latest, listening, icons, lastKnown, timers, found, down, runs, late>>
  BY DEF SearchNothing, service, server, history
<1>2. Results'
  BY <1>1 DEF Holds, Results
<1> QED BY <1>1, <1>2 DEF Holds, Tokens, Listed, Timely

LEMMA SocketHolds == ASSUME Holds, Connect \/ Close PROVE Holds'
<1>1. /\ UNCHANGED <<latest, term, listening, tree, shown, lastKnown, timers, found, late>>
      /\ runs' = {} /\ icons' \subseteq icons /\ down' \in {down, << >>}
  BY DEF Connect, Close, widget, service, history
<1>2. ToSet(down') \subseteq ToSet(down)
  BY <1>1, EmptyQueue
<1>3. Results'
  BY <1>1, <1>2 DEF Holds, Results
<1> QED BY <1>1, <1>3 DEF Holds, Tokens, Listed, Timely

LEMMA ReceiveIconHolds == ASSUME Holds, NEW match \in icons, ReceiveIcon(match) PROVE Holds'
<1>1. /\ icons' = icons \ {match} /\ tree' = [tree EXCEPT ![match.file] = {match}]
      /\ UNCHANGED <<latest, term, listening, shown, lastKnown, timers, down, found, runs, late>>
  BY DEF ReceiveIcon, service, server, history
<1>2. match \in Match
  BY DEF Holds, Results
<1>3. Results'
  BY <1>1, <1>2 DEF Holds, Results
<1> QED BY <1>1, <1>3 DEF Holds, Tokens, Listed, Timely

LEMMA ReceiveHolds == ASSUME IInv, ShownInv, Holds, Receive PROVE Holds'
<1> DEFINE m == Head(down)
<1>1. /\ Queue(down) /\ Queue(timers) /\ down # << >> /\ down' = Tail(down)
      /\ UNCHANGED <<latest, term, found, runs, late>>
  BY DEF IInv, Queues, Receive, server
<1>2. m \in ToSet(down) /\ ToSet(down') \subseteq ToSet(down)
  BY <1>1, Tailed
<1>3. /\ latest \in Nat /\ latest <= MaxSearches /\ nextId <= latest /\ nextId \in Nat
      /\ m.search \in 1 .. latest /\ m.id \in Nat /\ m.id < nextId
  BY <1>2 DEF IInv, Shapes, ShownInv, Values
<1>4. m.id \in Ids
  BY <1>3, SearchAssumption DEF Ids
<1>5. CASE m.kind = "answer" /\ ReceiveAnswer(m)
  <2> DEFINE last == IF m.search = latest THEN << >> ELSE Cancel(m.search, m.id)
  <2>1. /\ lastKnown' = m.id /\ listening' \in {m.id, listening}
        /\ timers' = (timers \o Told(m.id)) \o last
        /\ UNCHANGED <<tree, shown, icons>>
    BY <1>5 DEF ReceiveAnswer
  <2>2. Queue(last) /\ \A timer \in ToSet(last) : timer.search = m.search
    BY CancelMessages, EmptyQueue DEF Cancel, Message, ToSet
  <2>3. Queue(Told(m.id)) /\ \A timer \in ToSet(Told(m.id)) : timer.kind # "cancel"
    BY ToldMessages DEF IInv
  <2> HIDE DEF last
  <2>4. ToSet(timers') = ToSet(timers) \union ToSet(Told(m.id)) \union ToSet(last)
    BY <1>1, <2>1, <2>2, <2>3, Concatenated
  <2>5. Timely'
    BY <1>1, <1>3, <2>2, <2>3, <2>4 DEF Holds, Timely
  <2>6. Tokens'
    BY <1>1, <1>4, <2>1 DEF Holds, Tokens
  <2>7. Results'
    BY <1>1, <1>2, <2>1 DEF Holds, Results
  <2> QED BY <1>1, <2>5, <2>6, <2>7 DEF Holds, Listed
<1>6. CASE m.kind = "result" /\ ReceiveResult(m)
  <2>1. m.match \in Match
    BY <1>2, <1>6 DEF Holds, Results
  <2>2. /\ \/ UNCHANGED <<tree, icons>>
           \/ tree' = [tree EXCEPT ![m.match.file] = @ \union {m.match}] /\ icons' = icons
           \/ icons' = icons \union {m.match} /\ tree' = tree
        /\ UNCHANGED <<shown, listening, lastKnown, timers>>
    BY <1>6 DEF ReceiveResult, service
  <2>3. tree' \in [Files -> SUBSET Match] /\ icons' \subseteq Match
    BY <2>1, <2>2 DEF Holds, Results
  <2>4. Results'
    BY <1>1, <1>2, <2>2, <2>3 DEF Holds, Results
  <2> QED BY <1>1, <2>2, <2>4 DEF Holds, Tokens, Listed, Timely
<1>7. CASE m.kind = "done" /\ Done(m) /\ UNCHANGED timers
  <2>1. shown' \in {tree, shown} /\ UNCHANGED <<lastKnown, tree, icons, listening>>
    BY <1>7 DEF Done
  <2>2. Results'
    BY <1>1, <1>2, <2>1 DEF Holds, Results
  <2> QED BY <1>1, <1>7, <2>1, <2>2 DEF Holds, Tokens, Listed, Timely
<1> QED BY <1>5, <1>6, <1>7 DEF Receive

LEMMA TimerHolds == ASSUME IInv, Holds, Timer PROVE Holds'
<1> DEFINE timer == Head(timers)
<1>1. /\ Queue(timers) /\ timers # << >> /\ timers' = Tail(timers)
      /\ UNCHANGED <<latest, term, down, runs, found>>
  BY DEF IInv, Queues, Timer, server
<1>2. timer \in ToSet(timers) /\ ToSet(timers') \subseteq ToSet(timers)
  BY <1>1, Tailed
<1>3. /\ shown' \in {tree, shown} /\ UNCHANGED <<lastKnown, tree, icons, listening>>
      /\ late' = late \/ (timer.kind = "cancel" /\ late' = late \union {timer.search})
  BY DEF Timer, Done
<1>4. Timely'
  BY <1>1, <1>2, <1>3 DEF Holds, Timely
<1>5. Results'
  BY <1>1, <1>3 DEF Holds, Results
<1> QED BY <1>1, <1>3, <1>4, <1>5 DEF Holds, Tokens, Listed

\* What a server sends but results; its runs have the matches they had.
LEMMA ServerHolds ==
  ASSUME IInv, Holds, NEW t, Queue(t), down' = down \o t, \A m \in ToSet(t) : m.kind # "result",
         \A new \in runs' : new.matches = {} \/ \E run \in runs : new.matches = run.matches,
         UNCHANGED <<widget, service, found, history>>
  PROVE  Holds'
<1>1. ToSet(down') = ToSet(down) \union ToSet(t)
  BY Concatenated DEF IInv, Queues
<1>2. UNCHANGED <<latest, term, listening, tree, shown, icons, lastKnown, timers, found, late>>
  BY DEF widget, service, history
<1>3. Results'
  BY <1>1, <1>2 DEF Holds, Results
<1>4. Listed'
  BY FS_EmptySet DEF Holds, Listed
<1> QED BY <1>2, <1>3, <1>4 DEF Holds, Tokens, Timely

LEMMA ServeHolds == ASSUME IInv, Holds, Serve PROVE Holds'
<1> DEFINE message == Head(up)
<1>1. UNCHANGED <<widget, service, found, history>>
  BY DEF Serve
<1>2. CASE message.kind = "search" /\ ServeSearch(message)
  <2> DEFINE answer == Message("answer", message.search, nextId)
             done == Message("done", message.search, nextId)
             new == [id |-> nextId, search |-> message.search, ongoing |-> TRUE, matches |-> {}]
  <2>1. answer.kind = "answer" /\ done.kind = "done" /\ new.matches = {}
    BY DEF Message
  <2> HIDE DEF answer, done
  <2>2. \/ runs' = runs \union {new} /\ down' = Append(down, answer)
        \/ runs' = runs /\ \E order \in {<<answer, done>>, <<done, answer>>} : down' = down \o order
    BY <1>2 DEF ServeSearch, answer, done
  <2>3. Append(down, answer) = down \o <<answer>>
    <3>1. down \in Seq(ToSet(down) \union {answer})
      BY DEF IInv, Queues, Queue
    <3> QED BY <3>1
  <2>4. PICK t \in {<<answer>>, <<answer, done>>, <<done, answer>>} : down' = down \o t
    BY <2>2, <2>3
  <2>5. Queue(t) /\ ToSet(t) \subseteq {answer, done}
    BY <2>4, Singleton, Pair
  <2>6. \A r \in runs' : r.matches = {} \/ \E run \in runs : r.matches = run.matches
    BY <2>1, <2>2
  <2> QED BY <1>1, <2>1, <2>4, <2>5, <2>6, ServerHolds
<1>3. CASE message.kind = "cancel" /\ ServeCancel(message)
  <2>1. CASE UNCHANGED <<runs, down>>
    BY <1>1, <2>1 DEF Holds, Tokens, Results, Listed, Timely, widget, service, history
  <2>2. CASE \E run \in runs : /\ runs' = (runs \ {run}) \union {[run EXCEPT !.ongoing = FALSE]}
                               /\ down' = down \o WrapUp(run)
    <3>1. PICK run \in runs : /\ runs' = (runs \ {run}) \union {[run EXCEPT !.ongoing = FALSE]}
                              /\ down' = down \o WrapUp(run)
      BY <2>2
    <3>2. [run EXCEPT !.ongoing = FALSE].matches = run.matches
      <4>1. run = [id |-> run.id, search |-> run.search, ongoing |-> run.ongoing, matches |-> run.matches]
        BY DEF IInv, Shapes, Shaped
      <4> QED BY <4>1
    <3>3. Queue(WrapUp(run)) /\ \A m \in ToSet(WrapUp(run)) : m.kind = "done"
      BY WrapUpDone DEF IInv, Shapes, Shaped
    <3> QED BY <1>1, <3>1, <3>2, <3>3, ServerHolds
  <2> QED BY <1>3, <2>1, <2>2 DEF ServeCancel
<1> QED BY <1>2, <1>3 DEF Serve

LEMMA EndHolds == ASSUME IInv, Holds, NEW run \in runs, End(run) PROVE Holds'
<1>1. PICK t : t = IF Cardinality(run.matches) = MaxResults THEN << >> ELSE WrapUp(run)
  OBVIOUS
<1>2. runs' = runs \ {run} /\ down' = down \o t /\ UNCHANGED <<widget, service, found, history>>
  BY <1>1 DEF End
<1>3. Queue(t) /\ \A m \in ToSet(t) : m.kind = "done"
  BY <1>1, WrapUpDone, EmptyQueue DEF IInv, Shapes, Shaped
<1> QED BY <1>2, <1>3, ServerHolds

LEMMA OutputHolds ==
  ASSUME IInv, ShownInv, Holds, NEW run \in runs, NEW file \in Files, Output(run, file)
  PROVE  Holds'
<1> DEFINE those == {m \in run.matches : m.file = file}
           match == [search |-> run.search, file |-> file, number |-> Cardinality(those) + 1]
           matches == run.matches \union {match}
           full == Cardinality(matches) = MaxResults
           last == IF full THEN WrapUp(run) ELSE << >>
           result == Found(run, match)
<1>1. /\ runs' = (runs \ {run}) \union {[run EXCEPT !.matches = matches, !.ongoing = @ /\ ~full]}
      /\ down' = (down \o <<result>>) \o last
      /\ found' = IF run.ongoing /\ run.search = latest THEN found \union {match} ELSE found
      /\ Cardinality(those) + 1 <= MaxMatches
      /\ UNCHANGED <<latest, term, listening, tree, shown, icons, lastKnown, timers, late>>
  BY DEF Output, widget, service, history
<1>2. /\ run = [id |-> run.id, search |-> run.search, ongoing |-> run.ongoing, matches |-> run.matches]
      /\ run.search \in 1 .. latest /\ latest \in Nat /\ latest <= MaxSearches /\ Queue(down)
  BY DEF IInv, Shapes, Shaped, Queues, ShownInv, Values
<1>3. run.matches \subseteq Match /\ IsFiniteSet(run.matches)
  BY DEF Holds, Listed
<1>4. IsFiniteSet(those) /\ Cardinality(those) \in Nat
  BY <1>3, FS_Subset, FS_CardinalityType
<1>5. match \in Match
  <2>1. Cardinality(those) + 1 <= MaxMatches
    BY <1>1
  <2>2. run.search \in Searches
    BY <1>2, SearchAssumption DEF Searches
  <2>3. Cardinality(those) + 1 \in 1 .. MaxMatches
    <3> HIDE DEF those
    <3> QED BY <1>4, <2>1, SearchAssumption
  <2> QED BY <2>2, <2>3 DEF Match
<1>6. matches \subseteq Match /\ IsFiniteSet(matches)
  BY <1>3, <1>5, FS_AddElement
<1>7. result.match = match
  BY DEF Found
<1>8. Queue(last) /\ \A m \in ToSet(last) : m.kind = "done"
  BY <1>2, WrapUpDone, EmptyQueue
<1> HIDE DEF those, match, matches, full, last, result
<1>9. ToSet(down') = ToSet(down) \union {result} \union ToSet(last)
  BY <1>1, <1>2, <1>8, Singleton, Concatenated
<1>10. Results'
  <2>1. found' \in {found, found \union {match}}
    BY <1>1
  <2> QED BY <1>1, <1>5, <1>7, <1>8, <1>9, <2>1 DEF Holds, Results
<1>11. \A r \in runs' : r \in runs \/ r.matches = matches
  <2>1. PICK b \in BOOLEAN : b = (run.ongoing /\ ~full)
    OBVIOUS
  <2>2. [run EXCEPT !.matches = matches, !.ongoing = @ /\ ~full].matches = matches
    BY <1>2
  <2> QED BY <1>1, <2>2
<1>12. Listed'
  BY <1>6, <1>11 DEF Holds, Listed
<1> QED BY <1>1, <1>10, <1>12 DEF Holds, Tokens, Timely

LEMMA NextHolds == ASSUME IInv, ShownInv, Holds, [Next]_vars PROVE Holds'
<1>1. CASE UNCHANGED vars \/ Abandon
  BY <1>1 DEF vars, Abandon, widget, service, server, history, Holds, Tokens, Results, Listed, Timely
<1> QED BY <1>1, SearchHolds, SearchNothingHolds, SocketHolds, ReceiveHolds, ReceiveIconHolds, TimerHolds, ServeHolds,
           OutputHolds, EndHolds DEF Next

\* The proxy is connected only while a channel has its handler.
Handled == handler \in BOOLEAN /\ socket.open \in BOOLEAN /\ (socket.open => handler)

LEMMA NextHandled == ASSUME IInv, Handled, [Next]_vars PROVE Handled'
<1>1. CASE Connect
  <2>1. socket'.open = TRUE /\ handler' = handler /\ handler
    BY <1>1 DEF Connect
  <2> QED BY <2>1 DEF Handled
<1>2. CASE Abandon
  <2>1. socket' = socket /\ ~socket.open /\ handler' = FALSE
    BY <1>2 DEF Abandon
  <2> QED BY <2>1 DEF Handled
<1>3. CASE Close
  <2>1. ~socket'.open /\ handler' = handler
    BY <1>3 DEF Close
  <2>2. socket'.open \in BOOLEAN
    BY <1>3 DEF Close, Handled
  <2> QED BY <2>1, <2>2 DEF Handled
<1>4. CASE UNCHANGED <<socket, handler>>
  BY <1>4 DEF Handled
<1>5. Search \/ SearchNothing \/ Receive \/ Timer \/ Serve \/ UNCHANGED vars => UNCHANGED <<socket, handler>>
  BY DEF Search, SearchNothing, Receive, Timer, Serve, vars
<1>6. ASSUME NEW match \in icons, ReceiveIcon(match) PROVE UNCHANGED <<socket, handler>>
  BY <1>6 DEF ReceiveIcon
<1>7. ASSUME NEW run \in runs, End(run) PROVE UNCHANGED <<socket, handler>>
  BY <1>7 DEF End
<1>8. ASSUME NEW run \in runs, NEW file \in Files, Output(run, file) PROVE UNCHANGED <<socket, handler>>
  BY <1>8 DEF Output
<1> QED BY <1>1, <1>2, <1>3, <1>4, <1>5, <1>6, <1>7, <1>8 DEF Next

\* Ids are those that a server of this many searches gives, results are matches of the searches of this page,
\* and searches that are marked as cut off or ended have been started.
THEOREM TypeCorrect == Spec => []TypeOK
<1>1. Init => IInv /\ ShownInv /\ Holds /\ Handled
  BY InitInv, InitShown, InitHolds DEF Init, Handled
<1>2. IInv /\ ShownInv /\ Holds /\ Handled /\ [Next]_vars => IInv' /\ ShownInv' /\ Holds' /\ Handled'
  BY NextInv, NextShown, NextHolds, NextHandled
<1>3. IInv /\ ShownInv /\ Holds /\ Handled => TypeOK
  <2> SUFFICES ASSUME IInv, ShownInv, Holds, Handled PROVE TypeOK
    OBVIOUS
  <2>1. latest \in 0 .. MaxSearches /\ term \in BOOLEAN /\ listening \in Ids \union {None}
    BY DEF IInv, Shapes, ShownInv, Values, Holds, Tokens
  <2>2. /\ tree \in [Files -> SUBSET Match] /\ shown \in [Files -> SUBSET Match] /\ icons \subseteq Match
        /\ found \subseteq Match
    BY DEF Holds, Results
  <2>3. {message.id : message \in stashed} \subseteq Ids
    BY DEF IInv, Shapes, ShownInv, Values, Ending
  <2>4. pending \in [Ids -> 1 .. latest \union {None}] /\ lastKnown \in Ids \union {None}
    BY DEF ShownInv, Values, Holds, Tokens
  <2>5. /\ handler \in BOOLEAN /\ (socket.open => handler /\ calls = << >>)
        /\ ~socket.open => up = << >> /\ down = << >> /\ runs = {}
    BY DEF IInv, Queues, Handled
  <2>6. \A run \in runs : run.id < nextId /\ run.search \in 1 .. latest /\ run.matches \subseteq Match
    BY DEF IInv, Shapes, Shaped, Holds, Listed
  <2>7. ended \in 0 .. latest /\ lost \union late \subseteq 1 .. latest
    BY DEF ShownInv, Values, Holds, Timely
  <2> QED BY <2>1, <2>2, <2>3, <2>4, <2>5, <2>6, <2>7 DEF TypeOK
<1> QED BY <1>1, <1>2, <1>3, PTL DEF Spec
=============================================================================
