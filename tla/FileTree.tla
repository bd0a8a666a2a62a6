------------------------------ MODULE FileTree ------------------------------
(***************************************************************************)
(* The file navigator: a tree of node objects over a file system that      *)
(* changes under it (core/browser/tree, filesystem/browser/file-tree).     *)
(*                                                                         *)
(* A node is an object that lives as long as something refers to it, and   *)
(* the tree finds it again by its id, the path: a refresh asks the backend *)
(* for the children of one object and puts them in when the answer comes,  *)
(* whatever has happened to the tree and to that object since.             *)
(***************************************************************************)
EXTENDS Naturals, FiniteSets, Sequences, SequencesExt, Bags

CONSTANTS
    Order,        \* the paths, in the order of the rows when all is expanded: <<the root, ...>>
    ParentOf,     \* the directory of every path but the root's
    Dirs,         \* the paths that are directories
    Layouts,      \* the trees that may have been stored: their paths, and those that are expanded
    MaxObjects,   \* how many nodes are made for a path
    MaxChanges,   \* how often the file system changes
    MaxInputs     \* how often it changes or the user clicks, presses a key or changes the editor

Paths == {Order[i] : i \in DOMAIN Order}
Top == Order[1]
Position(p) == CHOOSE i \in DOMAIN Order : Order[i] = p

ClosedSets == {S \in SUBSET Paths : Top \in S /\ \A p \in S \ {Top} : ParentOf[p] \in S}

ASSUME TreeAssumption ==
    /\ Order \in Seq(Paths) /\ IsInjective(Order) /\ Order # << >>
    /\ DOMAIN ParentOf = Paths \ {Top}
    /\ \A p \in DOMAIN ParentOf : ParentOf[p] \in Dirs /\ Position(ParentOf[p]) < Position(p)
    /\ \A p, q \in DOMAIN ParentOf :
        Position(ParentOf[p]) < Position(q) /\ Position(q) < Position(p)
            => Position(ParentOf[p]) <= Position(ParentOf[q])
    /\ Dirs \subseteq Paths
    /\ \A layout \in Layouts : layout.paths \in ClosedSets /\ layout.expanded \subseteq Dirs
    /\ {MaxObjects, MaxChanges, MaxInputs} \subseteq Nat

\* A node is an object: the gen-th one that was made for its path.
Node == [path : Paths, gen : 1 .. MaxObjects]
NoNode == [path |-> Top, gen |-> 0]

VARIABLES
    files,     \* the paths that exist
    changes,   \* what the watcher has noticed and the frontend has not been told
    tree,      \* TreeImpl with the fields of its nodes
    selection, \* the stack of TreeSelectionState, and the nodes with the flag selected
    asked,     \* bag of the refreshes whose getFileStat has not been executed
    answers,   \* bag of those whose getFileStat has been, with what it has seen
    inputs,    \* how much has been put in: changes of files, roots set, the user's inputs
    strayed,   \* history: paths that a refresh of an object outside of the tree has put in nodes
    newest,    \* history: the newest version of its directory that each node has got, or would have
               \* got if the change had not been lost because its path was among those
    outdated   \* history: nodes that show an older version than that

vars == <<files, changes, tree, selection, asked, answers, inputs, strayed, newest, outdated>>

----------------------------------------------------------------------------
(* The tree, as operators on a value t of the variable tree.               *)

\* What an iteration visits that begins at n and goes on to the children of each node.
Visited(children, n) ==
    LET below[m \in Node] == {m} \union UNION {below[c] : c \in children[m]} IN below[n]

Subtree(t, n) == Visited(t.children, n)

\* The children of a node that is not collapsed.
ShownChildren(t) == [n \in Node |-> IF n \in t.expanded THEN t.children[n] ELSE {}]

\* Rows of the widget: what a depth-first iteration that prunes collapsed nodes visits.
Visible(t) == IF t.root = NoNode THEN {} ELSE Visited(ShownChildren(t), t.root)

InTree(t) == IF t.root = NoNode THEN {} ELSE Subtree(t, t.root)

Validate(t, n) == IF n \in Node THEN t.nodes[n.path] ELSE NoNode

\* Nodes of different paths, in the order of the tree: the i-th has i - 1 before it.
Sorted(nodes) ==
    LET before(n) == {m \in nodes : Position(m.path) < Position(n.path)}
    IN [i \in 1 .. Cardinality(nodes) |-> CHOOSE n \in nodes : Cardinality(before(n)) = i - 1]

\* removeNode of one subtree, then addNode of another.
Replace(t, removed, added) ==
    [p \in Paths |->
        IF \E n \in added : n.path = p THEN CHOOSE n \in added : n.path = p
        ELSE IF \E n \in removed : n.path = p THEN NoNode
        ELSE t.nodes[p]]

\* Wrong: the children of the root are not added.
SetRootAlone(t, n) ==
    [t EXCEPT !.root = n, !.nodes = Replace([t EXCEPT !.nodes = [p \in Paths |-> NoNode]], {}, {n})]

SetRoot(t, n) ==
    [t EXCEPT !.root = n,
              !.nodes = Replace([t EXCEPT !.nodes = [p \in Paths |-> NoNode]], {}, Subtree(t, n))]

\* The next object of a path.
Fresh(t, p) == [path |-> p, gen |-> t.created[p] + 1]

\* resolveChildren and setChildren: nodes that the tree has by their path are used again.
SetChildren(t, n, paths) ==
    LET new == {p \in paths : t.nodes[p] = NoNode}
        kids == {IF p \in new THEN Fresh(t, p) ELSE t.nodes[p] : p \in paths}
        u == [t EXCEPT !.children[n] = kids,
                       !.parent = [m \in Node |-> IF m \in kids /\ m.path \in new THEN n ELSE @[m]],
                       !.created = [p \in Paths |-> IF p \in new THEN @[p] + 1 ELSE @[p]]]
    IN [u EXCEPT !.nodes = Replace(t, Subtree(t, n), Subtree(u, n))]

Request(n, kind, target, captured) ==
    [node |-> n, kind |-> kind, target |-> target, captured |-> captured]

\* Tree.refresh of a node: its object is the one the tree has for the path.
Refresh(t, n) ==
    {Request(m, "refresh", Top, {}) : m \in {Validate(t, n)} \ {NoNode}}

Expand(t, n) == [t EXCEPT !.expanded = @ \union {n}]

\* isAncestor follows the parents of the child and compares ids.
IsAncestor(t, n, child) ==
    LET above[m \in Node] ==
            /\ t.parent[m] # NoNode
            /\ t.parent[m].path = n.path \/ above[t.parent[m]]
    IN above[child]

----------------------------------------------------------------------------
(* The selection.                                                          *)

\* The rows from the first of two ends to the other, or to the last row when the other is not shown.
Stretch(rows, ends) ==
    SelectSeq(rows, LAMBDA r :
        /\ \E first \in ends \intersect ToSet(rows) : Position(first.path) <= Position(r.path)
        /\ \/ \E last \in ends \intersect ToSet(rows) : Position(r.path) <= Position(last.path)
           \/ Cardinality(ends \intersect ToSet(rows)) < 2)

\* selectionRange: the stretch in the direction from the focus; an end that is not shown comes first.
Directed(range, from, to) ==
    IF Contains(range, from) /\ (Contains(range, to) => Position(to.path) < Position(from.path))
    THEN Reverse(range) ELSE range

DirectedStretch(rows, from, to) ==
    IF NoNode \in {from, to} THEN << >> ELSE Directed(Stretch(rows, {from, to}), from, to)

RangeOf(t, s) ==
    CASE s.focus = NoNode -> << >>
      [] s.focus = s.node -> <<s.node>>
      [] OTHER -> DirectedStretch(Sorted(Visible(t)), Validate(t, s.focus), Validate(t, s.node))

\* selection(): the entries of the stack are applied one after the other, the last ones first.
Selected(t, stack) ==
    LET apply(nodes, s) ==
            IF s.type = "range"
            THEN nodes \o SelectSeq(RangeOf(t, s), LAMBDA n : ~Contains(nodes, n))
            ELSE IF Contains(nodes, s.node) THEN SelectSeq(nodes, LAMBDA n : n # s.node)
                 ELSE Append(nodes, s.node)
    IN Reverse(FoldLeft(apply, << >>, stack))

Focus(stack) == IF stack = << >> THEN NoNode ELSE Last(stack).focus
Entry(n, type, focus) == [node |-> n, type |-> type, focus |-> focus]

HandleToggle(t, stack, n) ==
    LET inRange == \E i \in DOMAIN stack : stack[i].type = "range" /\ Contains(RangeOf(t, stack[i]), n)
    IN Append(stack, Entry(n, "toggle", IF inRange THEN Focus(stack) ELSE n))

\* A range that follows a range replaces it, and the toggles inside of it.
ReplaceRange(stack, n, range) ==
    LET dropped == SelectSeq(Front(stack), LAMBDA s : Contains(range, s.node))
        focus == IF dropped = << >> THEN Focus(stack) ELSE Head(dropped).focus
    IN Append(SelectSeq(Front(stack), LAMBDA s : ~Contains(range, s.node)), Entry(n, "range", focus))

HandleRange(t, stack, n) ==
    IF stack # << >> /\ Last(stack).type = "range"
    THEN ReplaceRange(stack, n, RangeOf(t, Last(stack)))
    ELSE Append(stack, Entry(n, "range", Focus(stack)))

NextStack(t, stack, n, type) ==
    CASE type = "default" -> <<Entry(n, "toggle", n)>>
      [] type = "toggle" -> HandleToggle(t, stack, n)
      [] type = "range" -> HandleRange(t, stack, n)

\* TreeSelectionServiceImpl.transiteTo: flags change where the selections differ.
Flag(s, stack, old, new) ==
    [stack |-> stack, flagged |-> (s.flagged \ (old \ new)) \union (new \ old)]

TransiteTo(t, s, stack) == Flag(s, stack, ToSet(Selected(t, s.stack)), ToSet(Selected(t, stack)))

\* TreeSelectionServiceImpl.addSelection
AddSelection(t, s, n, type) ==
    IF Validate(t, n) = NoNode THEN s ELSE TransiteTo(t, s, NextStack(t, s.stack, n, type))

\* The model's listener of onExpansionChanged: a collapsed node takes over a selection below it.
ExpansionChanged(t, s, n) ==
    IF n \notin t.expanded /\ \E m \in ToSet(Selected(t, s.stack)) : IsAncestor(t, n, m)
    THEN AddSelection(t, s, n, "default") ELSE s

----------------------------------------------------------------------------
(* The iterators behind the arrow keys.                                    *)

Row(t, n) == IF n \in t.expanded THEN Sorted(t.children[n]) ELSE << >>

\* The index of a node among the children of its parent object, by id; 0 is JavaScript's -1.
IndexOf(t, n) ==
    LET row == Sorted(t.children[t.parent[n]])
    IN IF \E i \in DOMAIN row : row[i].path = n.path
       THEN CHOOSE i \in DOMAIN row : row[i].path = n.path ELSE 0

Sibling(t, n, by) ==
    IF t.parent[n] = NoNode THEN NoNode
    ELSE LET row == Sorted(t.children[t.parent[n]])
             i == IF by = "next" THEN IndexOf(t, n) + 1 ELSE IndexOf(t, n) - 1
         IN IF i \in DOMAIN row THEN row[i] ELSE NoNode

\* TopDownTreeIterator.doNext
NextNode(t, n) ==
    LET nextSibling[m \in Node] ==
            IF Sibling(t, m, "next") = NoNode /\ t.parent[m] # NoNode
            THEN nextSibling[t.parent[m]] ELSE Sibling(t, m, "next")
    IN IF Row(t, n) # << >> THEN Head(Row(t, n)) ELSE nextSibling[n]

\* Wrong: the row above is the previous sibling, also when that one is expanded.
PrevNodeShallow(t, n) == IF Sibling(t, n, "prev") # NoNode THEN Sibling(t, n, "prev") ELSE t.parent[n]

\* BottomUpTreeIterator.doNext
PrevNode(t, n) ==
    LET deepest[m \in Node] == IF Row(t, m) = << >> THEN m ELSE deepest[Last(Row(t, m))]
    IN IF Sibling(t, n, "prev") # NoNode THEN deepest[Sibling(t, n, "prev")] ELSE t.parent[n]

----------------------------------------------------------------------------
(* The navigator.                                                          *)

Init ==
    /\ files = Paths
    /\ changes = << >>
    /\ tree = [root |-> NoNode, nodes |-> [p \in Paths |-> NoNode],
               children |-> [n \in Node |-> {}], parent |-> [n \in Node |-> NoNode],
               expanded |-> {}, created |-> [p \in Paths |-> 0]]
    /\ selection = [stack |-> << >>, flagged |-> {}]
    /\ asked = EmptyBag
    /\ answers = EmptyBag
    /\ inputs = [changes |-> 0, roots |-> {}, user |-> 0]
    /\ strayed = {}
    /\ newest = [n \in Node |-> 0]
    /\ outdated = {}

\* The history counts the states of the files from 1.
Version == inputs.changes + 1

Below(p) == LET below[q \in Paths] == q = p \/ (q # Top /\ below[ParentOf[q]])
            IN {q \in Paths : below[q]}

\* A file or an empty directory is created, or something is deleted with all below it.
ChangeFiles ==
    /\ inputs.changes < MaxChanges /\ inputs.changes + inputs.user < MaxInputs
    /\ \E p \in Paths \ {Top} :
        \/ p \notin files /\ ParentOf[p] \in files /\ files' = files \union {p}
        \/ p \in files /\ files' = files \ Below(p)
    /\ changes' = Append(changes, (files' \ files) \union (files \ files'))
    /\ inputs' = [inputs EXCEPT !.changes = @ + 1]
    /\ UNCHANGED <<tree, selection, asked, answers, strayed, newest, outdated>>

\* Wrong: the nodes that have changed are refreshed, and not their parents.
FilesChangedThemselves ==
    \E k \in 1 .. Len(changes) :
        LET affected == {tree.nodes[p] : p \in UNION {changes[i] : i \in 1 .. k}} \intersect tree.expanded
        IN /\ changes' = SubSeq(changes, k + 1, Len(changes))
           /\ asked' = asked (+) SetToBag(UNION {Refresh(tree, n) : n \in affected})
           /\ UNCHANGED <<files, tree, selection, answers, inputs, strayed, newest, outdated>>

\* FileTreeModel.onFilesChanged of a batch: refresh the expanded parents of what has changed.
FilesChanged ==
    \E k \in 1 .. Len(changes) :
        LET batch == UNION {changes[i] : i \in 1 .. k}
            affected == {tree.nodes[ParentOf[p]] : p \in batch} \intersect tree.expanded
            lost == {ParentOf[p] : p \in batch} \intersect strayed
            deaf == {n \in InTree(tree) : n.path \in lost}
        IN /\ changes' = SubSeq(changes, k + 1, Len(changes))
           /\ asked' = asked (+) SetToBag(UNION {Refresh(tree, n) : n \in affected})
           /\ newest' = [n \in Node |-> IF n \in deaf THEN Version ELSE newest[n]]
           /\ outdated' = outdated \union deaf
           /\ UNCHANGED <<files, tree, selection, answers, inputs, strayed>>

PutRoot(t, n, way) ==
    /\ tree' = SetRoot(t, n)
    /\ asked' = asked (+) SetToBag(Refresh(SetRoot(t, n), n))
    /\ inputs' = [inputs EXCEPT !.roots = @ \union {way}]
    /\ strayed' = {}
    /\ UNCHANGED <<files, changes, selection, answers, newest, outdated>>

\* The bound of the objects.
Room(paths) == \A p \in paths : tree.created[p] < MaxObjects

\* FileNavigatorWidget.initialize: the workspace service knows the root.
Initialize ==
    /\ "service" \notin inputs.roots /\ Room({Top})
    /\ LET n == Fresh(tree, Top)
       IN PutRoot([tree EXCEPT !.expanded = @ \union {n}, !.created[Top] = @ + 1], n, "service")

\* TreeWidget.restoreState: a tree that was stored when the window was closed, with its expansion.
RestoreState ==
    /\ "layout" \notin inputs.roots
    /\ \E layout \in Layouts : Room(layout.paths) /\
        LET stored == {Fresh(tree, p) : p \in layout.paths}
            kids(n) == {m \in stored : m.path # Top /\ ParentOf[m.path] = n.path}
        IN PutRoot([tree EXCEPT
                        !.children = [n \in Node |-> IF n \in stored THEN kids(n) ELSE @[n]],
                        !.parent = [m \in Node |-> IF m \in stored /\ m.path # Top
                                                   THEN Fresh(tree, ParentOf[m.path]) ELSE @[m]],
                        !.expanded = @ \union {n \in stored : n.path \in layout.expanded},
                        !.created = [p \in Paths |-> IF p \in layout.paths THEN @[p] + 1 ELSE @[p]]],
                      Fresh(tree, Top), "layout")

\* The backend executes getFileStat: readdir, and a stat of every child that is still there, taken as
\* one look at the directory.  They start in order, but end in any.
GetFileStat ==
    \E request \in BagToSet(asked) :
        LET seen == {q \in files \ {Top} : ParentOf[q] = request.node.path}
            answer == [request |-> request, seen |-> seen, version |-> Version]
        IN /\ answers' = answers (+) SetToBag({answer})
           /\ asked' = asked (-) SetToBag({request})
           /\ UNCHANGED <<files, changes, tree, selection, inputs, strayed, newest, outdated>>

\* A path and the directories that it is in.
Chain(p) == {q \in Paths : p \in Below(q)}

\* What a step of the frontend leaves behind: the tree, the selection and its calls of the backend.
Result(t, s, asks) == [tree |-> t, selection |-> s, asks |-> asks]

Become(result) ==
    /\ tree' = result.tree
    /\ selection' = result.selection
    /\ asked' = asked (+) SetToBag(result.asks)

\* FileNavigatorModel.revealFile through the paths ahead, the target's and those of directories above
\* it: it goes on until it has to wait for an expansion, or finds no node; in the end the caller
\* selects the target's node.  captured are the nodes that were found when it began.
Reveal(t, s, ahead, target, captured) ==
    LET node(p) == IF \E n \in captured : n.path = p THEN CHOOSE n \in captured : n.path = p
                   ELSE t.nodes[p]
        missing(p) == node(p) = NoNode
        closed(p) == /\ p \in Dirs /\ node(p) \notin t.expanded
                     /\ Validate(t, node(p)) \notin t.expanded \union {NoNode}
        stops == {p \in ahead : missing(p) \/ closed(p)}
        first == CHOOSE p \in stops : \A q \in stops : Position(p) <= Position(q)
        n == Validate(t, node(first))
    IN CASE stops = {} -> Result(t, AddSelection(t, s, node(target), "default"), {})
         [] stops # {} /\ missing(first) -> Result(t, s, {})
         [] OTHER -> Result(Expand(t, n), s, {Request(n, "reveal", target, captured)})

\* Whoever has waited for the refresh goes on, after the calls asks: revealFile to the next directory.
GoOn(t, s, request, asks) ==
    IF request.kind # "reveal" THEN Result(t, s, asks)
    ELSE LET ahead == Chain(request.target) \ Chain(request.node.path)
             result == Reveal(t, s, ahead, request.target, request.captured)
         IN [result EXCEPT !.asks = @ \union asks]

\* The listeners of onNodeRefreshed refresh the expanded children of n in turn; doExpandNode fires
\* onExpansionChanged, on which the navigator expands an only child.
Refreshed(t, n, kids, request) ==
    LET expands == request.kind # "refresh"
        only == IF expands /\ n \in t.expanded /\ Cardinality(kids) = 1
                THEN {c \in kids : c.path \in Dirs} \ t.expanded ELSE {}
    IN GoOn([t EXCEPT !.expanded = @ \union only],
            IF expands THEN ExpansionChanged(t, selection, n) ELSE selection,
            request,
            {Request(c, "refresh", Top, {}) : c \in kids \intersect t.expanded}
                \union {Request(c, "expand", Top, {}) : c \in only})

\* The history: which objects a refresh of n that ends in the tree t has put in, and how old they are.
Note(t, n, version) ==
    LET touched == {m.path : m \in Subtree(tree, n) \union Subtree(t, n)}
    IN /\ strayed' = IF n \in InTree(tree) THEN strayed \ touched ELSE strayed \union touched
       /\ newest' = [newest EXCEPT ![n] = Max({@, version})]
       /\ outdated' = IF version < newest[n] THEN outdated \union {n} ELSE outdated \ {n}

Put(t, a) ==
    /\ Become(Refreshed(t, a.request.node, t.children[a.request.node], a.request))
    /\ Note(t, a.request.node, a.version)

\* setChildren, and all that goes on from there.
Receive(a) ==
    /\ Room({p \in a.seen : tree.nodes[p] = NoNode})
    /\ Put(SetChildren(tree, a.request.node, a.seen), a)
    /\ answers' = answers (-) SetToBag({a})
    /\ UNCHANGED <<files, changes, inputs>>

----------------------------------------------------------------------------
(* The user.                                                               *)

UserInput ==
    /\ inputs.changes + inputs.user < MaxInputs /\ Cardinality(inputs.roots) = 2
    /\ inputs' = [inputs EXCEPT !.user = @ + 1]
    /\ UNCHANGED <<files, changes, answers, strayed, newest, outdated>>

\* expandNode and collapseNode of the node the tree has for n's path, with a selection s before it.
ToggleExpansion(s, n, expand) ==
    LET m == Validate(tree, n)
    IN \/ /\ expand /\ m # NoNode /\ m \notin tree.expanded
          /\ tree' = Expand(tree, m)
          /\ asked' = asked (+) SetToBag({Request(m, "expand", Top, {})})
          /\ selection' = s
       \/ /\ ~expand /\ m \in tree.expanded
          /\ tree' = [tree EXCEPT !.expanded = @ \ {m}]
          /\ selection' = ExpansionChanged(tree', s, m)
          /\ asked' = asked
       \/ /\ m = NoNode \/ (expand <=> m \in tree.expanded)
          /\ selection' = s
          /\ UNCHANGED <<tree, asked>>

\* handleClickEvent without keys: select, and toggle the expansion of a directory.
Click(n) ==
    /\ UserInput
    /\ LET s == AddSelection(tree, selection, n, "default")
       IN IF n.path \in Dirs THEN ToggleExpansion(s, n, n \notin tree.expanded)
          ELSE selection' = s /\ UNCHANGED <<tree, asked>>

Select(n, type) ==
    /\ UserInput
    /\ selection' = AddSelection(tree, selection, n, type)
    /\ UNCHANGED <<tree, asked>>

CtrlClick(n) == Select(n, "toggle")
ShiftClick(n) == Select(n, "range")

\* The node that was selected last.
Lead ==
    LET nodes == Selected(tree, selection.stack)
    IN IF nodes = << >> THEN NoNode ELSE Head(nodes)

\* handleUp and handleDown, perhaps with the shift key.
Arrow(target) == target # NoNode /\ \E type \in {"default", "range"} : Select(target, type)

Up == Lead # NoNode /\ Arrow(PrevNode(tree, Lead))
Down == Lead # NoNode /\ Arrow(NextNode(tree, Lead))

\* handleLeft and handleRight: collapse or expand the first directory that is selected; when there is
\* nothing to do, select the parent or the next node.
Able(dirs, expand) ==
    /\ dirs # << >>
    /\ Validate(tree, Head(dirs)) # NoNode
    /\ expand <=> Validate(tree, Head(dirs)) \notin tree.expanded

GoSideways(nodes, dirs, expand) ==
    /\ UserInput
    /\ nodes # << >>
    /\ \/ Able(dirs, expand) /\ ToggleExpansion(selection, Head(dirs), expand)
       \/ /\ ~Able(dirs, expand)
          /\ LET n == IF expand THEN NextNode(tree, Head(nodes)) ELSE tree.parent[Head(nodes)]
             IN /\ n # NoNode /\ (expand \/ Len(nodes) = 1)
                /\ selection' = AddSelection(tree, selection, n, "default")
          /\ UNCHANGED <<tree, asked>>

Sideways(expand) ==
    LET nodes == Selected(tree, selection.stack)
    IN GoSideways(nodes, SelectSeq(nodes, LAMBDA n : n.path \in Dirs), expand)

Left == Sideways(FALSE)
Right == Sideways(TRUE)

\* The current editor changes, with navigator.autoReveal: revealFile of its file.
RevealFile ==
    /\ UserInput
    /\ tree.root # NoNode
    /\ \E p \in Paths \ Dirs :
        LET known == {tree.nodes[q] : q \in Chain(p)} \ {NoNode}
        IN /\ tree.nodes[Top] = tree.root
           /\ Become(Reveal(tree, selection, Chain(p), p, known))

Next ==
    \/ ChangeFiles \/ FilesChanged \/ Initialize \/ RestoreState \/ GetFileStat
    \/ \E a \in BagToSet(answers) : Receive(a)
    \/ \E n \in Visible(tree) : Click(n) \/ CtrlClick(n) \/ ShiftClick(n)
    \/ Up \/ Down \/ Left \/ Right \/ RevealFile

Spec == Init /\ [][Next]_vars

----------------------------------------------------------------------------
(* Properties.                                                             *)

\* Only directories are expanded, the map holds nodes under their own paths, and what is selected are
\* nodes: the calls of the widget, the navigator and the refreshes hand each other objects of any age.
TypeOK ==
    /\ files \in ClosedSets
    /\ changes \in Seq(SUBSET Paths)
    /\ tree.root \in Node \union {NoNode}
    /\ tree.nodes \in [Paths -> Node \union {NoNode}]
    /\ tree.children \in [Node -> SUBSET Node]
    /\ tree.parent \in [Node -> Node \union {NoNode}]
    /\ tree.expanded \subseteq {n \in Node : n.path \in Dirs}
    /\ \A p \in Paths : tree.nodes[p].path = p \/ tree.nodes[p] = NoNode
    /\ \A s \in ToSet(selection.stack) : s.node \in Node /\ s.focus \in Node \union {NoNode}
    /\ selection.flagged \subseteq Node

\* A node of the tree is the one the tree finds by its path, so that it can be expanded, refreshed
\* and selected; except where the refresh of an object that is no longer in the tree (its directory
\* was deleted, or another root was set while it was under way) has put that object in.
MapHasTree ==
    \A n \in InTree(tree) : tree.nodes[n.path] = n \/ n.path \in strayed

\* When nothing is under way, what the navigator shows of an expanded directory is what is there;
\* except where two answers have overtaken each other, or the node has lost its place in the map.
QuietTreeIsCurrent ==
    (asked = EmptyBag /\ answers = EmptyBag /\ changes = << >>) =>
        \A n \in Visible(tree) \intersect tree.expanded :
            \/ {c.path : c \in tree.children[n]} = {p \in files \ {Top} : ParentOf[p] = n.path}
            \/ n \in outdated

\* A reused node keeps its old parent, which then is not the object that has it as a child.
ParentsAgree ==
    \A n \in InTree(tree) : \A c \in tree.children[n] : tree.parent[c] = n

\* The arrow keys go through the rows in the order in which they are shown, and back.
ArrowsFollowRows ==
    ParentsAgree =>
        LET rows == Sorted(Visible(tree))
        IN \A i \in DOMAIN rows :
            /\ NextNode(tree, rows[i]) = IF i < Len(rows) THEN rows[i + 1] ELSE NoNode
            /\ PrevNode(tree, rows[i]) = IF i > 1 THEN rows[i - 1] ELSE NoNode

\* "`true` if the tree node is selected. Otherwise, `false`.": what is highlighted is what commands get.
SelectedFlag ==
    \A n \in Visible(tree) : n \in selection.flagged <=> Contains(Selected(tree, selection.stack), n)
=============================================================================
