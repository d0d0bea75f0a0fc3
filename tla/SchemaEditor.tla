---------------------------- MODULE SchemaEditor ----------------------------
(***************************************************************************)
(* The drag-and-drop editor of an interface schema (UserInterface.tsx and  *)
(* components/DragAndDrop), in edit mode.                                  *)
(*                                                                         *)
(* A schema is a list of components; a container has a list of its own.    *)
(* The program names a list by its data path ("UI-Root", "1.components",   *)
(* "1.components.0.components"): here by the sequence of indexes, <<>> for *)
(* the root.  Paths and indexes are taken when a component is rendered or  *)
(* dropped, and resolved again in the schema of the moment.                *)
(*                                                                         *)
(* A new component is added when its settings are confirmed: until its     *)
(* module is loaded (ComponentRegistry.lookup) no dialog is shown, and the *)
(* user can still drag and delete.  The open dialog covers the page.       *)
(***************************************************************************)
EXTENDS Naturals, Sequences, FiniteSets, SequencesExt, MoveInList

CONSTANTS
  Containers,  \* components that hold a list of components
  Limited,     \* containers whose list is limited to one (componentLimit)
  Menu,        \* components the menu can add
  MenuIndex,   \* positions of menu entries in their category
  Initial,     \* the schema at the start
  Nameless,    \* the object lodash's set creates on a path that leads nowhere
  Hole,        \* what an array has below an index it is extended to
  None

Root == <<>>
Node(c) == [p \in {Root} |-> [id |-> c, size |-> 0]]

VARIABLES
  schema,       \* the list of root components
  placeholder,  \* per rendered list: where a drop would go, or None
  drag,         \* the dragged item as beginDrag has captured it, or None
  item,         \* itemToAdd or itemToEdit, or None
  dialog,       \* the settings: "closed", "loading" or "open"
  moved         \* history: a drop has moved components since the item was dropped

vars == <<schema, placeholder, drag, item, dialog, moved>>

-----------------------------------------------------------------------------
(* Trees and paths. *)

\* What is at a path, with paths of its own.
Sub(tree, path) ==
  [q \in {SubSeq(p, Len(path) + 1, Len(p)) : p \in {p \in DOMAIN tree : IsPrefix(path, p)}} |->
     tree[path \o q]]

\* getOr([], path, components): a path that leads nowhere is an empty list.
Size(tree, path) == IF path \in DOMAIN tree THEN tree[path].size ELSE 0
ListAt(tree, path) == [j \in 1 .. Size(tree, path) |-> Sub(tree, Append(path, j - 1))]

\* set(path, list, components): creates what is missing on the path, ...
Reach(tree, path) ==
  LET way == {SubSeq(path, 1, n) : n \in 0 .. Len(path) - 1}
      grown(p) == IF path[Len(p) + 1] < Size(tree, p) THEN Size(tree, p)
                  ELSE path[Len(p) + 1] + 1
      made == UNION {{Append(p, i) : i \in 0 .. grown(p) - 1} : p \in way}
  IN  IF path \in DOMAIN tree THEN tree
      ELSE [p \in DOMAIN tree \cup made |->
              [id   |-> IF p \in DOMAIN tree THEN tree[p].id
                        ELSE IF IsPrefix(p, path) THEN Nameless ELSE Hole,
               size |-> IF p \in way THEN grown(p) ELSE Size(tree, p)]]

\* ... and puts the list there.
Graft(tree, path, list) ==
  LET inner == UNION {{Append(path, j - 1) \o q : q \in DOMAIN list[j]} : j \in DOMAIN list}
      outer == {p \in DOMAIN tree : ~IsStrictPrefix(path, p)}
  IN  [p \in outer \cup inner |->
         IF p \in inner
         THEN list[p[Len(path) + 1] + 1][SubSeq(p, Len(path) + 2, Len(p))]
         ELSE [id |-> tree[p].id, size |-> IF p = path THEN Len(list) ELSE tree[p].size]]

SetAt(tree, path, list) == Graft(Reach(tree, path), path, list)

Ids(tree) == {tree[p].id : p \in DOMAIN tree}

\* The program's components.
Components == (Ids(Initial) \cup Menu) \ {None}

\* A path is in the tree exactly if every index on it is in its list.
IsTree(tree) ==
  /\ tree \in [DOMAIN tree -> [id : Components \cup {Nameless, Hole, None}, size : Nat]]
  /\ DOMAIN tree \subseteq Seq(Nat) /\ Root \in DOMAIN tree
  /\ \A p \in DOMAIN tree :
       /\ \A n \in 0 .. Len(p) - 1 :
            SubSeq(p, 1, n) \in DOMAIN tree /\ p[n + 1] < tree[SubSeq(p, 1, n)].size
       /\ p # Root => tree[p].id # None
       /\ \A i \in 0 .. tree[p].size - 1 : Append(p, i) \in DOMAIN tree

\* No component is in two places.
EachOnce(tree) ==
  \A p, q \in DOMAIN tree :
    tree[p].id = tree[q].id /\ tree[p].id \in Components => p = q

ASSUME EditorAssumption ==
  /\ IsTree(Initial) /\ EachOnce(Initial) /\ Initial[Root].id = None
  /\ IsFiniteSet(Components) /\ MenuIndex \subseteq Nat
  /\ None \notin Menu \cup Containers
  /\ {Nameless, Hole} \cap (Components \cup Containers) = {}
  /\ Nameless # None /\ Hole # None /\ Nameless # Hole

\* The paths of the lists that are rendered, each as one Droppable.
Rendered ==
  {p \in DOMAIN schema :
     \A n \in 1 .. Len(p) : schema[SubSeq(p, 1, n)].id \in Containers}

Init ==
  /\ schema = Initial
  /\ placeholder = [p \in Rendered |-> None]
  /\ drag = None /\ item = None /\ dialog = "closed"
  /\ moved = FALSE

\* A list keeps its placeholder as long as it is rendered at the same path.
Rerender(new, target) ==
  /\ schema' = new
  /\ placeholder' = [p \in Rendered' |->
                       IF p \in DOMAIN placeholder \ {target} THEN placeholder[p] ELSE None]

-----------------------------------------------------------------------------
(* Dragging. *)

Free == drag = None /\ dialog # "open"

\* dragHandlers.beginDrag: index and list of the item are those of its last
\* rendering, of a menu entry the index in its category and no list.
BeginDrag(p, i) ==
  /\ Free /\ i < Size(schema, p) /\ schema[Append(p, i)].id # Nameless
  /\ drag' = [list |-> p, index |-> i, new |-> None]
  /\ UNCHANGED <<schema, placeholder, item, dialog, moved>>

BeginMenuDrag(c, i) ==
  /\ Free /\ c \in Menu \ Ids(schema)
  /\ drag' = [list |-> None, index |-> i, new |-> c]
  /\ UNCHANGED <<schema, placeholder, item, dialog, moved>>

EndDrag ==
  /\ drag # None
  /\ drag' = None
  /\ UNCHANGED <<schema, placeholder, item, dialog, moved>>

AllowDrop(p) == Size(schema, p) = 0 \/ schema[p].id \notin Limited

\* droppableElement.children.length: a placeholder is drawn as the last child once
\* the list has rendered that the pointer is over it, in an empty list always.
ChildCount(p, over) ==
  LET n == Size(schema, p)
  IN  IF (placeholder[p] # None /\ over) \/ n = 0 THEN n + 1 ELSE n

\* Mutant: the drawn placeholder counts as a child.
LastSlotWithPlaceholder(p, over) == ChildCount(p, over)

LastSlot(p, over) ==
  IF placeholder[p] # None THEN ChildCount(p, over) - 1 ELSE ChildCount(p, over)

Hovering == drag # None /\ dialog # "open"
Show(p, index) ==
  /\ placeholder' = [placeholder EXCEPT ![p] = index]
  /\ UNCHANGED <<schema, drag, item, dialog, moved>>

\* Over a child, in its upper or lower half or on the line between them.
\* The early returns leave the placeholder as it is.
HoverChild(p, child, half) ==
  /\ Hovering /\ AllowDrop(p) /\ child < Size(schema, p)
  /\ LET hovered == IF half = "lower" THEN child + 1 ELSE child
     IN  IF drag.index = child /\ drag.list = p THEN Show(p, None)
         ELSE /\ ~(drag.index < hovered /\ half = "upper")
              /\ ~(drag.index > hovered /\ half = "lower")
              /\ ~(drag.index = hovered /\ drag.list = p)
              /\ Show(p, hovered)

\* Over no child, close to the top.
HoverTop(p) ==
  /\ Hovering /\ AllowDrop(p)
  /\ ~(drag.index = 0 /\ drag.list = p)
  /\ Show(p, IF Size(schema, p) = 0 THEN None ELSE 0)

\* Over no child, close to the bottom: below the child before the last slot, if
\* there is one.
HoverBottom(p) ==
  \E over \in BOOLEAN :
    LET slot == LastSlot(p, over)
    IN  /\ Hovering /\ AllowDrop(p)
        /\ ~(drag.list = p /\ (\/ drag.index = slot
                               \/ drag.index = slot - 1 /\ placeholder[p] = None))
        /\ Show(p, IF Size(schema, p) = 0 \/ slot = 0 THEN None ELSE slot)

\* Elsewhere in the list, or in a list that is full.
HoverNothing(p) == Hovering /\ Show(p, None)

Hover(p) ==
  \/ \E child \in 0 .. Size(schema, p) - 1, half \in {"upper", "middle", "lower"} :
       HoverChild(p, child, half)
  \/ HoverTop(p)
  \/ HoverBottom(p)
  \/ HoverNothing(p)

-----------------------------------------------------------------------------
(* Dropping: handleDropHelper.  Of two nested lists the inner one is         *)
(* changed first, since changing the outer one changes the inner one's path. *)

TakeThenPut(from, i, to, k, c) ==
  LET taken == SetAt(schema, from, Without(ListAt(schema, from), i))
  IN  SetAt(taken, to, Including(ListAt(taken, to), k, c))

PutThenTake(from, i, to, k, c) ==
  LET put == SetAt(schema, to, Including(ListAt(schema, to), k, c))
  IN  SetAt(put, from, Without(ListAt(put, from), i))

\* Mutant: the dragged component is always removed first.
RearrangedTakeFirst(from, i, to, k) ==
  LET c == Sub(schema, Append(from, i))
  IN  IF to = from THEN SetAt(schema, to, moveInList(ListAt(schema, to), i, k))
      ELSE TakeThenPut(from, i, to, k, c)

Rearranged(from, i, to, k) ==
  LET c == Sub(schema, Append(from, i))
  IN  IF to = from THEN SetAt(schema, to, moveInList(ListAt(schema, to), i, k))
      ELSE IF IsStrictPrefix(from, to) THEN PutThenTake(from, i, to, k, c)
      ELSE TakeThenPut(from, i, to, k, c)

\* dropHandlers.drop: without a placeholder the drop is at the end.
DropIndex(p) == IF placeholder[p] # None THEN placeholder[p] ELSE ChildCount(p, TRUE)

\* "You can't move a parent into a child, so we'll ignore those drops".
IntoItself(p) == IsPrefix(Append(drag.list, drag.index), p)

DropInside(p) ==
  /\ Hovering /\ drag.new = None /\ IntoItself(p)
  /\ Show(p, None)

DropMove(p) ==
  /\ Hovering /\ drag.new = None /\ ~IntoItself(p)
  /\ Rerender(Rearranged(drag.list, drag.index, p, DropIndex(p)), p)
  /\ drag' = None
  /\ moved' = (moved \/ dialog = "loading")
  /\ UNCHANGED <<item, dialog>>

\* A menu entry becomes the item to add; its module may have to be loaded.
DropNew(p) ==
  /\ Hovering /\ drag.new # None
  /\ item' = [op |-> "add", path |-> p, index |-> DropIndex(p),
              node |-> Node(drag.new), list |-> schema[p].id]
  /\ dialog' \in {"loading", "open"}
  /\ placeholder' = [placeholder EXCEPT ![p] = None]
  /\ drag' = None /\ moved' = FALSE
  /\ UNCHANGED schema

-----------------------------------------------------------------------------
(* Deleting, editing, and the settings dialog. *)

\* Mutant: the item to add is kept.
DeleteKeepsItem(p, i) ==
  /\ Free /\ i < Size(schema, p) /\ schema[Append(p, i)].id # Nameless
  /\ Rerender(SetAt(schema, p, Without(ListAt(schema, p), i)), None)
  /\ UNCHANGED <<item, dialog, drag, moved>>

onDelete(p, i) ==
  /\ Free /\ i < Size(schema, p) /\ schema[Append(p, i)].id # Nameless
  /\ Rerender(SetAt(schema, p, Without(ListAt(schema, p), i)), None)
  /\ item' = None /\ dialog' = "closed" /\ moved' = FALSE
  /\ UNCHANGED drag

\* The module of a component that is rendered is loaded.
onEdit(p, i) ==
  /\ Free /\ i < Size(schema, p) /\ schema[Append(p, i)].id # Nameless
  /\ item' = [op |-> "edit", path |-> p, index |-> i,
              node |-> Sub(schema, Append(p, i)), list |-> schema[p].id]
  /\ dialog' = "open" /\ moved' = FALSE
  /\ UNCHANGED <<schema, placeholder, drag>>

Loaded ==
  /\ dialog = "loading"
  /\ dialog' = "open"
  /\ UNCHANGED <<schema, placeholder, drag, item, moved>>

Cancel ==
  /\ dialog = "open" /\ drag = None
  /\ item' = None /\ dialog' = "closed" /\ moved' = FALSE
  /\ UNCHANGED <<schema, placeholder, drag>>

\* getUpdatedComponents.
Updated(it) ==
  LET list == ListAt(schema, it.path)
      rest == IF it.op = "add" THEN it.index ELSE it.index + 1
  IN  SetAt(schema, it.path,
            Slice(list, 0, it.index) \o <<it.node>> \o Slice(list, rest, Len(list)))

Confirm ==
  /\ dialog = "open" /\ drag = None
  /\ Rerender(Updated(item), None)
  /\ item' = None /\ dialog' = "closed" /\ moved' = FALSE
  /\ UNCHANGED drag

-----------------------------------------------------------------------------
\* What the editor does with a hole is left out.  Its list is rendered without it
\* (map skips it) until a change of the list has copied it; then rendering throws,
\* and UserInterface shows an error for good.
Rendering == Hole \notin Ids(schema)

EditorStep ==
  \/ \E p \in Rendered :
       \/ \E i \in 0 .. Size(schema, p) - 1 :
            BeginDrag(p, i) \/ onDelete(p, i) \/ onEdit(p, i)
       \/ Hover(p)
       \/ DropInside(p) \/ DropMove(p) \/ DropNew(p)
  \/ \E c \in Menu, i \in MenuIndex : BeginMenuDrag(c, i)
  \/ EndDrag
  \/ Loaded \/ Cancel \/ Confirm

Next == Rendering /\ EditorStep

Spec == Init /\ [][Next]_vars

-----------------------------------------------------------------------------
(* Properties. *)

\* The schema is a tree in which every component has one place, the lists that are
\* rendered are those with a placeholder, and what is dragged or edited is one of the
\* program's components (UserInterface.tsx:22-30, Droppable.tsx:36).
TypeOK ==
  /\ IsTree(schema) /\ schema[Root].id = None /\ EachOnce(schema)
  /\ placeholder \in [Rendered -> (0 .. Cardinality(Components)) \cup {None}]
  /\ drag # None => /\ drag.list \in Rendered \cup {None} /\ drag.index \in Nat
                    /\ drag.new \in Menu \cup {None}
  /\ dialog \in {"closed", "loading", "open"}
  /\ dialog = "closed" => item = None
  /\ dialog # "closed" => item.op \in {"add", "edit"} /\ item.node[Root].id \in Components
  /\ moved \in BOOLEAN

\* Every list of a tree, with its owner.
Names(tree, p) == [i \in 1 .. tree[p].size |-> tree[Append(p, i - 1)].id]
Shape(tree) == {[owner |-> tree[p].id, ids |-> Names(tree, p)] : p \in DOMAIN tree}

\* What every component's list holds apart from c.
Apart(ids, c) ==
  IF c \in Range(ids) THEN Without(ids, (CHOOSE i \in DOMAIN ids : ids[i] = c) - 1)
  ELSE ids
Others(tree, c) == {[owner |-> s.owner, ids |-> Apart(s.ids, c)] : s \in Shape(tree)}

\* c is in the list of the owner, at the index or, beyond its end, the last.
At(tree, owner, index, c) ==
  \E s \in Shape(tree) :
    /\ s.owner = owner /\ s.ids # <<>>
    /\ s.ids[IF index < Len(s.ids) THEN index + 1 ELSE Len(s.ids)] = c

\* A drop moves the dragged component, with all it contains, into the list it was
\* dropped in, at the index of the placeholder or at the end; every other
\* component stays in its list and its order, although each of the two changes
\* may shift the path the other one is made at (UserInterface.tsx:32-46,
\* handleDropHelper.ts:24-180).
DropMovesOne ==
  [][drag # None /\ drag' = None =>
       \A p \in Rendered : DropMove(p) =>
         LET c == schema[Append(drag.list, drag.index)].id
         IN  /\ Others(schema', c) = Others(schema, c)
             /\ At(schema', schema[p].id, DropIndex(p), c)]_vars

\* Saving the settings adds the new component to the container it was dropped in,
\* or replaces the component that was edited, and changes nothing else, although
\* the place is a path and an index of an earlier schema: unless a drop has
\* moved components while the new one's module was loading
\* (PersistedSettingsModal.tsx:31-45, 66-85).
SavesInPlace ==
  [][~moved /\ item # None /\ item' = None /\ Confirm =>
       LET c == item.node[Root].id
       IN  /\ Others(schema', c) = Others(schema, c) \cup
                (IF item.op = "add" THEN {[owner |-> c, ids |-> <<>>]} ELSE {})
           /\ At(schema', item.list, item.index, c)]_vars
=============================================================================
