----------------------------- MODULE LibraryView -----------------------------
(***************************************************************************)
(* A library view on the screen (apps/web library-view.tsx, selection.ts,  *)
(* layout.ts, document-item.tsx, document-menu.tsx): where the documents   *)
(* are drawn, which are selected, and what an action is begun on, while    *)
(* the list, its layout and the selection change under open menus,         *)
(* dialogs, drags and selection boxes.                                     *)
(***************************************************************************)
EXTENDS Integers, Sequences, FiniteSetsExt, SequencesExt

CONSTANTS Docs,
          Deletable,   \* those the user may delete, edit and restore
          Orders,      \* what the view may list, and in which order
          Layouts,     \* [mode : {"grid", "list"}, width : Nat]
          Xs, Ys,      \* where the pointer may be, from the first item's corner
          PerPage,     \* rows a page of the window shows
          None

VARIABLES order,     \* the documents in view
          layout,
          sel,       \* rawSelection: ids, anchor, focus
          box,       \* the selection box being drawn, None if there is none
          menu,      \* the document whose menu is open
          drag,      \* the document by which documents are dragged
          asked,     \* the documents a dialog asks about
          sent       \* the documents an action is begun on, until use-library-actions.ts has it

vars == <<order, layout, sel, box, menu, drag, asked, sent>>

Points == [x : Xs, y : Ys]
Rects == {r \in [left : Xs, right : Xs, top : Ys, bottom : Ys] : r.left <= r.right /\ r.top <= r.bottom}
Nobody == [ids |-> {}, anchor |-> None, focus |-> None]

In(o) == {o[i] : i \in DOMAIN o}

-----------------------------------------------------------------------------
\* layout.ts.  What is a fraction there is multiplied by the number of columns here.

Gap == 20
ListRow == 48
MinCard(w) == IF w < 520 THEN 140 ELSE 184
Usable(w) == Max({w, MinCard(w)})

Columns(l) == IF l.mode = "list" THEN 1 ELSE (Usable(l.width) + Gap) \div (MinCard(l.width) + Gap)

\* The width of a row without its gaps: so many times a card's.
CardsWidth(l) == Usable(l.width) - Gap * (Columns(l) - 1)
CardHeight(l) == (6 * CardsWidth(l) + 4 * Columns(l)) \div (8 * Columns(l)) + 60
RowHeight(l) == IF l.mode = "list" THEN ListRow ELSE CardHeight(l) + Gap

\* (Mutant: a row that is not full does not count.)
FullRows(l, n) == n \div Columns(l)

RowCount(l, n) == (n + Columns(l) - 1) \div Columns(l)

Crosses(r, l, i) ==
  LET top == (i \div Columns(l)) * RowHeight(l)
      left == (i % Columns(l)) * (Usable(l.width) + Gap)
  IN /\ r.bottom >= top /\ r.top <= top + CardHeight(l)
     /\ Columns(l) * r.right >= left /\ Columns(l) * r.left <= left + CardsWidth(l)

\* The items a box touches, counted from 0 as in the source.
ItemsInRect(r, l, n) ==
  LET rows == Max({0, r.top \div RowHeight(l)}) .. Min({RowCount(l, n) - 1, r.bottom \div RowHeight(l)})
  IN IF n = 0 \/ r.bottom < 0 \/ r.right < 0 \/ r.left > l.width THEN {}
     ELSE {i \in 0..n - 1 : i \div Columns(l) \in rows /\ (l.mode = "grid" => Crosses(r, l, i))}

NavKeys == {"Left", "Right", "Up", "Down", "Home", "End", "PageUp", "PageDown"}
Clamp(i, n) == Max({0, Min({n - 1, i})})

\* Where a key goes from item i (-1: none) of n > 0.
Navigate(key, i, n, cols) ==
  CASE i < 0 -> IF key = "End" THEN n - 1 ELSE 0
    [] i >= 0 /\ key = "Left" -> Clamp(i - 1, n)
    [] i >= 0 /\ key = "Right" -> Clamp(i + 1, n)
    [] i >= 0 /\ key = "Up" -> IF i - cols >= 0 THEN i - cols ELSE i
    [] i >= 0 /\ key = "Down" -> IF i + cols < n THEN i + cols
                                 ELSE IF i \div cols < (n - 1) \div cols THEN n - 1 ELSE i
    [] i >= 0 /\ key = "Home" -> 0
    [] i >= 0 /\ key = "End" -> n - 1
    [] i >= 0 /\ key = "PageUp" -> Clamp(i - cols * PerPage, n)
    [] i >= 0 /\ key = "PageDown" -> Clamp(i + cols * PerPage, n)

-----------------------------------------------------------------------------
\* selection.ts.

Span(o, from, to) ==
  IF from \notin In(o) \/ to \notin In(o) THEN {to}
  ELSE LET at == {SelectInSeq(o, LAMBDA d : d = from), SelectInSeq(o, LAMBDA d : d = to)}
       IN {o[i] : i \in Min(at) .. Max(at)}

Toggled(ids, d) == IF d \in ids THEN ids \ {d} ELSE ids \cup {d}

ClickItem(s, d, shift, toggle, o) ==
  IF shift /\ s.anchor # None
  THEN [ids |-> Span(o, s.anchor, d) \cup (IF toggle THEN s.ids ELSE {}), anchor |-> s.anchor, focus |-> d]
  ELSE [ids |-> IF toggle THEN Toggled(s.ids, d) ELSE {d}, anchor |-> d, focus |-> d]

MoveFocus(s, d, shift, toggle, o) ==
  LET anchor == IF s.anchor # None THEN s.anchor ELSE IF s.focus # None THEN s.focus ELSE d
  IN IF shift THEN [ids |-> Span(o, anchor, d), anchor |-> anchor, focus |-> d]
     ELSE IF toggle THEN [s EXCEPT !.focus = d]
     ELSE [ids |-> {d}, anchor |-> d, focus |-> d]

\* What a box over these places selects.
BoxSelect(before, hits, additive, o) ==
  [ids |-> {o[i + 1] : i \in hits} \cup (IF additive THEN before.ids ELSE {}),
   anchor |-> IF hits = {} THEN before.anchor ELSE o[Min(hits) + 1],
   focus |-> IF hits = {} THEN before.focus ELSE o[Max(hits) + 1]]

\* (Mutant: what is no longer in view stays selected.)
Unpruned(s, o) == s

\* pruneSelection.
Prune(s, o) ==
  LET keep(d) == IF d \in In(o) THEN d ELSE None
  IN IF s.ids \subseteq In(o) /\ keep(s.focus) = s.focus THEN s
     ELSE [ids |-> s.ids \cap In(o), anchor |-> keep(s.anchor), focus |-> keep(s.focus)]

Selection == Prune(sel, order)

\* What is drawn as selected.
Highlighted == Selection.ids \cap In(order)

\* The selection that holds this document, else the document: what a drag carries (targetsFor), and
\* what a menu acts on (menuTargets).
TargetsFor(d) == IF d \in Selection.ids THEN Selection.ids ELSE {d}
MenuTargets(d) == IF d \in Selection.ids THEN Highlighted ELSE {d}

\* onFocusItem, which the browser calls before a click.
FocusOn(s, d) ==
  IF s.focus = d THEN s
  ELSE [s EXCEPT !.focus = d, !.anchor = IF @ = None THEN d ELSE @]

-----------------------------------------------------------------------------
Init ==
  /\ order \in Orders /\ layout \in Layouts
  /\ \/ sel = Nobody
     \/ \E d \in Docs : sel = [ids |-> {d}, anchor |-> d, focus |-> d]  \* came with ?select=
  /\ box = None /\ menu = None /\ drag = None
  /\ asked = {} /\ sent = {}

\* No menu, dialog, drag or box: the pointer reaches the documents.
Free == menu = None /\ drag = None /\ box = None /\ asked = {}

Selects(s) == sel' = s /\ UNCHANGED <<order, layout, box, menu, drag, asked, sent>>

Click(d, shift, toggle) ==
  /\ Free /\ d \in In(order)
  /\ Selects(ClickItem(Prune(FocusOn(sel, d), order), d, shift, toggle, order))

\* Tabbing to it, or the focus coming back.
FocusItem(d) == Free /\ d \in In(order) /\ Selects(FocusOn(sel, d))

Nav(key, shift, toggle) ==
  LET s == Selection
      from == IF s.focus = None THEN -1 ELSE SelectInSeq(order, LAMBDA d : d = s.focus) - 1
  IN /\ Free /\ order # <<>>
     /\ LET to == order[Navigate(key, from, Len(order), Columns(layout)) + 1]
        IN Selects(MoveFocus(s, to, shift, toggle, order))

SelectAll ==
  /\ Free /\ order # <<>>
  /\ Selects([ids |-> In(order), anchor |-> order[1],
              focus |-> IF Selection.focus # None THEN Selection.focus ELSE order[1]])

Space ==
  /\ Free /\ Selection.focus # None
  /\ Selects(ClickItem(Selection, Selection.focus, FALSE, TRUE, order))

Clear == Free /\ Selects(Nobody)

-----------------------------------------------------------------------------
\* Actions: sent at once, or asked about in a dialog first.

Begins(docs) == \/ sent' = docs /\ UNCHANGED asked
                \/ asked' = docs /\ UNCHANGED sent

\* trashOrPurge: of the selected ones, those that may be deleted.
DeleteKey ==
  /\ Free /\ Highlighted \cap Deletable # {}
  /\ Begins(Highlighted \cap Deletable)
  /\ UNCHANGED <<order, layout, sel, box, menu, drag>>

\* The buttons above a selection, there when every selected document allows them.
BarButton ==
  /\ Free /\ Highlighted # {} /\ Highlighted \subseteq Deletable
  /\ Begins(Highlighted)
  /\ UNCHANGED <<order, layout, sel, box, menu, drag>>

\* A right click, or the button "more" of one document.
ContextMenu(d) ==
  /\ Free /\ d \in In(order)
  /\ LET s == FocusOn(sel, d)
     IN sel' = IF d \in Prune(s, order).ids THEN s ELSE ClickItem(Nobody, d, FALSE, FALSE, order)
  /\ menu' = d
  /\ UNCHANGED <<order, layout, box, drag, asked, sent>>

MoreMenu(d) ==
  /\ Free /\ d \in In(order)
  /\ menu' = d
  /\ UNCHANGED <<order, layout, sel, box, drag, asked, sent>>

PickAction ==
  /\ menu # None /\ menu' = None
  /\ MenuTargets(menu) \subseteq Deletable
  /\ Begins(MenuTargets(menu))
  /\ UNCHANGED <<order, layout, sel, box, drag>>

\* One document's name is asked for in its place; leaving the input saves, Escape does not.
PickRename ==
  /\ menu # None /\ menu' = None
  /\ menu \in Deletable /\ MenuTargets(menu) = {menu}
  /\ asked' = {menu}
  /\ UNCHANGED <<order, layout, sel, box, drag, sent>>

CloseMenu == menu # None /\ menu' = None /\ UNCHANGED <<order, layout, sel, box, drag, asked, sent>>

Confirm == asked # {} /\ sent' = asked /\ asked' = {} /\ UNCHANGED <<order, layout, sel, box, menu, drag>>
Close == asked # {} /\ asked' = {} /\ UNCHANGED <<order, layout, sel, box, menu, drag, sent>>

\* Dragging starts with the focus.  What it carries is worked out again whenever the view is drawn.
DragStart(d) ==
  /\ Free /\ d \in In(order) \cap Deletable
  /\ sel' = FocusOn(sel, d) /\ drag' = d
  /\ UNCHANGED <<order, layout, box, menu, asked, sent>>

Drop ==
  /\ drag # None /\ drag' = None
  /\ \/ sent' = TargetsFor(drag)
     \/ UNCHANGED sent                     \* over nothing
  /\ UNCHANGED <<order, layout, sel, box, menu, asked>>

\* F2 renames the document with the focus, whatever is selected.
RenameKey ==
  /\ Free /\ Selection.focus \in Deletable
  /\ asked' = {Selection.focus}
  /\ UNCHANGED <<order, layout, sel, box, menu, drag, sent>>

-----------------------------------------------------------------------------
\* The selection box.

PointerDown(p, additive) ==
  /\ Free
  /\ box' = [start |-> p, base |-> Selection, additive |-> additive, moved |-> FALSE,
             order |-> order, layout |-> layout]
  /\ UNCHANGED <<order, layout, sel, menu, drag, asked, sent>>

RectOf(p, q) == [left |-> Min({p.x, q.x}), right |-> Max({p.x, q.x}),
                 top |-> Min({p.y, q.y}), bottom |-> Max({p.y, q.y})]
Near(p, q) == (p.x - q.x) * (p.x - q.x) + (p.y - q.y) * (p.y - q.y) < 25

\* updateBox, with the list and the layout its closure has.
Update(p, o, l) ==
  /\ box # None
  /\ box.moved \/ ~Near(p, box.start)
  /\ box' = [box EXCEPT !.moved = TRUE]
  /\ sel' = BoxSelect(box.base, ItemsInRect(RectOf(p, box.start), l, Len(o)), box.additive, o)
  /\ UNCHANGED <<order, layout, menu, drag, asked, sent>>

PointerMove(p) == Update(p, order, layout)

\* autoScroll at the edge of the window: its frames keep what was drawn when the button went down.
ScrollFrame(p) == box # None /\ Update(p, box.order, box.layout)

PointerUp ==
  /\ box # None /\ box' = None
  /\ sel' = IF ~box.moved /\ ~box.additive THEN Nobody ELSE sel
  /\ UNCHANGED <<order, layout, menu, drag, asked, sent>>

-----------------------------------------------------------------------------
\* What is not the user's pointer or keys.

Remains(d) == IF d \in In(order') THEN d ELSE None

\* Pages are loaded, documents come and go, filters and the order change.  A menu and a drag go with
\* their document.
ViewChanges(o) ==
  /\ o # order /\ order' = o
  /\ menu' = Remains(menu) /\ drag' = Remains(drag)
  /\ UNCHANGED <<layout, sel, box, asked, sent>>

\* The window's size, or the other mode.
Measure(l) == l # layout /\ layout' = l /\ UNCHANGED <<order, sel, box, menu, drag, asked, sent>>

\* useLibraryActions takes it over.
Taken == sent' = {} /\ UNCHANGED <<order, layout, sel, box, menu, drag, asked>>

Event ==
  \/ \E d \in Docs : \/ \E shift, toggle \in BOOLEAN : Click(d, shift, toggle)
                     \/ FocusItem(d) \/ ContextMenu(d) \/ MoreMenu(d) \/ DragStart(d)
  \/ \E key \in NavKeys, shift, toggle \in BOOLEAN : Nav(key, shift, toggle)
  \/ SelectAll \/ Space \/ Clear
  \/ DeleteKey \/ BarButton \/ RenameKey \/ PickAction \/ PickRename \/ CloseMenu
  \/ Drop \/ Confirm \/ Close
  \/ \E p \in Points : \/ \E additive \in BOOLEAN : PointerDown(p, additive)
                       \/ PointerMove(p) \/ ScrollFrame(p)
  \/ PointerUp
  \/ \E o \in Orders : ViewChanges(o)
  \/ \E l \in Layouts : Measure(l)

Next == IF sent = {} THEN Event ELSE Taken

Spec == Init /\ [][Next]_vars

-----------------------------------------------------------------------------
MaybeDoc == Docs \cup {None}

\* Every variable holds a value of its kind.
TypeOK ==
  /\ order \in Orders /\ layout \in Layouts
  /\ sel \in [ids : SUBSET Docs, anchor : MaybeDoc, focus : MaybeDoc]
  /\ box # None => /\ box.start \in Points /\ box.base \in [ids : SUBSET Docs, anchor : MaybeDoc, focus : MaybeDoc]
                   /\ box.order \in Orders /\ box.layout \in Layouts
  /\ menu \in MaybeDoc /\ drag \in MaybeDoc
  /\ asked \subseteq Docs /\ sent \subseteq Docs

\* An action is begun on exactly what is drawn as selected (the deletable part of it for the key
\* Delete), or on one document that is in view and not selected, and a dialog acts on what it asked
\* about, whatever left the view or joined it since it was selected (selection.ts pruneSelection,
\* targetsFor; library-view.tsx menuTargets, dragIds).
ActsOnWhatIsShown ==
  [][LET shown(docs) == \/ docs = Highlighted \/ docs = Highlighted \cap Deletable
                        \/ \E d \in In(order) \ Highlighted : docs = {d}
     IN /\ sent' \notin {sent, {}} => sent' = asked \/ shown(sent')
        /\ asked' \notin {asked, {}} => shown(asked') \/ asked' = {Selection.focus}]_vars

\* Where the view draws item i (library-view.tsx, the virtual rows and the grid's columns), x times the columns.
Drawn(i) ==
  LET cols == Columns(layout)
      left == (i % cols) * (layout.width + Gap)
      top == (i \div cols) * RowHeight(layout)
  IN [left |-> left, right |-> left + layout.width - Gap * (cols - 1),
      top |-> top, bottom |-> top + IF layout.mode = "grid" THEN CardHeight(layout) ELSE ListRow - 1]

\* The box takes what it touches on the screen, and the keys up and down go to what is drawn above and
\* below (or to the last document, above a short last row), wherever the documents are and
\* however wide the window is (layout.ts, its header).
AgreeOnPlaces ==
  LET n == Len(order)
      cols == Columns(layout)
      touches(r, i) == /\ cols * r.left <= Drawn(i).right /\ cols * r.right >= Drawn(i).left
                       /\ r.top <= Drawn(i).bottom /\ r.bottom >= Drawn(i).top
      below(i, j) == Drawn(j).left = Drawn(i).left /\ Drawn(j).top = Drawn(i).top + RowHeight(layout)
      lower(i) == {j \in 0..n - 1 : Drawn(j).top > Drawn(i).top}
  IN /\ \A r \in Rects : ItemsInRect(r, layout, n) = {i \in 0..n - 1 : touches(r, i)}
     /\ \A i \in 0..n - 1 :
          LET up == Navigate("Up", i, n, cols)
              down == Navigate("Down", i, n, cols)
          IN /\ below(up, i) \/ (up = i /\ Drawn(i).top = 0)
             /\ \/ below(i, down)
                \/ down = i /\ lower(i) = {}
                \/ down = n - 1 /\ lower(i) # {} /\ ~\E j \in lower(i) : below(i, j)
=============================================================================
