--------------------------- MODULE DomSerializer ----------------------------
(***************************************************************************)
(* From a snapshot of a page to the indices the LLM may act on: the       *)
(* coordinates and the visibility of each element (dom/service.py), then   *)
(* the passes of dom/serializer/serializer.py over the simplified tree and *)
(* PaintOrderRemover, whose questions go to RectUnion.  Every pass decides *)
(* with what the ones before it left, so what an element comes to depends  *)
(* on all of them and on the elements around it.                           *)
(*                                                                         *)
(* A page is a sequence of nodes in document order.  Of a node's           *)
(* attributes the model keeps what the passes ask for.  A node is named by *)
(* its position; as the index it is its backendNodeId.                     *)
(***************************************************************************)
EXTENDS RectUnion, Sequences

CONSTANTS Margin,    \* how far off a viewport counts as visible (1000)
          MinIndex,  \* a frame larger than this gets an index (100)
          MinFrame   \* a cross-origin frame from this size is looked into (50)

\* "a" is any link or button, "oopif" a frame of another target.
Tags == {"html", "iframe", "oopif", "a", "input", "file", "div", "svg", "text"}

\* "label": some aria attribute and a name.  "pointer": the class or cursor of
\* something to click.  "onclick": a handler, or a role such as checkbox.
Marks == {"none", "label", "pointer", "onclick"}

Node == [parent : Nat, tag : Tags, rect : Rects, paint : Nat, opaque : BOOLEAN,
         mark : Marks, scrollable : BOOLEAN, invisible : BOOLEAN,
         scroll : Nat, view : Nat \X Nat]

ASSUME SizesAssumption == {Margin, MinIndex, MinFrame} \subseteq Nat

\* A snapshot: the document first, parents before their children.
IsPage(p) ==
  /\ p \in Seq(Node)
  /\ \A n \in DOMAIN p :
       p[n].parent < n /\ (p[n].parent = 0 <=> n = 1) /\ (n = 1 => p[n].tag = "html")

VARIABLES page,          \* the nodes
          phase,         \* the pass to come
          bounds,        \* snapshot_node.bounds, which the visibility check moves
          visible,       \* is_visible
          tree,          \* the nodes in the tree
          unpainted,     \* nodes whose paint order has yet to come
          group,         \* nodes of the current paint order yet to be looked at
          asked,         \* the node whose rectangle contains() is asked about
          rects_to_add,  \* nodes of the current paint order to add
          ignored,       \* ignored_by_paint_order
          excluded,      \* excluded_by_parent
          selector_map

passVars == <<bounds, visible, tree, unpainted, group, asked, rects_to_add,
              ignored, excluded, selector_map>>
vars == <<page, phase, passVars, unionVars>>

Nodes == DOMAIN page
tag(n) == page[n].tag
Frames == {n \in Nodes : tag(n) \in {"iframe", "oopif"}}
Shift(r, dx, dy) == Rect(r.x1 + dx, r.y1 + dy, r.x2 + dx, r.y2 + dy)

\* n and the nodes it is in.
line == LET l[n \in Nodes] == IF n = 1 THEN {n} ELSE l[page[n].parent] \union {n}
        IN  l
above(n) == line[n] \ {n}
-----------------------------------------------------------------------------
(* service.py: where an element is and whether it is visible.               *)

\* How far a document or a frame moves what is in it.
moves(m) == IF tag(m) = "html" THEN <<0, -page[m].scroll>>
            ELSE IF m \in Frames THEN <<page[m].rect.x1, page[m].rect.y1>>
            ELSE <<0, 0>>

\* total_frame_offset
offset ==
  LET o[n \in Nodes] ==
        IF n = 1 THEN <<0, 0>>
        ELSE LET p == page[n].parent
             IN  <<o[p][1] + moves(p)[1], o[p][2] + moves(p)[2]>>
  IN  o

absolute_position(n) == Shift(page[n].rect, offset[n][1], offset[n][2])

\* updated_html_frames: n's own frame element or document is among them.  A
\* cross-origin document starts a list of its own.
html_frames(n) ==
  {m \in line[n] : /\ tag(m) \in {"html", "iframe", "oopif"}
                   /\ \A o \in above(n) : tag(o) = "oopif" => m > o}

Intersects(r, view, margin) ==
  r.x1 < view[1] /\ r.x2 > 0 /\ r.y1 < view[2] + margin /\ r.y2 > -margin

\* Mutant: the scroll position counts only for what is further out.
BugInFrame(n, f, b) ==
  IF ~b.shown THEN b
  ELSE IF f \in Frames
    THEN LET r == IF f = n THEN b.rect ELSE page[f].rect
         IN  [b EXCEPT !.rect = Shift(@, r.x1, r.y1)]
    ELSE LET r == Shift(b.rect, 0, -page[f].scroll)
         IN  [shown |-> Intersects(b.rect, page[f].view, Margin), rect |-> r]

\* One frame of the loop over the frames, from the inner to the outer.  It moves
\* the bounds of the node in place, as far as it gets: so the bounds a frame
\* element adds are its own when it is asked about itself.
in_frame(n, f, b) ==
  IF ~b.shown THEN b
  ELSE IF f \in Frames
    THEN LET r == IF f = n THEN b.rect ELSE page[f].rect
         IN  [b EXCEPT !.rect = Shift(@, r.x1, r.y1)]
    ELSE LET r == Shift(b.rect, 0, -page[f].scroll)
         IN  IF Intersects(r, page[f].view, Margin)
               THEN [b EXCEPT !.rect = r] ELSE [b EXCEPT !.shown = FALSE]

\* is_element_visible_according_to_all_parents, the frames in reverse: what has
\* come of n after the frames from the m-th node on.
seen(n) ==
  LET unmoved == [shown |-> ~page[n].invisible, rect |-> page[n].rect]
      s[m \in 1 .. Len(page) + 1] ==
        IF m > Len(page) THEN unmoved
        ELSE IF m \in html_frames(n) THEN in_frame(n, m, s[m + 1])
        ELSE s[m + 1]
  IN  s

visibility(n) == seen(n)[1]

\* A cross-origin frame is looked into if it is visible and large enough.
width(r)  == r.x2 - r.x1
height(r) == r.y2 - r.y1
looked_into(f) == /\ visibility(f).shown
                  /\ width(page[f].rect) >= MinFrame
                  /\ height(page[f].rect) >= MinFrame

in_dom == {n \in Nodes : \A m \in above(n) : tag(m) = "oopif" => looked_into(m)}

get_dom_tree ==
  /\ phase = "dom" /\ phase' = "simplify"
  /\ tree' = in_dom
  /\ visible' = {n \in tree' : visibility(n).shown}
  /\ bounds' = [n \in Nodes |-> visibility(n).rect]
  /\ UNCHANGED <<page, unpainted, group, asked, rects_to_add, ignored, excluded,
                 selector_map, unionVars>>
-----------------------------------------------------------------------------
(* serializer.py: the simplified tree.                                      *)

\* What of the tree is above, or is, a node worth keeping.
Upto(S) == {n \in tree : \E m \in S : n \in line[m]}

Below(n) == {m \in tree : n \in above(m)}
HasDocument(n) == n \in Frames /\ Below(n) # {}

\* File inputs and elements with aria attributes count as visible here.
_create_simplified_tree ==
  /\ phase = "simplify" /\ phase' = "paint"
  /\ tree' = Upto({n \in tree : \/ n \in visible
                                \/ /\ tag(n) # "text"
                                   /\ \/ tag(n) = "file" \/ page[n].mark = "label"
                                      \/ page[n].scrollable \/ HasDocument(n)})
  /\ unpainted' = tree'
  /\ UNCHANGED <<page, bounds, visible, group, asked, rects_to_add, ignored,
                 excluded, selector_map, unionVars>>
-----------------------------------------------------------------------------
(* paint_order.py: calculate_paint_order(), from the top.                   *)

First(S) == CHOOSE n \in S : \A m \in S : n <= m

Asking == phase = "paint" /\ at = "idle" /\ asked = 0
PaintUnchanged == UNCHANGED <<page, phase, bounds, visible, tree, excluded,
                              selector_map>>

NextPaintOrder ==
  /\ Asking /\ group = {} /\ rects_to_add = {} /\ unpainted # {}
  /\ group' = {n \in unpainted :
                 \A m \in unpainted : page[m].paint <= page[n].paint}
  /\ unpainted' = unpainted \ group'
  /\ UNCHANGED <<asked, rects_to_add, ignored, unionVars>> /\ PaintUnchanged

AskCovered ==
  /\ Asking /\ group # {}
  /\ asked' = First(group) /\ Call(bounds[asked'], FALSE)
  /\ UNCHANGED <<unpainted, group, rects_to_add, ignored>> /\ PaintUnchanged

\* Transparent elements hide nothing.
AnsweredCovered ==
  /\ phase = "paint" /\ at = "idle" /\ asked # 0
  /\ ignored' = IF result THEN ignored \union {asked} ELSE ignored
  /\ rects_to_add' = IF page[asked].opaque THEN rects_to_add \union {asked}
                                           ELSE rects_to_add
  /\ group' = group \ {asked} /\ asked' = 0
  /\ UNCHANGED <<unpainted, unionVars>> /\ PaintUnchanged

\* The rectangles of a paint order are added when all its elements were asked
\* about: those painted together do not hide each other.
AddRect ==
  /\ Asking /\ group = {} /\ rects_to_add # {}
  /\ LET n == First(rects_to_add)
     IN  Call(bounds[n], TRUE) /\ rects_to_add' = rects_to_add \ {n}
  /\ UNCHANGED <<unpainted, group, asked, ignored>> /\ PaintUnchanged

UnionWorks == UnionStep /\ UNCHANGED <<page, phase, passVars>>

Painted ==
  /\ Asking /\ group = {} /\ rects_to_add = {} /\ unpainted = {}
  /\ phase' = "optimize"
  /\ UNCHANGED <<page, passVars, unionVars>>
-----------------------------------------------------------------------------
(* serializer.py: the passes over the simplified tree.                      *)

_optimize_tree ==
  /\ phase = "optimize" /\ phase' = "filter"
  /\ tree' = Upto({n \in tree : \/ n \in visible \/ page[n].scrollable
                                \/ tag(n) \in {"text", "file"}})
  /\ UNCHANGED <<page, bounds, visible, unpainted, group, asked, rects_to_add,
                 ignored, excluded, selector_map, unionVars>>

\* ClickableElementDetector
is_interactive(n) ==
  \/ tag(n) \in {"a", "input", "file"}
  \/ tag(n) # "text" /\ tag(n) # "html" /\ page[n].mark \in {"pointer", "onclick"}
  \/ n \in Frames /\ width(bounds[n]) > MinIndex /\ height(bounds[n]) > MinIndex

_is_propagating_element(n) == tag(n) = "a"

Lesser(i, j) == IF i < j THEN i ELSE j
Greater(i, j) == IF i < j THEN j ELSE i
overlap(a, b) == Greater(0, Lesser(a.x2, b.x2) - Greater(a.x1, b.x1))
                 * Greater(0, Lesser(a.y2, b.y2) - Greater(a.y1, b.y1))

\* 99 % of the child; nothing contains an element without an area.
_is_contained(child, parent) ==
  LET area == width(child) * height(child)
  IN  area # 0 /\ 100 * overlap(child, parent) >= 99 * area

_should_exclude_child(n, container) ==
  /\ tag(n) # "text"
  /\ _is_contained(bounds[n], bounds[container])
  /\ tag(n) \notin {"input", "file"}
  /\ ~_is_propagating_element(n)
  /\ page[n].mark \notin {"onclick", "label"}

\* active_bounds: those of the nearest link or button around n.
containers(n) == LET around == {m \in above(n) \intersect tree :
                                  _is_propagating_element(m)}
                 IN  {m \in around : \A k \in around : k <= m}

_apply_bounding_box_filtering ==
  /\ phase = "filter" /\ phase' = "assign"
  /\ excluded' = {n \in tree : \E c \in containers(n) : _should_exclude_child(n, c)}
  /\ UNCHANGED <<page, bounds, visible, tree, unpainted, group, asked, rects_to_add,
                 ignored, selector_map, unionVars>>

\* A scrollable container gets an index only if nothing in it is interactive.
_assign_interactive_indices ==
  /\ phase = "assign" /\ phase' = "done"
  /\ selector_map' =
       {n \in tree \ (excluded \union ignored) :
          IF page[n].scrollable
            THEN ~\E m \in Below(n) : is_interactive(m)
            ELSE is_interactive(n) /\ (n \in visible \/ tag(n) = "file")}
  /\ UNCHANGED <<page, bounds, visible, tree, unpainted, group, asked, rects_to_add,
                 ignored, excluded, unionVars>>

\* serialize_tree(): the nodes whose index is in the text.  What is in an SVG
\* element that has a line of its own is collapsed.
in_text == {n \in selector_map :
              \A m \in above(n) \intersect tree : tag(m) = "svg" => m \in excluded}
-----------------------------------------------------------------------------
Init ==
  /\ IsPage(page) /\ phase = "dom"
  /\ bounds = [n \in Nodes |-> page[n].rect] /\ visible = {} /\ tree = {}
  /\ unpainted = {} /\ group = {} /\ asked = 0 /\ rects_to_add = {}
  /\ ignored = {} /\ excluded = {} /\ selector_map = {}
  /\ UnionInit

Next ==
  \/ get_dom_tree \/ _create_simplified_tree
  \/ NextPaintOrder \/ AskCovered \/ AnsweredCovered \/ AddRect \/ UnionWorks
  \/ Painted
  \/ _optimize_tree \/ _apply_bounding_box_filtering \/ _assign_interactive_indices

Spec == Init /\ [][Next]_vars
-----------------------------------------------------------------------------
(* What is to be seen of an element, from the top down.                     *)

\* A document moves by its own scroll position, too.
Place(n) == IF tag(n) = "html" THEN Shift(absolute_position(n), 0, -page[n].scroll)
                               ELSE absolute_position(n)

\* Near the viewport of every document around n, a cross-origin frame being
\* looked into as a whole.
NearViewport(n) ==
  \A h \in html_frames(n) : tag(h) = "html" =>
    Intersects(Shift(Place(n), -offset[h][1], -offset[h][2]), page[h].view, Margin)

OnScreen(n) == ~page[n].invisible /\ NearViewport(n)

\* The bounds of n are where n is: they were moved all the way.
InPlace(n) == bounds[n] = Place(n)

\* A frame is in its own list of frames, and is moved by its own position.
CountedTwice(n) == n \in Frames /\ moves(n) # <<0, 0>>

Squares(r) == (r.x1 .. r.x2 - 1) \X (r.y1 .. r.y2 - 1)

Hidden(n, by) ==
  Squares(Place(n)) \subseteq UNION {Squares(bounds[m]) : m \in by}

\* What is painted over n, and what only seems to be: elements that are kept for
\* other reasons than being seen, or whose bounds are not where they are.
Above(n) == {m \in in_dom : page[m].opaque /\ page[m].paint > page[n].paint}
ReallyAbove(n) == {m \in Above(n) : OnScreen(m) /\ InPlace(m) /\ ~CountedTwice(m)}
SeeminglyAbove(n) ==
  {m \in Above(n) : \/ OnScreen(m) \/ CountedTwice(m)
                    \/ tag(m) = "file" \/ page[m].mark = "label" \/ page[m].scrollable
                    \/ \E k \in Nodes : m \in above(k)}

\* Neither n nor what may be painted over it is but a line, which confuses
\* contains().
NoLines(n) ==
  \A m \in {n} \union {k \in Nodes : page[k].opaque} : HasArea(page[m].rect)
-----------------------------------------------------------------------------
\* What the LLM is offered is to be seen: the element of an index is near the
\* viewport (but for file inputs, scrollable containers and frames counted twice)
\* and is not behind opaque elements that are to be seen, however frames, scroll
\* positions, paint orders and passes combine.
OnlyVisibleOffered ==
  phase = "done" =>
    \A n \in selector_map :
      /\ \/ tag(n) = "file" \/ page[n].scrollable
         \/ ~page[n].invisible /\ (NearViewport(n) \/ CountedTwice(n))
      /\ InPlace(n) /\ NoLines(n) => ~Hidden(n, ReallyAbove(n))

InImage(n) == \E s \in above(n) : tag(s) = "svg"

\* The nearest link or button around n has an index instead, or has none because
\* it is itself hidden, by its own content perhaps, out of sight, or scrollable.
\* What is out of sight may have been left half moved, anywhere.
StoodInFor(n) ==
  /\ tag(n) \notin {"input", "file", "a"} /\ page[n].mark # "onclick"
  /\ \E c \in above(n) :
       /\ _is_propagating_element(c)
       /\ \A k \in above(n) : _is_propagating_element(k) => k <= c
       /\ \/ ~InPlace(c)
          \/ /\ overlap(Place(n), Place(c)) > 0
             /\ \/ c \in in_text \/ ~OnScreen(c) \/ page[c].scrollable
                \/ InImage(c) \/ Hidden(c, SeeminglyAbove(c))

\* Whatever can be clicked and is to be seen gets an index in the text, or there
\* is one of these reasons: something opaque is painted over it, or seems to be;
\* it is a frame counted twice, or in a cross-origin one, so that its bounds are
\* not where it is; the link around it stands in for it; it is a scrollable
\* container with interactive content; it is part of an SVG image.
ClickableOffered ==
  phase = "done" =>
    \A n \in in_dom : is_interactive(n) /\ OnScreen(n) =>
      \/ n \in in_text
      \/ Hidden(n, SeeminglyAbove(n)) \/ ~InPlace(n) \/ CountedTwice(n)
      \/ StoodInFor(n)
      \/ page[n].scrollable /\ \E m \in Nodes : n \in above(m) /\ is_interactive(m)
      \/ InImage(n)
=============================================================================
