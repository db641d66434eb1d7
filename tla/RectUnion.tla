----------------------------- MODULE RectUnion ------------------------------
(***************************************************************************)
(* RectUnionPure of browser_use/dom/serializer/paint_order.py: a disjoint  *)
(* set of rectangles that grows by add() and is asked by contains().  Both *)
(* cut what is left of their argument at one rectangle of the set after    *)
(* another; a step here is one turn of such a loop.  The code only         *)
(* compares and copies coordinates, so integers stand for its floats; the  *)
(* lists are sets, visited in any order.                                   *)
(***************************************************************************)
EXTENDS Integers

VARIABLES rects,    \* _rects
          at,       \* "idle", or the loop being run: "contains", "add"
          adding,   \* the contains() under way is the one add() begins with
          arg,      \* the argument r of the call
          pieces,   \* stack, or pending: what is left of it
          todo,     \* the rectangles the loop has yet to visit
          result    \* what the last contains() returned

unionVars == <<rects, at, adding, arg, pieces, todo, result>>

Rect(x1, y1, x2, y2) == [x1 |-> x1, y1 |-> y1, x2 |-> x2, y2 |-> y2]

Rects == {r \in [x1 : Int, y1 : Int, x2 : Int, y2 : Int] :
            r.x1 <= r.x2 /\ r.y1 <= r.y2}

intersects(a, b) == ~ \/ a.x2 <= b.x1 \/ b.x2 <= a.x1
                      \/ a.y2 <= b.y1 \/ b.y2 <= a.y1

\* Rect.contains
covers(a, b) == /\ a.x1 <= b.x1 /\ a.y1 <= b.y1
                /\ a.x2 >= b.x2 /\ a.y2 >= b.y2

If(condition, r) == IF condition THEN {r} ELSE {}

\* Mutant: the slice above is forgotten.
BugSplitDiff(a, b) ==
  LET y_lo == IF a.y1 < b.y1 THEN b.y1 ELSE a.y1
      y_hi == IF a.y2 < b.y2 THEN a.y2 ELSE b.y2
  IN  UNION {If(a.y1 < b.y1, Rect(a.x1, a.y1, a.x2, b.y1)),
             If(a.x1 < b.x1, Rect(a.x1, y_lo, b.x1, y_hi)),
             If(b.x2 < a.x2, Rect(b.x2, y_lo, a.x2, y_hi))}

\* a without b, which it meets: a slice below, one above, one on each side.
split_diff(a, b) ==
  LET y_lo == IF a.y1 < b.y1 THEN b.y1 ELSE a.y1
      y_hi == IF a.y2 < b.y2 THEN a.y2 ELSE b.y2
  IN  UNION {If(a.y1 < b.y1, Rect(a.x1, a.y1, a.x2, b.y1)),
             If(b.y2 < a.y2, Rect(a.x1, b.y2, a.x2, a.y2)),
             If(a.x1 < b.x1, Rect(a.x1, y_lo, b.x1, y_hi)),
             If(b.x2 < a.x2, Rect(b.x2, y_lo, a.x2, y_hi))}

cut(piece, s) == IF intersects(piece, s) THEN split_diff(piece, s) ELSE {piece}
-----------------------------------------------------------------------------
UnionInit ==
  /\ rects = {} /\ at = "idle" /\ adding = FALSE
  /\ arg = Rect(0, 0, 0, 0) /\ pieces = {} /\ todo = {} /\ result = FALSE

\* contains(r), and add(r), which begins by asking contains(r).
Call(r, add) ==
  /\ at = "idle"
  /\ at' = "contains" /\ adding' = add /\ arg' = r
  /\ pieces' = {r} /\ todo' = rects
  /\ UNCHANGED <<rects, result>>

Visit(s, parts) ==
  /\ todo' = todo \ {s} /\ pieces' = parts
  /\ UNCHANGED <<rects, at, adding, arg, result>>

\* A turn of contains(): the pieces that s covers are gone.
ContainsTurn ==
  /\ at = "contains" /\ pieces # {}
  /\ \E s \in todo :
       Visit(s, UNION {cut(p, s) : p \in {p \in pieces : ~covers(s, p)}})

\* Nothing is left: r is covered, and add() has nothing to do.
Eaten ==
  /\ at = "contains" /\ pieces = {}
  /\ at' = "idle" /\ result' = TRUE
  /\ UNCHANGED <<rects, adding, arg, pieces, todo>>

\* Something survived: contains() returns False, add() goes on with all of r.
Survived ==
  /\ at = "contains" /\ pieces # {} /\ todo = {}
  /\ result' = FALSE
  /\ IF adding
       THEN at' = "add" /\ pieces' = {arg} /\ todo' = rects
       ELSE at' = "idle" /\ UNCHANGED <<pieces, todo>>
  /\ UNCHANGED <<rects, adding, arg>>

AddTurn ==
  /\ at = "add"
  /\ \E s \in todo : Visit(s, UNION {cut(p, s) : p \in pieces})

\* The pieces left over are new, non-overlapping areas.
Extended ==
  /\ at = "add" /\ todo = {}
  /\ rects' = rects \union pieces /\ at' = "idle"
  /\ UNCHANGED <<adding, arg, pieces, todo, result>>

UnionStep == ContainsTurn \/ Eaten \/ Survived \/ AddTurn \/ Extended

UnionNext == UnionStep \/ \E r \in Rects, add \in BOOLEAN : Call(r, add)

UnionSpec == UnionInit /\ [][UnionNext]_unionVars
-----------------------------------------------------------------------------
\* The unit square whose lower left corner is <<x, y>> is part of r.
In(x, y, r) == r.x1 <= x /\ x < r.x2 /\ r.y1 <= y /\ y < r.y2

InSome(x, y, S) == \E r \in S : In(x, y, r)

Overlap(a, b) == \E x, y \in Int : In(x, y, a) /\ In(x, y, b)

HasArea(r) == r.x1 < r.x2 /\ r.y1 < r.y2

\* "Maintains a disjoint set of rectangles."
Disjoint == \A a, b \in rects : a # b => ~Overlap(a, b)

\* "True iff r is fully covered by the current union": whatever contains() calls
\* covered is, however many rectangles it takes and in whatever order they are
\* visited; and it recognizes what is, unless r or a rectangle of the set is but
\* a line: lines cut pieces into lines, and one between two rectangles is in
\* neither of them.
ContainsExact ==
  at = "idle" /\ ~adding =>
    LET covered == \A x, y \in Int : In(x, y, arg) => InSome(x, y, rects)
    IN  /\ result /\ HasArea(arg) => covered
        /\ covered /\ (\A r \in rects \union {arg} : HasArea(r)) => result

\* "Insert r unless it is already covered": add() makes the union larger by its
\* argument and by nothing else, and no other step changes it.
AddsExactly ==
  [][rects' # rects =>
       \A x, y \in Int :
         InSome(x, y, rects') <=> InSome(x, y, rects) \/ In(x, y, arg)]_unionVars
=============================================================================
