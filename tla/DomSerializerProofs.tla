------------------------ MODULE DomSerializerProofs -------------------------
(***************************************************************************)
(* Proofs about RectUnion, for rectangles of any size and number, and about *)
(* DomSerializer, for every page: any tree of documents, frames and         *)
(* elements, of any size and depth.                                         *)
(*                                                                         *)
(* RectUnion: the set stays disjoint, contains() is exact and add() adds    *)
(* what it is given.  The invariant says what is left in the pieces of a    *)
(* loop: the part of the argument that lies in no rectangle visited so far. *)
(***************************************************************************)
EXTENDS DomSerializer, WellFoundedInduction, TLAPS

UnionTypes ==
  /\ rects \subseteq Rects /\ pieces \subseteq Rects /\ todo \subseteq rects
  /\ arg \in Rects /\ adding \in BOOLEAN /\ result \in BOOLEAN
  /\ at \in {"idle", "contains", "add"}

\* What the pieces are while a loop runs.
Left(ps, ts) ==
  \A x, y \in Int :
    InSome(x, y, ps) <=> In(x, y, arg) /\ ~InSome(x, y, rects \ ts)

Apart(S) == \A a, b \in S : a # b => ~Overlap(a, b)

\* As long as nothing is a line, no piece is.
Solid(ps) ==
  (\A r \in rects \union {arg} : HasArea(r)) => \A p \in ps : HasArea(p)

Loop ==
  /\ at # "idle" => Left(pieces, todo) /\ Apart(pieces) /\ Solid(pieces)
  /\ at = "add" => adding

UInv == UnionTypes /\ Disjoint /\ Loop /\ ContainsExact
-----------------------------------------------------------------------------
LEMMA Corners ==
  ASSUME NEW r \in Rects
  PROVE  /\ r.x1 \in Int /\ r.y1 \in Int /\ r.x2 \in Int /\ r.y2 \in Int
         /\ r.x1 <= r.x2 /\ r.y1 <= r.y2
BY DEF Rects

LEMMA RectIn ==
  ASSUME NEW x1 \in Int, NEW y1 \in Int, NEW x2 \in Int, NEW y2 \in Int,
         x1 <= x2, y1 <= y2
  PROVE  Rect(x1, y1, x2, y2) \in Rects
BY DEF Rects, Rect

\* The parts of a outside b: they make up a without b, do not overlap and have
\* areas if a and b have.
LEMMA SplitDiff ==
  ASSUME NEW a \in Rects, NEW b \in Rects, intersects(a, b)
  PROVE  /\ split_diff(a, b) \subseteq Rects
         /\ \A x, y \in Int :
              InSome(x, y, split_diff(a, b)) <=> In(x, y, a) /\ ~In(x, y, b)
         /\ Apart(split_diff(a, b))
         /\ HasArea(a) /\ HasArea(b) => \A p \in split_diff(a, b) : HasArea(p)
<1> DEFINE lo == IF a.y1 < b.y1 THEN b.y1 ELSE a.y1
           hi == IF a.y2 < b.y2 THEN a.y2 ELSE b.y2
           lower == Rect(a.x1, a.y1, a.x2, b.y1)
           upper == Rect(a.x1, b.y2, a.x2, a.y2)
           left  == Rect(a.x1, lo, b.x1, hi)
           right == Rect(b.x2, lo, a.x2, hi)
<1>1. /\ a.x1 \in Int /\ a.y1 \in Int /\ a.x2 \in Int /\ a.y2 \in Int
      /\ b.x1 \in Int /\ b.y1 \in Int /\ b.x2 \in Int /\ b.y2 \in Int
      /\ a.x1 <= a.x2 /\ a.y1 <= a.y2 /\ b.x1 <= b.x2 /\ b.y1 <= b.y2
  BY Corners
<1>2. b.x1 < a.x2 /\ a.x1 < b.x2 /\ b.y1 < a.y2 /\ a.y1 < b.y2
  BY <1>1 DEF intersects
<1>3. lo \in Int /\ hi \in Int /\ lo <= hi
  BY <1>1, <1>2
<1>4. \A p : p \in split_diff(a, b) <=>
        \/ a.y1 < b.y1 /\ p = lower
        \/ b.y2 < a.y2 /\ p = upper
        \/ a.x1 < b.x1 /\ p = left
        \/ b.x2 < a.x2 /\ p = right
  BY DEF split_diff, If
<1>5. split_diff(a, b) \subseteq Rects
  <2>1. a.y1 < b.y1 => lower \in Rects
    BY <1>1, RectIn
  <2>2. b.y2 < a.y2 => upper \in Rects
    BY <1>1, RectIn
  <2>3. a.x1 < b.x1 => left \in Rects
    BY <1>1, <1>3, RectIn
  <2>4. b.x2 < a.x2 => right \in Rects
    BY <1>1, <1>3, RectIn
  <2> QED
    BY <1>4, <2>1, <2>2, <2>3, <2>4
<1>6. ASSUME NEW x \in Int, NEW y \in Int
      PROVE  /\ In(x, y, lower) <=> /\ a.x1 <= x /\ x < a.x2
                                    /\ a.y1 <= y /\ y < b.y1
             /\ In(x, y, upper) <=> /\ a.x1 <= x /\ x < a.x2
                                    /\ b.y2 <= y /\ y < a.y2
             /\ In(x, y, left)  <=> /\ a.x1 <= x /\ x < b.x1
                                    /\ lo <= y /\ y < hi
             /\ In(x, y, right) <=> /\ b.x2 <= x /\ x < a.x2
                                    /\ lo <= y /\ y < hi
  BY DEF In, Rect
<1>7. ASSUME NEW x \in Int, NEW y \in Int
      PROVE  InSome(x, y, split_diff(a, b)) <=> In(x, y, a) /\ ~In(x, y, b)
  <2>1. InSome(x, y, split_diff(a, b)) <=>
          \/ a.y1 < b.y1 /\ In(x, y, lower)
          \/ b.y2 < a.y2 /\ In(x, y, upper)
          \/ a.x1 < b.x1 /\ In(x, y, left)
          \/ b.x2 < a.x2 /\ In(x, y, right)
    BY <1>4 DEF InSome
  <2> HIDE DEF lower, upper, left, right
  <2> QED
    BY <1>1, <1>2, <1>6, <2>1 DEF In
<1>8. Apart(split_diff(a, b))
  <2>1. SUFFICES ASSUME NEW p \in split_diff(a, b), NEW q \in split_diff(a, b),
                        p # q, NEW x \in Int, NEW y \in Int,
                        In(x, y, p), In(x, y, q)
                 PROVE  FALSE
    BY DEF Apart, Overlap
  <2>2. lo >= b.y1 /\ hi <= b.y2
    BY <1>1
  <2> HIDE DEF lower, upper, left, right, lo, hi
  <2>3. /\ ~(In(x, y, lower) /\ In(x, y, upper))
        /\ ~(In(x, y, lower) /\ In(x, y, left))
        /\ ~(In(x, y, lower) /\ In(x, y, right))
        /\ ~(In(x, y, upper) /\ In(x, y, left))
        /\ ~(In(x, y, upper) /\ In(x, y, right))
        /\ ~(In(x, y, left) /\ In(x, y, right))
    BY <1>1, <1>3, <1>6, <2>2
  <2> QED
    BY <1>4, <2>1, <2>3
<1>9. ASSUME HasArea(a), HasArea(b), NEW p \in split_diff(a, b)
      PROVE  HasArea(p)
  <2>1. lo < hi
    BY <1>1, <1>2, <1>9 DEF HasArea
  <2> QED
    BY <1>1, <1>2, <1>4, <1>9, <2>1 DEF HasArea, Rect
<1> QED
  BY <1>5, <1>7, <1>8, <1>9

\* The same of a piece that s may meet or not.
LEMMA Cut ==
  ASSUME NEW p \in Rects, NEW s \in Rects
  PROVE  /\ cut(p, s) \subseteq Rects
         /\ \A x, y \in Int :
              InSome(x, y, cut(p, s)) <=> In(x, y, p) /\ ~In(x, y, s)
         /\ Apart(cut(p, s))
         /\ HasArea(p) /\ HasArea(s) => \A q \in cut(p, s) : HasArea(q)
<1>1. CASE intersects(p, s)
  BY <1>1, SplitDiff DEF cut
<1>2. CASE ~intersects(p, s)
  <2>1. cut(p, s) = {p}
    BY <1>2 DEF cut
  <2>2. ASSUME NEW x \in Int, NEW y \in Int, In(x, y, p), In(x, y, s)
        PROVE  FALSE
    BY <1>2, <2>2, Corners DEF In, intersects
  <2> QED
    BY <2>1, <2>2 DEF InSome, Apart
<1> QED
  BY <1>1, <1>2

\* What is covered by s has no part outside it.
LEMMA Covered ==
  ASSUME NEW p \in Rects, NEW s \in Rects, covers(s, p),
         NEW x \in Int, NEW y \in Int, In(x, y, p)
  PROVE  In(x, y, s)
BY Corners DEF covers, In

\* A turn of either loop: it may drop pieces that s covers, and cuts the others.
LEMMA Turn ==
  ASSUME UInv, at # "idle", NEW s \in todo,
         NEW kept \in SUBSET pieces,
         \A p \in pieces \ kept : covers(s, p)
  PROVE  LET parts == UNION {cut(p, s) : p \in kept}
         IN  /\ parts \subseteq Rects
             /\ Left(parts, todo \ {s}) /\ Apart(parts) /\ Solid(parts)
<1> DEFINE parts == UNION {cut(p, s) : p \in kept}
<1>1. /\ pieces \subseteq Rects /\ s \in rects /\ s \in Rects
      /\ todo \subseteq rects /\ arg \in Rects
      /\ Left(pieces, todo) /\ Apart(pieces) /\ Solid(pieces)
  BY DEF UInv, UnionTypes, Loop
<1>2. \A q : q \in parts <=> \E p \in kept : q \in cut(p, s)
  OBVIOUS
<1>3. \A p \in kept : p \in Rects
  BY <1>1
<1> HIDE DEF parts
<1>4. parts \subseteq Rects
  BY <1>1, <1>2, <1>3, Cut
<1>5. ASSUME NEW x \in Int, NEW y \in Int
      PROVE  InSome(x, y, parts) <=> InSome(x, y, pieces) /\ ~In(x, y, s)
  <2>1. InSome(x, y, parts) <=> \E p \in kept : InSome(x, y, cut(p, s))
    BY <1>2 DEF InSome
  <2>2. \A p \in kept : InSome(x, y, cut(p, s)) <=> In(x, y, p) /\ ~In(x, y, s)
    BY <1>1, <1>3, Cut
  <2>3. \A p \in pieces \ kept : In(x, y, p) => In(x, y, s)
    BY <1>1, Covered
  <2> QED
    BY <2>1, <2>2, <2>3 DEF InSome
<1>6. Left(parts, todo \ {s})
  <2> SUFFICES ASSUME NEW x \in Int, NEW y \in Int
               PROVE  InSome(x, y, parts) <=>
                        In(x, y, arg) /\ ~InSome(x, y, rects \ (todo \ {s}))
    BY DEF Left
  <2>1. InSome(x, y, rects \ (todo \ {s})) <=>
          InSome(x, y, rects \ todo) \/ In(x, y, s)
    BY <1>1 DEF InSome
  <2> QED
    BY <1>1, <1>5, <2>1 DEF Left
<1>7. Apart(parts)
  <2> SUFFICES ASSUME NEW q \in parts, NEW r \in parts, q # r,
                      NEW x \in Int, NEW y \in Int, In(x, y, q), In(x, y, r)
               PROVE  FALSE
    BY DEF Apart, Overlap
  <2>1. PICK p1 \in kept : q \in cut(p1, s)
    BY <1>2
  <2>2. PICK p2 \in kept : r \in cut(p2, s)
    BY <1>2
  <2>3. InSome(x, y, cut(p1, s)) /\ InSome(x, y, cut(p2, s))
    BY <2>1, <2>2 DEF InSome
  <2>4. In(x, y, p1) /\ In(x, y, p2)
    BY <1>1, <1>3, <2>3, Cut
  <2>5. p1 = p2
    BY <1>1, <2>4 DEF Apart, Overlap
  <2>6. Apart(cut(p1, s))
    BY <1>1, <1>3, Cut
  <2> QED
    BY <2>1, <2>2, <2>5, <2>6 DEF Apart, Overlap
<1>8. Solid(parts)
  <2> SUFFICES ASSUME \A r \in rects \union {arg} : HasArea(r), NEW q \in parts
               PROVE  HasArea(q)
    BY DEF Solid
  <2>1. PICK p \in kept : q \in cut(p, s)
    BY <1>2
  <2>2. HasArea(p) /\ HasArea(s) /\ p \in Rects
    BY <1>1, <1>3 DEF Solid
  <2> QED
    BY <1>1, <2>1, <2>2, Cut
<1> QED
  BY <1>4, <1>6, <1>7, <1>8 DEF parts

\* A loop starts with the whole argument and nothing visited.
LEMMA Begins ==
  ASSUME NEW r \in Rects
  PROVE  /\ \A x, y \in Int : InSome(x, y, {r}) <=> In(x, y, r)
         /\ Apart({r})
         /\ \A x, y \in Int : ~InSome(x, y, rects \ rects)
BY DEF InSome, Apart
-----------------------------------------------------------------------------
LEMMA CallKeeps ==
  ASSUME UInv, NEW r \in Rects, NEW add \in BOOLEAN, Call(r, add)
  PROVE  UInv'
<1>1. UnionTypes'
  BY DEF UInv, UnionTypes, Call
<1>2. Disjoint'
  BY DEF UInv, Disjoint, Call
<1>3. Loop'
  <2>1. Left(pieces, todo)'
    BY Begins DEF Left, Call
  <2>2. Apart(pieces)'
    BY Begins DEF Apart, Overlap, Call
  <2>3. Solid(pieces)'
    BY DEF Solid, Call
  <2> QED
    BY <2>1, <2>2, <2>3 DEF Loop, Call
<1>4. ContainsExact'
  BY DEF ContainsExact, Call
<1> QED
  BY <1>1, <1>2, <1>3, <1>4 DEF UInv

LEMMA VisitKeeps ==
  ASSUME UInv, ContainsTurn \/ AddTurn
  PROVE  UInv'
<1>1. at # "idle"
  BY DEF ContainsTurn, AddTurn
<1>2. PICK s \in todo, kept \in SUBSET pieces :
        /\ \A p \in pieces \ kept : covers(s, p)
        /\ Visit(s, UNION {cut(p, s) : p \in kept})
  <2>1. CASE ContainsTurn
    <3>1. PICK s \in todo :
            Visit(s, UNION {cut(p, s) : p \in {p \in pieces : ~covers(s, p)}})
      BY <2>1 DEF ContainsTurn
    <3> QED
      BY <3>1
  <2>2. CASE AddTurn
    <3>1. PICK s \in todo : Visit(s, UNION {cut(p, s) : p \in pieces})
      BY <2>2 DEF AddTurn
    <3> QED
      BY <3>1
  <2> QED
    BY <2>1, <2>2
<1> DEFINE parts == UNION {cut(p, s) : p \in kept}
<1>3. /\ parts \subseteq Rects
      /\ Left(parts, todo \ {s}) /\ Apart(parts) /\ Solid(parts)
  BY <1>1, <1>2, Turn
<1>4. /\ pieces' = parts /\ todo' = todo \ {s} /\ rects' = rects /\ at' = at
      /\ adding' = adding /\ arg' = arg /\ result' = result
  BY <1>2 DEF Visit
<1> HIDE DEF parts
<1>5. Loop'
  BY <1>3, <1>4 DEF UInv, Loop, Left, Apart, Solid
<1> QED
  BY <1>1, <1>3, <1>4, <1>5
  DEF UInv, UnionTypes, Disjoint, ContainsExact

\* The answer, read off the pieces: none, or one with an area.
LEMMA Answers ==
  ASSUME UInv, at = "contains"
  PROVE  LET covered == \A x, y \in Int : In(x, y, arg) => InSome(x, y, rects)
         IN  /\ pieces = {} => covered
             /\ /\ pieces # {} /\ todo = {}
                /\ \A r \in rects \union {arg} : HasArea(r)
                => ~covered
<1>1. Left(pieces, todo) /\ Solid(pieces) /\ todo \subseteq rects
      /\ pieces \subseteq Rects
  BY DEF UInv, UnionTypes, Loop
<1>2. ASSUME pieces = {}, NEW x \in Int, NEW y \in Int, In(x, y, arg)
      PROVE  InSome(x, y, rects)
  BY <1>1, <1>2 DEF Left, InSome
<1>3. ASSUME pieces # {}, todo = {}, \A r \in rects \union {arg} : HasArea(r)
      PROVE  \E x, y \in Int : In(x, y, arg) /\ ~InSome(x, y, rects)
  <2>1. PICK p \in pieces : HasArea(p)
    BY <1>1, <1>3 DEF Solid
  <2>2. p.x1 \in Int /\ p.y1 \in Int /\ In(p.x1, p.y1, p)
    BY <1>1, <2>1, Corners DEF HasArea, In
  <2>3. InSome(p.x1, p.y1, pieces)
    BY <2>2 DEF InSome
  <2>4. rects \ todo = rects
    BY <1>3
  <2> QED
    BY <1>1, <2>2, <2>3, <2>4 DEF Left
<1> QED
  BY <1>2, <1>3

LEMMA ReturnKeeps ==
  ASSUME UInv, Eaten \/ Survived
  PROVE  UInv'
<1>1. at = "contains" /\ rects' = rects /\ arg' = arg /\ adding' = adding
  BY DEF Eaten, Survived
<1>2. UnionTypes' /\ Disjoint'
  BY <1>1 DEF UInv, UnionTypes, Disjoint, Eaten, Survived
<1>3. Loop'
  <2>1. CASE at' = "idle"
    BY <2>1 DEF Loop
  <2>2. CASE at' # "idle"
    <3>1. at' = "add" /\ pieces' = {arg} /\ todo' = rects
      BY <2>2 DEF Eaten, Survived
    <3>2. arg \in Rects
      BY DEF UInv, UnionTypes
    <3>3. Left(pieces, todo)'
      BY <1>1, <3>1, <3>2, Begins DEF Left
    <3>4. Apart(pieces)' /\ Solid(pieces)'
      BY <1>1, <3>1 DEF Apart, Solid
    <3> QED
      BY <3>1, <3>3, <3>4 DEF Loop, Survived, Eaten
  <2> QED
    BY <2>1, <2>2
<1>4. ContainsExact'
  BY <1>1, Answers DEF ContainsExact, Eaten, Survived, InSome
<1> QED
  BY <1>2, <1>3, <1>4 DEF UInv

\* What add() has left is outside the rectangles and makes the argument up.
LEMMA Leftover ==
  ASSUME UInv, Extended
  PROVE  \A x, y \in Int :
           InSome(x, y, pieces) <=> In(x, y, arg) /\ ~InSome(x, y, rects)
<1>1. Left(pieces, todo) /\ todo = {}
  BY DEF UInv, Loop, Extended
<1>2. rects \ todo = rects
  BY <1>1
<1> QED
  BY <1>1, <1>2 DEF Left

LEMMA ExtendedKeeps ==
  ASSUME UInv, Extended
  PROVE  UInv'
<1>1. UnionTypes'
  BY DEF UInv, UnionTypes, Extended
<1>2. Disjoint'
  <2> SUFFICES ASSUME NEW a \in rects \union pieces, NEW b \in rects \union pieces,
                      a # b, NEW x \in Int, NEW y \in Int,
                      In(x, y, a), In(x, y, b)
               PROVE  FALSE
    BY DEF Disjoint, Overlap, Extended
  <2>1. Apart(pieces) /\ Apart(rects)
    BY DEF UInv, Loop, Extended, Disjoint, Apart
  <2>2. ~(a \in rects /\ b \in rects) /\ ~(a \in pieces /\ b \in pieces)
    BY <2>1 DEF Apart, Overlap
  <2>3. InSome(x, y, pieces) /\ InSome(x, y, rects)
    BY <2>2 DEF InSome
  <2> QED
    BY <2>3, Leftover
<1>3. Loop'
  BY DEF Loop, Extended
<1>4. ContainsExact'
  <2>1. adding
    BY DEF UInv, Loop, Extended
  <2> QED
    BY <2>1 DEF ContainsExact, Extended
<1> QED
  BY <1>1, <1>2, <1>3, <1>4 DEF UInv
-----------------------------------------------------------------------------
\* The strengthened invariant: types, disjoint rectangles, the meaning of the
\* pieces while a loop of contains() or add() runs, and the answer it led to.
THEOREM UnionInvariance == UnionSpec => []UInv
<1>1. UnionInit => UInv
  <2> SUFFICES ASSUME UnionInit PROVE UInv
    OBVIOUS
  <2>1. Rect(0, 0, 0, 0) \in Rects /\ ~HasArea(Rect(0, 0, 0, 0))
    BY RectIn DEF HasArea, Rect
  <2> QED
    BY <2>1 DEF UnionInit, UInv, UnionTypes, Disjoint, Loop, ContainsExact
<1>2. UInv /\ [UnionNext]_unionVars => UInv'
  <2> SUFFICES ASSUME UInv, [UnionNext]_unionVars PROVE UInv'
    OBVIOUS
  <2>1. CASE \E r \in Rects, add \in BOOLEAN : Call(r, add)
    BY <2>1, CallKeeps
  <2>2. CASE ContainsTurn \/ AddTurn
    BY <2>2, VisitKeeps
  <2>3. CASE Eaten \/ Survived
    BY <2>3, ReturnKeeps
  <2>4. CASE Extended
    BY <2>4, ExtendedKeeps
  <2>5. CASE UNCHANGED unionVars
    BY <2>5
    DEF unionVars, UInv, UnionTypes, Disjoint, Loop, Left, Apart, Solid, ContainsExact
  <2> QED
    BY <2>1, <2>2, <2>3, <2>4, <2>5 DEF UnionNext, UnionStep
<1> QED
  BY <1>1, <1>2, PTL DEF UnionSpec

\* RectUnionPure maintains a disjoint set of rectangles.
THEOREM StaysDisjoint == UnionSpec => []Disjoint
<1>1. UInv => Disjoint
  BY DEF UInv
<1> QED
  BY <1>1, UnionInvariance, PTL

\* What contains() calls covered is, and it misses nothing but what lines are
\* involved in.
THEOREM CoverExact == UnionSpec => []ContainsExact
<1>1. UInv => ContainsExact
  BY DEF UInv
<1> QED
  BY <1>1, UnionInvariance, PTL

\* add() extends the union by its argument and by nothing else; nothing else
\* changes the union.
THEOREM AddExact == UnionSpec => AddsExactly
<1> DEFINE A == rects' # rects =>
                  \A x, y \in Int :
                    InSome(x, y, rects') <=> InSome(x, y, rects) \/ In(x, y, arg)
<1>1. UInv /\ [UnionNext]_unionVars => [A]_unionVars
  <2> SUFFICES ASSUME UInv, UnionNext, rects' # rects,
                      NEW x \in Int, NEW y \in Int
               PROVE  InSome(x, y, rects') <=>
                        InSome(x, y, rects) \/ In(x, y, arg)
    OBVIOUS
  <2>1. Extended
    BY DEF UnionNext, UnionStep, Call, ContainsTurn, AddTurn, Visit,
           Eaten, Survived
  <2>2. InSome(x, y, rects') <=> InSome(x, y, rects) \/ InSome(x, y, pieces)
    BY <2>1 DEF Extended, InSome
  <2> QED
    BY <2>1, <2>2, Leftover
<1> QED
  BY <1>1, UnionInvariance, PTL DEF UnionSpec, AddsExactly
-----------------------------------------------------------------------------
\* Induction: every set of natural numbers that is not empty has a least one.
LEMMA Least ==
  ASSUME NEW T, T \subseteq Nat, T # {}
  PROVE  \E x \in T : \A y \in T : x <= y
<1>1. PICK R : R = OpToRel(<, Nat)
  OBVIOUS
<1>2. IsWellFoundedOn(R, Nat)
  BY <1>1, NatLessThanWellFounded
<1>3. PICK x \in T : \A y \in T : ~(<<y, x>> \in R)
  BY <1>2, WFMin
<1>4. \A y \in T : y < x => <<y, x>> \in R
  BY <1>1 DEF OpToRel
<1>5. \A y \in T : ~(y < x)
  BY <1>3, <1>4, Zenon
<1>6. \A y \in T : y \in Nat /\ x \in Nat
  OBVIOUS
<1>7. \A y \in T : x <= y
  BY <1>5, <1>6
<1> QED
  BY <1>7, Zenon

\* The set of the numbers for which something holds: all, if it holds for 0 and
\* for the successor of any number it holds for.
LEMMA Successors ==
  ASSUME NEW N \in Nat, NEW S, 0 \in S,
         \A k \in 0 .. N - 1 : k \in S => k + 1 \in S
  PROVE  \A k \in 0 .. N : k \in S
<1> SUFFICES ASSUME NEW j \in 0 .. N, j \notin S PROVE FALSE
  OBVIOUS
<1> DEFINE T == {k \in 0 .. N : k \notin S}
<1>1. T \subseteq Nat /\ T # {}
  OBVIOUS
<1>2. PICK k \in T : \A y \in T : k <= y
  <2> HIDE DEF T
  <2> QED
    BY <1>1, Least
<1>3. k \in 1 .. N /\ k - 1 \in 0 .. N - 1
  BY <1>2
<1>4. k - 1 \in S
  BY <1>2, <1>3
<1> QED
  BY <1>2, <1>3, <1>4

\* A recursive function whose value at a node is made of that of its parent.
Follows(f, N, b, up, G) ==
  \A n \in 1 .. N : f[n] = IF n = 1 THEN b ELSE G[<<n, f[up[n]]>>]

LEMMA FromParents ==
  ASSUME NEW N \in Nat, NEW V, NEW b \in V, NEW up,
         \A n \in 2 .. N : up[n] \in 1 .. n - 1,
         NEW G \in [(1 .. N) \X V -> V]
  PROVE  \E f \in [1 .. N -> V] : Follows(f, N, b, up, G)
<1> DEFINE Good(k, f) == \A n \in 1 .. k :
             f[n] = IF n = 1 THEN b ELSE G[<<n, f[up[n]]>>]
           S == {k \in 0 .. N : \E f \in [1 .. k -> V] : Good(k, f)}
<1>1. 0 \in S
  <2>1. [n \in 1 .. 0 |-> b] \in [1 .. 0 -> V] /\ Good(0, [n \in 1 .. 0 |-> b])
    OBVIOUS
  <2>2. \E f \in [1 .. 0 -> V] : Good(0, f)
    <3> HIDE DEF Good
    <3> QED
      BY <2>1
  <2>3. 0 \in 0 .. N
    OBVIOUS
  <2> QED
    BY <2>2, <2>3
<1>2. ASSUME NEW k \in 0 .. N - 1, k \in S
      PROVE  k + 1 \in S
  <2>1. PICK f \in [1 .. k -> V] : Good(k, f)
    BY <1>2
  <2> DEFINE v == IF k + 1 = 1 THEN b ELSE G[<<k + 1, f[up[k + 1]]>>]
             g == [n \in 1 .. k + 1 |-> IF n = k + 1 THEN v ELSE f[n]]
  <2>2. v \in V
    BY <1>2
  <2>3. g \in [1 .. k + 1 -> V]
    BY <2>2
  <2>4. g[k + 1] = v /\ \A n \in 1 .. k : g[n] = f[n]
    OBVIOUS
  <2> HIDE DEF g
  <2>5. ASSUME NEW n \in 1 .. k + 1
        PROVE  g[n] = IF n = 1 THEN b ELSE G[<<n, g[up[n]]>>]
    <3>1. n # 1 => up[n] \in 1 .. n - 1
      BY <1>2, <2>5
    <3>2. CASE n = k + 1
      BY <2>4, <3>1, <3>2
    <3>3. CASE n \in 1 .. k
      <4>1. n # 1 => g[up[n]] = f[up[n]]
        BY <2>4, <3>1, <3>3
      <4> QED
        BY <2>1, <2>4, <3>3, <4>1
    <3> QED
      BY <3>2, <3>3
  <2> QED
    BY <1>2, <2>3, <2>5
<1> HIDE DEF S
<1>3. \A k \in 0 .. N - 1 : k \in S => k + 1 \in S
  BY <1>2
<1>4. \A k \in 0 .. N : k \in S
  BY <1>1, <1>3, Successors
<1>5. N \in S
  BY <1>4
<1> QED
  BY <1>5 DEF S, Follows
-----------------------------------------------------------------------------
(* The numbers of a page's nodes, and the functions that are defined along     *)
(* the way from a node to the document.                                       *)

LEMMA PageFacts ==
  ASSUME IsPage(page)
  PROVE  /\ Len(page) \in Nat /\ Nodes = 1 .. Len(page)
         /\ \A n \in Nodes : n \in Nat /\ page[n] \in Node
         /\ \A n \in Nodes : n # 1 => page[n].parent \in 1 .. n - 1
         /\ \A n \in Nodes : n # 1 => page[n].parent \in Nodes
         /\ 1 \in Nodes => tag(1) = "html"
<1>1. page \in Seq(Node) /\ \A n \in DOMAIN page :
        page[n].parent < n /\ (page[n].parent = 0 <=> n = 1) /\ (n = 1 => page[n].tag = "html")
  BY DEF IsPage
<1>2. Len(page) \in Nat /\ Nodes = 1 .. Len(page) /\ \A n \in Nodes : page[n] \in Node
  BY <1>1 DEF Nodes
<1>3. \A n \in Nodes : page[n].parent \in Nat
  BY <1>2 DEF Node
<1> QED
  BY <1>1, <1>2, <1>3 DEF Nodes, tag

\* What holds for the document, and for a node if for its parent, holds for all.
LEMMA Downwards ==
  ASSUME IsPage(page), NEW S, 1 \in Nodes => 1 \in S,
         \A n \in Nodes : n # 1 /\ page[n].parent \in S => n \in S
  PROVE  \A n \in Nodes : n \in S
<1> SUFFICES ASSUME NEW j \in Nodes, j \notin S PROVE FALSE
  OBVIOUS
<1> DEFINE T == {k \in Nodes : k \notin S}
<1>1. T \subseteq Nat /\ T # {}
  BY PageFacts
<1>2. PICK k \in T : \A y \in T : k <= y
  <2> HIDE DEF T
  <2> QED
    BY <1>1, Least
<1>3. k \in Nodes /\ k # 1
  BY <1>2
<1>4. page[k].parent \in Nodes /\ page[k].parent \in 1 .. k - 1 /\ k \in Nat
  BY <1>3, PageFacts
<1>5. page[k].parent \in S
  <2>1. ~(k <= page[k].parent)
    BY <1>4
  <2> QED
    BY <1>2, <1>4, <2>1
<1> QED
  BY <1>2, <1>3, <1>5

LEMMA LineIs ==
  ASSUME IsPage(page)
  PROVE  \A n \in Nodes :
           line[n] = IF n = 1 THEN {n} ELSE line[page[n].parent] \union {n}
<1> DEFINE N == Len(page)
           V == SUBSET Nat
           b == {1}
           up == [n \in 1 .. N |-> page[n].parent]
           G == [nv \in (1 .. N) \X V |-> nv[2] \union {nv[1]}]
<1>1. N \in Nat /\ b \in V /\ G \in [(1 .. N) \X V -> V]
  BY PageFacts
<1>0. \A n \in 2 .. N : up[n] \in 1 .. n - 1
  BY PageFacts
<1>2. \E f \in [1 .. N -> V] : Follows(f, N, b, up, G)
  <2> HIDE DEF N, V, b, up, G
  <2> QED
    BY <1>0, <1>1, FromParents
<1>3. PICK f \in [1 .. N -> V] : \A n \in 1 .. N :
        f[n] = IF n = 1 THEN b ELSE G[<<n, f[up[n]]>>]
  BY <1>2, Zenon DEF Follows
<1>4. \A n \in 1 .. N : f[n] = IF n = 1 THEN {n} ELSE f[page[n].parent] \union {n}
  <2> TAKE n \in 1 .. N
  <2>1. CASE n = 1
    BY <1>3, <2>1
  <2>2. CASE n # 1
    <3>1. page[n].parent \in 1 .. N /\ up[n] = page[n].parent
      BY <2>2, PageFacts
    <3>2. f[page[n].parent] \in V
      BY <3>1
    <3>3. G[<<n, f[page[n].parent]>>] = f[page[n].parent] \union {n}
      BY <3>2
    <3> QED
      BY <1>3, <2>2, <3>1, <3>3
  <2> QED
    BY <2>1, <2>2
<1>5. f = [n \in Nodes |-> IF n = 1 THEN {n} ELSE f[page[n].parent] \union {n}]
  BY <1>4, PageFacts
<1>6. line = [n \in Nodes |-> IF n = 1 THEN {n} ELSE line[page[n].parent] \union {n}]
  BY <1>5, Zenon DEF line
<1> QED
  BY <1>6

LEMMA OffsetIs ==
  ASSUME IsPage(page)
  PROVE  \A n \in Nodes :
           /\ offset[n] \in Int \X Int
           /\ n = 1 => offset[n] = <<0, 0>>
           /\ n # 1 => offset[n] = <<offset[page[n].parent][1] + moves(page[n].parent)[1],
                                     offset[page[n].parent][2] + moves(page[n].parent)[2]>>
<1> DEFINE N == Len(page)
           V == Int \X Int
           b == <<0, 0>>
           up == [n \in 1 .. N |-> page[n].parent]
           mv == [n \in 1 .. N |-> moves(n)]
           G == [nv \in (1 .. N) \X V |->
                   IF nv[1] = 1 THEN b
                   ELSE <<nv[2][1] + mv[up[nv[1]]][1], nv[2][2] + mv[up[nv[1]]][2]>>]
<1>0. \A n \in 1 .. N : mv[n] \in V
  <2> TAKE n \in 1 .. N
  <2>1. page[n] \in Node
    BY PageFacts
  <2> QED
    BY <2>1 DEF moves, Node, Rects
<1>1. N \in Nat /\ b \in V
  BY PageFacts
<1>9. \A n \in 2 .. N : up[n] \in 1 .. n - 1
  BY PageFacts
<1>2. G \in [(1 .. N) \X V -> V]
  <2> DEFINE v(nv) == <<nv[2][1] + mv[up[nv[1]]][1], nv[2][2] + mv[up[nv[1]]][2]>>
  <2>2. ASSUME NEW nv \in (1 .. N) \X V, nv[1] # 1
        PROVE  v(nv) \in V
  <3>4. mv[up[nv[1]]] \in V
    <4>1. nv[1] \in 2 .. N
      BY <2>2
    <4> HIDE DEF N, V, up
    <4>2. up[nv[1]] \in 1 .. nv[1] - 1
      BY <1>9, <4>1
    <4>3. N \in Nat
      BY <1>1
    <4>4. up[nv[1]] \in 1 .. N
      BY <4>1, <4>2, <4>3
    <4> HIDE DEF mv
    <4> QED
      BY <1>0, <4>4
  <3> HIDE DEF mv, up
  <3> QED
    BY <3>4
  <2>3. G = [nv \in (1 .. N) \X V |-> IF nv[1] = 1 THEN b ELSE v(nv)]
    OBVIOUS
  <2> HIDE DEF N, V, b, up, mv, G, v
  <2>4. \A nv \in (1 .. N) \X V : (IF nv[1] = 1 THEN b ELSE v(nv)) \in V
    BY <1>1, <2>2
  <2> QED
    BY <2>3, <2>4
<1>3. \E f \in [1 .. N -> V] : Follows(f, N, b, up, G)
  <2> HIDE DEF N, V, b, up, G
  <2> QED
    BY <1>1, <1>2, <1>9, FromParents
<1>4. PICK f \in [1 .. N -> V] : \A n \in 1 .. N :
        f[n] = IF n = 1 THEN b ELSE G[<<n, f[up[n]]>>]
  BY <1>3, Zenon DEF Follows
<1>5. \A n \in 1 .. N : f[n] = IF n = 1 THEN <<0, 0>> ELSE LET p == page[n].parent
             IN  <<f[p][1] + moves(p)[1], f[p][2] + moves(p)[2]>>
  <2> TAKE n \in 1 .. N
  <2>1. CASE n = 1
    BY <1>4, <2>1
  <2>2. CASE n # 1
    <3>1. page[n].parent \in 1 .. N /\ up[n] = page[n].parent
      BY <2>2, PageFacts
    <3>2. f[page[n].parent] \in V /\ mv[page[n].parent] = moves(page[n].parent)
      BY <3>1
    <3> HIDE DEF mv, up
    <3>3. G[<<n, f[page[n].parent]>>]
            = <<f[page[n].parent][1] + mv[page[n].parent][1],
                f[page[n].parent][2] + mv[page[n].parent][2]>>
      BY <2>2, <3>1, <3>2
    <3> HIDE DEF G
    <3>4. f[n] = G[<<n, f[page[n].parent]>>]
      BY <1>4, <2>2, <3>1
    <3> QED
      BY <2>2, <3>2, <3>3, <3>4
  <2> QED
    BY <2>1, <2>2
<1>6. f = [n \in Nodes |-> IF n = 1 THEN <<0, 0>>
                           ELSE LET p == page[n].parent
             IN  <<f[p][1] + moves(p)[1], f[p][2] + moves(p)[2]>>]
  BY <1>5, PageFacts
<1>7. offset = [n \in Nodes |-> IF n = 1 THEN <<0, 0>>
                                ELSE LET p == page[n].parent
             IN  <<offset[p][1] + moves(p)[1], offset[p][2] + moves(p)[2]>>]
  BY <1>6, Zenon DEF offset
<1>8. \A n \in Nodes : n \in {k \in Nodes : offset[k] \in V}
  <2> DEFINE S == {k \in Nodes : offset[k] \in V}
  <2>1. 1 \in Nodes => 1 \in S
    BY <1>7
  <2>2. ASSUME NEW n \in Nodes, n # 1, page[n].parent \in S
        PROVE  n \in S
    <3>1. page[n].parent \in 1 .. N /\ mv[page[n].parent] = moves(page[n].parent)
      BY <2>2, PageFacts
    <3>2. moves(page[n].parent) \in Int \X Int
      BY <1>0, <3>1
    <3>3. offset[page[n].parent] \in Int \X Int
      BY <2>2
    <3>4. offset[n] = <<offset[page[n].parent][1] + moves(page[n].parent)[1],
                        offset[page[n].parent][2] + moves(page[n].parent)[2]>>
      BY <1>7, <2>2
    <3> QED
      BY <3>2, <3>3, <3>4
  <2> HIDE DEF S
  <2>3. \A n \in Nodes : n # 1 /\ page[n].parent \in S => n \in S
    BY <2>2
  <2>4. \A n \in Nodes : n \in S
    BY <2>1, <2>3, Downwards
  <2> QED
    BY <2>4 DEF S
<1> QED
  BY <1>7, <1>8

LEMMA Shifted ==
  ASSUME NEW r \in Rects, NEW dx \in Int, NEW dy \in Int
  PROVE  /\ Shift(r, dx, dy) \in Rects
         /\ HasArea(Shift(r, dx, dy)) <=> HasArea(r)
<1>1. /\ r.x1 \in Int /\ r.y1 \in Int /\ r.x2 \in Int /\ r.y2 \in Int
      /\ r.x1 <= r.x2 /\ r.y1 <= r.y2
  BY Corners
<1>2. /\ r.x1 + dx \in Int /\ r.y1 + dy \in Int /\ r.x2 + dx \in Int /\ r.y2 + dy \in Int
      /\ r.x1 + dx <= r.x2 + dx /\ r.y1 + dy <= r.y2 + dy
      /\ r.x1 + dx < r.x2 + dx <=> r.x1 < r.x2
      /\ r.y1 + dy < r.y2 + dy <=> r.y1 < r.y2
  BY <1>1
<1> QED
  BY <1>2, RectIn DEF Shift, HasArea, Rect

\* What the visibility check may come to: it moves a rectangle and leaves its size.
Moved(n) == {v \in [shown : BOOLEAN, rect : Rects] :
               HasArea(v.rect) <=> HasArea(page[n].rect)}

LEMMA MovesIn ==
  ASSUME IsPage(page), NEW m \in Nodes
  PROVE  moves(m) \in Int \X Int
<1>1. page[m] \in Node
  BY PageFacts
<1> QED
  BY <1>1 DEF moves, Node, Rects

LEMMA InFrame ==
  ASSUME IsPage(page), NEW n \in Nodes, NEW f \in Nodes, NEW b \in Moved(n),
         tag(f) \in {"html", "iframe", "oopif"}
  PROVE  LET r == Shift(b.rect, moves(f)[1], moves(f)[2])
             shown == f \in Frames \/ Intersects(r, page[f].view, Margin)
         IN  /\ in_frame(n, f, b) \in Moved(n)
             /\ in_frame(n, f, b).shown <=> b.shown /\ shown
             /\ (f # n \/ b.rect = page[n].rect) /\ b.shown /\ shown
                  => in_frame(n, f, b).rect = r
<1> DEFINE d == IF f \in Frames
                  THEN IF f = n THEN <<b.rect.x1, b.rect.y1>> ELSE moves(f)
                  ELSE <<0, -page[f].scroll>>
           q == Shift(b.rect, d[1], d[2])
<1>1. b \in [shown : BOOLEAN, rect : Rects] /\ (HasArea(b.rect) <=> HasArea(page[n].rect))
  BY DEF Moved
<1>2. page[f] \in Node /\ moves(f) \in Int \X Int
  BY PageFacts, MovesIn
<1>3. page[f].scroll \in Nat /\ b.rect \in Rects
  BY <1>1, <1>2 DEF Node
<1>4. d \in Int \X Int
  BY <1>1, <1>2, <1>3, Corners
<1>5. q \in Rects /\ (HasArea(q) <=> HasArea(page[n].rect))
  BY <1>1, <1>4, Shifted
<1>6. f \notin Frames => tag(f) = "html" /\ d = moves(f)
  BY <1>3 DEF Frames, moves
<1>7. f \in Frames => tag(f) # "html"
  BY DEF Frames
<1>8. f \in Frames => moves(f) = <<page[f].rect.x1, page[f].rect.y1>>
  BY <1>7 DEF moves
<1>9. f # n => d = moves(f)
  BY <1>6
<1>10. in_frame(n, f, b) = IF ~b.shown THEN b
                           ELSE IF f \in Frames \/ Intersects(q, page[f].view, Margin)
                             THEN [b EXCEPT !.rect = q]
                             ELSE [b EXCEPT !.shown = FALSE]
  BY <1>1, <1>8 DEF in_frame
<1> HIDE DEF q, d
<1>11. in_frame(n, f, b) \in Moved(n)
  BY <1>1, <1>5, <1>10 DEF Moved
<1>12. in_frame(n, f, b).shown
         <=> b.shown /\ (f \in Frames \/ Intersects(q, page[f].view, Margin))
  BY <1>1, <1>10
<1>13. b.shown /\ (f \in Frames \/ Intersects(q, page[f].view, Margin))
         => in_frame(n, f, b).rect = q
  BY <1>1, <1>10
<1>14. (f \notin Frames \/ f # n \/ b.rect = page[n].rect)
           => q = Shift(b.rect, moves(f)[1], moves(f)[2])
  BY <1>6, <1>8, <1>9 DEF q, d
<1> QED
  BY <1>11, <1>12, <1>13, <1>14

unmoved(n) == [shown |-> ~page[n].invisible, rect |-> page[n].rect]

LEMMA SeenIs ==
  ASSUME IsPage(page), NEW n \in Nodes
  PROVE  /\ seen(n)[Len(page) + 1] = unmoved(n)
         /\ \A m \in Nodes :
              seen(n)[m] = IF m \in html_frames(n) THEN in_frame(n, m, seen(n)[m + 1])
                                                   ELSE seen(n)[m + 1]
         /\ \A m \in 1 .. Len(page) + 1 : seen(n)[m] \in Moved(n)
<1> DEFINE L == Len(page)
           N == L + 1
           V == Moved(n)
           b == unmoved(n)
           up == [k \in 1 .. N |-> k - 1]
           turn(m, v) == IF m \in html_frames(n) THEN in_frame(n, m, v) ELSE v
           G == [kv \in (1 .. N) \X V |-> IF kv[1] = 1 THEN b ELSE turn(N + 1 - kv[1], kv[2])]
<1>0. L \in Nat /\ N \in Nat /\ Nodes = 1 .. L
  BY PageFacts
<1>1. b \in V
  <2>1. page[n] \in Node
    BY PageFacts
  <2> QED
    BY <2>1 DEF Node, unmoved, Moved
<1>2. ASSUME NEW m \in Nodes, NEW v \in V PROVE turn(m, v) \in V
  <2>1. m \in html_frames(n) => tag(m) \in {"html", "iframe", "oopif"}
    BY DEF html_frames
  <2>2. m \in html_frames(n) => in_frame(n, m, v) \in V
    BY <2>1, InFrame
  <2> QED
    BY <2>2
<1>3. \A k \in 2 .. N : up[k] \in 1 .. k - 1
  BY <1>0
<1>4. G \in [(1 .. N) \X V -> V]
  <2>1. ASSUME NEW kv \in (1 .. N) \X V, kv[1] # 1
        PROVE  turn(N + 1 - kv[1], kv[2]) \in V
    <3>1. N + 1 - kv[1] \in Nodes /\ kv[2] \in V
      BY <1>0, <2>1
    <3> QED
      BY <1>2, <3>1
  <2> HIDE DEF N, V, b, turn
  <2> QED
    BY <1>1, <2>1
<1>5. \E f \in [1 .. N -> V] : Follows(f, N, b, up, G)
  <2> HIDE DEF N, V, b, up, G
  <2> QED
    BY <1>0, <1>1, <1>3, <1>4, FromParents
<1>6. PICK f \in [1 .. N -> V] : \A k \in 1 .. N :
        f[k] = IF k = 1 THEN b ELSE G[<<k, f[up[k]]>>]
  BY <1>5, Zenon DEF Follows
<1> DEFINE s == [m \in 1 .. L + 1 |-> f[N + 1 - m]]
<1>7. \A m \in 1 .. L + 1 : s[m] \in V
  <2> HIDE DEF V
  <2> QED
    BY <1>0, <1>6
<1>8. s[L + 1] = b
  <2>1. 1 \in 1 .. N /\ L + 1 \in 1 .. L + 1 /\ N + 1 - (L + 1) = 1
    BY <1>0
  <2>2. f[1] = b
    BY <1>6, <2>1
  <2> HIDE DEF b, N
  <2> QED
    BY <2>1, <2>2
<1>9. ASSUME NEW m \in Nodes PROVE s[m] = turn(m, s[m + 1])
  <2> DEFINE k == N + 1 - m
  <2>1. k \in 1 .. N /\ k # 1 /\ up[k] = k - 1 /\ k - 1 \in 1 .. N /\ m \in 1 .. L + 1
        /\ m + 1 \in 1 .. L + 1 /\ N + 1 - (m + 1) = k - 1 /\ N + 1 - k = m
    BY <1>0
  <2>2. s[m] = f[k] /\ s[m + 1] = f[k - 1]
    BY <2>1
  <2> HIDE DEF k, up, s
  <2>3. f[k] = G[<<k, f[k - 1]>>]
    BY <1>6, <2>1
  <2>4. f[k - 1] \in V
    BY <1>6, <2>1
  <2>5. <<k, f[k - 1]>> \in (1 .. N) \X V
    BY <2>1, <2>4
  <2> HIDE DEF N, V, turn, b
  <2>6. G[<<k, f[k - 1]>>] = turn(N + 1 - k, f[k - 1])
    BY <2>1, <2>5
  <2> QED
    BY <2>1, <2>2, <2>3, <2>6
<1>10. s = [m \in 1 .. Len(page) + 1 |->
              IF m > Len(page) THEN [shown |-> ~page[n].invisible, rect |-> page[n].rect]
              ELSE IF m \in html_frames(n) THEN in_frame(n, m, s[m + 1])
              ELSE s[m + 1]]
  <2> DEFINE e(m) == IF m > Len(page)
                       THEN [shown |-> ~page[n].invisible, rect |-> page[n].rect]
                     ELSE IF m \in html_frames(n) THEN in_frame(n, m, s[m + 1])
                     ELSE s[m + 1]
  <2> HIDE DEF s
  <2>1. ASSUME NEW m \in 1 .. L + 1 PROVE s[m] = e(m)
    <3>1. CASE m = L + 1
      BY <1>0, <1>8, <3>1 DEF unmoved
    <3>2. CASE m \in Nodes
      <4>1. ~(m > Len(page))
        BY <1>0, <3>2
      <4> QED
        BY <1>9, <3>2, <4>1
    <3> QED
      BY <1>0, <3>1, <3>2
  <2>2. s = [m \in 1 .. L + 1 |-> s[m]]
    BY DEF s
  <2> HIDE DEF e
  <2>3. s = [m \in 1 .. L + 1 |-> e(m)]
    BY <2>1, <2>2
  <2> QED
    BY <2>3 DEF e
<1>11. seen(n) = [m \in 1 .. Len(page) + 1 |->
              IF m > Len(page) THEN [shown |-> ~page[n].invisible, rect |-> page[n].rect]
              ELSE IF m \in html_frames(n) THEN in_frame(n, m, seen(n)[m + 1])
              ELSE seen(n)[m + 1]]
  <2> HIDE DEF s
  <2> QED
    BY <1>10, Zenon DEF seen
<1>12. seen(n)[L + 1] = b
  <2>1. L + 1 \in 1 .. Len(page) + 1 /\ L + 1 > Len(page)
    BY <1>0
  <2> QED
    BY <1>11, <2>1 DEF unmoved
<1>13. ASSUME NEW m \in Nodes PROVE seen(n)[m] = turn(m, seen(n)[m + 1])
  <2>1. m \in 1 .. Len(page) + 1 /\ ~(m > Len(page))
    BY <1>0
  <2> QED
    BY <1>11, <2>1
<1>14. \A m \in 1 .. L + 1 : seen(n)[m] \in V
  <2> DEFINE S == {k \in 0 .. L : seen(n)[L + 1 - k] \in V}
  <2>1. 0 \in S
    <3>1. 0 \in 0 .. L /\ L + 1 - 0 = L + 1
      BY <1>0
    <3> HIDE DEF L, V, b
    <3> QED
      BY <1>1, <1>12, <3>1
  <2>2. ASSUME NEW k \in 0 .. L - 1, k \in S PROVE k + 1 \in S
    <3> DEFINE m == L + 1 - (k + 1)
    <3>1. m \in Nodes /\ m + 1 = L + 1 - k /\ k + 1 \in 0 .. L
      BY <1>0
    <3>2. seen(n)[m + 1] \in V
      BY <2>2, <3>1
    <3> HIDE DEF m, V, turn
    <3>3. seen(n)[m] \in V
      BY <1>2, <1>13, <3>1, <3>2
    <3> QED
      BY <3>1, <3>3 DEF m
  <2> HIDE DEF S
  <2>3. \A k \in 0 .. L - 1 : k \in S => k + 1 \in S
    BY <2>2
  <2>4. \A k \in 0 .. L : k \in S
    BY <1>0, <2>1, <2>3, Successors
  <2> TAKE m \in 1 .. L + 1
  <2>5. L + 1 - m \in 0 .. L /\ L + 1 - (L + 1 - m) = m
    BY <1>0
  <2> HIDE DEF V
  <2> QED
    BY <2>4, <2>5 DEF S
<1> QED
  BY <1>12, <1>13, <1>14
-----------------------------------------------------------------------------
(* The visibility check, frame by frame: what it has come to after each.       *)

\* The nodes around n and n itself are the ancestors of one another.
LEMMA Lines ==
  ASSUME IsPage(page)
  PROVE  \A n \in Nodes :
           /\ n \in line[n] /\ line[n] \subseteq 1 .. n
           /\ \A a \in line[n] : a \in Nodes /\ line[a] \subseteq line[n]
           /\ \A a, b \in line[n] : a <= b => a \in line[b]
<1> DEFINE Good(n) == /\ n \in line[n] /\ line[n] \subseteq 1 .. n
                      /\ \A a \in line[n] : a \in Nodes /\ line[a] \subseteq line[n]
                      /\ \A a, b \in line[n] : a <= b => a \in line[b]
           S == {n \in Nodes : Good(n)}
<1>1. 1 \in Nodes => 1 \in S
  <2>1. 1 \in Nodes => line[1] = {1}
    BY LineIs
  <2> QED
    BY <2>1
<1>2. ASSUME NEW n \in Nodes, n # 1, page[n].parent \in S
      PROVE  n \in S
  <2> DEFINE p == page[n].parent
  <2>1. p \in Nodes /\ p \in 1 .. n - 1 /\ n \in Nat
    BY <1>2, PageFacts
  <2>2. line[n] = line[p] \union {n} /\ Good(p)
    BY <1>2, LineIs
  <2> HIDE DEF p
  <2>3. line[n] \subseteq 1 .. n /\ n \in line[n]
    BY <2>1, <2>2
  <2>4. ASSUME NEW a \in line[n] PROVE a \in Nodes /\ line[a] \subseteq line[n]
    BY <2>2
  <2>5. ASSUME NEW a \in line[n], NEW b \in line[n], a <= b PROVE a \in line[b]
    <3>1. CASE b = n
      BY <3>1
    <3>2. CASE b \in line[p]
      <4>1. b <= p /\ b \in Int
        BY <2>1, <2>2, <3>2
      <4>2. a # n
        BY <2>1, <2>5, <4>1
      <4>3. a \in line[p]
        BY <2>2, <4>2
      <4> QED
        BY <2>2, <2>5, <3>2, <4>3
    <3> QED
      BY <2>2, <3>1, <3>2
  <2>6. Good(n)
    BY <2>3, <2>4, <2>5
  <2> HIDE DEF Good
  <2> QED
    BY <2>6
<1> HIDE DEF S
<1>3. \A n \in Nodes : n # 1 /\ page[n].parent \in S => n \in S
  BY <1>2
<1>4. \A n \in Nodes : n \in S
  BY <1>1, <1>3, Downwards
<1> QED
  BY <1>4 DEF S

LEMMA Aboves ==
  ASSUME IsPage(page), NEW n \in Nodes
  PROVE  /\ above(n) \subseteq Nodes
         /\ \A a \in above(n) : a < n /\ above(a) \subseteq above(n) /\ a \notin above(a)
         /\ \A a, b \in above(n) : a < b => a \in above(b)
<1>1. /\ n \in line[n] /\ line[n] \subseteq 1 .. n /\ n \in Nat
      /\ \A a \in line[n] : a \in Nodes /\ line[a] \subseteq line[n]
      /\ \A a, b \in line[n] : a <= b => a \in line[b]
  BY Lines, PageFacts
<1>2. ASSUME NEW a \in above(n)
      PROVE  a < n /\ above(a) \subseteq above(n) /\ a \notin above(a)
  <2>1. a \in line[n] /\ a # n /\ a \in 1 .. n /\ line[a] \subseteq 1 .. a
    BY <1>1, Lines DEF above
  <2>2. a < n
    BY <1>1, <2>1
  <2>3. n \notin line[a]
    BY <2>1, <2>2
  <2> QED
    BY <1>1, <2>1, <2>2, <2>3 DEF above
<1>3. ASSUME NEW a \in above(n), NEW b \in above(n), a < b
      PROVE  a \in above(b)
  <2>1. a \in line[n] /\ b \in line[n] /\ a \in Int /\ b \in Int
    BY <1>1 DEF above
  <2>2. a <= b /\ a # b
    BY <1>3, <2>1
  <2> QED
    BY <1>1, <2>1, <2>2 DEF above
<1> QED
  BY <1>1, <1>2, <1>3 DEF above

\* The next node of a line is the child of the one before it.
LEMMA NextOfLine ==
  ASSUME IsPage(page), NEW n \in Nodes, NEW m \in line[n], NEW c \in line[n],
         m < c, \A k \in line[n] : m < k => c <= k
  PROVE  page[c].parent = m
<1> DEFINE p == page[c].parent
<1>1. /\ m \in Int /\ c \in Nodes /\ c \in Int /\ m \in 1 .. n
      /\ \A a \in line[n] : a \in Nodes /\ line[a] \subseteq line[n]
      /\ m \in line[c]
  BY Lines, PageFacts
<1>2. c # 1
  BY <1>1
<1>3. p \in 1 .. c - 1 /\ p \in Nodes /\ line[c] = line[p] \union {c}
  BY <1>1, <1>2, PageFacts, LineIs
<1>4. p \in line[n]
  BY <1>1, <1>3, Lines
<1>5. m \in line[p]
  BY <1>1, <1>3
<1>6. m <= p
  <2>1. line[p] \subseteq 1 .. p
    BY <1>3, Lines
  <2> QED
    BY <1>5, <2>1
<1> HIDE DEF p
<1>7. ~(c <= p)
  BY <1>1, <1>3
<1>8. ~(m < p)
  BY <1>4, <1>7
<1>9. p = m
  BY <1>1, <1>3, <1>6, <1>8
<1> QED
  BY <1>9 DEF p

\* A node is visible when it is near the viewport of each of its documents, moved
\* as its own list of frames moves it.
Seen(n, h) ==
  Intersects(Shift(page[n].rect, moves(n)[1] + offset[n][1] - offset[h][1],
                                 moves(n)[2] + offset[n][2] - offset[h][2]),
             page[h].view, Margin)

LEMMA ShiftTwice ==
  ASSUME NEW r \in Rects, NEW a \in Int, NEW b \in Int, NEW c \in Int, NEW d \in Int
  PROVE  Shift(Shift(r, a, b), c, d) = Shift(r, a + c, b + d)
<1>1. r.x1 \in Int /\ r.y1 \in Int /\ r.x2 \in Int /\ r.y2 \in Int
  BY Corners
<1>2. /\ (r.x1 + a) + c = r.x1 + (a + c) /\ (r.x2 + a) + c = r.x2 + (a + c)
      /\ (r.y1 + b) + d = r.y1 + (b + d) /\ (r.y2 + b) + d = r.y2 + (b + d)
  BY <1>1
<1> QED
  BY <1>2 DEF Shift, Rect

\* Where n is for its ancestor m.
From(n, m) == Shift(page[n].rect, moves(n)[1] + offset[n][1] - offset[m][1],
                                  moves(n)[2] + offset[n][2] - offset[m][2])

OfOneTarget(n, m) == \A o \in above(n) : tag(o) = "oopif" => m > o

\* What has come of n after the frames from the m-th node on.
SoFar(n, m) ==
  /\ seen(n)[m].shown
       <=> /\ ~page[n].invisible
           /\ \A h \in html_frames(n) : tag(h) = "html" /\ m <= h => Seen(n, h)
  /\ seen(n)[m].shown =>
       /\ m > n => seen(n)[m].rect = page[n].rect
       /\ m <= n /\ OfOneTarget(n, m) =>
            \A a \in line[n] : m <= a /\ (\A k \in line[n] : m <= k => a <= k)
                                 => seen(n)[m].rect = From(n, a)

LEMMA SeenFrom ==
  ASSUME IsPage(page), NEW n \in Nodes, NEW m \in line[n], SoFar(n, m + 1),
         OfOneTarget(n, m), seen(n)[m + 1].shown
  PROVE  Shift(seen(n)[m + 1].rect, moves(m)[1], moves(m)[2]) = From(n, m)
<1>1. /\ n \in line[n] /\ line[n] \subseteq 1 .. n /\ n \in Nat /\ m \in Nat /\ m <= n
      /\ \A a \in line[n] : a \in Nodes
  BY Lines, PageFacts
<1>2. page[n].rect \in Rects
  <2>1. page[n] \in Node
    BY PageFacts
  <2> QED
    BY <2>1 DEF Node
<1>3. /\ moves(n) \in Int \X Int /\ moves(m) \in Int \X Int
      /\ offset[n] \in Int \X Int /\ offset[m] \in Int \X Int
  BY <1>1, MovesIn, OffsetIs
<1>4. CASE m = n
  <2>1. seen(n)[m + 1].rect = page[n].rect
    BY <1>1, <1>4 DEF SoFar
  <2>2. /\ moves(n)[1] + offset[n][1] - offset[n][1] = moves(n)[1]
        /\ moves(n)[2] + offset[n][2] - offset[n][2] = moves(n)[2]
    BY <1>3
  <2> QED
    BY <1>4, <2>1, <2>2 DEF From
<1>5. CASE m # n
  <2> DEFINE T == {k \in line[n] : m < k}
  <2>1. n \in T /\ T \subseteq Nat
    BY <1>1, <1>5
  <2>2. PICK c \in T : \A k \in T : c <= k
    <3> HIDE DEF T
    <3> QED
      BY <2>1, Least
  <2>3. /\ c \in line[n] /\ m < c /\ c \in Nodes /\ c \in Nat
        /\ \A k \in line[n] : m < k => c <= k
    BY <1>1, <2>2
  <2> HIDE DEF T
  <2>4. page[c].parent = m /\ c # 1
    BY <1>1, <2>3, NextOfLine
  <2>5. offset[c] = <<offset[m][1] + moves(m)[1], offset[m][2] + moves(m)[2]>>
    BY <2>3, <2>4, OffsetIs
  <2>6. seen(n)[m + 1].rect = From(n, c)
    <3>1. m + 1 <= n /\ m + 1 <= c
      BY <1>1, <1>5, <2>3
    <3>2. OfOneTarget(n, m + 1)
      <4>1. \A o \in above(n) : o \in Nat
        BY <1>1 DEF above
      <4> QED
        BY <1>1, <4>1 DEF OfOneTarget
    <3>3. \A k \in line[n] : m + 1 <= k => c <= k
      BY <1>1, <2>3
    <3> QED
      BY <2>3, <3>1, <3>2, <3>3 DEF SoFar
  <2>7. offset[c] \in Int \X Int
    BY <2>3, OffsetIs
  <2> DEFINE dx == moves(n)[1] + offset[n][1] - offset[c][1]
             dy == moves(n)[2] + offset[n][2] - offset[c][2]
  <2>8. dx \in Int /\ dy \in Int /\ moves(m)[1] \in Int /\ moves(m)[2] \in Int
    BY <1>3, <2>7
  <2>9. /\ dx + moves(m)[1] = moves(n)[1] + offset[n][1] - offset[m][1]
        /\ dy + moves(m)[2] = moves(n)[2] + offset[n][2] - offset[m][2]
    BY <1>3, <2>5
  <2>10. From(n, c) = Shift(page[n].rect, dx, dy)
    BY DEF From
  <2> HIDE DEF dx, dy
  <2> DEFINE r == page[n].rect
             ex == moves(m)[1]
             ey == moves(m)[2]
  <2>11. Shift(From(n, c), ex, ey) = Shift(r, dx + ex, dy + ey)
    <3>1. r \in Rects /\ ex \in Int /\ ey \in Int /\ From(n, c) = Shift(r, dx, dy)
      BY <1>2, <2>8, <2>10
    <3> HIDE DEF r, ex, ey
    <3> QED
      BY <2>8, <3>1, ShiftTwice
  <2> QED
    BY <2>6, <2>9, <2>11 DEF From
<1> QED
  BY <1>4, <1>5

LEMMA OneFrameMore ==
  ASSUME IsPage(page), NEW n \in Nodes, NEW m \in Nodes, SoFar(n, m + 1)
  PROVE  SoFar(n, m)
<1> DEFINE s == seen(n)
<1>1. /\ n \in line[n] /\ line[n] \subseteq 1 .. n /\ n \in Nat /\ m \in Nat
      /\ \A a \in line[n] : a \in Nodes
  BY Lines, PageFacts
<1>2. /\ s[m] = IF m \in html_frames(n) THEN in_frame(n, m, s[m + 1]) ELSE s[m + 1]
      /\ s[m + 1] \in Moved(n) /\ s[m + 1].shown \in BOOLEAN
  <2>1. m + 1 \in 1 .. Len(page) + 1
    BY PageFacts
  <2> QED
    BY <2>1, SeenIs DEF Moved
<1>3. html_frames(n) \subseteq line[n]
  BY DEF html_frames
<1>4. \A h \in html_frames(n) : h \in Nat /\ (m <= h <=> h = m \/ m + 1 <= h)
  BY <1>1, <1>3
<1>5. ASSUME m \notin html_frames(n)
      PROVE  /\ s[m] = s[m + 1]
             /\ s[m].shown
                  <=> /\ ~page[n].invisible
                      /\ \A h \in html_frames(n) : tag(h) = "html" /\ m <= h => Seen(n, h)
  BY <1>2, <1>4, <1>5 DEF SoFar
<1>6. CASE m \notin line[n]
  <2>1. s[m] = s[m + 1]
    BY <1>3, <1>5, <1>6
  <2>2. m # n /\ (m > n => m + 1 > n) /\ (m <= n => m + 1 <= n)
    BY <1>1, <1>6
  <2>3. OfOneTarget(n, m) => OfOneTarget(n, m + 1)
    <3>1. \A o \in above(n) : o \in Nat
      BY <1>1 DEF above
    <3> QED
      BY <1>1, <3>1 DEF OfOneTarget
  <2>4. \A k \in line[n] : m <= k <=> m + 1 <= k
    BY <1>1, <1>6
  <2> QED
    BY <1>3, <1>5, <1>6, <2>1, <2>2, <2>3, <2>4 DEF SoFar
<1>7. CASE m \in line[n]
  <2>1. ~(m > n) /\ \A a \in line[n] : m <= a /\ (\A k \in line[n] : m <= k => a <= k) => a = m
    BY <1>1, <1>7
  <2>2. OfOneTarget(n, m) /\ s[m + 1].shown
          => Shift(s[m + 1].rect, moves(m)[1], moves(m)[2]) = From(n, m)
    BY <1>7, SeenFrom
  <2>3. CASE m \in html_frames(n)
    <3>1. tag(m) \in {"html", "iframe", "oopif"} /\ OfOneTarget(n, m)
      BY <2>3 DEF html_frames, OfOneTarget
    <3> DEFINE r == Shift(s[m + 1].rect, moves(m)[1], moves(m)[2])
               shown == m \in Frames \/ Intersects(r, page[m].view, Margin)
    <3>2. /\ in_frame(n, m, s[m + 1]).shown <=> s[m + 1].shown /\ shown
          /\ (m # n \/ s[m + 1].rect = page[n].rect) /\ s[m + 1].shown /\ shown
               => in_frame(n, m, s[m + 1]).rect = r
      BY <1>2, <3>1, InFrame
    <3>3. s[m + 1].shown /\ m = n => s[m + 1].rect = page[n].rect
      BY <1>1 DEF SoFar
    <3>4. s[m + 1].shown => r = From(n, m)
      BY <2>2, <3>1
    <3>5. s[m + 1].shown => (shown <=> (tag(m) = "html" => Seen(n, m)))
      <4>1. m \in Frames <=> tag(m) # "html"
        BY <3>1 DEF Frames
      <4> HIDE DEF r
      <4> QED
        BY <3>4, <4>1 DEF Seen, From
    <3> HIDE DEF r, shown
    <3>6. s[m].shown <=> s[m + 1].shown /\ (tag(m) = "html" => Seen(n, m))
      BY <1>2, <2>3, <3>2, <3>5
    <3>7. s[m].shown => s[m].rect = From(n, m)
      BY <1>2, <2>3, <3>2, <3>3, <3>4, <3>5, <3>6
    <3>8. s[m].shown
            <=> /\ ~page[n].invisible
                /\ \A h \in html_frames(n) : tag(h) = "html" /\ m <= h => Seen(n, h)
      BY <1>4, <2>3, <3>6 DEF SoFar
    <3> QED
      BY <2>1, <3>7, <3>8 DEF SoFar
  <2>4. CASE m \notin html_frames(n)
    <3>1. OfOneTarget(n, m) => tag(m) \notin {"html", "iframe", "oopif"}
      BY <1>7, <2>4 DEF html_frames, OfOneTarget
    <3>2. OfOneTarget(n, m) => moves(m) = <<0, 0>>
      BY <3>1 DEF moves, Frames
    <3>3. s[m + 1].rect \in Rects
      BY <1>2 DEF Moved
    <3>4. Shift(s[m + 1].rect, 0, 0) = s[m + 1].rect
      <4>1. s[m + 1].rect \in [x1 : Int, y1 : Int, x2 : Int, y2 : Int]
        BY <3>3 DEF Rects
      <4> HIDE DEF s
      <4> QED
        BY <4>1 DEF Shift, Rect
    <3>5. s[m].shown /\ OfOneTarget(n, m) => s[m].rect = From(n, m)
      BY <1>5, <2>2, <2>4, <3>2, <3>4
    <3> QED
      BY <1>5, <2>1, <2>4, <3>5 DEF SoFar
  <2> QED
    BY <2>3, <2>4
<1> QED
  BY <1>6, <1>7

LEMMA VisibleWhen ==
  ASSUME IsPage(page), NEW n \in Nodes
  PROVE  /\ visibility(n) \in Moved(n)
         /\ visibility(n).shown
              <=> /\ ~page[n].invisible
                  /\ \A h \in html_frames(n) : tag(h) = "html" => Seen(n, h)
<1> DEFINE L == Len(page)
           S == {k \in 0 .. L : SoFar(n, L + 1 - k)}
<1>1. /\ L \in Nat /\ Nodes = 1 .. L /\ n \in Nat /\ n <= L
      /\ \A h \in html_frames(n) : h \in 1 .. n
  BY PageFacts, Lines DEF html_frames
<1>2. SoFar(n, L + 1)
  <2>1. seen(n)[L + 1] = unmoved(n)
    BY SeenIs
  <2>2. L + 1 > n /\ ~(L + 1 <= n) /\ \A h \in html_frames(n) : ~(L + 1 <= h)
    BY <1>1
  <2>3. page[n] \in Node
    BY PageFacts
  <2>4. unmoved(n).shown = ~page[n].invisible /\ unmoved(n).rect = page[n].rect
    BY DEF unmoved
  <2> HIDE DEF L
  <2> QED
    BY <2>1, <2>2, <2>4 DEF SoFar
<1>3. 0 \in S
  <2>1. 0 \in 0 .. L /\ L + 1 - 0 = L + 1
    BY <1>1
  <2> HIDE DEF L
  <2> QED
    BY <1>2, <2>1
<1>4. ASSUME NEW k \in 0 .. L - 1, k \in S PROVE k + 1 \in S
  <2> DEFINE m == L + 1 - (k + 1)
  <2>1. m \in Nodes /\ m + 1 = L + 1 - k /\ k + 1 \in 0 .. L
    BY <1>1
  <2>2. SoFar(n, m + 1)
    BY <1>4, <2>1
  <2> HIDE DEF m
  <2>3. SoFar(n, m)
    BY <2>1, <2>2, OneFrameMore
  <2> QED
    BY <2>1, <2>3 DEF m
<1> HIDE DEF S
<1>5. \A k \in 0 .. L - 1 : k \in S => k + 1 \in S
  BY <1>4
<1>6. \A k \in 0 .. L : k \in S
  BY <1>1, <1>3, <1>5, Successors
<1>7. SoFar(n, 1)
  <2>1. L \in 0 .. L /\ L + 1 - L = 1
    BY <1>1
  <2> HIDE DEF L
  <2> QED
    BY <1>6, <2>1 DEF S
<1>8. \A h \in html_frames(n) : 1 <= h
  BY <1>1
<1>9. visibility(n) \in Moved(n)
  BY <1>1, SeenIs DEF visibility
<1> QED
  BY <1>7, <1>8, <1>9 DEF SoFar, visibility

\* The visibility check finds out what is on the screen, of all but frames that it
\* moves twice, and whatever it finds is not invisible.  It changes no size.
LEMMA Visibility ==
  ASSUME IsPage(page), NEW n \in Nodes
  PROVE  /\ visibility(n).shown => ~page[n].invisible /\ (NearViewport(n) \/ CountedTwice(n))
         /\ ~CountedTwice(n) => (visibility(n).shown <=> OnScreen(n))
         /\ visibility(n).rect \in Rects
         /\ HasArea(visibility(n).rect) <=> HasArea(page[n].rect)
<1>1. /\ page[n].rect \in Rects /\ page[n].scroll \in Nat
      /\ moves(n) \in Int \X Int /\ offset[n] \in Int \X Int
  <2>1. page[n] \in Node
    BY PageFacts
  <2> QED
    BY <2>1, MovesIn, OffsetIs DEF Node
<1>2. ASSUME ~CountedTwice(n), NEW h \in html_frames(n)
      PROVE  Shift(Place(n), -offset[h][1], -offset[h][2]) = From(n, h)
  <2>1. offset[h] \in Int \X Int
    BY OffsetIs, Lines DEF html_frames
  <2>2. tag(n) = "html" => moves(n) = <<0, -page[n].scroll>>
    BY DEF moves
  <2>3. tag(n) # "html" => moves(n) = <<0, 0>>
    BY <1>2 DEF moves, CountedTwice
  <2>4. Place(n) = Shift(page[n].rect, offset[n][1] + moves(n)[1], offset[n][2] + moves(n)[2])
    <3>1. CASE tag(n) = "html"
      <4> DEFINE r == page[n].rect
                 a == offset[n][1]
                 b == offset[n][2]
                 d == -page[n].scroll
      <4>1. r \in Rects /\ a \in Int /\ b \in Int /\ 0 \in Int /\ d \in Int
        BY <1>1
      <4>2. Place(n) = Shift(Shift(r, a, b), 0, d)
        BY <3>1 DEF Place, absolute_position
      <4>3. moves(n)[1] = 0 /\ moves(n)[2] = d
        BY <2>2, <3>1
      <4>4. Place(n) = Shift(r, a + 0, b + d)
        <5> HIDE DEF r, a, b, d
        <5> QED
          BY <4>1, <4>2, ShiftTwice
      <4> QED
        BY <4>3, <4>4
    <3>2. CASE tag(n) # "html"
      <4>1. offset[n][1] + 0 = offset[n][1] /\ offset[n][2] + 0 = offset[n][2]
        BY <1>1
      <4> QED
        BY <2>3, <3>2, <4>1 DEF Place, absolute_position
    <3> QED
      BY <3>1, <3>2
  <2>5. /\ offset[n][1] + moves(n)[1] + -offset[h][1]
             = moves(n)[1] + offset[n][1] - offset[h][1]
        /\ offset[n][2] + moves(n)[2] + -offset[h][2]
             = moves(n)[2] + offset[n][2] - offset[h][2]
        /\ offset[n][1] + moves(n)[1] \in Int /\ offset[n][2] + moves(n)[2] \in Int
        /\ -offset[h][1] \in Int /\ -offset[h][2] \in Int
    BY <1>1, <2>1
  <2>6. Shift(Place(n), -offset[h][1], -offset[h][2])
          = Shift(page[n].rect, offset[n][1] + moves(n)[1] + -offset[h][1],
                                offset[n][2] + moves(n)[2] + -offset[h][2])
    <3> DEFINE r == page[n].rect
               a == offset[n][1] + moves(n)[1]
               b == offset[n][2] + moves(n)[2]
               c == -offset[h][1]
               d == -offset[h][2]
    <3>1. r \in Rects /\ a \in Int /\ b \in Int /\ c \in Int /\ d \in Int
      BY <1>1, <2>5
    <3>2. Place(n) = Shift(r, a, b)
      BY <2>4
    <3>3. Shift(Place(n), c, d) = Shift(r, a + c, b + d)
      <4> HIDE DEF r, a, b, c, d
      <4> QED
        BY <3>1, <3>2, ShiftTwice
    <3> QED
      BY <3>3
  <2> QED
    BY <2>5, <2>6 DEF From
<1>3. ~CountedTwice(n) => (NearViewport(n) <=>
        \A h \in html_frames(n) : tag(h) = "html" => Seen(n, h))
  BY <1>2 DEF NearViewport, Seen, From
<1>4. /\ visibility(n) \in Moved(n)
      /\ visibility(n).shown
              <=> /\ ~page[n].invisible
                  /\ \A h \in html_frames(n) : tag(h) = "html" => Seen(n, h)
  BY VisibleWhen
<1> QED
  BY <1>3, <1>4 DEF OnScreen, Moved
-----------------------------------------------------------------------------
(* Painting: the rectangles that were added are those of the opaque nodes that *)
(* are through, so that the answers are about what is painted above.           *)

Land(S) == UNION {Squares(r) : r \in S}

LEMMA SquaresIn ==
  ASSUME NEW r \in Rects
  PROVE  /\ \A q \in Squares(r) : q \in Int \X Int
         /\ \A x, y \in Int : <<x, y>> \in Squares(r) <=> In(x, y, r)
<1>1. r.x1 \in Int /\ r.y1 \in Int /\ r.x2 \in Int /\ r.y2 \in Int
  BY Corners
<1>2. \A x \in Int : x \in r.x1 .. r.x2 - 1 <=> r.x1 <= x /\ x < r.x2
  BY <1>1
<1>3. \A y \in Int : y \in r.y1 .. r.y2 - 1 <=> r.y1 <= y /\ y < r.y2
  BY <1>1
<1> QED
  BY <1>1, <1>2, <1>3 DEF Squares, In

LEMMA LandIn ==
  ASSUME NEW S \in SUBSET Rects
  PROVE  /\ \A q \in Land(S) : q \in Int \X Int
         /\ \A x, y \in Int : <<x, y>> \in Land(S) <=> InSome(x, y, S)
BY SquaresIn DEF Land, InSome

LEMMA CoveredSquares ==
  ASSUME NEW r \in Rects, NEW S \in SUBSET Rects
  PROVE  Squares(r) \subseteq Land(S) <=> \A x, y \in Int : In(x, y, r) => InSome(x, y, S)
<1>1. ASSUME Squares(r) \subseteq Land(S), NEW x \in Int, NEW y \in Int, In(x, y, r)
      PROVE  InSome(x, y, S)
  BY <1>1, SquaresIn, LandIn
<1>2. ASSUME \A x, y \in Int : In(x, y, r) => InSome(x, y, S), NEW q \in Squares(r)
      PROVE  q \in Land(S)
  <2>1. PICK x \in Int, y \in Int : q = <<x, y>>
    BY SquaresIn
  <2>2. In(x, y, r)
    BY <2>1, SquaresIn
  <2> QED
    BY <1>2, <2>1, <2>2, LandIn
<1> QED
  BY <1>1, <1>2

LEMMA NoSquares ==
  ASSUME NEW r \in Rects, ~HasArea(r)
  PROVE  Squares(r) = {}
<1>1. r.x1 \in Int /\ r.y1 \in Int /\ r.x2 \in Int /\ r.y2 \in Int
  BY Corners
<1>2. r.x1 .. r.x2 - 1 = {} \/ r.y1 .. r.y2 - 1 = {}
  BY <1>1 DEF HasArea
<1> QED
  BY <1>2 DEF Squares

\* What the rectangles are going to cover when the call under way is through.
Pending == IF at # "idle" /\ adding THEN Squares(arg) ELSE {}
Covering == Land(rects) \union Pending

LEMMA UnionGrows ==
  ASSUME UInv, UnionStep
  PROVE  /\ UInv'
         /\ Covering' = Covering
         /\ arg' = arg /\ adding' = adding /\ at # "idle"
         /\ ~adding => rects' = rects
         /\ (\A r \in rects \union {arg} : HasArea(r)) => \A r \in rects' : HasArea(r)
<1>0. /\ rects \in SUBSET Rects /\ pieces \in SUBSET Rects /\ arg \in Rects
      /\ at = "add" => adding
      /\ adding \in BOOLEAN
  BY DEF UInv, UnionTypes, Loop
<1>1. CASE ContainsTurn \/ AddTurn
  <2>1. /\ rects' = rects /\ at' = at /\ adding' = adding /\ arg' = arg /\ at # "idle"
    BY <1>1 DEF ContainsTurn, AddTurn, Visit
  <2>2. UInv'
    BY <1>1, VisitKeeps
  <2> QED
    BY <2>1, <2>2 DEF Covering, Pending, Land
<1>2. CASE Eaten
  <2>1. /\ rects' = rects /\ at' = "idle" /\ adding' = adding /\ arg' = arg
        /\ at = "contains" /\ pieces = {}
    BY <1>2 DEF Eaten
  <2>2. \A x, y \in Int : In(x, y, arg) => InSome(x, y, rects)
    BY <2>1, Answers
  <2>3. Squares(arg) \subseteq Land(rects)
    BY <1>0, <2>2, CoveredSquares
  <2>4. UInv'
    BY <1>2, ReturnKeeps
  <2>5. Covering' = Covering
    BY <2>1, <2>3 DEF Covering, Pending, Land
  <2> QED
    BY <2>1, <2>4, <2>5
<1>3. CASE Survived
  <2>1. /\ rects' = rects /\ adding' = adding /\ arg' = arg
        /\ at = "contains" /\ (adding <=> at' # "idle")
    BY <1>0, <1>3 DEF Survived
  <2>2. UInv'
    BY <1>3, ReturnKeeps
  <2> QED
    BY <2>1, <2>2 DEF Covering, Pending, Land
<1>4. CASE Extended
  <2>1. /\ rects' = rects \union pieces /\ adding' = adding /\ arg' = arg
        /\ at = "add" /\ at' = "idle"
    BY <1>4 DEF Extended
  <2>2. UInv'
    BY <1>4, ExtendedKeeps
  <2>3. \A x, y \in Int : InSome(x, y, pieces) <=> In(x, y, arg) /\ ~InSome(x, y, rects)
    BY <1>4, Leftover
  <2>4. Land(rects') = Land(rects) \union Land(pieces)
    BY <2>1 DEF Land
  <2>5. Land(rects) \union Land(pieces) = Land(rects) \union Squares(arg)
    <3>1. ASSUME NEW x \in Int, NEW y \in Int
          PROVE  <<x, y>> \in Land(rects) \union Land(pieces)
                   <=> <<x, y>> \in Land(rects) \union Squares(arg)
      BY <1>0, <2>3, LandIn, SquaresIn
    <3>2. \A q \in Land(rects) \union Land(pieces) \union Squares(arg) : q \in Int \X Int
      BY <1>0, LandIn, SquaresIn
    <3>3. \A q \in Int \X Int : q \in Land(rects) \union Land(pieces)
                   <=> q \in Land(rects) \union Squares(arg)
      BY <3>1
    <3> HIDE DEF Land
    <3> QED
      BY <3>2, <3>3
  <2>6. Covering' = Covering
    <3>1. Pending = Squares(arg) /\ Pending' = {}
      BY <1>0, <2>1 DEF Pending
    <3>2. Covering' = Land(rects')
      BY <3>1 DEF Covering, Land
    <3> QED
      BY <2>4, <2>5, <3>1, <3>2 DEF Covering
  <2>7. (\A r \in rects \union {arg} : HasArea(r)) => \A r \in rects' : HasArea(r)
    BY <2>1 DEF UInv, Loop, Solid
  <2> QED
    BY <1>0, <2>1, <2>2, <2>6, <2>7
<1> QED
  BY <1>1, <1>2, <1>3, <1>4 DEF UnionStep
-----------------------------------------------------------------------------
Ground(S) == Land({bounds[m] : m \in S})

\* The nodes whose rectangles were added, or are being added.
Added == {m \in tree \ (unpainted \union group \union rects_to_add) : page[m].opaque}

Over(n, T) == {m \in T : page[m].opaque /\ page[m].paint > page[n].paint}

\* n is ignored if and, lines aside, only if what is painted over it covers it.
Judged(n, T) ==
  /\ n \in ignored => Squares(bounds[n]) \subseteq Ground(Over(n, T))
  /\ NoLines(n) /\ Squares(bounds[n]) \subseteq Ground(Over(n, T)) => n \in ignored

\* The paint orders come from the top; the rectangles of one wait for all of its
\* nodes to be asked about.
Levels ==
  /\ unpainted \union group \union rects_to_add \subseteq tree
  /\ unpainted \intersect (group \union rects_to_add) = {}
  /\ group \intersect rects_to_add = {}
  /\ \A m \in unpainted : \A k \in tree \ unpainted : page[m].paint < page[k].paint
  /\ \A m \in group \union rects_to_add :
       \A k \in tree \ unpainted : page[m].paint <= page[k].paint
  /\ \A m \in group : \A k \in Added : page[m].paint < page[k].paint
  /\ \A m \in rects_to_add : page[m].opaque

Calls ==
  /\ asked # 0 => asked \in group /\ ~adding /\ arg = bounds[asked]
  /\ asked = 0 /\ at # "idle" => adding /\ group = {} /\ \E m \in Added : arg = bounds[m]

Grown ==
  /\ Covering = Ground(Added)
  /\ (\A m \in tree : page[m].opaque => HasArea(bounds[m])) => \A r \in rects : HasArea(r)

Painting == /\ Levels /\ Calls /\ Grown
            /\ ignored \subseteq tree \ (unpainted \union group)
            /\ \A n \in tree \ (unpainted \union group) : Judged(n, tree)

\* What painting starts from.
Measured ==
  /\ IsPage(page) /\ tree \subseteq Nodes /\ bounds \in [Nodes -> Rects]
  /\ \A n \in Nodes : HasArea(bounds[n]) <=> HasArea(page[n].rect)

LEMMA Paints ==
  ASSUME IsPage(page)
  PROVE  /\ \A n \in Nodes : page[n].paint \in Nat /\ n \in Nat /\ n # 0
         /\ 0 \notin Nodes
<1>1. \A n \in Nodes : page[n] \in Node /\ n \in Nat
  BY PageFacts
<1>2. \A n \in Nodes : n # 0
  BY PageFacts
<1> QED
  BY <1>1, <1>2 DEF Node

LEMMA FirstIn ==
  ASSUME NEW S \in SUBSET Nat, S # {}
  PROVE  First(S) \in S
<1>1. \E n \in S : \A m \in S : n <= m
  BY Least
<1> QED
  BY <1>1 DEF First

\* Nothing a judgement depends on has changed, but what is ignored.
LEMMA JudgedStays ==
  ASSUME page' = page, bounds' = bounds, tree' = tree, NEW n \in tree,
         Judged(n, tree), n \in ignored' <=> n \in ignored
  PROVE  Judged(n, tree)'
BY DEF Judged, NoLines, Over, Ground, Land, Nodes

LEMMA NextPaintOrderKeeps ==
  ASSUME Measured, Painting, NextPaintOrder
  PROVE  Painting'
<1>0. \A n \in Nodes : page[n].paint \in Nat
  BY Paints DEF Measured
<1>1. /\ group = {} /\ rects_to_add = {} /\ asked = 0 /\ at = "idle"
      /\ group' = {n \in unpainted : \A m \in unpainted : page[m].paint <= page[n].paint}
      /\ unpainted' = unpainted \ group'
      /\ asked' = 0 /\ rects_to_add' = {} /\ ignored' = ignored
      /\ UNCHANGED <<rects, at, adding, arg>>
      /\ page' = page /\ bounds' = bounds /\ tree' = tree
  BY DEF NextPaintOrder, Asking, PaintUnchanged, unionVars
<1>2. unpainted \subseteq tree /\ tree \subseteq Nodes /\ Levels
  BY DEF Painting, Levels, Measured
<1>3. /\ group' \subseteq unpainted /\ unpainted' \union group' = unpainted
  BY <1>1
<1>4. Added' = Added
  BY <1>1, <1>3 DEF Added
<1>5. ASSUME NEW m \in unpainted', NEW k \in tree \ unpainted'
      PROVE  page[m].paint < page[k].paint
  <2>1. m \in unpainted /\ m \notin group'
    BY <1>1, <1>5
  <2>2. CASE k \in group'
    <3>1. PICK j \in unpainted : ~(page[j].paint <= page[m].paint)
      BY <1>1, <2>1
    <3>2. page[j].paint <= page[k].paint
      BY <1>1, <2>2
    <3>3. page[j].paint \in Nat /\ page[m].paint \in Nat /\ page[k].paint \in Nat
      BY <1>0, <1>2, <2>1
    <3> QED
      BY <3>1, <3>2, <3>3
  <2>3. CASE k \notin group'
    BY <1>1, <1>2, <1>5, <2>1, <2>3 DEF Levels
  <2> QED
    BY <2>2, <2>3
<1>6. ASSUME NEW m \in group', NEW k \in tree \ unpainted'
      PROVE  page[m].paint <= page[k].paint
  <2>1. page[m].paint \in Nat /\ page[k].paint \in Nat /\ m \in unpainted
    BY <1>0, <1>1, <1>2
  <2>2. CASE k \in group'
    BY <1>1, <2>1, <2>2
  <2>3. CASE k \notin group'
    <3>1. page[m].paint < page[k].paint
      BY <1>1, <1>2, <2>1, <2>3 DEF Levels
    <3> QED
      BY <2>1, <3>1
  <2> QED
    BY <2>2, <2>3
<1>7. \A m \in group' : \A k \in Added : page[m].paint < page[k].paint
  BY <1>1, <1>2 DEF Levels, Added
<1>8. Levels'
  BY <1>1, <1>2, <1>3, <1>4, <1>5, <1>6, <1>7 DEF Levels
<1>9. Calls' /\ Grown'
  BY <1>1, <1>4 DEF Painting, Calls, Grown, Covering, Pending, Land, Ground
<1>10. \A n \in (tree \ (unpainted \union group))' : Judged(n, tree)'
  <2>1. (tree \ (unpainted \union group))' = tree \ (unpainted \union group)
    BY <1>1, <1>3
  <2> QED
    BY <1>1, <2>1, JudgedStays DEF Painting
<1>11. (ignored \subseteq tree \ (unpainted \union group))'
  BY <1>1, <1>3 DEF Painting
<1> QED
  BY <1>8, <1>9, <1>10, <1>11 DEF Painting

LEMMA AskCoveredKeeps ==
  ASSUME Measured, UInv, Painting, AskCovered
  PROVE  Painting' /\ UInv'
<1>1. /\ asked = 0 /\ at = "idle" /\ group # {}
      /\ asked' = First(group) /\ Call(bounds[asked'], FALSE)
      /\ UNCHANGED <<unpainted, group, rects_to_add, ignored>>
      /\ page' = page /\ bounds' = bounds /\ tree' = tree
  BY DEF AskCovered, Asking, PaintUnchanged
<1>2. group \subseteq Nodes /\ Nodes \subseteq Nat /\ 0 \notin Nodes
  BY Paints DEF Painting, Levels, Measured
<1>3. asked' \in group
  BY <1>1, <1>2, FirstIn
<1>4. bounds[asked'] \in Rects
  BY <1>2, <1>3 DEF Measured
<1>5. UInv'
  BY <1>1, <1>4, CallKeeps
<1>6. at' = "contains" /\ adding' = FALSE /\ arg' = bounds[asked'] /\ rects' = rects
  BY <1>1 DEF Call
<1>7. Levels' /\ Added' = Added
  BY <1>1 DEF Painting, Levels, Added
<1>8. Calls'
  BY <1>1, <1>2, <1>3, <1>6 DEF Calls
<1>9. Grown'
  BY <1>1, <1>6, <1>7 DEF Painting, Grown, Covering, Pending, Land, Ground
<1>10. \A n \in (tree \ (unpainted \union group))' : Judged(n, tree)'
  BY <1>1, JudgedStays DEF Painting
<1>11. (ignored \subseteq tree \ (unpainted \union group))'
  BY <1>1 DEF Painting
<1> QED
  BY <1>5, <1>7, <1>8, <1>9, <1>10, <1>11 DEF Painting

\* While a node is asked about, the rectangles are those painted over it.
LEMMA AddedAreOver ==
  ASSUME Measured, Painting, NEW n \in group
  PROVE  Added = Over(n, tree)
<1>1. Levels /\ n \in tree /\ tree \subseteq Nodes
  BY DEF Painting, Levels, Measured
<1>2. \A k \in tree : page[k].paint \in Nat
  BY <1>1, Paints DEF Measured
<1>3. ASSUME NEW k \in Added PROVE k \in Over(n, tree)
  <2>1. k \in tree /\ page[k].opaque /\ page[n].paint < page[k].paint
    BY <1>1, <1>3 DEF Levels, Added
  <2> QED
    BY <1>1, <1>2, <2>1 DEF Over
<1>4. ASSUME NEW k \in Over(n, tree) PROVE k \in Added
  <2>1. k \in tree /\ page[k].opaque /\ page[k].paint > page[n].paint
        /\ page[k].paint \in Nat /\ page[n].paint \in Nat
    BY <1>1, <1>2 DEF Over
  <2>2. k \notin unpainted
    <3>1. ASSUME k \in unpainted PROVE page[k].paint < page[n].paint
      BY <1>1, <3>1 DEF Levels
    <3> QED
      BY <2>1, <3>1
  <2>3. k \notin group \union rects_to_add
    <3>1. ASSUME k \in group \union rects_to_add PROVE page[k].paint <= page[n].paint
      BY <1>1, <3>1 DEF Levels
    <3> QED
      BY <2>1, <3>1
  <2> QED
    BY <2>1, <2>2, <2>3 DEF Added
<1> QED
  BY <1>3, <1>4 DEF Added, Over

LEMMA AnsweredCoveredKeeps ==
  ASSUME Measured, UInv, Painting, AnsweredCovered
  PROVE  Painting' /\ UInv'
<1>1. /\ asked # 0 /\ at = "idle"
      /\ ignored' = (IF result THEN ignored \union {asked} ELSE ignored)
      /\ rects_to_add' = (IF page[asked].opaque THEN rects_to_add \union {asked}
                                                ELSE rects_to_add)
      /\ group' = group \ {asked} /\ asked' = 0
      /\ UNCHANGED <<unpainted, rects, at, adding, arg, pieces, todo, result>>
      /\ page' = page /\ bounds' = bounds /\ tree' = tree
  BY DEF AnsweredCovered, PaintUnchanged, unionVars
<1>2. /\ asked \in group /\ ~adding /\ arg = bounds[asked] /\ Levels
      /\ asked \in tree /\ tree \subseteq Nodes /\ IsPage(page) /\ bounds \in [Nodes -> Rects]
      /\ asked \notin unpainted /\ asked \notin rects_to_add
  BY <1>1 DEF Painting, Calls, Levels, Measured
<1>3. UInv'
  BY <1>1 DEF UInv, UnionTypes, Disjoint, Loop, Left, Apart, Solid, ContainsExact
<1>4. Added' = Added
  <2>1. /\ (tree \ (unpainted \union group \union rects_to_add))' \subseteq
              (tree \ (unpainted \union group \union rects_to_add)) \union {asked}
        /\ (tree \ (unpainted \union group \union rects_to_add)) \subseteq
             (tree \ (unpainted \union group \union rects_to_add))'
    BY <1>1, <1>2
  <2>2. page[asked].opaque
          => asked \notin (tree \ (unpainted \union group \union rects_to_add))'
    BY <1>1
  <2> QED
    BY <1>1, <2>1, <2>2 DEF Added
<1>5. Levels'
  <2>1. /\ group' \union rects_to_add' \subseteq group \union rects_to_add
        /\ group' \subseteq group
        /\ group' \intersect rects_to_add' = {}
        /\ \A m \in rects_to_add' : page[m].opaque
    BY <1>1, <1>2 DEF Levels
  <2> QED
    BY <1>1, <1>2, <1>4, <2>1 DEF Levels
<1>6. Calls' /\ Grown'
  BY <1>1, <1>2, <1>4 DEF Painting, Calls, Grown, Covering, Pending, Land, Ground
<1>7. PICK a : a = asked
  OBVIOUS
<1>8. Judged(a, tree)'
  <2>1. Added = Over(a, tree)
    BY <1>2, <1>7, AddedAreOver
  <2>2. Land(rects) = Ground(Over(a, tree))
    BY <1>1, <2>1 DEF Painting, Grown, Covering, Pending
  <2>3. arg \in Rects /\ rects \in SUBSET Rects
    BY DEF UInv, UnionTypes
  <2>4. Squares(arg) \subseteq Land(rects)
          <=> \A x, y \in Int : In(x, y, arg) => InSome(x, y, rects)
    BY <2>3, CoveredSquares
  <2>5. /\ result /\ HasArea(arg) => Squares(arg) \subseteq Land(rects)
        /\ Squares(arg) \subseteq Land(rects) /\ (\A r \in rects \union {arg} : HasArea(r))
             => result
    <3>1. ContainsExact
      BY DEF UInv
    <3> QED
      BY <1>1, <1>2, <2>4, <3>1 DEF ContainsExact
  <2>6. result => Squares(arg) \subseteq Land(rects)
    <3>1. ~HasArea(arg) => Squares(arg) = {}
      BY <2>3, NoSquares
    <3> QED
      BY <2>5, <3>1
  <2>7. ASSUME NoLines(a) PROVE \A r \in rects \union {arg} : HasArea(r)
    <3>1. \A m \in Nodes : HasArea(bounds[m]) <=> HasArea(page[m].rect)
      BY DEF Measured
    <3>2. HasArea(arg)
      BY <1>2, <1>7, <2>7, <3>1 DEF NoLines
    <3>3. \A m \in tree : page[m].opaque => HasArea(bounds[m])
      BY <1>2, <2>7, <3>1 DEF NoLines
    <3> QED
      BY <3>2, <3>3 DEF Painting, Grown
  <2>8. a \in ignored' <=> result
    BY <1>1, <1>2, <1>7 DEF Painting
  <2>9. Over(a, tree)' = Over(a, tree) /\ (NoLines(a)' <=> NoLines(a))
    BY <1>1 DEF Over, NoLines, Nodes
  <2>10. Ground(Over(a, tree))' = Ground(Over(a, tree))
    BY <1>1, <2>9 DEF Ground, Land
  <2>11. Squares(bounds[a])' = Squares(arg)
    BY <1>1, <1>2, <1>7 DEF Squares
  <2> QED
    BY <2>2, <2>5, <2>6, <2>7, <2>8, <2>9, <2>10, <2>11 DEF Judged
<1>9. \A n \in (tree \ (unpainted \union group))' : Judged(n, tree)'
  <2>1. SUFFICES ASSUME NEW n \in (tree \ (unpainted \union group))', n # a
                 PROVE  Judged(n, tree)'
    BY <1>8
  <2>2. n \in tree \ (unpainted \union group) /\ n # asked
    BY <1>1, <1>7, <2>1
  <2>3. n \in ignored' <=> n \in ignored
    BY <1>1, <2>2
  <2>4. Judged(n, tree) /\ n \in tree
    BY <2>2 DEF Painting
  <2> QED
    BY <1>1, <2>3, <2>4, JudgedStays
<1>10. (ignored \subseteq tree \ (unpainted \union group))'
  BY <1>1, <1>2 DEF Painting
<1> QED
  BY <1>3, <1>5, <1>6, <1>9, <1>10 DEF Painting

LEMMA AddRectKeeps ==
  ASSUME Measured, UInv, Painting, AddRect
  PROVE  Painting' /\ UInv'
<1>1. /\ asked = 0 /\ at = "idle" /\ group = {} /\ rects_to_add # {}
      /\ UNCHANGED <<unpainted, group, asked, ignored>>
      /\ page' = page /\ bounds' = bounds /\ tree' = tree
  BY DEF AddRect, Asking, PaintUnchanged
<1>2. /\ rects_to_add \subseteq tree /\ tree \subseteq Nodes /\ Nodes \subseteq Nat /\ Levels
      /\ bounds \in [Nodes -> Rects]
  BY Paints DEF Painting, Levels, Measured
<1>3. PICK n \in rects_to_add : Call(bounds[n], TRUE) /\ rects_to_add' = rects_to_add \ {n}
  <2>1. First(rects_to_add) \in rects_to_add
    BY <1>1, <1>2, FirstIn
  <2> QED
    BY <2>1 DEF AddRect
<1>4. UInv'
  <2>1. bounds[n] \in Rects
    BY <1>2, <1>3
  <2> QED
    BY <1>3, <2>1, CallKeeps
<1>5. at' = "contains" /\ adding' = TRUE /\ arg' = bounds[n] /\ rects' = rects
  BY <1>3 DEF Call
<1>6. Added' = Added \union {n}
  <2>1. n \in tree /\ page[n].opaque /\ n \notin unpainted
    BY <1>2, <1>3 DEF Levels
  <2>2. (tree \ (unpainted \union group \union rects_to_add))'
          = (tree \ (unpainted \union group \union rects_to_add)) \union {n}
    BY <1>1, <1>3, <2>1
  <2> QED
    BY <1>1, <2>1, <2>2 DEF Added
<1>7. Levels'
  <2>1. rects_to_add' \subseteq rects_to_add
    BY <1>3
  <2> QED
    BY <1>1, <1>2, <2>1 DEF Levels
<1>8. Calls'
  BY <1>1, <1>5, <1>6 DEF Calls
<1>9. Grown'
  <2>1. Covering' = Land(rects) \union Squares(bounds[n])
    BY <1>5 DEF Covering, Pending, Land, Squares
  <2>2. Covering = Land(rects) /\ Covering = Ground(Added)
    BY <1>1 DEF Painting, Grown, Covering, Pending
  <2>3. Ground(Added)' = Land({bounds[m] : m \in Added \union {n}})
    BY <1>1, <1>6 DEF Ground, Land
  <2>4. Land({bounds[m] : m \in Added \union {n}}) = Ground(Added) \union Squares(bounds[n])
    BY DEF Ground, Land
  <2>5. Covering' = Ground(Added)'
    BY <2>1, <2>2, <2>3, <2>4
  <2> QED
    BY <1>1, <1>5, <2>5 DEF Painting, Grown
<1>10. \A k \in (tree \ (unpainted \union group))' : Judged(k, tree)'
  BY <1>1, JudgedStays DEF Painting
<1>11. (ignored \subseteq tree \ (unpainted \union group))'
  BY <1>1 DEF Painting
<1> QED
  BY <1>4, <1>7, <1>8, <1>9, <1>10, <1>11 DEF Painting

LEMMA UnionWorksKeeps ==
  ASSUME Measured, UInv, Painting, UnionWorks
  PROVE  Painting' /\ UInv'
<1>1. /\ UNCHANGED <<unpainted, group, asked, ignored, rects_to_add>> /\ UnionStep
      /\ page' = page /\ bounds' = bounds /\ tree' = tree
  BY DEF UnionWorks, passVars
<1>2. /\ UInv' /\ Covering' = Covering /\ arg' = arg /\ adding' = adding /\ at # "idle"
      /\ ~adding => rects' = rects
      /\ (\A r \in rects \union {arg} : HasArea(r)) => \A r \in rects' : HasArea(r)
  BY <1>1, UnionGrows
<1>3. Added' = Added /\ Levels'
  BY <1>1 DEF Painting, Levels, Added
<1>4. Calls'
  BY <1>1, <1>2, <1>3 DEF Painting, Calls
<1>5. Grown'
  <2>1. Ground(Added)' = Ground(Added)
    BY <1>1, <1>3 DEF Ground, Land
  <2>2. Covering' = Ground(Added)'
    BY <1>2, <2>1 DEF Painting, Grown
  <2>3. ASSUME \A m \in tree : page[m].opaque => HasArea(bounds[m])
        PROVE  \A r \in rects' : HasArea(r)
    <3>1. \A r \in rects : HasArea(r)
      BY <2>3 DEF Painting, Grown
    <3>2. CASE adding
      <4>1. \E m \in Added : arg = bounds[m]
        BY <1>2, <3>2 DEF Painting, Calls
      <4>2. HasArea(arg)
        BY <2>3, <4>1 DEF Added
      <4> QED
        BY <1>2, <3>1, <4>2
    <3>3. CASE ~adding
      BY <1>2, <3>1, <3>3
    <3> QED
      BY <3>2, <3>3
  <2> QED
    BY <1>1, <2>2, <2>3 DEF Grown
<1>6. \A k \in (tree \ (unpainted \union group))' : Judged(k, tree)'
  BY <1>1, JudgedStays DEF Painting
<1>7. (ignored \subseteq tree \ (unpainted \union group))'
  BY <1>1 DEF Painting
<1> QED
  BY <1>2, <1>3, <1>4, <1>5, <1>6, <1>7 DEF Painting
-----------------------------------------------------------------------------
(* The passes: what each leaves is a function of the page.                     *)

\* What the first pass keeps, and what the second keeps of that.
Keeps(m) ==
  \/ visibility(m).shown
  \/ /\ tag(m) # "text"
     /\ \/ tag(m) = "file" \/ page[m].mark = "label" \/ page[m].scrollable
        \/ m \in Frames /\ \E k \in in_dom : m \in above(k)

Kept == {n \in in_dom : \E m \in in_dom : n \in line[m] /\ Keeps(m)}

Shown == {n \in Kept : \E m \in Kept :
            /\ n \in line[m]
            /\ visibility(m).shown \/ page[m].scrollable \/ tag(m) \in {"text", "file"}}

LEMMA SamePage ==
  ASSUME page' = page
  PROVE  /\ line' = line /\ offset' = offset
         /\ Nodes' = Nodes /\ Frames' = Frames
         /\ in_dom' = in_dom /\ Kept' = Kept /\ Shown' = Shown
         /\ \A n : visibility(n)' = visibility(n)
<1>1. line' = line
  BY Zenon DEF line, Nodes
<1>2. offset' = offset
  <2>1. ASSUME NEW m PROVE moves(m)' = moves(m)
    BY Zenon DEF moves, tag, Frames, Nodes
  <2>2. \A o :
          (o = [n \in Nodes |-> IF n = 1 THEN <<0, 0>>
                ELSE LET p == page[n].parent
                     IN  <<o[p][1] + moves(p)[1], o[p][2] + moves(p)[2]>>])'
          <=> o = [n \in Nodes |-> IF n = 1 THEN <<0, 0>>
                ELSE LET p == page[n].parent
                     IN  <<o[p][1] + moves(p)[1], o[p][2] + moves(p)[2]>>]
    BY <2>1, Zenon DEF Nodes
  <2> QED
    BY <2>2 DEF offset
<1>3. Nodes' = Nodes /\ Frames' = Frames
  BY DEF Nodes, Frames, tag
<1>4. ASSUME NEW n PROVE seen(n)' = seen(n)
  <2>1. html_frames(n)' = html_frames(n)
    BY <1>1 DEF html_frames, above, tag
  <2>2. ASSUME NEW m, NEW v PROVE in_frame(n, m, v)' = in_frame(n, m, v)
    BY Zenon DEF in_frame, Frames, Nodes, tag
  <2>3. \A s :
          (s = [m \in 1 .. Len(page) + 1 |->
                  IF m > Len(page) THEN [shown |-> ~page[n].invisible, rect |-> page[n].rect]
                  ELSE IF m \in html_frames(n) THEN in_frame(n, m, s[m + 1])
                  ELSE s[m + 1]])'
          <=> s = [m \in 1 .. Len(page) + 1 |->
                  IF m > Len(page) THEN [shown |-> ~page[n].invisible, rect |-> page[n].rect]
                  ELSE IF m \in html_frames(n) THEN in_frame(n, m, s[m + 1])
                  ELSE s[m + 1]]
    BY <2>1, <2>2
  <2> QED
    BY <2>3 DEF seen
<1>5. ASSUME NEW n PROVE visibility(n)' = visibility(n)
  BY <1>4 DEF visibility
<1>6. ASSUME NEW n PROVE looked_into(n)' <=> looked_into(n)
  BY <1>5 DEF looked_into
<1>7. ASSUME NEW n PROVE above(n)' = above(n)
  BY <1>1 DEF above
<1>8. in_dom' = in_dom
  BY <1>3, <1>6, <1>7 DEF in_dom, tag
<1>9. ASSUME NEW n PROVE Keeps(n)' <=> Keeps(n)
  BY <1>3, <1>5, <1>7, <1>8 DEF Keeps, tag
<1>10. Kept' = Kept
  BY <1>1, <1>8, <1>9 DEF Kept
<1>11. Shown' = Shown
  BY <1>1, <1>5, <1>10 DEF Shown, tag
<1> QED
  BY <1>1, <1>2, <1>3, <1>5, <1>8, <1>10, <1>11

Chart == /\ visible = {n \in in_dom : visibility(n).shown}
         /\ bounds = [n \in Nodes |-> visibility(n).rect]

Resting == /\ group = {} /\ asked = 0 /\ rects_to_add = {} /\ ignored = {}
           /\ rects = {} /\ at = "idle"

Verdicts == \A n \in Kept : Judged(n, Kept)

Outlined == {n \in tree : \E c \in containers(n) : _should_exclude_child(n, c)}

Indexed == {n \in tree \ (excluded \union ignored) :
              IF page[n].scrollable
                THEN ~\E m \in Below(n) : is_interactive(m)
                ELSE is_interactive(n) /\ (n \in visible \/ tag(n) = "file")}

\* What each pass has left, as a function of the page and of what is ignored.
Stages ==
  /\ phase \in {"dom", "simplify", "paint", "optimize", "filter", "assign", "done"}
  /\ phase \in {"dom", "simplify"} => Resting
  /\ phase # "paint" => at = "idle"
  /\ phase = "simplify" => tree = in_dom
  /\ phase # "dom" => Chart
  /\ phase \in {"paint", "optimize"} => tree = Kept
  /\ phase = "paint" => Painting
  /\ phase \in {"optimize", "filter", "assign", "done"} => Verdicts
  /\ phase \in {"filter", "assign", "done"} => tree = Shown
  /\ phase \in {"assign", "done"} => excluded = Outlined
  /\ phase = "done" => selector_map = Indexed

DInv == IsPage(page) /\ UInv /\ Stages

LEMMA UnionStays ==
  ASSUME UInv, UNCHANGED unionVars
  PROVE  UInv'
BY DEF unionVars, UInv, UnionTypes, Disjoint, Loop, Left, Apart, Solid, ContainsExact

LEMMA InDom == in_dom \subseteq Nodes /\ Kept \subseteq in_dom /\ Shown \subseteq Kept
BY DEF in_dom, Kept, Shown

LEMMA Measures ==
  ASSUME IsPage(page), Chart, tree = Kept
  PROVE  Measured
<1>1. \A n \in Nodes : /\ visibility(n).rect \in Rects
                       /\ HasArea(visibility(n).rect) <=> HasArea(page[n].rect)
  BY Visibility
<1> QED
  BY <1>1, InDom DEF Measured, Chart

LEMMA ChartStays ==
  ASSUME Chart, page' = page, bounds' = bounds, visible' = visible
  PROVE  Chart'
BY SamePage DEF Chart

LEMMA VerdictsStay ==
  ASSUME Verdicts, page' = page, bounds' = bounds, ignored' = ignored
  PROVE  Verdicts'
<1>1. Kept' = Kept /\ Nodes' = Nodes
  BY SamePage
<1>2. ASSUME NEW n \in Kept PROVE Judged(n, Kept)'
  <2>1. Over(n, Kept)' = Over(n, Kept) /\ (NoLines(n)' <=> NoLines(n))
    BY <1>1 DEF Over, NoLines
  <2>2. /\ Ground(Over(n, Kept))' = Ground(Over(n, Kept))
        /\ Squares(bounds[n])' = Squares(bounds[n])
    BY <2>1 DEF Ground, Land
  <2>3. Judged(n, Kept)
    BY <1>2 DEF Verdicts
  <2> QED
    BY <2>1, <2>2, <2>3 DEF Judged
<1> QED
  BY <1>1, <1>2 DEF Verdicts

LEMMA GetDomTree ==
  ASSUME DInv, get_dom_tree
  PROVE  DInv'
<1>1. /\ phase = "dom" /\ phase' = "simplify" /\ tree' = in_dom
      /\ visible' = {n \in tree' : visibility(n).shown}
      /\ bounds' = [n \in Nodes |-> visibility(n).rect]
      /\ page' = page /\ UNCHANGED <<group, asked, rects_to_add, ignored, unionVars>>
  BY DEF get_dom_tree
<1>2. UInv' /\ IsPage(page)'
  BY <1>1, UnionStays DEF DInv
<1>3. Resting'
  BY <1>1 DEF DInv, Stages, Resting, unionVars
<1>4. Chart' /\ (tree = in_dom)'
  BY <1>1, SamePage DEF Chart
<1> QED
  BY <1>1, <1>2, <1>3, <1>4 DEF DInv, Stages, Resting

LEMMA CreateTree ==
  ASSUME DInv, _create_simplified_tree
  PROVE  DInv'
<1> DEFINE worth == {n \in tree : \/ n \in visible
                                  \/ /\ tag(n) # "text"
                                     /\ \/ tag(n) = "file" \/ page[n].mark = "label"
                                        \/ page[n].scrollable \/ HasDocument(n)}
<1>1. /\ phase = "simplify" /\ phase' = "paint" /\ unpainted' = tree'
      /\ page' = page /\ bounds' = bounds /\ visible' = visible
      /\ UNCHANGED <<group, asked, rects_to_add, ignored, unionVars>>
      /\ tree' = Upto(worth)
  BY DEF _create_simplified_tree
<1>2. UInv' /\ IsPage(page)' /\ Resting'
  BY <1>1, UnionStays DEF DInv, Stages, Resting, unionVars
<1>3. tree = in_dom /\ Chart
  BY <1>1 DEF DInv, Stages
<1>4. tree' = Kept
  <2>1. \A n \in in_dom : n \in worth <=> Keeps(n)
    BY <1>3 DEF Chart, Keeps, HasDocument, Below
  <2>2. worth \subseteq in_dom
    BY <1>3
  <2> HIDE DEF worth
  <2>3. Upto(worth) = {n \in in_dom : \E m \in worth : n \in line[m]}
    BY <1>3 DEF Upto
  <2> QED
    BY <1>1, <2>1, <2>2, <2>3 DEF Kept
<1>5. Chart' /\ (tree = Kept)'
  BY <1>1, <1>3, <1>4, ChartStays, SamePage
<1>6. Painting'
  <2>1. /\ unpainted' = tree' /\ group' = {} /\ rects_to_add' = {} /\ asked' = 0
        /\ at' = "idle" /\ rects' = {} /\ ignored' = {}
    BY <1>1, <1>2 DEF Resting
  <2>2. Added' = {}
    BY <2>1 DEF Added
  <2>3. Levels' /\ Calls'
    BY <2>1, <2>2 DEF Levels, Calls
  <2>4. Grown'
    BY <2>1, <2>2 DEF Grown, Covering, Pending, Land, Ground
  <2> QED
    BY <2>1, <2>3, <2>4 DEF Painting
<1> QED
  BY <1>1, <1>2, <1>5, <1>6 DEF DInv, Stages

LEMMA PaintSteps ==
  ASSUME DInv, NextPaintOrder \/ AskCovered \/ AnsweredCovered \/ AddRect \/ UnionWorks,
         phase = "paint"
  PROVE  DInv'
<1>1. IsPage(page) /\ Chart /\ tree = Kept /\ Painting /\ UInv
  BY DEF DInv, Stages
<1>2. Measured
  BY <1>1, Measures
<1>3. page' = page /\ phase' = phase /\ bounds' = bounds /\ visible' = visible /\ tree' = tree
  BY DEF NextPaintOrder, AskCovered, AnsweredCovered, AddRect, UnionWorks, PaintUnchanged,
         passVars
<1>4. Painting' /\ UInv'
  <2>1. CASE NextPaintOrder
    <3>1. UNCHANGED unionVars
      BY <2>1 DEF NextPaintOrder
    <3> QED
      BY <1>1, <1>2, <2>1, <3>1, NextPaintOrderKeeps, UnionStays
  <2>2. CASE AskCovered
    BY <1>1, <1>2, <2>2, AskCoveredKeeps
  <2>3. CASE AnsweredCovered
    BY <1>1, <1>2, <2>3, AnsweredCoveredKeeps
  <2>4. CASE AddRect
    BY <1>1, <1>2, <2>4, AddRectKeeps
  <2>5. CASE UnionWorks
    BY <1>1, <1>2, <2>5, UnionWorksKeeps
  <2> QED
    BY <2>1, <2>2, <2>3, <2>4, <2>5
<1>5. IsPage(page)' /\ Chart' /\ (tree = Kept)'
  BY <1>1, <1>3, ChartStays, SamePage
<1> QED
  BY <1>3, <1>4, <1>5 DEF DInv, Stages

LEMMA SamePassed ==
  ASSUME page' = page, bounds' = bounds, tree' = tree
  PROVE  /\ Outlined' = Outlined
         /\ visible' = visible /\ excluded' = excluded /\ ignored' = ignored
              => Indexed' = Indexed
<1>1. \A n : above(n)' = above(n)
  BY SamePage DEF above
<1>2. \A n : containers(n)' = containers(n)
  BY <1>1 DEF containers, _is_propagating_element, tag
<1>3. \A n, c : _should_exclude_child(n, c)' <=> _should_exclude_child(n, c)
  BY DEF _should_exclude_child, _is_propagating_element, tag
<1>4. \A n : is_interactive(n)' <=> is_interactive(n)
  BY SamePage DEF is_interactive, tag
<1>5. \A n : Below(n)' = Below(n)
  BY <1>1 DEF Below
<1>6. Outlined' = Outlined
  BY <1>2, <1>3 DEF Outlined
<1>7. visible' = visible /\ excluded' = excluded /\ ignored' = ignored
        => Indexed' = Indexed
  BY <1>4, <1>5 DEF Indexed, tag
<1> QED
  BY <1>6, <1>7

\* The remaining passes ask the rectangles nothing.
LEMMA LaterSteps ==
  ASSUME DInv, Painted \/ _optimize_tree \/ _apply_bounding_box_filtering
               \/ _assign_interactive_indices
  PROVE  DInv'
<1>1. /\ page' = page /\ bounds' = bounds /\ visible' = visible /\ ignored' = ignored
      /\ UNCHANGED unionVars
  BY DEF Painted, _optimize_tree, _apply_bounding_box_filtering,
         _assign_interactive_indices, passVars
<1>2. phase \in {"paint", "optimize", "filter", "assign"}
  BY DEF Painted, _optimize_tree, _apply_bounding_box_filtering,
         _assign_interactive_indices, Asking
<1>3. UInv' /\ IsPage(page)' /\ Chart'
  BY <1>1, <1>2, UnionStays, ChartStays DEF DInv, Stages
<1>8. at' = "idle"
  <2>1. Painted => at = "idle"
    BY DEF Painted, Asking
  <2>2. ~Painted => phase # "paint"
    BY DEF _optimize_tree, _apply_bounding_box_filtering, _assign_interactive_indices
  <2> QED
    BY <1>1, <2>1, <2>2 DEF DInv, Stages, unionVars
<1>4. CASE Painted
  <2>1. /\ phase = "paint" /\ phase' = "optimize" /\ group = {} /\ unpainted = {}
        /\ tree' = tree
    BY <1>4 DEF Painted, Asking, passVars
  <2>2. tree = Kept /\ Painting
    BY <2>1 DEF DInv, Stages
  <2>3. Verdicts
    BY <2>1, <2>2 DEF Painting, Verdicts
  <2>4. Verdicts' /\ (tree = Kept)'
    BY <1>1, <2>1, <2>2, <2>3, VerdictsStay, SamePage
  <2> QED
    BY <1>3, <1>8, <2>1, <2>4 DEF DInv, Stages
<1>5. CASE _optimize_tree
  <2> DEFINE worth == {n \in tree : \/ n \in visible \/ page[n].scrollable
                                    \/ tag(n) \in {"text", "file"}}
  <2>1. phase = "optimize" /\ phase' = "filter" /\ tree' = Upto(worth)
    BY <1>5 DEF _optimize_tree
  <2>2. tree = Kept /\ Verdicts /\ Chart
    BY <2>1 DEF DInv, Stages
  <2>3. Verdicts'
    BY <1>1, <2>2, VerdictsStay
  <2>4. tree' = Shown
    <3>1. \A n \in Kept : n \in worth <=> visibility(n).shown \/ page[n].scrollable
                                          \/ tag(n) \in {"text", "file"}
      BY <2>2, InDom DEF Chart
    <3>2. worth \subseteq Kept
      BY <2>2
    <3> HIDE DEF worth
    <3>3. Upto(worth) = {n \in Kept : \E m \in worth : n \in line[m]}
      BY <2>2 DEF Upto
    <3> QED
      BY <2>1, <3>1, <3>2, <3>3 DEF Shown
  <2>5. (tree = Shown)'
    BY <1>1, <2>4, SamePage
  <2> QED
    BY <1>3, <1>8, <2>1, <2>3, <2>5 DEF DInv, Stages
<1>6. CASE _apply_bounding_box_filtering
  <2>1. phase = "filter" /\ phase' = "assign" /\ tree' = tree /\ excluded' = Outlined
    BY <1>6 DEF _apply_bounding_box_filtering, Outlined
  <2>2. tree = Shown /\ Verdicts
    BY <2>1 DEF DInv, Stages
  <2>3. Verdicts' /\ (tree = Shown)'
    BY <1>1, <2>1, <2>2, VerdictsStay, SamePage
  <2>4. Outlined' = Outlined
    BY <1>1, <2>1, SamePassed
  <2>5. (excluded = Outlined)'
    BY <2>1, <2>4
  <2> QED
    BY <1>3, <1>8, <2>1, <2>3, <2>5 DEF DInv, Stages
<1>7. CASE _assign_interactive_indices
  <2>1. /\ phase = "assign" /\ phase' = "done" /\ tree' = tree /\ excluded' = excluded
        /\ selector_map' = Indexed
    BY <1>7 DEF _assign_interactive_indices, Indexed
  <2>2. tree = Shown /\ Verdicts /\ excluded = Outlined
    BY <2>1 DEF DInv, Stages
  <2>3. Verdicts' /\ (tree = Shown)'
    BY <1>1, <2>1, <2>2, VerdictsStay, SamePage
  <2>4. Outlined' = Outlined /\ Indexed' = Indexed
    BY <1>1, <2>1, SamePassed
  <2>7. (excluded = Outlined)' /\ (selector_map = Indexed)'
    BY <2>1, <2>2, <2>4
  <2> QED
    BY <1>3, <1>8, <2>1, <2>3, <2>7 DEF DInv, Stages
<1> QED
  BY <1>4, <1>5, <1>6, <1>7

LEMMA Stutters ==
  ASSUME DInv, UNCHANGED vars
  PROVE  DInv'
<1>1. /\ page' = page /\ bounds' = bounds /\ visible' = visible /\ ignored' = ignored
      /\ phase' = phase /\ tree' = tree /\ excluded' = excluded
      /\ selector_map' = selector_map /\ UNCHANGED unionVars
      /\ UNCHANGED <<unpainted, group, asked, rects_to_add>>
  BY DEF vars, passVars
<1>2. UInv' /\ IsPage(page)'
  BY <1>1, UnionStays DEF DInv
<1>3. phase # "dom" => Chart'
  BY <1>1, ChartStays DEF DInv, Stages
<1>4. phase \in {"optimize", "filter", "assign", "done"} => Verdicts'
  BY <1>1, VerdictsStay DEF DInv, Stages
<1>5. in_dom' = in_dom /\ Kept' = Kept /\ Shown' = Shown
  BY <1>1, SamePage
<1>6. Resting => Resting'
  BY <1>1 DEF Resting, unionVars
<1>7. phase = "paint" => Painting'
  <2> SUFFICES ASSUME Painting PROVE Painting'
    BY DEF DInv, Stages
  <2>1. Added' = Added /\ Levels' /\ Calls'
    BY <1>1 DEF Painting, Levels, Calls, Added, unionVars
  <2>2. Grown'
    BY <1>1, <2>1 DEF Painting, Grown, Covering, Pending, Ground, Land, unionVars
  <2>3. \A n \in (tree \ (unpainted \union group))' : Judged(n, tree)'
    BY <1>1, JudgedStays DEF Painting
  <2>4. (ignored \subseteq tree \ (unpainted \union group))'
    BY <1>1 DEF Painting
  <2> QED
    BY <2>1, <2>2, <2>3, <2>4 DEF Painting
<1>8. Outlined' = Outlined /\ Indexed' = Indexed
  BY <1>1, SamePassed
<1> QED
  BY <1>1, <1>2, <1>3, <1>4, <1>5, <1>6, <1>7, <1>8 DEF DInv, Stages, unionVars
-----------------------------------------------------------------------------
(* The theorems.                                                              *)

\* The passes, one after the other: what each leaves is a function of the page, and
\* an element is ignored exactly when what is painted over it covers it.
THEOREM PassesInvariance == Spec => []DInv
<1>1. Init => DInv
  <2> SUFFICES ASSUME Init PROVE DInv
    OBVIOUS
  <2>1. UInv
    <3>1. Rect(0, 0, 0, 0) \in Rects /\ ~HasArea(Rect(0, 0, 0, 0))
      BY RectIn DEF HasArea, Rect
    <3> QED
      BY <3>1 DEF Init, UnionInit, UInv, UnionTypes, Disjoint, Loop, ContainsExact
  <2> QED
    BY <2>1 DEF Init, UnionInit, DInv, Stages, Resting
<1>2. DInv /\ [Next]_vars => DInv'
  <2> SUFFICES ASSUME DInv, [Next]_vars PROVE DInv'
    OBVIOUS
  <2>1. CASE get_dom_tree
    BY <2>1, GetDomTree
  <2>2. CASE _create_simplified_tree
    BY <2>2, CreateTree
  <2>3. CASE NextPaintOrder \/ AskCovered \/ AnsweredCovered \/ AddRect \/ UnionWorks
    <3>1. phase = "paint"
      <4>1. UnionWorks => at # "idle"
        BY DEF UnionWorks, UnionStep, ContainsTurn, Eaten, Survived, AddTurn, Extended
      <4>2. UnionWorks => phase = "paint"
        BY <4>1 DEF DInv, Stages
      <4> QED
        BY <2>3, <4>2 DEF NextPaintOrder, AskCovered, AnsweredCovered, AddRect, Asking
    <3> QED
      BY <2>3, <3>1, PaintSteps
  <2>4. CASE Painted \/ _optimize_tree \/ _apply_bounding_box_filtering
             \/ _assign_interactive_indices
    BY <2>4, LaterSteps
  <2>5. CASE UNCHANGED vars
    BY <2>5, Stutters
  <2> QED
    BY <2>1, <2>2, <2>3, <2>4, <2>5 DEF Next
<1> QED
  BY <1>1, <1>2, PTL DEF Spec
-----------------------------------------------------------------------------
\* The trees lose no node that is around one they have.
LEMMA Around ==
  ASSUME IsPage(page)
  PROVE  /\ \A n \in Kept : above(n) \subseteq Kept
         /\ \A n \in Shown : above(n) \subseteq Shown
<1>1. \A n \in in_dom : above(n) \subseteq in_dom
  BY Aboves DEF in_dom
<1>2. ASSUME NEW m \in Nodes, NEW n \in line[m], NEW a \in above(n)
      PROVE  a \in line[m]
  BY <1>2, Lines DEF above
<1>3. \A n \in Kept : above(n) \subseteq Kept
  BY <1>1, <1>2, InDom DEF Kept
<1>4. \A n \in Shown : above(n) \subseteq Shown
  BY <1>2, <1>3, InDom DEF Shown
<1> QED
  BY <1>3, <1>4

\* What may cover an element is what seems to be above it.
LEMMA Seeming ==
  ASSUME IsPage(page), NEW n \in Nodes
  PROVE  Over(n, Kept) \subseteq SeeminglyAbove(n)
<1> SUFFICES ASSUME NEW m \in Over(n, Kept) PROVE m \in SeeminglyAbove(n)
  OBVIOUS
<1>1. m \in Kept /\ m \in Above(n) /\ m \in Nodes
  BY InDom DEF Over, Above
<1>2. PICK k \in in_dom : m \in line[k] /\ Keeps(k)
  BY <1>1 DEF Kept
<1>3. CASE m # k
  BY <1>1, <1>2, <1>3, InDom DEF SeeminglyAbove, above
<1>4. CASE m = k
  <2>1. visibility(m).shown => OnScreen(m) \/ CountedTwice(m)
    BY <1>1, Visibility
  <2> QED
    BY <1>1, <1>2, <1>4, <2>1, InDom DEF SeeminglyAbove, Keeps
<1> QED
  BY <1>3, <1>4

\* ... and whatever really is above it is among it.
LEMMA Really ==
  ASSUME IsPage(page), NEW n \in Nodes
  PROVE  ReallyAbove(n) \subseteq Over(n, Kept)
<1> SUFFICES ASSUME NEW m \in ReallyAbove(n) PROVE m \in Over(n, Kept)
  OBVIOUS
<1>1. m \in in_dom /\ m \in Nodes /\ OnScreen(m) /\ ~CountedTwice(m)
      /\ page[m].opaque /\ page[m].paint > page[n].paint
  BY InDom DEF ReallyAbove, Above
<1>2. visibility(m).shown
  BY <1>1, Visibility
<1>3. m \in line[m]
  BY <1>1, Lines
<1> QED
  BY <1>1, <1>2, <1>3 DEF Over, Kept, Keeps

LEMMA GroundGrows ==
  ASSUME NEW S, NEW T, S \subseteq T
  PROVE  Ground(S) \subseteq Ground(T)
BY DEF Ground, Land

LEMMA GroundIs ==
  ASSUME NEW S
  PROVE  Ground(S) = UNION {Squares(bounds[m]) : m \in S}
BY DEF Ground, Land

\* No element that opaque ones to be seen are painted over is offered, and none
\* that is not near the viewport.
THEOREM OffersVisible == Spec => []OnlyVisibleOffered
<1>1. DInv => OnlyVisibleOffered
  <2> SUFFICES ASSUME DInv, phase = "done", NEW n \in selector_map
               PROVE  /\ \/ tag(n) = "file" \/ page[n].scrollable
                         \/ ~page[n].invisible /\ (NearViewport(n) \/ CountedTwice(n))
                      /\ InPlace(n) /\ NoLines(n) => ~Hidden(n, ReallyAbove(n))
    BY DEF OnlyVisibleOffered
  <2>1. /\ IsPage(page) /\ Chart /\ tree = Shown /\ selector_map = Indexed /\ Verdicts
    BY DEF DInv, Stages
  <2>2. n \in Shown /\ n \in Kept /\ n \in in_dom /\ n \in Nodes /\ n \notin ignored
        /\ (page[n].scrollable \/ n \in visible \/ tag(n) = "file")
    BY <2>1, InDom DEF Indexed
  <2>3. n \in visible => ~page[n].invisible /\ (NearViewport(n) \/ CountedTwice(n))
    BY <2>1, <2>2, Visibility DEF Chart
  <2>4. ASSUME InPlace(n), NoLines(n), Hidden(n, ReallyAbove(n))
        PROVE  FALSE
    <3>1. Squares(bounds[n]) \subseteq Ground(ReallyAbove(n))
      BY <2>4, GroundIs DEF InPlace, Hidden
    <3>2. Squares(bounds[n]) \subseteq Ground(Over(n, Kept))
      BY <2>1, <2>2, <3>1, Really, GroundGrows
    <3>3. Judged(n, Kept)
      BY <2>1, <2>2 DEF Verdicts
    <3> QED
      BY <2>2, <2>4, <3>2, <3>3 DEF Judged
  <2> QED
    BY <2>2, <2>3, <2>4
<1> QED
  BY <1>1, PassesInvariance, PTL

\* Whoever contains most of an area has something in common with it.
LEMMA Contained ==
  ASSUME NEW a \in Rects, NEW b \in Rects, _is_contained(a, b)
  PROVE  overlap(a, b) > 0
<1> DEFINE w == width(a)
           h == height(a)
           ow == Greater(0, Lesser(a.x2, b.x2) - Greater(a.x1, b.x1))
           oh == Greater(0, Lesser(a.y2, b.y2) - Greater(a.y1, b.y1))
           o == ow * oh
           area == w * h
<1>1. /\ a.x1 \in Int /\ a.y1 \in Int /\ a.x2 \in Int /\ a.y2 \in Int
      /\ a.x1 <= a.x2 /\ a.y1 <= a.y2
      /\ b.x1 \in Int /\ b.y1 \in Int /\ b.x2 \in Int /\ b.y2 \in Int
  BY Corners
<1>2. w \in Nat /\ h \in Nat
  BY <1>1 DEF width, height
<1>3. ow \in Int /\ oh \in Int
  BY <1>1 DEF Greater, Lesser
<1>4. area # 0 /\ 100 * overlap(a, b) >= 99 * area /\ overlap(a, b) = o
  BY DEF _is_contained, overlap
<1> HIDE DEF w, h, ow, oh
<1>5. area \in Nat /\ o \in Int
  BY <1>2, <1>3
<1> HIDE DEF o, area
<1> QED
  BY <1>4, <1>5

LEMMA IgnoredAreHidden ==
  ASSUME DInv, phase = "done", NEW n \in Kept, n \in ignored, InPlace(n)
  PROVE  Hidden(n, SeeminglyAbove(n))
<1>1. IsPage(page) /\ Judged(n, Kept) /\ n \in Nodes
  BY InDom DEF DInv, Stages, Verdicts
<1>2. Squares(bounds[n]) \subseteq Ground(SeeminglyAbove(n))
  BY <1>1, Seeming, GroundGrows DEF Judged
<1> QED
  BY <1>2, GroundIs DEF Hidden, InPlace

LEMMA VisibleStay ==
  ASSUME IsPage(page), NEW n \in in_dom, visibility(n).shown
  PROVE  n \in Kept /\ n \in Shown
<1>1. n \in line[n]
  BY InDom, Lines
<1>2. n \in Kept
  BY <1>1 DEF Kept, Keeps
<1> QED
  BY <1>1, <1>2 DEF Shown

\* What makes an element excluded: the link around it stands in for it.
LEMMA ExcludedAreStoodInFor ==
  ASSUME DInv, phase = "done", NEW n \in excluded, InPlace(n)
  PROVE  StoodInFor(n)
<1>1. /\ IsPage(page) /\ Chart /\ tree = Shown /\ excluded = Outlined
      /\ selector_map = Indexed
  BY DEF DInv, Stages
<1>2. PICK c \in containers(n) : _should_exclude_child(n, c)
  BY <1>1 DEF Outlined
<1>3. n \in Shown /\ n \in Nodes /\ above(n) \subseteq Shown /\ Shown \subseteq Nodes
  BY <1>1, InDom, Around DEF Outlined
<1>4. /\ c \in above(n) /\ c \in Shown /\ c \in Kept /\ c \in in_dom /\ c \in Nodes
      /\ tag(c) = "a" /\ \A k \in above(n) : _is_propagating_element(k) => k <= c
  BY <1>1, <1>2, <1>3, InDom DEF containers, _is_propagating_element
<1>5. /\ tag(n) \notin {"input", "file", "a"} /\ page[n].mark # "onclick"
      /\ _is_contained(bounds[n], bounds[c])
  BY <1>2 DEF _should_exclude_child, _is_propagating_element
<1>6. /\ bounds[n] \in Rects /\ bounds[c] \in Rects
  BY <1>1, <1>3, <1>4, Visibility DEF Chart
<1>7. ASSUME InPlace(c) PROVE overlap(Place(n), Place(c)) > 0
  BY <1>5, <1>6, <1>7, Contained DEF InPlace
<1>8. ASSUME InPlace(c), OnScreen(c), ~page[c].scrollable, ~InImage(c),
             ~Hidden(c, SeeminglyAbove(c))
      PROVE  c \in in_text
  <2>1. c \notin ignored
    BY <1>4, <1>8, IgnoredAreHidden
  <2>2. c \notin excluded
    BY <1>1, <1>4 DEF Outlined, _should_exclude_child, _is_propagating_element
  <2>3. c \in visible
    <3>1. ~CountedTwice(c)
      BY <1>4 DEF CountedTwice, Frames
    <3> QED
      BY <1>1, <1>4, <1>8, <3>1, Visibility DEF Chart
  <2>4. is_interactive(c)
    BY <1>4 DEF is_interactive
  <2>5. c \in selector_map
    BY <1>1, <1>4, <1>8, <2>1, <2>2, <2>3, <2>4 DEF Indexed
  <2> QED
    BY <1>8, <2>5 DEF in_text, InImage
<1> QED
  BY <1>4, <1>5, <1>7, <1>8 DEF StoodInFor, _is_propagating_element

\* Whatever can be clicked and is to be seen gets an index in the text, or there is
\* one of the reasons ClickableOffered lists.
THEOREM OffersClickable == Spec => []ClickableOffered
<1>1. DInv => ClickableOffered
  <2> SUFFICES ASSUME DInv, phase = "done", NEW n \in in_dom, is_interactive(n), OnScreen(n),
                      n \notin in_text, ~Hidden(n, SeeminglyAbove(n)), InPlace(n),
                      ~CountedTwice(n), ~StoodInFor(n), ~InImage(n)
               PROVE  /\ page[n].scrollable
                      /\ \E m \in Nodes : n \in above(m) /\ is_interactive(m)
    BY DEF ClickableOffered
  <2>1. /\ IsPage(page) /\ Chart /\ tree = Shown /\ selector_map = Indexed
    BY DEF DInv, Stages
  <2>2. n \in Nodes /\ visibility(n).shown
    BY <2>1, InDom, Visibility
  <2>3. n \in Kept /\ n \in Shown /\ n \in visible
    BY <2>1, <2>2, VisibleStay DEF Chart
  <2>4. n \notin ignored /\ n \notin excluded
    BY <2>3, IgnoredAreHidden, ExcludedAreStoodInFor
  <2>5. n \notin selector_map
    BY DEF in_text, InImage
  <2>6. page[n].scrollable /\ \E m \in Below(n) : is_interactive(m)
    BY <2>1, <2>3, <2>4, <2>5 DEF Indexed
  <2> QED
    BY <2>1, <2>6, InDom DEF Below
<1> QED
  BY <1>1, PassesInvariance, PTL
=============================================================================
