-------------------------- MODULE DomSerializerMC ---------------------------
(***************************************************************************)
(* The pages on which DomSerializer is checked.  Lengths are of the order  *)
(* of the viewport, 4 by 4: a page has elements in it, near it and off it. *)
(***************************************************************************)
EXTENDS DomSerializer

El(parent, name, rect, paint) ==
  [parent |-> parent, tag |-> name, rect |-> rect, paint |-> paint,
   opaque |-> FALSE, mark |-> "none", scrollable |-> FALSE, invisible |-> FALSE,
   scroll |-> 0, view |-> <<0, 0>>]

Doc(parent, scroll, height_) ==
  [El(parent, "html", Rect(0, 0, 4, 20), parent) EXCEPT
     !.scroll = scroll, !.view = <<4, height_>>]

Full == Rect(0, 0, 4, 4)
Left == Rect(0, 0, 2, 4)
Right == Rect(2, 0, 4, 4)
Small == Rect(1, 1, 3, 3)
Rows(y) == Rect(0, y, 4, y + 2)

\* Elements side by side, over and inside one another, painted in several orders.
Layers ==
  \E r2 \in {Full, Small}, t2 \in {"a", "div"},
     p3 \in {1, 2}, t3 \in {"a", "div"}, r3 \in {Full, Left, Small}, o3 \in {2, 3},
     b3 \in BOOLEAN,
     p4 \in {1, 2, 3}, m4 \in {<<"input", "none">>, <<"div", "pointer">>, <<"div", "onclick">>},
     r4 \in {Right, Small}, o4 \in {1, 3}, b4 \in BOOLEAN :
    page = <<Doc(0, 0, 4), [El(1, "div", r2, 2) EXCEPT !.tag = t2, !.scrollable = t2 = "div"],
                [El(p3, t3, r3, o3) EXCEPT !.opaque = b3],
                [El(p4, m4[1], r4, o4) EXCEPT !.mark = m4[2], !.opaque = b4]>>

\* A frame of either kind, scrolled or not, with an element in it and one beside
\* it; some are off the screen, invisible, or kept for their aria attribute.
Framed ==
  \E s1 \in {0, 9}, t2 \in {"iframe", "oopif"}, y2 \in {1, 9, 14},
     s3 \in {0, 9}, b3 \in BOOLEAN,
     m4 \in {<<"input", "none">>, <<"div", "label">>}, y4 \in {0, 10}, i4 \in BOOLEAN,
     m5 \in {<<"a", "none">>, <<"div", "label">>}, y5 \in {1, 10}, o5 \in {1, 4},
     i5 \in BOOLEAN :
    page = <<Doc(0, s1, 4), El(1, t2, Rect(0, y2, 4, y2 + 3), 2),
             [Doc(2, s3, 3) EXCEPT !.opaque = b3],
             [El(3, m4[1], Rows(y4), 3) EXCEPT
                !.mark = m4[2], !.opaque = m4[1] = "div", !.invisible = i4],
             [El(1, m5[1], Rows(y5), o5) EXCEPT
                !.mark = m5[2], !.opaque = m5[1] = "div", !.invisible = i5]>>

\* Images, texts, file inputs and scrollable containers inside one another.
Nested ==
  \E t2 \in {"a", "svg", "div"}, c2 \in BOOLEAN, t3 \in {"svg", "a", "div"},
     m3 \in {"none", "pointer", "label"}, c3 \in BOOLEAN, p4 \in {2, 3},
     t4 \in {"a", "file", "div", "text"}, y4 \in {0, 9}, i4 \in BOOLEAN :
    page = <<Doc(0, 0, 4), [El(1, t2, Full, 1) EXCEPT !.scrollable = c2],
             [El(2, t3, Full, 2) EXCEPT !.mark = m3, !.scrollable = c3],
             [El(p4, t4, Rows(y4), 3) EXCEPT !.mark = m3, !.invisible = i4]>>

\* What is kept without being seen, a link that is out of sight around an element
\* that is not, and lines.
Odd ==
  \E s1 \in {0, 9}, y2 \in {0, 9}, y3 \in {0, 4, 9}, t4 \in {"file", "iframe", "input"},
     r4 \in {Full, Rect(0, 2, 4, 2), Rows(2), Rows(9)}, o4 \in {1, 3}, i4 \in BOOLEAN :
    page = <<Doc(0, s1, 4), El(1, "a", Rows(y2), 1),
             [El(2, "div", Rows(y3), 2) EXCEPT !.mark = "pointer"],
             [El(1, t4, r4, o4) EXCEPT !.opaque = TRUE, !.invisible = i4]>>

MCInit == (Layers \/ Framed \/ Nested \/ Odd) /\ Init

MCSpec == MCInit /\ [][Next]_vars
=============================================================================
