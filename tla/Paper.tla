-------------------------------- MODULE Paper --------------------------------
(***************************************************************************)
(* The paper of a page (packages/engine/src/paper): the marks of every     *)
(* template, from the page's size, the spacing and the margin, and the     *)
(* background of an infinite canvas.  Lengths are tenths of a point, which *)
(* is where the source's fractions are cut off.                            *)
(***************************************************************************)
EXTENDS Integers, FiniteSets, FiniteSetsExt

\* A straight line, with ends; a dot or a text's start is one without length, a rectangle its diagonal.
Line(x1, y1, x2, y2) == <<x1, y1, x2, y2>>
Dot(x, y) == <<x, y, x, y>>
Rect(x, y, w, h) == <<x, y, x + w, y + h>>

Pt(n) == 10 * n
Box(l, t, r, b) == [left |-> l, top |-> t, right |-> r, bottom |-> b]

\* from, from + step, ... up to the end.
Steps(from, step, end) == {from + k * step : k \in 0..Max({-1, (end - from) \div step})}

-----------------------------------------------------------------------------
\* geometry.ts.

\* How many parts of a segment are told apart.
Whole == 50000

\* clipSegment: where the segment enters and leaves the box, in parts of its length.
ClipRange(x1, y1, x2, y2, box) ==
  LET dx == x2 - x1
      dy == y2 - y1
      checks == {<<-dx, x1 - box.left>>, <<dx, box.right - x1>>, <<-dy, y1 - box.top>>, <<dy, box.bottom - y1>>}
      enter == {-((c[2] * Whole) \div (-c[1])) : c \in {d \in checks : d[1] < 0}}
      leave == {(c[2] * Whole) \div c[1] : c \in {d \in checks : d[1] > 0}}
  IN [outside |-> \E c \in checks : c[1] = 0 /\ c[2] < 0,
      from |-> Max({0} \cup enter), to |-> Min({Whole} \cup leave)]

\* (Mutant: a segment that does not meet the box is kept.)
ClipAnything(x1, y1, x2, y2, box) == {Line(x1, y1, x2, y2)}

ClipSegment(x1, y1, x2, y2, box) ==
  LET r == ClipRange(x1, y1, x2, y2, box)
      at(from, to, t) == from + ((to - from) * t) \div Whole
  IN IF r.outside \/ r.to <= r.from THEN {}
     ELSE {Line(at(x1, x2, r.from), at(y1, y2, r.from), at(x1, x2, r.to), at(y1, y2, r.to))}

\* An angle's cosine and sine, in thousandths.
Direction ==
  [angle \in {30, 90, 150} |->
     CASE angle = 30 -> <<866, 500>> [] angle = 90 -> <<0, 1000>> [] angle = 150 -> <<-866, 500>>]

\* Parallel lines through the origin and beside it.
LineFamily(angle, spacing, box, ox, oy) ==
  LET u == Direction[angle]
      projection(x, y) == ((y - oy) * u[1] - (x - ox) * u[2]) \div 1000
      ends == {projection(x, y) : x \in {box.left, box.right}, y \in {box.top, box.bottom}}
      reach == box.right - box.left + box.bottom - box.top + Pt(1)
      line(k) ==
        LET px == ox - (u[2] * k * spacing) \div 1000
            py == oy + (u[1] * k * spacing) \div 1000
            rx == (u[1] * reach) \div 1000
            ry == (u[2] * reach) \div 1000
        IN ClipSegment(px - rx, py - ry, px + rx, py + ry, box)
  IN UNION {line(k) : k \in -((-Min(ends)) \div spacing) .. Max(ends) \div spacing}

\* Positions a step apart, the rest split between both ends.
CentredSteps(start, end, step) ==
  LET count == (end - start) \div step
  IN {start + (end - start - count * step) \div 2 + i * step : i \in 0..count}

Earliest(steps, default) == IF steps = {} THEN default ELSE Min(steps)
Latest(steps, default) == IF steps = {} THEN default ELSE Max(steps)

-----------------------------------------------------------------------------
\* templates.ts: p is the paper [w, h, s, m] with its margin m kept to a third of the page.

Inset(p) == Box(p.m, p.m, p.w - p.m, p.h - p.m)

HorizontalRules(p, from, to, x1, x2) == {Line(x1, y, x2, y) : y \in Steps(from, p.s, to)}

Ruled(p) ==
  HorizontalRules(p, 3 * p.s, p.h - p.s, 0, p.w)
    \cup (IF p.m > 0 THEN {Line(p.m, 0, p.m, p.h)} ELSE {})

Grid(p, box) ==
  LET xs == CentredSteps(box.left, box.right, p.s)
      ys == CentredSteps(box.top, box.bottom, p.s)
  IN {Line(x, Earliest(ys, box.top), x, Latest(ys, box.bottom)) : x \in xs}
       \cup {Line(Earliest(xs, box.left), y, Latest(xs, box.right), y) : y \in ys}

DotGrid(p) ==
  {Dot(x, y) : x \in CentredSteps(p.m, p.w - p.m, p.s), y \in CentredSteps(p.m, p.h - p.m, p.s)}

Isometric(p) ==
  UNION {LineFamily(angle, (866 * p.s) \div 1000, Inset(p), p.w \div 2, p.h \div 2) : angle \in {30, 90, 150}}

Hex(p) ==
  LET box == Inset(p)
      rowH == (1732 * p.s) \div 1000
      dx == <<p.s, p.s \div 2, -(p.s \div 2), -p.s, -(p.s \div 2), p.s \div 2>>
      dy == [i \in 1..6 |-> CASE i \in {2, 3} -> rowH \div 2 [] i \in {5, 6} -> -(rowH \div 2) [] OTHER -> 0]
      cols == -1 .. (2 * (box.right - box.left + p.s)) \div (3 * p.s)
      rows == -1 .. (box.bottom - box.top + rowH) \div rowH
      cx(col) == box.left + (3 * p.s * col) \div 2
      cy(col, row) == box.top + row * rowH + (IF col % 2 = 1 THEN rowH \div 2 ELSE 0)
  IN UNION {ClipSegment(cx(c) + dx[i], cy(c, r) + dy[i], cx(c) + dx[(i % 6) + 1], cy(c, r) + dy[(i % 6) + 1], box) :
              c \in cols, r \in rows, i \in 1..6}

GraphWithAxes(p) ==
  LET xs == CentredSteps(p.m, p.w - p.m, p.s)
      ys == CentredSteps(p.m, p.h - p.m, p.s)
      middle(steps, default) == IF steps = {} THEN default ELSE Min(steps) + p.s * (Cardinality(steps) \div 2)
      x == middle(xs, p.w \div 2)
      y == middle(ys, p.h \div 2)
  IN Grid(p, Inset(p)) \cup {Line(x, Earliest(ys, p.m), x, Latest(ys, p.h - p.m)),
                             Line(Earliest(xs, p.m), y, Latest(xs, p.w - p.m), y)}

MusicStaff(p) ==
  LET available == p.h - 2 * p.m
      block == 10 * p.s
      count == Max({1, (available + 6 * p.s) \div block})
      top == p.m + (available - (count * block - 6 * p.s)) \div 2
  IN UNION {LET y == top + staff * block
            IN {Line(p.m, y + i * p.s, p.w - p.m, y + i * p.s) : i \in 0..4}
                 \cup {Line(x, y, x, y + 4 * p.s) : x \in {p.m, p.w - p.m}} : staff \in 0..count - 1}

Cornell(p) ==
  LET header == p.m + 2 * p.s
      cue == (3 * p.w) \div 10
      summary == (4 * p.h) \div 5
      size == Max({Pt(6), (35 * p.s) \div 100})
  IN HorizontalRules(p, header + p.s, summary - p.s \div 2, 0, p.w)
       \cup HorizontalRules(p, summary + p.s, p.h - p.m, 0, p.w)
       \cup {Line(0, header, p.w, header), Line(cue, header, cue, summary), Line(0, summary, p.w, summary),
             Dot(p.m, header - Pt(6)), Dot(p.m, header + size + Pt(3)), Dot(cue + Pt(6), header + size + Pt(3)),
             Dot(p.m, summary + size + Pt(3))}

PlannerDaily(p) ==
  LET headerY == p.m + Pt(28)
      split == p.m + (62 * (p.w - 2 * p.m)) \div 100
      top == headerY + Pt(12)
      slot(i) == top + (i * (p.h - p.m - top)) \div 14
      x == split + Pt(12)
      y(i) == top + Pt(22) + i * p.s
      notes == y(6) + Pt(18)
  IN {Dot(p.m, p.m + Pt(14)), Line(p.m, headerY, p.w - p.m, headerY), Line(split, headerY + Pt(8), split, p.h - p.m)}
       \cup {Line(p.m, slot(i), split - Pt(8), slot(i)) : i \in 0..14}
       \cup (UNION {{Line(p.m + Pt(30), (slot(i) + slot(i + 1)) \div 2, split - Pt(8), (slot(i) + slot(i + 1)) \div 2),
                     Dot(p.m, slot(i) + Pt(10))} : i \in 0..13})
       \cup {Dot(x, top + Pt(8)), Dot(x, notes)}
       \cup (UNION {{Rect(x, y(i) - Pt(8), Pt(8), Pt(8)), Line(x + Pt(14), y(i), p.w - p.m, y(i))} : i \in 0..5})
       \cup HorizontalRules(p, notes + p.s, p.h - p.m, x, p.w - p.m)

PlannerWeekly(p) ==
  LET top == p.m + Pt(28)
      cw == (p.w - 2 * p.m - Pt(10)) \div 2
      ch == (p.h - p.m - top - Pt(40)) \div 4
      x(i) == p.m + (i % 2) * (cw + Pt(10))
      y(i) == top + Pt(10) + (i \div 2) * (ch + Pt(10))
  IN {Dot(p.m, p.m + Pt(14)), Line(p.m, top, p.w - p.m, top)}
       \cup UNION {{Rect(x(i), y(i), cw, ch), Dot(x(i) + Pt(6), y(i) + Pt(13))}
                   \cup {Line(x(i) + Pt(6), ly, x(i) + cw - Pt(6), ly) :
                           ly \in Steps(y(i) + Pt(20) + p.s, p.s, y(i) + ch - Pt(4) - 1)} : i \in 0..7}

PlannerMonthly(p) ==
  LET top == p.m + Pt(28)
      gridTop == top + Pt(20)
      col(c) == p.m + (c * (p.w - 2 * p.m)) \div 7
      row(r) == gridTop + (r * (p.h - p.m - gridTop)) \div 6
  IN {Dot(p.m, p.m + Pt(14)), Line(p.m, top, p.w - p.m, top)}
       \cup {Dot((col(i) + col(i + 1)) \div 2, top + Pt(14)) : i \in 0..6}
       \cup {Line(p.m, row(r), p.w - p.m, row(r)) : r \in 0..6}
       \cup {Line(col(c), gridTop, col(c), p.h - p.m) : c \in 0..7}

Storyboard(p) ==
  LET cols == IF p.w > p.h THEN 3 ELSE 2
      cw == (p.w - 2 * p.m - (cols - 1) * Pt(18)) \div cols
      frame == (9 * cw) \div 16
      rowH == frame + Pt(8) + 2 * p.s + Pt(18)
      rows == Max({1, (p.h - 2 * p.m + Pt(18)) \div rowH})
  IN UNION {LET x == p.m + c * (cw + Pt(18))
                y == p.m + r * rowH
            IN {Rect(x, y, cw, frame), Dot(x + Pt(5), y + Pt(11))}
                 \cup {Line(x, y + frame + Pt(8) + i * p.s, x + cw, y + frame + Pt(8) + i * p.s) : i \in 1..2}
              : r \in 0..rows - 1, c \in 0..cols - 1}

HandwritingPractice(p) ==
  {Line(p.m, y + i * p.s, p.w - p.m, y + i * p.s) :
     y \in Steps(p.m + p.s, 4 * p.s, p.h - p.m - 3 * p.s), i \in 0..3}

Engineering(p) ==
  LET third == (p.w - 2 * p.m) \div 3
      bottom == p.m + Pt(36)
  IN {Rect(p.m, p.m, p.w - 2 * p.m, Pt(36)), Line(p.m + third, p.m, p.m + third, bottom),
      Line(p.m + 2 * third, p.m, p.m + 2 * third, bottom)}
       \cup Grid(p, Box(p.m, bottom + Pt(12), p.w - p.m, p.h - p.m))

CalligraphySlants(p) ==
  LET run == (11 * p.s * 1000) \div 1428
      band(y) == Box(p.m, y, p.w - p.m, y + 11 * p.s)
  IN UNION {{Line(p.m, y + i * p.s, p.w - p.m, y + i * p.s) : i \in {0, 3, 8, 11}}
              \cup UNION {ClipSegment(x, y + 11 * p.s, x + run, y, band(y)) : x \in Steps(p.m - run, 4 * p.s, p.w - p.m)}
            : y \in Steps(p.m, 13 * p.s, p.h - p.m - 11 * p.s)}

PaperTemplates == {"blank", "ruledCollege", "ruledWide", "ruledNarrow", "grid", "dotGrid", "isometric", "hex",
              "graphWithAxes", "musicStaff", "cornell", "plannerDaily", "plannerWeekly", "plannerMonthly",
              "storyboard", "handwritingPractice", "engineering", "calligraphySlants"}

\* paper and paperCommands: the three ruled papers differ in their defaults only.
PaperCommands(w, h, template, s, margin) ==
  LET p == [w |-> w, h |-> h, s |-> s, m |-> Min({margin, w \div 3, h \div 3})]
  IN CASE template = "blank" -> {}
       [] template \in {"ruledCollege", "ruledWide", "ruledNarrow"} -> Ruled(p)
       [] template = "grid" -> Grid(p, Inset(p))
       [] template = "dotGrid" -> DotGrid(p)
       [] template = "isometric" -> Isometric(p)
       [] template = "hex" -> Hex(p)
       [] template = "graphWithAxes" -> GraphWithAxes(p)
       [] template = "musicStaff" -> MusicStaff(p)
       [] template = "cornell" -> Cornell(p)
       [] template = "plannerDaily" -> PlannerDaily(p)
       [] template = "plannerWeekly" -> PlannerWeekly(p)
       [] template = "plannerMonthly" -> PlannerMonthly(p)
       [] template = "storyboard" -> Storyboard(p)
       [] template = "handwritingPractice" -> HandwritingPractice(p)
       [] template = "engineering" -> Engineering(p)
       [] template = "calligraphySlants" -> CalligraphySlants(p)

-----------------------------------------------------------------------------
\* infinite.ts: the marks in view, from the world's grid.

CanvasBackground(pattern, s, view, MaxMarks) ==
  LET marks == (-((-view.width) \div s) + 1) * (-((-view.height) \div s) + 1)
      right == view.x + view.width
      bottom == view.y + view.height
      xs == Steps((view.x \div s) * s, s, right)
      ys == Steps((view.y \div s) * s, s, bottom)
      rows == {Line(view.x, y, right, y) : y \in ys}
  IN CASE pattern = "none" \/ marks > MaxMarks -> {}
       [] pattern = "dots" /\ marks <= MaxMarks -> {Dot(x, y) : x \in xs, y \in ys}
       [] pattern = "lines" /\ marks <= MaxMarks -> rows
       [] pattern = "grid" /\ marks <= MaxMarks -> rows \cup {Line(x, view.y, x, bottom) : x \in xs}
=============================================================================
