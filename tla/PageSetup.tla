------------------------------ MODULE PageSetup ------------------------------
(***************************************************************************)
(* The notebook form of the New dialog (apps/web notebook-tab.tsx, with    *)
(* spec.ts), the user's saved page sizes, and what the server takes of it  *)
(* (packages/schema page.ts and creation.ts).  Lengths are exact: a        *)
(* hundredth of a point is Exact units.                                    *)
(***************************************************************************)
EXTENDS Paper, Sequences

CONSTANTS PageSizes,   \* the form's page sizes: presets, "custom", "saved"
          Typed,     \* widths and heights: tenths of the unit, or None
          Units,     \* of "mm", "cm", "in", "px"
          Papers,    \* templates
          Lines,     \* what is typed for spacing and margin: tenths of a millimetre, or None
          Counts,    \* what is typed for the pages, or None
          Orientations,
          Images,    \* pixel sizes of imported images, or None
          MaxSizes,  \* page sizes a user may keep
          None

VARIABLES form,     \* NotebookForm; pick is the saved size when size is "saved"
          stored,   \* the user's page sizes on the server
          saved,    \* the sizes the dialog knows
          saving,   \* the size being saved, and if its form is still there; None if there is none
          sent,     \* the request, None until a form is submitted
          made      \* the pages (or board) of its document, 0 if it was refused, None before

vars == <<form, stored, saved, saving, sent, made>>

-----------------------------------------------------------------------------
\* page.ts.

Exact == 254
Unit == [mm |-> 7200, cm |-> 72000, in |-> 182880, px |-> 1905]

ToPoints(typed, unit) == typed * Unit[unit]
Round2(length) == (length + Exact \div 2) \div Exact

Mm(w, h) == <<(36000 * w + 63) \div 127, (36000 * h + 63) \div 127>>
Inch(w, h) == <<72 * w, 72 * h>>              \* hundredths of an inch

\* PAGE_SIZE_PRESETS, in hundredths of a point.
Presets ==
  [a0 |-> Mm(841, 1189), a1 |-> Mm(594, 841), a2 |-> Mm(420, 594), a3 |-> Mm(297, 420), a4 |-> Mm(210, 297),
   a5 |-> Mm(148, 210), a6 |-> Mm(105, 148), b0 |-> Mm(1000, 1414), b1 |-> Mm(707, 1000), b2 |-> Mm(500, 707),
   b3 |-> Mm(353, 500), b4 |-> Mm(250, 353), b5 |-> Mm(176, 250), b6 |-> Mm(125, 176), c4 |-> Mm(229, 324),
   c5 |-> Mm(162, 229), c6 |-> Mm(114, 162), letter |-> Inch(850, 1100), legal |-> Inch(850, 1400),
   tabloid |-> Inch(1100, 1700), executive |-> Inch(725, 1050), indexCard |-> Inch(300, 500),
   slide16x9 |-> <<96000, 54000>>, slide4x3 |-> <<72000, 54000>>, phone |-> <<39000, 84400>>]

Orient(size, orientation) ==
  IF orientation = "portrait" THEN <<Min({size[1], size[2]}), Max({size[1], size[2]})>>
                              ELSE <<Max({size[1], size[2]}), Min({size[1], size[2]})>>

\* TEMPLATE_DEFAULTS: spacing and margin, in hundredths of a point.
Defaults ==
  [blank |-> <<2000, 0>>, ruledCollege |-> <<2025, 9000>>, ruledWide |-> <<2475, 9000>>,
   ruledNarrow |-> <<1800, 7200>>, grid |-> <<1417, 0>>, dotGrid |-> <<1417, 0>>,
   isometric |-> <<1600, 0>>, hex |-> <<1400, 0>>, graphWithAxes |-> <<1417, 1800>>,
   musicStaff |-> <<720, 4200>>, cornell |-> <<2025, 3600>>, plannerDaily |-> <<2200, 3600>>,
   plannerWeekly |-> <<2000, 3600>>, plannerMonthly |-> <<2000, 3600>>, storyboard |-> <<1600, 3600>>,
   handwritingPractice |-> <<1200, 3600>>, engineering |-> <<1440, 3600>>, calligraphySlants |-> <<1000, 3600>>]

MaxPage == 1440000
MaxPixels == 100000

\* imagePageSize: three quarters of a point for a pixel, 14400 points at most and one at least.
Scaled(longest, n) ==
  100 * ((14400 * n) \div longest) + (100 * ((14400 * n) % longest) + longest \div 2) \div longest

ImagePageSize(px) ==
  LET longest == Max({px[1], px[2]})
  IN [i \in 1..2 |-> Max({100, IF longest <= 19200 THEN 75 * px[i] ELSE Scaled(longest, px[i])})]

\* creation.ts importFiles: an image's page is the image's size, or a paper it is centred on.
ImagePage(px, fit) ==
  IF fit = "image" /\ px # None THEN ImagePageSize(px)
  ELSE Orient(Presets[IF fit = "image" THEN "a4" ELSE fit],
              IF px # None /\ px[1] > px[2] THEN "landscape" ELSE "portrait")

\* newDocumentSchema: a canvas with canvasBackgroundSchema, a notebook with pageSpecSchema, an image to import.
SchemaTakes(r) ==
  IF r.kind = "canvas" THEN r.spacing > 0 /\ r.spacing <= 40000 * Exact ELSE
  IF r.kind = "import" THEN r.px = None \/ (\A i \in 1..2 : r.px[i] \in 1..MaxPixels) ELSE
  /\ r.preset \in DOMAIN Presets \cup {"custom"}
  /\ r.width \in 1..MaxPage /\ r.height \in 1..MaxPage
  /\ r.template \in DOMAIN Defaults /\ r.spacing > 0 /\ r.margin >= 0
  /\ r.count \in 1..500

\* createPageSizePresetSchema.
SizeTakes(size) == \A i \in 1..2 : size[i] > 0 /\ size[i] <= MaxPage * Exact

\* The system's templates, and paperPageSpec that makes their pages.
SystemTemplates ==
  LET of(size, orientation, template, count) ==
        [size |-> size, orientation |-> orientation, template |-> template, count |-> count]
  IN {of("a4", "portrait", "cornell", 10), of("letter", "portrait", "ruledCollege", 20),
      of("a5", "portrait", "dotGrid", 30),
      of("a5", "portrait", "plannerDaily", 7), of("a4", "portrait", "plannerWeekly", 4),
      of("a4", "landscape", "plannerMonthly", 12), of("a4", "portrait", "graphWithAxes", 10),
      of("letter", "portrait", "engineering", 10), of("a4", "portrait", "musicStaff", 10),
      of("a4", "landscape", "storyboard", 6), of("letter", "portrait", "handwritingPractice", 5),
      of("a4", "portrait", "grid", 10)}

PaperPageSpec(t) ==
  LET size == Orient(Presets[t.size], t.orientation)
  IN [kind |-> "notebook", preset |-> t.size, width |-> size[1], height |-> size[2], template |-> t.template,
      spacing |-> Defaults[t.template][1], margin |-> Defaults[t.template][2], count |-> t.count]

-----------------------------------------------------------------------------
\* spec.ts.

\* mm: in the form a length has one decimal.
Displayed(hundredths) == (hundredths * 127 + 1800) \div 3600

WithTemplate(f, template) ==
  [f EXCEPT !.template = template, !.spacing = Displayed(Defaults[template][1]), !.margin = Displayed(Defaults[template][2])]

DefaultForm ==
  WithTemplate([size |-> "a4", pick |-> <<>>, width |-> 1000, height |-> 1500, unit |-> "mm", orientation |-> "portrait",
                template |-> "blank", spacing |-> 0, margin |-> 0, count |-> 1], "ruledCollege")

Error == [ok |-> FALSE]

\* (Mutant: only the smaller side has a bound.)
FormSizeUnbounded(f, sizes) ==
  LET w == ToPoints(f.width, f.unit)
      h == ToPoints(f.height, f.unit)
  IN IF f.size = "custom" /\ Min({w, h}) >= 7200 * Exact
     THEN [ok |-> TRUE, preset |-> "custom", width |-> w, height |-> h] ELSE Error

FormSize(f, sizes) ==
  IF f.size \in DOMAIN Presets
  THEN [ok |-> TRUE, preset |-> f.size, width |-> Presets[f.size][1] * Exact, height |-> Presets[f.size][2] * Exact]
  ELSE IF f.size = "custom"
  THEN LET w == ToPoints(f.width, f.unit)
           h == ToPoints(f.height, f.unit)
       IN IF None \in {f.width, f.height} \/ Min({w, h}) < 7200 * Exact \/ Max({w, h}) > MaxPage * Exact THEN Error
          ELSE [ok |-> TRUE, preset |-> "custom", width |-> w, height |-> h]
  ELSE IF f.pick \notin sizes THEN Error
  ELSE [ok |-> TRUE, preset |-> "custom", width |-> f.pick[1], height |-> f.pick[2]]

NotebookSpec(f, sizes) ==
  LET size == FormSize(f, sizes)
      spacing == ToPoints(f.spacing, "mm")
      margin == ToPoints(f.margin, "mm")
      oriented == Orient(<<size.width, size.height>>, f.orientation)
  IN IF ~size.ok \/ None \in {f.spacing, f.margin, f.count} THEN Error
     ELSE IF spacing < 200 * Exact \/ spacing > 20000 * Exact THEN Error
     ELSE IF margin < 0 \/ 3 * margin > Min({size.width, size.height}) THEN Error
     ELSE IF f.count \notin 1..500 THEN Error
     ELSE [ok |-> TRUE, kind |-> "notebook", preset |-> size.preset, width |-> Round2(oriented[1]), height |-> Round2(oriented[2]),
           template |-> f.template, spacing |-> Round2(spacing), margin |-> Round2(margin), count |-> f.count]

\* matchPreset: the presets a page may be named after.
MatchPreset(w, h) ==
  LET near(m, n) == m - n \in -59..59
  IN {id \in DOMAIN Presets : LET p == Presets[id]
                              IN (near(p[1], w) /\ near(p[2], h)) \/ (near(p[1], h) /\ near(p[2], w))}

Result == NotebookSpec(form, saved)

-----------------------------------------------------------------------------
Init ==
  /\ form = DefaultForm
  /\ stored \in {{}, {<<7200 * Exact, MaxPage * Exact>>}} /\ saved = stored
  /\ saving = None /\ sent = None /\ made = None

Set(f) == sent = None /\ form' = f /\ UNCHANGED <<stored, saved, saving, sent, made>>

ChooseSize(s) == Set([form EXCEPT !.size = s, !.pick = <<>>])
ChooseSaved(s) == s \in saved /\ Set([form EXCEPT !.size = "saved", !.pick = s])
ChooseOrientation(o) == Set([form EXCEPT !.orientation = o])
TypeSize(w, h, u) == form.size = "custom" /\ Set([form EXCEPT !.width = w, !.height = h, !.unit = u])
ChooseTemplate(t) == Set(WithTemplate(form, t))
TypeLines(s, m) == Set([form EXCEPT !.spacing = s, !.margin = m])
TypeCount(n) == Set([form EXCEPT !.count = n])

\* Another tab and back: the form starts again, and a save that goes on no longer changes it.
Leave ==
  /\ sent = None /\ form' = DefaultForm
  /\ saving' = IF saving = None THEN None ELSE [saving EXCEPT !.here = FALSE]
  /\ UNCHANGED <<stored, saved, sent, made>>

\* saveSize: there with a custom size, when the form as a whole is right.
SaveSize ==
  /\ sent = None /\ saving = None
  /\ form.size = "custom" /\ Result.ok
  /\ saving' = [size |-> <<ToPoints(form.width, form.unit), ToPoints(form.height, form.unit)>>, here |-> TRUE]
  /\ UNCHANGED <<form, stored, saved, sent, made>>

\* templates.ts create, and its answer: after the sizes were asked for again the form has the new one,
\* whatever was chosen meanwhile.  The answer may be lost, and so may the sizes.
SizeSaved ==
  /\ saving # None /\ saving' = None
  /\ IF SizeTakes(saving.size) /\ Cardinality(stored) < MaxSizes
     THEN /\ stored' = stored \cup {saving.size}
          /\ \/ UNCHANGED <<form, saved>>
             \/ /\ saved' \in {saved, stored'}
                /\ form' = IF saving.here /\ sent = None THEN [form EXCEPT !.size = "saved", !.pick = saving.size]
                           ELSE form
     ELSE UNCHANGED <<form, stored, saved>>
  /\ UNCHANGED <<sent, made>>

\* A size is deleted by another window, or the sizes are read again.
Elsewhere ==
  /\ \/ \E s \in stored : stored' = stored \ {s} /\ UNCHANGED saved
     \/ saved # stored /\ saved' = stored /\ UNCHANGED stored
  /\ UNCHANGED <<form, saving, sent, made>>

\* submit, with the result that is shown.
Submit ==
  /\ sent = None /\ Result.ok
  /\ sent' = Result
  /\ UNCHANGED <<form, stored, saved, saving, made>>

\* The other tabs: the form is not there, and starts again.
OtherTab == sent = None /\ form = DefaultForm

\* canvas-tab.tsx: an infinite canvas, with a spacing of its own.
SubmitCanvas(typed) ==
  /\ OtherTab /\ typed # None
  /\ ToPoints(typed, "mm") \in 200 * Exact .. 40000 * Exact
  /\ sent' = [kind |-> "canvas", spacing |-> ToPoints(typed, "mm"), count |-> 1]
  /\ UNCHANGED <<form, stored, saved, saving, made>>

\* import-tab.tsx: an image, whose size may not be known yet.
SubmitImage(px, fit) ==
  /\ OtherTab
  /\ sent' = [kind |-> "import", px |-> px, fit |-> fit, count |-> 1]
  /\ UNCHANGED <<form, stored, saved, saving, made>>

\* templates-tab.tsx: a template of the system.
UseSystem(t) ==
  /\ OtherTab /\ sent' = PaperPageSpec(t)
  /\ UNCHANGED <<form, stored, saved, saving, made>>

\* creation.ts: the request is parsed, and so many pages are made of its spec (one board of a canvas's).
Create ==
  /\ sent # None /\ made = None
  /\ made' = IF SchemaTakes(sent) THEN sent.count ELSE 0
  /\ UNCHANGED <<form, stored, saved, saving, sent>>

\* The folder is gone, the network fails: the form goes on.
Fail ==
  /\ sent # None /\ made = None /\ sent' = None
  /\ UNCHANGED <<form, stored, saved, saving, made>>

Next ==
  \/ \E s \in PageSizes : ChooseSize(s)
  \/ \E s \in saved : ChooseSaved(s)
  \/ \E o \in Orientations : ChooseOrientation(o)
  \/ \E w, h \in Typed, u \in Units : TypeSize(w, h, u)
  \/ \E t \in Papers : ChooseTemplate(t)
  \/ \E s, m \in Lines : TypeLines(s, m)
  \/ \E n \in Counts : TypeCount(n)
  \/ \E s \in Lines : SubmitCanvas(s)
  \/ \E px \in Images, fit \in (PageSizes \cap DOMAIN Presets) \cup {"image"} : SubmitImage(px, fit)
  \/ \E t \in SystemTemplates : UseSystem(t)
  \/ Leave \/ SaveSize \/ SizeSaved \/ Elsewhere \/ Submit \/ Create \/ Fail

Spec == Init /\ [][Next]_vars

-----------------------------------------------------------------------------
\* Every variable holds a value of its kind.
TypeOK ==
  /\ form.size \in DOMAIN Presets \cup {"custom", "saved"}
  /\ form.orientation \in {"portrait", "landscape"} /\ form.template \in DOMAIN Defaults
  /\ saved \subseteq Nat \X Nat /\ stored \subseteq Nat \X Nat
  /\ saving # None => saving.here \in BOOLEAN /\ saving.size \in Nat \X Nat
  /\ made \in 0..500 \cup {None} /\ (made # None => sent # None)

\* An image's page is a page a notebook could have, turned as the image is, and of the image's shape if
\* it is not scaled to a side of one point.
ImageIsKept(r) ==
  LET page == ImagePage(r.px, r.fit)
      off == page[1] * (r.px[2] \div 100) - page[2] * (r.px[1] \div 100)
  IN /\ \A i \in 1..2 : page[i] \in 100..MaxPage
     /\ r.px # None /\ r.px[1] > r.px[2] => page[1] >= page[2]
     /\ r.px # None /\ r.px[1] <= r.px[2] => page[1] <= page[2]
     /\ (r.fit = "image" /\ r.px # None /\ 100 \notin {page[1], page[2]}
         /\ Max({r.px[1], r.px[2]}) > 19200) => -1000 <= off /\ off <= 1000

\* What a form lets through is never refused for its values and makes as many pages as were shown;
\* a size that was saved is one the form takes again, although the server would also keep smaller
\* ones; and an image of any size makes a page (spec.ts and import-tab.tsx against page.ts, creation.ts).
SentIsAccepted ==
  /\ made # None => made = sent.count
  /\ made # None /\ sent.kind = "import" => ImageIsKept(sent)
  /\ \A s \in stored : Min({s[1], s[2]}) >= 7200 * Exact /\ Max({s[1], s[2]}) <= MaxPage * Exact

\* What needs room: below it their parts are drawn over the edge.
NeedRoom == {"musicStaff", "cornell", "plannerDaily", "plannerWeekly", "storyboard"}

OnThePage(r) ==
  LET w == r.width \div 10
      h == r.height \div 10
  IN \A m \in PaperCommands(w, h, r.template, r.spacing \div 10, r.margin \div 10) :
       {m[1], m[3]} \subseteq 0..w /\ {m[2], m[4]} \subseteq 0..h

\* Where what does not change is looked at once.
Untouched == form = DefaultForm /\ stored = {} /\ saving = None /\ sent = None

BoardIsCovered(view, s) ==
  LET marks == CanvasBackground("dots", s, view, 40)
      inView(x, y) == x - view.x \in 0..view.width /\ y - view.y \in 0..view.height
  IN /\ \A m \in marks : m[1] % s = 0 /\ m[2] % s = 0
     /\ \A x, y \in -1..8 : x % s = 0 /\ y % s = 0 /\ inView(x, y) => Dot(x, y) \in marks

\* The preview has every mark on the page, whatever spacing and margin the form takes (for planners and
\* the like: their own, on a page that is not smaller than an A6), as have the system's templates, and a
\* page of a preset's size is named after that preset however it is turned (templates.ts, spec.ts
\* matchPreset).  A board shows the same marks of its plane wherever it is looked at, and all that are in
\* view (infinite.ts).
DrawnAsChosen ==
  /\ Untouched => /\ \A t \in SystemTemplates : OnThePage(PaperPageSpec(t))
                  /\ \A x, y \in -1..3, s \in 2..3 : BoardIsCovered([x |-> x, y |-> y, width |-> 5, height |-> 4], s)
  /\ Result.ok =>
    LET r == Result
        room == /\ Min({r.width, r.height}) >= Presets["a6"][1] /\ Max({r.width, r.height}) >= Presets["a6"][2]
                /\ form = WithTemplate(form, form.template)
                /\ r.template = "storyboard" => r.width <= 4 * r.height
    IN /\ r.template \notin NeedRoom \/ room => OnThePage(r)
       /\ r.preset # "custom" => MatchPreset(r.width, r.height) = {r.preset}
=============================================================================
