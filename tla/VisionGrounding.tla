--------------------------- MODULE VisionGrounding ---------------------------
(***************************************************************************)
(* How a rendered frame is searched for the target of an action: the       *)
(* VisionGrounder of surfaces/vision.py.  Pixels, OCR confidences and      *)
(* measured distances are abstracted to a grid: a component of the frame   *)
(* fills one cell, two components are on one text row or in one text       *)
(* column when their cells are, and the gap between two columns separates  *)
(* text groups.  What the grounder decides with them (which matches count, *)
(* which container a value belongs to, when one match is preferred, when a *)
(* lookup is absent, ambiguous or broken) is translated as it is.          *)
(*                                                                         *)
(* A frame is a record: cells maps the filled cells to components, groups  *)
(* is the set of detected containers, each a set of cells; the groups that *)
(* hold a given cell are nested.                                           *)
(***************************************************************************)
EXTENDS Integers, FiniteSets, Sequences

CONSTANTS Rows,     \* height of the grid
          Columns,  \* width of the grid
          NoText    \* the text of a control or an image that shows none

ASSUME GridAssumption == Rows \in Nat \ {0} /\ Columns \in Nat \ {0}

Cells == (1 .. Rows) \X (1 .. Columns)

Before(c, d) == c[1] < d[1] \/ (c[1] = d[1] /\ c[2] < d[2])
RightOf(c, d) == c[1] = d[1] /\ d[2] > c[2]
Under(c, d) == c[2] = d[2] /\ d[1] > c[1]

-----------------------------------------------------------------------------
(* The layout graph of one frame. *)

OfKind(f, kind) == {c \in DOMAIN f.cells : f.cells[c].kind = kind}

\* An image carries its signature where other components carry text.
Tokens(f) ==
    {c \in DOMAIN f.cells : f.cells[c].kind # "image" /\ f.cells[c].text # NoText}

\* The viewport is always a container.
ContainersOf(f, c) == {g \in f.groups \cup {Cells} : c \in g}

Matching(f, value) == {c \in Tokens(f) : f.cells[c].text = value}

-----------------------------------------------------------------------------
(* Outcomes of a lookup. *)

Found(cells) == [found |-> TRUE, cells |-> cells, reason |-> "", recoverable |-> FALSE]
Failure(reason, recoverable) ==
    [found |-> FALSE, cells |-> {}, reason |-> reason, recoverable |-> recoverable]

\* Mutant: of several matches one is taken.
AnyOne(cells) ==
    IF cells # {} THEN Found({CHOOSE c \in cells : TRUE}) ELSE Failure("target_absent", TRUE)

\* A lookup succeeds only with exactly one match.
ExactlyOne(cells) ==
    IF Cardinality(cells) = 1 THEN Found(cells)
    ELSE Failure(IF cells = {} THEN "target_absent" ELSE "target_ambiguous", TRUE)

-----------------------------------------------------------------------------
(* Text and text beside text. *)

\* Of several equal texts, the only one that is enclosed as a control.
PreferUniqueControl(f, matches) ==
    LET enclosed == matches \cap OfKind(f, "control")
    IN IF Cardinality(enclosed) = 1 THEN enclosed ELSE matches

RenderedText(f, value) == ExactlyOne(PreferUniqueControl(f, Matching(f, value)))

HasRelation(anchor, target, relation) ==
    CASE relation = "same_row" -> anchor[1] = target[1]
      [] relation = "right_of" -> RightOf(anchor, target)
      [] relation = "below" -> Under(anchor, target)

OcrRelative(f, candidate) ==
    LET anchors == Matching(f, candidate.value)
        related == {t \in Matching(f, candidate.target) :
                        \E a \in anchors : HasRelation(a, t, candidate.relation)}
    IN IF anchors = {} THEN Failure("target_absent", TRUE)
       ELSE ExactlyOne(PreferUniqueControl(f, related))

-----------------------------------------------------------------------------
(* A control beside its label. *)

\* The candidates on the row of the anchor, or else those of the next row down.
StructuralRow(anchor, candidates) ==
    LET sameRow == {c \in candidates : RightOf(anchor, c)}
        following == {c \in candidates : Under(anchor, c)}
    IN IF sameRow # {} THEN sameRow
       ELSE {c \in following : \A d \in following : c[1] <= d[1]}

InterveningText(f, label, control) ==
    \E t \in Tokens(f) :
        IF control[2] > label[2]
        THEN RightOf(label, t) /\ RightOf(t, control)
        ELSE Under(label, t) /\ Under(t, control)

LabeledControl(f, candidate) ==
    LET labels == Matching(f, candidate.value)
        label == CHOOSE l \in labels : TRUE
        controls == {c \in StructuralRow(label, OfKind(f, "control")) :
                        ~InterveningText(f, label, c)}
    IN IF Cardinality(labels) # 1 THEN ExactlyOne(labels) ELSE ExactlyOne(controls)

-----------------------------------------------------------------------------
(* The value beside or under its label. *)

HorizontalValues(label, tokens) == {t \in tokens : RightOf(label, t)}

\* The next line of text that reaches over or beside the label's column; whether
\* one of its texts is in that column is a question of its own.
NextLine(label, tokens) ==
    LET line(r) == {t \in tokens : t[1] = r}
        overlaps(r) == /\ \E t \in line(r) : t[2] <= label[2]
                       /\ \E t \in line(r) : t[2] >= label[2]
        following == {r \in (label[1] + 1) .. Rows : overlaps(r)}
    IN {t \in tokens : t[1] \in following /\ \A r \in following : t[1] <= r}

StackedValues(label, tokens) == {t \in NextLine(label, tokens) : t[2] = label[2]}

\* Mutant: the larger containers come first.
Outermost(containers) ==
    {g \in containers : \A h \in containers : Cardinality(g) >= Cardinality(h)}

\* Containers are searched in the order of their size.
Innermost(containers) ==
    {g \in containers : \A h \in containers : Cardinality(g) <= Cardinality(h)}

\* The value on the row in the innermost container that has one, unless a smaller
\* one has a line under the label: then the value of that line, which
\* must not compete with one on the row further out.
FieldValue(f, candidate) ==
    LET labels == Matching(f, candidate.value)
        label == CHOOSE l \in labels : TRUE
        Scoped(g) == (Tokens(f) \ {label}) \cap g
        Row(g) == IF candidate.relation # "below" THEN HorizontalValues(label, Scoped(g)) ELSE {}
        Line(g) == IF candidate.relation # "right_of" THEN NextLine(label, Scoped(g)) ELSE {}
        rows == Innermost({g \in ContainersOf(f, label) : Row(g) # {}})
        lines == Innermost({g \in ContainersOf(f, label) : Line(g) # {}})
        row == UNION {Row(g) : g \in rows}
        stacked == UNION {StackedValues(label, Scoped(g)) : g \in lines}
    IN IF Cardinality(labels) # 1 THEN ExactlyOne(labels)
       ELSE IF \A h \in lines : \E g \in rows : Cardinality(g) <= Cardinality(h) THEN ExactlyOne(row)
       ELSE IF stacked = {} THEN ExactlyOne(stacked)
       ELSE ExactlyOne(stacked \cup row)

-----------------------------------------------------------------------------
(* Images. *)

\* The smallest containers with the anchor and a component of the kind.
AnchorContainers(f, anchor, kind) ==
    Innermost({g \in ContainersOf(f, anchor) : g \cap OfKind(f, kind) # {}})

\* Of the compared images, the only one with the signature; several equally
\* similar ones are no reason to retry.
MostSimilar(f, images, signature) ==
    LET similar == {c \in images : f.cells[c].text = signature}
    IN IF Cardinality(similar) > 1 THEN Failure("target_ambiguous", FALSE) ELSE ExactlyOne(similar)

GroupImage(f, candidate) ==
    LET labels == Matching(f, candidate.value)
        label == CHOOSE l \in labels : TRUE
        containers == AnchorContainers(f, label, "image")
        group == CHOOSE g \in containers : TRUE
        related == StructuralRow(label, OfKind(f, "image") \cap group)
    IN IF Cardinality(labels) # 1 THEN ExactlyOne(labels)
       ELSE IF Cardinality(containers) # 1 THEN ExactlyOne(containers)
       ELSE MostSimilar(f, related, candidate.target)

ImageAnchor(f, candidate) == MostSimilar(f, OfKind(f, "image"), candidate.value)

-----------------------------------------------------------------------------
(* VisionGrounder.resolve, extract and contains_rendered_text. *)

Strategies == {"ocr_text", "ocr_relative", "image_anchor", "rendered_text",
               "rendered_labeled_control", "rendered_field_value", "rendered_group_image"}

Ground(candidate, f) ==
    CASE candidate.strategy = "ocr_text" -> ExactlyOne(Matching(f, candidate.value))
      [] candidate.strategy = "ocr_relative" -> OcrRelative(f, candidate)
      [] candidate.strategy = "image_anchor" -> ImageAnchor(f, candidate)
      [] candidate.strategy = "rendered_text" -> RenderedText(f, candidate.value)
      [] candidate.strategy = "rendered_labeled_control" -> LabeledControl(f, candidate)
      [] candidate.strategy = "rendered_field_value" -> FieldValue(f, candidate)
      [] candidate.strategy = "rendered_group_image" -> GroupImage(f, candidate)

\* Reasons for which a lookup breaks off whatever the frame shows: the pixel,
\* token and time budgets, and a stored image that is missing or damaged.
Breakages(candidate) ==
    {"visual_grounding_budget_exceeded"} \cup
    (IF candidate.strategy \in {"image_anchor", "rendered_group_image"}
     THEN {"template_integrity_failed"} ELSE {})

GroundOutcomes(candidate, f) ==
    {Ground(candidate, f)} \cup {Failure(reason, FALSE) : reason \in Breakages(candidate)}

\* The texts inside a region; none is an error.
ReadRegion(f, cells) ==
    LET texts == {f.cells[c].text : c \in cells \cap Tokens(f)}
    IN IF texts = {} THEN NoText ELSE CHOOSE t \in texts : TRUE

-----------------------------------------------------------------------------
(* What the documentation promises of a result, independently of the search. *)

\* A value the label could have: on its row to the right, or next below it.
Plausible(f, label, relation) ==
    {t \in Tokens(f) :
        \/ relation # "below" /\ RightOf(label, t)
        \/ relation # "right_of" /\ Under(label, t)}

\* Of the cells that satisfy P, cell c is the only one, or the only control.
Singled(f, P(_), c) ==
    /\ P(c)
    /\ \A d \in DOMAIN f.cells \ {c} :
          P(d) => f.cells[c].kind = "control" /\ f.cells[d].kind # "control"

\* Component c of frame f is what the candidate describes, and nothing else is.
Describes(candidate, f, c) ==
    LET Label(l) == Matching(f, candidate.value) = {l}
        Says(value, d) == d \in Matching(f, value)
        Beside(d) == /\ Says(candidate.target, d)
                     /\ \E a \in Matching(f, candidate.value) : HasRelation(a, d, candidate.relation)
    IN CASE candidate.strategy \in {"ocr_text", "rendered_text"} ->
              Singled(f, LAMBDA d : Says(candidate.value, d), c)
         [] candidate.strategy = "ocr_relative" -> Singled(f, Beside, c)
         [] candidate.strategy = "image_anchor" ->
              {d \in OfKind(f, "image") : f.cells[d].text = candidate.value} = {c}
         [] candidate.strategy = "rendered_labeled_control" ->
              /\ f.cells[c].kind = "control"
              /\ \E l \in Cells : Label(l) /\ (RightOf(l, c) \/ Under(l, c)) /\ ~InterveningText(f, l, c)
         [] candidate.strategy = "rendered_field_value" ->
              \E l \in Cells :
                 /\ Label(l)
                 /\ c \in Plausible(f, l, candidate.relation)
                 /\ \A g \in ContainersOf(f, l) :
                       g \cap Plausible(f, l, candidate.relation) # {} => c \in g
         [] candidate.strategy = "rendered_group_image" ->
              /\ c \in OfKind(f, "image")
              /\ f.cells[c].text = candidate.target
              /\ \E l \in Cells : Label(l) /\ \A g \in ContainersOf(f, l) :
                                      g \cap OfKind(f, "image") # {} => c \in g
=============================================================================
