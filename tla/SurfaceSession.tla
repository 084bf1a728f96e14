--------------------------- MODULE SurfaceSession ---------------------------
(***************************************************************************)
(* One browser page operated through PlaywrightSurfaceSession              *)
(* (surfaces/playwright.py): targets are resolved, actions executed, text  *)
(* extracted and conditions evaluated by single calls of one thread, while *)
(* the page changes by itself between any two browser requests of a call.  *)
(*                                                                         *)
(* A page has components on the grid of VisionGrounding; some are attached *)
(* to the document without being shown, some are disabled.  A screenshot   *)
(* is the frame of the shown ones.  The browser itself is external: an     *)
(* input may take effect although the request fails.                       *)
(***************************************************************************)
EXTENDS VisionGrounding, Functions

CONSTANTS Pages,        \* the pages the application may show
          Bundles,      \* the locator bundles of the caller
          Modes,        \* the surface configurations
          NoTarget,     \* an action without a target
          ObservationAttempts,
          MaxCalls, MaxLooks, MaxPolls, MaxChanges  \* bounds of the model

\* Components stand on the grid, and two containers are nested or apart.
ASSUME PagesAssumption ==
  \A p \in Pages :
    /\ DOMAIN p.cells \subseteq Cells
    /\ p.groups \subseteq SUBSET Cells
    /\ \A g, h \in p.groups : g \subseteq h \/ h \subseteq g \/ g \cap h = {}
\* VisualCandidate is one of these models.
ASSUME BundlesAssumption ==
  \A bundle \in Bundles :
    /\ bundle.visual \in Seq(Range(bundle.visual))
    /\ \A candidate \in Range(bundle.visual) : candidate.strategy \in Strategies

VARIABLES page,     \* what the browser shows now
          mode,     \* rendered surface, vision grounder, transient coordinates
          call,     \* the call in progress
          targets,  \* the resolved targets the caller holds
          sent,     \* inputs the last call sent that took effect
          answer,   \* result of the last call
          seen,     \* pages shown since the last call began
          calls, changes

surfaceVars == <<page, mode, call, targets, sent, answer, seen, calls, changes>>

Frame(p) == [cells |-> Restrict(p.cells, DOMAIN p.cells \ p.hidden), groups |-> p.groups]

\* get_by_role, get_by_label, get_by_text: shown or not.
Attached(p, name) == {c \in DOMAIN p.cells : p.cells[c].kind # "image" /\ p.cells[c].text = name}
First(cells) == CHOOSE c \in cells : \A d \in cells \ {c} : Before(c, d)

\* A target of an earlier session, whose handle this one does not know.
StaleTarget == [how |-> "stale"]

Idle == [op |-> "none", pc |-> "idle"]
NoAnswer == [kind |-> "none"]

SurfaceInit ==
    /\ page \in Pages
    /\ mode \in Modes
    /\ call = Idle
    /\ targets = {}
    /\ sent = {}
    /\ answer = NoAnswer
    /\ seen = {page}
    /\ calls = 0
    /\ changes = 0

-----------------------------------------------------------------------------
(* Calls, answers and errors. *)

Begin(op, arg, pc, failures) ==
    /\ call = Idle
    /\ calls < MaxCalls
    /\ call' = [op |-> op, pc |-> pc, arg |-> arg, n |-> 1, failures |-> failures,
                start |-> <<pc, failures>>, polls |-> 0, memo |-> NoText]
    /\ calls' = calls + 1
    /\ sent' = {}
    /\ answer' = NoAnswer
    /\ seen' = {page}
    /\ UNCHANGED <<page, mode, targets, changes>>

Continue(next) ==
    /\ call' = next
    /\ UNCHANGED <<page, mode, targets, sent, answer, seen, calls, changes>>

Answer(result) ==
    /\ answer' = result
    /\ call' = Idle
    /\ UNCHANGED <<page, mode, targets, sent, seen, calls, changes>>

Error(code, recoverable, effect_absent) ==
    [kind |-> "error", op |-> call.op, code |-> code, recoverable |-> recoverable,
     effect_absent |-> effect_absent]

Reject(code) == Answer(Error(code, FALSE, FALSE))

\* A browser error that no handler of the session classifies.
Escapes == Reject("PlaywrightError")

Completed == Answer([kind |-> "completed"])

-----------------------------------------------------------------------------
(* evaluate and wait_until *)

\* A condition's value.  wait_until evaluates again after every value read
\* before its deadline, so a false answer is never the first value read.
Verdict(value) ==
    \/ /\ call.arg.wait => value \/ call.polls > 0
       /\ Answer([kind |-> "verdict", value |-> value, arg |-> call.arg])
    \/ /\ call.arg.wait /\ ~value /\ call.polls < MaxPolls
       /\ Continue([call EXCEPT !.pc = call.start[1], !.failures = call.start[2], !.n = 1,
                                !.polls = @ + 1])

\* Errors of resolve are values of an element condition.
Unresolved(error) ==
    IF call.op = "resolve" THEN Answer(error)
    ELSE Verdict(error.code = "target_absent" /\ call.arg.state \in {"absent", "hidden"})

Resolved(target) ==
    IF call.op = "resolve"
    THEN /\ targets' = targets \cup {target}
         /\ answer' = [kind |-> "target", target |-> target]
         /\ call' = Idle
         /\ UNCHANGED <<page, mode, sent, seen, calls, changes>>
    ELSE IF target.how # "element"
         THEN Verdict(call.arg.state \in {"exists", "visible", "enabled"})
         ELSE Continue([call EXCEPT !.pc = "read", !.memo = target.name])

\* The element is looked up again, after it was resolved.
ReadElement ==
    /\ call.pc = "read"
    /\ LET elements == Attached(page, call.memo)
           shown == First(elements) \notin page.hidden
           enabled == First(elements) \notin page.disabled
       IN IF elements = {} THEN Escapes
          ELSE Verdict(CASE call.arg.state = "exists" -> TRUE
                         [] call.arg.state = "absent" -> FALSE
                         [] call.arg.state = "visible" -> shown
                         [] call.arg.state = "hidden" -> ~shown
                         [] call.arg.state = "enabled" -> enabled
                         [] call.arg.state = "disabled" -> ~enabled)

\* Conditions on text: in the document, or in a frame.
ReadText ==
    /\ call.pc = "text"
    /\ IF ~call.arg.rendered THEN Verdict(Attached(page, call.arg.value) # {})
       ELSE IF ~mode.vision THEN Verdict(FALSE)
       ELSE \/ Reject("screenshot_failed")
            \/ Answer(Error("visual_grounding_budget_exceeded", FALSE, TRUE))
            \/ Verdict(Matching(Frame(page), call.arg.value) # {})

-----------------------------------------------------------------------------
(* resolve *)

\* Without a grounder every visual candidate has failed already.
BeginLookup(op, arg) ==
    LET visual == arg.bundle.visual
    IN IF mode.vision THEN Begin(op, arg, "look", {})
       ELSE Begin(op, arg, "dom", IF visual = <<>> THEN {} ELSE {"visual_grounder_unavailable"})

Resolve == \E bundle \in Bundles : BeginLookup("resolve", [bundle |-> bundle])

\* The first candidate found is the target; a rendered surface is looked at
\* until the deadline.
Looked(outcome) ==
    LET visual == call.arg.bundle.visual
        hits == {i \in DOMAIN visual : outcome[i].found}
        best == CHOOSE i \in hits : \A j \in hits : i <= j
    IN IF hits # {}
       THEN Resolved([how |-> "visual", candidate |-> visual[best],
                      cells |-> outcome[best].cells, bundle |-> call.arg.bundle])
       ELSE \/ /\ mode.rendered /\ call.n < MaxLooks
               /\ Continue([call EXCEPT !.n = @ + 1])
            \/ Continue([call EXCEPT !.pc = "dom", !.n = 1,
                                     !.failures = {outcome[i].reason : i \in DOMAIN visual}])

\* One frame for all visual candidates.
Look ==
    /\ call.pc = "look"
    /\ \/ Unresolved(Error("screenshot_failed", FALSE, FALSE))
       \/ LET visual == call.arg.bundle.visual
              Possible(i) == GroundOutcomes(visual[i], Frame(page))
          IN \E outcome \in [DOMAIN visual -> UNION {Possible(i) : i \in DOMAIN visual}] :
                /\ \A i \in DOMAIN visual : outcome[i] \in Possible(i)
                /\ Looked(outcome)

NextCandidate(reason) ==
    Continue([call EXCEPT !.pc = "dom", !.n = @ + 1, !.failures = @ \cup {reason}])

TryCandidate ==
    /\ call.pc = "dom"
    /\ LET dom == call.arg.bundle.dom
           candidate == dom[call.n]
       IN IF call.n > Len(dom)
          THEN Unresolved(Error(IF "target_ambiguous" \in call.failures
                                THEN "target_ambiguous" ELSE "target_absent", TRUE, TRUE))
          ELSE IF candidate.strategy = "coordinates"
          THEN IF ~mode.coordinates THEN NextCandidate("coordinate_not_replayable")
               ELSE \/ Unresolved(Error("screenshot_failed", FALSE, FALSE))
                    \/ Resolved([how |-> "coordinates", candidate |-> candidate, frame |-> Frame(page),
                                 cells |-> {candidate.place}, bundle |-> call.arg.bundle])
          ELSE IF Attached(page, candidate.value) = {} THEN NextCandidate("target_absent")
          ELSE Continue([call EXCEPT !.pc = "count"])

Candidate == call.arg.bundle.dom[call.n]

CountMatches ==
    /\ call.pc = "count"
    /\ LET count == Cardinality(Attached(page, Candidate.value))
       IN IF count = 1 THEN Continue([call EXCEPT !.pc = "state"])
          ELSE NextCandidate(IF count > 1 THEN "target_ambiguous" ELSE "target_absent")

CheckState ==
    /\ call.pc = "state"
    /\ LET elements == Attached(page, Candidate.value)
       IN IF elements = {} \/ First(elements) \in page.hidden THEN NextCandidate("not_visible")
          ELSE IF call.arg.bundle.enabled /\ First(elements) \in page.disabled
          THEN NextCandidate("not_enabled")
          ELSE Resolved([how |-> "element", name |-> Candidate.value, bundle |-> call.arg.bundle])

-----------------------------------------------------------------------------
(* execute and execute_human_input *)

\* Mutant: an input that ran out of time is said to have had no effect.
SendHopefully(input, next) ==
    \E effect \in BOOLEAN, result \in {"returned", "timeout", "failed"} :
        /\ result = "returned" => effect
        /\ sent' = IF effect THEN sent \cup {input} ELSE sent
        /\ IF result = "returned" /\ next # "idle"
           THEN call' = [call EXCEPT !.pc = next] /\ answer' = answer
           ELSE /\ call' = Idle
                /\ answer' = IF result = "returned" THEN [kind |-> "completed"]
                             ELSE Error("action_timeout", TRUE, result = "timeout")
        /\ UNCHANGED <<page, mode, targets, seen, calls, changes>>

\* An input to the browser: it takes effect or not, and the request for it
\* returns, runs out of time or fails; one that returns took effect.
Send(input, next) ==
    \E effect \in BOOLEAN, result \in {"returned", "timeout", "failed"} :
        /\ result = "returned" => effect
        /\ sent' = IF effect THEN sent \cup {input} ELSE sent
        /\ IF result = "returned" /\ next # "idle"
           THEN call' = [call EXCEPT !.pc = next] /\ answer' = answer
           ELSE /\ call' = Idle
                /\ answer' = CASE result = "returned" -> [kind |-> "completed"]
                               [] result # "returned" /\ call.op = "human" ->
                                     Error("human_input_failed", FALSE, FALSE)
                               [] result = "timeout" /\ call.op = "execute" ->
                                     Error("action_timeout", TRUE, FALSE)
                               [] result = "failed" /\ call.op = "execute" ->
                                     Error("action_failed", FALSE, FALSE)
        /\ UNCHANGED <<page, mode, targets, seen, calls, changes>>

ActionKinds == {"navigate", "click", "type", "press_keys", "select", "scroll", "wait_for",
                "switch_context", "extract"}

\* "known" says that the entry point, the input binding or the context exists.
Execute ==
    \E kind \in ActionKinds, target \in targets \cup {NoTarget, StaleTarget}, known \in BOOLEAN :
        Begin("execute", [kind |-> kind, target |-> target, known |-> known], "prepare", {})

IsVisual(target) == target # NoTarget /\ target.how \in {"visual", "coordinates"}

\* A visual target is grounded again on a frame of its own before every input;
\* coordinates are used as they are.
FreshRegions(target) ==
    IF ~mode.vision THEN {}
    ELSE IF target.how = "coordinates" THEN {target.cells}
    ELSE {outcome.cells : outcome \in {o \in GroundOutcomes(target.candidate, Frame(page)) : o.found}}

FreshErrors(target) ==
    IF ~mode.vision THEN {Error("visual_grounder_unavailable", FALSE, FALSE)}
    ELSE IF target.how = "coordinates" THEN {}
    ELSE {Error("screenshot_failed", FALSE, FALSE)} \cup
         {Error(outcome.reason, outcome.recoverable, TRUE) :
             outcome \in {o \in GroundOutcomes(target.candidate, Frame(page)) : ~o.found}}

Point(cells) == Continue([call EXCEPT !.pc = "pointer", !.memo = First(cells)])

\* Mutant: the click goes to where the target was when it was resolved.
InteractAsResolved(target) ==
    IF IsVisual(target) THEN Point(target.cells)
    ELSE IF target # NoTarget THEN Continue([call EXCEPT !.pc = "element"])
    ELSE Reject("target_required")

\* What the three actions on a control come to before their first input.
Interact(target) ==
    IF IsVisual(target)
    THEN \/ \E cells \in FreshRegions(target) : Point(cells)
         \/ \E error \in FreshErrors(target) : Answer(error)
    ELSE IF target # NoTarget THEN Continue([call EXCEPT !.pc = "element"])
    ELSE IF call.arg.kind = "press_keys" THEN Continue([call EXCEPT !.pc = "keys"])
    ELSE Reject("target_required")

Prepare ==
    /\ call.pc = "prepare"
    /\ LET kind == call.arg.kind
           target == call.arg.target
           known == call.arg.known
       IN CASE target = StaleTarget -> Reject("target_handle_stale")
            [] target # StaleTarget /\ kind = "navigate" ->
                  IF known THEN Continue([call EXCEPT !.pc = "goto"]) ELSE Reject("unknown_entry_point")
            [] target # StaleTarget /\ kind \in {"click", "press_keys"} -> Interact(target)
            [] target # StaleTarget /\ kind = "type" ->
                  IF known THEN Interact(target) ELSE Reject("input_binding_missing")
            [] target # StaleTarget /\ kind = "select" ->
                  IF IsVisual(target) THEN Answer(Error("visual_select_unsupported", TRUE, TRUE))
                  ELSE IF target # NoTarget /\ ~known THEN Reject("input_binding_missing")
                  ELSE Interact(target)
            [] target # StaleTarget /\ kind = "scroll" -> Continue([call EXCEPT !.pc = "wheel"])
            [] target # StaleTarget /\ kind = "wait_for" -> Completed
            [] target # StaleTarget /\ kind = "switch_context" ->
                  IF known THEN Completed ELSE Reject("context_missing")
            [] target # StaleTarget /\ kind = "extract" -> Reject("invalid_action_dispatch")

SendPointer ==
    /\ call.pc = "pointer"
    /\ Send([how |-> "pointer", place |-> call.memo, target |-> call.arg.target],
            IF call.arg.kind = "click" THEN "idle" ELSE "keys")

SendOther == call.pc \in {"keys", "element", "wheel", "goto"} /\ Send([how |-> call.pc], "idle")

\* A person's click, text or key; a click may be outside the viewport.
HumanInput == \E inside \in BOOLEAN : Begin("human", [inside |-> inside], "human", {})

SendHuman ==
    /\ call.pc = "human"
    /\ IF call.arg.inside THEN Send([how |-> "human"], "idle")
       ELSE Answer(Error("pointer_out_of_bounds", FALSE, TRUE))

-----------------------------------------------------------------------------
(* extract, capture_locator and observe *)

Extract == \E target \in targets \cup {StaleTarget} : Begin("extract", [target |-> target], "extract", {})

Text(frame, cells, target) ==
    LET text == ReadRegion(frame, cells)
    IN IF text = NoText THEN Answer(Error("visual_text_absent", FALSE, TRUE))
       ELSE Answer([kind |-> "text", value |-> text, target |-> target])

\* Mutant: a new frame is read at the place found in an earlier one.
ReadTargetAsResolved ==
    /\ call.pc = "extract"
    /\ LET target == call.arg.target
       IN IF target.how = "stale" THEN Reject("target_handle_stale")
          ELSE target.how # "element" /\ Text(Frame(page), target.cells, target)

\* The text is read from the frame in which the target was found.
ReadTarget ==
    /\ call.pc = "extract"
    /\ LET target == call.arg.target
           frame == Frame(page)
       IN CASE target.how = "stale" -> Reject("target_handle_stale")
            [] target.how = "element" ->
                  LET elements == Attached(page, target.name)
                  IN IF elements = {} THEN Escapes
                     ELSE Answer([kind |-> "text", value |-> page.cells[First(elements)].text,
                                  target |-> target])
            [] target.how = "visual" ->
                  \/ \E cells \in FreshRegions(target) : Text(frame, cells, target)
                  \/ \E error \in FreshErrors(target) : Answer(error)
            [] target.how = "coordinates" ->
                  IF ~mode.vision THEN Reject("visual_grounder_unavailable")
                  ELSE \/ Reject("screenshot_failed")
                       \/ IF frame # target.frame THEN Answer(Error("visual_frame_changed", TRUE, TRUE))
                          ELSE Text(frame, target.cells, target)

\* The locator that is published for a target: for coordinates a signature of
\* what is at their place now.
CaptureLocator == \E target \in targets \cup {StaleTarget} : Begin("capture", [target |-> target], "capture", {})

Describe ==
    /\ call.pc = "capture"
    /\ LET target == call.arg.target
       IN CASE target.how = "stale" -> Reject("target_handle_stale")
            [] target.how = "element" -> Answer([kind |-> "locator", candidates |-> target.bundle.dom])
            [] target.how = "visual" ->
                  Answer([kind |-> "locator",
                          candidates |-> IF mode.rendered THEN <<target.candidate>> ELSE target.bundle.visual])
            [] target.how = "coordinates" ->
                  IF ~mode.vision THEN Reject("visual_grounder_unavailable")
                  ELSE IF target.candidate.value = NoText
                  THEN Answer(Error("visual_group_label_required", TRUE, TRUE))
                  ELSE \/ Reject("screenshot_failed")
                       \/ Answer([kind |-> "locator", candidates |-> <<target.candidate.value>>])

Observe == Begin("observe", NoTarget, "route", {})

ReadRoute == call.pc = "route" /\ Continue([call EXCEPT !.pc = "landmarks", !.memo = page.route])

\* The rest is read by requests of their own: a navigation in between ends the
\* attempt only when it interrupts one of them.
ReadLandmarks ==
    /\ call.pc = "landmarks"
    /\ \/ Continue([call EXCEPT !.pc = "tokens"])
       \/ /\ page.route # call.memo
          /\ IF call.n < ObservationAttempts
             THEN Continue([call EXCEPT !.pc = "route", !.n = @ + 1])
             ELSE Reject("observation_failed")
       \/ Reject("observation_failed")

ReadTokens ==
    /\ call.pc = "tokens"
    /\ \/ Answer([kind |-> "observation", route |-> call.memo])
       \/ /\ mode.vision /\ mode.rendered
          /\ \/ Reject("screenshot_failed")
             \/ Answer(Error("visual_ocr_budget_exceeded", FALSE, TRUE))

-----------------------------------------------------------------------------
(* Conditions, the page, and the whole. *)

ElementStates == {"exists", "absent", "visible", "hidden", "enabled", "disabled"}
Texts == UNION {{p.cells[c].text : c \in Tokens(p)} : p \in Pages}

Evaluate ==
    \E wait \in BOOLEAN :
        \/ \E bundle \in Bundles, state \in ElementStates :
              BeginLookup("element", [bundle |-> bundle, state |-> state, wait |-> wait])
        \/ \E value \in Texts, rendered \in BOOLEAN :
              Begin("text", [value |-> value, rendered |-> rendered, wait |-> wait], "text", {})

\* Outside the session's control; only what happens during a call matters.
PageChanges ==
    /\ changes < MaxChanges
    /\ \E next \in Pages \ {page} :
          /\ page' = next
          /\ seen' = seen \cup {next}
    /\ changes' = changes + 1
    /\ UNCHANGED <<mode, call, targets, sent, answer, calls>>

SurfaceNext ==
    \/ Resolve \/ Look \/ TryCandidate \/ CountMatches \/ CheckState
    \/ Evaluate \/ ReadElement \/ ReadText
    \/ Execute \/ Prepare \/ SendPointer \/ SendOther
    \/ HumanInput \/ SendHuman
    \/ Extract \/ ReadTarget
    \/ CaptureLocator \/ Describe
    \/ Observe \/ ReadRoute \/ ReadLandmarks \/ ReadTokens
    \/ PageChanges

SurfaceSpec == SurfaceInit /\ [][SurfaceNext]_surfaceVars

-----------------------------------------------------------------------------
(* Properties *)

\* An error that says the effect is absent follows no input that took effect,
\* and an error of a condition, which may be evaluated after an input, never
\* both says so and offers a retry.  ReplayEngine repeats a step only on errors
\* that do both, and relies on this.
AbsentMeansUndone ==
    answer.kind = "error" /\ answer.effect_absent =>
        sent = {} /\ (answer.recoverable => answer.op \notin {"element", "text", "observe"})

\* A click on a visual target goes to a place where a frame taken during the
\* same call shows what the target describes and nothing else it could mean; a
\* target is handed out only on such a frame, or when one element matched.
AimedAtTheTarget ==
    /\ \A input \in sent :
          input.how = "pointer" /\ input.target.how = "visual" =>
              \E p \in seen : Describes(input.target.candidate, Frame(p), input.place)
    /\ answer.kind = "target" =>
          \E p \in seen :
              CASE answer.target.how = "visual" ->
                      \E c \in answer.target.cells : Describes(answer.target.candidate, Frame(p), c)
                [] answer.target.how = "element" ->
                      Cardinality(Attached(p, answer.target.name)) = 1
                [] answer.target.how = "coordinates" -> mode.coordinates

\* A text extracted through a visual target is one that the target describes in
\* a frame taken during the call, never a neighbour's and never one that stood
\* at the same place earlier.
ReadsWhatItLocated ==
    answer.kind = "text" =>
        \E p \in seen :
            CASE answer.target.how = "visual" ->
                    \E c \in DOMAIN Frame(p).cells :
                        /\ Describes(answer.target.candidate, Frame(p), c)
                        /\ Frame(p).cells[c].text = answer.value
              [] answer.target.how = "coordinates" ->
                    Frame(p) = answer.target.frame
              [] answer.target.how = "element" -> answer.value = answer.target.name

\* An element condition finds an element absent only when a page shown during
\* the evaluation does not show it.
AbsenceIsSeen ==
    answer.kind = "verdict" /\ answer.value /\ "state" \in DOMAIN answer.arg =>
        (answer.arg.state = "absent" =>
            \E p \in seen :
                /\ \A i \in DOMAIN answer.arg.bundle.visual : ~Ground(answer.arg.bundle.visual[i], Frame(p)).found
                /\ \A i \in DOMAIN answer.arg.bundle.dom :
                      answer.arg.bundle.dom[i].strategy = "name" =>
                          Attached(p, answer.arg.bundle.dom[i].value) \subseteq p.hidden)
=============================================================================
