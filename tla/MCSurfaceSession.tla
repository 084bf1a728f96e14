-------------------------- MODULE MCSurfaceSession --------------------------
(***************************************************************************)
(* Three pages on a grid of two rows and three columns.  A total stands    *)
(* beside one value and above another; its button is alone, repeated as    *)
(* plain text, hidden, or disabled; a logo occurs once or twice.           *)
(***************************************************************************)
EXTENDS SurfaceSession, TLC

Plain(text) == [text |-> text, kind |-> "plain"]
Control(text) == [text |-> text, kind |-> "control"]
Image(text) == [text |-> text, kind |-> "image"]

Page(cells, hidden, disabled, groups, route) ==
    [cells |-> cells, hidden |-> hidden, disabled |-> disabled, groups |-> groups, route |-> route]

Card == {<<1, 1>>, <<2, 1>>}
Form == {<<1, 1>>, <<1, 2>>, <<2, 1>>, <<2, 2>>}

Summary ==
    Page(<<1, 1>> :> Plain("Total") @@ <<1, 2>> :> Plain("5") @@ <<2, 1>> :> Plain("7")
            @@ <<2, 2>> :> Control("Save") @@ <<2, 3>> :> Image("logo"),
         {}, {}, {Card}, "summary")
Updated ==
    Page(<<1, 1>> :> Plain("Total") @@ <<1, 2>> :> Plain("9") @@ <<2, 1>> :> Control("Save")
            @@ <<2, 2>> :> Image("logo") @@ <<2, 3>> :> Plain("Save"),
         {}, {<<2, 1>>}, {Form}, "summary")
Receipt ==
    Page(<<1, 1>> :> Control("Save") @@ <<1, 2>> :> Image("logo") @@ <<2, 2>> :> Image("logo")
            @@ <<2, 1>> :> Plain("Total"),
         {<<1, 1>>}, {}, {}, "receipt")

Visual(strategy, value, target, relation) ==
    [strategy |-> strategy, value |-> value, target |-> target, relation |-> relation]
Name(value) == [strategy |-> "name", value |-> value, place |-> <<1, 1>>]
At(place, label) == [strategy |-> "coordinates", value |-> label, place |-> place]
Bundle(visual, dom, enabled) == [visual |-> visual, dom |-> dom, enabled |-> enabled]

SaveButton == Bundle(<<Visual("rendered_text", "Save", NoText, "any")>>, <<Name("Save")>>, FALSE)

MCPages == {Summary, Updated, Receipt}
MCBundles ==
    {SaveButton,
     Bundle(<<Visual("rendered_field_value", "Total", NoText, "any")>>, <<>>, FALSE),
     Bundle(<<Visual("rendered_field_value", "Total", NoText, "right_of"),
              Visual("rendered_field_value", "Total", NoText, "below")>>, <<>>, FALSE),
     Bundle(<<Visual("rendered_labeled_control", "Total", NoText, "any"),
              Visual("ocr_relative", "Total", "Save", "below")>>, <<>>, FALSE),
     Bundle(<<Visual("rendered_group_image", "Total", "logo", "any"),
              Visual("image_anchor", "logo", NoText, "any")>>, <<>>, FALSE),
     Bundle(<<Visual("ocr_text", "Save", NoText, "any")>>, <<Name("9"), Name("Save")>>, TRUE),
     Bundle(<<>>, <<At(<<1, 2>>, "Total")>>, FALSE),
     Bundle(<<>>, <<At(<<2, 1>>, NoText)>>, FALSE)}
MCModes ==
    {[rendered |-> rendered, vision |-> vision, coordinates |-> ~vision \/ rendered] :
        rendered \in BOOLEAN, vision \in BOOLEAN}

\* A locator as capture_locator publishes it for a rendered surface, and a page
\* that shows its target all along.
MCStillBundles == {Bundle(SaveButton.visual, <<>>, FALSE)}
MCStillPages == {Summary}
MCStillModes == {[rendered |-> TRUE, vision |-> TRUE, coordinates |-> FALSE]}
=============================================================================
