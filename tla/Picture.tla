--------------------------------- MODULE Picture ---------------------------------
(***************************************************************************)
(* From an image to the panel's pixels: plan_picture_upload, or the second *)
(* pass over a GIF for one of its frames, and the confirm screen after it, *)
(* which encodes anew from the kept panel for every adjustment and reads   *)
(* the file again for the other placement.                                 *)
(***************************************************************************)
EXTENDS Panel, FiniteSets

CONSTANTS
    Pictures,        \* what may be in the file: [image, turned, gif, broken]
    Values,          \* bound: what the sliders are set to
    Adjusted         \* bound: the pictures that are adjusted at all

\* What a decoder returns: as many pixels as the size says, and at least one.
ASSUME PictureAssumption ==
    /\ Pictures # {} /\ Values \subseteq Int
    /\ \A p \in Pictures :
          /\ p \in [image : [w : Nat \ {0}, h : Nat \ {0}, px : Seq(Pixel)],
                    turned : BOOLEAN, gif : BOOLEAN, broken : BOOLEAN]
          /\ Len(p.image.px) = p.image.w * p.image.h

VARIABLES
    stage,           \* "idle", "asked", "planned" or "failed"
    picture,         \* what is in the file
    placement, adjustments,
    panel_rgba,      \* panel sized, before adjustment
    pixels           \* encoded

pictureVars == <<stage, picture, placement, adjustments, panel_rgba, pixels>>

Placements == {"contain", "fill"}
Sliders == {"brightness", "chroma", "saturation"}
Switches == {"Grayscale", "Sharpen", "Blur"}
NoImage == [w |-> 0, h |-> 0, px |-> <<>>]

PictureTypeOK ==
    /\ stage \in {"idle", "asked", "planned", "failed"}
    /\ stage # "idle" => picture \in Pictures
    /\ placement \in Placements
    /\ DOMAIN adjustments = Sliders \cup {"on"} /\ adjustments.on \subseteq Switches
    /\ stage = "planned" =>
          /\ panel_rgba.w = PanelW /\ panel_rgba.h = PanelH
          /\ DOMAIN panel_rgba.px = 1..(PanelW * PanelH)
          /\ \A i \in DOMAIN panel_rgba.px, c \in 1..4 : panel_rgba.px[i][c] \in Byte
          /\ DOMAIN pixels = 1..(PanelW * PanelH)
          /\ \A i \in DOMAIN pixels : pixels[i] \in Word

--------------------------------------------------------------------------------
\* DynamicImage::apply_orientation, for a photograph taken with the camera upright.
QuarterTurn(img) ==
    LET pixel(x, y) == At(img, y, img.h - 1 - x) IN Drawn(img.h, img.w, pixel)

\* What is resized: a picture the right way up, a GIF's frame on black.
Upright(pic) ==
    IF pic.gif THEN FlattenOntoBlack(pic.image)
    ELSE IF pic.turned THEN QuarterTurn(pic.image) ELSE pic.image

Load(pic, how) == ResizeToPanel(Upright(pic), how)

Settings ==
    [brightness : Values, chroma : Values, saturation : Values, on : SUBSET Switches]

PictureInit(planning) ==
    /\ stage = IF planning THEN "asked" ELSE "idle"
    /\ IF planning
       THEN /\ picture \in Pictures /\ placement \in Placements
            /\ adjustments \in IF picture \in Adjusted THEN Settings ELSE {NoAdjustments}
       ELSE /\ picture = CHOOSE p \in Pictures : TRUE
            /\ placement = "contain" /\ adjustments = NoAdjustments
    /\ panel_rgba = NoImage /\ pixels = <<>>

PlanPicture ==
    /\ stage = "asked" /\ ~picture.broken
    /\ stage' = "planned"
    /\ panel_rgba' = Load(picture, placement)
    /\ pixels' = AdjustAndEncode(panel_rgba', adjustments)
    /\ UNCHANGED <<picture, placement, adjustments>>

PlanPictureFails ==
    /\ stage = "asked" /\ picture.broken
    /\ stage' = "failed"
    /\ UNCHANGED <<picture, placement, adjustments, panel_rgba, pixels>>

\* One slider or one switch.
Edits ==
    {[adjustments EXCEPT ![s] = v] : s \in Sliders, v \in Values}
        \cup {[adjustments EXCEPT !.on = (@ \cup {s}) \ (@ \cap {s})] : s \in Switches}

\* Mutant: the adjusted panel is kept, and the next edit is made on top of it.
ReencodeStacked ==
    /\ stage = "planned" /\ picture \in Adjusted
    /\ adjustments' \in Edits
    /\ panel_rgba' = ApplyAdjustments(panel_rgba, adjustments')
    /\ pixels' = Rgb565Encode(panel_rgba')
    /\ UNCHANGED <<stage, picture, placement>>

ReencodePicture ==
    /\ stage = "planned" /\ picture \in Adjusted
    /\ adjustments' \in Edits
    /\ pixels' = AdjustAndEncode(panel_rgba, adjustments')
    /\ UNCHANGED <<stage, picture, placement, panel_rgba>>

ReplanPicture ==
    /\ stage = "planned"
    /\ placement' \in Placements \ {placement}
    /\ panel_rgba' = Load(picture, placement')
    /\ pixels' = AdjustAndEncode(panel_rgba', adjustments)
    /\ UNCHANGED <<stage, picture, adjustments>>

PictureOver == stage = "failed" /\ UNCHANGED pictureVars

PictureNext ==
    PlanPicture \/ PlanPictureFails \/ ReencodePicture \/ ReplanPicture \/ PictureOver

--------------------------------------------------------------------------------
Loaded == stage = "planned"

White == <<255, 255, 255, 255>>

Plain(pic) ==
    adjustments = NoAdjustments /\ \A i \in DOMAIN pic.image.px : pic.image.px[i] = White

(***************************************************************************)
(* What the file calls transparent never shows: whatever colours it keeps  *)
(* under an alpha of zero, resizing, sharpening and blurring bring none of *)
(* it into a pixel that is seen, and the panel gets the same bytes.        *)
(***************************************************************************)
HiddenColourStaysHidden ==
    Loaded =>
        LET dyed(p) == IF Hidden(p) THEN <<255 - p[1], 255, 255 - p[3], 0>> ELSE p
            other == [picture EXCEPT !.image = EachPixel(@, dyed)] IN
        pixels = AdjustAndEncode(Load(other, placement), adjustments)

(***************************************************************************)
(* A picture fits.  Contained, it keeps its shape to within half a pixel,  *)
(* reaches from edge to edge across or down, is in the middle to within a  *)
(* pixel, and the rest is black; if its shape leaves it less than half a   *)
(* pixel, it is not drawn.  Filling, it covers the panel.                  *)
(***************************************************************************)
PictureFits ==
    Loaded /\ Plain(picture) =>
        LET src == Upright(picture)
            lit(x, y) == pixels[y * PanelW + x + 1] # 0
            Columns == {x \in 0..(PanelW - 1) : \E y \in 0..(PanelH - 1) : lit(x, y)}
            Rows == {y \in 0..(PanelH - 1) : \E x \in 0..(PanelW - 1) : lit(x, y)}
            EdgeToEdge(S, size) == S = 0..(size - 1)
            InTheMiddle(S, size) ==
                \E lo, hi \in 0..size : S = lo..(hi - 1) /\ lo - (size - hi) \in -1..1
            \* As many as size * of / per, to within half of one.
            InProportion(S, size, of, per) ==
                2 * per * Cardinality(S) - 2 * size * of \in -per..per
            Fits(Long, length, from, Short, width, side) ==
                /\ InProportion(Short, length, side, from)
                /\ Short # {} => EdgeToEdge(Long, length) /\ InTheMiddle(Short, width) IN
        /\ \A x \in Columns, y \in Rows : lit(x, y)
        /\ IF placement = "fill" THEN EdgeToEdge(Columns, PanelW) /\ EdgeToEdge(Rows, PanelH)
           ELSE \/ Fits(Columns, PanelW, src.w, Rows, PanelH, src.h)
                \/ Fits(Rows, PanelH, src.h, Columns, PanelW, src.w)

(***************************************************************************)
(* The same everywhere: after any edits and changes of placement, what the *)
(* interface sends is what the command line would have sent of the same    *)
(* file with the same settings, and a preview of full size shows each of   *)
(* its pixels, in a colour that encodes to it again.                       *)
(***************************************************************************)
SameEverywhere ==
    Loaded =>
        /\ pixels = AdjustAndEncode(Load(picture, placement), adjustments)
        /\ Rgb565Encode(Render(pixels, Fit(PanelW, PanelH))) = pixels
================================================================================
