---------------------------------- MODULE Panel ----------------------------------
(***************************************************************************)
(* How an image reaches the panel and the preview: resize_to_panel of      *)
(* plan.rs, fit and render of tui/preview.rs.                              *)
(***************************************************************************)
EXTENDS Pixels

CONSTANTS
    PanelW, PanelH,     \* PANEL_W, PANEL_H: ten to six
    MinPreviewRows      \* MIN_H of preview::fit

\* So that a preview with a cell for every two pixels has that shape too.
ASSUME PanelAssumption ==
    /\ {PanelW, PanelH, MinPreviewRows} \subseteq Nat \ {0}
    /\ \E k \in 1..PanelW : PanelW = 10 * k /\ PanelH = 6 * k /\ MinPreviewRows <= 3 * k

Lower(a, b) == IF a < b THEN a ELSE b

\* image::resize with Nearest.
Nearest(img, w, h) ==
    LET pixel(x, y) == At(img, ((2 * x + 1) * img.w) \div (2 * w), ((2 * y + 1) * img.h) \div (2 * h)) IN
    Drawn(w, h, pixel)

\* image::resize with Lanczos3 stands as the mean of the two source pixels at the ends
\* of what an output pixel covers: it mixes neighbours, each channel by itself.
Resampled(img, w, h) ==
    LET first(n, size, out) == (n * size) \div out
        last(n, size, out) == Lower(((n + 1) * size) \div out, size - 1)
        pixel(x, y) ==
            LET a == At(img, first(x, img.w, w), first(y, img.h, h))
                b == At(img, last(x, img.w, w), last(y, img.h, h)) IN
            [c \in 1..4 |-> (a[c] + b[c]) \div 2] IN
    Drawn(w, h, pixel)

--------------------------------------------------------------------------------
\* Mutant: the margin is all on one side.
ContainOffCentre(sw, sh) ==
    LET across == PanelW * sh <= PanelH * sw
        w == IF across THEN PanelW ELSE JsRound(sw * PanelH, sh)
        h == IF across THEN JsRound(sh * PanelW, sw) ELSE PanelH IN
    [x |-> PanelW - w, y |-> PanelH - h, w |-> w, h |-> h]

\* The scale is PanelW / sw if the image is the wider of the two, else PanelH / sh;
\* the four numbers are each rounded from the exact ones.
ContainGeometry(sw, sh) ==
    IF PanelW * sh <= PanelH * sw
    THEN [x |-> 0, w |-> PanelW,
          y |-> Higher(JsRound(PanelH * sw - sh * PanelW, 2 * sw), 0),
          h |-> JsRound(sh * PanelW, sw)]
    ELSE [y |-> 0, h |-> PanelH,
          x |-> Higher(JsRound(PanelW * sh - sw * PanelH, 2 * sh), 0),
          w |-> JsRound(sw * PanelH, sh)]

Black == <<0, 0, 0, 255>>

\* Mutant: what is hidden is resized as it is.
ContainAsIs(img) ==
    LET to == ContainGeometry(img.w, img.h)
        small == Resampled(img, to.w, to.h)
        pixel(x, y) ==
            IF x \in to.x..(to.x + to.w - 1) /\ y \in to.y..(to.y + to.h - 1)
            THEN At(small, x - to.x, y - to.y) ELSE Black IN
    Drawn(PanelW, PanelH, pixel)

\* Something that would be less than half a pixel wide or high is not drawn at all.
Contain(img) ==
    LET to == ContainGeometry(img.w, img.h)
        small == Resampled(EachPixel(img, Blackened), to.w, to.h)
        pixel(x, y) ==
            IF x \in to.x..(to.x + to.w - 1) /\ y \in to.y..(to.y + to.h - 1)
            THEN At(small, x - to.x, y - to.y) ELSE Black IN
    Drawn(PanelW, PanelH, pixel)

ResizeToPanel(img, placement) ==
    IF placement = "fill" THEN Nearest(img, PanelW, PanelH) ELSE Contain(img)

--------------------------------------------------------------------------------
(***************************************************************************)
(* The preview: cells of two pixels each, 10 wide for 3 high.              *)
(***************************************************************************)
NoPreview == [w |-> 0, h |-> 0]

Fit(maxW, maxH) ==
    LET h == Lower(maxH, (3 * maxW) \div 10) IN
    IF h < MinPreviewRows THEN NoPreview ELSE [w |-> (10 * h) \div 3, h |-> h]

\* Where on the panel the pixel x, y of a preview of w by h cells is taken from.
SampleX(x, w) == Lower((x * PanelW + PanelW \div 2) \div w, PanelW - 1)
SampleY(y, h) == Lower((y * PanelH + PanelH \div 2) \div (2 * h), PanelH - 1)

Render(pixels, size) ==
    LET pixel(x, y) ==
            Rgb565ToRgb(pixels[SampleY(y, size.h) * PanelW + SampleX(x, size.w) + 1]) IN
    Drawn(size.w, 2 * size.h, pixel)
================================================================================
