--------------------------------- MODULE Pixels ---------------------------------
(***************************************************************************)
(* Images and what is done to their colours: the filters of adjust.rs in   *)
(* their fixed order, and the panel's 5/6/5 encoding of protocol.rs with   *)
(* its inverse of tui/preview.rs.  An image is [w, h, px], px its pixels   *)
(* <<red, green, blue, alpha>> row by row.  Sliders are in hundredths, and *)
(* arithmetic is exact where the code's is in doubles.                     *)
(***************************************************************************)
EXTENDS Integers, Sequences

Byte == 0..255
Pixel == [1..4 -> Byte]
Word == {v \in Nat : v < 65536}

\* The same sequence.  TLC then holds its elements instead of how to compute each.
Held(s) == s \o <<>>

At(img, x, y) == img.px[y * img.w + x + 1]

\* The image of that size whose pixel at x, y is F(x, y).
Drawn(w, h, F(_, _)) ==
    [w |-> w, h |-> h, px |-> Held([i \in 1..(w * h) |-> F((i - 1) % w, (i - 1) \div w)])]

EachPixel(img, F(_)) == [img EXCEPT !.px = Held([i \in DOMAIN img.px |-> F(img.px[i])])]

--------------------------------------------------------------------------------
(***************************************************************************)
(* Rounding n / d: to a byte, ties to even; and as JavaScript does, up.    *)
(***************************************************************************)
ToU8(n, d) ==
    LET low == n \div d
        twice == 2 * (n % d) IN
    IF n <= 0 THEN 0
    ELSE IF n >= 255 * d THEN 255
    ELSE IF twice > d \/ (twice = d /\ low % 2 = 1) THEN low + 1
    ELSE low

JsRound(n, d) == (2 * n + d) \div (2 * d)

--------------------------------------------------------------------------------
(***************************************************************************)
(* The filters that look at one pixel.  Alpha stays.                       *)
(***************************************************************************)
Hidden(p) == p[4] = 0
Blackened(p) == IF Hidden(p) THEN <<0, 0, 0, 0>> ELSE p

Brightness(p, v) ==
    LET lift(c) == ToU8(c + JsRound(255 * v, 100), 1) IN
    <<lift(p[1]), lift(p[2]), lift(p[3]), p[4]>>

Chroma(p, v) ==
    <<ToU8(p[1] * (100 + v), 100), ToU8(p[2] * (200 + v), 200), ToU8(p[3] * (100 - v), 100), p[4]>>

Higher(a, b) == IF a > b THEN a ELSE b

Saturation(p, v) ==
    LET top == Higher(p[1], Higher(p[2], p[3]))
        push(c) == ToU8(100 * c - (top - c) * v, 100) IN
    <<push(p[1]), push(p[2]), push(p[3]), p[4]>>

Grayscale(p) ==
    LET g == ToU8(p[1] + p[2] + p[3], 3) IN <<g, g, g, p[4]>>

--------------------------------------------------------------------------------
(***************************************************************************)
(* The two that look at neighbours.                                        *)
(***************************************************************************)
\* Beyond the edge there is nothing to subtract.
Sharpen(img) ==
    LET tap(x, y, c) ==
            IF x \in 0..(img.w - 1) /\ y \in 0..(img.h - 1) THEN At(img, x, y)[c] ELSE 0
        sharp(x, y, c) ==
            ToU8(5 * tap(x, y, c) - tap(x - 1, y, c) - tap(x + 1, y, c)
                                  - tap(x, y - 1, c) - tap(x, y + 1, c), 1)
        pixel(x, y) ==
            <<sharp(x, y, 1), sharp(x, y, 2), sharp(x, y, 3), At(img, x, y)[4]>> IN
    Drawn(img.w, img.h, pixel)

\* Five taps of a Gaussian, in hundred-thousandths.
Gauss(a, b, c, d, e) ==
    ToU8(6136 * (a + e) + 24477 * (b + d) + 38774 * c, 100000)

Within(n, last) == IF n < 0 THEN 0 ELSE IF n > last THEN last ELSE n

\* Beyond the edge is the edge: along the rows first, then along the columns.
Blur(img) ==
    LET rows(x, y) ==
            LET tap(i, c) == At(img, Within(x + i, img.w - 1), y)[c]
                soft(c) == Gauss(tap(-2, c), tap(-1, c), tap(0, c), tap(1, c), tap(2, c)) IN
            <<soft(1), soft(2), soft(3), At(img, x, y)[4]>>
        half == Drawn(img.w, img.h, rows)
        columns(x, y) ==
            LET tap(i, c) == At(half, x, Within(y + i, img.h - 1))[c]
                soft(c) == Gauss(tap(-2, c), tap(-1, c), tap(0, c), tap(1, c), tap(2, c)) IN
            <<soft(1), soft(2), soft(3), At(img, x, y)[4]>> IN
    Drawn(img.w, img.h, columns)

--------------------------------------------------------------------------------
(***************************************************************************)
(* Adjustments: [brightness, chroma, saturation, on], on the switches.     *)
(***************************************************************************)
NoAdjustments == [brightness |-> 0, chroma |-> 0, saturation |-> 0, on |-> {}]

Recolour(p, adj) ==
    LET lit == IF adj.brightness # 0 THEN Brightness(p, adj.brightness) ELSE p
        warm == IF adj.chroma # 0 THEN Chroma(lit, adj.chroma) ELSE lit
        rich == IF adj.saturation # 0 THEN Saturation(warm, adj.saturation) ELSE warm IN
    IF "Grayscale" \in adj.on THEN Grayscale(rich) ELSE rich

\* What is hidden is black before any filter can smear it.
ApplyAdjustments(img, adj) ==
    LET coloured == EachPixel(img, LAMBDA p : Recolour(Blackened(p), adj))
        sharp == IF "Sharpen" \in adj.on THEN Sharpen(coloured) ELSE coloured IN
    IF adj = NoAdjustments THEN img
    ELSE IF "Blur" \in adj.on THEN Blur(sharp) ELSE sharp

--------------------------------------------------------------------------------
(***************************************************************************)
(* The panel's encoding: five bits, six bits, five bits.                   *)
(***************************************************************************)
Rgb565(p) ==
    IF Hidden(p) THEN 0 ELSE 2048 * (p[1] \div 8) + 32 * (p[2] \div 4) + p[3] \div 8

Rgb565Encode(img) == Held([i \in DOMAIN img.px |-> Rgb565(img.px[i])])

AdjustAndEncode(panel, adj) == Rgb565Encode(ApplyAdjustments(panel, adj))

\* Back to bytes: the low bits repeat the high ones.
Rgb565ToRgb(v) ==
    LET r == v \div 2048
        g == (v \div 32) % 64
        b == v % 32 IN
    <<8 * r + r \div 4, 4 * g + g \div 16, 8 * b + b \div 4, 255>>

\* GIF frames are blended with black, and are opaque from then on.
Flattened(p) ==
    <<(p[1] * p[4]) \div 255, (p[2] * p[4]) \div 255, (p[3] * p[4]) \div 255, 255>>

FlattenOntoBlack(img) == EachPixel(img, Flattened)
================================================================================
