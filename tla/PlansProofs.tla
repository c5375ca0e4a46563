------------------------------ MODULE PlansProofs ------------------------------
(***************************************************************************)
(* Proofs about Plans: the plan of a GIF by PlannerProofs, and that of a   *)
(* picture here, for images of every size and with any settings.           *)
(***************************************************************************)
EXTENDS Plans, PlannerProofs

(***************************************************************************)
(* Where the pixels of an image are.                                       *)
(***************************************************************************)
IsImage(img, w, h) == img \in [w : {w}, h : {h}, px : [1..(w * h) -> Pixel]]

LEMMA HeldIs ==
    ASSUME NEW S, NEW n \in Nat, NEW s \in [1..n -> S]
    PROVE  Held(s) = s
  <1>1. s \in Seq(S)
    OBVIOUS
  <1> QED
    BY <1>1, ConcatEmptySeq DEF Held

LEMMA DrawnIs ==
    ASSUME NEW w \in Nat, NEW h \in Nat, NEW px \in [1..(w * h) -> Pixel]
    PROVE  /\ IsImage([w |-> w, h |-> h, px |-> Held(px)], w, h)
           /\ Held(px) = px
  <1> DEFINE n == w * h
  <1>1. n \in Nat
    OBVIOUS
  <1>2. Held(px) = px
    <2>1. px \in [1..n -> Pixel]
      OBVIOUS
    <2> HIDE DEF n
    <2> QED
      BY <1>1, <2>1, HeldIs
  <1> QED
    BY <1>2 DEF IsImage

LEMMA Cell ==
    ASSUME NEW w \in Nat, NEW h \in Nat, NEW i \in 1..(w * h)
    PROVE  /\ w # 0 /\ h # 0
           /\ (i - 1) % w \in 0..(w - 1)
           /\ (i - 1) \div w \in 0..(h - 1)
           /\ ((i - 1) \div w) * w + ((i - 1) % w) + 1 = i
  <1>1. w # 0 /\ h # 0
    <2>1. w * 0 = 0 /\ 0 * h = 0 /\ 1..0 = {}
      OBVIOUS
    <2> QED
      BY <2>1
  <1> DEFINE a == i - 1
             q == a \div w
  <1>2. a \in Int /\ a >= 0 /\ a < w * h /\ w * h \in Nat
    OBVIOUS
  <1> HIDE DEF a
  <1>3. q \in Int /\ w * q <= a /\ a < w * q + w /\ q >= 0 /\ a % w = a - w * q
    BY <1>1, <1>2, Quotient
  <1> HIDE DEF q
  <1>4. w * q < w * h
    <2>1. w * q \in Int
      BY <1>3
    <2> QED
      BY <1>2, <1>3, <2>1
  <1>5. q < h
    BY <1>1, <1>3, <1>4, Factors
  <1>6. q * w = w * q /\ w * q \in Int
    BY <1>3
  <1>7. a % w \in 0..(w - 1) /\ q \in 0..(h - 1) /\ q * w + (a % w) + 1 = a + 1
    <2> DEFINE p == w * q
               r == a % w
    <2>1. r = a - p /\ p \in Int /\ q * w = p /\ p <= a /\ a < p + w
      BY <1>3, <1>6
    <2> HIDE DEF p, r
    <2>2. r \in 0..(w - 1) /\ p + r + 1 = a + 1 /\ q \in 0..(h - 1)
      BY <1>1, <1>2, <1>3, <1>5, <2>1
    <2> QED
      BY <2>1, <2>2 DEF r
  <1> QED
    BY <1>1, <1>7 DEF a, q

LEMMA Spot ==
    ASSUME NEW w \in Nat, NEW h \in Nat, NEW x \in 0..(w - 1), NEW y \in 0..(h - 1)
    PROVE  /\ y * w + x + 1 \in 1..(w * h)
           /\ ((y * w + x + 1) - 1) % w = x
           /\ ((y * w + x + 1) - 1) \div w = y
  <1>1. w \in Nat \ {0} /\ y \in Int /\ h - 1 \in Int /\ y <= h - 1
    OBVIOUS
  <1>2. w * y <= w * (h - 1)
    BY <1>1, Factors
  <1>3. w * (h - 1) = w * h - w /\ y * w = w * y /\ w * y \in Nat /\ w * h \in Nat
    OBVIOUS
  <1> DEFINE a == (y * w + x + 1) - 1
             p == w * y
             n == w * h
  <1>4. a = p + x /\ p \in Nat /\ n \in Nat /\ p <= n - w
    BY <1>2, <1>3
  <1>5. a \in Int /\ w * y <= a /\ a < w * y + w
    BY <1>1, <1>4
  <1>6. a \div w = y /\ a % w = a - w * (a \div w)
    <2> HIDE DEF a
    <2> QED
      BY <1>1, <1>5, Quotient, QuotientIs
  <1>7. a + 1 \in 1..n
    <2> HIDE DEF a, n, p
    <2> QED
      BY <1>1, <1>4
  <1>8. a % w = x
    <2> HIDE DEF a, n
    <2> QED
      BY <1>4, <1>6 DEF p
  <1> QED
    BY <1>3, <1>6, <1>7, <1>8

--------------------------------------------------------------------------------
(***************************************************************************)
(* The plan of a GIF, whichever of the two is planned.                     *)
(***************************************************************************)
LEMMA PlansPlannerInitial == PlansInit => PlannerInv
  <1> SUFFICES ASSUME PlansInit PROVE PlannerInv
    OBVIOUS
  <1>1. CASE Init
    BY <1>1, PlannerInitial
  <1>2. CASE ~Init
    <2>1. /\ step = "idle" /\ file = (CHOOSE f \in Files : TRUE)
          /\ asked = (CHOOSE a \in Asked : TRUE)
          /\ swapped = FALSE /\ counted = <<>> /\ keep = <<>> /\ frames = <<>> /\ plan = NoPlan
      BY <1>2 DEF PlansInit
    <2>2. Files # {} /\ Asked # {}
      BY PlannerAssumption DEF PlannerAssumption
    <2>3. file \in Files /\ asked \in Asked
      BY <2>1, <2>2
    <2>4. plan \in [rate : Nat, total : Nat, secs : Nat, why : Reasons, suggested : Nat]
      BY <2>1 DEF NoPlan, Reasons, None
    <2>5. <<>> \in Seq(Nat)
      OBVIOUS
    <2> QED
      BY <2>1, <2>3, <2>4, <2>5 DEF TypeOK, PlannerInv, KeepInv, WalkInv, FramesInv, PlanInv
  <1> QED
    BY <1>1, <1>2

LEMMA PlansPlannerStep == PlannerInv /\ [PlansNext]_<<vars, pictureVars>> => PlannerInv'
  <1>1. [PlansNext]_<<vars, pictureVars>> => [Next]_vars
    BY DEF PlansNext, PlanGif, PlanAPicture
  <1> QED
    BY <1>1, PlannerStep

--------------------------------------------------------------------------------
(***************************************************************************)
(* Filters of one pixel: a pixel of bytes stays one.                       *)
(***************************************************************************)
LEMMA ToU8Type == \A n \in Int, d \in Nat \ {0} : ToU8(n, d) \in Byte
  <1> SUFFICES ASSUME NEW n \in Int, NEW d \in Nat \ {0} PROVE ToU8(n, d) \in Byte
    OBVIOUS
  <1> DEFINE low == n \div d
             rest == n % d
  <1>1. low \in Int /\ d * low <= n /\ n < d * low + d /\ (n >= 0 => low >= 0)
    BY Quotient
  <1> HIDE DEF low, rest
  <1>2. n < 255 * d => low < 255
    <2>1. 255 * d = d * 255
      OBVIOUS
    <2>2. n < 255 * d => d * low < d * 255
      <3> DEFINE m == d * low
      <3>1. m \in Int /\ m <= n
        BY <1>1
      <3> HIDE DEF m
      <3>2. n < 255 * d => m < d * 255
        BY <2>1, <3>1
      <3> QED
        BY <3>2 DEF m
    <2> QED
      BY <1>1, <2>2, Factors
  <1>3. ToU8(n, d) =
            IF n <= 0 THEN 0
            ELSE IF n >= 255 * d THEN 255
            ELSE IF 2 * rest > d \/ (2 * rest = d /\ low % 2 = 1) THEN low + 1
            ELSE low
    BY DEF ToU8, low, rest
  <1>4. ToU8(n, d) = 0 \/ ToU8(n, d) = 255
        \/ (low >= 0 /\ low < 255 /\ (ToU8(n, d) = low \/ ToU8(n, d) = low + 1))
    BY <1>1, <1>2, <1>3
  <1> QED
    BY <1>1, <1>4 DEF Byte

LEMMA PixelIs ==
    /\ \A r, g, b, a \in Byte : <<r, g, b, a>> \in Pixel
    /\ \A p \in Pixel : \A c \in 1..4 : p[c] \in Byte /\ p[c] \in Int
    /\ \A c \in Byte : c \in Int
  <1>1. \A r, g, b, a \in Byte : <<r, g, b, a>> \in Pixel
    BY DEF Pixel
  <1>2. \A c \in Byte : c \in Int
    BY DEF Byte
  <1>3. \A p \in Pixel : \A c \in 1..4 : p[c] \in Byte
    BY DEF Pixel
  <1> QED
    BY <1>1, <1>2, <1>3

IsSetting(adj) ==
    /\ adj.brightness \in Int /\ adj.chroma \in Int /\ adj.saturation \in Int

LEMMA JsRoundType ==
    ASSUME NEW n \in Int, NEW d \in Nat \ {0} PROVE JsRound(n, d) \in Int
  <1> DEFINE m == 2 * n + d
             b == 2 * d
  <1>1. m \in Int /\ b \in Nat \ {0}
    OBVIOUS
  <1>2. m \div b \in Int
    <2> HIDE DEF m, b
    <2> QED
      BY <1>1, Quotient
  <1> QED
    BY <1>2 DEF JsRound

LEMMA FilterTypes ==
    ASSUME NEW p \in Pixel, NEW v \in Int
    PROVE  /\ Brightness(p, v) \in Pixel /\ Chroma(p, v) \in Pixel
           /\ Saturation(p, v) \in Pixel /\ Grayscale(p) \in Pixel
           /\ Blackened(p) \in Pixel /\ Flattened(p) \in Pixel
  <1>1. \A c \in 1..4 : p[c] \in Byte /\ p[c] \in Int
    BY PixelIs
  <1>2. p[1] \in Int /\ p[2] \in Int /\ p[3] \in Int /\ p[4] \in Byte
    BY <1>1
  <1>3. Brightness(p, v) \in Pixel
    <2> DEFINE up == JsRound(255 * v, 100)
    <2>1. up \in Int
      <3>1. 255 * v \in Int /\ 100 \in Nat \ {0}
        OBVIOUS
      <3> QED
        BY <3>1, JsRoundType
    <2> HIDE DEF up
    <2>2. \A c \in Int : ToU8(c + up, 1) \in Byte
      BY <2>1, ToU8Type
    <2>3. <<ToU8(p[1] + up, 1), ToU8(p[2] + up, 1), ToU8(p[3] + up, 1), p[4]>> \in Pixel
      BY <1>2, <2>2, PixelIs
    <2> QED
      BY <2>3 DEF Brightness, up
  <1>4. Chroma(p, v) \in Pixel
    <2>1. p[1] * (100 + v) \in Int /\ p[2] * (200 + v) \in Int /\ p[3] * (100 - v) \in Int
      BY <1>2
    <2>2. /\ ToU8(p[1] * (100 + v), 100) \in Byte /\ ToU8(p[2] * (200 + v), 200) \in Byte
          /\ ToU8(p[3] * (100 - v), 100) \in Byte
      BY <2>1, ToU8Type
    <2> QED
      BY <1>2, <2>2, PixelIs DEF Chroma
  <1>5. Saturation(p, v) \in Pixel
    <2> DEFINE top == Higher(p[1], Higher(p[2], p[3]))
    <2>1. top \in Int
      BY <1>2 DEF Higher
    <2> HIDE DEF top
    <2>2. \A c \in Int : ToU8(100 * c - (top - c) * v, 100) \in Byte
      <3>1. \A c \in Int : 100 * c - (top - c) * v \in Int
        BY <2>1
      <3> QED
        BY <3>1, ToU8Type
    <2>3. <<ToU8(100 * p[1] - (top - p[1]) * v, 100), ToU8(100 * p[2] - (top - p[2]) * v, 100),
            ToU8(100 * p[3] - (top - p[3]) * v, 100), p[4]>> \in Pixel
      BY <1>2, <2>2, PixelIs
    <2> QED
      BY <2>3 DEF Saturation, top
  <1>6. Grayscale(p) \in Pixel
    <2>1. ToU8(p[1] + p[2] + p[3], 3) \in Byte
      BY <1>2, ToU8Type
    <2> QED
      BY <1>2, <2>1, PixelIs DEF Grayscale
  <1>7. Blackened(p) \in Pixel
    <2>1. 0 \in Byte
      BY DEF Byte
    <2>2. <<0, 0, 0, 0>> \in Pixel
      BY <2>1, PixelIs
    <2> QED
      BY <2>2 DEF Blackened
  <1>8. Flattened(p) \in Pixel
    <2>1. \A a, b \in Byte : (a * b) \div 255 \in Byte
      <3>1. SUFFICES ASSUME NEW a \in Byte, NEW b \in Byte PROVE (a * b) \div 255 \in Byte
        OBVIOUS
      <3> DEFINE m == a * b
      <3>2. m \in Int /\ m >= 0 /\ m <= 255 * 255
        <4>1. a \in Nat /\ b \in Nat /\ a <= 255 /\ b <= 255
          BY DEF Byte
        <4>2. a * b <= a * 255 /\ a * b \in Nat
          BY <4>1
        <4> QED
          BY <4>1, <4>2
      <3> HIDE DEF m
      <3>3. m \div 255 \in 0..255
        BY <3>2
      <3> QED
        BY <3>3 DEF m, Byte
    <2>2. 255 \in Byte
      BY DEF Byte
    <2>3. p[1] \in Byte /\ p[2] \in Byte /\ p[3] \in Byte
      BY <1>1
    <2> QED
      BY <1>2, <2>1, <2>2, <2>3, PixelIs DEF Flattened
  <1> QED
    BY <1>3, <1>4, <1>5, <1>6, <1>7, <1>8

LEMMA RecolourType ==
    ASSUME NEW p \in Pixel, NEW adj, IsSetting(adj)
    PROVE  Recolour(p, adj) \in Pixel
  <1> DEFINE lit == IF adj.brightness # 0 THEN Brightness(p, adj.brightness) ELSE p
             warm == IF adj.chroma # 0 THEN Chroma(lit, adj.chroma) ELSE lit
             rich == IF adj.saturation # 0 THEN Saturation(warm, adj.saturation) ELSE warm
  <1>1. adj.brightness \in Int /\ adj.chroma \in Int /\ adj.saturation \in Int /\ 0 \in Int
    BY DEF IsSetting
  <1>2. lit \in Pixel
    BY <1>1, FilterTypes
  <1> HIDE DEF lit
  <1>3. warm \in Pixel
    BY <1>1, <1>2, FilterTypes
  <1> HIDE DEF warm
  <1>4. rich \in Pixel
    BY <1>1, <1>3, FilterTypes
  <1> HIDE DEF rich
  <1>5. Grayscale(rich) \in Pixel
    BY <1>1, <1>4, FilterTypes
  <1> QED
    BY <1>4, <1>5 DEF Recolour, lit, warm, rich

--------------------------------------------------------------------------------
(***************************************************************************)
(* Filters of an image: an image of that size stays one.                   *)
(***************************************************************************)
LEMMA AtIs ==
    ASSUME NEW w \in Nat, NEW h \in Nat, NEW img, IsImage(img, w, h),
           NEW x \in 0..(w - 1), NEW y \in 0..(h - 1)
    PROVE  /\ At(img, x, y) \in Pixel
           /\ \A c \in 1..4 : At(img, x, y)[c] \in Byte /\ At(img, x, y)[c] \in Int
  <1>1. y * w + x + 1 \in 1..(w * h)
    BY Spot
  <1>2. img.w = w /\ img.px \in [1..(w * h) -> Pixel]
    BY DEF IsImage
  <1>3. At(img, x, y) \in Pixel
    BY <1>1, <1>2 DEF At
  <1> QED
    BY <1>3, PixelIs

LEMMA MappedIs ==
    ASSUME NEW w \in Nat, NEW h \in Nat, NEW img, IsImage(img, w, h),
           NEW px \in [1..(w * h) -> Pixel]
    PROVE  /\ IsImage([img EXCEPT !.px = Held(px)], w, h)
           /\ [img EXCEPT !.px = Held(px)].px = px
  <1>1. Held(px) = px
    BY DrawnIs
  <1> QED
    BY <1>1 DEF IsImage

LEMMA SharpenType ==
    ASSUME NEW w \in Nat, NEW h \in Nat, NEW img, IsImage(img, w, h)
    PROVE  IsImage(Sharpen(img), w, h)
  <1> DEFINE tap(x, y, c) ==
                 IF x \in 0..(img.w - 1) /\ y \in 0..(img.h - 1) THEN At(img, x, y)[c] ELSE 0
             sum(x, y, c) == 5 * tap(x, y, c) - tap(x - 1, y, c) - tap(x + 1, y, c)
                                              - tap(x, y - 1, c) - tap(x, y + 1, c)
             pixel(x, y) == <<ToU8(sum(x, y, 1), 1), ToU8(sum(x, y, 2), 1), ToU8(sum(x, y, 3), 1),
                              At(img, x, y)[4]>>
             px == [i \in 1..(w * h) |-> pixel((i - 1) % w, (i - 1) \div w)]
  <1>1. img.w = w /\ img.h = h
    BY DEF IsImage
  <1>2. \A x, y \in Int, c \in 1..4 : tap(x, y, c) \in Int
    <2>1. 0 \in Int
      OBVIOUS
    <2> QED
      BY <1>1, <2>1, AtIs
  <1>3. \A x, y \in Int, c \in 1..4 : sum(x, y, c) \in Int
    <2> SUFFICES ASSUME NEW x \in Int, NEW y \in Int, NEW c \in 1..4 PROVE sum(x, y, c) \in Int
      OBVIOUS
    <2>1. x - 1 \in Int /\ x + 1 \in Int /\ y - 1 \in Int /\ y + 1 \in Int
      OBVIOUS
    <2>2. /\ tap(x, y, c) \in Int /\ tap(x - 1, y, c) \in Int /\ tap(x + 1, y, c) \in Int
          /\ tap(x, y - 1, c) \in Int /\ tap(x, y + 1, c) \in Int
      <3> HIDE DEF tap
      <3> QED
        BY <1>2, <2>1
    <2> HIDE DEF tap
    <2> QED
      BY <2>2
  <1> HIDE DEF sum
  <1>4. \A x \in 0..(w - 1), y \in 0..(h - 1) : pixel(x, y) \in Pixel
    <2> SUFFICES ASSUME NEW x \in 0..(w - 1), NEW y \in 0..(h - 1) PROVE pixel(x, y) \in Pixel
      OBVIOUS
    <2>1. sum(x, y, 1) \in Int /\ sum(x, y, 2) \in Int /\ sum(x, y, 3) \in Int
      <3>1. x \in Int /\ y \in Int /\ 1 \in 1..4 /\ 2 \in 1..4 /\ 3 \in 1..4
        OBVIOUS
      <3> HIDE DEF pixel
      <3> QED
        BY <1>3, <3>1
    <2>2. /\ ToU8(sum(x, y, 1), 1) \in Byte /\ ToU8(sum(x, y, 2), 1) \in Byte
          /\ ToU8(sum(x, y, 3), 1) \in Byte
      BY <2>1, ToU8Type
    <2>3. At(img, x, y)[4] \in Byte
      BY AtIs
    <2> QED
      BY <2>2, <2>3, PixelIs
  <1>5. px \in [1..(w * h) -> Pixel]
    <2> HIDE DEF pixel
    <2> QED
      BY <1>4, Cell
  <1>6. Sharpen(img) = [w |-> w, h |-> h, px |-> Held(px)]
    BY <1>1 DEF Sharpen, Drawn, sum
  <1> HIDE DEF px
  <1> QED
    BY <1>5, <1>6, DrawnIs

LEMMA GaussType ==
    ASSUME NEW a \in Int, NEW b \in Int, NEW c \in Int, NEW d \in Int, NEW e \in Int
    PROVE  Gauss(a, b, c, d, e) \in Byte
  <1>1. 6136 * (a + e) + 24477 * (b + d) + 38774 * c \in Int /\ 100000 \in Nat \ {0}
    OBVIOUS
  <1> QED
    BY <1>1, ToU8Type DEF Gauss

LEMMA BlurType ==
    ASSUME NEW img, img.w \in Nat, img.h \in Nat, IsImage(img, img.w, img.h)
    PROVE  IsImage(Blur(img), img.w, img.h)
  <1> DEFINE w == img.w
             h == img.h
  <1> DEFINE across(x, y, c) ==
                 Gauss(At(img, Within(x + -2, w - 1), y)[c], At(img, Within(x + -1, w - 1), y)[c],
                       At(img, Within(x + 0, w - 1), y)[c],
                       At(img, Within(x + 1, w - 1), y)[c], At(img, Within(x + 2, w - 1), y)[c])
             rows(x, y) == <<across(x, y, 1), across(x, y, 2), across(x, y, 3), At(img, x, y)[4]>>
             hpx == [i \in 1..(w * h) |-> rows((i - 1) % w, (i - 1) \div w)]
             half == [w |-> w, h |-> h, px |-> Held(hpx)]
             down(x, y, c) ==
                 Gauss(At(half, x, Within(y + -2, h - 1))[c], At(half, x, Within(y + -1, h - 1))[c],
                       At(half, x, Within(y + 0, h - 1))[c],
                       At(half, x, Within(y + 1, h - 1))[c], At(half, x, Within(y + 2, h - 1))[c])
             columns(x, y) == <<down(x, y, 1), down(x, y, 2), down(x, y, 3), At(img, x, y)[4]>>
             px == [i \in 1..(w * h) |-> columns((i - 1) % w, (i - 1) \div w)]
  <1>1. w \in Nat /\ h \in Nat /\ IsImage(img, w, h)
    OBVIOUS
  <1>2. \A n \in Nat \ {0}, m \in Int : Within(m, n - 1) \in 0..(n - 1)
    BY DEF Within
  <1> HIDE DEF w, h
  <1>3. \A x \in 0..(w - 1), y \in 0..(h - 1), c \in 1..3 : across(x, y, c) \in Byte
    <2> SUFFICES ASSUME NEW x \in 0..(w - 1), NEW y \in 0..(h - 1), NEW c \in 1..3
                 PROVE  across(x, y, c) \in Byte
      OBVIOUS
    <2>1. \A m \in Int : Within(m, w - 1) \in 0..(w - 1)
      BY <1>1, <1>2
    <2>2. \A m \in Int : At(img, Within(m, w - 1), y)[c] \in Int
      BY <1>1, <2>1, AtIs
    <2>3. x + -2 \in Int /\ x + -1 \in Int /\ x + 0 \in Int /\ x + 1 \in Int /\ x + 2 \in Int
      BY <1>1
    <2> QED
      BY <2>2, <2>3, GaussType
  <1> HIDE DEF across
  <1>4. hpx \in [1..(w * h) -> Pixel]
    <2>1. \A x \in 0..(w - 1), y \in 0..(h - 1) : rows(x, y) \in Pixel
      BY <1>1, <1>3, AtIs, PixelIs
    <2> HIDE DEF rows
    <2> QED
      BY <1>1, <2>1, Cell
  <1>5. IsImage(half, w, h)
    <2> HIDE DEF hpx
    <2> QED
      BY <1>1, <1>4, DrawnIs
  <1> HIDE DEF half
  <1>6. \A x \in 0..(w - 1), y \in 0..(h - 1), c \in 1..3 : down(x, y, c) \in Byte
    <2> SUFFICES ASSUME NEW x \in 0..(w - 1), NEW y \in 0..(h - 1), NEW c \in 1..3
                 PROVE  down(x, y, c) \in Byte
      OBVIOUS
    <2>1. \A m \in Int : Within(m, h - 1) \in 0..(h - 1)
      BY <1>1, <1>2
    <2>2. \A m \in Int : At(half, x, Within(m, h - 1))[c] \in Int
      BY <1>1, <1>5, <2>1, AtIs
    <2>3. y + -2 \in Int /\ y + -1 \in Int /\ y + 0 \in Int /\ y + 1 \in Int /\ y + 2 \in Int
      BY <1>1
    <2> QED
      BY <2>2, <2>3, GaussType
  <1> HIDE DEF down
  <1>7. px \in [1..(w * h) -> Pixel]
    <2>1. \A x \in 0..(w - 1), y \in 0..(h - 1) : columns(x, y) \in Pixel
      BY <1>1, <1>6, AtIs, PixelIs
    <2> HIDE DEF columns
    <2> QED
      BY <1>1, <2>1, Cell
  <1> USE DEF w, h
  <1>8. Blur(img) = [w |-> w, h |-> h, px |-> Held(px)]
    BY DEF Blur, Drawn, across, down, half
  <1> HIDE DEF px, w, h
  <1>9. IsImage(Blur(img), w, h)
    BY <1>1, <1>7, <1>8, DrawnIs
  <1> QED
    BY <1>9 DEF w, h

LEMMA AdjustedType ==
    ASSUME NEW w \in Nat, NEW h \in Nat, NEW img, IsImage(img, w, h), NEW adj, IsSetting(adj)
    PROVE  IsImage(ApplyAdjustments(img, adj), w, h)
  <1> DEFINE px == [i \in 1..(w * h) |-> Recolour(Blackened(img.px[i]), adj)]
             coloured == [img EXCEPT !.px = Held(px)]
             sharp == IF "Sharpen" \in adj.on THEN Sharpen(coloured) ELSE coloured
  <1>1. img.px \in [1..(w * h) -> Pixel]
    BY DEF IsImage
  <1>2. px \in [1..(w * h) -> Pixel]
    <2>1. \A p \in Pixel : Recolour(Blackened(p), adj) \in Pixel
      BY FilterTypes, RecolourType
    <2> QED
      BY <1>1, <2>1
  <1>3. IsImage(coloured, w, h)
    <2> HIDE DEF px
    <2> QED
      BY <1>2, MappedIs
  <1>4. IsImage(sharp, w, h)
    <2> HIDE DEF coloured
    <2> QED
      BY <1>3, SharpenType
  <1>5. IsImage(Blur(sharp), w, h)
    <2> HIDE DEF sharp
    <2>1. sharp.w = w /\ sharp.h = h
      BY <1>4 DEF IsImage
    <2> QED
      BY <1>4, <2>1, BlurType
  <1>6. coloured = EachPixel(img, LAMBDA p : Recolour(Blackened(p), adj))
    BY <1>1 DEF EachPixel
  <1> HIDE DEF coloured
  <1>7. ApplyAdjustments(img, adj) =
            IF adj = NoAdjustments THEN img
            ELSE IF "Blur" \in adj.on THEN Blur(sharp) ELSE sharp
    BY <1>6 DEF ApplyAdjustments
  <1> HIDE DEF sharp
  <1> QED
    BY <1>4, <1>5, <1>7

--------------------------------------------------------------------------------
(***************************************************************************)
(* Resizing.                                                               *)
(***************************************************************************)
IsWhite(img) == \A i \in DOMAIN img.px : img.px[i] = White

LEMMA Covers ==
    ASSUME NEW size \in Nat \ {0}, NEW out \in Nat, NEW n \in 0..(out - 1)
    PROVE  /\ ((2 * n + 1) * size) \div (2 * out) \in 0..(size - 1)
           /\ (n * size) \div out \in 0..(size - 1)
           /\ Lower(((n + 1) * size) \div out, size - 1) \in 0..(size - 1)
  <1>1. out \in Nat \ {0} /\ n \in Nat /\ n < out
    OBVIOUS
  <1>2. ASSUME NEW a \in Nat, NEW b \in Nat \ {0}, a < b
        PROVE  (a * size) \div b \in 0..(size - 1)
    <2> DEFINE m == a * size
               q == m \div b
    <2>1. m \in Int /\ m >= 0 /\ m = size * a
      OBVIOUS
    <2>2. size * a < size * b
      BY <1>2, Factors
    <2>3. size * b = b * size
      OBVIOUS
    <2> HIDE DEF m
    <2>4. q \in Int /\ b * q <= m /\ q >= 0
      BY <2>1, Quotient
    <2> HIDE DEF q
    <2>5. b * q < b * size
      <3> DEFINE u == b * q
                 v == b * size
      <3>1. u \in Int /\ v \in Int /\ u <= m /\ m < v
        BY <2>1, <2>2, <2>3, <2>4
      <3> HIDE DEF u, v
      <3>2. u < v
        BY <2>1, <3>1
      <3> QED
        BY <3>2 DEF u, v
    <2>6. q < size
      BY <2>4, <2>5, Factors
    <2>7. q \in 0..(size - 1)
      BY <2>4, <2>6
    <2> QED
      BY <2>7 DEF q, m
  <1>3. ((2 * n + 1) * size) \div (2 * out) \in 0..(size - 1)
    <2>1. 2 * n + 1 \in Nat /\ 2 * out \in Nat \ {0} /\ 2 * n + 1 < 2 * out
      BY <1>1
    <2> QED
      BY <1>2, <2>1
  <1>4. Lower(((n + 1) * size) \div out, size - 1) \in 0..(size - 1)
    <2> DEFINE m == (n + 1) * size
               q == m \div out
    <2>1. m \in Int /\ m >= 0
      BY <1>1
    <2> HIDE DEF m
    <2>2. q \in Int /\ q >= 0
      BY <1>1, <2>1, Quotient
    <2> HIDE DEF q
    <2>3. Lower(q, size - 1) \in 0..(size - 1)
      BY <2>2 DEF Lower
    <2> QED
      BY <2>3 DEF q, m
  <1> QED
    BY <1>1, <1>2, <1>3, <1>4

LEMMA NearestIs ==
    ASSUME NEW img, img.w \in Nat \ {0}, img.h \in Nat \ {0}, IsImage(img, img.w, img.h),
           NEW w \in Nat, NEW h \in Nat
    PROVE  /\ IsImage(Nearest(img, w, h), w, h)
           /\ IsWhite(img) => IsWhite(Nearest(img, w, h))
  <1> DEFINE pixel(x, y) ==
                 At(img, ((2 * x + 1) * img.w) \div (2 * w), ((2 * y + 1) * img.h) \div (2 * h))
             px == [i \in 1..(w * h) |-> pixel((i - 1) % w, (i - 1) \div w)]
  <1>1. ASSUME NEW x \in 0..(w - 1), NEW y \in 0..(h - 1)
        PROVE  /\ pixel(x, y) \in Pixel
               /\ IsWhite(img) => pixel(x, y) = White
    <2> DEFINE u == ((2 * x + 1) * img.w) \div (2 * w)
               v == ((2 * y + 1) * img.h) \div (2 * h)
    <2>1. u \in 0..(img.w - 1) /\ v \in 0..(img.h - 1)
      BY Covers
    <2> HIDE DEF u, v
    <2>2. v * img.w + u + 1 \in 1..(img.w * img.h)
      BY <2>1, Spot
    <2>3. img.px \in [1..(img.w * img.h) -> Pixel]
      BY DEF IsImage
    <2>4. At(img, u, v) \in Pixel /\ (IsWhite(img) => At(img, u, v) = White)
      BY <2>2, <2>3 DEF At, IsWhite
    <2> QED
      BY <2>4 DEF u, v
  <1>2. Nearest(img, w, h) = [w |-> w, h |-> h, px |-> Held(px)]
    BY DEF Nearest, Drawn
  <1> HIDE DEF pixel
  <1>3. px \in [1..(w * h) -> Pixel] /\ (IsWhite(img) => \A i \in 1..(w * h) : px[i] = White)
    BY <1>1, Cell
  <1> HIDE DEF px
  <1>4. IsImage(Nearest(img, w, h), w, h) /\ Nearest(img, w, h).px = px
    BY <1>2, <1>3, DrawnIs
  <1> QED
    BY <1>3, <1>4 DEF IsWhite

LEMMA ResampledIs ==
    ASSUME NEW img, img.w \in Nat \ {0}, img.h \in Nat \ {0}, IsImage(img, img.w, img.h),
           NEW w \in Nat, NEW h \in Nat
    PROVE  /\ IsImage(Resampled(img, w, h), w, h)
           /\ IsWhite(img) => IsWhite(Resampled(img, w, h))
  <1> DEFINE first(n, size, out) == (n * size) \div out
             last(n, size, out) == Lower(((n + 1) * size) \div out, size - 1)
             mean(a, b) == [c \in 1..4 |-> (a[c] + b[c]) \div 2]
             pixel(x, y) == mean(At(img, first(x, img.w, w), first(y, img.h, h)),
                                 At(img, last(x, img.w, w), last(y, img.h, h)))
             px == [i \in 1..(w * h) |-> pixel((i - 1) % w, (i - 1) \div w)]
  <1>1. Resampled(img, w, h) = [w |-> w, h |-> h, px |-> Held(px)]
    BY DEF Resampled, Drawn
  <1>2. \A a, b \in Pixel : mean(a, b) \in Pixel
    <2>1. \A u, v \in Byte : (u + v) \div 2 \in Byte
      BY DEF Byte
    <2>2. \A a, b \in Pixel : \A c \in 1..4 : (a[c] + b[c]) \div 2 \in Byte
      BY <2>1, PixelIs
    <2> QED
      BY <2>2 DEF Pixel
  <1>3. mean(White, White) = White
    <2>1. \A c \in 1..4 : White[c] = 255
      BY DEF White
    <2>2. mean(White, White) = [c \in 1..4 |-> 255]
      BY <2>1
    <2>3. White = [c \in 1..4 |-> 255]
      BY DEF White
    <2> QED
      BY <2>2, <2>3
  <1> HIDE DEF mean
  <1>4. ASSUME NEW x \in 0..(img.w - 1), NEW y \in 0..(img.h - 1)
        PROVE  At(img, x, y) \in Pixel /\ (IsWhite(img) => At(img, x, y) = White)
    <2>1. y * img.w + x + 1 \in 1..(img.w * img.h)
      BY Spot
    <2>2. img.px \in [1..(img.w * img.h) -> Pixel]
      BY DEF IsImage
    <2> QED
      BY <2>1, <2>2 DEF At, IsWhite
  <1>5. ASSUME NEW x \in 0..(w - 1), NEW y \in 0..(h - 1)
        PROVE  /\ pixel(x, y) \in Pixel
               /\ IsWhite(img) => pixel(x, y) = White
    <2>1. /\ first(x, img.w, w) \in 0..(img.w - 1) /\ last(x, img.w, w) \in 0..(img.w - 1)
          /\ first(y, img.h, h) \in 0..(img.h - 1) /\ last(y, img.h, h) \in 0..(img.h - 1)
      BY Covers
    <2> HIDE DEF first, last
    <2> QED
      BY <1>2, <1>3, <1>4, <2>1
  <1> HIDE DEF pixel
  <1>6. px \in [1..(w * h) -> Pixel] /\ (IsWhite(img) => \A i \in 1..(w * h) : px[i] = White)
    BY <1>5, Cell
  <1> HIDE DEF px
  <1>7. IsImage(Resampled(img, w, h), w, h) /\ Resampled(img, w, h).px = px
    BY <1>1, <1>6, DrawnIs
  <1> QED
    BY <1>6, <1>7 DEF IsWhite

(***************************************************************************)
(* The shorter side s of an image s by l, scaled to have its longer side   *)
(* L, is k of the panel's P pixels, after a margin of m.                   *)
(***************************************************************************)
LEMMA Margin ==
    ASSUME NEW s \in Nat \ {0}, NEW l \in Nat \ {0}, NEW P \in Nat, NEW L \in Nat, s * L <= P * l,
           NEW m, m = Higher(JsRound(P * l - s * L, 2 * l), 0),
           NEW k, k = JsRound(s * L, l)
    PROVE  /\ m \in Nat /\ k \in Nat /\ m + k <= P
           /\ 2 * m + k - P \in -1..1
           /\ 2 * l * k - 2 * L * s \in -l..l
  <1> DEFINE y == JsRound(P * l - s * L, 2 * l)
             A == P * l
             B == s * L
  <1>1. ASSUME NEW n \in Nat, NEW d \in Nat \ {0}
        PROVE  /\ JsRound(n, d) \in Nat
               /\ 2 * (d * JsRound(n, d)) <= 2 * n + d
               /\ 2 * n + d < 2 * (d * JsRound(n, d)) + 2 * d
    <2>1. JsRound(n, d) = RoundDiv(n, d)
      BY DEF JsRound, RoundDiv
    <2> QED
      BY <2>1, Rounded
  <1>2. A \in Nat /\ B \in Nat /\ B <= A /\ A - B \in Nat /\ 2 * l \in Nat \ {0}
    OBVIOUS
  <1>3. y \in Nat /\ 2 * (2 * l * y) <= 2 * (A - B) + 2 * l /\ 2 * (A - B) + 2 * l < 2 * (2 * l * y) + 2 * (2 * l)
    BY <1>1, <1>2
  <1>4. k \in Nat /\ 2 * (l * k) <= 2 * B + l /\ 2 * B + l < 2 * (l * k) + 2 * l
    BY <1>1, <1>2
  <1>5. m = y
    BY <1>3 DEF Higher
  <1> DEFINE X == l * m
             K == l * k
             e == 2 * m + k - P
  <1>6. /\ m \in Nat /\ X \in Nat /\ K \in Nat /\ 2 * l * y = 2 * X
        /\ l * P = A
    BY <1>3, <1>4, <1>5
  <1>7. l * e = 2 * X + K - A /\ e \in Int /\ l * (m + k) = X + K /\ l * (P + 1) = A + l
    BY <1>4, <1>6
  <1>8. 2 * l * k = 2 * K /\ 2 * L * s = 2 * B
    BY <1>4
  <1>9. /\ 4 * X <= 2 * A - 2 * B + 2 * l /\ 2 * A - 2 * B < 4 * X + 2 * l
        /\ 2 * K <= 2 * B + l /\ 2 * B < 2 * K + l
    <2> HIDE DEF A, B, X, K, y
    <2> QED
      BY <1>2, <1>3, <1>4, <1>6 DEF K
  <1>10. 2 * l * k - 2 * L * s \in -l..l
    <2> HIDE DEF A, B, X, K, y
    <2> QED
      BY <1>2, <1>6, <1>8, <1>9
  <1>11. e \in -1..1
    <2>1. l * e < l * 2 /\ l * (-2) < l * e
      <3> DEFINE E == l * e
      <3>1. E = 2 * X + K - A /\ l * 2 = 2 * l /\ l * (-2) = -(2 * l)
        BY <1>7
      <3> HIDE DEF A, B, X, K, y, E, e
      <3>2. E < 2 * l /\ -(2 * l) < E
        BY <1>2, <1>6, <1>9, <3>1
      <3> QED
        BY <3>1, <3>2 DEF E
    <2>2. 2 \in Int /\ -2 \in Int
      OBVIOUS
    <2> HIDE DEF e
    <2>3. e < 2 /\ -2 < e
      BY <1>7, <2>1, <2>2, Factors
    <2> QED
      BY <1>7, <2>3
  <1>12. m + k <= P
    <2>1. SUFFICES ASSUME m + k >= P + 1 PROVE FALSE
      BY <1>4, <1>6
    <2>2. A + l <= X + K
      <3> DEFINE f == m + k
                 g == P + 1
      <3>1. f \in Int /\ g \in Int /\ g <= f
        BY <1>4, <1>6, <2>1
      <3>2. l * g <= l * f
        <4> HIDE DEF f, g
        <4> QED
          BY <3>1, Factors
      <3> HIDE DEF A, X, K
      <3> QED
        BY <1>7, <3>2
    <2>3. A = B /\ 4 * X <= 2 * l /\ 2 * K <= 2 * A + l
      <3> HIDE DEF A, B, X, K
      <3> QED
        BY <1>2, <1>6, <1>9, <2>2
    <2>4. m = 0
      <3>1. X < l * 1
        <4> HIDE DEF A, B, X, K
        <4> QED
          BY <1>6, <2>3
      <3>2. m < 1
        <4>1. m \in Int /\ 1 \in Int
          BY <1>6
        <4> QED
          BY <3>1, <4>1, Factors
      <3> QED
        BY <1>6, <3>2
    <2>5. X = 0
      BY <2>4
    <2> HIDE DEF A, B, X, K
    <2> QED
      BY <1>2, <1>6, <2>2, <2>3, <2>5
  <1> QED
    BY <1>4, <1>6, <1>10, <1>11, <1>12

LEMMA GeometryIs ==
    ASSUME NEW sw \in Nat \ {0}, NEW sh \in Nat \ {0}
    PROVE  LET to == ContainGeometry(sw, sh) IN
           /\ to.x \in Nat /\ to.y \in Nat /\ to.w \in Nat /\ to.h \in Nat
           /\ to.x + to.w <= PanelW /\ to.y + to.h <= PanelH
           /\ \/ /\ to.x = 0 /\ to.w = PanelW
                 /\ 2 * to.y + to.h - PanelH \in -1..1
                 /\ 2 * sw * to.h - 2 * PanelW * sh \in -sw..sw
              \/ /\ to.y = 0 /\ to.h = PanelH
                 /\ 2 * to.x + to.w - PanelW \in -1..1
                 /\ 2 * sh * to.w - 2 * PanelH * sw \in -sh..sh
  <1> DEFINE to == ContainGeometry(sw, sh)
  <1>1. PanelW \in Nat \ {0} /\ PanelH \in Nat \ {0}
    BY PanelAssumption DEF PanelAssumption
  <1>2. /\ PanelW * sh = sh * PanelW /\ sh * PanelW \in Nat
        /\ PanelH * sw = sw * PanelH /\ sw * PanelH \in Nat
    BY <1>1
  <1>3. CASE PanelW * sh <= PanelH * sw
    <2> DEFINE m == Higher(JsRound(PanelH * sw - sh * PanelW, 2 * sw), 0)
               k == JsRound(sh * PanelW, sw)
    <2>1. to = [x |-> 0, w |-> PanelW, y |-> m, h |-> k]
      BY <1>3 DEF ContainGeometry
    <2>2. sh * PanelW <= PanelH * sw
      BY <1>2, <1>3
    <2>3. /\ m \in Nat /\ k \in Nat /\ m + k <= PanelH
          /\ 2 * m + k - PanelH \in -1..1
          /\ 2 * sw * k - 2 * PanelW * sh \in -sw..sw
      <3>1. PanelH \in Nat /\ PanelW \in Nat
        BY <1>1
      <3> QED
        BY <2>2, <3>1, Margin
    <2> HIDE DEF m, k, to
    <2>4. to.x = 0 /\ to.w = PanelW /\ to.y = m /\ to.h = k
      BY <2>1
    <2>5. 0 \in Nat /\ 0 + PanelW <= PanelW
      BY <1>1
    <2> QED
      BY <1>1, <2>3, <2>4, <2>5 DEF to
  <1>4. CASE ~(PanelW * sh <= PanelH * sw)
    <2> DEFINE m == Higher(JsRound(PanelW * sh - sw * PanelH, 2 * sh), 0)
               k == JsRound(sw * PanelH, sh)
    <2>1. to = [y |-> 0, h |-> PanelH, x |-> m, w |-> k]
      BY <1>4 DEF ContainGeometry
    <2>2. sw * PanelH <= PanelW * sh
      BY <1>2, <1>4
    <2>3. /\ m \in Nat /\ k \in Nat /\ m + k <= PanelW
          /\ 2 * m + k - PanelW \in -1..1
          /\ 2 * sh * k - 2 * PanelH * sw \in -sh..sh
      <3>1. PanelH \in Nat /\ PanelW \in Nat
        BY <1>1
      <3> QED
        BY <2>2, <3>1, Margin
    <2> HIDE DEF m, k, to
    <2>4. to.y = 0 /\ to.h = PanelH /\ to.x = m /\ to.w = k
      BY <2>1
    <2>5. 0 \in Nat /\ 0 + PanelH <= PanelH
      BY <1>1
    <2> QED
      BY <1>1, <2>3, <2>4, <2>5 DEF to
  <1> QED
    BY <1>3, <1>4

\* Within is the picture, around it black.
LEMMA ContainIs ==
    ASSUME NEW img, img.w \in Nat \ {0}, img.h \in Nat \ {0}, IsImage(img, img.w, img.h)
    PROVE  /\ IsImage(Contain(img), PanelW, PanelH)
           /\ IsWhite(img) =>
                 LET to == ContainGeometry(img.w, img.h) IN
                 \A x \in 0..(PanelW - 1), y \in 0..(PanelH - 1) :
                    At(Contain(img), x, y) =
                        IF x \in to.x..(to.x + to.w - 1) /\ y \in to.y..(to.y + to.h - 1)
                        THEN White ELSE Black
  <1> DEFINE to == ContainGeometry(img.w, img.h)
             bpx == [i \in DOMAIN img.px |-> Blackened(img.px[i])]
             seen == EachPixel(img, Blackened)
             small == Resampled(seen, to.w, to.h)
             inside(x, y) == x \in to.x..(to.x + to.w - 1) /\ y \in to.y..(to.y + to.h - 1)
             pixel(x, y) == IF inside(x, y) THEN At(small, x - to.x, y - to.y) ELSE Black
             px == [i \in 1..(PanelW * PanelH) |-> pixel((i - 1) % PanelW, (i - 1) \div PanelW)]
  <1>1. PanelW \in Nat \ {0} /\ PanelH \in Nat \ {0}
    BY PanelAssumption DEF PanelAssumption
  <1>2. to.x \in Nat /\ to.y \in Nat /\ to.w \in Nat /\ to.h \in Nat
    BY GeometryIs
  <1>3. Contain(img) = [w |-> PanelW, h |-> PanelH, px |-> Held(px)]
    BY DEF Contain, Drawn
  <1> HIDE DEF to
  <1>4. IsImage(seen, img.w, img.h) /\ (IsWhite(img) => IsWhite(seen))
    <2>1. img.px \in [1..(img.w * img.h) -> Pixel]
      BY DEF IsImage
    <2>2. bpx \in [1..(img.w * img.h) -> Pixel]
      BY <2>1, FilterTypes
    <2>3. seen = [img EXCEPT !.px = Held(bpx)]
      BY DEF EachPixel
    <2>4. IsWhite(img) => \A i \in 1..(img.w * img.h) : bpx[i] = White
      <3>1. Blackened(White) = White
        BY DEF Blackened, Hidden, White
      <3> QED
        BY <2>1, <3>1 DEF IsWhite
    <2> HIDE DEF bpx, seen
    <2>5. IsImage(seen, img.w, img.h) /\ seen.px = bpx
      BY <2>2, <2>3, MappedIs
    <2> QED
      BY <2>2, <2>4, <2>5 DEF IsWhite
  <1> HIDE DEF seen
  <1>5. IsImage(small, to.w, to.h) /\ (IsWhite(img) => IsWhite(small))
    <2>1. seen.w = img.w /\ seen.h = img.h
      BY <1>4 DEF IsImage
    <2> QED
      BY <1>2, <1>4, <2>1, ResampledIs
  <1> HIDE DEF small
  <1>6. Black \in Pixel
    <2>1. 0 \in Byte /\ 255 \in Byte
      BY DEF Byte
    <2> QED
      BY <2>1, PixelIs DEF Black
  <1>7. ASSUME NEW x \in 0..(PanelW - 1), NEW y \in 0..(PanelH - 1)
        PROVE  /\ pixel(x, y) \in Pixel
               /\ IsWhite(img) => pixel(x, y) = IF inside(x, y) THEN White ELSE Black
    <2>1. CASE inside(x, y)
      <3>1. x - to.x \in 0..(to.w - 1) /\ y - to.y \in 0..(to.h - 1)
        BY <1>2, <2>1
      <3>2. (y - to.y) * to.w + (x - to.x) + 1 \in 1..(to.w * to.h)
        BY <1>2, <3>1, Spot
      <3>3. small.px \in [1..(to.w * to.h) -> Pixel] /\ small.w = to.w
        BY <1>5 DEF IsImage
      <3>4. At(small, x - to.x, y - to.y) = small.px[(y - to.y) * to.w + (x - to.x) + 1]
        BY <3>3 DEF At
      <3> QED
        BY <1>5, <2>1, <3>2, <3>3, <3>4 DEF IsWhite
    <2>2. CASE ~inside(x, y)
      BY <1>6, <2>2
    <2> QED
      BY <2>1, <2>2
  <1> HIDE DEF pixel
  <1>8. px \in [1..(PanelW * PanelH) -> Pixel]
    BY <1>1, <1>7, Cell
  <1>9. IsImage(Contain(img), PanelW, PanelH) /\ Held(px) = px
    <2> HIDE DEF px
    <2> QED
      BY <1>1, <1>3, <1>8, DrawnIs
  <1>10. ASSUME NEW x \in 0..(PanelW - 1), NEW y \in 0..(PanelH - 1)
         PROVE  At(Contain(img), x, y) = pixel(x, y)
    <2>1. /\ y * PanelW + x + 1 \in 1..(PanelW * PanelH)
          /\ ((y * PanelW + x + 1) - 1) % PanelW = x
          /\ ((y * PanelW + x + 1) - 1) \div PanelW = y
      BY <1>1, Spot
    <2> DEFINE i == y * PanelW + x + 1
    <2>2. At(Contain(img), x, y) = px[i]
      <3> HIDE DEF px
      <3> QED
        BY <1>3, <1>9 DEF At
    <2>3. px[i] = pixel((i - 1) % PanelW, (i - 1) \div PanelW)
      <3>1. i \in 1..(PanelW * PanelH)
        BY <2>1
      <3> HIDE DEF i
      <3> QED
        BY <3>1
    <2>4. (i - 1) % PanelW = x /\ (i - 1) \div PanelW = y
      BY <2>1
    <2> HIDE DEF px, i
    <2> QED
      BY <2>2, <2>3, <2>4
  <1> QED
    BY <1>7, <1>9, <1>10 DEF to

--------------------------------------------------------------------------------
(***************************************************************************)
(* From the file to the panel.                                             *)
(***************************************************************************)
LEMMA PictureIs ==
    ASSUME NEW pic \in Pictures
    PROVE  /\ pic.image.w \in Nat \ {0} /\ pic.image.h \in Nat \ {0}
           /\ IsImage(pic.image, pic.image.w, pic.image.h)
  <1>1. /\ pic.image \in [w : Nat \ {0}, h : Nat \ {0}, px : Seq(Pixel)]
        /\ Len(pic.image.px) = pic.image.w * pic.image.h
    BY PictureAssumption DEF PictureAssumption
  <1>2. pic.image.px \in [1..(pic.image.w * pic.image.h) -> Pixel]
    <2> DEFINE px == pic.image.px
    <2>1. px \in Seq(Pixel)
      BY <1>1
    <2>2. px \in [1..Len(px) -> Pixel]
      <3> HIDE DEF px
      <3> QED
        BY <2>1
    <2> QED
      BY <1>1, <2>2
  <1> QED
    BY <1>1, <1>2 DEF IsImage

\* A quarter turn.
LEMMA TurnedIs ==
    ASSUME NEW img, img.w \in Nat \ {0}, img.h \in Nat \ {0}, IsImage(img, img.w, img.h)
    PROVE  /\ IsImage(QuarterTurn(img), img.h, img.w)
           /\ IsWhite(img) => IsWhite(QuarterTurn(img))
  <1> DEFINE w == img.h
             h == img.w
             pixel(x, y) == At(img, y, img.h - 1 - x)
             px == [i \in 1..(w * h) |-> pixel((i - 1) % w, (i - 1) \div w)]
  <1>1. QuarterTurn(img) = [w |-> w, h |-> h, px |-> Held(px)]
    BY DEF QuarterTurn, Drawn
  <1>2. ASSUME NEW x \in 0..(w - 1), NEW y \in 0..(h - 1)
        PROVE  /\ pixel(x, y) \in Pixel
               /\ IsWhite(img) => pixel(x, y) = White
    <2> DEFINE v == img.h - 1 - x
    <2>1. y \in 0..(img.w - 1) /\ v \in 0..(img.h - 1)
      OBVIOUS
    <2> HIDE DEF v
    <2>2. v * img.w + y + 1 \in 1..(img.w * img.h)
      BY <2>1, Spot
    <2>3. img.px \in [1..(img.w * img.h) -> Pixel]
      BY DEF IsImage
    <2>4. At(img, y, v) \in Pixel /\ (IsWhite(img) => At(img, y, v) = White)
      BY <2>2, <2>3 DEF At, IsWhite
    <2> QED
      BY <2>4 DEF v
  <1>3. w \in Nat /\ h \in Nat
    OBVIOUS
  <1> HIDE DEF pixel
  <1>4. px \in [1..(w * h) -> Pixel] /\ (IsWhite(img) => \A i \in 1..(w * h) : px[i] = White)
    BY <1>2, <1>3, Cell
  <1>5. IsImage(QuarterTurn(img), w, h) /\ QuarterTurn(img).px = px
    <2> HIDE DEF px, w, h
    <2>1. px \in [1..(w * h) -> Pixel]
      BY <1>4
    <2>2. IsImage([w |-> w, h |-> h, px |-> Held(px)], w, h) /\ Held(px) = px
      BY <1>3, <2>1, DrawnIs
    <2> QED
      BY <1>1, <2>2
  <1> HIDE DEF px
  <1> QED
    BY <1>4, <1>5 DEF IsWhite

LEMMA FlattenedIs ==
    ASSUME NEW img, img.w \in Nat \ {0}, img.h \in Nat \ {0}, IsImage(img, img.w, img.h)
    PROVE  /\ IsImage(FlattenOntoBlack(img), img.w, img.h)
           /\ IsWhite(img) => IsWhite(FlattenOntoBlack(img))
  <1> DEFINE px == [i \in DOMAIN img.px |-> Flattened(img.px[i])]
  <1>1. img.px \in [1..(img.w * img.h) -> Pixel]
    BY DEF IsImage
  <1>2. px \in [1..(img.w * img.h) -> Pixel]
    <2>1. 0 \in Int
      OBVIOUS
    <2> QED
      BY <1>1, <2>1, FilterTypes
  <1>3. FlattenOntoBlack(img) = [img EXCEPT !.px = Held(px)]
    BY DEF FlattenOntoBlack, EachPixel
  <1>4. IsWhite(img) => \A i \in 1..(img.w * img.h) : px[i] = White
    <2>1. (255 * 255) \div 255 = 255
      OBVIOUS
    <2>2. Flattened(White) = White
      BY <2>1 DEF Flattened, White
    <2> QED
      BY <1>1, <2>2 DEF IsWhite
  <1> HIDE DEF px
  <1>5. IsImage(FlattenOntoBlack(img), img.w, img.h) /\ FlattenOntoBlack(img).px = px
    BY <1>2, <1>3, MappedIs
  <1> QED
    BY <1>2, <1>4, <1>5 DEF IsWhite

LEMMA UprightIs ==
    ASSUME NEW pic \in Pictures
    PROVE  LET src == Upright(pic) IN
           /\ src.w \in Nat \ {0} /\ src.h \in Nat \ {0} /\ IsImage(src, src.w, src.h)
           /\ IsWhite(pic.image) => IsWhite(src)
  <1> DEFINE img == pic.image
  <1>1. img.w \in Nat \ {0} /\ img.h \in Nat \ {0} /\ IsImage(img, img.w, img.h)
    BY PictureIs
  <1> HIDE DEF img
  <1>2. CASE pic.gif
    <2>1. Upright(pic) = FlattenOntoBlack(img)
      BY <1>2 DEF Upright, img
    <2>2. /\ IsImage(FlattenOntoBlack(img), img.w, img.h)
          /\ IsWhite(img) => IsWhite(FlattenOntoBlack(img))
      BY <1>1, FlattenedIs
    <2>3. FlattenOntoBlack(img).w = img.w /\ FlattenOntoBlack(img).h = img.h
      BY <2>2 DEF IsImage
    <2> QED
      BY <1>1, <2>1, <2>2, <2>3 DEF img
  <1>3. CASE ~pic.gif /\ pic.turned
    <2>1. Upright(pic) = QuarterTurn(img)
      BY <1>3 DEF Upright, img
    <2>2. /\ IsImage(QuarterTurn(img), img.h, img.w)
          /\ IsWhite(img) => IsWhite(QuarterTurn(img))
      BY <1>1, TurnedIs
    <2>3. QuarterTurn(img).w = img.h /\ QuarterTurn(img).h = img.w
      BY <2>2 DEF IsImage
    <2> QED
      BY <1>1, <2>1, <2>2, <2>3 DEF img
  <1>4. CASE ~pic.gif /\ ~pic.turned
    BY <1>1, <1>4 DEF Upright, img
  <1> QED
    BY <1>2, <1>3, <1>4

LEMMA LoadIs ==
    ASSUME NEW pic \in Pictures, NEW how \in Placements
    PROVE  IsImage(Load(pic, how), PanelW, PanelH)
  <1> DEFINE src == Upright(pic)
  <1>1. src.w \in Nat \ {0} /\ src.h \in Nat \ {0} /\ IsImage(src, src.w, src.h)
    BY UprightIs
  <1>2. PanelW \in Nat /\ PanelH \in Nat
    BY PanelAssumption DEF PanelAssumption
  <1> HIDE DEF src
  <1>3. IsImage(Nearest(src, PanelW, PanelH), PanelW, PanelH)
    BY <1>1, <1>2, NearestIs
  <1>4. IsImage(Contain(src), PanelW, PanelH)
    BY <1>1, ContainIs
  <1> QED
    BY <1>3, <1>4 DEF Load, ResizeToPanel, src

LEMMA EncodedPixel == \A p \in Pixel : Rgb565(p) \in Word
  <1> SUFFICES ASSUME NEW p \in Pixel PROVE Rgb565(p) \in Word
    OBVIOUS
  <1>1. p[1] \in Byte /\ p[2] \in Byte /\ p[3] \in Byte
    BY PixelIs
  <1> DEFINE r == p[1] \div 8
             g == p[2] \div 4
             b == p[3] \div 8
  <1>2. r \in 0..31 /\ g \in 0..63 /\ b \in 0..31
    BY <1>1 DEF Byte
  <1>3. Rgb565(p) = IF Hidden(p) THEN 0 ELSE 2048 * r + 32 * g + b
    BY DEF Rgb565
  <1> HIDE DEF r, g, b
  <1>4. 2048 * r + 32 * g + b \in Word /\ 0 \in Word
    <2>1. r \in Nat /\ r <= 31 /\ g \in Nat /\ g <= 63 /\ b \in Nat /\ b <= 31
      BY <1>2
    <2>2. 2048 * r + 32 * g + b \in Nat /\ 2048 * r + 32 * g + b <= 65535
      BY <2>1
    <2> QED
      BY <2>2 DEF Word
  <1> QED
    BY <1>3, <1>4

LEMMA EncodedIs ==
    ASSUME NEW w \in Nat, NEW h \in Nat, NEW img, IsImage(img, w, h)
    PROVE  /\ Rgb565Encode(img) \in [1..(w * h) -> Word]
           /\ Rgb565Encode(img) = [i \in 1..(w * h) |-> Rgb565(img.px[i])]
  <1> DEFINE v == [i \in DOMAIN img.px |-> Rgb565(img.px[i])]
             n == w * h
  <1>1. img.px \in [1..(w * h) -> Pixel] /\ n \in Nat
    BY DEF IsImage
  <1>2. v \in [1..n -> Word]
    BY <1>1, EncodedPixel
  <1>3. Rgb565Encode(img) = Held(v)
    BY DEF Rgb565Encode
  <1>4. Held(v) = v
    <2> HIDE DEF v, n
    <2> QED
      BY <1>1, <1>2, HeldIs
  <1> QED
    BY <1>1, <1>2, <1>3, <1>4

(***************************************************************************)
(* A preview of full size: each of its pixels is the panel's own, and the  *)
(* colour shown for it encodes to it again.                                *)
(***************************************************************************)
LEMMA DecodedPixel ==
    ASSUME NEW v \in Word
    PROVE  Rgb565ToRgb(v) \in Pixel /\ Rgb565(Rgb565ToRgb(v)) = v
  <1> DEFINE r == v \div 2048
             q == v \div 32
             g == q % 64
             b == v % 32
             R == 8 * r + r \div 4
             G == 4 * g + g \div 16
             B == 8 * b + b \div 4
  <1>1. v \in Nat /\ v <= 65535
    BY DEF Word
  <1>2. r \in Nat /\ r <= 31 /\ q \in Nat /\ 32 * q + b = v /\ b \in Nat /\ b <= 31
    BY <1>1
  <1>3. g \in Nat /\ g <= 63 /\ 64 * r + g = q
    BY <1>1
  <1>4. Rgb565ToRgb(v) = <<R, G, B, 255>>
    BY DEF Rgb565ToRgb
  <1> HIDE DEF r, q, g, b
  <1>5. R \in Nat /\ R <= 255 /\ R \div 8 = r
    BY <1>2
  <1>6. G \in Nat /\ G <= 255 /\ G \div 4 = g
    BY <1>3
  <1>7. B \in Nat /\ B <= 255 /\ B \div 8 = b
    BY <1>2
  <1> HIDE DEF R, G, B
  <1>8. R \in Byte /\ G \in Byte /\ B \in Byte /\ 255 \in Byte
    BY <1>5, <1>6, <1>7 DEF Byte
  <1>9. <<R, G, B, 255>> \in Pixel
    BY <1>8, PixelIs
  <1>10. Rgb565(<<R, G, B, 255>>) = 2048 * (R \div 8) + 32 * (G \div 4) + B \div 8
    BY DEF Rgb565, Hidden
  <1>11. 2048 * (R \div 8) + 32 * (G \div 4) + B \div 8 = v
    <2>1. 2048 * r + 32 * g + b = v
      BY <1>1, <1>2, <1>3
    <2> QED
      BY <1>5, <1>6, <1>7, <2>1
  <1> QED
    BY <1>4, <1>9, <1>10, <1>11

LEMMA FullSize ==
    LET size == Fit(PanelW, PanelH) IN
    /\ size.w = PanelW /\ 2 * size.h = PanelH
    /\ \A x \in 0..(PanelW - 1) : SampleX(x, size.w) = x
    /\ \A y \in 0..(PanelH - 1) : SampleY(y, size.h) = y
  <1> DEFINE size == Fit(PanelW, PanelH)
  <1>1. PICK k \in 1..PanelW : PanelW = 10 * k /\ PanelH = 6 * k /\ MinPreviewRows <= 3 * k
    BY PanelAssumption DEF PanelAssumption
  <1>2. PanelW \in Nat \ {0} /\ PanelH \in Nat \ {0} /\ k \in Nat \ {0} /\ MinPreviewRows \in Nat
    BY <1>1, PanelAssumption DEF PanelAssumption
  <1>3. /\ (3 * PanelW) \div 10 = 3 * k /\ (10 * (3 * k)) \div 3 = 10 * k
        /\ PanelW \div 2 = 5 * k /\ PanelH \div 2 = 3 * k
    BY <1>1, <1>2
  <1>4. Lower(PanelH, 3 * k) = 3 * k /\ ~(3 * k < MinPreviewRows)
    BY <1>1, <1>2 DEF Lower
  <1>5. size = [w |-> 10 * k, h |-> 3 * k]
    BY <1>3, <1>4 DEF Fit
  <1>6. size.w = PanelW /\ 2 * size.h = PanelH
    <2> HIDE DEF size
    <2> QED
      BY <1>1, <1>2, <1>5
  <1>7. ASSUME NEW n \in Nat \ {0}, NEW m \in Nat, m < n, NEW x \in 0..(n - 1)
        PROVE  Lower((x * n + m) \div n, n - 1) = x
    <2> DEFINE a == x * n + m
    <2>1. a \in Int /\ n * x <= a /\ a < n * x + n
      <3> DEFINE p == x * n
      <3>1. p \in Int /\ n * x = p /\ a = p + m
        BY <1>7
      <3> HIDE DEF p
      <3> QED
        BY <1>7, <3>1
    <2> HIDE DEF a
    <2>2. a \div n = x
      BY <1>7, <2>1, QuotientIs
    <2> QED
      BY <2>2 DEF Lower, a
  <1> HIDE DEF size
  <1>8. \A x \in 0..(PanelW - 1) : SampleX(x, size.w) = x
    <2>1. PanelW \div 2 \in Nat /\ PanelW \div 2 < PanelW
      BY <1>1, <1>2, <1>3
    <2> QED
      BY <1>2, <1>6, <1>7, <2>1 DEF SampleX
  <1>9. \A y \in 0..(PanelH - 1) : SampleY(y, size.h) = y
    <2>1. PanelH \div 2 \in Nat /\ PanelH \div 2 < PanelH
      BY <1>1, <1>2, <1>3
    <2> QED
      BY <1>2, <1>6, <1>7, <2>1 DEF SampleY
  <1> QED
    BY <1>6, <1>8, <1>9 DEF size

LEMMA PreviewEncodesAgain ==
    ASSUME NEW shown \in [1..(PanelW * PanelH) -> Word]
    PROVE  Rgb565Encode(Render(shown, Fit(PanelW, PanelH))) = shown
  <1> DEFINE size == Fit(PanelW, PanelH)
             pixel(x, y) == Rgb565ToRgb(shown[SampleY(y, size.h) * PanelW + SampleX(x, size.w) + 1])
             px == [i \in 1..(PanelW * PanelH) |-> pixel((i - 1) % PanelW, (i - 1) \div PanelW)]
  <1>1. PanelW \in Nat /\ PanelH \in Nat
    BY PanelAssumption DEF PanelAssumption
  <1>2. /\ size.w = PanelW /\ 2 * size.h = PanelH
        /\ \A x \in 0..(PanelW - 1) : SampleX(x, size.w) = x
        /\ \A y \in 0..(PanelH - 1) : SampleY(y, size.h) = y
    BY FullSize
  <1>3. Render(shown, size) =
            [w |-> size.w, h |-> 2 * size.h,
             px |-> Held([i \in 1..(size.w * (2 * size.h)) |->
                             pixel((i - 1) % size.w, (i - 1) \div size.w)])]
    BY DEF Render, Drawn
  <1> HIDE DEF size
  <1>4. Render(shown, size) = [w |-> PanelW, h |-> PanelH, px |-> Held(px)]
    <2> HIDE DEF pixel
    <2> QED
      BY <1>2, <1>3
  <1>5. \A i \in 1..(PanelW * PanelH) : px[i] = Rgb565ToRgb(shown[i])
    <2> SUFFICES ASSUME NEW i \in 1..(PanelW * PanelH) PROVE px[i] = Rgb565ToRgb(shown[i])
      OBVIOUS
    <2> DEFINE x == (i - 1) % PanelW
               y == (i - 1) \div PanelW
    <2>1. x \in 0..(PanelW - 1) /\ y \in 0..(PanelH - 1) /\ y * PanelW + x + 1 = i
      BY <1>1, Cell
    <2>2. px[i] = pixel(x, y)
      BY DEF px
    <2> HIDE DEF x, y, px
    <2> QED
      BY <1>2, <2>1, <2>2
  <1>6. px \in [1..(PanelW * PanelH) -> Pixel]
    <2>1. \A i \in 1..(PanelW * PanelH) : px[i] \in Pixel
      <3> HIDE DEF px
      <3> QED
        BY <1>5, DecodedPixel
    <2> QED
      BY <2>1
  <1> HIDE DEF px
  <1>7. IsImage(Render(shown, size), PanelW, PanelH) /\ Render(shown, size).px = px
    BY <1>1, <1>4, <1>6, DrawnIs
  <1>8. Rgb565Encode(Render(shown, size)) = [i \in 1..(PanelW * PanelH) |-> Rgb565(px[i])]
    <2> DEFINE img == Render(shown, size)
    <2>1. IsImage(img, PanelW, PanelH) /\ img.px = px
      BY <1>7
    <2> HIDE DEF img
    <2>2. Rgb565Encode(img) = [i \in 1..(PanelW * PanelH) |-> Rgb565(img.px[i])]
      BY <1>1, <2>1, EncodedIs
    <2>3. Rgb565Encode(img) = [i \in 1..(PanelW * PanelH) |-> Rgb565(px[i])]
      BY <2>1, <2>2
    <2> QED
      BY <2>3 DEF img
  <1>9. \A i \in 1..(PanelW * PanelH) : Rgb565(px[i]) = shown[i]
    BY <1>5, DecodedPixel
  <1>10. Rgb565Encode(Render(shown, size)) = shown
    BY <1>8, <1>9
  <1> QED
    BY <1>10 DEF size

--------------------------------------------------------------------------------
(***************************************************************************)
(* Two images that differ only in what neither shows.                      *)
(***************************************************************************)
AlikePixels(p, q) == p = q \/ (Hidden(p) /\ Hidden(q))

Alike(a, b, w, h) ==
    /\ IsImage(a, w, h) /\ IsImage(b, w, h)
    /\ \A i \in 1..(w * h) : AlikePixels(a.px[i], b.px[i])

LEMMA AlikeBlackened ==
    ASSUME NEW p, NEW q, AlikePixels(p, q) PROVE Blackened(p) = Blackened(q)
  BY DEF AlikePixels, Blackened

LEMMA AlikeNearest ==
    ASSUME NEW sw \in Nat \ {0}, NEW sh \in Nat \ {0}, NEW a, NEW b, Alike(a, b, sw, sh),
           NEW w \in Nat, NEW h \in Nat
    PROVE  Alike(Nearest(a, w, h), Nearest(b, w, h), w, h)
  <1> DEFINE u(i) == ((2 * ((i - 1) % w) + 1) * sw) \div (2 * w)
             v(i) == ((2 * ((i - 1) \div w) + 1) * sh) \div (2 * h)
             px(img) == [i \in 1..(w * h) |-> At(img, u(i), v(i))]
             n == w * h
  <1>1. ASSUME NEW img, IsImage(img, sw, sh)
        PROVE  IsImage(Nearest(img, w, h), w, h) /\ Nearest(img, w, h).px = px(img)
    <2>1. img.w = sw /\ img.h = sh
      BY <1>1 DEF IsImage
    <2>2. IsImage(Nearest(img, w, h), w, h)
      BY <1>1, <2>1, NearestIs
    <2>3. Nearest(img, w, h).px = Held(px(img))
      BY <2>1 DEF Nearest, Drawn
    <2>4. px(img) \in [1..(w * h) -> Pixel]
      <3>1. ASSUME NEW i \in 1..(w * h) PROVE At(img, u(i), v(i)) \in Pixel
        <4>1. (i - 1) % w \in 0..(w - 1) /\ (i - 1) \div w \in 0..(h - 1)
          BY Cell
        <4>2. u(i) \in 0..(sw - 1) /\ v(i) \in 0..(sh - 1)
          BY <4>1, Covers
        <4> HIDE DEF u, v
        <4> QED
          BY <1>1, <4>2, AtIs
      <3> QED
        BY <3>1
    <2> HIDE DEF px
    <2>5. Held(px(img)) = px(img)
      BY <2>4, DrawnIs
    <2> QED
      BY <2>2, <2>3, <2>5
  <1>2. IsImage(a, sw, sh) /\ IsImage(b, sw, sh)
    BY DEF Alike
  <1>3. ASSUME NEW i \in 1..(w * h)
        PROVE  AlikePixels(px(a)[i], px(b)[i])
    <2>1. (i - 1) % w \in 0..(w - 1) /\ (i - 1) \div w \in 0..(h - 1)
      BY Cell
    <2>2. u(i) \in 0..(sw - 1) /\ v(i) \in 0..(sh - 1)
      BY <2>1, Covers
    <2>3. px(a)[i] = At(a, u(i), v(i)) /\ px(b)[i] = At(b, u(i), v(i))
      OBVIOUS
    <2> HIDE DEF u, v, px
    <2>4. v(i) * sw + u(i) + 1 \in 1..(sw * sh) /\ a.w = sw /\ b.w = sw
      BY <1>2, <2>2, Spot DEF IsImage
    <2> QED
      BY <2>3, <2>4 DEF At, Alike
  <1> HIDE DEF px
  <1> QED
    BY <1>1, <1>2, <1>3 DEF Alike

LEMMA AlikeTurned ==
    ASSUME NEW sw \in Nat \ {0}, NEW sh \in Nat \ {0}, NEW a, NEW b, Alike(a, b, sw, sh)
    PROVE  Alike(QuarterTurn(a), QuarterTurn(b), sh, sw)
  <1> DEFINE u(i) == (i - 1) \div sh
             v(i) == sh - 1 - ((i - 1) % sh)
             px(img) == [i \in 1..(sh * sw) |-> At(img, u(i), v(i))]
  <1>1. \A i \in 1..(sh * sw) : u(i) \in 0..(sw - 1) /\ v(i) \in 0..(sh - 1)
    <2> SUFFICES ASSUME NEW i \in 1..(sh * sw) PROVE u(i) \in 0..(sw - 1) /\ v(i) \in 0..(sh - 1)
      OBVIOUS
    <2> DEFINE r == (i - 1) % sh
    <2>1. r \in 0..(sh - 1) /\ (i - 1) \div sh \in 0..(sw - 1)
      BY Cell
    <2>2. sh - 1 - r \in 0..(sh - 1)
      <3> HIDE DEF r
      <3> QED
        BY <2>1
    <2> QED
      BY <2>1, <2>2
  <1>2. ASSUME NEW img, IsImage(img, sw, sh)
        PROVE  IsImage(QuarterTurn(img), sh, sw) /\ QuarterTurn(img).px = px(img)
    <2>1. img.w = sw /\ img.h = sh
      BY <1>2 DEF IsImage
    <2>2. IsImage(QuarterTurn(img), sh, sw)
      BY <1>2, <2>1, TurnedIs
    <2>3. QuarterTurn(img).px = Held(px(img))
      BY <2>1 DEF QuarterTurn, Drawn
    <2>4. px(img) \in [1..(sh * sw) -> Pixel]
      <3> HIDE DEF u, v
      <3>1. \A i \in 1..(sh * sw) : At(img, u(i), v(i)) \in Pixel
        BY <1>1, <1>2, AtIs
      <3> QED
        BY <3>1
    <2> HIDE DEF px
    <2>5. Held(px(img)) = px(img)
      BY <2>4, DrawnIs
    <2> QED
      BY <2>2, <2>3, <2>5
  <1>3. IsImage(a, sw, sh) /\ IsImage(b, sw, sh)
    BY DEF Alike
  <1> HIDE DEF u, v
  <1>4. ASSUME NEW i \in 1..(sh * sw)
        PROVE  AlikePixels(px(a)[i], px(b)[i])
    <2>1. px(a)[i] = At(a, u(i), v(i)) /\ px(b)[i] = At(b, u(i), v(i))
      OBVIOUS
    <2> HIDE DEF px
    <2>2. v(i) * sw + u(i) + 1 \in 1..(sw * sh) /\ a.w = sw /\ b.w = sw
      BY <1>1, <1>3, Spot DEF IsImage
    <2> QED
      BY <2>1, <2>2 DEF At, Alike
  <1> HIDE DEF px
  <1> QED
    BY <1>2, <1>3, <1>4 DEF Alike

LEMMA AlikeMapped ==
    ASSUME NEW w \in Nat, NEW h \in Nat, NEW a, NEW b, Alike(a, b, w, h)
    PROVE  /\ EachPixel(a, Blackened) = EachPixel(b, Blackened)
           /\ FlattenOntoBlack(a) = FlattenOntoBlack(b)
           /\ a.w = b.w /\ a.h = b.h
  <1>1. IsImage(a, w, h) /\ IsImage(b, w, h)
    BY DEF Alike
  <1>2. a.w = w /\ b.w = w /\ a.h = h /\ b.h = h
    BY <1>1 DEF IsImage
  <1>3. DOMAIN a.px = 1..(w * h) /\ DOMAIN b.px = 1..(w * h)
        /\ \A i \in 1..(w * h) : a.px[i] \in Pixel /\ b.px[i] \in Pixel
    BY <1>1 DEF IsImage
  <1>4. ASSUME NEW p \in Pixel, NEW q \in Pixel, AlikePixels(p, q)
        PROVE  Flattened(p) = Flattened(q)
    <2>1. CASE p = q
      BY <2>1
    <2>2. CASE Hidden(p) /\ Hidden(q)
      <3>1. \A c \in Int : (c * 0) \div 255 = 0
        OBVIOUS
      <3>2. /\ p[1] \in Int /\ p[2] \in Int /\ p[3] \in Int
            /\ q[1] \in Int /\ q[2] \in Int /\ q[3] \in Int
        BY PixelIs
      <3>3. Flattened(p) = <<0, 0, 0, 255>> /\ Flattened(q) = <<0, 0, 0, 255>>
        BY <2>2, <3>1, <3>2 DEF Flattened, Hidden
      <3> QED
        BY <3>3
    <2> QED
      BY <1>4, <2>1, <2>2 DEF AlikePixels
  <1>5. \A i \in 1..(w * h) : /\ Blackened(a.px[i]) = Blackened(b.px[i])
                              /\ Flattened(a.px[i]) = Flattened(b.px[i])
    BY <1>3, <1>4, AlikeBlackened DEF Alike
  <1>6. [i \in DOMAIN a.px |-> Blackened(a.px[i])] = [i \in DOMAIN b.px |-> Blackened(b.px[i])]
    BY <1>3, <1>5
  <1>7. [i \in DOMAIN a.px |-> Flattened(a.px[i])] = [i \in DOMAIN b.px |-> Flattened(b.px[i])]
    BY <1>3, <1>5
  <1>8. \A s : [a EXCEPT !.px = s] = [b EXCEPT !.px = s]
    BY <1>1 DEF IsImage
  <1>9. EachPixel(a, Blackened) = EachPixel(b, Blackened)
    BY <1>6, <1>8 DEF EachPixel
  <1>10. FlattenOntoBlack(a) = FlattenOntoBlack(b)
    BY <1>7, <1>8 DEF FlattenOntoBlack, EachPixel
  <1> QED
    BY <1>2, <1>9, <1>10

LEMMA AlikeContained ==
    ASSUME NEW w \in Nat, NEW h \in Nat, NEW a, NEW b, Alike(a, b, w, h)
    PROVE  Contain(a) = Contain(b)
  <1>1. EachPixel(a, Blackened) = EachPixel(b, Blackened) /\ a.w = b.w /\ a.h = b.h
    BY AlikeMapped
  <1> QED
    BY <1>1 DEF Contain

LEMMA AlikeEncoded ==
    ASSUME NEW w \in Nat, NEW h \in Nat, NEW a, NEW b, Alike(a, b, w, h), NEW adj
    PROVE  AdjustAndEncode(a, adj) = AdjustAndEncode(b, adj)
  <1>1. IsImage(a, w, h) /\ IsImage(b, w, h)
    BY DEF Alike
  <1>2. DOMAIN a.px = 1..(w * h) /\ DOMAIN b.px = 1..(w * h)
    BY <1>1 DEF IsImage
  <1>3. CASE adj = NoAdjustments
    <2>1. \A i \in 1..(w * h) : Rgb565(a.px[i]) = Rgb565(b.px[i])
      BY DEF Alike, AlikePixels, Rgb565
    <2>2. [i \in DOMAIN a.px |-> Rgb565(a.px[i])] = [i \in DOMAIN b.px |-> Rgb565(b.px[i])]
      BY <1>2, <2>1
    <2>3. ApplyAdjustments(a, adj) = a /\ ApplyAdjustments(b, adj) = b
      BY <1>3 DEF ApplyAdjustments
    <2> QED
      BY <2>2, <2>3 DEF AdjustAndEncode, Rgb565Encode
  <1>4. CASE adj # NoAdjustments
    <2> DEFINE coloured(img) == EachPixel(img, LAMBDA p : Recolour(Blackened(p), adj))
               sharp(img) == IF "Sharpen" \in adj.on THEN Sharpen(coloured(img)) ELSE coloured(img)
    <2>1. coloured(a) = coloured(b)
      <3>1. \A i \in 1..(w * h) : Blackened(a.px[i]) = Blackened(b.px[i])
        BY AlikeBlackened DEF Alike
      <3>2. [i \in DOMAIN a.px |-> Recolour(Blackened(a.px[i]), adj)]
                = [i \in DOMAIN b.px |-> Recolour(Blackened(b.px[i]), adj)]
        BY <1>2, <3>1
      <3>3. \A s : [a EXCEPT !.px = s] = [b EXCEPT !.px = s]
        BY <1>1 DEF IsImage
      <3> QED
        BY <3>2, <3>3 DEF EachPixel
    <2>2. ApplyAdjustments(a, adj) = IF "Blur" \in adj.on THEN Blur(sharp(a)) ELSE sharp(a)
      BY <1>4 DEF ApplyAdjustments
    <2>3. ApplyAdjustments(b, adj) = IF "Blur" \in adj.on THEN Blur(sharp(b)) ELSE sharp(b)
      BY <1>4 DEF ApplyAdjustments
    <2> HIDE DEF coloured
    <2>4. sharp(a) = sharp(b)
      BY <2>1
    <2> HIDE DEF sharp
    <2> QED
      BY <2>2, <2>3, <2>4 DEF AdjustAndEncode
  <1> QED
    BY <1>3, <1>4

--------------------------------------------------------------------------------
(***************************************************************************)
(* The invariant: the panel is always the file's own picture, placed as    *)
(* last asked, and what is sent was encoded from it and nothing else.      *)
(***************************************************************************)
AllSettings == [brightness : Int, chroma : Int, saturation : Int, on : SUBSET Switches]

PictureInv ==
    /\ stage \in {"idle", "asked", "planned", "failed"}
    /\ picture \in Pictures /\ placement \in Placements /\ adjustments \in AllSettings
    /\ Loaded => /\ panel_rgba = Load(picture, placement)
                 /\ pixels = AdjustAndEncode(panel_rgba, adjustments)

PlansInv == PlannerInv /\ PictureInv

LEMMA SettingsAre ==
    /\ Settings \subseteq AllSettings
    /\ NoAdjustments \in AllSettings
    /\ \A adj \in AllSettings :
          /\ IsSetting(adj) /\ DOMAIN adj = Sliders \cup {"on"} /\ adj.on \subseteq Switches
          /\ \A s \in Sliders, v \in Values : [adj EXCEPT ![s] = v] \in AllSettings
          /\ \A s \in Switches : [adj EXCEPT !.on = (@ \cup {s}) \ (@ \cap {s})] \in AllSettings
  <1>1. Values \subseteq Int
    BY PictureAssumption DEF PictureAssumption
  <1>2. Settings \subseteq AllSettings
    BY <1>1 DEF Settings, AllSettings
  <1>3. NoAdjustments \in AllSettings
    BY DEF NoAdjustments, AllSettings
  <1>4. ASSUME NEW adj \in AllSettings
        PROVE  /\ IsSetting(adj) /\ DOMAIN adj = Sliders \cup {"on"} /\ adj.on \subseteq Switches
               /\ \A s \in Sliders, v \in Values : [adj EXCEPT ![s] = v] \in AllSettings
               /\ \A s \in Switches : [adj EXCEPT !.on = (@ \cup {s}) \ (@ \cap {s})] \in AllSettings
    <2>1. IsSetting(adj) /\ adj.on \subseteq Switches
      BY DEF AllSettings, IsSetting
    <2>2. DOMAIN adj = Sliders \cup {"on"}
      BY DEF AllSettings, Sliders
    <2>3. ASSUME NEW s \in Sliders, NEW v \in Values PROVE [adj EXCEPT ![s] = v] \in AllSettings
      BY <1>1 DEF AllSettings, Sliders
    <2>4. ASSUME NEW s \in Switches
          PROVE  [adj EXCEPT !.on = (@ \cup {s}) \ (@ \cap {s})] \in AllSettings
      BY DEF AllSettings
    <2> QED
      BY <2>1, <2>2, <2>3, <2>4
  <1> QED
    BY <1>2, <1>3, <1>4

LEMMA PictureInitial ==
    ASSUME NEW planning \in BOOLEAN, PictureInit(planning) PROVE PictureInv
  <1>1. Pictures # {}
    BY PictureAssumption DEF PictureAssumption
  <1>2. stage \in {"idle", "asked"} /\ picture \in Pictures /\ placement \in Placements
    BY <1>1 DEF PictureInit, Placements
  <1>3. adjustments \in AllSettings
    BY SettingsAre DEF PictureInit
  <1> QED
    BY <1>2, <1>3 DEF PictureInv, Loaded

LEMMA PlansInitial == PlansInit => PlansInv
  <1>1. PlansInit => PictureInit(TRUE) \/ PictureInit(FALSE)
    BY DEF PlansInit
  <1>2. PlansInit => PictureInv
    BY <1>1, PictureInitial
  <1> QED
    BY <1>2, PlansPlannerInitial DEF PlansInv

LEMMA PictureStep == PictureInv /\ [PictureNext]_pictureVars => PictureInv'
  <1> SUFFICES ASSUME PictureInv, [PictureNext]_pictureVars PROVE PictureInv'
    OBVIOUS
  <1> USE DEF PictureInv, Loaded
  <1>1. CASE PlanPicture
    BY <1>1 DEF PlanPicture
  <1>2. CASE PlanPictureFails
    BY <1>2 DEF PlanPictureFails
  <1>3. CASE ReencodePicture
    <2>1. adjustments' \in AllSettings
      BY <1>3, SettingsAre DEF ReencodePicture, Edits
    <2> QED
      BY <1>3, <2>1 DEF ReencodePicture
  <1>4. CASE ReplanPicture
    BY <1>4 DEF ReplanPicture
  <1>5. CASE PictureOver
    BY <1>5 DEF PictureOver, pictureVars
  <1>6. CASE UNCHANGED pictureVars
    BY <1>6 DEF pictureVars
  <1> QED
    BY <1>1, <1>2, <1>3, <1>4, <1>5, <1>6 DEF PictureNext

LEMMA PlansStep == PlansInv /\ [PlansNext]_<<vars, pictureVars>> => PlansInv'
  <1>1. [PlansNext]_<<vars, pictureVars>> => [PictureNext]_pictureVars
    BY DEF PlansNext, PlanGif, PlanAPicture
  <1> QED
    BY <1>1, PictureStep, PlansPlannerStep DEF PlansInv

--------------------------------------------------------------------------------
(***************************************************************************)
(* What follows from it for a picture.                                     *)
(***************************************************************************)
LEMMA SameFollows == PictureInv => SameEverywhere
  <1> SUFFICES ASSUME PictureInv, Loaded
               PROVE  /\ pixels = AdjustAndEncode(Load(picture, placement), adjustments)
                      /\ Rgb565Encode(Render(pixels, Fit(PanelW, PanelH))) = pixels
    BY DEF SameEverywhere
  <1> DEFINE panel == Load(picture, placement)
             adjusted == ApplyAdjustments(panel, adjustments)
  <1>1. pixels = AdjustAndEncode(panel, adjustments)
    BY DEF PictureInv
  <1>2. PanelW \in Nat /\ PanelH \in Nat
    BY PanelAssumption DEF PanelAssumption
  <1>3. IsImage(panel, PanelW, PanelH)
    BY LoadIs DEF PictureInv
  <1>4. IsImage(adjusted, PanelW, PanelH)
    <2>1. IsSetting(adjustments)
      BY SettingsAre DEF PictureInv
    <2> HIDE DEF panel
    <2> QED
      BY <1>2, <1>3, <2>1, AdjustedType
  <1>5. pixels = Rgb565Encode(adjusted)
    BY <1>1 DEF AdjustAndEncode
  <1> HIDE DEF adjusted
  <1>6. pixels \in [1..(PanelW * PanelH) -> Word]
    BY <1>2, <1>4, <1>5, EncodedIs
  <1> QED
    BY <1>1, <1>6, PreviewEncodesAgain

LEMMA PictureTypeFollows == PictureInv => PictureTypeOK
  <1> SUFFICES ASSUME PictureInv PROVE PictureTypeOK
    OBVIOUS
  <1>1. /\ DOMAIN adjustments = Sliders \cup {"on"} /\ adjustments.on \subseteq Switches
        /\ IsSetting(adjustments)
    BY SettingsAre DEF PictureInv
  <1>2. PanelW \in Nat /\ PanelH \in Nat
    BY PanelAssumption DEF PanelAssumption
  <1>3. ASSUME Loaded
        PROVE  /\ panel_rgba.w = PanelW /\ panel_rgba.h = PanelH
               /\ DOMAIN panel_rgba.px = 1..(PanelW * PanelH)
               /\ \A i \in DOMAIN panel_rgba.px, c \in 1..4 : panel_rgba.px[i][c] \in Byte
               /\ DOMAIN pixels = 1..(PanelW * PanelH)
               /\ \A i \in DOMAIN pixels : pixels[i] \in Word
    <2> DEFINE adjusted == ApplyAdjustments(panel_rgba, adjustments)
    <2>1. IsImage(panel_rgba, PanelW, PanelH)
      BY <1>3, LoadIs DEF PictureInv
    <2>2. panel_rgba.px \in [1..(PanelW * PanelH) -> Pixel]
      BY <2>1 DEF IsImage
    <2>3. \A i \in 1..(PanelW * PanelH) : panel_rgba.px[i] \in Pixel
      BY <2>2
    <2>4. IsImage(adjusted, PanelW, PanelH)
      BY <1>1, <1>2, <2>1, AdjustedType
    <2>5. pixels = Rgb565Encode(adjusted)
      BY <1>3 DEF AdjustAndEncode, PictureInv
    <2> HIDE DEF adjusted
    <2>6. pixels \in [1..(PanelW * PanelH) -> Word]
      BY <1>2, <2>4, <2>5, EncodedIs
    <2> QED
      BY <2>1, <2>2, <2>3, <2>6, PixelIs DEF IsImage
  <1> QED
    BY <1>1, <1>3 DEF PictureInv, PictureTypeOK, Loaded

LEMMA HiddenFollows == PictureInv => HiddenColourStaysHidden
  <1> DEFINE dyed(p) == IF Hidden(p) THEN <<255 - p[1], 255, 255 - p[3], 0>> ELSE p
             img == picture.image
             dpx == [i \in DOMAIN img.px |-> dyed(img.px[i])]
             dimg == EachPixel(img, dyed)
             other == [picture EXCEPT !.image = dimg]
             w == img.w
             h == img.h
  <1> SUFFICES ASSUME PictureInv, Loaded
               PROVE  pixels = AdjustAndEncode(Load(other, placement), adjustments)
    BY DEF HiddenColourStaysHidden
  <1>1. picture \in Pictures /\ placement \in Placements
        /\ pixels = AdjustAndEncode(Load(picture, placement), adjustments)
    BY DEF PictureInv
  <1>2. w \in Nat \ {0} /\ h \in Nat \ {0} /\ IsImage(img, w, h)
    BY <1>1, PictureIs
  <1>3. /\ other.image = dimg /\ (other.gif <=> picture.gif) /\ (other.turned <=> picture.turned)
    <2>1. picture \in [image : [w : Nat \ {0}, h : Nat \ {0}, px : Seq(Pixel)],
                       turned : BOOLEAN, gif : BOOLEAN, broken : BOOLEAN]
      BY <1>1, PictureAssumption DEF PictureAssumption
    <2> HIDE DEF dimg
    <2> QED
      BY <2>1
  <1>4. \A p \in Pixel : dyed(p) \in Pixel /\ AlikePixels(p, dyed(p))
    <2> SUFFICES ASSUME NEW p \in Pixel PROVE dyed(p) \in Pixel /\ AlikePixels(p, dyed(p))
      OBVIOUS
    <2>1. \A c \in Byte : 255 - c \in Byte
      BY DEF Byte
    <2>2. 0 \in Byte /\ 255 \in Byte
      BY DEF Byte
    <2>3. p[1] \in Byte /\ p[3] \in Byte
      BY PixelIs
    <2>4. <<255 - p[1], 255, 255 - p[3], 0>> \in Pixel
      BY <2>1, <2>2, <2>3, PixelIs
    <2>5. Hidden(<<255 - p[1], 255, 255 - p[3], 0>>)
      BY DEF Hidden
    <2> QED
      BY <2>4, <2>5 DEF AlikePixels
  <1>5. dimg = [img EXCEPT !.px = Held(dpx)]
    BY DEF EachPixel
  <1> HIDE DEF dyed, dimg, img
  <1>6. Alike(img, dimg, w, h)
    <2>1. img.px \in [1..(w * h) -> Pixel]
      BY <1>2 DEF IsImage
    <2>2. dpx \in [1..(w * h) -> Pixel] /\ \A i \in 1..(w * h) : dpx[i] = dyed(img.px[i])
      BY <1>4, <2>1
    <2> HIDE DEF dpx
    <2>3. IsImage(dimg, w, h) /\ dimg.px = dpx
      <3> HIDE DEF w, h
      <3>1. w \in Nat /\ h \in Nat
        BY <1>2
      <3> QED
        BY <1>2, <1>5, <2>2, <3>1, MappedIs
    <2>4. \A i \in 1..(w * h) : AlikePixels(img.px[i], dimg.px[i])
      BY <1>4, <2>1, <2>2, <2>3
    <2> QED
      BY <1>2, <2>3, <2>4 DEF Alike
  <1> HIDE DEF other, w, h
  <1> DEFINE a == Upright(picture)
             b == Upright(other)
  <1>7. a = b \/ \E sw, sh \in Nat \ {0} : Alike(a, b, sw, sh)
    <2>1. CASE picture.gif
      <3>1. FlattenOntoBlack(img) = FlattenOntoBlack(dimg)
        BY <1>2, <1>6, AlikeMapped
      <3> QED
        BY <1>3, <2>1, <3>1 DEF Upright, img
    <2>2. CASE ~picture.gif /\ picture.turned
      <3>1. Alike(QuarterTurn(img), QuarterTurn(dimg), h, w)
        BY <1>2, <1>6, AlikeTurned
      <3>2. a = QuarterTurn(img) /\ b = QuarterTurn(dimg)
        BY <1>3, <2>2 DEF Upright, img
      <3> HIDE DEF a, b
      <3> QED
        BY <1>2, <3>1, <3>2
    <2>3. CASE ~picture.gif /\ ~picture.turned
      <3>1. a = img /\ b = dimg
        BY <1>3, <2>3 DEF Upright, img
      <3> HIDE DEF a, b
      <3> QED
        BY <1>2, <1>6, <3>1
    <2> QED
      BY <2>1, <2>2, <2>3
  <1>8. Load(picture, placement) = ResizeToPanel(a, placement)
        /\ Load(other, placement) = ResizeToPanel(b, placement)
    BY DEF Load
  <1> HIDE DEF a, b
  <1>9. PanelW \in Nat /\ PanelH \in Nat
    BY PanelAssumption DEF PanelAssumption
  <1>10. AdjustAndEncode(ResizeToPanel(a, placement), adjustments)
             = AdjustAndEncode(ResizeToPanel(b, placement), adjustments)
    <2>1. CASE a = b
      BY <2>1
    <2>2. ASSUME NEW sw \in Nat \ {0}, NEW sh \in Nat \ {0}, Alike(a, b, sw, sh)
          PROVE  AdjustAndEncode(ResizeToPanel(a, placement), adjustments)
                     = AdjustAndEncode(ResizeToPanel(b, placement), adjustments)
      <3>1. Contain(a) = Contain(b)
        BY <2>2, AlikeContained
      <3>2. Alike(Nearest(a, PanelW, PanelH), Nearest(b, PanelW, PanelH), PanelW, PanelH)
        BY <1>9, <2>2, AlikeNearest
      <3>3. AdjustAndEncode(Nearest(a, PanelW, PanelH), adjustments)
                = AdjustAndEncode(Nearest(b, PanelW, PanelH), adjustments)
        BY <1>9, <3>2, AlikeEncoded
      <3> QED
        BY <3>1, <3>3 DEF ResizeToPanel
    <2> QED
      BY <1>7, <2>1, <2>2
  <1> QED
    BY <1>1, <1>8, <1>10

\* One side is from edge to edge, the other is k of the P, after a margin of m.
LEMMA FitsSo ==
    ASSUME NEW P \in Nat, NEW m \in Nat, NEW k \in Nat, m + k <= P, 2 * m + k - P \in -1..1
    PROVE  /\ Cardinality(m..(m + k - 1)) = k
           /\ \E lo, hi \in 0..P : m..(m + k - 1) = lo..(hi - 1) /\ lo - (P - hi) \in -1..1
  <1>1. Cardinality(m..(m + k - 1)) = k
    <2>1. m \in Int /\ m + k - 1 \in Int
      OBVIOUS
    <2>2. Cardinality(m..(m + k - 1)) = IF m > m + k - 1 THEN 0 ELSE (m + k - 1) - m + 1
      BY <2>1, FS_Interval
    <2> QED
      BY <2>2
  <1> DEFINE hi == m + k
  <1>2. m \in 0..P /\ hi \in 0..P /\ m - (P - hi) \in -1..1 /\ m + k - 1 = hi - 1
    OBVIOUS
  <1>3. \E lo, up \in 0..P : m..(hi - 1) = lo..(up - 1) /\ lo - (P - up) \in -1..1
    <2> HIDE DEF hi
    <2> QED
      BY <1>2
  <1>4. m..(m + k - 1) = m..(hi - 1)
    BY <1>2
  <1> QED
    BY <1>1, <1>3, <1>4

LEMMA FitsFollows == PictureInv => PictureFits
  <1> DEFINE src == Upright(picture)
             lit(x, y) == pixels[y * PanelW + x + 1] # 0
             Columns == {x \in 0..(PanelW - 1) : \E y \in 0..(PanelH - 1) : lit(x, y)}
             Rows == {y \in 0..(PanelH - 1) : \E x \in 0..(PanelW - 1) : lit(x, y)}
             EdgeToEdge(S, size) == S = 0..(size - 1)
             InTheMiddle(S, size) ==
                 \E lo, hi \in 0..size : S = lo..(hi - 1) /\ lo - (size - hi) \in -1..1
             InProportion(S, size, of, per) ==
                 2 * per * Cardinality(S) - 2 * size * of \in -per..per
             Contained(Long, length, from, Narrow, width, side) ==
                 /\ InProportion(Narrow, length, side, from)
                 /\ Narrow # {} => EdgeToEdge(Long, length) /\ InTheMiddle(Narrow, width)
  <1> SUFFICES ASSUME PictureInv, Loaded, Plain(picture)
               PROVE  /\ \A x \in Columns, y \in Rows : lit(x, y)
                      /\ IF placement = "fill"
                         THEN EdgeToEdge(Columns, PanelW) /\ EdgeToEdge(Rows, PanelH)
                         ELSE \/ Contained(Columns, PanelW, src.w, Rows, PanelH, src.h)
                              \/ Contained(Rows, PanelH, src.h, Columns, PanelW, src.w)
    BY DEF PictureFits
  <1> DEFINE panel == ResizeToPanel(src, placement)
  <1>1. picture \in Pictures /\ placement \in Placements /\ adjustments = NoAdjustments
        /\ IsWhite(picture.image)
    BY DEF PictureInv, Plain, IsWhite
  <1>2. src.w \in Nat \ {0} /\ src.h \in Nat \ {0} /\ IsImage(src, src.w, src.h) /\ IsWhite(src)
    BY <1>1, UprightIs
  <1>3. PanelW \in Nat \ {0} /\ PanelH \in Nat \ {0} /\ PanelW \in Nat /\ PanelH \in Nat
    BY PanelAssumption DEF PanelAssumption
  <1>4. IsImage(panel, PanelW, PanelH)
    BY <1>1, LoadIs DEF Load
  <1>5. pixels = Rgb565Encode(panel)
    BY <1>1 DEF PictureInv, AdjustAndEncode, ApplyAdjustments, Load
  <1> HIDE DEF panel, src
  <1>6. ASSUME NEW x \in 0..(PanelW - 1), NEW y \in 0..(PanelH - 1)
        PROVE  pixels[y * PanelW + x + 1] = Rgb565(At(panel, x, y))
    <2>1. pixels = [i \in 1..(PanelW * PanelH) |-> Rgb565(panel.px[i])]
      BY <1>3, <1>4, <1>5, EncodedIs
    <2>2. y * PanelW + x + 1 \in 1..(PanelW * PanelH)
      BY <1>3, Spot
    <2>3. At(panel, x, y) = panel.px[y * PanelW + x + 1]
      BY <1>4 DEF At, IsImage
    <2> QED
      BY <2>1, <2>2, <2>3
  <1>7. Rgb565(White) # 0 /\ Rgb565(Black) = 0
    <2>1. 255 \div 8 = 31 /\ 255 \div 4 = 63 /\ 0 \div 8 = 0 /\ 0 \div 4 = 0
      OBVIOUS
    <2> QED
      BY <2>1 DEF Rgb565, Hidden, White, Black
  <1>8. 0 \in 0..(PanelW - 1) /\ 0 \in 0..(PanelH - 1)
    BY <1>3
  <1>9. CASE placement = "fill"
    <2>1. panel = Nearest(src, PanelW, PanelH)
      BY <1>9 DEF panel, ResizeToPanel
    <2>2. IsWhite(panel)
      BY <1>2, <1>3, <2>1, NearestIs
    <2>3. \A x \in 0..(PanelW - 1), y \in 0..(PanelH - 1) : At(panel, x, y) = White
      <3> SUFFICES ASSUME NEW x \in 0..(PanelW - 1), NEW y \in 0..(PanelH - 1)
                   PROVE  At(panel, x, y) = White
        OBVIOUS
      <3>1. y * PanelW + x + 1 \in 1..(PanelW * PanelH)
        BY <1>3, Spot
      <3> QED
        BY <1>4, <2>2, <3>1 DEF At, IsImage, IsWhite
    <2>4. \A x \in 0..(PanelW - 1), y \in 0..(PanelH - 1) : lit(x, y)
      BY <1>6, <1>7, <2>3
    <2> HIDE DEF lit
    <2>5. Columns = 0..(PanelW - 1) /\ Rows = 0..(PanelH - 1)
      BY <1>8, <2>4
    <2> QED
      BY <1>9, <2>4, <2>5
  <1>10. CASE placement # "fill"
    <2> DEFINE to == ContainGeometry(src.w, src.h)
    <2>1. panel = Contain(src)
      BY <1>10 DEF panel, ResizeToPanel
    <2>2. /\ to.x \in Nat /\ to.y \in Nat /\ to.w \in Nat /\ to.h \in Nat
          /\ to.x + to.w <= PanelW /\ to.y + to.h <= PanelH
          /\ \/ /\ to.x = 0 /\ to.w = PanelW
                /\ 2 * to.y + to.h - PanelH \in -1..1
                /\ 2 * src.w * to.h - 2 * PanelW * src.h \in -src.w..src.w
             \/ /\ to.y = 0 /\ to.h = PanelH
                /\ 2 * to.x + to.w - PanelW \in -1..1
                /\ 2 * src.h * to.w - 2 * PanelH * src.w \in -src.h..src.h
      BY <1>2, GeometryIs
    <2>3. \A x \in 0..(PanelW - 1), y \in 0..(PanelH - 1) :
             At(Contain(src), x, y) =
                 IF x \in to.x..(to.x + to.w - 1) /\ y \in to.y..(to.y + to.h - 1)
                 THEN White ELSE Black
      BY <1>2, ContainIs
    <2> HIDE DEF to
    <2>4. \A x \in 0..(PanelW - 1), y \in 0..(PanelH - 1) :
             lit(x, y) <=> x \in to.x..(to.x + to.w - 1) /\ y \in to.y..(to.y + to.h - 1)
      BY <1>6, <1>7, <2>1, <2>3
    <2> HIDE DEF lit
    <2>5. /\ to.x..(to.x + to.w - 1) \subseteq 0..(PanelW - 1)
          /\ to.y..(to.y + to.h - 1) \subseteq 0..(PanelH - 1)
      BY <1>3, <2>2
    <2>6. \A x \in Columns, y \in Rows : lit(x, y)
      BY <2>4
    <2>7. CASE /\ to.x = 0 /\ to.w = PanelW
               /\ 2 * to.y + to.h - PanelH \in -1..1
               /\ 2 * src.w * to.h - 2 * PanelW * src.h \in -src.w..src.w
      <3>1. to.x..(to.x + to.w - 1) = 0..(PanelW - 1)
        BY <1>3, <2>7
      <3>2. Rows = to.y..(to.y + to.h - 1)
        BY <1>8, <2>4, <2>5, <3>1
      <3>3. Rows # {} => EdgeToEdge(Columns, PanelW)
        BY <2>4, <2>5, <3>1, <3>2
      <3>4. Cardinality(Rows) = to.h /\ InTheMiddle(Rows, PanelH)
        <4> DEFINE m == to.y
                   k == to.h
        <4>1. PanelH \in Nat /\ m \in Nat /\ k \in Nat /\ m + k <= PanelH /\ 2 * m + k - PanelH \in -1..1
          BY <1>3, <2>2, <2>7
        <4>2. Rows = m..(m + k - 1)
          BY <3>2
        <4> HIDE DEF Rows, m, k
        <4>3. /\ Cardinality(m..(m + k - 1)) = k
              /\ \E lo, hi \in 0..PanelH : m..(m + k - 1) = lo..(hi - 1) /\ lo - (PanelH - hi) \in -1..1
          BY <4>1, FitsSo
        <4>4. Cardinality(Rows) = k /\ InTheMiddle(Rows, PanelH)
          BY <4>2, <4>3
        <4> QED
          BY <4>4 DEF k
      <3>5. InProportion(Rows, PanelW, src.h, src.w)
        <4> HIDE DEF Rows
        <4> QED
          BY <2>7, <3>4
      <3> HIDE DEF Rows, Columns, EdgeToEdge, InTheMiddle, InProportion
      <3>6. Contained(Columns, PanelW, src.w, Rows, PanelH, src.h)
        BY <3>3, <3>4, <3>5
      <3> HIDE DEF Contained
      <3> QED
        BY <1>10, <2>6, <3>6
    <2>8. CASE /\ to.y = 0 /\ to.h = PanelH
               /\ 2 * to.x + to.w - PanelW \in -1..1
               /\ 2 * src.h * to.w - 2 * PanelH * src.w \in -src.h..src.h
      <3>1. to.y..(to.y + to.h - 1) = 0..(PanelH - 1)
        BY <1>3, <2>8
      <3>2. Columns = to.x..(to.x + to.w - 1)
        BY <1>8, <2>4, <2>5, <3>1
      <3>3. Columns # {} => EdgeToEdge(Rows, PanelH)
        BY <2>4, <2>5, <3>1, <3>2
      <3>4. Cardinality(Columns) = to.w /\ InTheMiddle(Columns, PanelW)
        <4> DEFINE m == to.x
                   k == to.w
        <4>1. PanelW \in Nat /\ m \in Nat /\ k \in Nat /\ m + k <= PanelW /\ 2 * m + k - PanelW \in -1..1
          BY <1>3, <2>2, <2>8
        <4>2. Columns = m..(m + k - 1)
          BY <3>2
        <4> HIDE DEF Columns, m, k
        <4>3. /\ Cardinality(m..(m + k - 1)) = k
              /\ \E lo, hi \in 0..PanelW : m..(m + k - 1) = lo..(hi - 1) /\ lo - (PanelW - hi) \in -1..1
          BY <4>1, FitsSo
        <4>4. Cardinality(Columns) = k /\ InTheMiddle(Columns, PanelW)
          BY <4>2, <4>3
        <4> QED
          BY <4>4 DEF k
      <3>5. InProportion(Columns, PanelH, src.w, src.h)
        <4> HIDE DEF Columns
        <4> QED
          BY <2>8, <3>4
      <3> HIDE DEF Rows, Columns, EdgeToEdge, InTheMiddle, InProportion
      <3>6. Contained(Rows, PanelH, src.h, Columns, PanelW, src.w)
        BY <3>3, <3>4, <3>5
      <3> HIDE DEF Contained
      <3> QED
        BY <1>10, <2>6, <3>6
    <2> QED
      BY <2>2, <2>7, <2>8
  <1> QED
    BY <1>9, <1>10

--------------------------------------------------------------------------------
LEMMA PlansInvariant == PlansSpec => []PlansInv
  BY PlansInitial, PlansStep, PTL DEF PlansSpec

(***************************************************************************)
(* The planner's variables keep their types: every index and every rate is *)
(* a natural number, every byte of the panel one of 256 and every encoded  *)
(* pixel a word, whatever the sliders are set to (plan.rs, adjust.rs).     *)
(***************************************************************************)
THEOREM TypeCorrect == PlansSpec => []PlansTypeOK
  <1>1. PlansInv => PlansTypeOK
    BY PictureTypeFollows DEF PlansInv, PlannerInv, PlansTypeOK
  <1> QED
    BY <1>1, PlansInvariant, PTL

(***************************************************************************)
(* The frames kept of an animation of any length, down to any number, are  *)
(* its first, its last and as evenly spread as whole indices can be        *)
(* (select_frame_indices of plan.rs).                                      *)
(***************************************************************************)
THEOREM SampleAlwaysEven == PlansSpec => []SampleIsEven
  <1>1. PlansInv => SampleIsEven
    BY SampleFollows DEF PlansInv
  <1> QED
    BY <1>1, PlansInvariant, PTL

(***************************************************************************)
(* Nothing is planned that the keyboard cannot store, even of a file that  *)
(* is replaced between the two passes over it (plan_gif_upload).           *)
(***************************************************************************)
THEOREM PlanAlwaysSound == PlansSpec => []PlanIsSound
  <1>1. PlansInv => PlanIsSound
    BY SoundFollows DEF PlansInv
  <1> QED
    BY <1>1, PlansInvariant, PTL

(***************************************************************************)
(* For delays of any length in milliseconds, the rate without a warning is *)
(* the file's own, and a warning is never given in vain (SourceRate).      *)
(***************************************************************************)
THEOREM RateAlwaysTheFiles == PlansSpec => []RateIsTheFiles
  <1>1. PlansInv => RateIsTheFiles
    BY RateFollows DEF PlansInv
  <1> QED
    BY <1>1, PlansInvariant, PTL

(***************************************************************************)
(* For images of every size and content and settings of every value, what  *)
(* is transparent in the file has no influence on what the panel gets      *)
(* (resize_to_panel, apply_adjustments, rgb565_encode).                    *)
(***************************************************************************)
THEOREM HiddenAlwaysHidden == PlansSpec => []HiddenColourStaysHidden
  <1>1. PlansInv => HiddenColourStaysHidden
    BY HiddenFollows DEF PlansInv
  <1> QED
    BY <1>1, PlansInvariant, PTL

(***************************************************************************)
(* An image of any size fits the panel, contained or filling, with the     *)
(* roundings of contain_geometry.                                          *)
(***************************************************************************)
THEOREM PictureAlwaysFits == PlansSpec => []PictureFits
  <1>1. PlansInv => PictureFits
    BY FitsFollows DEF PlansInv
  <1> QED
    BY <1>1, PlansInvariant, PTL

(***************************************************************************)
(* After any number of edits the pixels are those of the file and the      *)
(* settings alone, and the preview of full size encodes to them again      *)
(* (reencode and replan of plan.rs, render of tui/preview.rs).             *)
(***************************************************************************)
THEOREM AlwaysTheSameEverywhere == PlansSpec => []SameEverywhere
  <1>1. PlansInv => SameEverywhere
    BY SameFollows DEF PlansInv
  <1> QED
    BY <1>1, PlansInvariant, PTL
================================================================================
