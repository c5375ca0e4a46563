--------------------------------- MODULE MCPlans ---------------------------------
(***************************************************************************)
(* A small instance of Plans for TLC: the GIFs of MCPlanner; white images  *)
(* of every size up to twelve by twelve and of extreme shapes, and a few   *)
(* small ones with colours under transparency, which are also adjusted.    *)
(* The panel is the keyboard's, sixteen times smaller.                     *)
(***************************************************************************)
EXTENDS MCPlanner, Plans

Size(w, h) == [w |-> w, h |-> h]

Sizes == {Size(w, h) : w, h \in 1..12} \cup {Size(20, 1), Size(21, 1), Size(1, 12), Size(1, 13), Size(31, 3)}

Blank(size) == Drawn(size.w, size.h, LAMBDA x, y : White)

\* Red, a hole with green under it, and a grey that is half transparent.
Spots(size) ==
    Drawn(size.w, size.h,
          LAMBDA x, y : CASE (x + y) % 3 = 0 -> <<200, 30, 90, 255>>
                          [] (x + y) % 3 = 1 -> <<0, 250, 3, 0>>
                          [] OTHER -> <<128, 129, 131, 128>>)

Holding(image, turned, gif) ==
    [image |-> image, turned |-> turned, gif |-> gif, broken |-> FALSE]

MCAdjusted ==
    {Holding(Spots(Size(3, 2)), TRUE, FALSE), Holding(Spots(Size(2, 2)), FALSE, TRUE)}

MCValues == {-20, 0, 30}

MCPictures ==
    MCAdjusted
        \cup {Holding(Blank(size), FALSE, FALSE) : size \in Sizes}
        \cup {Holding(Blank(Size(5, 2)), TRUE, FALSE), Holding(Blank(Size(7, 3)), FALSE, TRUE),
              [Holding(Blank(Size(1, 1)), FALSE, FALSE) EXCEPT !.broken = TRUE]}
================================================================================
