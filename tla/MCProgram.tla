------------------------------- MODULE MCProgram -------------------------------
(***************************************************************************)
(* A small instance of Program for TLC: the interface with everything the  *)
(* terminal may refuse, and a worker that panics twice; every              *)
(* command with arguments on both sides of their bounds; two nodes, among  *)
(* them the keyboard's typing interface, a stranger with the same          *)
(* descriptor, and one nobody may read.                                    *)
(***************************************************************************)
EXTENDS Program

Node(uevent, descriptor, permitted) ==
    [uevent |-> uevent, descriptor |-> descriptor, permitted |-> permitted]

Nodes ==
    {Node("ours", "ours", TRUE), Node("ours", "ours", FALSE), Node("ours", "other", TRUE),
     Node("other", "ours", TRUE), Node("ours", "unreadable", TRUE)}

MCBuses ==
    {[listed |-> TRUE, nodes |-> n] : n \in [Names -> Nodes \cup {NoNode}]}
        \cup {[listed |-> FALSE, nodes |-> [name \in Names |-> NoNode]]}

Plain(command, file, dry) ==
    [command |-> command, fps |-> None, frames |-> None, tint |-> None, file |-> file,
     dryRun |-> dry]

Gif == Plain("set-gif", "good", FALSE)

MCRequests ==
    {Plain(c, f, d) : c \in Uploads, f \in {"good", "bad"}, d \in BOOLEAN}
        \cup {Plain(c, "good", FALSE) : c \in Commands \ Uploads}
        \cup {[Gif EXCEPT !.fps = v] : v \in {0, 1, 60, 61}}
        \cup {[Gif EXCEPT !.frames = v] : v \in {0, 1, 160, 161}}
        \cup {[Gif EXCEPT !.tint = v] : v \in {-101, -100, 100, 101}}
================================================================================
