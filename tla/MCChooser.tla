-------------------------------- MODULE MCChooser --------------------------------
(***************************************************************************)
(* A small instance of Chooser for TLC: a root with a directory nobody may *)
(* read and a home that holds a picture, a text and three GIFs, one of     *)
(* them hidden.  The last GIF may at any moment, between the two passes    *)
(* over it as well, become one of a single frame, one without a usable     *)
(* rate, one that is too long or one without frames, or be gone.           *)
(***************************************************************************)
EXTENDS Chooser

MCPlaces == {"root", "home", "locked"}
MCParentOf == [p \in MCPlaces |-> IF p = "root" THEN NoPlace ELSE "root"]

File(rank, hidden, extension) ==
    [in |-> "home", rank |-> rank, hidden |-> hidden, extension |-> extension, isDir |-> FALSE,
     to |-> NoPlace]

Directory(rank, to) ==
    [in |-> "root", rank |-> rank, hidden |-> FALSE, extension |-> "txt", isDir |-> TRUE,
     to |-> to]

Changing == File(3, FALSE, "gif")

MCCatalogue ==
    {Directory(1, "home"), Directory(2, "locked"), File(0, FALSE, "gif"), File(1, FALSE, "jpg"),
     File(2, TRUE, "gif"), Changing, File(4, FALSE, "txt")}

Content(frames, rate) == [frames |-> frames, rate |-> rate, torn |-> FALSE]

MCContents == {Content(0, NoRate), Content(1, 3), Content(2, NoRate), Content(3, 1)}

MCFirstDisk ==
    [e \in {e \in MCCatalogue : ~e.isDir} |->
        IF e.extension = "gif" THEN Content(2, NoRate) ELSE Content(1, 3)]

MCHomes == {"home"}

MCEditable == {"Rate", "Brightness", "Blur"}
MCUnsteady == {Changing}
================================================================================
