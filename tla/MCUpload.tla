------------------------------- MODULE MCUpload -------------------------------
(***************************************************************************)
(* Small instances of Upload for TLC: GIFs of one to three frames of two   *)
(* blocks, a picture whose last packet is short, and the short commands.   *)
(***************************************************************************)
EXTENDS Upload

Command(steps) == [steps |-> steps, total |-> Len(steps), cancellable |-> FALSE]

MCPicture == [steps |-> PictureProgram, total |-> PictureReportCount, cancellable |-> TRUE]

MCGif(n) ==
    [steps |-> GifProgram(n), total |-> GifReportCount(n), cancellable |-> TRUE]

MCCommands ==
    {Command(p) : p \in {SetTimeProgram, ClearPictureProgram(2), ClearGifProgram,
                         SwitchPageProgram(13)}}

MCUploads == {MCGif(n) : n \in 1..3} \cup {MCPicture}

MCPlans == MCUploads \cup MCCommands
===============================================================================
