----------------------------- MODULE Choreography -----------------------------
(***************************************************************************)
(* What is sent, in which order, and with which pauses: the builders of    *)
(* protocol.rs laid out by the executors of exec.rs.  A report is what     *)
(* tells it apart on the wire, a command and one argument; the pixels in   *)
(* it are left out, so two blocks of a GIF are as alike as they can be.    *)
(***************************************************************************)
EXTENDS SequencesExt, Naturals

CONSTANTS
    PictureBytes,   \* one panel frame in RGB565: 30720
    BlockBytes,     \* GIF_BLOCK_BYTES: 1024
    BulkChunk,      \* BULK_CHUNK, pixel bytes in a report: 56
    SlowEvery       \* GIF_SLOW_DELAY_EVERY: 16

\* A frame is a whole number of blocks; the report count relies on it.  No block fits
\* one report, and the slow frames are the same ones when their number is cut to a byte.
ASSUME ChoreographyAssumption ==
    /\ PictureBytes \in Nat \ {0} /\ BlockBytes \in Nat \ {0}
    /\ BulkChunk \in Nat \ {0} /\ SlowEvery \in Nat \ {0}
    /\ PictureBytes % BlockBytes = 0
    /\ BulkChunk < BlockBytes
    /\ 256 % SlowEvery = 0

DivCeil(a, b) == (a + b - 1) \div b

\* The last two are never sent: what a host has before its first report, and noise.
ReportType ==
    [cmd : {"info", "clock", "date", "finish", "start", "declare", "data",
            "header", "open", "close", "none", "junk"},
     arg : Nat]

StepType ==
    [do : {"send"}, report : ReportType] \cup [do : {"pause"}, ms : Nat] \cup [do : {"frame"}]

Report(cmd, arg) == [cmd |-> cmd, arg |-> arg]

NoReport == Report("none", 0)
Junk == Report("junk", 0)

SendStep(r) == [do |-> "send", report |-> r]
Pause(ms) == [do |-> "pause", ms |-> ms]
FrameDone == [do |-> "frame"]

Sends(reports) == [i \in DOMAIN reports |-> SendStep(reports[i])]
Repeat(s, n) == FlattenSeq([i \in 1..n |-> s])

\* Consecutive packets of at most BulkChunk bytes, each carrying its offset.
Packets(bytes) ==
    [i \in 1..DivCeil(bytes, BulkChunk) |-> Report("data", (i - 1) * BulkChunk)]

Info(cmd) == Report("info", cmd)
Finish == Report("finish", 0)

--------------------------------------------------------------------------------
(***************************************************************************)
(* The short commands: a flat list, sent without pauses.                   *)
(***************************************************************************)
SetTimeProgram ==
    Sends(Repeat(<<Info(9), Report("clock", 0), Finish,
                   Info(10), Report("date", 0), Finish>>, 3))

SwitchPageProgram(page) == Sends(<<Info(page), Finish>>)

ClearPictureProgram(n) == Sends(Repeat(<<Info(14), Finish>>, n))

ClearGifProgram == Sends(<<Info(18), Finish, Info(19), Finish>>)

--------------------------------------------------------------------------------
(***************************************************************************)
(* The picture upload: one run of offsets over the whole frame.            *)
(***************************************************************************)
PictureStart == Report("start", 0)

PictureBody == <<Report("declare", 12)>> \o Packets(PictureBytes) \o <<Finish>>

PictureProgram == <<SendStep(PictureStart), Pause(300)>> \o Sends(PictureBody)

PictureReportCount == 1 + 1 + DivCeil(PictureBytes, BulkChunk) + 1

--------------------------------------------------------------------------------
(***************************************************************************)
(* The GIF upload: per frame a header, a pause, the size, and blocks whose *)
(* offsets start again at 0, each followed by a pause.                     *)
(***************************************************************************)
BlocksPerFrame == DivCeil(PictureBytes, BlockBytes)
PacketsPerBlock == DivCeil(BlockBytes, BulkChunk)

FrameHeader(i) == Report("header", i % 256)

HeaderPause(i) == IF i % SlowEvery = 0 THEN Pause(3000) ELSE Pause(30)

BlockProgram == Sends(Packets(BlockBytes)) \o <<Pause(30)>>

\* Mutant: a frame is announced before its body is sent.
FrameAnnouncedFirst(i) ==
    <<SendStep(FrameHeader(i)), HeaderPause(i), FrameDone, SendStep(Report("declare", 17))>>
        \o Repeat(BlockProgram, BlocksPerFrame)

FrameProgram(i) ==
    <<SendStep(FrameHeader(i)), HeaderPause(i), SendStep(Report("declare", 17))>>
        \o Repeat(BlockProgram, BlocksPerFrame)
        \o <<FrameDone>>

OpenReports == <<Report("open", 18), Report("open", 19)>>
CloseReports == <<Report("close", 18), Report("close", 19)>>

\* Mutant: both close reports in one batch, with one pause after them.
CloseBatched == Sends(CloseReports) \o <<Pause(30), Pause(500)>>

CloseProgram ==
    FlattenSeq([i \in DOMAIN CloseReports |-> <<SendStep(CloseReports[i]), Pause(30)>>])
        \o <<Pause(500)>>

GifProgram(frames) ==
    Sends(OpenReports) \o <<Pause(30)>>
        \o FlattenSeq([i \in 1..frames |-> FrameProgram(i - 1)])
        \o CloseProgram
        \o <<SendStep(Finish)>>

GifReportCount(frames) == 2 + frames * (2 + BlocksPerFrame * PacketsPerBlock) + 2 + 1

--------------------------------------------------------------------------------
\* What the keyboard needs, by the report it has acknowledged: how long to be left alone
\* before the next one.  A block of a GIF, which ends like one of a picture, needs 30.
LastOfBlock == Report("data", (PacketsPerBlock - 1) * BulkChunk)

RestAfter(r) ==
    CASE r = PictureStart           -> 300
      [] r.cmd = "header"           -> IF r.arg % SlowEvery = 0 THEN 3000 ELSE 30
      [] r = Report("open", 19)     -> 30
      [] r = Report("close", 18)    -> 30
      [] r = Report("close", 19)    -> 530
      [] OTHER                      -> 0
===============================================================================
