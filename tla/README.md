# Verification of yunzii-b75-tui

TLA+ models of the program that sets the clock, pictures and animations on a
Yunzii B75 keyboard, checked with TLC and proved with TLAPS. Paths are relative
to the repository root; the Rust sources are under `src/`.

## 1. The system

| Component | Source | State it keeps | Operations | Model |
|---|---|---|---|---|
| interface | `tui/app.rs`, `tui/mod.rs` | header, screen, quit prompt, gates (`job_pending`, `replan_pending`, `preview_generation`), quit deadline; the browser's listing and cursor; the confirm screen's rows | `on_key`, `on_update`, `event_loop`, `give_up_waiting`, `read_dir`, `adjust_row`, `toggle_row`, `reencode_preview` | `App`, `Tui`, `Browser`, `Confirmation`, `Chooser` |
| worker | `tui/worker.rs` | the job it runs, reports sent | take, decode, re-encode, open, upload, cancel, `lost`, catch a panic, answer | `Worker`, `Tui` |
| discovery | `tui/worker.rs` | what the probe found | sleep, load the flags, find, open and drain, store, tell | `Discovery`, `Tui` |
| executor | `exec.rs` | reports done, cancel flag | `send_all`, `pause`, `execute_picture`, `execute_gif` | `Choreography`, `Upload` |
| transport | `device.rs` | an open hidraw node | `open`, `drain`, `write_report`, `send_and_await_acks`, `send_sequence` | `Transport`, `Upload` |
| protocol | `protocol.rs` | none | builders of reports, report counts, RGB565 | `Choreography`, `Pixels` |
| planner | `plan.rs` | none; reads a GIF twice | `select_frame_indices`, `load_gif_frames`, `plan_gif_upload`, `plan_picture_upload`, `resize_to_panel`, `contain_geometry` | `Planner`, `Panel`, `Picture`, `Plans` |
| adjustments | `adjust.rs` | none | the six filters in their order | `Pixels` |
| command line | `main.rs` | none | one command per process, from arguments to exit status | `CommandLine`, `Program` |
| terminal guard | `tui/term.rs` | raw mode, alternate screen, `restored` | `new`, `restore`, `drop`, the panic hook | `Terminal`, `Program` |
| clock fields | `time.rs` | none | a snapshot of local time | `CommandLine` |
| drawing | `tui/ui.rs`, `tui/preview.rs` | none | what the confirm screen says, the preview's size and samples | `Confirmation`, `Panel` |
| fixture scripts | `scripts/` | none | offline capture tooling | no |

**How they interact.** The interface never touches the device. It hands at most
one job at a time to the worker over an mpsc channel; worker and discovery
report back over a second one, which the event loop empties once per turn
before it decides whether to leave and waits up to 100 ms for a key. The worker
and discovery share two flags: `busy` (a job is running) and `ready` (the last
probe found the keyboard); each upload has an `AtomicBool` that Esc sets. The
worker and the command line run the same executor over the same transport, and
the same planner over the same files. The keyboard answers every report it acts
on with that report, status byte set; the transport drains whatever is unread,
writes, and waits 500 ms for exactly that answer. The panic hook is shared by
all threads, and with it the terminal.

**What is hard, and what must hold.**

- *Interface and worker.* Two gates in two fields are set and cleared by a
  dozen handlers, and abandoned work keeps running. A job must be in one place
  until its answer is read, stale replies must change nothing on the screen,
  a panic must undo what its job's key did, and a confirmed quit must end.
- *Choosing.* The confirm screen encodes one frame anew per edit and reads the
  file anew per placement; the worker encodes the rest much later. What is sent
  must be what was shown, though files change and previews fail.
- *Worker and discovery.* Both open the keyboard; a drain by the wrong one eats
  acknowledgements. Two loads of two flags guard it.
- *Executor and transport.* Reports and answers may be lost, late, doubled or
  unasked for, waits interrupted; Esc may come at any moment. What the gauge
  counted must have happened, at most one more report may be in doubt, and the
  pauses must follow the right reports.
- *Planner and pixels.* Rounding and ranges; a file that changes between its two
  readings; colours under transparency that neighbours could bring to light;
  edits that must not add up.
- *Terminal.* Setup that fails half-way, panics on both threads, a restore that
  both the hook and the guard want to do.
- *Command line.* A node that is another one by the time it is opened, a clock
  that runs past midnight, a report that fails among hundreds: the exit status
  and the words must stay true.

`PROJECT.json` lists each hazard with the line where it bites.

## 2. The modules

```
Channels   channels, flags, keyboard           JobSlot   (abstract)
  App  Worker  Discovery                           ^
     \   |   /                                     | refinement
        Tui ---------------------------------------+
     MCTui   TuiProofs - TuiSafety

Browser  Confirmation                         ExitStatus
      \   /                                    Terminal  CommandLine
     Chooser                                        \     /
  MCChooser  ChooserProofs                          Program
                                               MCProgram  ProgramProofs
Choreography   reports and pauses
  |       \                  Pixels            PrefixTransfer  (abstract)
Transport  Planner           Panel                 ^
  |           \             Picture                | refinement
Upload -------- \ ------------- \ -----------------+
MCUpload         \             /
UploadProofs      --- Plans ---
             MCPlanner   MCPlans
          PlannerProofs - PlansProofs

LayoutProofs   lemmas on sequences, folds and quotients, and on the layout of
               Choreography: below UploadProofs and PlannerProofs
```

**Channels, App, Worker, Discovery, Tui.** One action per handler or step of a
thread. `App` is `struct App`: an action per key and screen (`BrowsePick`,
`ConfirmPlacement`, `RunningQuit`, ...), one per update, and the event loop as
`ui`: "drain" (reading updates), "key" (waiting), "exited". Keys that change
nothing the model keeps are one step, `NoKey`. `Worker` splits a job where
another thread can see a difference: `busy` set, flag checked, report
acknowledged, `ready` cleared, header told, `busy` cleared, answer sent; `Panic`
may strike at any step inside `guarded`. `Discovery` keeps the two flag loads
apart, and finding apart from draining. One `Settings` value stands for
rate, sliders and row of a confirm screen: `Chooser` has them in full. One
`cancel` flag stands for the `Arc` made per upload: no two uploads overlap, and
`Start` resets it. Atomics are sequentially consistent. The exit of the process
ends all threads at once. Channel ends never disappear while the process lives,
so the code's disconnected branches have no action.

**Browser, Confirmation, Chooser.** The other view of the same handlers: what
they hold, with the threads taking turns. `Browser` is `read_dir` and the keys of
`browse_key` as operators on the fields of `Screen::Browse`: hidden names, accepted
extensions, directories first, a directory that cannot be read, `~` without HOME,
the cursor after the list has shrunk. `Confirmation` is `Pending` with every row:
the rate override that vanishes when it equals the plan's rate, sliders that stay
at their ends, switches, reset, the placement that needs a replan, what the worker
builds and encodes anew, and what `ui.rs` draws. A frame of the panel is the
content it came from, its number and its placement, and encoding adds the
adjustments, so any two that differ are told apart. `Chooser` puts them between
the menu and the worker, with files replaced, removed or torn at any moment. The
worker reads a GIF twice (`plan.rs:389`, `plan.rs:411`): `CountFrames` keeps what
the first pass found in `counted`, which is where the number of frames and the rate
come from, and `Build` takes the pictures from what it then finds on the disk.
Either pass may fail (`BuildFails`), but only the first refuses a GIF without frames:
a plan without frames reaches the screen, and Enter sends it.

**Choreography.** The builders of `protocol.rs` laid out by `execute_picture` and
`execute_gif`, as a sequence of sends, pauses and finished frames. A report is
its command and one argument (offset, frame index); its bytes are left to the
captured fixtures of the repository. Pixels are left out, which makes reports as
alike, and acknowledgements as confusable, as they can be. Offsets are not cut to
sixteen bits: the largest is 30688.

**Transport.** The host's side is `phase`; the kernel's queue of the open file is
`inbox`, emptied by opening and closing. `wire` and `air` hold what is under
way, and outlive a close: a late answer of one run can meet the next. The
keyboard is external: it acts on reports in order and answers once, or, as
`Faults` allows, never or twice; reports are lost, unasked ones arrive, the
kernel's send queue is full, the node fails. `left` is what remains of the 500 ms
of a write or a wait, counted in interruptions: a signal (EINTR) or room in the
queue takes one step of it, and only at zero does the exchange give up. The last
answer may always come first, so the deadline still races it.

**Upload.** `pc` walks the steps of a plan. `send_all` is `SendNext` (the check
of the flag), the transport's drain, `WriteReport`, and `Acknowledged` or a
failure; `sleep_cancellable` is `Nap`, a slice of at most 50 ms after each
check, and `WakeUp`. A short command (`send_sequence`) is a plan that cannot be
cancelled. `done`, `frames` and `verdict` are what the caller is told; `rested`
and `late` are history, for the properties. `PlansAssumption` says that the plans
are the programs of the code (`IsPlan`), of any length, each with the total it is
announced with. That the totals count the reports, and that no report equals the
one before it, as an acknowledgement told by its bytes alone needs, is proved.

**Planner, Pixels, Panel, Picture, Plans.** `CountFrames` is the first pass and
`select_frame_indices`, `WalkFrames` the second pass over whatever is then at the
path, `Decide` the rest of `plan_gif_upload`. The floating-point quotients are
exact integer ones: their operands are small, and ties are representable. The
notes are kept as whether the fallback is told and which rate is suggested.
`Pixels` has the filters of `adjust.rs` channel by channel, rounding as
`Uint8ClampedArray` and `Math.round` do, blur and sharpen at the borders, and
RGB565 with its inverse; `Panel` the two placements, `contain_geometry` and the
preview's `fit` and `render`. Lanczos is kept to which neighbours it mixes: the
mean of the two source pixels at the ends of what an output pixel covers.
`Picture` is the life of one image: oriented, placed, adjusted, encoded, encoded
anew by edits, read anew by a replan. `Plans` is the two side by side, as in
`plan.rs`.

**ExitStatus, Terminal, CommandLine, Program.** `Terminal` is `tui::run` with
`Guard::new` and its refusals, the swap of the shared flag, leaving the alternate
screen and leaving raw mode as steps of their own, the hook on either thread, the
drop by return or by unwinding, and the words printed after. `alt` counts
alternate screens, so that leaving one too many is visible. `CommandLine` is a
command of `main.rs`: parsing, the plan, the dry run, the search through
`/sys/class/hidraw` by uevent and descriptor, opening by name, the drain, the clock
snapshot, the reports as a count, the error with its hint and its note, the exit
status; `Replug` changes the bus at any moment and `Tick` the clock. `Program` is
`main`, which chooses between them.

**Abstract specifications.** `JobSlot`: a job is handed over, taken, answered,
and its answer read, in that order, before the next. `PrefixTransfer`: what takes
effect is a prefix of the plan; "ok" means all of it; nothing lands after a
cancel, and after an error at most the one report in doubt.

## 3. The runs

| Run | Instance | What it shows |
|---|---|---|
| `tui` | 2 files, 2 settings, uploads and commands of 2 reports, 3 states of the bus | the safety of the three threads |
| `live` | 1 file, 2 states of the bus, fair threads | `ImplementsJobSlot` with its liveness, `KeyboardIsFoundAgain` |
| `wedged` | as `live`, only the interface is fair | `QuitEnds`: a confirmed quit ends the program even with the worker stuck |
| `confirm` | three directories, five files, a GIF that changes, also between the two passes over it; 3 rates, sliders of 3 positions | choosing what to upload |
| `transfer` | GIFs of 1-3 frames of 2 blocks of 2 packets, a picture with a short last packet, the short commands; every fault | the exchange and the executor |
| `plan` | GIFs of 0-12 frames with 5 storable, delays 0, 10, 20, 100, 1000, 1500 ms, mixed, torn, one replacement; images of every size to 12 x 12 and extreme ones onto 10 x 6 | the planner and the pixels |
| `program` | everything the terminal may refuse, two panics of jobs; every command, two nodes of five kinds, two reports, two midnights | the process from `main` to its exit status |
| `silent_quit`, `stale_header`, `retry`, `twice`, `plan_share` | | one disagreement each, section 6 |

**The threads (`tui`).** `OneJob`: a job is queued, held or answered,
never two of them, and `job_pending` says so. `ConfirmGate`: `replan_pending` is
set exactly while a replan is in flight, and the confirm screen is up over no
other job, although Space never looks at `job_pending`.
`NoProbeDuringTransfer`: no probe has the node open while reports are
exchanged. The worker only starts when the header says Ready, so `ready` is set
and it is that flag, more than `busy`, that keeps discovery away; the mutant
that forgets to tell the header breaks it. `GaugeIsHonest`: the gauge, and every
progress still unread, counts acknowledged reports, never more than the total, and
shows 100% only when all are sent. `PromptCoversNothingNew`,
`QuitLeavesMessage`, and three action properties: a confirm screen opens only
from the browser that asked for it, is left only by a key, and a replan changes
the placement and nothing else.

**Choosing (`confirm`).** `WhatYouSawIsSent`: every frame sent has the file,
placement and adjustments that were on the screen when Enter was pressed, the
first one is the preview itself, there are as many as the screen said, and the rate
is the one shown; the mutant that sends the frames as the screen left them breaks
it. They are all the frames of the previewed file unless it has more than the first
pass counted in the one it replaced, and none if it has none. `ScreenAgrees`:
preview, rows, rate and warning do not contradict each other. A rate neither warned
about nor chosen is the one the first pass found; of a file replaced between the
passes that is another file's, and nothing more can be promised of this code
(section 6). `CursorOnListed`: the cursor is on
a listed entry of the directory named above, also after a file has gone.

**The exchange (`transfer`).** `OneInDoubt`: the count never exceeds what has
landed and misses at most one report, none between reports. `CancelIsPrompt`:
one report at most after Esc. `FrameDoneIsWhole`, `EndsOnTotal`,
`RestsAreKept` (each pause by the report it follows), `ImplementsTransfer`, and
`TransferEnds` with a keyboard that never answers, never stops, or has a full
queue, and signals that interrupt every wait.

**The planner (`plan`).** `SampleIsEven`: the sample begins and ends with the
animation, repeats nothing, and its gaps differ by one at most. `PlanIsSound`:
nothing is planned that the keyboard cannot store, whatever happened to the file
between the passes, and of a file left alone nothing chosen is missing; but a
replaced file may leave fewer frames than were chosen, even none, under the rate
and the source count of the old one. `RateIsTheFiles`: without a warning the
frames are shown for as long as the file says, and a warning is true.
`HiddenColourStaysHidden`, `PictureFits` (shape to half a pixel, edge to edge,
centred to a pixel) and `SameEverywhere` (any edits and replans end with the
bytes of one pass over the file, and the preview shows them).

**The process (`program`).** `DrawsOnItsOwnScreen`, `LeftAsFound` and
`LastWordsAreReadable` on the terminal; `StatusIsTrue`, `HalfDoneIsAdmitted`,
`OnlyTheConfigChannel` and `ClockHasShownIt` on the command line.

**Bounds.** `MaxGeneration` (3) caps how often decodes are superseded: enough for
a reply to be stale by two, with a new request behind it. `QueueBound` (2) keeps
discovery from outrunning an interface that reads nothing; in the code the
interface empties the channel every 100 ms and a probe takes two seconds. Two
reports are the least with a first, a between and a last. `MaxSessions` (1, 2 in
`retry`) is how often a transfer is run, `AirBound` (2) the unasked reports
under way, `DrainMax` 2 for 64, so that the drain's limit is reached, and
`Patience` (2) the interruptions of a wait, so that one is met and one is the
last. With blocks of 5 and packets of 3 bytes the last packet of a block is short,
as 1024 is not a multiple of 56; a picture of 10 bytes ends on a packet of 1.
`SlowEvery` is 2, so that three frames take the slow pause, the fast one, and the
slow one again. Block offsets repeat from block to block as they do in the code,
and adjacent reports differ as they do there. In `confirm`, `Steps` (1) gives each
slider both ends and the middle, `Editable` moves one slider, one switch and the
rate, and `Unsteady` lets one file change: rows of a kind behave alike. That file
becomes shorter, longer than the keyboard stores, one of another rate or one
without frames, which reaches plans that are empty, cut, short and shown with
another file's rate. HOME is set in this instance; that it may be unset is left to
the proof of `CursorStaysOnList`. In `plan`,
the panel is 10 x 6, the keyboard's sixteen times smaller and of its shape;
`Values` (-20, 0, 30) and `Adjusted` keep the adjusted images few. In `program`,
`Before` (1) is one alternate screen of the user's own, `MaxPanics` (2) lets a
panic follow a panic, and arguments sit on both sides of each of their bounds. A
day has two hours and the clock runs for two days, so midnight is passed.

**Fairness.** `FairSpec` of `Tui` asks each thread to keep running (weak
fairness). Discovery and the quit deadline get strong fairness: both wait on
clocks that advance whatever the threads do, and their actions are disabled now
and then by where the event loop happens to be. `DiscoveryStep` requires the
interface to come round once during the two-second sleep; its loop takes 100
ms. `WedgedSpec` drops the worker and discovery. `FairSpec` of `Upload` asks only
the host's own thread to keep running: nothing is asked of the keyboard, and
nobody has to press Esc. `GiveUp` is part of the host, as the 500 ms are.

Deadlock is checked in every run: actions such as `Exited` and `Over` mark the
states in which the program has really ended.

## 4. The proofs

Each theorem holds for every value of the constants that its module's named
assumptions allow. TLC evaluates those assumptions on the instances.

**`TuiProofs`** (assumption `ChannelsAssumption`: the settings a preview starts
with are settings, transfers have at least one report, the bus looks in one of the
ways the code knows): `TypeCorrect`, `OneJobAlways`, `ConfirmGateAlways`, from
`JobInv == TypeOK /\ OneJob /\ ConfirmGate`. `TypeOK` is inductive only with
`WorkerShape`: which kinds of job can be in which state of the worker. `OneJob`
alone is not inductive: Space starts a replan without looking at `job_pending`, so
the slot is free there only because the confirm screen is up with the gate open,
which is `ConfirmGate`; and `ConfirmGate` needs `OneJob` in turn, since reading an
answer clears the gate and must not leave another replan behind. The step splits
by thread, then by action; `SubmitOne`, `ReadOne`, `SendQuietly` and `SendAnswer`
are the four ways a step moves a job.

**`TuiSafety`** goes on from `JobInv`.

- `HeaderInv`, for `NoProbeDuringTransfer`: a header that says Ready, now or once
  an update on its way is read (`SaysReady`), is right that `ready` is set and no
  probe is past it (`Settled`), unless it will read that the keyboard was lost
  before it reads the answer of the job that lost it (`Retracted`). That exception
  is the order of the two sends in `lost()` and the answer.
- `GaugeInv`, for `GaugeIsHonest`: what the gauge has been or will be told was
  done (`ToldIsDone`), and what was sent is within the total.
- `QuitInv`, for `PromptCoversNothingNew` and `QuitLeavesMessage`.
- `DecodeInv`: every decode in flight, asked for, being made or answered and
  unread, is superseded or is exactly what the screen waits for. From it
  `OpensFromBrowser`, `LeftByKey` and `ReplanKeepsThem` follow as action
  properties.
- `JobSlotSafety`: `Spec => Slot!Spec`, each step mapped to a step of `JobSlot` or
  to none: the safety half of `ImplementsJobSlot`.

**`ChooserProofs`** (assumptions: `BrowserAssumption`, a finite catalogue in which
no two entries of a directory tie; `ConfirmationAssumption`, ranges of rates and
steps; `ChooserAssumption`, the disk holds contents): `TypeCorrect`,
`SentAsSeen`, `ScreenAlwaysAgrees`, `CursorStaysOnList`. `BrowseInv` says of a
browser that it lists what its directory holds; that a sorted list exists at
all is `SortedExists`, by numbering each entry by how many come before it.
`Faithful` says of a confirm screen, and of a reply that would put one up, that
there is a source it was counted from and a content its panels are of, as many as
both have, in one placement, and that the first frame, if there is one, is encoded
with the adjustments of the rows; every key keeps it and `BuildPending` establishes
it, also with what a replan carries across. `CountInv` is why that source exists: what the
first pass keeps is a content of some file, also when that file is gone by now.
`SlotInv` is why an upload
under way cannot be overtaken, so that what was seen is still known when it is
sent.

**`LayoutProofs`** (assumption `ChoreographyAssumption`: sizes are positive, a frame
is a whole number of blocks, 30720 = 30 * 1024, a block does not fit one packet, 56 <
1024, and the frames with the slow pause are the same when their number is cut to a
byte, 16 divides 256). What `FlattenSeq` and the folds compute along a sequence is a
question of induction, and the library's induction theorems cannot be instantiated
here. `Upwards` does instead: if a set of numbers that holds 0 and passes from each
number to the next missed one up to n, it would miss a least one (`LeastNumber`,
from the library's fact that `<` is well founded, which is about relations and so
within reach). Recursive functions are handled by proving that one exists
(`RowMajor`, `FoldExists`) and what it is at every index.

On top of that stands the *log* of a program: after each step, the last report, the
rest since, and how many reports and frames there were. `Leads(kind, s, a, b)` says
that the steps `s` take log `a` to `b`, and that each step fits: a report differs from
the one before and finds exactly the rest that one needs behind it, a frame is told
only when its reports are counted. Pieces that fit are joined (`Joined`, `Chained`), so
a block, a frame, any number of frames and the whole of `GifProgram(n)` are each one
lemma (`BlockLeads` to `GifLeads`), and so are the picture and the short commands.

**`UploadProofs`** (assumptions: `TransportAssumption`, `ChoreographyAssumption`,
`PlansAssumption`). About the programs alone: `TotalsAreTrue` and `NeighboursDiffer`.
For any number of runs of a transfer: `TypeCorrect`, `EscIsPrompt`, `OkOnTotal`,
`FramesAreWhole` and `RestsAlwaysKept`, from three invariants: `WalkInv` (what is being
sent is the step the walk stands at; it was begun with the flag clear), `CountInv`
(`done` counts the sends behind the walk) and `LogInv` (the plan has a log, and
`done`, `frames`, the report acknowledged last and the time slept since are what it
says of the steps behind `pc`). `FrameDoneIsWhole` is not inductive: it says nothing of
which report is next when a frame ends; the log of the whole program does, and the
walk only has to stay on it. For one run (`MaxSessions = 1`): `OneInDoubtOnce` and
`TransferIsPrefix`, which is the whole of `ImplementsTransfer`. Their invariant
`OnceInv` speaks of `Pipe`, everything on its way to the host in its order: between
reports only noise and repeats of the last acknowledgement can be in it (`PipeInv`);
while a report the keyboard has not acted on is being sent, its acknowledgement is
not; and after it, only repeats and noise follow the first one. This is where
adjacent reports must differ. With a second run the theorem is false, as the
`retry` run shows: the late acknowledgement of the first run is taken for
one of the second.

**`PlannerProofs`, `PlansProofs`** (assumptions: `PlannerAssumption`, the keyboard
stores at least one frame, and the default rate and what is asked for are in range;
`PanelAssumption`, the panel is ten by six like 160 by 96 and the preview's least
height is no more than half of it; `PictureAssumption`, images have pixels of four
bytes, and as many as their sides say). `PlannerInv` holds of all files and all
replacements: `KeepInv` (what is kept was chosen from what was counted), `WalkInv`,
`FramesInv` (what is encoded is a prefix of what was kept, all of it if the file was
left alone: `EncodedIsPrefix`, which is where the sample being in order and a torn
second pass meet) and `PlanInv`. `PictureInv` says that the pixels on show are those
of one pass over the file. From `PlansInv`, both together, follow the seven
properties of the `plan` run, for animations and images of every size and delays,
colours and settings of every value. `SampleIsEven`, `RateIsTheFiles` and
`PictureFits` are arithmetic: rounded quotients are off by half at most, and differences
of neighbours by one (`Quotient`, `Factors`). `HiddenColourStaysHidden` compares two
images that are alike except under an alpha of zero, through each filter in turn.
`SameEverywhere` rests on the 65536 colours of RGB565 being read back as
themselves, by digits and not by cases.

**`ProgramProofs`** (assumptions: `TerminalAssumption`, `CommandLineAssumption`):
`TypeCorrect` and one theorem for each property of the `program` run.
`TerminalInv` ties where the drawing thread is to who holds the terminal: ours
until the flag is swapped, given back from then on (`HeldOrGivenBack`), at any
depth of alternate screens. `CommandInv` is five parts: a request that got this far
is one that parses and was asked to send (`RequestInv`), what the path names
(`NodeInv`), the two counters (`ReportsInv`), what an error and an exit status
mean (`ErrorInv`), and where the snapshot came from (`ClockInv`). `OneOfTheTwo` keeps
the interface and the command line apart.

**Only model-checked.** Liveness and what rests on fairness, which the provers
cannot do: `QuitEnds`, `KeyboardIsFoundAgain`, `TransferEnds`, the fair half of
`ImplementsJobSlot`. Every invariant and every action property of a passing run is
proved. The runs that end in a violation are counterexamples, not theorems.

## 5. Not modelled, and why

- Bytes and checksums of reports: pinned by the repository's captured fixtures.
- Decoding of image files, which is the `image` crate's: a file is its frames
  and delays, or a fault. Its Lanczos kernel is kept to the neighbours it mixes, and
  of the EXIF orientations a quarter turn stands for all.
- The rounding of doubles: the filters and quotients are exact in the model. The
  values at which doubles would round otherwise are not among the bytes and
  hundredths that occur, but that is an argument, not a check.
- The text of sysfs entries: a node's uevent and descriptor are ours, another's,
  garbled or unreadable.
- Layout and styles, the log pane (a list of the last 200 lines), the menu's
  cursor, the status line's wording: no decision hangs on them.
- The wording and formatting of the command line, and the report-ID experiment of
  `set-time`, a diagnostic that sends the same sequence without the leading byte.
- The fields of the clock beyond hour and date, which come from the same reading.
- `scripts/`: offline capture tooling.
- Printing of a command that finds no reader. `println!`, `eprintln!` and
  `print_notes` panic on a closed stdout or stderr (`main.rs:21`, `407`, `610`,
  `616`, `673`): `set-gif ... | head -1` can end with status 101 between two
  reports, without the note about what was done, or after every report was
  confirmed. `HalfDoneIsAdmitted` and `StatusIsTrue` hold as long as what is
  printed finds a reader. (`Terminal` has such panics of the interface's own.)
- A replug while the bus is being read. `CommandLine.FindDevice` is one step;
  `find_device_under` (`device.rs:204`-`234`) reads each name's uevent and then its
  descriptor. A name that changes hands between the two would be judged by halves
  of two devices, and `OnlyTheConfigChannel` does not speak of it. That a name is
  reused between finding and opening it is modelled.
- A terminal that refuses to leave raw mode: `term.rs` ignores the error at all
  three places (66, 95, 117), and `Terminal` assumes there is none.

## 6. Where code and words disagree

- `silent_quit`: `q` on the menu leaves at once while a command's reports go out,
  or an upload handed over has not yet said it started. `app.rs:494` says quitting
  during a job asks first.
- `stale_header`: `lost()` clears `ready` and then tells the header. A probe that
  gets between the two tells it Ready first; the header ends on "not found" with
  `ready` set, nothing probes again, and every upload is refused. `README.md:97`
  promises a rescan every two seconds.
- `retry`: acknowledgements are matched by their bytes alone. After a timeout the
  same transfer, run again, can take the late answer of the first run for its
  own, and counts a report the keyboard has not acted on. `exec.rs:115` says `done`
  is what the device confirmed.
- `twice`: a second acknowledgement that arrives after the next drain ends the
  transfer. `device.rs:456` says it would surface as a drained leftover, not as an
  error.
- `plan_share`: the message on a sampled GIF takes the chosen rate for the file's
  own. Two 10 ms frames sampled to one, at the fallback of 30 fps, play 167% as
  long as the original; the message says 50%.

Smaller ones, met while modelling, have no run of their own:

- A drain that reads exactly `DRAIN_MAX_ITERATIONS` reports refuses a node that is
  quiet again, where the comment at `device.rs:305` speaks of one still readable.
- The rate suggested for a sampled GIF rounds the ideal rate, while a duration goes
  with its inverse: for 10/7 fps it suggests 1, where 2 comes closer.
- A transparent pixel is blackened and then brightened like any other
  (`adjust.rs:103`), so a raised brightness shows it grey; the encoder alone would
  have left it black.
- A rate chosen by hand withdraws the fallback warning, because a note that names
  another rate would lie (`plan.rs:569`, `ui.rs:636`); the summary note, which names
  the planner's rate as well (`plan.rs:786`), stays (`ui.rs:193`).
- `preview.rs:69` explains the preview by nearest-neighbour resizing; a contained
  picture is resized with Lanczos.
- The browser's list is drawn without a scroll state: in a long directory the
  cursor leaves the window.
- `~` without HOME shows an error in the place of the list, which is still there:
  Enter picks the entry under the unseen cursor.
- A GIF replaced between its two readings (`plan.rs:389`, `plan.rs:411`) is shown
  with one file's rate and the other's pictures, and no warning. If the second
  file is longer it is cut to the first one's count without a note; if it is
  shorter the note speaks of a sample; if it has no frames, a plan of none is
  offered for upload.

## 7. Plan

Done: the threads of the interactive program, choosing and confirming, the
exchange and the executor, the planner and the pixels, the terminal and the
command line, each with the proofs of its properties, for every size.

What could follow: `Upload` with two runs as a refinement of a weaker promise, in
which what a second run counts may be one the first run was owed.
