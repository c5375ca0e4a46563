------------------------------ MODULE UploadProofs ------------------------------
(***************************************************************************)
(* Proofs about Upload, for every set of transfers of the programs of the  *)
(* code, every fault of the keyboard and the cable, and every bound of     *)
(* the drain and the waits.                                                *)
(***************************************************************************)
EXTENDS Upload, LayoutProofs, FiniteSetTheorems

(***************************************************************************)
(* The plans.  Each program of the code has its log, and the total it is   *)
(* announced with is the number of its reports.                            *)
(***************************************************************************)
\* The steps among the first n that send a report.
SendsUpTo(steps, n) == {i \in 1..n : steps[i].do = "send"}

LEMMA Counts ==
    ASSUME NEW s, NEW n \in Nat
    PROVE  /\ IsFiniteSet(SendsUpTo(s, n)) /\ Cardinality(SendsUpTo(s, n)) \in Nat
           /\ SendsUpTo(s, 0) = {} /\ Cardinality(SendsUpTo(s, 0)) = 0
           /\ s[n + 1].do # "send" => SendsUpTo(s, n + 1) = SendsUpTo(s, n)
           /\ s[n + 1].do = "send" =>
                 /\ SendsUpTo(s, n + 1) = SendsUpTo(s, n) \cup {n + 1}
                 /\ Cardinality(SendsUpTo(s, n + 1)) = Cardinality(SendsUpTo(s, n)) + 1
           /\ \A m \in 0..n : Cardinality(SendsUpTo(s, m)) <= Cardinality(SendsUpTo(s, n))
  <1>1. IsFiniteSet(SendsUpTo(s, n)) /\ Cardinality(SendsUpTo(s, n)) \in Nat
    <2>1. IsFiniteSet(1..n)
      BY FS_Interval
    <2>2. SendsUpTo(s, n) \subseteq 1..n
      BY DEF SendsUpTo
    <2> QED
      BY <2>1, <2>2, FS_Subset, FS_CardinalityType
  <1>2. SendsUpTo(s, 0) = {}
    BY DEF SendsUpTo
  <1>3. Cardinality(SendsUpTo(s, 0)) = 0
    BY <1>2, FS_EmptySet
  <1>4. s[n + 1].do # "send" => SendsUpTo(s, n + 1) = SendsUpTo(s, n)
    BY DEF SendsUpTo
  <1>5. ASSUME s[n + 1].do = "send"
        PROVE  /\ SendsUpTo(s, n + 1) = SendsUpTo(s, n) \cup {n + 1}
               /\ Cardinality(SendsUpTo(s, n + 1)) = Cardinality(SendsUpTo(s, n)) + 1
    <2>1. SendsUpTo(s, n + 1) = SendsUpTo(s, n) \cup {n + 1} /\ n + 1 \notin SendsUpTo(s, n)
      BY <1>5 DEF SendsUpTo
    <2> QED
      BY <1>1, <2>1, FS_AddElement
  <1>6. ASSUME NEW m \in 0..n
        PROVE  Cardinality(SendsUpTo(s, m)) <= Cardinality(SendsUpTo(s, n))
    <2>1. SendsUpTo(s, m) \subseteq SendsUpTo(s, n)
      BY DEF SendsUpTo
    <2> QED
      BY <1>1, <2>1, FS_Subset
  <1> QED
    BY <1>1, <1>2, <1>3, <1>4, <1>5, <1>6

LEMMA Reports ==
    /\ NoReport \in ReportType /\ Junk \in ReportType /\ NoReport # Junk
  <1>1. NoReport \in ReportType /\ Junk \in ReportType
    BY DEF NoReport, Junk, Report, ReportType
  <1>2. NoReport.cmd = "none" /\ Junk.cmd = "junk"
    BY DEF NoReport, Junk, Report
  <1>3. NoReport # Junk
    BY <1>2
  <1> QED
    BY <1>1, <1>3

\* The log of a walk counts the reports, and knows whether a frame is whole.
LEMMA LogCounts ==
    ASSUME NEW kind, NEW s \in Seq(StepType), NEW t \in [0..Len(s) -> Log],
           t[0] = Blank, IsLog(kind, s, t), NEW j \in 0..Len(s)
    PROVE  /\ t[j].sent = Cardinality(SendsUpTo(s, j))
           /\ t[j].shown = 0 \/ t[j].sent >= 2 + t[j].shown * FrameReports
  <1> DEFINE n == Len(s)
             Good == {k \in Nat : k \in 0..n =>
                         /\ t[k].sent = Cardinality(SendsUpTo(s, k))
                         /\ t[k].shown = 0 \/ t[k].sent >= 2 + t[k].shown * FrameReports}
  <1>1. n \in Nat /\ FrameReports \in Nat
    BY Sizes
  <1>2. 0 \in Good
    <2>1. t[0].sent = 0 /\ t[0].shown = 0
      BY DEF Blank
    <2> QED
      BY <2>1, Counts
  <1>3. ASSUME NEW k \in 0..(n - 1), k \in Good
        PROVE  k + 1 \in Good
    <2>1. k \in 0..n /\ k + 1 \in 1..n /\ k + 1 \in 0..n /\ (k + 1) - 1 = k /\ k \in Nat
      BY <1>1
    <2>2. Fits(kind, t[k], s[k + 1]) /\ t[k + 1] = After(t[k], s[k + 1])
      BY <2>1 DEF IsLog
    <2>3. /\ t[k].sent = Cardinality(SendsUpTo(s, k))
          /\ t[k].shown = 0 \/ t[k].sent >= 2 + t[k].shown * FrameReports
      BY <1>3, <2>1
    <2> DEFINE a == t[k]
               b == t[k + 1]
               x == s[k + 1]
    <2>4. a \in Log /\ b \in Log /\ a.sent \in Nat /\ a.shown \in Nat
      BY <2>1 DEF Log
    <2>5. /\ x.do = "send" => b.sent = a.sent + 1 /\ b.shown = a.shown
          /\ x.do # "send" => b.sent = a.sent
          /\ x.do # "frame" => b.shown = a.shown
          /\ x.do = "frame" => /\ b.sent = a.sent /\ b.shown = a.shown + 1
                               /\ a.sent >= 2 + (a.shown + 1) * FrameReports
      BY <2>2 DEF After, Fits
    <2>6. b.sent = Cardinality(SendsUpTo(s, k + 1))
      BY <2>1, <2>3, <2>5, Counts
    <2> HIDE DEF a, b, x
    <2>7. b.shown = 0 \/ b.sent >= 2 + b.shown * FrameReports
      <3>1. a.shown = 0 \/ a.sent >= 2 + a.shown * FrameReports
        BY <2>3 DEF a
      <3>2. a.shown * FrameReports \in Int
        BY <1>1, <2>4
      <3>3. CASE x.do = "frame"
        BY <2>5, <3>3
      <3>4. CASE x.do # "frame"
        <4>1. b.shown = a.shown /\ b.sent >= a.sent /\ b.sent \in Nat
          BY <2>4, <2>5, <3>4
        <4> QED
          BY <2>4, <3>1, <3>2, <4>1
      <3> QED
        BY <3>3, <3>4
    <2> QED
      BY <2>1, <2>6, <2>7 DEF b
  <1>4. 0..n \subseteq Good
    <2> HIDE DEF Good, n
    <2> QED
      BY <1>1, <1>2, <1>3, Upwards
  <1> HIDE DEF n
  <1> QED
    BY <1>4 DEF n

Kind == IF InGif THEN "gif" ELSE "other"

\* What IsPlan means to the walk.
Planned(steps, total, kind) ==
    /\ steps \in Seq(StepType) /\ Len(steps) \in Nat \ {0}
    /\ total = Cardinality(SendsUpTo(steps, Len(steps)))
    /\ kind = IF steps[1].report = OpenReports[1] THEN "gif" ELSE "other"
    /\ \E t \in [0..Len(steps) -> Log] : t[0] = Blank /\ IsLog(kind, steps, t)

LEMMA LogTotal ==
    ASSUME NEW kind, NEW s \in Seq(StepType), NEW b, Leads(kind, s, Blank, b)
    PROVE  /\ b.sent = Cardinality(SendsUpTo(s, Len(s)))
           /\ \E t \in [0..Len(s) -> Log] : t[0] = Blank /\ IsLog(kind, s, t)
  <1>1. PICK t \in [0..Len(s) -> Log] : t[0] = Blank /\ t[Len(s)] = b /\ IsLog(kind, s, t)
    BY DEF Leads
  <1>2. Len(s) \in 0..Len(s)
    OBVIOUS
  <1> QED
    BY <1>1, <1>2, LogCounts

LEMMA GifPlanned ==
    ASSUME NEW n \in Nat
    PROVE  Planned(GifProgram(n), GifReportCount(n), "gif")
  <1> DEFINE s == GifProgram(n)
             b == [last |-> Finish, rest |-> 0, sent |-> GifReportCount(n), shown |-> n]
  <1>1. /\ s \in Seq(StepType) /\ Leads("gif", s, Blank, b)
        /\ Len(s) # 0 /\ s[1] = SendStep(OpenReports[1])
    BY GifLeads
  <1>2. b.sent = GifReportCount(n)
    OBVIOUS
  <1>3. Len(s) \in Nat \ {0} /\ s[1].report = OpenReports[1]
    BY <1>1 DEF SendStep
  <1> HIDE DEF s, b
  <1>4. /\ b.sent = Cardinality(SendsUpTo(s, Len(s)))
        /\ \E t \in [0..Len(s) -> Log] : t[0] = Blank /\ IsLog("gif", s, t)
    BY <1>1, LogTotal
  <1>5. Planned(s, GifReportCount(n), "gif")
    BY <1>1, <1>2, <1>3, <1>4 DEF Planned
  <1> QED
    BY <1>5 DEF s

LEMMA PicturePlanned == Planned(PictureProgram, PictureReportCount, "other")
  <1> DEFINE s == PictureProgram
             b == [last |-> Finish, rest |-> 0, sent |-> PictureReportCount, shown |-> 0]
  <1>1. /\ s \in Seq(StepType) /\ Leads("other", s, Blank, b)
        /\ Len(s) # 0 /\ s[1] = SendStep(PictureStart)
    BY PictureLeads
  <1>2. b.sent = PictureReportCount
    OBVIOUS
  <1>3. Len(s) \in Nat \ {0} /\ s[1].report # OpenReports[1]
    BY <1>1 DEF SendStep, PictureStart, OpenReports, Report
  <1> HIDE DEF s, b
  <1>4. /\ b.sent = Cardinality(SendsUpTo(s, Len(s)))
        /\ \E t \in [0..Len(s) -> Log] : t[0] = Blank /\ IsLog("other", s, t)
    BY <1>1, LogTotal
  <1>5. Planned(s, PictureReportCount, "other")
    BY <1>1, <1>2, <1>3, <1>4 DEF Planned
  <1> QED
    BY <1>5 DEF s

LEMMA CommandPlanned ==
    ASSUME NEW rs \in Seq(ReportType), Len(rs) # 0, rs[1].cmd = "info",
           \E b \in Log : Leads("other", Sends(rs), Blank, b)
    PROVE  Planned(Sends(rs), Len(Sends(rs)), "other")
  <1> DEFINE s == Sends(rs)
             n == Len(rs)
  <1>1. /\ s \in Seq(StepType) /\ Len(s) = n /\ n \in Nat \ {0}
        /\ \A i \in 1..n : s[i] = SendStep(rs[i])
    BY SendsType
  <1>2. \A i \in 1..n : s[i].do = "send" /\ s[i].report = rs[i]
    <2> HIDE DEF s, n
    <2> QED
      BY <1>1 DEF SendStep
  <1>3. OpenReports[1].cmd = "open" /\ 1 \in 1..n
    BY <1>1 DEF OpenReports, Report
  <1> HIDE DEF s, n
  <1>4. n = Cardinality(SendsUpTo(s, Len(s)))
    <2>1. SendsUpTo(s, Len(s)) = 1..n
      BY <1>1, <1>2 DEF SendsUpTo
    <2>2. Cardinality(1..n) = n
      BY <1>1, FS_Interval
    <2> QED
      BY <2>1, <2>2
  <1>5. s[1].report # OpenReports[1]
    BY <1>2, <1>3
  <1>6. \E t \in [0..Len(s) -> Log] : t[0] = Blank /\ IsLog("other", s, t)
    BY <1>1, LogTotal DEF s
  <1>7. Planned(s, Len(s), "other")
    BY <1>1, <1>4, <1>5, <1>6 DEF Planned
  <1> QED
    BY <1>7 DEF s

LEMMA EachPlanned ==
    ASSUME NEW p, IsPlan(p)
    PROVE  p.cancellable \in BOOLEAN /\ \E kind : Planned(p.steps, p.total, kind)
  <1>1. p.cancellable \in BOOLEAN
    BY DEF IsPlan
  <1>2. ASSUME NEW n \in 0..Len(p.steps), p.steps = GifProgram(n), p.total = GifReportCount(n)
        PROVE  Planned(p.steps, p.total, "gif")
    <2>1. n \in Nat
      OBVIOUS
    <2> QED
      BY <1>2, <2>1, GifPlanned
  <1>3. CASE p.steps = PictureProgram /\ p.total = PictureReportCount
    BY <1>1, <1>3, PicturePlanned
  <1>4. CASE p.steps = SetTimeProgram /\ p.total = Len(p.steps)
    BY <1>1, <1>4, SetTimeLeads, CommandPlanned
  <1>5. CASE p.steps = ClearGifProgram /\ p.total = Len(p.steps)
    BY <1>1, <1>5, ClearGifLeads, CommandPlanned
  <1>6. ASSUME NEW n \in 1..Len(p.steps), p.steps = ClearPictureProgram(n),
               p.total = Len(p.steps)
        PROVE  Planned(p.steps, p.total, "other")
    <2>1. n \in Nat \ {0}
      OBVIOUS
    <2> QED
      BY <1>6, <2>1, ClearPictureLeads, CommandPlanned
  <1>7. ASSUME NEW page \in 0..255, p.steps = SwitchPageProgram(page), p.total = Len(p.steps)
        PROVE  Planned(p.steps, p.total, "other")
    <2>1. page \in Nat
      OBVIOUS
    <2> QED
      BY <1>7, <2>1, SwitchPageLeads, CommandPlanned
  <1> QED
    BY <1>1, <1>2, <1>3, <1>4, <1>5, <1>6, <1>7 DEF IsPlan

(***************************************************************************)
(* picture_upload_report_count, gif_upload_report_count and the lengths of *)
(* the short sequences: what a transfer is announced with is the number of *)
(* reports its program sends, for every number of frames.                  *)
(***************************************************************************)
THEOREM TotalsAreTrue ==
    ASSUME NEW p, IsPlan(p)
    PROVE  p.total = Cardinality(SendsUpTo(p.steps, Len(p.steps)))
  BY EachPlanned DEF Planned

(***************************************************************************)
(* send_report takes the echo of a report for its acknowledgement: no      *)
(* program sends the same report twice in a row, so an echo that was late  *)
(* or came twice is never taken for that of the next report.               *)
(***************************************************************************)
THEOREM NeighboursDiffer ==
    ASSUME NEW p, IsPlan(p), NEW i \in 1..Len(p.steps), NEW k \in (i + 1)..Len(p.steps),
           p.steps[i].do = "send", p.steps[k].do = "send",
           \A j \in (i + 1)..(k - 1) : p.steps[j].do # "send"
    PROVE  p.steps[i].report # p.steps[k].report
  <1> DEFINE s == p.steps
             n == Len(s)
  <1>1. PICK kind : Planned(s, p.total, kind)
    BY EachPlanned
  <1>2. PICK t \in [0..n -> Log] : IsLog(kind, s, t)
    BY <1>1 DEF Planned
  <1>3. n \in Nat /\ i \in Nat /\ k \in Nat /\ 1 <= i /\ i < k /\ k <= n
    BY <1>1 DEF Planned
  <1>4. /\ s[i].do = "send" /\ s[k].do = "send"
        /\ \A j \in (i + 1)..(k - 1) : s[j].do # "send"
    OBVIOUS
  <1>5. \A j \in 1..n : Fits(kind, t[j - 1], s[j]) /\ t[j] = After(t[j - 1], s[j])
    BY <1>2 DEF IsLog
  <1> HIDE DEF s, n
  <1> DEFINE Good == {d \in Nat : i + d < k => t[i + d].last = s[i].report}
  <1>6. 0 \in Good
    <2>1. i \in 1..n /\ i + 0 = i
      BY <1>3
    <2>2. t[i] = After(t[i - 1], s[i])
      BY <1>5, <2>1
    <2>3. t[i].last = s[i].report
      BY <1>4, <2>2 DEF After
    <2> QED
      BY <2>1, <2>3
  <1>7. ASSUME NEW d \in 0..((k - i) - 1), d \in Good PROVE d + 1 \in Good
    <2> SUFFICES ASSUME i + (d + 1) < k PROVE t[i + (d + 1)].last = s[i].report
      OBVIOUS
    <2>1. /\ i + (d + 1) \in (i + 1)..(k - 1) /\ i + (d + 1) \in 1..n
          /\ (i + (d + 1)) - 1 = i + d /\ i + d < k
      BY <1>3
    <2>2. t[i + (d + 1)] = After(t[i + d], s[i + (d + 1)]) /\ s[i + (d + 1)].do # "send"
      BY <1>4, <1>5, <2>1
    <2>3. t[i + d].last = s[i].report
      BY <1>7, <2>1
    <2> QED
      BY <2>2, <2>3 DEF After
  <1>8. 0..(k - i) \subseteq Good
    <2>1. k - i \in Nat
      BY <1>3
    <2> DEFINE m == k - i
    <2>2. m \in Nat /\ \A d \in 0..(m - 1) : d \in Good => d + 1 \in Good
      BY <1>7, <2>1
    <2> HIDE DEF m, Good
    <2> QED
      BY <1>6, <2>2, Upwards DEF m
  <1>9. t[k - 1].last = s[i].report
    <2>1. (k - i) - 1 \in 0..(k - i) /\ i + ((k - i) - 1) = k - 1 /\ k - 1 < k
      BY <1>3
    <2> QED
      BY <1>8, <2>1
  <1>10. s[k].report # t[k - 1].last
    <2>1. k \in 1..n
      BY <1>3
    <2> QED
      BY <1>4, <1>5, <2>1 DEF Fits
  <1> QED
    BY <1>9, <1>10 DEF s

LEMMA PlanLog ==
    ASSUME plan \in Plans
    PROVE  Planned(plan.steps, plan.total, Kind)
  <1>1. PICK kind : Planned(plan.steps, plan.total, kind)
    BY EachPlanned, PlansAssumption DEF PlansAssumption
  <1>2. kind = Kind
    BY <1>1 DEF Planned, Kind, InGif
  <1> QED
    BY <1>1, <1>2

LEMMA PlanFacts ==
    ASSUME plan \in Plans
    PROVE  /\ plan.steps \in Seq(StepType) /\ Len(plan.steps) \in Nat
           /\ DOMAIN plan.steps = 1..Len(plan.steps)
           /\ plan.total = Cardinality(SendsUpTo(plan.steps, Len(plan.steps)))
           /\ \A i \in 1..Len(plan.steps) :
                 /\ plan.steps[i].do = "send" =>
                       plan.steps[i].report \in ReportType \ {NoReport, Junk}
                 /\ plan.steps[i].do = "pause" => plan.steps[i].ms \in Nat
  <1> DEFINE s == plan.steps
  <1>1. PICK t \in [0..Len(s) -> Log] : IsLog(Kind, s, t)
    BY PlanLog DEF Planned
  <1>2. s \in Seq(StepType) /\ Len(s) \in Nat /\ plan.total = Cardinality(SendsUpTo(s, Len(s)))
    BY PlanLog DEF Planned
  <1> HIDE DEF s
  <1>3. ASSUME NEW i \in 1..Len(s)
        PROVE  /\ s[i].do = "send" => s[i].report \in ReportType \ {NoReport, Junk}
               /\ s[i].do = "pause" => s[i].ms \in Nat
    <2>1. Fits(Kind, t[i - 1], s[i])
      BY <1>1 DEF IsLog
    <2>2. s[i] \in StepType /\ (s[i].do = "send" => s[i].report \notin {NoReport, Junk})
      BY <2>1 DEF Fits
    <2> QED
      BY <2>2 DEF StepType
  <1>4. DOMAIN s = 1..Len(s)
    BY <1>2
  <1> QED
    BY <1>2, <1>3, <1>4 DEF s

--------------------------------------------------------------------------------
(***************************************************************************)
(* Types, and that Esc is prompt.  While a report is being sent it is the  *)
(* one the walk stands at; the flag was clear when its sending began, so   *)
(* it alone can be written after Esc.                                      *)
(***************************************************************************)
Sending == phase \in {"write", "full", "await"} \/ (phase = "drain" /\ current # NoReport)

SendingInv ==
    Sending =>
        /\ pc <= Len(plan.steps) /\ plan.steps[pc].do = "send"
        /\ plan.steps[pc].report = current

DrainInv == phase = "drain" => drained < DrainMax

CancelInv ==
    /\ late \in {0, 1}
    /\ ~cancel => late = 0
    /\ Sending /\ phase # "await" => late = 0

WalkInv == TypeOK /\ SendingInv /\ DrainInv /\ CancelInv

LEMMA Queues ==
    ASSUME NEW S, NEW q \in Seq(S), NEW u \in S
    PROVE  /\ <<>> \in Seq(S)
           /\ Append(q, u) \in Seq(S)
           /\ q # <<>> => Head(q) \in S /\ Tail(q) \in Seq(S)
  OBVIOUS

LEMMA Rests ==
    ASSUME NEW S, NEW q \in Seq(S), q # <<>>
    PROVE  Head(q) \in S /\ Tail(q) \in Seq(S)
  OBVIOUS

LEMMA Joins ==
    ASSUME NEW S, NEW q \in Seq(S), NEW r \in Seq(S)
    PROVE  q \o r \in Seq(S)
  OBVIOUS

\* The variables of the transport are of their type after every step.
LEMMA TransportTypes ==
    ASSUME WalkInv, Next
    PROVE  TransportTypeOK'
  <1> USE DEF transportVars, hostVars, cableVars, Go, Fail, Failures
  <1>1. /\ TransportTypeOK /\ NoReport \in ReportType
        /\ DrainMax \in Nat \ {0} /\ Patience \in Nat \ {0}
    BY Reports, TransportAssumption DEF WalkInv, TypeOK, TransportAssumption
  <1>2. CASE Run
    BY <1>1, <1>2, Queues DEF Run, Open, TransportTypeOK
  <1>3. CASE SendNext
    <2>1. plan.steps[pc].report \in ReportType
      BY <1>3, PlanFacts DEF SendNext, At, WalkInv, TypeOK
    <2> QED
      BY <1>1, <1>3, <2>1 DEF SendNext, BeginSend, TransportTypeOK
  <1>4. CASE WriteReport
    <2>1. [report |-> current, session |-> session] \in [report : ReportType, session : Nat]
      BY <1>1 DEF TransportTypeOK
    <2>2. wire' \in Seq([report : ReportType, session : Nat])
      BY <1>1, <1>4, <2>1, Queues DEF WriteReport, Write, TransportTypeOK
    <2> QED
      BY <1>1, <1>4, <2>2 DEF WriteReport, Write, TransportTypeOK
  <1>5. CASE Acknowledged
    <2>1. inbox' \in Seq(ReportType)
      BY <1>1, <1>5, Queues DEF Acknowledged, TakeAck, TransportTypeOK
    <2> QED
      BY <1>1, <1>5, <2>1 DEF Acknowledged, TakeAck, TransportTypeOK
  <1>6. CASE UNCHANGED transportVars
    BY <1>1, <1>6 DEF TransportTypeOK
  <1>7. CASE Stopped \/ Succeed \/ Abort
    <2>1. Close
      BY <1>7 DEF Stopped, Succeed, Abort, End
    <2> QED
      BY <1>1, <2>1, Queues DEF Close, TransportTypeOK
  <1>8. CASE DrainRead
    <2>1. drained < DrainMax /\ drained \in Nat
      BY <1>1, <1>8 DEF WalkInv, DrainInv, DrainRead, TransportTypeOK
    <2>2. drained' \in 0..DrainMax
      BY <1>1, <1>8, <2>1 DEF DrainRead
    <2>3. inbox' \in Seq(ReportType)
      BY <1>1, <1>8, Queues DEF DrainRead, TransportTypeOK
    <2> QED
      BY <1>1, <1>8, <2>2, <2>3 DEF DrainRead, TransportTypeOK
  <1>9. CASE Drained
    BY <1>1, <1>9 DEF Drained, TransportTypeOK
  <1>10. CASE WriteBlocks \/ RoomAgain \/ WaitOn \/ GiveUp \/ GiveUpWriting \/ IoFails
    BY <1>1, <1>10 DEF WriteBlocks, RoomAgain, WaitOn, GiveUp, GiveUpWriting, IoFails,
                       TransportTypeOK
  <1>11. CASE RefuseAck
    <2>1. inbox' \in Seq(ReportType)
      BY <1>1, <1>11, Queues DEF RefuseAck, TransportTypeOK
    <2> QED
      BY <1>1, <1>11, <2>1 DEF RefuseAck, TransportTypeOK
  <1>12. CASE Act
    <2>1. /\ Head(wire) \in [report : ReportType, session : Nat]
          /\ Tail(wire) \in Seq([report : ReportType, session : Nat])
      BY <1>1, <1>12, Rests DEF Act, TransportTypeOK
    <2>2. PICK n \in Answers : air' = air \o [i \in 1..n |-> Head(wire).report]
      BY <1>12 DEF Act
    <2>3. n \in Nat /\ Head(wire).report \in ReportType
      BY <2>1, <2>2 DEF Answers
    <2>4. [i \in 1..n |-> Head(wire).report] \in Seq(ReportType)
      BY <2>3
    <2>5. air' \in Seq(ReportType)
      BY <1>1, <2>2, <2>4, Joins DEF TransportTypeOK
    <2>6. UNCHANGED hostVars /\ inbox' = inbox /\ wire' = Tail(wire) /\ landed' \in Nat
      BY <1>1, <1>12 DEF Act, TransportTypeOK
    <2> QED
      BY <1>1, <2>1, <2>5, <2>6 DEF TransportTypeOK
  <1>13. CASE Lose
    <2>1. wire' \in Seq([report : ReportType, session : Nat])
      BY <1>1, <1>13, Queues DEF Lose, TransportTypeOK
    <2> QED
      BY <1>1, <1>13, <2>1 DEF Lose, TransportTypeOK
  <1>14. CASE Noise
    <2>1. air' \in Seq(ReportType)
      BY <1>1, <1>14, Queues, Reports DEF Noise, TransportTypeOK
    <2> QED
      BY <1>1, <1>14, <2>1 DEF Noise, TransportTypeOK
  <1>15. CASE Deliver
    <2>1. air' \in Seq(ReportType) /\ inbox' \in Seq(ReportType)
      BY <1>1, <1>15, Queues DEF Deliver, TransportTypeOK
    <2> QED
      BY <1>1, <1>15, <2>1 DEF Deliver, TransportTypeOK
  <1> QED
    BY <1>2, <1>3, <1>4, <1>5, <1>6, <1>7, <1>8, <1>9, <1>10, <1>11, <1>12, <1>13, <1>14, <1>15
       DEF Next, Walk, Exchange, Elsewhere, Keyboard, Nap, WakeUp, FrameIsDone, PressEsc, Over,
           vars

\* The walk stays where its steps put it, and at most one report follows Esc.
LEMMA WalkStep == WalkInv /\ [Next]_vars => WalkInv'
  <1> SUFFICES ASSUME WalkInv, [Next]_vars PROVE WalkInv'
    OBVIOUS
  <1> USE DEF transportVars, hostVars, cableVars, walkVars, Go, Fail
  <1>1. /\ TypeOK /\ SendingInv /\ DrainInv /\ CancelInv /\ plan \in Plans
        /\ pc \in 1..(Len(plan.steps) + 1) /\ Len(plan.steps) \in Nat
        /\ napped \in Nat /\ rested \in Nat /\ done \in Nat /\ frames \in Nat /\ late \in Nat
        /\ cancel \in BOOLEAN /\ verdict \in {"none", "ok", "error", "cancelled"}
        /\ DrainMax \in Nat \ {0} /\ drained \in Nat
    BY PlanFacts, TransportAssumption
       DEF WalkInv, TypeOK, TransportTypeOK, TransportAssumption
  <1>2. ASSUME Next PROVE WalkInv'
    <2>1. TransportTypeOK'
      BY <1>2, TransportTypes
    <2>2. CASE Run
      <3>1. /\ plan' = plan /\ pc' = 1 /\ napped' = 0 /\ cancel' = FALSE /\ done' = 0 /\ frames' = 0
            /\ verdict' = "none" /\ rested' = 0 /\ late' = 0
            /\ phase' = "drain" /\ current' = NoReport /\ drained' = 0
        BY <2>2 DEF Run, Open
      <3>2. pc' \in 1..(Len(plan'.steps) + 1)
        BY <1>1, <3>1
      <3>3. TypeOK'
        BY <1>1, <2>1, <3>1, <3>2 DEF TypeOK
      <3> QED
        BY <1>1, <3>1, <3>3 DEF WalkInv, SendingInv, Sending, DrainInv, CancelInv
    <2>3. CASE SendNext
      <3>1. plan.steps[pc].report # NoReport /\ late = 0 /\ pc <= Len(plan.steps)
            /\ plan.steps[pc].do = "send"
        BY <1>1, <2>3, PlanFacts DEF SendNext, At, CancelInv
      <3> QED
        BY <1>1, <2>1, <2>3, <3>1
           DEF SendNext, BeginSend, WalkInv, TypeOK, SendingInv, Sending, DrainInv, CancelInv
    <2>4. CASE WriteReport
      BY <1>1, <2>1, <2>4
         DEF WriteReport, Write, WalkInv, TypeOK, SendingInv, Sending, DrainInv, CancelInv
    <2>5. CASE Acknowledged
      BY <1>1, <2>1, <2>5
         DEF Acknowledged, TakeAck, WalkInv, TypeOK, SendingInv, Sending, DrainInv, CancelInv
    <2>6. CASE Nap
      <3>1. plan.steps[pc].ms \in Nat
        BY <1>1, <2>6, PlanFacts DEF Nap, At
      <3>2. PICK slice \in Nat : napped' = napped + slice /\ rested' = rested + slice
        <4> DEFINE rest == plan.steps[pc].ms - napped
                   slice == IF rest < CancelPoll THEN rest ELSE CancelPoll
        <4>1. rest > 0 /\ napped' = napped + slice /\ rested' = rested + slice
          BY <2>6 DEF Nap
        <4>2. rest \in Int
          BY <1>1, <3>1
        <4> HIDE DEF rest
        <4>3. slice \in Nat
          BY <4>1, <4>2 DEF CancelPoll
        <4> QED
          BY <4>1, <4>3
      <3>3. napped' \in Nat /\ rested' \in Nat
        BY <1>1, <3>2
      <3> QED
        BY <1>1, <2>1, <2>6, <3>3
           DEF Nap, WalkInv, TypeOK, SendingInv, Sending, DrainInv, CancelInv
    <2>7. CASE WakeUp \/ FrameIsDone
      <3>1. /\ UNCHANGED <<transportVars, plan, cancel, late, verdict, done, rested>>
            /\ phase = "ready" /\ pc <= Len(plan.steps) /\ pc' = pc + 1
            /\ napped' \in Nat /\ frames' \in Nat
        BY <1>1, <2>7 DEF WakeUp, FrameIsDone, At
      <3>2. pc' \in 1..(Len(plan'.steps) + 1)
        BY <1>1, <3>1
      <3>3. TypeOK'
        BY <1>1, <2>1, <3>1, <3>2 DEF TypeOK
      <3> QED
        BY <1>1, <3>1, <3>3 DEF WalkInv, SendingInv, Sending, DrainInv, CancelInv
    <2>8. CASE Stopped \/ Succeed \/ Abort
      BY <1>1, <2>1, <2>8
         DEF Stopped, Succeed, Abort, End, Close, WalkInv, TypeOK, SendingInv, Sending, DrainInv,
             CancelInv
    <2>9. CASE DrainRead /\ UNCHANGED walkVars
      <3>1. phase' = "drain" => drained' < DrainMax
        BY <1>1, <2>9 DEF DrainRead, DrainInv
      <3> QED
        BY <1>1, <2>1, <2>9, <3>1
           DEF DrainRead, WalkInv, TypeOK, SendingInv, Sending, DrainInv, CancelInv
    <2>10. CASE Drained /\ UNCHANGED walkVars
      BY <1>1, <2>1, <2>10 DEF Drained, WalkInv, TypeOK, SendingInv, Sending, DrainInv, CancelInv
    <2>11. CASE /\ WriteBlocks \/ RoomAgain \/ WaitOn \/ RefuseAck \/ GiveUp \/ GiveUpWriting
                     \/ IoFails
                /\ UNCHANGED walkVars
      BY <1>1, <2>1, <2>11
         DEF WriteBlocks, RoomAgain, WaitOn, RefuseAck, GiveUp, GiveUpWriting, IoFails,
             WalkInv, TypeOK, SendingInv, Sending, DrainInv, CancelInv
    <2>12. CASE UNCHANGED <<hostVars, walkVars>>
      BY <1>1, <2>1, <2>12 DEF WalkInv, TypeOK, SendingInv, Sending, DrainInv, CancelInv
    <2>13. CASE PressEsc
      BY <1>1, <2>1, <2>13 DEF PressEsc, WalkInv, TypeOK, SendingInv, Sending, DrainInv, CancelInv
    <2> QED
      BY <1>2, <2>2, <2>3, <2>4, <2>5, <2>6, <2>7, <2>8, <2>9, <2>10, <2>11, <2>12, <2>13
         DEF Next, Walk, Exchange, Elsewhere, Keyboard, Act, Lose, Noise, Deliver, Over, vars
  <1>3. CASE UNCHANGED vars
    BY <1>1, <1>3 DEF vars, WalkInv, TypeOK, TransportTypeOK, SendingInv, Sending, DrainInv,
                      CancelInv
  <1> QED
    BY <1>2, <1>3

LEMMA WalkInitial == Init => WalkInv
  <1> SUFFICES ASSUME Init PROVE WalkInv
    OBVIOUS
  <1>1. plan \in Plans /\ Len(plan.steps) \in Nat /\ NoReport \in ReportType
    BY PlanFacts, Reports DEF Init, WalkInit
  <1>2. TransportTypeOK
    BY <1>1, Queues, TransportAssumption
       DEF Init, TransportInit, TransportTypeOK, TransportAssumption, Failures
  <1>3. /\ plan \in Plans /\ pc = 1 /\ napped = 0 /\ cancel = FALSE /\ done = 0 /\ frames = 0
        /\ verdict = "none" /\ rested = 0 /\ late = 0 /\ phase = "closed"
    BY DEF Init, TransportInit, WalkInit
  <1>4. pc \in 1..(Len(plan.steps) + 1)
    BY <1>1, <1>3
  <1>5. TypeOK
    BY <1>1, <1>2, <1>3, <1>4 DEF TypeOK
  <1> QED
    BY <1>3, <1>5 DEF WalkInv, SendingInv, Sending, DrainInv, CancelInv

LEMMA WalkInvariant == Spec => []WalkInv
  BY WalkInitial, WalkStep, PTL DEF Spec

(***************************************************************************)
(* The executor and its transport are well typed, however often a transfer *)
(* is run again.                                                           *)
(***************************************************************************)
THEOREM TypeCorrect == Spec => []TypeOK
  BY WalkInvariant, PTL DEF WalkInv

(***************************************************************************)
(* send_all and sleep_cancellable: whenever the flag is raised, at most    *)
(* the report on its way out is still written.                             *)
(***************************************************************************)
THEOREM EscIsPrompt == Spec => []CancelIsPrompt
  <1>1. WalkInv => CancelIsPrompt
    BY DEF WalkInv, CancelInv, CancelIsPrompt
  <1> QED
    BY <1>1, WalkInvariant, PTL

--------------------------------------------------------------------------------
(***************************************************************************)
(* Counting.  What the gauge says is how many of the reports before the    *)
(* step the walk stands at there are.                                      *)
(***************************************************************************)
CountInv ==
    /\ done = Cardinality(SendsUpTo(plan.steps, pc - 1))
    /\ verdict = "ok" => done = plan.total

\* Where the walk stands, and what is left of the plan there.
LEMMA Standing ==
    ASSUME WalkInv, CountInv
    PROVE  /\ plan \in Plans /\ done \in Nat /\ plan.total \in Nat /\ done <= plan.total
           /\ pc \in Nat \ {0} /\ Len(plan.steps) \in Nat /\ pc <= Len(plan.steps) + 1
           /\ pc <= Len(plan.steps) /\ plan.steps[pc].do = "send" =>
                 /\ done + 1 = Cardinality(SendsUpTo(plan.steps, pc))
                 /\ done + 1 <= plan.total
           /\ pc <= Len(plan.steps) /\ plan.steps[pc].do # "send" =>
                 SendsUpTo(plan.steps, pc) = SendsUpTo(plan.steps, pc - 1)
           /\ pc = Len(plan.steps) + 1 => done = plan.total
  <1>1. /\ plan \in Plans /\ done \in Nat /\ Len(plan.steps) \in Nat
        /\ pc \in 1..(Len(plan.steps) + 1)
        /\ plan.total = Cardinality(SendsUpTo(plan.steps, Len(plan.steps)))
        /\ done = Cardinality(SendsUpTo(plan.steps, pc - 1))
    BY PlanFacts DEF WalkInv, TypeOK, CountInv
  <1>2. pc - 1 \in Nat /\ pc - 1 \in 0..Len(plan.steps) /\ (pc - 1) + 1 = pc
    BY <1>1
  <1>3. plan.total \in Nat /\ done <= plan.total
    BY <1>1, <1>2, Counts
  <1>4. pc <= Len(plan.steps) => pc \in 0..Len(plan.steps)
    BY <1>1
  <1>5. pc <= Len(plan.steps) => Cardinality(SendsUpTo(plan.steps, pc)) <= plan.total
    BY <1>1, <1>4, Counts
  <1>6. plan.steps[pc].do = "send" => done + 1 = Cardinality(SendsUpTo(plan.steps, pc))
    BY <1>1, <1>2, Counts
  <1>7. plan.steps[pc].do # "send" => SendsUpTo(plan.steps, pc) = SendsUpTo(plan.steps, pc - 1)
    BY <1>2, Counts
  <1>8. pc = Len(plan.steps) + 1 => pc - 1 = Len(plan.steps)
    BY <1>1
  <1> QED
    BY <1>1, <1>3, <1>5, <1>6, <1>7, <1>8

LEMMA CountStep == WalkInv /\ CountInv /\ [Next]_vars => CountInv'
  <1> SUFFICES ASSUME WalkInv, CountInv, [Next]_vars PROVE CountInv'
    OBVIOUS
  <1>1. ASSUME UNCHANGED <<plan, pc, done>>, verdict' = "ok" => verdict = "ok"
        PROVE  CountInv'
    BY <1>1 DEF CountInv
  <1>2. CASE Run
    <2>1. plan' = plan /\ pc' = 1 /\ done' = 0 /\ verdict' = "none" /\ pc' - 1 = 0
      BY <1>2 DEF Run
    <2> QED
      BY <2>1, Counts DEF CountInv
  <1>3. CASE Acknowledged
    <2>1. /\ plan' = plan /\ pc' = pc + 1 /\ done' = done + 1 /\ verdict' = verdict
          /\ Sending /\ phase = "await"
      BY <1>3 DEF Acknowledged, TakeAck, Go, Sending
    <2>2. done + 1 = Cardinality(SendsUpTo(plan.steps, pc)) /\ pc' - 1 = pc
      BY <2>1, Standing DEF WalkInv, SendingInv
    <2>3. verdict # "ok"
      BY <2>1, <2>2, Standing DEF CountInv, WalkInv, SendingInv
    <2> QED
      BY <2>1, <2>2, <2>3 DEF CountInv
  <1>4. CASE WakeUp \/ FrameIsDone
    <2>1. /\ UNCHANGED <<plan, done, verdict>> /\ pc' = pc + 1 /\ pc <= Len(plan.steps)
          /\ plan.steps[pc].do # "send"
      BY <1>4 DEF WakeUp, FrameIsDone, At
    <2>2. SendsUpTo(plan.steps, pc' - 1) = SendsUpTo(plan.steps, pc - 1)
      BY <2>1, Standing
    <2> QED
      BY <2>1, <2>2 DEF CountInv
  <1>5. CASE Stopped \/ Succeed \/ Abort
    <2>1. UNCHANGED <<plan, pc, done>> /\ (verdict' = "ok" => pc = Len(plan.steps) + 1)
      BY <1>5 DEF Stopped, Succeed, Abort, End
    <2> QED
      BY <2>1, Standing DEF CountInv
  <1>6. CASE SendNext \/ WriteReport \/ Nap \/ PressEsc \/ UNCHANGED walkVars \/ UNCHANGED vars
    BY <1>1, <1>6 DEF SendNext, WriteReport, Nap, PressEsc, walkVars, vars
  <1> QED
    BY <1>2, <1>3, <1>4, <1>5, <1>6 DEF Next, Walk, Exchange, Elsewhere, Over

LEMMA CountInit == Init => CountInv
  <1> SUFFICES ASSUME Init PROVE CountInv
    OBVIOUS
  <1>1. pc - 1 = 0 /\ done = 0 /\ verdict = "none"
    BY DEF Init, WalkInit
  <1> QED
    BY <1>1, Counts DEF CountInv

LEMMA CountInvariant == Spec => [](WalkInv /\ CountInv)
  BY WalkInvariant, CountInit, CountStep, PTL DEF Spec

(***************************************************************************)
(* total_reports: a transfer that succeeds has counted exactly the reports *)
(* of its plan, also when it is the second try.                            *)
(***************************************************************************)
THEOREM OkOnTotal == Spec => []EndsOnTotal
  <1>1. CountInv => EndsOnTotal
    BY DEF CountInv, EndsOnTotal
  <1> QED
    BY <1>1, CountInvariant, PTL

--------------------------------------------------------------------------------
(***************************************************************************)
(* The log.  What the gauge and the frame counter say, the report that was *)
(* acknowledged last, and how long the keyboard has been left alone since, *)
(* are what the log of the plan says of the steps behind the walk.         *)
(***************************************************************************)
Behind(t) ==
    /\ done = t[pc - 1].sent /\ frames = t[pc - 1].shown
    /\ phase = "ready" => current = t[pc - 1].last /\ rested = t[pc - 1].rest + napped
    /\ phase = "drain" /\ current = NoReport => pc = 1 /\ rested = 0 /\ napped = 0
    /\ napped # 0 => pc <= Len(plan.steps) /\ plan.steps[pc].do = "pause"

LogInv ==
    \E t \in [0..Len(plan.steps) -> Log] :
        t[0] = Blank /\ IsLog(Kind, plan.steps, t) /\ Behind(t)

\* A step of the walk moves the log by one step of the plan, or not at all.
LEMMA LogMoves ==
    ASSUME WalkInv, NEW t \in [0..Len(plan.steps) -> Log], t[0] = Blank,
           IsLog(Kind, plan.steps, t), Behind(t), Walk
    PROVE  Behind(t)'
  <1> DEFINE a == t[pc - 1]
             b == t[pc]
             x == plan.steps[pc]
  <1>1. /\ pc \in 1..(Len(plan.steps) + 1) /\ Len(plan.steps) \in Nat /\ (pc + 1) - 1 = pc
        /\ napped \in Nat /\ rested \in Nat /\ done \in Nat /\ frames \in Nat
        /\ Sending => pc <= Len(plan.steps) /\ x.do = "send" /\ x.report = current
    BY PlanFacts DEF WalkInv, TypeOK, SendingInv
  <1>2. /\ done = a.sent /\ frames = a.shown
        /\ phase = "ready" => current = a.last /\ rested = a.rest + napped
        /\ phase = "drain" /\ current = NoReport => pc = 1 /\ rested = 0 /\ napped = 0
        /\ napped # 0 => pc <= Len(plan.steps) /\ x.do = "pause"
    BY DEF Behind
  <1>3. ASSUME pc <= Len(plan.steps)
        PROVE  /\ b = After(a, x) /\ a.rest \in Nat
               /\ x.do = "send" => x.report # NoReport
    <2>1. pc \in 1..Len(plan.steps) /\ pc - 1 \in 0..Len(plan.steps)
      BY <1>1, <1>3
    <2>2. a \in Log /\ b = After(a, x) /\ Fits(Kind, a, x)
      BY <2>1 DEF IsLog
    <2> HIDE DEF a, b, x
    <2> QED
      BY <2>2 DEF Log, Fits
  <1>4. ASSUME UNCHANGED <<plan, pc, done, frames, napped>>, phase' # "ready",
               phase' = "drain" => current' # NoReport
        PROVE  Behind(t)'
    BY <1>2, <1>4 DEF Behind
  <1> HIDE DEF a, b, x
  <1>5. CASE Run
    <2>1. /\ pc' = 1 /\ napped' = 0 /\ rested' = 0 /\ done' = 0 /\ frames' = 0
          /\ phase' = "drain" /\ 1 - 1 = 0
      BY <1>5 DEF Run, Open, Go
    <2> QED
      BY <2>1 DEF Behind, Blank
  <1>6. CASE SendNext
    <2>1. /\ UNCHANGED <<plan, pc, done, frames, napped>> /\ phase' = "drain"
          /\ current' = x.report /\ x.do = "send" /\ pc <= Len(plan.steps)
      BY <1>6 DEF SendNext, BeginSend, Go, At, walkVars, x
    <2> QED
      BY <1>3, <1>4, <2>1
  <1>7. CASE WriteReport
    <2>1. UNCHANGED <<plan, pc, done, frames, napped>> /\ phase' = "await"
      BY <1>7 DEF WriteReport, Write, Go
    <2> QED
      BY <1>4, <2>1
  <1>8. CASE Acknowledged
    <2>1. /\ UNCHANGED <<plan, frames, napped, current>> /\ pc' = pc + 1 /\ done' = done + 1
          /\ rested' = 0 /\ phase' = "ready" /\ Sending
      BY <1>8 DEF Acknowledged, TakeAck, Go, Sending
    <2>2. b.sent = done' /\ b.shown = frames' /\ b.last = current' /\ b.rest = 0
      BY <1>1, <1>2, <1>3, <2>1 DEF After
    <2>3. napped = 0
      BY <1>1, <1>2, <2>1
    <2> QED
      BY <1>1, <2>1, <2>2, <2>3 DEF Behind, b
  <1>9. CASE Nap
    <2>1. /\ UNCHANGED <<phase, current, plan, pc, done, frames>> /\ phase = "ready"
          /\ pc <= Len(plan.steps) /\ x.do = "pause"
      BY <1>9 DEF Nap, At, transportVars, hostVars, x
    <2>2. PICK slice \in Int : napped' = napped + slice /\ rested' = rested + slice
      <3>1. x.ms \in Nat
        BY <1>1, <2>1, PlanFacts DEF x, WalkInv, TypeOK
      <3> DEFINE rest == x.ms - napped
                 slice == IF rest < CancelPoll THEN rest ELSE CancelPoll
      <3>2. napped' = napped + slice /\ rested' = rested + slice
        BY <1>9 DEF Nap, x
      <3>3. slice \in Int
        BY <1>1, <3>1 DEF CancelPoll
      <3> QED
        BY <3>2, <3>3
    <2>3. rested' = a.rest + napped'
      <3>1. a.rest \in Nat /\ rested = a.rest + napped
        BY <1>2, <1>3, <2>1
      <3> QED
        BY <1>1, <2>2, <3>1
    <2> QED
      BY <1>2, <2>1, <2>3 DEF Behind, a, x
  <1>10. CASE WakeUp
    <2>1. /\ UNCHANGED <<phase, current, plan, done, frames, rested>> /\ phase = "ready"
          /\ pc <= Len(plan.steps) /\ x.do = "pause" /\ pc' = pc + 1
          /\ napped = x.ms /\ napped' = 0
      BY <1>10 DEF WakeUp, At, transportVars, hostVars, x
    <2>2. b.sent = done /\ b.shown = frames /\ b.last = current /\ b.rest = a.rest + x.ms
      BY <1>2, <1>3, <2>1 DEF After
    <2>3. rested' = b.rest + napped'
      BY <1>1, <1>2, <1>3, <2>1, <2>2
    <2> QED
      BY <1>1, <2>1, <2>2, <2>3 DEF Behind, b
  <1>11. CASE FrameIsDone
    <2>1. /\ UNCHANGED <<phase, current, plan, done, rested, napped>> /\ phase = "ready"
          /\ pc <= Len(plan.steps) /\ x.do = "frame" /\ pc' = pc + 1 /\ frames' = frames + 1
      BY <1>11 DEF FrameIsDone, At, transportVars, hostVars, x
    <2>2. b.sent = done /\ b.shown = frames + 1 /\ b.last = current /\ b.rest = a.rest
      BY <1>2, <1>3, <2>1 DEF After
    <2>3. napped = 0
      BY <1>2, <2>1
    <2> QED
      BY <1>1, <1>2, <2>1, <2>2, <2>3 DEF Behind, b
  <1>12. CASE Stopped \/ Succeed \/ Abort
    <2>1. UNCHANGED <<plan, pc, done, frames, napped>> /\ phase' = "closed"
      BY <1>12 DEF Stopped, Succeed, Abort, End, Close
    <2> QED
      BY <1>4, <2>1
  <1> QED
    BY <1>5, <1>6, <1>7, <1>8, <1>9, <1>10, <1>11, <1>12 DEF Walk

\* What the transport, the keyboard and Esc do leaves it where it is.
LEMMA LogStays ==
    ASSUME WalkInv, NEW t \in [0..Len(plan.steps) -> Log], t[0] = Blank, Behind(t),
           Exchange \/ Elsewhere \/ PressEsc \/ UNCHANGED vars
    PROVE  Behind(t)'
  <1>1. UNCHANGED <<plan, pc, done, frames, napped, rested>>
    BY DEF Exchange, Elsewhere, PressEsc, vars, walkVars
  <1>2. CASE Drained
    <2>1. phase = "drain" /\ current' = current
          /\ phase' = IF current = NoReport THEN "ready" ELSE "write"
      BY <1>2 DEF Drained, Go
    <2>2. CASE current = NoReport
      <3>1. pc = 1 /\ rested = 0 /\ napped = 0 /\ pc - 1 = 0
        BY <2>1, <2>2 DEF Behind
      <3> QED
        BY <1>1, <2>1, <2>2, <3>1 DEF Behind, Blank
    <2>3. CASE current # NoReport
      BY <1>1, <2>1, <2>3 DEF Behind
    <2> QED
      BY <2>2, <2>3
  <1>3. CASE ~ Drained
    <2>1. /\ phase' = "ready" => phase = "ready" /\ current' = current
          /\ phase' = "drain" => phase = "drain" /\ current' = current
      BY <1>3 DEF Exchange, DrainRead, WriteBlocks, RoomAgain, WaitOn, RefuseAck, GiveUp,
                  GiveUpWriting, IoFails, Go, Fail, Elsewhere, Keyboard, Act, Lose, Noise,
                  Deliver, PressEsc, vars, transportVars, hostVars
    <2> QED
      BY <1>1, <2>1 DEF Behind
  <1> QED
    BY <1>2, <1>3

LEMMA LogStep == WalkInv /\ LogInv /\ [Next]_vars => LogInv'
  <1> SUFFICES ASSUME WalkInv, LogInv, [Next]_vars PROVE LogInv'
    OBVIOUS
  <1>1. PICK t \in [0..Len(plan.steps) -> Log] :
           t[0] = Blank /\ IsLog(Kind, plan.steps, t) /\ Behind(t)
    BY DEF LogInv
  <1>2. Behind(t)'
    BY <1>1, LogMoves, LogStays DEF Next, Over
  <1>3. plan' = plan /\ Kind' = Kind
    BY DEF Next, Walk, Run, SendNext, WriteReport, Acknowledged, Nap, WakeUp, FrameIsDone,
           Stopped, Succeed, Abort, End, Exchange, Elsewhere, PressEsc, Over, vars, walkVars,
           Kind, InGif
  <1> QED
    BY <1>1, <1>2, <1>3 DEF LogInv

LEMMA LogInit == Init => LogInv
  <1> SUFFICES ASSUME Init PROVE LogInv
    OBVIOUS
  <1>1. /\ plan \in Plans /\ pc - 1 = 0 /\ napped = 0 /\ done = 0 /\ frames = 0
        /\ rested = 0 /\ phase = "closed"
    BY DEF Init, WalkInit, TransportInit
  <1>2. PICK t \in [0..Len(plan.steps) -> Log] : t[0] = Blank /\ IsLog(Kind, plan.steps, t)
    BY <1>1, PlanLog DEF Planned
  <1>3. Behind(t)
    BY <1>1, <1>2 DEF Behind, Blank
  <1> QED
    BY <1>2, <1>3 DEF LogInv

LEMMA LogInvariant == Spec => [](WalkInv /\ CountInv /\ LogInv)
  BY CountInvariant, LogInit, LogStep, PTL DEF Spec

(***************************************************************************)
(* execute_gif: for any number of frames, faults and tries, FrameDone      *)
(* comes only after the header, the size and every block of that frame,    *)
(* and of all frames before it, have been acknowledged.                    *)
(***************************************************************************)
THEOREM FramesAreWhole == Spec => []FrameDoneIsWhole
  <1>1. ASSUME WalkInv, LogInv PROVE FrameDoneIsWhole
    <2>1. PICK t \in [0..Len(plan.steps) -> Log] :
             t[0] = Blank /\ IsLog(Kind, plan.steps, t) /\ Behind(t)
      BY <1>1 DEF LogInv
    <2>2. pc - 1 \in 0..Len(plan.steps) /\ plan.steps \in Seq(StepType) /\ frames \in Nat
      BY <1>1, PlanFacts DEF WalkInv, TypeOK
    <2>3. frames = 0 \/ done >= 2 + frames * FrameReports
      <3>1. t[pc - 1].shown = 0 \/ t[pc - 1].sent >= 2 + t[pc - 1].shown * FrameReports
        BY <2>1, <2>2, LogCounts
      <3> QED
        BY <2>1, <3>1 DEF Behind
    <2> QED
      BY <2>2, <2>3 DEF FrameDoneIsWhole, FrameReports
  <1> QED
    BY <1>1, LogInvariant, PTL

(***************************************************************************)
(* The pauses of execute_gif and execute_picture: before each report       *)
(* exactly as long as the report before it needs has been slept, however   *)
(* the pause was sliced, and never longer.                                 *)
(***************************************************************************)
THEOREM RestsAlwaysKept == Spec => RestsAreKept
  <1>1. ASSUME WalkInv, LogInv, [Next]_vars, phase = "ready", phase' = "drain"
        PROVE  rested = IF InGif /\ current = LastOfBlock THEN 30 ELSE RestAfter(current)
    <2>1. SendNext
      BY <1>1 DEF Next, Walk, Run, Open, WriteReport, Write, Acknowledged, TakeAck, Nap, WakeUp,
                  FrameIsDone, Stopped, Succeed, Abort, End, Close, Exchange, DrainRead, Drained,
                  WriteBlocks, RoomAgain, WaitOn, RefuseAck, GiveUp, GiveUpWriting, IoFails,
                  Go, Fail, Elsewhere, Keyboard, Act, Lose, Noise, Deliver, PressEsc, Over,
                  vars, transportVars, hostVars
    <2>2. PICK t \in [0..Len(plan.steps) -> Log] : IsLog(Kind, plan.steps, t) /\ Behind(t)
      BY <1>1 DEF LogInv
    <2>3. pc \in 1..Len(plan.steps) /\ plan.steps[pc].do = "send"
      BY <1>1, <2>1, PlanFacts DEF SendNext, At, WalkInv, TypeOK
    <2>4. /\ t[pc - 1].rest = Needed(Kind, t[pc - 1].last)
          /\ current = t[pc - 1].last /\ rested = t[pc - 1].rest + napped /\ napped = 0
      BY <1>1, <2>2, <2>3 DEF IsLog, Fits, Behind
    <2>5. t[pc - 1].rest \in Nat
      <3>1. pc - 1 \in 0..Len(plan.steps)
        BY <2>3
      <3>2. t[pc - 1] \in Log
        BY <3>1
      <3> QED
        BY <3>2 DEF Log
    <2>6. rested = Needed(Kind, current)
      BY <2>4, <2>5
    <2> QED
      BY <2>6 DEF Needed, Kind
  <1>2. WalkInv /\ LogInv /\ [Next]_vars
           => [phase = "ready" /\ phase' = "drain" =>
                  rested = IF InGif /\ current = LastOfBlock
                           THEN 30 ELSE RestAfter(current)]_vars
    BY <1>1
  <1> QED
    BY <1>2, LogInvariant, PTL DEF Spec, RestsAreKept

--------------------------------------------------------------------------------
(***************************************************************************)
(* Acknowledgements.  With a single session the input reports come to the  *)
(* host in the order of Pipe: what the kernel holds, then what is under    *)
(* way.  Between two reports only noise and repeats of the last            *)
(* acknowledgement can be in it; while a report that the keyboard has not  *)
(* acted on is being sent its acknowledgement is not in it; and once it    *)
(* has acted on it, nothing but repeats and noise can follow the first     *)
(* acknowledgement.                                                        *)
(***************************************************************************)
Pipe == inbox \o air

Settled(q, r) ==
    \A i, j \in DOMAIN q : i < j /\ q[i] = r => q[j] \in {Junk, r}

OpenInv ==
    /\ session \in {0, 1}
    /\ verdict # "none" => phase = "closed"
    /\ session = 0 =>
          /\ phase = "closed" /\ verdict = "none" /\ inbox = <<>> /\ wire = <<>>
          /\ Range(air) \subseteq {Junk} /\ done = 0 /\ landed = 0
    /\ session = 1 /\ phase = "closed" => verdict # "none"

LandInv ==
    /\ landed \in {done, done + 1} /\ landed <= plan.total
    /\ phase \in {"ready", "drain", "write", "full"} => landed = done

WireInv ==
    wire # <<>> =>
        /\ Len(wire) = 1 /\ Head(wire).session = session
        /\ phase \in {"await", "failed", "closed"}
        /\ phase = "await" => Head(wire).report = current
        /\ phase = "closed" => verdict = "error"
        /\ landed = done /\ done < plan.total

PipeInv ==
    /\ phase = "ready" \/ (phase = "drain" /\ current = NoReport)
          => Range(Pipe) \subseteq {Junk, current}
    /\ Sending /\ landed = done => current \notin Range(Pipe)
    /\ Sending /\ landed # done => Settled(Pipe, current)

OnceInv == OpenInv /\ LandInv /\ WireInv /\ PipeInv

LEMMA PipeOf ==
    ASSUME NEW S, NEW q \in Seq(S), NEW r \in Seq(S)
    PROVE  /\ q \o r \in Seq(S) /\ Range(q \o r) = Range(q) \cup Range(r)
           /\ q # <<>> => /\ Head(q \o r) = Head(q) /\ Tail(q) \o r = Tail(q \o r)
                          /\ q \o r # <<>>
           /\ r # <<>> => Append(q, Head(r)) \o Tail(r) = q \o r
           /\ \A s \in Seq(S) : q \o (r \o s) = (q \o r) \o s
  <1>1. q \o r \in Seq(S) /\ Len(q) \in Nat /\ Len(r) \in Nat
    BY ConcatProperties, LenProperties
  <1>2. ASSUME q # <<>>
        PROVE  Head(q \o r) = Head(q) /\ Tail(q) \o r = Tail(q \o r) /\ q \o r # <<>>
    <2>1. Len(q) > 0 /\ Len(q \o r) = Len(q) + Len(r) /\ Tail(q) \in Seq(S) /\ q \o r # <<>>
      BY <1>1, <1>2, ConcatProperties
    <2>2. Head(q \o r) = Head(q)
      BY <1>1, <2>1, ConcatProperties
    <2>3. /\ Tail(q) \o r \in Seq(S) /\ Tail(q \o r) \in Seq(S)
          /\ Len(Tail(q) \o r) = Len(q) - 1 + Len(r) /\ Len(Tail(q \o r)) = Len(q) + Len(r) - 1
      BY <1>1, <2>1, ConcatProperties
    <2>4. ASSUME NEW i \in 1..Len(Tail(q) \o r)
          PROVE  (Tail(q) \o r)[i] = Tail(q \o r)[i]
      <3>1. Tail(q \o r)[i] = (q \o r)[i + 1]
        BY <1>1, <2>1, <2>3, <2>4
      <3>2. (q \o r)[i + 1] = IF i + 1 <= Len(q) THEN q[i + 1] ELSE r[i + 1 - Len(q)]
        BY <1>1, <2>1, <2>3, <2>4, ConcatProperties
      <3>3. (Tail(q) \o r)[i] =
                IF i <= Len(q) - 1 THEN Tail(q)[i] ELSE r[i - (Len(q) - 1)]
        BY <1>1, <2>1, <2>3, <2>4, ConcatProperties
      <3>4. i <= Len(q) - 1 => Tail(q)[i] = q[i + 1]
        BY <1>1, <2>1, <2>3, <2>4
      <3>5. i + 1 - Len(q) = i - (Len(q) - 1) /\ (i + 1 <= Len(q) <=> i <= Len(q) - 1)
        BY <1>1, <2>3
      <3> QED
        BY <3>1, <3>2, <3>3, <3>4, <3>5
    <2> QED
      BY <2>1, <2>2, <2>3, <2>4, SeqEqual
  <1>3. ASSUME r # <<>> PROVE Append(q, Head(r)) \o Tail(r) = q \o r
    <2>1. r = <<Head(r)>> \o Tail(r) /\ Head(r) \in S /\ Tail(r) \in Seq(S) /\ <<Head(r)>> \in Seq(S)
      BY <1>3
    <2>2. Append(q, Head(r)) = q \o <<Head(r)>>
      BY <2>1, AppendIsConcat
    <2> QED
      BY <2>1, <2>2, ConcatAssociative
  <1>4. Range(q \o r) = Range(q) \cup Range(r)
    BY RangeConcatenation
  <1>5. ASSUME NEW s \in Seq(S) PROVE q \o (r \o s) = (q \o r) \o s
    BY ConcatAssociative
  <1> QED
    BY <1>1, <1>2, <1>3, <1>4, <1>5

LEMMA SettledQueues ==
    ASSUME NEW S, NEW q \in Seq(S), NEW r
    PROVE  /\ r \notin Range(q) => Settled(q, r)
           /\ Settled(q, r) /\ q # <<>> => Settled(Tail(q), r)
           /\ Settled(q, r) /\ q # <<>> /\ Head(q) = r => Range(Tail(q)) \subseteq {Junk, r}
           /\ q # <<>> => Range(Tail(q)) \subseteq Range(q) /\ Head(q) \in Range(q)
           /\ \A s \in Seq(S) :
                 Settled(q, r) /\ Range(s) \subseteq {Junk, r} => Settled(q \o s, r)
  <1>1. r \notin Range(q) => Settled(q, r)
    BY DEF Range, Settled
  <1>2. ASSUME q # <<>>
        PROVE  /\ Len(q) \in Nat \ {0} /\ DOMAIN q = 1..Len(q) /\ Head(q) = q[1]
               /\ DOMAIN Tail(q) = 1..(Len(q) - 1)
               /\ \A i \in 1..(Len(q) - 1) : Tail(q)[i] = q[i + 1]
    BY <1>2
  <1>3. ASSUME q # <<>>, Settled(q, r) PROVE Settled(Tail(q), r)
    <2> SUFFICES ASSUME NEW i \in DOMAIN Tail(q), NEW j \in DOMAIN Tail(q), i < j,
                        Tail(q)[i] = r
                 PROVE  Tail(q)[j] \in {Junk, r}
      BY DEF Settled
    <2>1. /\ i + 1 \in DOMAIN q /\ j + 1 \in DOMAIN q /\ i + 1 < j + 1
          /\ q[i + 1] = r /\ Tail(q)[j] = q[j + 1]
      BY <1>2, <1>3
    <2> QED
      BY <1>3, <2>1 DEF Settled
  <1>4. ASSUME q # <<>> PROVE Range(Tail(q)) \subseteq Range(q) /\ Head(q) \in Range(q)
    <2>1. \A i \in DOMAIN Tail(q) : i + 1 \in DOMAIN q /\ Tail(q)[i] = q[i + 1]
      BY <1>2, <1>4
    <2>2. 1 \in DOMAIN q
      BY <1>2, <1>4
    <2> QED
      BY <1>2, <1>4, <2>1, <2>2 DEF Range
  <1>5. ASSUME q # <<>>, Settled(q, r), Head(q) = r PROVE Range(Tail(q)) \subseteq {Junk, r}
    <2>1. \A i \in DOMAIN Tail(q) :
             1 \in DOMAIN q /\ i + 1 \in DOMAIN q /\ 1 < i + 1 /\ q[1] = r
                /\ Tail(q)[i] = q[i + 1]
      BY <1>2, <1>5
    <2>2. \A i \in DOMAIN Tail(q) : Tail(q)[i] \in {Junk, r}
      BY <1>5, <2>1 DEF Settled
    <2> QED
      BY <2>2 DEF Range
  <1>6. ASSUME NEW s \in Seq(S), Settled(q, r), Range(s) \subseteq {Junk, r}
        PROVE  Settled(q \o s, r)
    <2> SUFFICES ASSUME NEW i \in DOMAIN (q \o s), NEW j \in DOMAIN (q \o s), i < j,
                        (q \o s)[i] = r
                 PROVE  (q \o s)[j] \in {Junk, r}
      BY DEF Settled
    <2>1. /\ Len(q) \in Nat /\ Len(s) \in Nat /\ DOMAIN q = 1..Len(q) /\ DOMAIN s = 1..Len(s)
          /\ DOMAIN (q \o s) = 1..(Len(q) + Len(s))
      BY LenProperties, ConcatProperties
    <2>2. \A k \in 1..(Len(q) + Len(s)) :
             (q \o s)[k] = IF k <= Len(q) THEN q[k] ELSE s[k - Len(q)]
      BY ConcatProperties
    <2>3. CASE j <= Len(q)
      <3>1. i \in DOMAIN q /\ j \in DOMAIN q /\ q[i] = r /\ (q \o s)[j] = q[j]
        BY <2>1, <2>2, <2>3
      <3> QED
        BY <1>6, <3>1 DEF Settled
    <2>4. CASE ~(j <= Len(q))
      <3>1. j - Len(q) \in DOMAIN s /\ (q \o s)[j] = s[j - Len(q)]
        BY <2>1, <2>2, <2>4
      <3> QED
        BY <1>6, <3>1 DEF Range
    <2> QED
      BY <2>3, <2>4
  <1> QED
    BY <1>1, <1>3, <1>4, <1>5, <1>6

LEMMA NoiseLast ==
    ASSUME NEW q \in Seq(ReportType)
    PROVE  Range(q \o <<Junk>>) = Range(q) \cup {Junk}
  <1>1. PICK j : j = <<Junk>>
    OBVIOUS
  <1>2. j \in Seq(ReportType) /\ Range(j) = {Junk}
    BY <1>1, Reports DEF Range
  <1>3. Range(q \o j) = Range(q) \cup Range(j)
    BY <1>2, RangeConcatenation
  <1> QED
    BY <1>1, <1>2, <1>3

LEMMA OnceFacts ==
    ASSUME WalkInv
    PROVE  /\ inbox \in Seq(ReportType) /\ air \in Seq(ReportType) /\ Pipe \in Seq(ReportType)
           /\ wire \in Seq([report : ReportType, session : Nat])
           /\ landed \in Nat /\ done \in Nat /\ session \in Nat
           /\ Sending => current \notin {NoReport, Junk}
  <1>1. /\ inbox \in Seq(ReportType) /\ air \in Seq(ReportType)
        /\ wire \in Seq([report : ReportType, session : Nat])
        /\ landed \in Nat /\ done \in Nat /\ session \in Nat
        /\ plan \in Plans /\ pc \in 1..(Len(plan.steps) + 1)
    BY DEF WalkInv, TypeOK, TransportTypeOK
  <1>2. Pipe \in Seq(ReportType)
    BY <1>1, PipeOf DEF Pipe
  <1>3. Sending => current \notin {NoReport, Junk}
    BY <1>1, PlanFacts DEF WalkInv, SendingInv
  <1> QED
    BY <1>1, <1>2, <1>3

\* A report that is about to be sent differs from the one sent before it.
LEMMA NextDiffers ==
    ASSUME WalkInv, LogInv, At("send")
    PROVE  plan.steps[pc].report \notin {Junk, NoReport, current}
  <1>1. PICK t \in [0..Len(plan.steps) -> Log] : IsLog(Kind, plan.steps, t) /\ Behind(t)
    BY DEF LogInv
  <1>2. pc \in 1..Len(plan.steps) /\ phase = "ready" /\ plan.steps[pc].do = "send"
    BY PlanFacts DEF WalkInv, TypeOK, At
  <1>3. Fits(Kind, t[pc - 1], plan.steps[pc]) /\ current = t[pc - 1].last
    BY <1>1, <1>2 DEF IsLog, Behind
  <1> QED
    BY <1>2, <1>3 DEF Fits

\* What the walk does with the host's side of the cable.
LEMMA OnceWalk ==
    ASSUME MaxSessions = 1, WalkInv, CountInv, LogInv, OnceInv, Walk
    PROVE  OnceInv'
  <1> USE DEF OnceInv, Go
  <1>1. CASE Run
    <2>1. session = 0
      BY <1>1, OnceFacts DEF Run, OpenInv
    <2>2. /\ session' = 1 /\ phase' = "drain" /\ current' = NoReport /\ inbox' = <<>>
          /\ landed' = 0 /\ done' = 0 /\ wire' = <<>> /\ air' = air /\ verdict' = "none"
          /\ plan' = plan
      BY <1>1, <2>1 DEF Run, Open, OpenInv
    <2>3. Pipe' = air
      BY <2>2, OnceFacts, ConcatEmptySeq DEF Pipe
    <2>4. ~Sending'
      BY <2>2 DEF Sending
    <2>5. 0 <= plan.total
      BY Standing
    <2> QED
      BY <2>1, <2>2, <2>3, <2>4, <2>5 DEF OpenInv, LandInv, WireInv, PipeInv
  <1>2. CASE SendNext
    <2>1. /\ phase = "ready" /\ phase' = "drain" /\ current' = plan.steps[pc].report
          /\ UNCHANGED <<session, verdict, inbox, wire, air, landed, done, plan>>
      BY <1>2 DEF SendNext, At, BeginSend, cableVars, walkVars
    <2>2. current' \notin Range(Pipe) /\ current' # NoReport
      BY <1>2, <2>1, NextDiffers DEF SendNext, PipeInv
    <2>3. Pipe' = Pipe
      BY <2>1 DEF Pipe
    <2> QED
      BY <2>1, <2>2, <2>3 DEF OpenInv, LandInv, WireInv, PipeInv
  <1>3. CASE WriteReport
    <2>1. /\ phase = "write" /\ phase' = "await"
          /\ wire' = Append(wire, [report |-> current, session |-> session])
          /\ UNCHANGED <<current, session, verdict, inbox, air, landed, done, plan>>
      BY <1>3 DEF WriteReport, Write
    <2>2. Sending /\ landed = done /\ wire = <<>> /\ done < plan.total
      <3>1. Sending /\ landed = done /\ wire = <<>>
        BY <2>1 DEF Sending, LandInv, WireInv
      <3>2. done + 1 <= plan.total /\ done \in Nat /\ plan.total \in Nat
        BY <3>1, Standing DEF WalkInv, SendingInv
      <3> QED
        BY <3>1, <3>2
    <2>3. /\ Len(wire') = 1 /\ Head(wire').session = session /\ Head(wire').report = current
      BY <2>1, <2>2
    <2>4. Pipe' = Pipe
      BY <2>1 DEF Pipe
    <2> QED
      BY <2>1, <2>2, <2>3, <2>4 DEF OpenInv, LandInv, WireInv, PipeInv
  <1>4. CASE Acknowledged
    <2>1. /\ phase = "await" /\ phase' = "ready" /\ inbox # <<>> /\ Head(inbox) = current
          /\ inbox' = Tail(inbox) /\ pc' = pc + 1 /\ done' = done + 1
          /\ UNCHANGED <<current, session, verdict, air, wire, landed, plan>>
      BY <1>4 DEF Acknowledged, TakeAck
    <2>2. Head(Pipe) = current /\ Pipe # <<>> /\ Pipe' = Tail(Pipe)
      <3>1. inbox \in Seq(ReportType) /\ air \in Seq(ReportType)
        BY OnceFacts
      <3>2. /\ Head(inbox \o air) = Head(inbox) /\ inbox \o air # <<>>
            /\ Tail(inbox) \o air = Tail(inbox \o air)
        BY <2>1, <3>1, PipeOf
      <3> QED
        BY <2>1, <3>2 DEF Pipe
    <2>3. current \in Range(Pipe) /\ Sending
      BY <2>1, <2>2, OnceFacts, SettledQueues DEF Sending
    <2>4. landed = done + 1 /\ Settled(Pipe, current) /\ wire = <<>> /\ landed <= plan.total
      BY <2>3 DEF PipeInv, LandInv, WireInv
    <2>5. Range(Pipe') \subseteq {Junk, current}
      BY <2>2, <2>4, OnceFacts, SettledQueues
    <2>7. ~Sending'
      BY <2>1 DEF Sending
    <2> QED
      BY <2>1, <2>4, <2>5, <2>7, OnceFacts DEF OpenInv, LandInv, WireInv, PipeInv
  <1>5. CASE Nap \/ WakeUp \/ FrameIsDone
    <2>1. /\ UNCHANGED <<transportVars, plan, done, verdict>> /\ phase = "ready"
          /\ pc' = pc \/ (pc' = pc + 1 /\ pc <= Len(plan.steps) /\ plan.steps[pc].do # "send")
      BY <1>5 DEF Nap, WakeUp, FrameIsDone, At
    <2>2. SendsUpTo(plan.steps, pc' - 1) = SendsUpTo(plan.steps, pc - 1)
      BY <2>1, Standing
    <2> QED
      BY <2>1, <2>2 DEF transportVars, hostVars, cableVars, OpenInv, LandInv, WireInv, PipeInv,
                        Pipe, Sending, SendsUpTo
  <1>6. CASE Stopped \/ Succeed \/ Abort
    <2>1. /\ phase \in {"ready", "failed"} /\ phase' = "closed"
          /\ verdict' # "none" /\ (phase = "failed" => verdict' = "error")
          /\ UNCHANGED <<session, wire, landed, done, plan>>
      BY <1>6 DEF Stopped, At, Succeed, Abort, End, Close
    <2> QED
      BY <2>1 DEF OpenInv, LandInv, WireInv, PipeInv, Sending
  <1> QED
    BY <1>1, <1>2, <1>3, <1>4, <1>5, <1>6 DEF Walk

LEMMA OnceExchange ==
    ASSUME WalkInv, CountInv, OnceInv, Exchange
    PROVE  OnceInv'
  <1> USE DEF OnceInv, Go
  <1>1. UNCHANGED <<plan, pc, done, verdict>>
    BY DEF Exchange, walkVars
  <1>2. CASE DrainRead
    <2>1. /\ phase = "drain" /\ inbox # <<>> /\ inbox' = Tail(inbox)
          /\ phase' \in {"drain", "failed"}
          /\ UNCHANGED <<current, session, wire, air, landed>>
      BY <1>2 DEF DrainRead, Fail
    <2>2. Pipe' = Tail(Pipe) /\ Range(Pipe') \subseteq Range(Pipe)
      <3>1. inbox \in Seq(ReportType) /\ air \in Seq(ReportType) /\ Pipe \in Seq(ReportType)
        BY OnceFacts
      <3>2. inbox \o air # <<>> /\ Tail(inbox) \o air = Tail(inbox \o air)
        BY <2>1, <3>1, PipeOf
      <3>3. Pipe # <<>> /\ Pipe' = Tail(Pipe)
        BY <2>1, <3>2 DEF Pipe
      <3> QED
        BY <3>1, <3>3, SettledQueues
    <2>3. landed = done /\ wire = <<>>
      BY <2>1 DEF LandInv, WireInv
    <2>4. Sending' => Sending
      BY <2>1 DEF Sending
    <2> QED
      BY <1>1, <2>1, <2>2, <2>3, <2>4 DEF OpenInv, LandInv, WireInv, PipeInv
  <1>3. CASE Drained
    <2>1. /\ phase = "drain" /\ phase' = (IF current = NoReport THEN "ready" ELSE "write")
          /\ UNCHANGED <<current, session, inbox, wire, air, landed>>
      BY <1>3 DEF Drained, cableVars
    <2>2. landed = done /\ wire = <<>> /\ Pipe' = Pipe /\ (Sending' <=> Sending)
      BY <2>1 DEF LandInv, WireInv, Pipe, Sending
    <2> QED
      BY <1>1, <2>1, <2>2 DEF OpenInv, LandInv, WireInv, PipeInv
  <1>4. CASE WriteBlocks \/ RoomAgain \/ WaitOn
    <2>1. /\ \/ phase \in {"write", "full"} /\ phase' \in {"write", "full"}
             \/ phase \in {"full", "await"} /\ phase' = phase
          /\ UNCHANGED <<current, session, inbox, wire, air, landed>>
      BY <1>4 DEF WriteBlocks, RoomAgain, WaitOn, cableVars
    <2>2. Pipe' = Pipe /\ (Sending' <=> Sending)
      BY <2>1 DEF Pipe, Sending
    <2> QED
      BY <1>1, <2>1, <2>2 DEF OpenInv, LandInv, WireInv, PipeInv
  <1>5. CASE RefuseAck \/ GiveUp \/ GiveUpWriting \/ IoFails
    <2>1. /\ phase \in {"drain", "write", "full", "await"} /\ phase' = "failed"
          /\ UNCHANGED <<session, wire, landed>>
      BY <1>5 DEF RefuseAck, GiveUp, GiveUpWriting, IoFails, Fail, cableVars
    <2> QED
      BY <1>1, <2>1 DEF OpenInv, LandInv, WireInv, PipeInv, Sending
  <1> QED
    BY <1>2, <1>3, <1>4, <1>5 DEF Exchange

\* The keyboard and the cable, at any moment.
LEMMA OnceElsewhere ==
    ASSUME WalkInv, CountInv, OnceInv, Elsewhere
    PROVE  OnceInv'
  <1> USE DEF OnceInv
  <1>1. /\ UNCHANGED <<plan, pc, done, verdict, phase, current, session>>
        /\ Sending' = Sending
    BY DEF Elsewhere, Keyboard, Act, Lose, Noise, Deliver, walkVars, hostVars, Sending
  <1>2. Junk \in ReportType /\ <<Junk>> \in Seq(ReportType) /\ Range(<<Junk>>) = {Junk}
    BY Reports DEF Range
  <1>3. CASE Act
    <2>1. /\ wire # <<>> /\ wire' = Tail(wire) /\ inbox' = inbox
          /\ landed' = IF Head(wire).session = session THEN landed + 1 ELSE landed
      BY <1>3 DEF Act
    <2>2. /\ wire' = <<>> /\ Head(wire).session = session /\ landed = done /\ done < plan.total
          /\ phase \in {"await", "failed", "closed"} /\ session # 0
          /\ phase = "await" => Head(wire).report = current
      <3>1. wire \in Seq([report : ReportType, session : Nat])
        BY OnceFacts
      <3>2. Len(wire) = 1 /\ wire' = <<>>
        BY <2>1, <3>1 DEF WireInv
      <3> QED
        BY <2>1, <3>2 DEF WireInv, OpenInv
    <2>3. landed' = done + 1 /\ landed' <= plan.total
      BY <2>1, <2>2, Standing
    <2>4. PICK n \in Answers : air' = air \o [i \in 1..n |-> Head(wire).report]
      BY <1>3 DEF Act
    <2> DEFINE s == [i \in 1..n |-> Head(wire).report]
    <2>5. s \in Seq(ReportType) /\ Range(s) \subseteq {Head(wire).report}
      <3>1. wire \in Seq([report : ReportType, session : Nat]) /\ n \in Nat
        BY <2>4, OnceFacts DEF Answers
      <3>2. Head(wire) \in [report : ReportType, session : Nat]
        BY <2>1, <3>1, Rests
      <3>3. Head(wire).report \in ReportType
        BY <3>2
      <3> QED
        BY <3>1, <3>3 DEF Range
    <2>6. air' = air \o s
      BY <2>4
    <2> HIDE DEF s
    <2>7. Pipe' = Pipe \o s
      <3>1. inbox \in Seq(ReportType) /\ air \in Seq(ReportType)
        BY OnceFacts
      <3>2. inbox \o (air \o s) = (inbox \o air) \o s
        BY <2>5, <3>1, ConcatAssociative
      <3> QED
        BY <2>1, <2>6, <3>2 DEF Pipe
    <2>8. phase = "await" => Settled(Pipe', current)
      <3>1. ASSUME phase = "await" PROVE Settled(Pipe, current) /\ Range(s) \subseteq {Junk, current}
        BY <2>2, <2>5, <3>1, OnceFacts, SettledQueues DEF PipeInv, Sending
      <3> QED
        BY <2>5, <2>7, <3>1, OnceFacts, SettledQueues
    <2>9. landed' # done /\ landed' \in {done, done + 1}
      BY <2>3, OnceFacts
    <2> QED
      BY <1>1, <2>2, <2>3, <2>8, <2>9 DEF OpenInv, LandInv, WireInv, PipeInv, Sending
  <1>4. CASE Lose
    <2>1. wire # <<>> /\ wire' = Tail(wire) /\ UNCHANGED <<inbox, air, landed>>
      BY <1>4 DEF Lose
    <2>2. wire' = <<>>
      BY <2>1, OnceFacts DEF WireInv
    <2> QED
      BY <1>1, <2>1, <2>2 DEF OpenInv, LandInv, WireInv, PipeInv, Pipe
  <1>5. CASE Noise
    <2>1. UNCHANGED <<inbox, wire, landed>> /\ air' = air \o <<Junk>>
      BY <1>2, <1>5, OnceFacts, AppendIsConcat DEF Noise
    <2>2. Pipe' = Pipe \o <<Junk>>
      <3>1. inbox \in Seq(ReportType) /\ air \in Seq(ReportType)
        BY OnceFacts
      <3>2. inbox \o (air \o <<Junk>>) = (inbox \o air) \o <<Junk>>
        BY <1>2, <3>1, PipeOf
      <3> QED
        BY <2>1, <3>2 DEF Pipe
    <2>3. Range(Pipe') = Range(Pipe) \cup {Junk} /\ Range(air') = Range(air) \cup {Junk}
      <3>1. air \in Seq(ReportType) /\ Pipe \in Seq(ReportType)
        BY OnceFacts
      <3> QED
        BY <2>1, <2>2, <3>1, NoiseLast
    <2>4. Settled(Pipe, current) => Settled(Pipe', current)
      BY <1>2, <2>2, OnceFacts, SettledQueues
    <2>5. Sending => current # Junk
      BY OnceFacts
    <2> QED
      BY <1>1, <2>1, <2>3, <2>4, <2>5 DEF OpenInv, LandInv, WireInv, PipeInv
  <1>6. CASE Deliver
    <2>1. /\ UNCHANGED <<wire, landed>> /\ air # <<>> /\ air' = Tail(air)
          /\ phase = "closed" => inbox' = inbox
          /\ phase # "closed" => inbox' = Append(inbox, Head(air))
      BY <1>6 DEF Deliver
    <2>2. Range(air') \subseteq Range(air)
      BY <2>1, OnceFacts, SettledQueues
    <2>3. phase # "closed" => Pipe' = Pipe
      <3>1. inbox \in Seq(ReportType) /\ air \in Seq(ReportType)
        BY OnceFacts
      <3>2. Append(inbox, Head(air)) \o Tail(air) = inbox \o air
        BY <2>1, <3>1, PipeOf
      <3> QED
        BY <2>1, <3>2 DEF Pipe
    <2>4. phase = "closed" => ~Sending
      BY DEF Sending
    <2> QED
      BY <1>1, <2>1, <2>2, <2>3, <2>4 DEF OpenInv, LandInv, WireInv, PipeInv
  <1> QED
    BY <1>3, <1>4, <1>5, <1>6 DEF Elsewhere, Keyboard

LEMMA OnceStep ==
    ASSUME MaxSessions = 1
    PROVE  WalkInv /\ CountInv /\ LogInv /\ OnceInv /\ [Next]_vars => OnceInv'
  <1> SUFFICES ASSUME WalkInv, CountInv, LogInv, OnceInv, [Next]_vars PROVE OnceInv'
    OBVIOUS
  <1>1. CASE PressEsc \/ Over \/ UNCHANGED vars
    <2>1. UNCHANGED <<transportVars, plan, pc, done, verdict>>
      BY <1>1 DEF PressEsc, Over, vars, walkVars
    <2> QED
      BY <2>1 DEF transportVars, hostVars, cableVars, OnceInv, OpenInv, LandInv, WireInv,
                  PipeInv, Pipe, Sending
  <1> QED
    BY <1>1, OnceWalk, OnceExchange, OnceElsewhere DEF Next

LEMMA OnceInit == Init => OnceInv
  <1> SUFFICES ASSUME Init PROVE OnceInv
    OBVIOUS
  <1>1. /\ phase = "closed" /\ session = 0 /\ inbox = <<>> /\ wire = <<>> /\ air = <<>>
        /\ landed = 0 /\ done = 0 /\ verdict = "none"
    BY DEF Init, TransportInit, WalkInit
  <1>2. WalkInv /\ CountInv
    BY WalkInitial, CountInit
  <1>3. 0 <= plan.total /\ Range(air) = {}
    BY <1>1, <1>2, Standing DEF Range
  <1> QED
    BY <1>1, <1>3 DEF OnceInv, OpenInv, LandInv, WireInv, PipeInv, Sending

LEMMA OnceInvariant ==
    ASSUME MaxSessions = 1
    PROVE  Spec => [](WalkInv /\ CountInv /\ OnceInv)
  <1>1. WalkInv /\ CountInv /\ LogInv /\ OnceInv /\ [Next]_vars => OnceInv'
    BY OnceStep
  <1> QED
    BY <1>1, LogInvariant, OnceInit, PTL DEF Spec

(***************************************************************************)
(* send_report and send_all, over a keyboard that loses, repeats, invents  *)
(* and delays what it says: in a transfer that is run once, each report    *)
(* that counts has taken effect, and at most one that does not has.        *)
(***************************************************************************)
THEOREM OneInDoubtOnce ==
    ASSUME MaxSessions = 1
    PROVE  Spec => []OneInDoubt
  <1>1. WalkInv /\ CountInv /\ OnceInv => OneInDoubt
    BY OnceFacts DEF OnceInv, LandInv, OneInDoubt
  <1> QED
    BY <1>1, OnceInvariant, PTL

--------------------------------------------------------------------------------
(***************************************************************************)
(* The executor over the transport implements PrefixTransfer.              *)
(***************************************************************************)
LEMMA TransferStep ==
    ASSUME WalkInv, CountInv, OnceInv, WalkInv', CountInv', OnceInv', [Next]_vars,
           MaxSessions = 1
    PROVE  [Transfer!Next]_(Transfer!transferVars)
  <1> DEFINE doubt == verdict = "error" /\ wire # <<>>
  <1> USE DEF Transfer!Next, Transfer!transferVars, Transfer!Land, Transfer!Succeed,
              Transfer!Stop, Transfer!Fail, Transfer!Settle
  <1>1. CASE UNCHANGED <<plan, landed, verdict, wire>>
    BY <1>1
  <1>2. CASE Run
    <2>1. session = 0 /\ landed = 0 /\ verdict = "none"
      BY <1>2, OnceFacts DEF Run, OnceInv, OpenInv
    <2> QED
      BY <1>2, <2>1 DEF Run, Open
  <1>3. CASE WriteReport
    <2>1. UNCHANGED <<plan, landed, verdict>> /\ verdict = "none"
      BY <1>3 DEF WriteReport, Write, Go, OnceInv, OpenInv
    <2> QED
      BY <2>1
  <1>4. CASE Stopped \/ Succeed
    <2>1. /\ UNCHANGED <<plan, landed>> /\ verdict = "none" /\ wire' = wire
          /\ verdict' = "cancelled" \/ (verdict' = "ok" /\ landed = plan.total)
      <3>1. phase = "ready" /\ landed = done
        BY <1>4 DEF Stopped, Succeed, At, OnceInv, LandInv
      <3> QED
        BY <1>4, <3>1, Standing DEF Stopped, Succeed, At, End, Close
    <2> QED
      BY <2>1
  <1>5. CASE Abort
    <2>1. UNCHANGED <<plan, landed, wire>> /\ verdict = "none" /\ verdict' = "error"
      BY <1>5 DEF Abort, End, Close, OnceInv, OpenInv
    <2> QED
      BY <2>1
  <1>6. CASE Act /\ UNCHANGED walkVars
    <2>1. UNCHANGED <<plan, verdict>> /\ wire # <<>> /\ wire' = <<>>
      BY <1>6, OnceFacts DEF Act, walkVars, OnceInv, WireInv
    <2>2. landed' = landed + 1 /\ landed < plan.total
      BY <1>6, <2>1 DEF Act, OnceInv, WireInv
    <2>3. verdict \in {"none", "error"}
      BY <2>1 DEF OnceInv, WireInv, OpenInv
    <2> QED
      BY <2>1, <2>2, <2>3
  <1>7. CASE Lose /\ UNCHANGED walkVars
    <2>1. UNCHANGED <<plan, verdict, landed>> /\ wire # <<>> /\ wire' = Tail(wire)
          /\ landed < plan.total
      BY <1>7 DEF Lose, walkVars, OnceInv, WireInv
    <2>2. wire' = <<>>
      <3>1. wire \in Seq([report : ReportType, session : Nat]) /\ Len(wire) = 1
        BY <2>1, OnceFacts DEF OnceInv, WireInv
      <3> QED
        BY <2>1, <3>1
    <2>3. landed \in Nat
      BY OnceFacts
    <2> QED
      BY <2>1, <2>2, <2>3
  <1>8. CASE /\ ~(Run \/ WriteReport \/ Stopped \/ Succeed \/ Abort)
             /\ ~((Act \/ Lose) /\ UNCHANGED walkVars)
    <2>1. UNCHANGED <<plan, landed, verdict, wire>>
      BY <1>8 DEF Next, Walk, Exchange, Elsewhere, Keyboard, Over, SendNext, BeginSend,
                  Acknowledged, TakeAck, Nap, WakeUp, FrameIsDone, DrainRead, Drained,
                  WriteBlocks, RoomAgain, WaitOn, RefuseAck, GiveUp, GiveUpWriting, IoFails,
                  Noise, Deliver, PressEsc, vars, walkVars, transportVars, hostVars, cableVars
    <2> QED
      BY <1>1, <2>1
  <1> QED
    BY <1>2, <1>3, <1>4, <1>5, <1>6, <1>7, <1>8

LEMMA TransferInit == Init => Transfer!Init
  <1> SUFFICES ASSUME Init PROVE Transfer!Init
    OBVIOUS
  <1>1. plan.total \in Nat
    BY WalkInitial, CountInit, Standing
  <1>2. landed = 0 /\ verdict = "none" /\ wire = <<>>
    BY DEF Init, TransportInit, WalkInit
  <1> QED
    BY <1>1, <1>2 DEF Transfer!Init

(***************************************************************************)
(* Whatever the keyboard does, a transfer that is run once writes a prefix *)
(* of its plan, all of it on success, and stops for good on cancel.        *)
(***************************************************************************)
THEOREM TransferIsPrefix ==
    ASSUME MaxSessions = 1
    PROVE  Spec => ImplementsTransfer
  <1>1. /\ WalkInv /\ CountInv /\ OnceInv /\ WalkInv' /\ CountInv' /\ OnceInv' /\ [Next]_vars
            => [Transfer!Next]_(Transfer!transferVars)
    BY TransferStep
  <1> QED
    BY <1>1, TransferInit, OnceInvariant, PTL DEF Spec, ImplementsTransfer, Transfer!Spec
================================================================================
