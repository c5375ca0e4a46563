------------------------------ MODULE ChooserProofs ------------------------------
(***************************************************************************)
(* Proofs about Chooser, for every catalogue of files and directories, for *)
(* every content of a file and every change of it, and for any number of   *)
(* slider steps, rates, previews and replans.                              *)
(***************************************************************************)
EXTENDS Chooser, FiniteSetTheorems, SequenceTheorems, TLAPS

(***************************************************************************)
(* A listing.  Before is a strict order in which entries of one directory  *)
(* differ, so numbering each by how many come before it is one to one, and *)
(* there is a sorted sequence for Sorted to be.                            *)
(***************************************************************************)
OfOnePlace(S) ==
    S \in SUBSET Catalogue /\ IsFiniteSet(S) /\ \A e, f \in S : e.in = f.in

LEMMA BeforeOrders ==
    ASSUME NEW S, OfOnePlace(S)
    PROVE  /\ \A e \in S : ~Before(e, e)
           /\ \A e, f, g \in S : Before(e, f) /\ Before(f, g) => Before(e, g)
           /\ \A e, f \in S : Before(e, f) \/ Before(f, e) \/ e = f
  <1>1. \A e \in S : e.isDir \in BOOLEAN /\ e.rank \in Nat
    BY BrowserAssumption DEF BrowserAssumption, OfOnePlace, EntryType
  <1>2. \A e, f \in S : e.isDir = f.isDir /\ e.rank = f.rank => e = f
    BY BrowserAssumption DEF BrowserAssumption, OfOnePlace
  <1> QED
    BY <1>1, <1>2 DEF Before

LEMMA SortedExists ==
    ASSUME NEW S, OfOnePlace(S)
    PROVE  Sorted(S) \in [1..Cardinality(S) -> S]
  <1> DEFINE n == Cardinality(S)
             Below(e) == {d \in S : Before(d, e)}
             place == [e \in S |-> Cardinality(Below(e)) + 1]
  <1>1. n \in Nat
    BY FS_CardinalityType DEF OfOnePlace
  <1>2. ASSUME NEW e \in S
        PROVE  IsFiniteSet(Below(e)) /\ Cardinality(Below(e)) \in 0..(n - 1)
    <2>1. Below(e) \in SUBSET (S \ {e})
      BY BeforeOrders
    <2>2. IsFiniteSet(S \ {e}) /\ Cardinality(S \ {e}) = n - 1
      BY FS_RemoveElement DEF OfOnePlace
    <2>3. IsFiniteSet(Below(e)) /\ Cardinality(Below(e)) <= n - 1
      BY <2>1, <2>2, FS_Subset
    <2>4. Cardinality(Below(e)) \in Nat
      BY <2>3, FS_CardinalityType
    <2> QED
      BY <1>1, <2>3, <2>4
  <1>3. ASSUME NEW e \in S, NEW f \in S, Before(e, f)
        PROVE  Cardinality(Below(e)) < Cardinality(Below(f))
    <2>1. Below(e) \cup {e} \in SUBSET Below(f) /\ e \notin Below(e)
      BY <1>3, BeforeOrders
    <2>2. IsFiniteSet(Below(e)) /\ IsFiniteSet(Below(f))
      BY <1>2
    <2>3. Cardinality(Below(e) \cup {e}) = Cardinality(Below(e)) + 1
      BY <2>1, <2>2, FS_AddElement
    <2>4. Cardinality(Below(e) \cup {e}) <= Cardinality(Below(f))
      BY <2>1, <2>2, FS_Subset
    <2>5. Cardinality(Below(e)) \in Nat /\ Cardinality(Below(f)) \in Nat
      BY <2>2, FS_CardinalityType
    <2> QED
      BY <2>3, <2>4, <2>5
  <1>4. \A e \in S : place[e] = Cardinality(Below(e)) + 1
    OBVIOUS
  <1>5. place \in [S -> 1..n]
    BY <1>1, <1>2
  <1>6. ASSUME NEW e \in S, NEW f \in S
        PROVE  /\ Before(e, f) => place[e] < place[f]
               /\ place[e] = place[f] => e = f
    <2>1. place[e] \in Int /\ place[f] \in Int
      BY <1>5
    <2>2. Cardinality(Below(e)) \in Int /\ Cardinality(Below(f)) \in Int
      BY <1>2
    <2>3. Before(e, f) => place[e] < place[f]
      BY <1>3, <1>4, <2>2
    <2>4. Before(f, e) => place[f] < place[e]
      BY <1>3, <1>4, <2>2
    <2> HIDE DEF place
    <2> QED
      BY <2>1, <2>3, <2>4, BeforeOrders
  <1> HIDE DEF place
  <1>7. place \in Injection(S, 1..n)
    BY <1>5, <1>6 DEF Injection, IsInjective
  <1>8. place \in Surjection(S, 1..n)
    <2>1. IsFiniteSet(1..n) /\ Cardinality(1..n) = n
      BY <1>1, FS_Interval
    <2> QED
      BY <1>7, <2>1, FS_Injection
  <1> DEFINE s == [i \in 1..n |-> CHOOSE e \in S : place[e] = i]
  <1>9. \A i \in 1..n : s[i] \in S /\ place[s[i]] = i
    <2>1. \A i \in 1..n : \E e \in S : place[e] = i
      BY <1>8 DEF Surjection
    <2> QED
      BY <2>1
  <1>10. s \in [1..n -> S]
    BY <1>9
  <1> HIDE DEF s
  <1>11. \A i, j \in 1..n : i < j => Before(s[i], s[j])
    <2> SUFFICES ASSUME NEW i \in 1..n, NEW j \in 1..n, i < j
                 PROVE  Before(s[i], s[j])
      OBVIOUS
    <2>1. s[i] \in S /\ s[j] \in S /\ place[s[i]] = i /\ place[s[j]] = j
      BY <1>9
    <2>2. s[i] # s[j]
      BY <2>1
    <2>3. ~Before(s[j], s[i])
      BY <2>1, <1>6
    <2> QED
      BY <2>1, <2>2, <2>3, BeforeOrders
  <1>12. DOMAIN s = 1..n
    BY <1>10
  <1> QED
    BY <1>10, <1>11, <1>12 DEF Sorted

LEMMA ReadDirLists ==
    ASSUME NEW gone, NEW dir, NEW gif
    PROVE  /\ ReadDir(gone, dir, gif).entries \in Seq({e \in Catalogue : Listed(e, dir, gif)})
           /\ ReadDir(gone, dir, gif).error \in {"none", "unreadable"}
  <1> DEFINE S == {e \in Catalogue \ gone : Listed(e, dir, gif)}
             All == {e \in Catalogue : Listed(e, dir, gif)}
  <1>1. S \in SUBSET Catalogue /\ S \subseteq All
    OBVIOUS
  <1>2. IsFiniteSet(S)
    BY <1>1, FS_Subset, BrowserAssumption DEF BrowserAssumption
  <1>3. \A e, f \in S : e.in = f.in
    BY DEF Listed
  <1>4. Sorted(S) \in [1..Cardinality(S) -> S] /\ Cardinality(S) \in Nat
    BY <1>1, <1>2, <1>3, SortedExists, FS_CardinalityType DEF OfOnePlace
  <1>5. Sorted(S) \in Seq(All)
    BY <1>1, <1>4 DEF Seq
  <1>6. <<>> \in Seq(All)
    OBVIOUS
  <1> QED
    BY <1>5, <1>6 DEF ReadDir

(***************************************************************************)
(* The browser, whatever key or answer it gets.                            *)
(***************************************************************************)
BrowseInv(b) ==
    /\ b \in BrowseType
    /\ b.selected <= LastEntry(b)
    /\ \A i \in DOMAIN b.entries : Listed(b.entries[i], b.dir, b.gif)

LEMMA ListFacts ==
    ASSUME NEW dir, NEW gif, NEW l \in Seq({e \in Catalogue : Listed(e, dir, gif)})
    PROVE  /\ l \in Seq(Catalogue) /\ Len(l) \in Nat
           /\ \A i \in DOMAIN l : Listed(l[i], dir, gif)
  OBVIOUS

LEMMA OpenAtInv ==
    ASSUME NEW gone, NEW dir \in Places, NEW gif \in BOOLEAN
    PROVE  BrowseInv(OpenAt(gone, dir, gif)) /\ OpenAt(gone, dir, gif).dir = dir
  <1> DEFINE read == ReadDir(gone, dir, gif)
  <1>1. read.entries \in Seq({e \in Catalogue : Listed(e, dir, gif)})
        /\ read.error \in {"none", "unreadable"}
    BY ReadDirLists
  <1>2. /\ read.entries \in Seq(Catalogue) /\ Len(read.entries) \in Nat
        /\ \A i \in DOMAIN read.entries : Listed(read.entries[i], dir, gif)
    BY <1>1, ListFacts
  <1> HIDE DEF read
  <1>3. OpenAt(gone, dir, gif) =
          [kind |-> "Browse", gif |-> gif, dir |-> dir, entries |-> read.entries,
           selected |-> 0, error |-> read.error]
    BY DEF OpenAt, read
  <1> QED
    BY <1>1, <1>2, <1>3 DEF BrowseInv, BrowseType, LastEntry, OrZero

LEMMA CursorInv ==
    ASSUME NEW b, BrowseInv(b)
    PROVE  /\ BrowseInv(CursorUp(b)) /\ CursorUp(b).dir = b.dir
           /\ BrowseInv(CursorDown(b)) /\ CursorDown(b).dir = b.dir
  <1>1. b \in BrowseType /\ b.selected \in Nat /\ Len(b.entries) \in Nat
    BY DEF BrowseInv, BrowseType
  <1>2. LastEntry(b) \in Nat
    BY <1>1 DEF LastEntry, OrZero
  <1>3. ASSUME NEW n \in Nat, n <= LastEntry(b)
        PROVE  BrowseInv([b EXCEPT !.selected = n]) /\ [b EXCEPT !.selected = n].dir = b.dir
    BY <1>1, <1>3 DEF BrowseInv, BrowseType, LastEntry
  <1>4. OrZero(b.selected - 1) \in Nat /\ OrZero(b.selected - 1) <= LastEntry(b)
    BY <1>1, <1>2 DEF BrowseInv, OrZero
  <1>5. /\ Smaller(b.selected + 1, LastEntry(b)) \in Nat
        /\ Smaller(b.selected + 1, LastEntry(b)) <= LastEntry(b)
    BY <1>1, <1>2 DEF BrowseInv, Smaller
  <1> QED
    BY <1>3, <1>4, <1>5 DEF CursorUp, CursorDown

LEMMA ElsewhereInv ==
    ASSUME NEW b, BrowseInv(b), NEW gone, NEW to \in Places \cup {NoPlace}
    PROVE  BrowseInv(ToParent(gone, b)) /\ BrowseInv(ToHome(gone, b, to))
  <1>1. b.dir \in Places /\ b.gif \in BOOLEAN
    BY DEF BrowseInv, BrowseType
  <1>2. ParentOf[b.dir] \in Places \cup {NoPlace}
    BY <1>1, BrowserAssumption DEF BrowserAssumption
  <1>3. BrowseInv(ToParent(gone, b))
    BY <1>1, <1>2, OpenAtInv DEF ToParent
  <1>4. BrowseInv([b EXCEPT !.error = "unset"])
    BY DEF BrowseInv, BrowseType, LastEntry
  <1>5. BrowseInv(ToHome(gone, b, to))
    BY <1>1, <1>4, OpenAtInv DEF ToHome
  <1> QED
    BY <1>3, <1>5

LEMMA ReadAgainInv ==
    ASSUME NEW b, BrowseInv(b), NEW gone
    PROVE  BrowseInv(ReadAgain(gone, b)) /\ ReadAgain(gone, b).dir = b.dir
  <1> DEFINE read == ReadDir(gone, b.dir, b.gif)
  <1>1. read.entries \in Seq({e \in Catalogue : Listed(e, b.dir, b.gif)})
        /\ read.error \in {"none", "unreadable"}
    BY ReadDirLists
  <1>2. /\ read.entries \in Seq(Catalogue) /\ Len(read.entries) \in Nat
        /\ \A i \in DOMAIN read.entries : Listed(read.entries[i], b.dir, b.gif)
    BY <1>1, ListFacts
  <1> HIDE DEF read
  <1> DEFINE again == ReadAgain(gone, b)
             last == OrZero(Len(read.entries) - 1)
  <1>3. again = [b EXCEPT !.entries = read.entries, !.error = read.error,
                          !.selected = Smaller(@, last)]
    BY DEF ReadAgain, read
  <1>4. last \in Nat
    BY <1>2 DEF OrZero
  <1>5. b \in BrowseType /\ b.selected \in Nat
    BY DEF BrowseInv, BrowseType
  <1>6. Smaller(b.selected, last) \in Nat /\ Smaller(b.selected, last) <= last
    BY <1>4, <1>5 DEF Smaller
  <1>7. /\ again.entries = read.entries /\ again.dir = b.dir /\ again.gif = b.gif
        /\ again.selected = Smaller(b.selected, last)
    BY <1>3, <1>5 DEF BrowseType
  <1>8. again \in BrowseType
    BY <1>1, <1>2, <1>3, <1>5, <1>6 DEF BrowseType
  <1>9. LastEntry(again) = last
    BY <1>7 DEF LastEntry
  <1> HIDE DEF again
  <1>10. BrowseInv(again)
    BY <1>2, <1>6, <1>7, <1>8, <1>9 DEF BrowseInv
  <1> QED
    BY <1>7, <1>10 DEF again

\* What Enter opens is a file, or a directory that is there.
LEMMA UnderCursorIsListed ==
    ASSUME NEW b, BrowseInv(b), NEW e \in UnderCursor(b)
    PROVE  e \in Catalogue /\ (e.isDir => e.to \in Places) /\ (~e.isDir => e \in FileEntries)
  <1>1. b.entries \in Seq(Catalogue) /\ b.selected \in Nat
    BY DEF BrowseInv, BrowseType
  <1>2. b.selected < Len(b.entries) /\ e = b.entries[b.selected + 1]
    BY DEF UnderCursor
  <1>3. e \in Catalogue
    BY <1>1, <1>2
  <1> QED
    BY <1>3, BrowserAssumption DEF BrowserAssumption, FileEntries

--------------------------------------------------------------------------------
(***************************************************************************)
(* What is on the confirm screen, or in a reply that would put it there:   *)
(* the panels of one content, in one placement and no more than were       *)
(* counted in the source, of which the first, if there is one, is encoded  *)
(* with the adjustments of the rows.  The rate is that of the source.      *)
(***************************************************************************)
Placements == {"contain", "fill"}

PanelType == [of : Contents, number : Nat, placement : Placements]
FrameType == [panel : PanelType, adj : Adjustments]
PlanType ==
    [source : Contents, panels : Seq(PanelType), frames : Seq(FrameType),
     placement : Placements, adj : Adjustments, rate : FpsMin..FpsMax, fallback : BOOLEAN]

Overrides == {NoRate} \cup FpsMin..FpsMax

PendingType ==
    [kind : {"Confirm"}, file : FileEntries, gif : BOOLEAN, plan : PlanType,
     rate_override : Overrides, adj : Adjustments, row : Nat]

Encoded(source, content) == Least(source.frames, content.frames)

PlansOf(p, content) ==
    LET source == p.plan.source IN
    /\ p.plan.panels = Panel(source, content, p.plan.placement)
    /\ DOMAIN p.plan.frames = 1..Encoded(source, content)
    /\ Encoded(source, content) > 0 =>
          p.plan.frames[1] = AdjustAndEncode(p.plan.panels[1], p.adj)
    /\ p.plan.rate = IF source.rate = NoRate THEN FpsDefault ELSE source.rate
    /\ p.plan.fallback <=> p.gif /\ source.rate = NoRate

Faithful(p) ==
    /\ p \in PendingType
    /\ p.row + 1 \in DOMAIN Rows(p)
    /\ ~p.gif => p.rate_override = NoRate
    /\ \E content \in Contents : PlansOf(p, content)

LEMMA RateFacts ==
    /\ FpsMin \in Nat \ {0} /\ FpsMax \in Nat /\ FpsDefault \in FpsMin..FpsMax
    /\ Overrides \subseteq Nat /\ Steps \in Nat
  BY ConfirmationAssumption DEF ConfirmationAssumption, Overrides, NoRate

LEMMA ContentFacts ==
    ASSUME NEW content \in Contents
    PROVE  /\ content.frames \in Nat /\ content.rate \in {NoRate} \cup FpsMin..FpsMax
           /\ content.torn \in BOOLEAN
  BY ConfirmationAssumption DEF ConfirmationAssumption

LEMMA PanelFacts ==
    ASSUME NEW source \in Contents, NEW content \in Contents, NEW placement \in Placements
    PROVE  /\ Encoded(source, content) \in Nat
           /\ Panel(source, content, placement) \in Seq(PanelType)
           /\ DOMAIN Panel(source, content, placement) = 1..Encoded(source, content)
           /\ Len(Panel(source, content, placement)) = Encoded(source, content)
           /\ \A i \in 1..Encoded(source, content) :
                Panel(source, content, placement)[i] =
                    [of |-> content, number |-> i, placement |-> placement]
  <1> DEFINE n == Encoded(source, content)
             panels == Panel(source, content, placement)
  <1>1. n \in Nat
    BY ContentFacts DEF Encoded, Least
  <1>2. panels = [i \in 1..n |-> [of |-> content, number |-> i, placement |-> placement]]
    BY DEF Panel, Encoded
  <1> HIDE DEF n, panels
  <1>3. panels \in [1..n -> PanelType]
    BY <1>1, <1>2 DEF PanelType
  <1>4. panels \in Seq(PanelType)
    BY <1>1, <1>3 DEF Seq
  <1>5. Len(panels) = n
    BY <1>1, <1>3, <1>4, LenProperties
  <1> QED
    BY <1>1, <1>2, <1>4, <1>5 DEF n, panels

LEMMA EncodedFacts ==
    ASSUME NEW panels \in Seq(PanelType), NEW adj \in Adjustments
    PROVE  /\ EncodeAll(panels, adj) \in Seq(FrameType)
           /\ DOMAIN EncodeAll(panels, adj) = 1..Len(panels)
           /\ Len(EncodeAll(panels, adj)) = Len(panels)
           /\ \A i \in 1..Len(panels) :
                EncodeAll(panels, adj)[i] = AdjustAndEncode(panels[i], adj)
  <1>1. Len(panels) \in Nat /\ DOMAIN panels = 1..Len(panels)
        /\ \A i \in 1..Len(panels) : panels[i] \in PanelType
    OBVIOUS
  <1>2. EncodeAll(panels, adj) \in [1..Len(panels) -> FrameType]
    BY <1>1 DEF EncodeAll, AdjustAndEncode, FrameType
  <1>3. EncodeAll(panels, adj) \in Seq(FrameType)
    BY <1>1, <1>2 DEF Seq
  <1>4. Len(EncodeAll(panels, adj)) = Len(panels)
    BY <1>1, <1>2, <1>3, LenProperties
  <1> QED
    BY <1>1, <1>2, <1>3, <1>4 DEF EncodeAll

LEMMA UnadjustedIsOne == Unadjusted \in Adjustments
  BY RateFacts DEF Unadjusted, Adjustments

LEMMA RowCount ==
    ASSUME NEW p, p.gif \in BOOLEAN
    PROVE  DOMAIN Rows(p) = IF p.gif THEN 1..8 ELSE 1..7
  BY DEF Rows, GifRows, PictureRows

(***************************************************************************)
(* The worker builds it so.                                                *)
(***************************************************************************)
LEMMA BuildFaithful ==
    ASSUME NEW file \in FileEntries, NEW source \in Contents, NEW content \in Contents,
           NEW gif \in BOOLEAN, NEW placement \in Placements, NEW adj \in Adjustments,
           NEW rate_override \in Overrides, NEW row \in 0..(IF gif THEN 7 ELSE 6),
           ~gif => rate_override = NoRate
    PROVE  Faithful(BuildPending(file, source, content, gif, placement, adj,
                                 rate_override, row))
  <1> DEFINE n == Encoded(source, content)
             panels == Panel(source, content, placement)
             plan == MakePlan(source, content, gif, placement, adj)
             p == BuildPending(file, source, content, gif, placement, adj, rate_override, row)
  <1>1. n \in Nat /\ panels \in Seq(PanelType) /\ Len(panels) = n
    BY PanelFacts
  <1>2. source.rate \in {NoRate} \cup FpsMin..FpsMax
    BY ContentFacts
  <1> HIDE DEF n
  <1>3. /\ EncodeAll(panels, adj) \in Seq(FrameType)
        /\ DOMAIN EncodeAll(panels, adj) = 1..n
        /\ n > 0 => EncodeAll(panels, adj)[1] = AdjustAndEncode(panels[1], adj)
    BY <1>1, EncodedFacts
  <1> HIDE DEF panels
  <1> DEFINE rate == IF source.rate = NoRate THEN FpsDefault ELSE source.rate
  <1>4. plan = [source |-> source, panels |-> panels, frames |-> EncodeAll(panels, adj),
                placement |-> placement, adj |-> adj, rate |-> rate,
                fallback |-> gif /\ source.rate = NoRate]
    BY DEF MakePlan, panels
  <1>5. rate \in FpsMin..FpsMax
    BY <1>2, RateFacts
  <1>6. plan \in PlanType
    BY <1>1, <1>3, <1>4, <1>5 DEF PlanType
  <1>7. /\ plan.source = source /\ plan.panels = panels
        /\ plan.frames = EncodeAll(panels, adj)
        /\ plan.placement = placement /\ plan.rate = rate
        /\ plan.fallback = (gif /\ source.rate = NoRate)
    BY <1>4
  <1> HIDE DEF plan
  <1>8. p = [kind |-> "Confirm", file |-> file, gif |-> gif, plan |-> plan,
             rate_override |-> rate_override, adj |-> adj, row |-> row]
    BY DEF BuildPending, plan
  <1>9. /\ p \in PendingType /\ p.plan = plan /\ p.adj = adj /\ p.gif = gif /\ p.row = row
        /\ p.rate_override = rate_override
    BY <1>6, <1>8 DEF PendingType
  <1> HIDE DEF p
  <1>10. p.row + 1 \in DOMAIN Rows(p)
    BY <1>9, RowCount
  <1>11. PlansOf(p, content)
    BY <1>3, <1>7, <1>9 DEF PlansOf, panels, n
  <1> QED
    BY <1>9, <1>10, <1>11 DEF Faithful, p

--------------------------------------------------------------------------------
(***************************************************************************)
(* The keys keep it so.                                                    *)
(***************************************************************************)
LEMMA FaithfulFacts ==
    ASSUME NEW p, Faithful(p)
    PROVE  /\ p \in PendingType /\ p.gif \in BOOLEAN /\ p.row \in Nat
           /\ p.row \in 0..(IF p.gif THEN 7 ELSE 6)
           /\ p.adj \in Adjustments /\ p.plan \in PlanType /\ p.rate_override \in Overrides
           /\ p.plan.panels \in Seq(PanelType) /\ p.plan.frames \in Seq(FrameType)
           /\ p.plan.rate \in FpsMin..FpsMax /\ RateShown(p) \in FpsMin..FpsMax
           /\ p.plan.source \in Contents
           /\ p.file \in FileEntries /\ p.plan.placement \in Placements
           /\ p.kind = "Confirm"
  <1>1. p \in PendingType
    BY DEF Faithful
  <1>2. p.gif \in BOOLEAN /\ p.row \in Nat /\ p.adj \in Adjustments /\ p.plan \in PlanType
        /\ p.rate_override \in Overrides /\ p.file \in FileEntries /\ p.kind = "Confirm"
    BY <1>1 DEF PendingType
  <1>3. p.row + 1 \in IF p.gif THEN 1..8 ELSE 1..7
    BY <1>2, RowCount DEF Faithful
  <1>4. /\ p.plan.panels \in Seq(PanelType) /\ p.plan.frames \in Seq(FrameType)
        /\ p.plan.rate \in FpsMin..FpsMax /\ p.plan.placement \in Placements
        /\ p.plan.source \in Contents
    BY <1>2 DEF PlanType
  <1>5. RateShown(p) \in FpsMin..FpsMax
    BY <1>2, <1>4 DEF RateShown, Overrides
  <1>6. p.row \in 0..(IF p.gif THEN 7 ELSE 6)
    BY <1>2, <1>3
  <1> QED
    BY <1>1, <1>2, <1>4, <1>5, <1>6

LEMMA RowMoves ==
    ASSUME NEW p, Faithful(p), NEW up \in BOOLEAN
    PROVE  Faithful(MoveRow(p, up))
  <1>1. /\ p \in PendingType /\ p.gif \in BOOLEAN /\ p.row \in Nat
        /\ p.row \in 0..(IF p.gif THEN 7 ELSE 6)
    BY FaithfulFacts
  <1>2. Len(Rows(p)) = IF p.gif THEN 8 ELSE 7
    BY <1>1 DEF Rows, GifRows, PictureRows
  <1> DEFINE row == IF up THEN Most(p.row - 1, 0) ELSE Least(p.row + 1, Len(Rows(p)) - 1)
             q == MoveRow(p, up)
  <1>3. row \in Nat /\ row \in 0..(IF p.gif THEN 7 ELSE 6)
    BY <1>1, <1>2 DEF Most, Least
  <1>4. q = [p EXCEPT !.row = row]
    BY DEF MoveRow
  <1> HIDE DEF row
  <1>5. /\ q \in PendingType /\ q.row = row /\ q.gif = p.gif /\ q.plan = p.plan
        /\ q.adj = p.adj /\ q.rate_override = p.rate_override
    BY <1>1, <1>3, <1>4 DEF PendingType
  <1> HIDE DEF q
  <1>6. q.row + 1 \in DOMAIN Rows(q)
    BY <1>1, <1>3, <1>5, RowCount
  <1>7. \E content \in Contents : PlansOf(q, content)
    BY <1>5 DEF Faithful, PlansOf
  <1> QED
    BY <1>5, <1>6, <1>7 DEF Faithful, q

LEMMA RateMoves ==
    ASSUME NEW p, Faithful(p), p.gif, NEW up \in BOOLEAN
    PROVE  Faithful(Nudged(p, up))
  <1>1. /\ p \in PendingType /\ p.gif \in BOOLEAN /\ p.row \in Nat
        /\ p.row \in 0..(IF p.gif THEN 7 ELSE 6)
        /\ RateShown(p) \in FpsMin..FpsMax
    BY FaithfulFacts
  <1> DEFINE next == IF up THEN Least(RateShown(p) + 1, FpsMax)
                     ELSE Most(RateShown(p) - 1, FpsMin)
             new == IF next = p.plan.rate THEN NoRate ELSE next
             q == Nudged(p, up)
  <1>2. new \in Overrides
    BY <1>1, RateFacts DEF Least, Most, Overrides
  <1>3. q = [p EXCEPT !.rate_override = new]
    BY DEF Nudged
  <1> HIDE DEF new
  <1>4. /\ q \in PendingType /\ q.row = p.row /\ q.gif = p.gif /\ q.plan = p.plan
        /\ q.adj = p.adj
    BY <1>1, <1>2, <1>3 DEF PendingType
  <1> HIDE DEF q
  <1>5. q.row + 1 \in DOMAIN Rows(q)
    BY <1>4 DEF Faithful, Rows
  <1>6. \E content \in Contents : PlansOf(q, content)
    BY <1>4 DEF Faithful, PlansOf
  <1> QED
    BY <1>4, <1>5, <1>6 DEF Faithful, q

\* The preview follows whatever is set.
LEMMA PreviewFollows ==
    ASSUME NEW p, Faithful(p), NEW adj \in Adjustments
    PROVE  Faithful(ReencodePreview([p EXCEPT !.adj = adj]))
  <1> DEFINE e == [p EXCEPT !.adj = adj]
             q == ReencodePreview(e)
  <1>1. /\ p \in PendingType /\ p.gif \in BOOLEAN /\ p.plan \in PlanType
        /\ p.plan.panels \in Seq(PanelType) /\ p.plan.frames \in Seq(FrameType)
        /\ p.plan.placement \in Placements /\ p.plan.source \in Contents
    BY FaithfulFacts
  <1>2. PICK content \in Contents : PlansOf(p, content)
    BY DEF Faithful
  <1> DEFINE n == Encoded(p.plan.source, content)
  <1>3. /\ n \in Nat /\ DOMAIN p.plan.panels = 1..n /\ Len(p.plan.panels) = n
        /\ DOMAIN p.plan.frames = 1..n
    BY <1>1, <1>2, PanelFacts DEF PlansOf
  <1>4. /\ e \in PendingType /\ e.adj = adj /\ e.gif = p.gif /\ e.plan = p.plan
        /\ e.row = p.row /\ e.rate_override = p.rate_override
    BY <1>1 DEF PendingType
  <1> HIDE DEF e, n
  <1> DEFINE first == AdjustAndEncode(p.plan.panels[1], adj)
  <1>5. n > 0 => first \in FrameType
    <2>1. n > 0 => p.plan.panels[1] \in PanelType
      BY <1>1, <1>3
    <2> QED
      BY <2>1 DEF AdjustAndEncode, FrameType
  <1>6. p.plan.frames = <<>> <=> n = 0
    <2>1. Len(p.plan.frames) = n
      BY <1>1, <1>3
    <2> QED
      BY <1>1, <1>3, <2>1, EmptySeq
  <1>7. SUFFICES \E plan \in PlanType :
                    /\ q = [e EXCEPT !.plan = plan]
                    /\ plan.source = p.plan.source
                    /\ plan.panels = p.plan.panels /\ plan.placement = p.plan.placement
                    /\ DOMAIN plan.frames = 1..n /\ (n > 0 => plan.frames[1] = first)
                    /\ plan.rate = p.plan.rate /\ plan.fallback = p.plan.fallback
    <2>1. PICK plan \in PlanType :
                    /\ q = [e EXCEPT !.plan = plan]
                    /\ plan.source = p.plan.source
                    /\ plan.panels = p.plan.panels /\ plan.placement = p.plan.placement
                    /\ DOMAIN plan.frames = 1..n /\ (n > 0 => plan.frames[1] = first)
                    /\ plan.rate = p.plan.rate /\ plan.fallback = p.plan.fallback
      BY <1>7
    <2>2. /\ q \in PendingType /\ q.plan = plan /\ q.adj = adj /\ q.gif = p.gif
          /\ q.row = p.row /\ q.rate_override = p.rate_override
      BY <1>4, <2>1 DEF PendingType
    <2> HIDE DEF q
    <2>3. PlansOf(q, content)
      BY <1>2, <2>1, <2>2 DEF PlansOf, n
    <2>4. q.row + 1 \in DOMAIN Rows(q)
      BY <1>1, <2>2 DEF Faithful, Rows
    <2>5. Faithful(q)
      BY <1>2, <2>2, <2>3, <2>4 DEF Faithful
    <2> QED
      BY <2>5 DEF q, e
  <1>8. CASE p.gif /\ n > 0
    <2> DEFINE frames == [p.plan.frames EXCEPT ![1] = first]
               plan == [p.plan EXCEPT !.frames = frames]
    <2>1. q = [e EXCEPT !.plan = plan]
      BY <1>3, <1>4, <1>6, <1>8 DEF ReencodePreview
    <2>2. frames \in [1..n -> FrameType]
      BY <1>1, <1>3, <1>5, <1>8
    <2>3. frames \in Seq(FrameType) /\ DOMAIN frames = 1..n /\ frames[1] = first
      BY <1>1, <1>3, <1>8, <2>2 DEF Seq
    <2> HIDE DEF frames
    <2>4. /\ plan \in PlanType /\ plan.source = p.plan.source /\ plan.panels = p.plan.panels
          /\ plan.placement = p.plan.placement /\ plan.frames = frames
          /\ plan.rate = p.plan.rate /\ plan.fallback = p.plan.fallback
      BY <1>1, <2>3 DEF PlanType
    <2> QED
      BY <2>1, <2>3, <2>4
  <1>9. CASE p.gif /\ n = 0
    <2>1. q = e
      BY <1>4, <1>6, <1>9 DEF ReencodePreview
    <2>2. e = [e EXCEPT !.plan = p.plan]
      BY <1>4 DEF PendingType
    <2> QED
      BY <1>1, <1>3, <1>9, <2>1, <2>2
  <1>10. CASE ~p.gif
    <2> DEFINE frames == EncodeAll(p.plan.panels, adj)
               plan == [p.plan EXCEPT !.adj = adj, !.frames = frames]
    <2>1. q = [e EXCEPT !.plan = plan]
      <3> DEFINE adjusted == [p.plan EXCEPT !.adj = adj]
      <3>1. adjusted.panels = p.plan.panels /\ adjusted.adj = adj
        BY <1>1 DEF PlanType
      <3>2. Reencode(adjusted) = [adjusted EXCEPT !.frames = frames]
        BY <3>1 DEF Reencode
      <3>3. Reencode(adjusted) = plan
        BY <3>2
      <3> QED
        BY <1>4, <1>10, <3>3 DEF ReencodePreview
    <2>2. /\ frames \in Seq(FrameType) /\ DOMAIN frames = 1..n
          /\ n > 0 => frames[1] = first
      BY <1>1, <1>3, EncodedFacts
    <2> HIDE DEF frames
    <2>3. /\ plan \in PlanType /\ plan.source = p.plan.source /\ plan.panels = p.plan.panels
          /\ plan.placement = p.plan.placement /\ plan.frames = frames
          /\ plan.rate = p.plan.rate /\ plan.fallback = p.plan.fallback
      BY <1>1, <2>2 DEF PlanType
    <2> QED
      BY <2>1, <2>2, <2>3
  <1> QED
    BY <1>1, <1>3, <1>8, <1>9, <1>10

LEMMA SliderMoves ==
    ASSUME NEW p, Faithful(p), RowAt(p) \in Sliders, NEW up \in BOOLEAN
    PROVE  Faithful(Slid(p, up))
  <1>1. p \in PendingType /\ p.adj \in Adjustments
    BY FaithfulFacts
  <1> DEFINE old == p.adj.slider[RowAt(p)]
             next == IF up THEN Least(old + 1, Steps) ELSE Most(old - 1, -Steps)
             adj == [p.adj EXCEPT !.slider[RowAt(p)] = next]
  <1>2. p.adj.slider \in [Sliders -> -Steps..Steps] /\ old \in -Steps..Steps
    BY <1>1 DEF Adjustments
  <1>3. next \in -Steps..Steps
    BY <1>2, RateFacts DEF Least, Most
  <1> HIDE DEF next
  <1>4. adj \in Adjustments
    BY <1>1, <1>2, <1>3 DEF Adjustments
  <1>5. [p EXCEPT !.adj.slider[RowAt(p)] = next] = [p EXCEPT !.adj = adj]
    OBVIOUS
  <1>6. Slid(p, up) = IF next = old THEN p ELSE ReencodePreview([p EXCEPT !.adj = adj])
    BY <1>5 DEF Slid, next
  <1> HIDE DEF adj
  <1> QED
    BY <1>4, <1>6, PreviewFollows

LEMMA SwitchToggles ==
    ASSUME NEW p, Faithful(p)
    PROVE  Faithful(ToggleRow(p))
  <1>1. CASE RowAt(p) \in Switches
    <2> DEFINE on == (p.adj.on \cup {RowAt(p)}) \ (p.adj.on \cap {RowAt(p)})
               adj == [p.adj EXCEPT !.on = on]
    <2>1. p.adj \in Adjustments
      BY FaithfulFacts
    <2>2. on \in SUBSET Switches
      BY <1>1, <2>1 DEF Adjustments
    <2> HIDE DEF on
    <2>3. adj \in Adjustments
      BY <2>1, <2>2 DEF Adjustments
    <2>4. ToggleRow(p) = ReencodePreview([p EXCEPT !.adj = adj])
      BY <1>1 DEF ToggleRow, on
    <2> HIDE DEF adj
    <2> QED
      BY <2>3, <2>4, PreviewFollows
  <1>2. CASE RowAt(p) \notin Switches
    BY <1>2 DEF ToggleRow
  <1> QED
    BY <1>1, <1>2

LEMMA RateRowIsForGifs ==
    ASSUME NEW p, Faithful(p), RowAt(p) = "Rate"
    PROVE  p.gif
  <1> SUFFICES ASSUME ~p.gif PROVE FALSE
    OBVIOUS
  <1>1. p.row \in 0..6
    BY FaithfulFacts
  <1>2. RowAt(p) = PictureRows[p.row + 1]
    BY DEF RowAt, Rows
  <1> QED
    BY <1>1, <1>2 DEF PictureRows

LEMMA EditsFaithful ==
    ASSUME NEW p, Faithful(p), NEW up \in BOOLEAN
    PROVE  /\ Faithful(MoveRow(p, up)) /\ Faithful(AdjustRow(p, up))
           /\ Faithful(ToggleRow(p)) /\ Faithful(Reset(p))
  <1>1. Faithful(AdjustRow(p, up))
    BY RateRowIsForGifs, RateMoves, SliderMoves DEF AdjustRow, Sliders
  <1>2. Faithful(Reset(p))
    BY UnadjustedIsOne, PreviewFollows DEF Reset
  <1> QED
    BY <1>1, <1>2, RowMoves, SwitchToggles

--------------------------------------------------------------------------------
(***************************************************************************)
(* The invariant.  What is sent is what some faithful screen drew, and     *)
(* that drawing is the one kept in seen: no second job is handed over, and *)
(* none is answered, while the upload is under way.                        *)
(***************************************************************************)
WorldInv ==
    /\ home \in Homes /\ disk \in [FileEntries -> Contents \cup {Gone}]
    /\ device \in BOOLEAN
    /\ preview_generation \in 0..MaxGeneration

ScreenInv ==
    /\ browse_dir \in Places
    /\ \/ screen = Menu
       \/ BrowseInv(screen) /\ browse_dir = screen.dir
       \/ Faithful(screen)

SlotInv ==
    /\ job_pending \in BOOLEAN /\ replan_pending \in BOOLEAN
    /\ job_pending <=> job # Nothing \/ reply # Nothing
    /\ job = Nothing \/ reply = Nothing
    /\ replan_pending <=> job.kind = "Replan" \/ reply.kind = "Replan"
    /\ On("Confirm") /\ job_pending => replan_pending

PreviewJobs == [kind : {"Preview"}, file : FileEntries, gif : BOOLEAN, generation : Nat]

ReplanJobs ==
    [kind : {"Replan"}, file : FileEntries, gif : BOOLEAN, placement : Placements,
     adj : Adjustments, rate_override : Overrides, row : 0..7, generation : Nat]

Chosen(p) == job = [kind |-> "Upload", plan |-> Publish(p)]
Seen(p) == seen = [kind |-> "drawn", what |-> Drawn(p)]
Delivered(p) ==
    sent = [kind |-> "sent", frames |-> Reencode(Publish(p)).frames, rate |-> Publish(p).rate]

Replannable ==
    /\ job.row \in 0..(IF job.gif THEN 7 ELSE 6)
    /\ ~job.gif => job.rate_override = NoRate

CountInv == counted \in Contents \cup {Nothing}

JobInv ==
    \/ job = Nothing
    \/ job \in PreviewJobs
    \/ job \in ReplanJobs /\ Replannable
    \/ \E p : Faithful(p) /\ Chosen(p) /\ Seen(p)

ReplyInv ==
    \/ reply = Nothing
    \/ reply.kind \in {"Preview", "Replan"} /\ (reply.ok => Faithful(reply.pending))
    \/ reply = [kind |-> "Finished"]

SentInv ==
    sent # Nothing =>
        /\ reply = [kind |-> "Finished"]
        /\ \E p : Faithful(p) /\ Delivered(p) /\ Seen(p)

ChooserInv ==
    WorldInv /\ ScreenInv /\ SlotInv /\ CountInv /\ JobInv /\ ReplyInv /\ SentInv

\* Which screen it is says what is known of it.
LEMMA Screens ==
    ASSUME ScreenInv
    PROVE  /\ On("Menu") => screen = Menu
           /\ On("Browse") => BrowseInv(screen) /\ browse_dir = screen.dir
           /\ On("Confirm") => Faithful(screen)
           /\ On("Menu") \/ On("Browse") \/ On("Confirm")
  <1>1. screen = Menu => screen.kind = "Menu"
    BY DEF Menu
  <1>2. BrowseInv(screen) => screen.kind = "Browse"
    BY DEF BrowseInv, BrowseType
  <1>3. Faithful(screen) => screen.kind = "Confirm"
    BY FaithfulFacts
  <1> QED
    BY <1>1, <1>2, <1>3 DEF ScreenInv, On

LEMMA KindFacts ==
    ASSUME JobInv, ReplyInv
    PROVE  /\ job.kind \in {"none", "Preview", "Replan", "Upload"}
           /\ job.kind = "none" <=> job = Nothing
           /\ job.kind = "Preview" => job \in PreviewJobs
           /\ job.kind = "Replan" => job \in ReplanJobs /\ Replannable
           /\ job.kind = "Upload" => \E p : Faithful(p) /\ Chosen(p) /\ Seen(p)
           /\ reply.kind \in {"none", "Preview", "Replan", "Finished"}
           /\ reply.kind = "none" <=> reply = Nothing
           /\ reply.kind = "Finished" <=> reply = [kind |-> "Finished"]
           /\ reply.kind \in {"Preview", "Replan"} => (reply.ok => Faithful(reply.pending))
           /\ Nothing.kind = "none"
  <1>1. Nothing.kind = "none" /\ [kind |-> "Finished"].kind = "Finished"
    BY DEF Nothing
  <1>2. job \in PreviewJobs => job.kind = "Preview"
    BY DEF PreviewJobs
  <1>3. job \in ReplanJobs => job.kind = "Replan"
    BY DEF ReplanJobs
  <1>4. ASSUME NEW p, Chosen(p) PROVE job.kind = "Upload"
    BY <1>4 DEF Chosen
  <1>5. /\ job.kind \in {"none", "Preview", "Replan", "Upload"}
        /\ job.kind = "none" <=> job = Nothing
        /\ job.kind = "Preview" => job \in PreviewJobs
        /\ job.kind = "Replan" => job \in ReplanJobs /\ Replannable
        /\ job.kind = "Upload" => \E p : Faithful(p) /\ Chosen(p) /\ Seen(p)
    BY <1>1, <1>2, <1>3, <1>4 DEF JobInv
  <1>6. /\ reply.kind \in {"none", "Preview", "Replan", "Finished"}
        /\ reply.kind = "none" <=> reply = Nothing
        /\ reply.kind = "Finished" <=> reply = [kind |-> "Finished"]
        /\ reply.kind \in {"Preview", "Replan"} => (reply.ok => Faithful(reply.pending))
    BY <1>1 DEF ReplyInv
  <1> QED
    BY <1>1, <1>5, <1>6

LEMMA InitInv == Init => ChooserInv
  <1> SUFFICES ASSUME Init PROVE ChooserInv
    OBVIOUS
  <1>1. WorldInv
    BY ChooserAssumption DEF ChooserAssumption, Init, WorldInv
  <1>2. ScreenInv
    BY DEF Init, ScreenInv
  <1>3. SlotInv
    BY DEF Init, SlotInv, Menu, Nothing, On
  <1>4. CountInv /\ JobInv /\ ReplyInv /\ SentInv
    BY DEF Init, CountInv, JobInv, ReplyInv, SentInv
  <1> QED
    BY <1>1, <1>2, <1>3, <1>4 DEF ChooserInv

--------------------------------------------------------------------------------
(***************************************************************************)
(* The steps.  Most leave the work alone, and most leave the slot alone.   *)
(***************************************************************************)
LEMMA WorkKept ==
    ASSUME CountInv, JobInv, ReplyInv, SentInv, UNCHANGED workVars
    PROVE  CountInv' /\ JobInv' /\ ReplyInv' /\ SentInv'
  BY DEF workVars, CountInv, JobInv, Replannable, ReplyInv, SentInv, Chosen, Seen, Delivered

LEMMA SlotKept ==
    ASSUME SlotInv, UNCHANGED <<job, reply, job_pending, replan_pending>>,
           On("Confirm")' => On("Confirm") \/ ~job_pending
    PROVE  SlotInv'
  BY DEF SlotInv

LEMMA BrowsesInv ==
    ASSUME NEW b, BrowseInv(b), NEW d \in Places, b.dir = d, browse_dir' = d, screen' = b
    PROVE  ScreenInv' /\ ~On("Confirm")'
  <1>1. b.kind = "Browse"
    BY DEF BrowseInv, BrowseType
  <1> QED
    BY <1>1 DEF ScreenInv, On

LEMMA LeavesInv ==
    ASSUME ScreenInv, UNCHANGED browse_dir, screen' = Menu
    PROVE  ScreenInv' /\ ~On("Confirm")'
  <1>1. Menu.kind = "Menu"
    BY DEF Menu
  <1> QED
    BY <1>1 DEF ScreenInv, On

LEMMA BrowserSteps ==
    ASSUME ChooserInv, OpenBrowser \/ BrowseLeave \/ BrowseMove \/ BrowseElsewhere
    PROVE  ChooserInv'
  <1> USE DEF ChooserInv
  <1>1. WorldInv'
    BY ChooserAssumption DEF ChooserAssumption, WorldInv, OpenBrowser, BrowseLeave, BrowseMove,
          BrowseElsewhere, Supersede, worldVars, gateVars
  <1>2. CountInv' /\ JobInv' /\ ReplyInv' /\ SentInv'
    BY WorkKept DEF OpenBrowser, BrowseLeave, BrowseMove, BrowseElsewhere
  <1>3. UNCHANGED <<job, reply, job_pending, replan_pending>>
    BY DEF OpenBrowser, BrowseLeave, BrowseMove, BrowseElsewhere, workVars, gateVars
  <1>4. ScreenInv' /\ ~On("Confirm")'
    <2>1. CASE OpenBrowser
      <3>1. PICK gif \in BOOLEAN : screen' = OpenAt(Missing, browse_dir, gif)
        BY <2>1 DEF OpenBrowser, Show
      <3>2. browse_dir \in Places /\ browse_dir' = browse_dir
        BY <2>1 DEF OpenBrowser, ScreenInv
      <3> QED
        BY <3>1, <3>2, OpenAtInv, BrowsesInv
    <2>2. CASE BrowseLeave
      BY <2>2, LeavesInv DEF BrowseLeave, Show
    <2>3. CASE BrowseMove
      <3>1. BrowseInv(screen) /\ browse_dir = screen.dir /\ browse_dir' = browse_dir
            /\ browse_dir \in Places
        BY <2>3, Screens DEF BrowseMove, ScreenInv
      <3>2. screen' = CursorUp(screen) \/ screen' = CursorDown(screen)
        BY <2>3 DEF BrowseMove, Show
      <3> QED
        BY <3>1, <3>2, CursorInv, BrowsesInv
    <2>4. CASE BrowseElsewhere
      <3>1. BrowseInv(screen) /\ screen.gif \in BOOLEAN
        BY <2>4, Screens DEF BrowseElsewhere, BrowseInv, BrowseType
      <3>2. home \in Places \cup {NoPlace}
        BY BrowserAssumption DEF BrowserAssumption, WorldInv
      <3>3. ASSUME NEW e \in UnderCursor(screen), e.isDir,
                   screen' = OpenAt(Missing, e.to, screen.gif)
            PROVE  BrowseInv(screen')
        <4>1. e.to \in Places
          BY <3>1, <3>3, UnderCursorIsListed
        <4> QED
          BY <3>1, <3>3, <4>1, OpenAtInv
      <3>4. \/ screen' = ToParent(Missing, screen)
            \/ screen' = ToHome(Missing, screen, home)
            \/ \E e \in UnderCursor(screen) :
                  e.isDir /\ screen' = OpenAt(Missing, e.to, screen.gif)
        BY <2>4 DEF BrowseElsewhere, Show
      <3>5. BrowseInv(screen')
        BY <3>1, <3>2, <3>3, <3>4, ElsewhereInv
      <3>6. PICK b : b = screen'
        OBVIOUS
      <3>7. BrowseInv(b) /\ b.dir \in Places /\ browse_dir' = b.dir
        BY <2>4, <3>5, <3>6 DEF BrowseElsewhere, BrowseInv, BrowseType
      <3> QED
        BY <3>6, <3>7, BrowsesInv
    <2> QED
      BY <2>1, <2>2, <2>3, <2>4
  <1>5. SlotInv'
    BY <1>3, <1>4, SlotKept
  <1> QED
    BY <1>1, <1>2, <1>4, <1>5

LEMMA BrowsePickStep ==
    ASSUME ChooserInv, BrowsePick
    PROVE  ChooserInv'
  <1> USE DEF ChooserInv
  <1>1. BrowseInv(screen) /\ screen.gif \in BOOLEAN /\ On("Browse") /\ ~job_pending
    BY Screens DEF BrowsePick, BrowseInv, BrowseType
  <1>2. job = Nothing /\ reply = Nothing /\ ~replan_pending
    BY <1>1, KindFacts DEF SlotInv
  <1>3. PICK e \in UnderCursor(screen) :
            /\ ~e.isDir
            /\ job' = [kind |-> "Preview", file |-> e, gif |-> screen.gif,
                       generation |-> preview_generation']
    BY DEF BrowsePick, Hand
  <1>4. e \in FileEntries
    BY <1>1, <1>3, UnderCursorIsListed
  <1>5. WorldInv' /\ preview_generation' \in Nat
    BY ChooserAssumption DEF ChooserAssumption, WorldInv, BrowsePick, Supersede, worldVars
  <1>6. job' \in PreviewJobs
    BY <1>1, <1>3, <1>4, <1>5 DEF PreviewJobs
  <1>7. ScreenInv'
    BY DEF BrowsePick, ScreenInv
  <1>8. job'.kind = "Preview" /\ reply' = Nothing /\ Nothing.kind = "none"
    BY <1>2, <1>3, KindFacts DEF BrowsePick
  <1>9. SlotInv'
    <2>1. job_pending' = TRUE /\ replan_pending' = FALSE /\ job' # Nothing
      BY <1>2, <1>8 DEF BrowsePick, Hand, SlotInv
    <2>2. ~On("Confirm")'
      BY <1>1 DEF BrowsePick, On
    <2> QED
      BY <1>8, <2>1, <2>2 DEF SlotInv
  <1>10. CountInv' /\ JobInv' /\ ReplyInv' /\ SentInv'
    BY <1>2, <1>6, <1>8 DEF CountInv, JobInv, ReplyInv, SentInv, BrowsePick, Nothing
  <1> QED
    BY <1>5, <1>7, <1>9, <1>10

LEMMA ConfirmSteps ==
    ASSUME ChooserInv, ConfirmLeave \/ ConfirmEdit
    PROVE  ChooserInv'
  <1> USE DEF ChooserInv
  <1>1. WorldInv'
    BY ChooserAssumption DEF ChooserAssumption, WorldInv, ConfirmLeave, ConfirmEdit, Supersede,
          worldVars, gateVars
  <1>2. CountInv' /\ JobInv' /\ ReplyInv' /\ SentInv'
    BY WorkKept DEF ConfirmLeave, ConfirmEdit
  <1>3. UNCHANGED <<job, reply, job_pending, replan_pending>> /\ On("Confirm")
    BY DEF ConfirmLeave, ConfirmEdit, workVars, gateVars
  <1>4. ScreenInv'
    <2>1. CASE ConfirmLeave
      BY <2>1, LeavesInv DEF ConfirmLeave, Show
    <2>2. CASE ConfirmEdit
      <3>1. Faithful(screen) /\ browse_dir' = browse_dir
        BY <1>3, <2>2, Screens DEF ConfirmEdit
      <3>2. \/ \E up \in BOOLEAN :
                  screen' = MoveRow(screen, up) \/ screen' = AdjustRow(screen, up)
            \/ screen' = ToggleRow(screen) \/ screen' = Reset(screen)
        BY <2>2 DEF ConfirmEdit, Show
      <3>3. Faithful(screen')
        BY <3>1, <3>2, EditsFaithful
      <3> QED
        BY <3>1, <3>3 DEF ScreenInv
    <2> QED
      BY <2>1, <2>2
  <1>5. SlotInv'
    BY <1>3, SlotKept
  <1> QED
    BY <1>1, <1>2, <1>4, <1>5

LEMMA ConfirmPlacementStep ==
    ASSUME ChooserInv, ConfirmPlacement
    PROVE  ChooserInv'
  <1> USE DEF ChooserInv
  <1>1. Faithful(screen) /\ On("Confirm") /\ ~replan_pending
    BY Screens DEF ConfirmPlacement
  <1>2. job = Nothing /\ reply = Nothing
    BY <1>1 DEF SlotInv
  <1>3. WorldInv' /\ preview_generation' \in Nat
    BY ChooserAssumption DEF ChooserAssumption, WorldInv, ConfirmPlacement, Supersede, worldVars
  <1>4. /\ screen.file \in FileEntries /\ screen.gif \in BOOLEAN /\ screen.adj \in Adjustments
        /\ screen.rate_override \in Overrides /\ screen.row \in 0..(IF screen.gif THEN 7 ELSE 6)
        /\ screen.row \in 0..7 /\ (~screen.gif => screen.rate_override = NoRate)
    <2>1. /\ screen.file \in FileEntries /\ screen.gif \in BOOLEAN
          /\ screen.adj \in Adjustments /\ screen.rate_override \in Overrides
          /\ screen.row \in 0..(IF screen.gif THEN 7 ELSE 6)
      BY <1>1, FaithfulFacts
    <2>2. ~screen.gif => screen.rate_override = NoRate
      BY <1>1 DEF Faithful
    <2> QED
      BY <2>1, <2>2
  <1>5. Other(screen.plan.placement) \in Placements
    BY DEF Other, Placements
  <1>6. job' = [kind |-> "Replan", file |-> screen.file, gif |-> screen.gif,
                placement |-> Other(screen.plan.placement), adj |-> screen.adj,
                rate_override |-> screen.rate_override, row |-> screen.row,
                generation |-> preview_generation']
    BY DEF ConfirmPlacement, Hand
  <1>7. job' \in ReplanJobs /\ Replannable'
    BY <1>3, <1>4, <1>5, <1>6 DEF ReplanJobs, Replannable
  <1>8. ScreenInv'
    BY DEF ConfirmPlacement, ScreenInv
  <1>9. job'.kind = "Replan" /\ reply' = Nothing /\ Nothing.kind = "none"
    BY <1>2, <1>6, KindFacts DEF ConfirmPlacement
  <1>10. SlotInv'
    BY <1>9 DEF SlotInv, ConfirmPlacement, Hand
  <1>11. CountInv' /\ JobInv' /\ ReplyInv' /\ SentInv'
    BY <1>2, <1>7, <1>9 DEF CountInv, JobInv, ReplyInv, SentInv, ConfirmPlacement, Nothing
  <1> QED
    BY <1>3, <1>8, <1>10, <1>11

LEMMA ConfirmUploadStep ==
    ASSUME ChooserInv, ConfirmUpload
    PROVE  ChooserInv'
  <1> USE DEF ChooserInv
  <1>1. Faithful(screen) /\ ~replan_pending /\ ~job_pending
    BY Screens DEF ConfirmUpload
  <1>2. job = Nothing /\ reply = Nothing
    BY <1>1 DEF SlotInv
  <1>3. WorldInv'
    BY DEF WorldInv, ConfirmUpload, worldVars
  <1>4. ScreenInv' /\ ~On("Confirm")'
    BY LeavesInv DEF ConfirmUpload, Show
  <1>5. /\ job' = [kind |-> "Upload", plan |-> Publish(screen)]
        /\ seen' = [kind |-> "drawn", what |-> Drawn(screen)]
    BY DEF ConfirmUpload, Hand
  <1>6. job'.kind = "Upload" /\ reply' = Nothing /\ Nothing.kind = "none"
    BY <1>2, <1>5, KindFacts DEF ConfirmUpload
  <1>7. SlotInv'
    BY <1>1, <1>4, <1>6 DEF SlotInv, ConfirmUpload, Hand
  <1>8. JobInv'
    <2>1. PICK p : p = screen
      OBVIOUS
    <2>2. Faithful(p) /\ Chosen(p)' /\ Seen(p)'
      BY <1>1, <1>5, <2>1 DEF Chosen, Seen
    <2> QED
      BY <2>2 DEF JobInv
  <1>9. CountInv' /\ ReplyInv' /\ SentInv'
    BY <1>2, <1>6 DEF CountInv, ReplyInv, SentInv, ConfirmUpload, Nothing
  <1> QED
    BY <1>3, <1>4, <1>7, <1>8, <1>9

LEMMA BuildingFacts ==
    ASSUME ChooserInv, Building
    PROVE  /\ job.file \in FileEntries /\ job.gif \in BOOLEAN
           /\ job.kind = "Preview" \/ (job.kind = "Replan" /\ job \in ReplanJobs /\ Replannable)
           /\ job # Nothing /\ reply = Nothing /\ sent = Nothing
           /\ disk[job.file] \in Contents \cup {Gone}
  <1>1. /\ job.file \in FileEntries /\ job.gif \in BOOLEAN
        /\ job.kind = "Preview" \/ (job.kind = "Replan" /\ job \in ReplanJobs /\ Replannable)
    BY KindFacts DEF ChooserInv, Building, PreviewJobs, ReplanJobs
  <1>2. job # Nothing /\ reply = Nothing
    BY KindFacts DEF ChooserInv, Building, SlotInv
  <1>3. sent = Nothing
    BY <1>2, KindFacts DEF ChooserInv, SentInv
  <1>4. disk[job.file] \in Contents \cup {Gone}
    BY <1>1 DEF ChooserInv, WorldInv
  <1> QED
    BY <1>1, <1>2, <1>3, <1>4

LEMMA CountStep ==
    ASSUME ChooserInv, CountFrames
    PROVE  ChooserInv'
  <1>1. disk[job.file] \in Contents \cup {Gone}
    BY BuildingFacts DEF CountFrames
  <1>2. CountInv'
    BY <1>1 DEF CountFrames, CountInv, Countable, Gone
  <1>3. WorldInv' /\ ScreenInv' /\ SlotInv'
    BY DEF ChooserInv, CountFrames, WorldInv, ScreenInv, SlotInv, worldVars, gateVars, On
  <1>4. JobInv' /\ ReplyInv' /\ SentInv'
    BY DEF ChooserInv, CountFrames, JobInv, Replannable, ReplyInv, SentInv, Chosen, Seen,
           Delivered
  <1> QED
    BY <1>2, <1>3, <1>4 DEF ChooserInv

LEMMA AnswerBuildStep ==
    ASSUME ChooserInv, Building, NEW ok \in BOOLEAN, NEW pending, ok => Faithful(pending),
           AnswerBuild(ok, pending)
    PROVE  ChooserInv'
  <1> USE DEF ChooserInv
  <1>1. /\ job.kind \in {"Preview", "Replan"} /\ job # Nothing /\ reply = Nothing
        /\ sent = Nothing
    BY BuildingFacts
  <1>2. /\ reply'.kind = job.kind /\ reply'.ok = ok /\ reply'.pending = pending
        /\ job' = Nothing /\ counted' = Nothing
    BY DEF AnswerBuild
  <1>3. ReplyInv'
    BY <1>1, <1>2 DEF ReplyInv
  <1>4. reply' # Nothing /\ Nothing.kind = "none"
    BY <1>1, <1>2, KindFacts
  <1>5. SlotInv'
    BY <1>1, <1>2, <1>4, KindFacts DEF SlotInv, AnswerBuild, gateVars, On
  <1>6. WorldInv' /\ ScreenInv'
    BY DEF WorldInv, ScreenInv, AnswerBuild, worldVars, gateVars
  <1>7. CountInv' /\ JobInv' /\ SentInv'
    BY <1>1, <1>2 DEF CountInv, JobInv, SentInv, AnswerBuild
  <1> QED
    BY <1>3, <1>5, <1>6, <1>7

LEMMA BuildFailsStep ==
    ASSUME ChooserInv, BuildFails
    PROVE  ChooserInv'
  BY AnswerBuildStep DEF BuildFails

LEMMA BuildStep ==
    ASSUME ChooserInv, Build
    PROVE  ChooserInv'
  <1> DEFINE content == disk[job.file]
             source == IF job.gif THEN counted ELSE content
             pending == IF job.kind = "Preview"
                        THEN BuildPending(job.file, source, content, job.gif, "contain",
                                          Unadjusted, NoRate, 0)
                        ELSE BuildPending(job.file, source, content, job.gif, job.placement,
                                          job.adj, job.rate_override, job.row)
  <1>1. /\ job.file \in FileEntries /\ job.gif \in BOOLEAN
        /\ job.kind = "Preview" \/ (job.kind = "Replan" /\ job \in ReplanJobs /\ Replannable)
        /\ content \in Contents \cup {Gone}
    BY BuildingFacts DEF Build
  <1>2. Decodes(content, job.gif) /\ Building /\ AnswerBuild(TRUE, pending)
    BY DEF Build
  <1>3. content \in Contents
    BY <1>1, <1>2 DEF Decodes, Gone
  <1>4. source \in Contents
    BY <1>1, <1>3 DEF ChooserInv, Build, FirstPass, CountInv
  <1> HIDE DEF content, source
  <1>5. Faithful(pending)
    <2>1. CASE job.kind = "Preview"
      <3>1. "contain" \in Placements /\ NoRate \in Overrides
            /\ 0 \in 0..(IF job.gif THEN 7 ELSE 6)
        BY <1>1 DEF Placements, Overrides
      <3>2. Faithful(BuildPending(job.file, source, content, job.gif, "contain", Unadjusted,
                                  NoRate, 0))
        BY <1>1, <1>3, <1>4, <3>1, UnadjustedIsOne, BuildFaithful
      <3> QED
        BY <2>1, <3>2
    <2>2. CASE job.kind # "Preview"
      <3>1. job.placement \in Placements /\ job.adj \in Adjustments
            /\ job.rate_override \in Overrides /\ job.row \in 0..(IF job.gif THEN 7 ELSE 6)
            /\ (~job.gif => job.rate_override = NoRate)
        BY <1>1, <2>2 DEF ReplanJobs, Replannable
      <3>2. Faithful(BuildPending(job.file, source, content, job.gif, job.placement, job.adj,
                                  job.rate_override, job.row))
        BY <1>1, <1>3, <1>4, <3>1, BuildFaithful
      <3> QED
        BY <2>2, <3>2
    <2> QED
      BY <2>1, <2>2
  <1> HIDE DEF pending
  <1> QED
    BY <1>2, <1>5, AnswerBuildStep

LEMMA SendPlanStep ==
    ASSUME ChooserInv, SendPlan
    PROVE  ChooserInv'
  <1> USE DEF ChooserInv
  <1>1. PICK p : Faithful(p) /\ Chosen(p) /\ Seen(p)
    BY KindFacts DEF SendPlan
  <1>2. job.plan = Publish(p)
    BY <1>1 DEF Chosen
  <1>3. Reencode(Publish(p)).rate = Publish(p).rate
    BY DEF Reencode, Publish
  <1>4. /\ Delivered(p)' /\ Seen(p)'
        /\ reply' = [kind |-> "Finished"] /\ job' = Nothing
    BY <1>1, <1>2, <1>3 DEF SendPlan, Delivered, Seen
  <1>5. reply'.kind = "Finished" /\ Nothing.kind = "none" /\ job # Nothing
    BY <1>4, KindFacts DEF SendPlan
  <1>6. SlotInv'
    BY <1>4, <1>5, KindFacts DEF SlotInv, SendPlan, gateVars, On
  <1>7. CountInv' /\ JobInv' /\ ReplyInv' /\ SentInv'
    BY <1>1, <1>4 DEF CountInv, JobInv, ReplyInv, SentInv, SendPlan
  <1>8. WorldInv' /\ ScreenInv'
    BY DEF WorldInv, ScreenInv, SendPlan, worldVars, gateVars
  <1> QED
    BY <1>6, <1>7, <1>8

LEMMA AnswerFacts ==
    ASSUME ChooserInv, OnAnswer
    PROVE  /\ job = Nothing /\ job' = Nothing /\ reply' = Nothing /\ WorldInv'
           /\ browse_dir' = browse_dir /\ job_pending' = FALSE
           /\ CountInv' /\ JobInv' /\ ReplyInv'
  BY DEF ChooserInv, OnAnswer, SlotInv, WorldInv, worldVars, CountInv, JobInv, ReplyInv

LEMMA OnPreviewStep ==
    ASSUME ChooserInv, OnPreview
    PROVE  ChooserInv'
  <1> USE DEF ChooserInv
  <1>1. /\ job = Nothing /\ job' = Nothing /\ reply' = Nothing /\ WorldInv'
        /\ browse_dir' = browse_dir /\ job_pending' = FALSE
        /\ CountInv' /\ JobInv' /\ ReplyInv'
    BY AnswerFacts DEF OnPreview
  <1>2. reply.kind = "Preview" /\ Nothing.kind = "none" /\ (reply.ok => Faithful(reply.pending))
    BY KindFacts DEF OnPreview
  <1>3. ~replan_pending /\ replan_pending' = replan_pending
    BY <1>1, <1>2 DEF SlotInv, OnPreview
  <1>4. ScreenInv'
    <2>1. CASE screen' = screen
      BY <1>1, <2>1 DEF ScreenInv
    <2>2. CASE reply.ok /\ screen' = reply.pending
      <3>1. Faithful(screen') /\ browse_dir' \in Places
        BY <1>1, <1>2, <2>2 DEF ScreenInv
      <3> QED
        BY <3>1 DEF ScreenInv
    <2>3. CASE On("Browse") /\ screen' = ReadAgain(Missing, screen)
      <3>1. /\ BrowseInv(screen) /\ browse_dir = screen.dir /\ browse_dir \in Places
        BY <2>3, Screens DEF ScreenInv
      <3> QED
        BY <1>1, <2>3, <3>1, ReadAgainInv, BrowsesInv
    <2> QED
      BY <2>1, <2>2, <2>3 DEF OnPreview
  <1>5. SlotInv'
    BY <1>1, <1>2, <1>3 DEF SlotInv
  <1>6. SentInv'
    <2>1. sent = Nothing
      BY <1>2, KindFacts DEF SentInv
    <2> QED
      BY <2>1 DEF SentInv, OnPreview
  <1> QED
    BY <1>1, <1>4, <1>5, <1>6

LEMMA OnReplanStep ==
    ASSUME ChooserInv, OnReplan
    PROVE  ChooserInv'
  <1> USE DEF ChooserInv
  <1>1. /\ job = Nothing /\ job' = Nothing /\ reply' = Nothing /\ WorldInv'
        /\ browse_dir' = browse_dir /\ job_pending' = FALSE
        /\ CountInv' /\ JobInv' /\ ReplyInv'
    BY AnswerFacts DEF OnReplan
  <1>2. reply.kind = "Replan" /\ Nothing.kind = "none" /\ (reply.ok => Faithful(reply.pending))
    BY KindFacts DEF OnReplan
  <1>3. ScreenInv'
    <2>1. CASE screen' = screen
      BY <1>1, <2>1 DEF ScreenInv
    <2>2. CASE reply.ok /\ screen' = reply.pending
      <3>1. Faithful(screen') /\ browse_dir' \in Places
        BY <1>1, <1>2, <2>2 DEF ScreenInv
      <3> QED
        BY <3>1 DEF ScreenInv
    <2> QED
      BY <2>1, <2>2 DEF OnReplan
  <1>4. SlotInv'
    BY <1>1, <1>2 DEF SlotInv, OnReplan
  <1>5. SentInv'
    <2>1. sent = Nothing
      BY <1>2, KindFacts DEF SentInv
    <2> QED
      BY <2>1 DEF SentInv, OnReplan
  <1> QED
    BY <1>1, <1>3, <1>4, <1>5

LEMMA OnFinishedStep ==
    ASSUME ChooserInv, OnFinished
    PROVE  ChooserInv'
  <1> USE DEF ChooserInv
  <1>1. /\ job = Nothing /\ job' = Nothing /\ reply' = Nothing /\ WorldInv'
        /\ browse_dir' = browse_dir /\ job_pending' = FALSE
        /\ CountInv' /\ JobInv' /\ ReplyInv'
    BY AnswerFacts DEF OnFinished
  <1>2. reply.kind = "Finished" /\ Nothing.kind = "none"
    BY KindFacts DEF OnFinished
  <1>3. ScreenInv'
    BY <1>1, LeavesInv DEF OnFinished, Show
  <1>4. SlotInv'
    BY <1>1, <1>2 DEF SlotInv, OnFinished
  <1>5. SentInv'
    BY DEF SentInv, OnFinished
  <1> QED
    BY <1>1, <1>3, <1>4, <1>5

LEMMA WorldSteps ==
    ASSUME ChooserInv, Plug \/ ChangeFile
    PROVE  ChooserInv'
  <1> USE DEF ChooserInv
  <1>1. UNCHANGED <<screen, browse_dir, gateVars, workVars>>
    BY DEF Plug, ChangeFile
  <1>2. WorldInv'
    BY ChooserAssumption DEF ChooserAssumption, WorldInv, Plug, ChangeFile, worldVars, gateVars
  <1>3. ScreenInv'
    BY <1>1 DEF ScreenInv
  <1>4. SlotInv'
    BY <1>1 DEF SlotInv, gateVars, workVars, On
  <1>5. CountInv' /\ JobInv' /\ ReplyInv' /\ SentInv'
    BY <1>1, WorkKept
  <1> QED
    BY <1>2, <1>3, <1>4, <1>5

LEMMA StepInv == ChooserInv /\ [Next]_vars => ChooserInv'
  <1> SUFFICES ASSUME ChooserInv, [Next]_vars PROVE ChooserInv'
    OBVIOUS
  <1>1. CASE UNCHANGED vars
    BY <1>1 DEF vars, worldVars, gateVars, workVars, ChooserInv, WorldInv, ScreenInv, SlotInv,
          CountInv, JobInv, Replannable, ReplyInv, SentInv, Chosen, Seen, Delivered, On
  <1>2. CASE Next
    BY <1>2, BrowserSteps, BrowsePickStep, ConfirmSteps, ConfirmPlacementStep,
       ConfirmUploadStep, CountStep, BuildFailsStep, BuildStep, SendPlanStep, OnPreviewStep, OnReplanStep,
       OnFinishedStep, WorldSteps DEF Next
  <1> QED
    BY <1>1, <1>2

THEOREM ChooserInvariant == Spec => []ChooserInv
  BY InitInv, StepInv, PTL DEF Spec

(***************************************************************************)
(* Every state is well typed: what is under the cursor, on the confirm     *)
(* screen and in the slot is what the handlers take it for.                *)
(***************************************************************************)
THEOREM TypeCorrect == Spec => []TypeOK
  <1>1. ChooserInv => TypeOK
    <2> SUFFICES ASSUME ChooserInv PROVE TypeOK
      OBVIOUS
    <2>1. On("Menu") \/ On("Browse") \/ On("Confirm")
      BY Screens DEF ChooserInv
    <2>2. On("Browse") => screen \in BrowseType
      BY Screens DEF ChooserInv, BrowseInv
    <2>3. On("Confirm") =>
            /\ screen.file \in FileEntries /\ screen.row + 1 \in DOMAIN Rows(screen)
            /\ screen.adj \in Adjustments /\ screen.plan.adj \in Adjustments
            /\ RateShown(screen) \in FpsMin..FpsMax
      <3> SUFFICES ASSUME Faithful(screen)
                   PROVE  /\ screen.file \in FileEntries
                          /\ screen.row + 1 \in DOMAIN Rows(screen)
                          /\ screen.adj \in Adjustments /\ screen.plan.adj \in Adjustments
                          /\ RateShown(screen) \in FpsMin..FpsMax
        BY Screens DEF ChooserInv
      <3>1. screen.plan.adj \in Adjustments
        BY FaithfulFacts DEF PlanType
      <3> QED
        BY <3>1, FaithfulFacts DEF Faithful
    <2>4. /\ job.kind \in {"none", "Preview", "Replan", "Upload"}
          /\ reply.kind \in {"none", "Preview", "Replan", "Finished"}
      BY KindFacts DEF ChooserInv
    <2> QED
      BY <2>1, <2>2, <2>3, <2>4 DEF TypeOK, ChooserInv, WorldInv, ScreenInv, SlotInv, CountInv
  <1> QED
    BY <1>1, ChooserInvariant, PTL

(***************************************************************************)
(* What a faithful plan shows: a blank pane, or the first frame as the     *)
(* rows have it.                                                           *)
(***************************************************************************)
LEMMA PreviewFacts ==
    ASSUME NEW p, Faithful(p), NEW content \in Contents, PlansOf(p, content)
    PROVE  LET n == Encoded(p.plan.source, content) IN
           /\ n \in Nat /\ Len(p.plan.frames) = n /\ Len(p.plan.panels) = n
           /\ \A i \in 1..n : p.plan.panels[i] =
                  [of |-> content, number |-> i, placement |-> p.plan.placement]
           /\ n = 0 => Preview(p) = Blank
           /\ n > 0 =>
                 /\ Preview(p) = AdjustAndEncode(p.plan.panels[1], p.adj)
                 /\ Preview(p).panel.of = content /\ Preview(p).adj = p.adj
                 /\ Preview(p).panel.placement = p.plan.placement
                 /\ Preview(p) # Blank
  <1> DEFINE n == Encoded(p.plan.source, content)
  <1>1. /\ p.plan.source \in Contents /\ p.plan.placement \in Placements
        /\ p.plan.panels \in Seq(PanelType) /\ p.plan.frames \in Seq(FrameType)
    BY FaithfulFacts
  <1>2. /\ n \in Nat /\ Len(p.plan.panels) = n
        /\ \A i \in 1..n : p.plan.panels[i] =
               [of |-> content, number |-> i, placement |-> p.plan.placement]
    BY <1>1, PanelFacts DEF PlansOf
  <1>3. /\ DOMAIN p.plan.frames = 1..n
        /\ n > 0 => p.plan.frames[1] = AdjustAndEncode(p.plan.panels[1], p.adj)
    BY DEF PlansOf
  <1> HIDE DEF n
  <1>4. Len(p.plan.frames) = n
    BY <1>1, <1>2, <1>3
  <1>5. p.plan.frames = <<>> <=> n = 0
    BY <1>1, <1>2, <1>4, EmptySeq
  <1>6. ASSUME n > 0
        PROVE  /\ Preview(p) = AdjustAndEncode(p.plan.panels[1], p.adj)
               /\ Preview(p).panel.of = content /\ Preview(p).adj = p.adj
               /\ Preview(p).panel.placement = p.plan.placement
               /\ Preview(p) # Blank
    <2>1. Preview(p) = AdjustAndEncode(p.plan.panels[1], p.adj)
      BY <1>2, <1>3, <1>5, <1>6 DEF Preview
    <2>2. p.plan.panels[1] = [of |-> content, number |-> 1, placement |-> p.plan.placement]
      BY <1>2, <1>6
    <2>3. Preview(p).panel = p.plan.panels[1] /\ Preview(p).adj = p.adj
      BY <2>1 DEF AdjustAndEncode
    <2>4. Preview(p).panel.of = content /\ Preview(p).panel.placement = p.plan.placement
      BY <2>2, <2>3
    <2>5. "adj" \in DOMAIN Preview(p) /\ "adj" \notin DOMAIN Blank
      BY <2>1 DEF AdjustAndEncode, Blank
    <2> QED
      BY <2>1, <2>3, <2>4, <2>5
  <1>7. n = 0 => Preview(p) = Blank
    BY <1>5 DEF Preview
  <1> QED
    BY <1>2, <1>4, <1>6, <1>7 DEF n

(***************************************************************************)
(* What you looked at is what you send, whatever was edited, replanned,    *)
(* refused before or replaced on the disk, also between the two passes     *)
(* over a GIF (Enter of the confirm screen, and the worker that encodes    *)
(* every frame anew).                                                      *)
(***************************************************************************)
THEOREM SentAsSeen == Spec => []WhatYouSawIsSent
  <1>1. ChooserInv => WhatYouSawIsSent
    <2> SUFFICES ASSUME ChooserInv, sent # Nothing PROVE WhatYouSawIsSent
      BY DEF WhatYouSawIsSent
    <2>1. PICK p : Faithful(p) /\ Delivered(p) /\ Seen(p)
      BY DEF ChooserInv, SentInv
    <2>2. PICK content \in Contents : PlansOf(p, content)
      BY <2>1 DEF Faithful
    <2>3. /\ p \in PendingType /\ p.gif \in BOOLEAN /\ p.adj \in Adjustments
          /\ p.plan \in PlanType /\ p.plan.panels \in Seq(PanelType)
          /\ p.plan.placement \in Placements
      BY <2>1, FaithfulFacts
    <2> DEFINE n == Encoded(p.plan.source, content)
    <2>4. /\ n \in Nat /\ Len(p.plan.frames) = n /\ Len(p.plan.panels) = n
          /\ \A i \in 1..n : p.plan.panels[i] =
                 [of |-> content, number |-> i, placement |-> p.plan.placement]
          /\ n = 0 => Preview(p) = Blank
          /\ n > 0 => /\ Preview(p) = AdjustAndEncode(p.plan.panels[1], p.adj)
                      /\ Preview(p).panel.of = content /\ Preview(p) # Blank
      BY <2>1, <2>2, PreviewFacts
    <2>5. n = Least(p.plan.source.frames, content.frames)
      BY DEF Encoded
    <2> HIDE DEF n
    <2> DEFINE frames == EncodeAll(p.plan.panels, p.adj)
               rate == IF p.gif THEN RateShown(p) ELSE p.plan.rate
    <2>6. Publish(p) = [p.plan EXCEPT !.adj = p.adj, !.rate = rate]
      BY DEF Publish
    <2>7. Publish(p).panels = p.plan.panels /\ Publish(p).adj = p.adj /\ Publish(p).rate = rate
          /\ DOMAIN Publish(p) = DOMAIN p.plan
      BY <2>3, <2>6 DEF PlanType
    <2>8. Reencode(Publish(p)).frames = frames
      <3>1. "frames" \in DOMAIN Publish(p)
        BY <2>3, <2>7 DEF PlanType
      <3> QED
        BY <2>7, <3>1 DEF Reencode
    <2>9. sent.frames = frames /\ sent.rate = rate
      BY <2>1, <2>7, <2>8 DEF Delivered
    <2>10. /\ frames \in Seq(FrameType) /\ DOMAIN frames = 1..n /\ Len(frames) = n
           /\ \A i \in 1..n : frames[i] = AdjustAndEncode(p.plan.panels[i], p.adj)
      BY <2>3, <2>4, EncodedFacts
    <2> HIDE DEF frames
    <2>11. frames = <<>> <=> n = 0
      BY <2>4, <2>10, EmptySeq
    <2> DEFINE drawn == seen.what
    <2>12. /\ drawn.preview = Preview(p) /\ drawn.rate = RateShown(p)
           /\ drawn.frames = n /\ drawn.source_count = p.plan.source.frames
           /\ drawn.placement = p.plan.placement /\ drawn.adj = p.adj
      BY <2>1, <2>4 DEF Seen, Drawn
    <2> HIDE DEF drawn
    <2>13. sent.rate = drawn.rate
      BY <2>1, <2>3, <2>9, <2>12 DEF Faithful, RateShown
    <2>14. Len(sent.frames) = drawn.frames /\ (sent.frames = <<>> <=> drawn.preview = Blank)
      BY <2>4, <2>9, <2>10, <2>11, <2>12
    <2>15. ASSUME sent.frames # <<>>
           PROVE  /\ sent.frames[1] = drawn.preview
                  /\ drawn.frames = Least(drawn.source_count, drawn.preview.panel.of.frames)
                  /\ drawn.preview.panel.of = content
      <3>1. n > 0 /\ 1 \in 1..n
        BY <2>4, <2>9, <2>11, <2>15
      <3>2. sent.frames[1] = drawn.preview
        BY <2>4, <2>9, <2>10, <2>12, <3>1
      <3>3. drawn.preview.panel.of = content
        BY <2>4, <2>12, <3>1
      <3> QED
        BY <2>5, <2>12, <3>2, <3>3
    <2>16. ASSUME NEW i \in DOMAIN sent.frames
           PROVE  sent.frames[i] =
                      AdjustAndEncode([of |-> drawn.preview.panel.of, number |-> i,
                                       placement |-> drawn.placement], drawn.adj)
      <3>1. i \in 1..n /\ n > 0
        BY <2>4, <2>9, <2>10
      <3>2. sent.frames # <<>>
        BY <2>9, <2>11, <3>1
      <3>3. drawn.preview.panel.of = content
        BY <2>15, <3>2
      <3> QED
        BY <2>4, <2>9, <2>10, <2>12, <3>1, <3>3
    <2> QED
      BY <2>13, <2>14, <2>15, <2>16 DEF WhatYouSawIsSent, drawn
  <1> QED
    BY <1>1, ChooserInvariant, PTL

(***************************************************************************)
(* The confirm screen does not contradict itself: preview, rows, rate and  *)
(* warning agree (reencode_preview, nudge_rate and the notes of ui.rs),    *)
(* and a rate without a warning or a choice is that of the first pass.     *)
(***************************************************************************)
THEOREM ScreenAlwaysAgrees == Spec => []ScreenAgrees
  <1>1. ChooserInv => ScreenAgrees
    <2> SUFFICES ASSUME Faithful(screen)
                 PROVE  LET drawn == Drawn(screen)
                            Warned == {n.rate : n \in {n \in drawn.notes : n.kind = "RateFallback"}}
                            source == screen.plan.source IN
                        /\ drawn.preview # Blank =>
                              /\ drawn.preview.adj = screen.adj
                              /\ drawn.preview.panel.placement = drawn.placement
                        /\ Warned \subseteq {drawn.rate}
                        /\ screen.gif /\ drawn.rate # source.rate /\ Warned = {} => drawn.chosen
      BY Screens DEF ChooserInv, ScreenAgrees
    <2> DEFINE drawn == Drawn(screen)
               Warnings == {n \in drawn.notes : n.kind = "RateFallback"}
               Warned == {n.rate : n \in Warnings}
               source == screen.plan.source
    <2>1. PICK content \in Contents : PlansOf(screen, content)
      BY DEF Faithful
    <2>2. screen.gif \in BOOLEAN /\ screen.plan.fallback \in BOOLEAN
      BY FaithfulFacts DEF PlanType
    <2>3. Preview(screen) # Blank =>
              /\ Preview(screen).adj = screen.adj
              /\ Preview(screen).panel.placement = screen.plan.placement
      <3> DEFINE m == Encoded(screen.plan.source, content)
      <3>1. /\ m \in Nat /\ (m = 0 => Preview(screen) = Blank)
            /\ m > 0 => /\ Preview(screen).adj = screen.adj
                        /\ Preview(screen).panel.placement = screen.plan.placement
        BY <2>1, PreviewFacts
      <3> HIDE DEF m
      <3> QED
        BY <3>1
    <2>4. /\ drawn.preview = Preview(screen) /\ drawn.rate = RateShown(screen)
          /\ drawn.chosen = (screen.rate_override # NoRate)
          /\ drawn.placement = screen.plan.placement
          /\ drawn.notes = {n \in PlanNotes(screen) :
                                screen.rate_override = NoRate \/ n.kind # "RateFallback"}
      BY DEF Drawn
    <2> HIDE DEF drawn
    <2>5. drawn.preview # Blank =>
              /\ drawn.preview.adj = screen.adj
              /\ drawn.preview.panel.placement = drawn.placement
      BY <2>3, <2>4
    <2>6. \A n \in Warnings : /\ n = Note("RateFallback", screen.plan.rate)
                              /\ screen.rate_override = NoRate
      BY <2>4 DEF PlanNotes, Note
    <2>7. screen.rate_override = NoRate /\ screen.plan.fallback =>
              Note("RateFallback", screen.plan.rate) \in Warnings
      BY <2>4 DEF PlanNotes, Note
    <2>8. Note("RateFallback", screen.plan.rate).rate = screen.plan.rate
      BY DEF Note
    <2>9. Warned \subseteq {drawn.rate}
      BY <2>4, <2>6, <2>8 DEF RateShown
    <2>10. ASSUME screen.gif, drawn.rate # source.rate, Warned = {}
           PROVE  drawn.chosen
      <3> SUFFICES ASSUME screen.rate_override = NoRate PROVE FALSE
        BY <2>4
      <3>1. ~screen.plan.fallback
        BY <2>7, <2>10
      <3>2. source.rate # NoRate /\ screen.plan.rate = source.rate
        BY <2>1, <2>10, <3>1 DEF PlansOf
      <3> QED
        BY <2>4, <2>10, <3>2 DEF RateShown
    <2> QED
      BY <2>5, <2>9, <2>10 DEF drawn
  <1> QED
    BY <1>1, ChooserInvariant, PTL

(***************************************************************************)
(* The cursor of the browser is on something listed, and the list is of    *)
(* the directory above it, also after files have gone (read_dir and the    *)
(* reply of a preview that failed).                                        *)
(***************************************************************************)
THEOREM CursorStaysOnList == Spec => []CursorOnListed
  <1>1. ChooserInv => CursorOnListed
    <2> SUFFICES ASSUME ChooserInv, BrowseInv(screen), browse_dir = screen.dir
                 PROVE  CursorOnListed
      BY Screens DEF ChooserInv, CursorOnListed
    <2>1. screen.entries \in Seq(Catalogue) /\ screen.selected \in Nat
          /\ Len(screen.entries) \in Nat
      BY DEF BrowseInv, BrowseType
    <2>2. screen.entries # <<>> => Len(screen.entries) > 0
      BY <2>1, EmptySeq
    <2>3. screen.entries # <<>> => screen.selected \in 0..(Len(screen.entries) - 1)
      BY <2>1, <2>2 DEF BrowseInv, LastEntry, OrZero
    <2> QED
      BY <2>3 DEF CursorOnListed, BrowseInv
  <1> QED
    BY <1>1, ChooserInvariant, PTL
==================================================================================
