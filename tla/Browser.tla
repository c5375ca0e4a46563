--------------------------------- MODULE Browser ---------------------------------
(***************************************************************************)
(* The file browser: what a directory lists, and where the cursor is.      *)
(* read_dir and the keys of browse_key in tui/app.rs, and browse in        *)
(* tui/ui.rs, as operators on the fields of Screen::Browse.                *)
(***************************************************************************)
EXTENDS Integers, Sequences, FiniteSets

CONSTANTS
    Places,      \* the directories
    ParentOf,    \* the parent of each, or NoPlace
    Homes,       \* what HOME may name, or NoPlace
    Locked,      \* the directories nobody may read
    Catalogue,   \* everything that may be listed, see EntryType
    NoPlace

\* rank is the place of the name in lower case among all names; of two that differ only
\* in case, the one that read_dir yields first comes first.
EntryType ==
    [in : Places, rank : Nat, hidden : BOOLEAN, extension : {"png", "jpg", "jpeg", "gif", "txt"},
     isDir : BOOLEAN, to : Places \cup {NoPlace}]

ASSUME BrowserAssumption ==
    /\ NoPlace \notin Places /\ Homes \subseteq Places \cup {NoPlace} /\ Locked \subseteq Places
    /\ ParentOf \in [Places -> Places \cup {NoPlace}]
    /\ Catalogue \subseteq EntryType
    /\ \A e \in Catalogue : e.isDir <=> e.to \in Places
    /\ IsFiniteSet(Catalogue)
    /\ \A e, f \in Catalogue : e.in = f.in /\ e.isDir = f.isDir /\ e.rank = f.rank => e = f

BrowseType ==
    [kind : {"Browse"}, gif : BOOLEAN, dir : Places, entries : Seq(Catalogue), selected : Nat,
     error : {"none", "unreadable", "unset"}]

FileEntries == {e \in Catalogue : ~e.isDir}

Accepted(gif) == IF gif THEN {"gif"} ELSE {"png", "jpg", "jpeg"}

Listed(e, dir, gif) ==
    e.in = dir /\ ~e.hidden /\ (e.isDir \/ e.extension \in Accepted(gif))

\* Directories first, each kind by name, whatever its case.
Before(a, b) == IF a.isDir # b.isDir THEN a.isDir ELSE a.rank < b.rank

\* Vec::sort_by.
Sorted(S) ==
    CHOOSE s \in [1..Cardinality(S) -> S] : \A i, j \in DOMAIN s : i < j => Before(s[i], s[j])

\* Gone are the entries that are no longer there.
ReadDir(gone, dir, gif) ==
    IF dir \in Locked THEN [entries |-> <<>>, error |-> "unreadable"]
    ELSE [entries |-> Sorted({e \in Catalogue \ gone : Listed(e, dir, gif)}),
          error |-> "none"]

--------------------------------------------------------------------------------
OpenAt(gone, dir, gif) ==
    LET read == ReadDir(gone, dir, gif) IN
    [kind |-> "Browse", gif |-> gif, dir |-> dir, entries |-> read.entries, selected |-> 0,
     error |-> read.error]

OrZero(n) == IF n < 0 THEN 0 ELSE n
Smaller(a, b) == IF a < b THEN a ELSE b

LastEntry(b) == OrZero(Len(b.entries) - 1)

CursorUp(b) == [b EXCEPT !.selected = OrZero(@ - 1)]
CursorDown(b) == [b EXCEPT !.selected = Smaller(@ + 1, LastEntry(b))]

\* Backspace; the root has no parent.
ToParent(gone, b) ==
    IF ParentOf[b.dir] = NoPlace THEN b ELSE OpenAt(gone, ParentOf[b.dir], b.gif)

\* The error takes the place of the list on the screen, which is kept behind it.
ToHome(gone, b, home) ==
    IF home = NoPlace THEN [b EXCEPT !.error = "unset"] ELSE OpenAt(gone, home, b.gif)

\* entries.get(selected), as a set: nothing, or the one entry under the cursor.
UnderCursor(b) ==
    IF b.selected < Len(b.entries) THEN {b.entries[b.selected + 1]} ELSE {}

\* Mutant: the list is read again, and the cursor left where it was.
ReadAgainOnly(gone, b) ==
    LET read == ReadDir(gone, b.dir, b.gif) IN
    [b EXCEPT !.entries = read.entries, !.error = read.error]

\* After a preview that failed, usually because the file has gone.
ReadAgain(gone, b) ==
    LET read == ReadDir(gone, b.dir, b.gif) IN
    [b EXCEPT !.entries = read.entries, !.error = read.error,
              !.selected = Smaller(@, OrZero(Len(read.entries) - 1))]
================================================================================
