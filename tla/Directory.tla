------------------------------ MODULE Directory ------------------------------
(***************************************************************************)
(* The window on a directory that the file selector shows: ScanDirectory   *)
(* and ChangeDirectory of fat.c, and the keys of MENU_FILE_SELECT2 that    *)
(* call them (menu.c).  The firmware has no room for a directory: it keeps *)
(* MAXDIRENTRIES entries, in order, and reads the whole directory again    *)
(* for every step out of that window, replacing entries while it reads.    *)
(*                                                                         *)
(* DirEntry and sort_table are win, the entries in sorted order.  A name   *)
(* is its place in the order (CompareDirEntries) and its first letter.     *)
(* Volume labels, hidden entries, "." and long-name slots are left out of  *)
(* the directories: the scan passes over them.                             *)
(***************************************************************************)
EXTENDS Integers, SequencesExt

CONSTANTS Dirs,           \* cluster -> directory, entries in the order of the card; 0 is the root
          MAXDIRENTRIES,  \* entries of the window (8)
          Extensions,     \* extensions SelectFile is called with
          Letters,        \* letter keys
          fat32,          \* the root is a chain of clusters too
          Stray,          \* entries read at "cluster 0", which is no directory
          MaxFaults,      \* reads that fail
          Breaks,         \* entries that may have been read by then
          Unset

\* An entry: [place, letter, dir, up, cluster, ext]; up is the name "..".
Entries == UNION {Range(Dirs[d]) : d \in DOMAIN Dirs}

\* CompareDirEntries(e, f) < 0: directories first.
Less(e, f) == \/ e.dir /\ ~f.dir
              \/ e.dir = f.dir /\ e.place < f.place

\* No two entries of a directory have the same name.  What a file's cluster leads to is its
\* data, read as a directory.
ASSUME DirectoryAssumption ==
    /\ 0 \in DOMAIN Dirs /\ MAXDIRENTRIES \in Nat /\ MAXDIRENTRIES >= 2 /\ MaxFaults \in Nat
    /\ Letters \subseteq Nat /\ Breaks \subseteq Nat /\ fat32 \in BOOLEAN
    /\ \A d \in DOMAIN Dirs :
          /\ Dirs[d] \in Seq(Range(Dirs[d]))
          /\ \A i, j \in DOMAIN Dirs[d] : i # j => Less(Dirs[d][i], Dirs[d][j]) \/ Less(Dirs[d][j], Dirs[d][i])
    /\ Stray \in Seq(Range(Stray))
    /\ \A e \in Entries \cup Range(Stray) :
          /\ e.place \in Nat /\ e.letter \in Nat /\ e.dir \in BOOLEAN /\ e.up \in BOOLEAN
          /\ e.cluster \in DOMAIN Dirs

\* Entries of one sort are in the order of their first letters.
LettersInOrder ==
    \A d \in DOMAIN Dirs : \A e, f \in Range(Dirs[d]) :
        e.dir = f.dir /\ e.place < f.place => e.letter <= f.letter

VARIABLES iCurrentDirectory, iPreviousDirectory,
          win,           \* DirEntry[sort_table[i]], i < nDirEntries
          sel,           \* iSelectedEntry, from 1
          fs_pFileExt,
          menustate,     \* "closed", "FILE_SELECT2" or, with a file selected, "chosen"
          faults,
          known,         \* the window was read from this directory, and nothing failed
          key            \* the last key, <<kind, letter>>

view == <<iCurrentDirectory, iPreviousDirectory, win, sel, known>>
SelectorVars == <<view, fs_pFileExt, menustate, faults, key>>

-----------------------------------------------------------------------------
\* The loop of ScanDirectory.  It takes b, all a scan may change, builds a
\* table w and notes in new whether it has found an entry (nNewEntries).

\* Entries that pass the filter.
Passes(e, ext) == e.dir \/ e.ext = ext
Listed(d, ext) == {e \in Range(Dirs[d]) : Passes(e, ext)}

\* e comes before f in a table that is sorted upwards or, for SCAN_PREV_PAGE, downwards.
Before(e, f, back) == IF back THEN Less(f, e) ELSE Less(e, f)

\* One pass of bubble-sorting from the end of the table; the last entry makes room.
Slot(e, w, back) ==
    CHOOSE k \in 0..Len(w) : /\ k > 0 => ~Before(e, w[k], back)
                             /\ \A i \in (k + 1)..Len(w) : Before(e, w[i], back)
Placed(e, w, back) ==
    LET k == Slot(e, w, back)
    IN  [i \in 1..Min({Len(w) + 1, MAXDIRENTRIES}) |->
            IF i <= k THEN w[i] ELSE IF i = k + 1 THEN e ELSE w[i - 1]]

\* What the modes collect that sort as they read.  (The top of the window stays the top
\* in SCAN_INIT_NEXT.)
Collects(mode, letter, b, e) ==
    CASE mode = "INIT" -> TRUE
      [] mode = "INIT_NEXT" -> Less(b.win[1], e)
      [] mode = "NEXT_PAGE" -> Less(Last(b.win), e)
      [] mode = "PREV_PAGE" -> Less(e, b.win[1])
      [] mode = "FIND_FILE" -> e.letter >= letter /\ ~e.dir
      [] mode = "FIND_DIR" -> e.letter >= letter \/ ~e.dir
      [] mode = "FIND_NEXT" -> Less(b.win[b.sel], e)

\* Slip: any lower entry takes the place of the one found.
StepNext_AnyLower(r, e) ==
    LET M == MAXDIRENTRIES IN
    IF ~r.new
    THEN IF Less(r.w[M], e) THEN [w |-> Append(Tail(r.w), e), new |-> TRUE] ELSE r
    ELSE IF Less(e, r.w[M]) THEN [r EXCEPT !.w[M] = e] ELSE r
\* SCAN_NEXT: the first higher entry found scrolls the window, a lower one between it and
\* the row above takes its place.
StepNext(r, e) ==
    LET M == MAXDIRENTRIES IN
    IF ~r.new
    THEN IF Less(r.w[M], e) THEN [w |-> Append(Tail(r.w), e), new |-> TRUE] ELSE r
    ELSE IF Less(e, r.w[M]) /\ Less(r.w[M - 1], e) THEN [r EXCEPT !.w[M] = e] ELSE r
\* SCAN_PREV: the same at the other end; a short window grows.
StepPrev(r, e) ==
    IF ~r.new
    THEN IF Less(e, r.w[1])
         THEN [w |-> SubSeq(<<e>> \o r.w, 1, Min({Len(r.w) + 1, MAXDIRENTRIES})), new |-> TRUE] ELSE r
    ELSE IF Less(r.w[1], e) /\ Less(e, r.w[2]) THEN [r EXCEPT !.w[1] = e] ELSE r
\* SCAN_INIT_FIRST: the entry of the directory that was left.
StepFirst(r, e, prev) == IF e.cluster = prev THEN [w |-> <<e>>, new |-> TRUE] ELSE r

Step(mode, letter, b, r, e) ==
    CASE mode = "NEXT" -> StepNext(r, e)
      [] mode = "PREV" -> StepPrev(r, e)
      [] mode = "INIT_FIRST" -> StepFirst(r, e, b.prev)
      [] OTHER -> IF Collects(mode, letter, b, e)
                  THEN [w |-> Placed(e, r.w, mode = "PREV_PAGE"), new |-> TRUE] ELSE r

\* Modes that work on the window, the others on a table of their own.
InPlace == {"INIT_FIRST", "INIT_NEXT", "NEXT", "PREV"}

\* The entries s are read.
Loop(mode, letter, b, ext, s) ==
    LET r[i \in 0..Len(s)] ==
            IF i = 0 THEN [w |-> IF mode \in InPlace THEN b.win ELSE <<>>, new |-> FALSE]
            ELSE IF Passes(s[i], ext) THEN Step(mode, letter, b, r[i - 1], s[i])
                 ELSE r[i - 1]
    IN  r[Len(s)]

-----------------------------------------------------------------------------
\* What a scan reads: the entries it sees and how it ends.  The read of a directory
\* sector that fails ends it ("cut").  The read of the FAT that fails does not: GetFATLink's
\* 0 is no end of a chain, so the scan goes on at cluster 0, whose link, the first of the
\* FAT, does end it; it has passed over the rest of the directory and taken in what it
\* found there ("strayed").

Whole(d) == [seen |-> Dirs[d], end |-> "whole"]
Chained(d) == d # 0 \/ fat32
NoFault == <<0, "none", 0>>

\* What the k-th scan of a key reads of d: the f[1]-th fails after f[3] entries.
ReadBy(d, k, f) ==
    LET part == SubSeq(Dirs[d], 1, Min({f[3], Len(Dirs[d])})) IN
    CASE k = f[1] /\ f[2] = "cut" -> [seen |-> part, end |-> "cut"]
      [] k = f[1] /\ f[2] = "strayed" /\ Chained(d) -> [seen |-> part \o Stray, end |-> "strayed"]
      [] OTHER -> Whole(d)

-----------------------------------------------------------------------------
\* ScanDirectory in each mode, with what it reads.

Folders == {0} \cup {e.cluster : e \in {f \in Entries : f.dir}}

\* Every directory but the root has an entry "..", and that leads to the only one that has
\* it as an entry, once, and under a name of its own.
FolderTree ==
    /\ \A d \in Folders \ {0} : \E e \in Range(Dirs[d]) : e.dir /\ e.up
    /\ \A d \in Folders : \A e \in Range(Dirs[d]) : e.dir /\ e.up =>
           /\ \E f \in Range(Dirs[e.cluster]) : f.cluster = d
           /\ \A f \in Range(Dirs[e.cluster]) : f.cluster = d => f.dir /\ ~f.up

Done(b, n) == n = Whole(b.cur)
\* A scan that failed leaves a window nothing is known of; one that strayed does not tell.
Failed(b, n) ==
    IF Done(b, n) THEN b ELSE [b EXCEPT !.known = FALSE, !.rc = (n.end = "strayed" /\ b.rc)]

ScanInit(b, ext, n) ==
    Failed([b EXCEPT !.win = Loop("INIT", 0, b, ext, n.seen).w,
                     !.sel = 1, !.rc = FALSE, !.known = b.cur \in Folders], n)

\* The entry of the directory that was left goes to the top of the window.
ScanInitFirst(b, ext, n) ==
    LET r == Loop("INIT_FIRST", 0, b, ext, n.seen)
    IN  IF b.win = <<>> THEN [b EXCEPT !.rc = FALSE]
        ELSE IF ~r.new THEN Failed([b EXCEPT !.rc = FALSE], n)
        ELSE Failed([b EXCEPT !.win = r.w, !.sel = 1, !.rc = TRUE], n)

ScanInitNext(b, ext, n) ==
    Failed([b EXCEPT !.win = Loop("INIT_NEXT", 0, b, ext, n.seen).w,
                     !.rc = FALSE, !.known = b.cur \in Folders], n)

\* Down from the last row, up from the first.
ScanNext(b, ext, n) ==
    IF b.win = <<>> THEN b
    ELSE IF b.sel < Len(b.win) THEN [b EXCEPT !.sel = b.sel + 1]
    ELSE IF Len(b.win) < MAXDIRENTRIES THEN b
    ELSE Failed([b EXCEPT !.win = Loop("NEXT", 0, b, ext, n.seen).w], n)
ScanPrev(b, ext, n) ==
    IF b.win = <<>> THEN b
    ELSE IF b.sel > 1 THEN [b EXCEPT !.sel = b.sel - 1]
    ELSE Failed([b EXCEPT !.win = Loop("PREV", 0, b, ext, n.seen).w], n)

\* A page is put together apart and copied unless the scan was cut.
ScanNextPage(b, ext, n) ==
    LET new == Loop("NEXT_PAGE", 0, b, ext, n.seen).w
    IN  IF b.win = <<>> THEN b
        ELSE IF b.sel < Len(b.win) THEN [b EXCEPT !.sel = Len(b.win)]
        ELSE IF Len(b.win) < MAXDIRENTRIES \/ n.end = "cut" THEN b
        ELSE Failed([b EXCEPT !.win = SubSeq(b.win, Len(new) + 1, Len(b.win)) \o new], n)
ScanPrevPage(b, ext, n) ==
    LET new == Loop("PREV_PAGE", 0, b, ext, n.seen).w
        w == Reverse(new) \o b.win
    IN  IF b.win = <<>> THEN b
        ELSE IF b.sel > 1 THEN [b EXCEPT !.sel = 1]
        ELSE IF n.end = "cut" THEN b
        ELSE Failed([b EXCEPT !.win = SubSeq(w, 1, Min({Len(w), MAXDIRENTRIES}))], n)

\* A letter: the first file, the first directory, or the next entry after the
\* selected one of its sort, that begins with it; rc tells whether there is one.
ScanLetter(b, ext, n, letter, find) ==
    LET new == Loop(find, letter, b, ext, n.seen).w
    IN  IF /\ b.win # <<>> /\ n.end # "cut" /\ new # <<>>
           /\ new[1].letter = letter
           /\ find = "FIND_DIR" => new[1].dir
           /\ find = "FIND_NEXT" => new[1].dir = b.win[b.sel].dir
        THEN Failed([b EXCEPT !.win = new, !.sel = 1, !.rc = TRUE], n)
        ELSE [b EXCEPT !.rc = FALSE]

\* Slip: the directory that is left is not remembered.
ChangeDirectory_Forgets(b, c) == [b EXCEPT !.cur = c, !.known = FALSE]
ChangeDirectory(b, c) == [b EXCEPT !.prev = b.cur, !.cur = c, !.known = FALSE]

-----------------------------------------------------------------------------
\* The keys.  A key makes up to three scans, in turn; f tells which of them
\* fails, if any, and how and where.

State == [cur |-> iCurrentDirectory, prev |-> iPreviousDirectory, win |-> win, sel |-> sel,
          known |-> known, rc |-> FALSE]
Becomes(b) == /\ iCurrentDirectory' = b.cur /\ iPreviousDirectory' = b.prev
              /\ win' = b.win /\ sel' = b.sel /\ known' = b.known

\* The entry under the cursor; with no entries, what the slot last held.
Selected(b) == IF b.win # <<>> THEN {b.win[b.sel]} ELSE Entries \cup Range(Stray)

\* SCAN_INIT_FIRST has made b of reading m, SCAN_INIT_NEXT reads n.
ScanFromFirst(b, ext, m, n) == Failed(ScanInitNext(b, ext, n), m)

\* KEY_BACK takes the first entry of a subdirectory for its "..", whichever it is.
Back(f) ==
    IF iCurrentDirectory = 0 THEN UNCHANGED view
    ELSE LET b == ScanInit(State, fs_pFileExt, ReadBy(iCurrentDirectory, 1, f))
         IN  \E e \in Selected(b) :
             LET up == ChangeDirectory(b, e.cluster)
                 m == ReadBy(up.cur, 2, f)
                 first == ScanInitFirst(up, fs_pFileExt, m)
             IN  Becomes(IF first.rc THEN ScanFromFirst(first, fs_pFileExt, m, ReadBy(up.cur, 3, f)) ELSE first)

\* Slip: a letter looks from the start again when the selected entry has it.
Searches_FromStart(letter) == IF win[sel].dir THEN <<"FIND_DIR", "FIND_FILE">> ELSE <<"FIND_FILE", "FIND_DIR">>

\* The order in which a letter looks.
Searches(letter) ==
    LET at == win[sel]
        mine == IF at.dir THEN "FIND_DIR" ELSE "FIND_FILE"
        other == IF at.dir THEN "FIND_FILE" ELSE "FIND_DIR"
    IN  CASE letter < at.letter -> <<other, mine>>
          [] letter > at.letter -> <<mine, other>>
          [] OTHER -> <<"FIND_NEXT", other, mine>>
Letter(letter, f) ==
    LET Search(b, k) ==
            IF b.rc \/ k > Len(Searches(letter)) THEN b
            ELSE ScanLetter(b, fs_pFileExt, ReadBy(b.cur, k, f), letter, Searches(letter)[k])
    IN  IF win = <<>> THEN UNCHANGED view
        ELSE Becomes(Search(Search(Search(State, 1), 2), 3))

Scan(k, l, f) ==
    LET m == ReadBy(iCurrentDirectory, 1, f) IN
    \/ k = "home" /\ Becomes(ScanInit(State, fs_pFileExt, m))
    \/ k = "pgup" /\ Becomes(ScanPrevPage(State, fs_pFileExt, m))
    \/ k = "pgdn" /\ Becomes(ScanNextPage(State, fs_pFileExt, m))
    \/ k = "down" /\ Becomes(ScanNext(State, fs_pFileExt, m))
    \/ k = "up" /\ Becomes(ScanPrev(State, fs_pFileExt, m))
    \/ k = "back" /\ Back(f)
    \/ k = "letter" /\ Letter(l, f)

\* A directory is entered; its parent is shown from the directory that is left.
Enter(e, f) ==
    LET b == ChangeDirectory(State, e.cluster)
        m == ReadBy(b.cur, 1, f)
        n == ReadBy(b.cur, 2, f)
        first == ScanInitFirst(b, fs_pFileExt, m)
    IN  Becomes(IF ~e.up THEN ScanInit(b, fs_pFileExt, m)
                ELSE IF first.rc THEN ScanFromFirst(first, fs_pFileExt, m, n)
                ELSE ScanInit(first, fs_pFileExt, n))

\* Which scan of a key fails, how, and after how many entries.
Faults == {NoFault} \cup (IF faults < MaxFaults THEN (1..3) \X {"cut", "strayed"} \X Breaks ELSE {})
Faulty(f) == faults' = IF f = NoFault THEN faults ELSE faults + 1

ScanKeys == ({"home", "pgup", "pgdn", "down", "up", "back"} \X {0}) \cup ({"letter"} \X Letters)
FileSelect2 ==
    /\ menustate = "FILE_SELECT2" /\ UNCHANGED fs_pFileExt
    /\ \/ \E k \in ScanKeys, f \in Faults : /\ Scan(k[1], k[2], f) /\ Faulty(f)
                                           /\ key' = k /\ UNCHANGED menustate
       \/ \E e \in Selected(State), f \in Faults : /\ e.dir /\ Enter(e, f) /\ Faulty(f)
                                                   /\ key' = <<"select", 0>> /\ UNCHANGED menustate
       \/ /\ \E e \in Selected(State) : ~e.dir
          /\ menustate' = (IF win = <<>> THEN "closed" ELSE "chosen") /\ key' = <<"select", 0>>
          /\ UNCHANGED <<view, faults>>
       \/ /\ menustate' = "closed" /\ key' = <<"menu", 0>>
          /\ UNCHANGED <<view, faults>>

\* Another extension starts at the root; the same one takes up where it was left.
SelectFile(ext) ==
    /\ menustate # "FILE_SELECT2" /\ menustate' = "FILE_SELECT2"
    /\ fs_pFileExt' = ext /\ key' = <<Unset, 0>>
    /\ IF ext = fs_pFileExt
       THEN UNCHANGED <<view, faults>>
       ELSE \E f \in Faults : /\ Becomes(ScanInit(ChangeDirectory(State, 0), ext, ReadBy(0, 1, f)))
                             /\ Faulty(f)

\* Configurations, hardfiles and ROMs are looked for from the root.
Elsewhere ==
    /\ menustate # "FILE_SELECT2" /\ menustate' = "closed" /\ key' = <<Unset, 0>>
    /\ Becomes(ChangeDirectory(State, 0))
    /\ UNCHANGED <<fs_pFileExt, faults>>

SelectorInit ==
    /\ iCurrentDirectory = 0 /\ iPreviousDirectory = 0 /\ win = <<>> /\ sel = 1
    /\ fs_pFileExt = Unset /\ menustate = "closed" /\ faults = 0 /\ known = FALSE /\ key = <<Unset, 0>>
SelectorNext == FileSelect2 \/ (\E ext \in Extensions : SelectFile(ext)) \/ Elsewhere
SelectorSpec == SelectorInit /\ [][SelectorNext]_SelectorVars

-----------------------------------------------------------------------------
\* Properties.

\* What the directory shows, and where in its order the cursor is: 0 if it shows nothing.
Listing == Listed(iCurrentDirectory, fs_pFileExt)
Position == IF win = <<>> THEN 0 ELSE Cardinality({e \in Listing : ~Less(win[sel], e)})

\* The window w, with the cursor on row r, shows a gapless part of the entries L in
\* their order, and is short only at its end.
Shows(w, r, L) ==
    \/ w = <<>> /\ L = {}
    \/ /\ r \in DOMAIN w /\ Len(w) <= MAXDIRENTRIES
       /\ Range(w) \subseteq L
       /\ \A i, j \in DOMAIN w : i < j => Less(w[i], w[j])
       /\ \A e \in L \ Range(w) : Less(e, w[1]) \/ (Less(Last(w), e) /\ Len(w) = MAXDIRENTRIES)

\* The window is a gapless part of the sorted directory, and is short only at
\* its end: what the ways of replacing entries while reading, in whatever order
\* the card holds them, come to.  A window that a failed read has marred is not
\* meant, until the directory is read from its start again.
WindowOfListing == known => Shows(win, sel, Listing)

\* Where the directory d has its "..": before all its other entries.
ParentFirst(d) ==
    \E e \in Range(Dirs[d]) : e.dir /\ e.up /\ \A f \in Range(Dirs[d]) : f = e \/ Less(e, f)

\* The key leads to the parent directory: KEY_BACK, if ".." comes first, and ".." selected.
ToParent(k) ==
    \/ k = "back" /\ iCurrentDirectory # 0 /\ ParentFirst(iCurrentDirectory)
    \/ k = "select" /\ win # <<>> /\ win[sel].dir /\ win[sel].up

\* The cursor goes where the key says: up and down by one entry of the
\* directory, a page at most to the edge of the window or the next windowful,
\* and into the parent directory, which is where ".." leads, onto the directory
\* that was left.
CursorFollows ==
    [][known /\ faults' = faults /\ menustate' = "FILE_SELECT2" /\ menustate = "FILE_SELECT2" =>
        LET all == Cardinality(Listing)
            at == Position
            to == Position'
        IN  /\ key'[1] = "down" => to = Min({at + 1, all})
            /\ key'[1] = "up" => to = Max({at - 1, Min({1, all})})
            /\ key'[1] = "pgdn" => to \in at..(at + MAXDIRENTRIES) /\ (to = at => at = all)
            /\ key'[1] = "pgup" => to \in (at - MAXDIRENTRIES)..at /\ (to = at => at \in {0, 1})
            /\ ToParent(key'[1]) =>
                  /\ \E e \in Range(Dirs[iCurrentDirectory]) : e.up /\ e.cluster = iCurrentDirectory'
                  /\ win'[sel'].cluster = iCurrentDirectory /\ ~win'[sel'].up]_SelectorVars

\* A letter finds an entry that begins with it if there is one, and pressed
\* again goes on to another if there is one.
LettersFind ==
    [][known /\ faults' = faults /\ key'[1] = "letter" /\ menustate = "FILE_SELECT2" =>
        LET hits == {e \in Listing : e.letter = key'[2]}
        IN  hits # {} => /\ win'[sel'].letter = key'[2]
                         /\ (\E e, f \in hits : e # f) => win'[sel'] # win[sel]]_SelectorVars
=============================================================================
