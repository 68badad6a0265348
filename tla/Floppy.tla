------------------------------- MODULE Floppy -------------------------------
(***************************************************************************)
(* Paula's disk controller (paula_floppy.v), the firmware that plays the   *)
(* drives (fdd.c, InsertFloppy of menu.c) and the Amiga in front.  The     *)
(* server learns everything by polling a status over SPI; the Amiga may    *)
(* step, select, start or stop a DMA between any two polls.  A sector on   *)
(* the wire is one unit, with the number of words it takes.                *)
(***************************************************************************)
EXTENDS Integers, Sequences, SequencesExt, FiniteSetsExt

CONSTANTS Drives,        \* the drives Paula reports
          Images,          \* ADF files: a record [tracks, writable] each
          SECTOR_COUNT,    \* sectors per track (11)
          ClusterSize,     \* cluster_size: sectors per cluster of the card
          MaxTrack,        \* for each drive, the last position of its heads
          MaxUnits,        \* longest read DMA, in sectors and gaps
          Shapes,          \* what the Amiga may write: see Stream
          Changes,         \* how often the user puts in a disk or takes one out
          Aborts,          \* how often the Amiga stops a DMA early
          AbortKinds,      \* and of which: "read", "write"
          None             \* nothing yet

ASSUME FloppyAssumption ==
    /\ Drives \subseteq 0..3 /\ 0 \in Drives
    /\ SECTOR_COUNT \in Nat \ {0} /\ ClusterSize \in Nat \ {0}
    /\ MaxTrack \in [Drives -> Nat] /\ MaxUnits \in Nat /\ Changes \in Nat /\ Aborts \in Nat
    /\ AbortKinds \subseteq {"read", "write"}
    /\ \A i \in DOMAIN Images : Images[i] \in [tracks : Nat \ {0}, writable : BOOLEAN]
    /\ Shapes \subseteq {"sector", "pair", "foreign", "cut"}

VARIABLES df,            \* the drives as the firmware knows them
          stored,          \* the last sector FileWrite put into an image
          pc, sel,         \* where the server is, and for which drive
          file,            \* the cursor all drives share: image, sector, cluster
          sector,          \* local of ReadTrack and WriteTrack
          buf,             \* sector_buffer: the place it was read from
          req,             \* what the last poll said
          n,               \* words left to look through for a sync
          Track, Sector,   \* what GetHeader found
          ErrorFatal,      \* an error is on the screen, the server is off
          paula,           \* the disk controller
          out,             \* what the Amiga has yet to write
          last,            \* the last sector that went into the FIFO for this DMA
          swaps, stops

fw_vars == <<pc, sel, file, sector, buf, req, n, Track, Sector>>
amiga_vars == <<out, last, stops>>
vars == <<df, stored, fw_vars, ErrorFatal, paula, amiga_vars, swaps>>

-----------------------------------------------------------------------------
\* Image files.  Clusters are numbered along the chain.

FileNextSector(f) ==
    [f EXCEPT !.sector = f.sector + 1,
              !.cluster = IF (f.sector + 1) % ClusterSize = 0 THEN f.cluster + 1
                          ELSE f.cluster]

Closed == [image |-> None, sector |-> 0, cluster |-> 0]
Start(i) == [image |-> i, sector |-> 0, cluster |-> 1]

\* k sectors further on
Skip(f, k) == LET g[j \in 0..k] == IF j = 0 THEN f ELSE FileNextSector(g[j - 1])
              IN  g[k]

\* The sector of the image that FileRead and FileWrite address.
Place(f) == (f.cluster - 1) * ClusterSize + (f.sector % ClusterSize)

\* drive->cache: the cluster of the first sector of each track.
cache(i, t) == Skip(Start(i), t * SECTOR_COUNT).cluster

\* The cursor at the beginning of a track.  Beyond the cache is whatever lies there.
TrackStart(d, t) ==
    [image |-> df[d].image, sector |-> t * SECTOR_COUNT,
     cluster |-> IF t < df[d].tracks THEN cache(df[d].image, t) ELSE 0]

Empty == [inserted |-> FALSE, writable |-> FALSE, image |-> None, tracks |-> 0,
          cluster_offset |-> 0, sector_offset |-> 0, track |-> 0, track_prev |-> 0]

\* InsertFloppy, for the image the menu has selected
InsertFloppy(i) ==
    [inserted |-> TRUE, writable |-> Images[i].writable, image |-> i,
     tracks |-> Images[i].tracks, cluster_offset |-> cache(i, 0), sector_offset |-> 0,
     track |-> 0, track_prev |-> -1]

-----------------------------------------------------------------------------
\* What goes over the wire, and how many words it takes.

Sec(i, p, t, s) == [k |-> "sector", image |-> i, place |-> p, track |-> t, sector |-> s]
Gap == [k |-> "gap"]
Sync == [k |-> "sync"]
Zero == [k |-> "zero"]
Part == [k |-> "part"]                 \* the beginning of a sector's data
Header(t, s) == [k |-> "head", track |-> t, sector |-> s]
Data(t, s) == [k |-> "data", track |-> t, sector |-> s]

words == [sector |-> 544, gap |-> 350, sync |-> 1, head |-> 25, data |-> 516, part |-> 258]
Count(q) == LET upto[i \in 0..Len(q)] == IF i = 0 THEN 0 ELSE upto[i - 1] + words[q[i].k]
            IN  upto[Len(q)]
HalfFull == 1024
FifoWords == 2048

\* What the Amiga may write to track t: a sector in its gap, two of them, one
\* of another track, or one that the length of the DMA cuts short.
Stream(shape, t, s) ==
    CASE shape = "sector"  -> <<Gap, Sync, Header(t, s), Data(t, s)>>
      [] shape = "pair"    -> <<Sync, Header(t, s), Data(t, s), Sync, Header(t, 0), Data(t, 0), Gap>>
      [] shape = "foreign" -> <<Sync, Header(t + 1, s), Data(t + 1, s)>>
      [] OTHER             -> <<Sync, Header(t, s), Part>>

-----------------------------------------------------------------------------
\* Paula

trackrd(p) == p.dskstate = "active" /\ ~p.write /\ p.dsklen # 0
trackwr(p) == p.dskstate = "active" /\ p.write

\* A status poll: what it answers, and the DMA it lets begin.
Answer(p) ==
    [rd |-> trackrd(p) /\ Count(p.fifo) < HalfFull, wr |-> trackwr(p),
     sel |-> p.sel, track |-> p.track[p.sel], cnt |-> Count(p.fifo),
     dma |-> p.dmaen /\ p.write]

Polled(p) ==
    IF p.dskstate = "idle" /\ p.dmaen /\ p.dsklen # 0
    THEN [p EXCEPT !.dskstate = "active"] ELSE p

\* A word of the disk goes into the FIFO while a read wants one.
Put(p, u) ==
    IF trackrd(p) THEN [p EXCEPT !.fifo = Append(@, u), !.dsklen = @ - 1] ELSE p

\* A word of the FIFO for the server: zeros when there is no write any more.
NextWord(p) == IF trackwr(p) /\ p.fifo # <<>> THEN p.fifo[1] ELSE Zero

\* dmaen low resets the FIFO and stops the DMA.
Stop(p) == [p EXCEPT !.dmaen = FALSE, !.fifo = <<>>, !.dskstate = "idle", !.dsklen = 0]

\* UpdateDriveStatus: which drives hold a disk, and which may be written
Told(p) == [p EXCEPT !.present = {d \in Drives : df[d].inserted},
                     !.writable = {d \in Drives : df[d].writable}]

-----------------------------------------------------------------------------
\* The main loop: HandleFpga, HandleUI, and nothing else while an error is shown.

\* Back from a track; what the locals and the cursor hold is of no use any more.
Finish == /\ pc' = "status" /\ sector' = 0 /\ buf' = None /\ req' = None
          /\ n' = 0 /\ Track' = 0 /\ Sector' = 0
          /\ file' = Closed /\ sel' = 0 /\ stored' = None

\* The sector and the cursor ReadTrack begins with: those of the track, or where it
\* gave up on this very track.
FirstSector(d, t) == IF t # df[d].track_prev THEN 0 ELSE df[d].sector_offset
FirstCursor(d, t) ==
    IF t # df[d].track_prev THEN TrackStart(d, t)
    ELSE [image |-> df[d].image, sector |-> t * SECTOR_COUNT + df[d].sector_offset,
          cluster |-> df[d].cluster_offset]

\* HandleFDD: a read request.  A drive without an image has no last track:
\* the byte wraps.
ReadRequest(a) ==
    LET d == a.sel
        illegal == a.track >= df[d].tracks
        t == IF illegal THEN (df[d].tracks - 1) % 256 ELSE a.track
    IN  /\ sel' = d
        /\ ErrorFatal' = (ErrorFatal \/ illegal)
        /\ file' = FirstCursor(d, t)
        /\ sector' = FirstSector(d, t)
        /\ df' = [df EXCEPT ![d].track = t, ![d].track_prev = t,
                            ![d].sector_offset = FirstSector(d, t),
                            ![d].cluster_offset = FirstCursor(d, t).cluster]
        /\ pc' = "first"
        /\ UNCHANGED <<buf, req, n, Track, Sector>>

\* HandleFDD: a write request.
WriteRequest(a) ==
    /\ sel' = a.sel
    /\ df' = [df EXCEPT ![a.sel].track = a.track, ![a.sel].track_prev = -1]
    /\ file' = TrackStart(a.sel, a.track)
    /\ sector' = 0
    /\ pc' = "sync"
    /\ UNCHANGED <<ErrorFatal, buf, req, n, Track, Sector>>

\* HandleFDD: neither, and perhaps a request of the IDE drive.  What it makes
\* of the motors is for the sounds.
NoRequest(a) ==
    /\ \/ UNCHANGED df
       \/ /\ df[a.sel].inserted /\ df[a.sel].track \div 2 # a.track \div 2
          /\ df' = [df EXCEPT ![a.sel].track = a.track]
    /\ pc' = "status"
    /\ UNCHANGED <<sel, file, sector, buf, req, n, Track, Sector, ErrorFatal>>

HandleFpga ==
    /\ pc = "main" /\ ~ErrorFatal
    /\ paula' = Polled(paula)
    /\ LET a == Answer(paula)
       IN  \/ a.rd /\ ReadRequest(a)
           \/ ~a.rd /\ a.wr /\ WriteRequest(a)
           \/ ~a.rd /\ ~a.wr /\ NoRequest(a)
    /\ UNCHANGED <<stored, amiga_vars, swaps>>

UpdateDriveStatus ==
    /\ pc = "status"
    /\ paula' = Told(paula)
    /\ pc' = "ui"
    /\ UNCHANGED <<df, stored, sel, file, sector, buf, req, n, Track, Sector, ErrorFatal,
                   amiga_vars, swaps>>

\* Mutant: a disk may be chosen without taking the old one out first.
HandleUI_Swap ==
    /\ pc = "ui" /\ pc' = "main"
    /\ \/ UNCHANGED <<df, swaps, last>>
       \/ \E d \in Drives :
            \/ /\ df[d].inserted
               /\ swaps < Changes /\ swaps' = swaps + 1
               /\ df' = [df EXCEPT ![d].inserted = FALSE, ![d].writable = FALSE]
               /\ UNCHANGED last
            \/ /\ swaps < Changes
               /\ \E i \in DOMAIN Images : df' = [df EXCEPT ![d] = InsertFloppy(i)]
               /\ swaps' = swaps + 1 /\ last' = None
    /\ UNCHANGED <<stored, sel, file, sector, buf, req, n, Track, Sector, ErrorFatal, paula,
                   out, stops>>

\* HandleUI: the user takes a disk out, puts one into an empty drive, or nothing.
HandleUI ==
    /\ pc = "ui" /\ pc' = "main"
    /\ \/ UNCHANGED <<df, swaps, last>>
       \/ \E d \in Drives :
            \/ /\ df[d].inserted
               /\ swaps < Changes /\ swaps' = swaps + 1
               /\ df' = [df EXCEPT ![d].inserted = FALSE, ![d].writable = FALSE]
               /\ UNCHANGED last
            \/ /\ ~df[d].inserted /\ swaps < Changes
               /\ \E i \in DOMAIN Images : df' = [df EXCEPT ![d] = InsertFloppy(i)]
               /\ swaps' = swaps + 1 /\ last' = None
    /\ UNCHANGED <<stored, sel, file, sector, buf, req, n, Track, Sector, ErrorFatal, paula,
                   out, stops>>

\* The user dismisses the error.
ClearError ==
    /\ pc = "main" /\ ErrorFatal
    /\ ErrorFatal' = FALSE
    /\ UNCHANGED <<df, stored, fw_vars, paula, amiga_vars, swaps>>

-----------------------------------------------------------------------------
\* ReadTrack

read_rest == <<df, stored, sel, file, sector, n, Track, Sector, ErrorFatal, swaps>>

\* The first poll, whose answer goes to the debug output only.
FirstPoll ==
    /\ pc = "first"
    /\ paula' = Polled(paula)
    /\ pc' = "fileread"
    /\ UNCHANGED <<read_rest, buf, req, amiga_vars>>

FileRead ==
    /\ pc = "fileread"
    /\ buf' = Place(file)
    /\ pc' = "check"
    /\ UNCHANGED <<read_rest, req, paula, amiga_vars>>

\* Is the FPGA still asking, and for this track?  The sector goes out in the
\* same transaction as the answer.
CheckRequest ==
    /\ pc = "check"
    /\ LET a == Answer(paula)
           t == IF a.track >= df[sel].tracks THEN df[sel].tracks - 1 ELSE a.track
       IN  /\ req' = [rd |-> a.rd, track |-> t]
           /\ pc' = IF a.rd /\ t = df[sel].track THEN "send" ELSE "stop"
    /\ paula' = Polled(paula)
    /\ UNCHANGED <<read_rest, buf, amiga_vars>>

StopReading ==
    /\ pc = "stop" /\ Finish
    /\ UNCHANGED <<df, ErrorFatal, paula, amiga_vars, swaps>>

\* Mutant: the cursor runs on into the next track.
SendSector_NoRewind ==
    LET u == Sec(file.image, buf, df[sel].track, sector)
        sent == Put(paula, u)
        wrap == sector = SECTOR_COUNT - 1
        f == FileNextSector(file)
    IN  /\ pc = "send"
        /\ paula' = IF wrap THEN Put(sent, Gap) ELSE sent
        /\ last' = IF sent # paula THEN u ELSE last
        /\ sector' = (sector + 1) % SECTOR_COUNT
        /\ file' = f
        /\ df' = [df EXCEPT ![sel].sector_offset = sector', ![sel].cluster_offset = f.cluster]
        /\ pc' = "fileread"
        /\ UNCHANGED <<stored, sel, buf, req, n, Track, Sector, ErrorFatal, out, stops, swaps>>

\* Mutant: the place to resume at is remembered before the step to the next sector.
SendSector_Late ==
    LET u == Sec(file.image, buf, df[sel].track, sector)
        sent == Put(paula, u)
        wrap == sector = SECTOR_COUNT - 1
        f == IF wrap THEN TrackStart(sel, df[sel].track) ELSE FileNextSector(file)
    IN  /\ pc = "send"
        /\ paula' = IF wrap THEN Put(sent, Gap) ELSE sent
        /\ last' = IF sent # paula THEN u ELSE last
        /\ sector' = (sector + 1) % SECTOR_COUNT
        /\ file' = f
        /\ df' = [df EXCEPT ![sel].sector_offset = sector, ![sel].cluster_offset = file.cluster]
        /\ pc' = "fileread"
        /\ UNCHANGED <<stored, sel, buf, req, n, Track, Sector, ErrorFatal, out, stops, swaps>>

\* SendSector, with the gap behind the last one, and on to the next sector.
SendSector ==
    LET u == Sec(file.image, buf, df[sel].track, sector)
        sent == Put(paula, u)
        wrap == sector = SECTOR_COUNT - 1
        f == IF wrap THEN TrackStart(sel, df[sel].track) ELSE FileNextSector(file)
    IN  /\ pc = "send"
        /\ paula' = IF wrap THEN Put(sent, Gap) ELSE sent
        /\ last' = IF sent # paula THEN u ELSE last
        /\ sector' = (sector + 1) % SECTOR_COUNT
        /\ file' = f
        /\ df' = [df EXCEPT ![sel].sector_offset = sector', ![sel].cluster_offset = f.cluster]
        /\ pc' = "fileread"
        /\ UNCHANGED <<stored, sel, buf, req, n, Track, Sector, ErrorFatal, out, stops, swaps>>

-----------------------------------------------------------------------------
\* WriteTrack

write_rest == <<df, stored, sel, buf, req, amiga_vars, swaps>>

\* FindSync: a poll, and then as many words as it said.
SyncPoll ==
    /\ pc = "sync"
    /\ paula' = Polled(paula)
    /\ LET a == Answer(paula)
       IN  IF ~a.wr \/ a.track # df[sel].track \/ (a.cnt = 0 /\ ~a.dma)
           THEN Finish
           ELSE /\ n' = Len(paula.fifo)
                /\ pc' = IF n' = 0 THEN "sync" ELSE "word"
                /\ UNCHANGED <<stored, sel, file, sector, buf, req, Track, Sector>>
    /\ UNCHANGED <<df, ErrorFatal, amiga_vars, swaps>>

Take(p) == IF trackwr(p) /\ p.fifo # <<>> THEN [p EXCEPT !.fifo = Tail(@)] ELSE p

SyncWord ==
    /\ pc = "word"
    /\ paula' = Take(paula)
    /\ n' = IF NextWord(paula) = Sync THEN 0 ELSE n - 1
    /\ pc' = IF NextWord(paula) = Sync THEN "headpoll" ELSE IF n = 1 THEN "sync" ELSE "word"
    /\ UNCHANGED <<write_rest, file, sector, Track, Sector, ErrorFatal>>

\* GetHeader and GetData wait until the FIFO holds all they want, unless the
\* write is over; without DMA there is nothing to wait for.
Wait(from, to, enough) ==
    /\ pc = from
    /\ paula' = Polled(paula)
    /\ LET a == Answer(paula)
       IN  /\ pc' = IF ~a.wr THEN "sync"
                    ELSE IF a.cnt >= enough THEN to
                    ELSE IF ~a.dma THEN "sync" ELSE from
           /\ ErrorFatal' = (ErrorFatal \/ (a.wr /\ a.cnt < enough /\ ~a.dma))
    /\ UNCHANGED <<write_rest, file, sector, n, Track, Sector>>

HeaderPoll == Wait("headpoll", "head", 25)
DataPoll == Wait("datapoll", "data", 516)

\* Mutant: going back leaves the cluster where it was.
GetHeader_KeepCluster ==
    LET h == NextWord(paula)
        mine == h.k = "head" /\ h.track = df[sel].track
        from == IF h.sector < sector THEN [file EXCEPT !.sector = h.track * SECTOR_COUNT] ELSE file
        ahead == IF h.sector < sector THEN h.sector ELSE h.sector - sector
    IN  /\ pc = "head"
        /\ paula' = Take(paula)
        /\ IF mine
           THEN /\ file' = Skip(from, ahead)
                /\ sector' = h.sector /\ Track' = h.track /\ Sector' = h.sector
                /\ pc' = "datapoll"
                /\ UNCHANGED ErrorFatal
           ELSE /\ ErrorFatal' = TRUE          \* wrong header or wrong track
                /\ pc' = "sync"
                /\ UNCHANGED <<file, sector, Track, Sector>>
        /\ UNCHANGED <<write_rest, n>>

\* GetHeader, and the cursor moved to the sector it names.
GetHeader ==
    LET h == NextWord(paula)
        mine == h.k = "head" /\ h.track = df[sel].track
        from == IF h.sector < sector THEN TrackStart(sel, h.track) ELSE file
        ahead == IF h.sector < sector THEN h.sector ELSE h.sector - sector
    IN  /\ pc = "head"
        /\ paula' = Take(paula)
        /\ IF mine
           THEN /\ file' = Skip(from, ahead)
                /\ sector' = h.sector /\ Track' = h.track /\ Sector' = h.sector
                /\ pc' = "datapoll"
                /\ UNCHANGED ErrorFatal
           ELSE /\ ErrorFatal' = TRUE          \* wrong header or wrong track
                /\ pc' = "sync"
                /\ UNCHANGED <<file, sector, Track, Sector>>
        /\ UNCHANGED <<write_rest, n>>

\* GetData and FileWrite.  A write that was stopped leaves zeros in the buffer,
\* and zeros are their own checksum.
GetData ==
    LET u == NextWord(paula)
    IN  /\ pc = "data"
        /\ paula' = Take(paula)
        /\ ErrorFatal' = (ErrorFatal \/ u.k \notin {"data", "zero"})
        /\ stored' = IF u.k \in {"data", "zero"} /\ df[sel].writable
                     THEN [image |-> file.image, place |-> Place(file), unit |-> u]
                     ELSE stored
        /\ pc' = "sync"
        /\ UNCHANGED <<df, sel, buf, req, file, sector, n, Track, Sector, amiga_vars, swaps>>

-----------------------------------------------------------------------------
\* The rest of Paula, and the Amiga

host_rest == <<df, stored, fw_vars, ErrorFatal, swaps>>

\* The whole DMA has gone through the FIFO: DSKBLK.
BlockDone ==
    /\ paula.dskstate = "active" /\ paula.dsklen = 0 /\ paula.fifo = <<>>
    /\ paula' = Stop(paula)
    /\ last' = None
    /\ UNCHANGED <<host_rest, out, stops>>

\* Chip DMA takes a word of a read, or puts a word of a write.
ReadDma ==
    /\ paula.dmaen /\ ~paula.write /\ paula.dskstate = "active" /\ paula.fifo # <<>>
    /\ paula' = [paula EXCEPT !.fifo = Tail(@)]
    /\ UNCHANGED <<host_rest, amiga_vars>>

WriteDma ==
    /\ trackwr(paula) /\ paula.dsklen # 0
    /\ Count(paula.fifo) + words[out[1].k] <= FifoWords
    /\ paula' = [paula EXCEPT !.fifo = Append(@, out[1]), !.dsklen = @ - 1]
    /\ out' = Tail(out)
    /\ UNCHANGED <<host_rest, last, stops>>

\* Between two DMAs the Amiga steps and selects.  It does not
\* get as far as the next DMA in the microseconds between the poll that found the
\* old one and the first of ReadTrack.
AmigaIdle == ~paula.dmaen /\ pc # "first"

Select ==
    /\ AmigaIdle
    /\ \E d \in Drives : paula' = [paula EXCEPT !.sel = d]
    /\ UNCHANGED <<host_rest, amiga_vars>>

Step == /\ AmigaIdle
        /\ \E t \in 0..MaxTrack[paula.sel] : /\ paula.track[paula.sel] \in {t - 1, t + 1}
                                  /\ paula' = [paula EXCEPT !.track[paula.sel] = t]
        /\ UNCHANGED <<host_rest, amiga_vars>>

ReadTrackDma ==
    /\ AmigaIdle /\ paula.sel \in paula.present
    /\ \E k \in 1..MaxUnits :
         paula' = [paula EXCEPT !.dmaen = TRUE, !.dsklen = k, !.write = FALSE]
    /\ UNCHANGED <<host_rest, amiga_vars>>

WriteTrackDma ==
    /\ AmigaIdle /\ paula.sel \in paula.present
    /\ \E shape \in Shapes, s \in 0..(SECTOR_COUNT - 1) :
         /\ out' = Stream(shape, paula.track[paula.sel], s)
         /\ paula' = [paula EXCEPT !.dmaen = TRUE, !.dsklen = Len(out'), !.write = TRUE]
    /\ UNCHANGED <<host_rest, last, stops>>

\* Some loaders stop the DMA when a sector is not what they expect.
Abort ==
    /\ paula.dmaen /\ stops < Aborts
    /\ (IF paula.write THEN "write" ELSE "read") \in AbortKinds
    /\ paula' = Stop(paula)
    /\ out' = <<>> /\ last' = None /\ stops' = stops + 1
    /\ UNCHANGED host_rest

-----------------------------------------------------------------------------
Init ==
    /\ df = [d \in Drives |-> Empty]
    /\ stored = None /\ pc = "main" /\ sel = 0 /\ file = Closed
    /\ sector = 0 /\ buf = None /\ req = None /\ n = 0 /\ Track = 0 /\ Sector = 0
    /\ ErrorFatal = FALSE
    /\ paula = [sel |-> 0, track |-> [d \in Drives |-> 0],
                dskstate |-> "idle", dmaen |-> FALSE, write |-> FALSE, dsklen |-> 0,
                fifo |-> <<>>, present |-> {}, writable |-> {}]
    /\ out = <<>> /\ last = None /\ swaps = 0 /\ stops = 0

Server ==
    \/ HandleFpga \/ UpdateDriveStatus \/ HandleUI \/ ClearError
    \/ FirstPoll \/ FileRead \/ CheckRequest \/ StopReading \/ SendSector
    \/ SyncPoll \/ SyncWord \/ HeaderPoll \/ GetHeader \/ DataPoll \/ GetData

Chip == BlockDone \/ ReadDma \/ WriteDma
Amiga == Select \/ Step \/ ReadTrackDma \/ WriteTrackDma \/ Abort

Next == Server \/ Chip \/ Amiga

Spec == Init /\ [][Next]_vars

-----------------------------------------------------------------------------
\* Properties

\* A sector that enters the FIFO of a read is the sector its header names, of the
\* disk in the selected drive, on the track the heads are over (the last one, when
\* the image ends before): SendSector takes the header from sector and track, the
\* data from a cursor that ReadTrack, FileNextSector and InsertFloppy's cache
\* maintain apart from them, over DMAs that stop, resume and change drives.
SectorsTrue ==
    [][\A u \in Range(paula'.fifo) \ Range(paula.fifo) :
         (u.k = "sector") =>
             /\ u.place = u.track * SECTOR_COUNT + u.sector
             /\ u.image = df[paula.sel].image
             /\ u.track = Min({paula.track[paula.sel], df[paula.sel].tracks - 1})]_vars

\* Within a DMA the sectors come in the order they pass under the heads, none
\* left out and none twice, however often ReadTrack gave up in between because
\* the FIFO was half full.
SectorsInOrder ==
    [][(last # None /\ Len(paula'.fifo) > Len(paula.fifo)) =>
          last'.sector = (last.sector + 1) % SECTOR_COUNT]_vars

\* What goes into an image is what the Amiga wrote to that very sector: the data of the
\* header before it, at a cursor stepped or rewound to the header's sector, and only on
\* a disk that may be written.
StoreInPlace ==
    stored # None =>
        /\ Images[stored.image].writable
        /\ stored.unit.k = "data"
        /\ stored.place = stored.unit.track * SECTOR_COUNT + stored.unit.sector

\* A drive never gets a disk that Paula has not seen empty: _change is the only way
\* the Amiga has to tell that its buffers are of another disk.
ChangeSeen ==
    [][\A d \in Drives : df'[d].image # df[d].image => d \notin paula.present]_vars
=============================================================================
