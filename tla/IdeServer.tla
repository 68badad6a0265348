----------------------------- MODULE IdeServer -----------------------------
(***************************************************************************)
(* The hard-disk server of the firmware (hdd.c, with the file cursor of    *)
(* fat.c) between Gayle's registers and a hardfile or a card, and the      *)
(* Amiga's driver in front.  One action per step that the other side can   *)
(* see: a status write, a wait, a sector in or out of the FIFO, one link   *)
(* of the FAT.  A sector is named by its place on the medium.              *)
(***************************************************************************)
EXTENDS Integers, Sequences, FiniteSetsExt, Geometry

CONSTANTS Sizes,               \* of the hardfile or the card, in sectors
          ClusterSize,         \* cluster_size: sectors per cluster
          LinksPerSector,      \* links in a sector of the FAT (128 or 256)
          IndexStep,           \* sectors per entry of the hardfile's index
          Kinds,               \* types of drive to consider
          CountRegister,       \* values of the sector count register (256), where 0 means all of them
          MaxRead, MaxWrite,   \* longest transfers
          MaxMultiple,         \* the block size the driver sets for ..._MULTIPLE
          FifoSectors,         \* sectors in Gayle's FIFO
          CardFaults           \* may the card fail?

ASSUME IdeServerAssumption ==
    /\ Sizes \subseteq Nat \ {0}
    /\ ClusterSize \in Nat \ {0}
    /\ LinksPerSector \in Nat \ {0}
    \* an entry of the index is a whole number of clusters: both are powers of
    \* two, and the smallest entry is as long as the longest cluster
    /\ IndexStep \in Nat \ {0} /\ IndexStep % ClusterSize = 0
    /\ Kinds \subseteq {"file", "synth", "card"}
    /\ CountRegister \in Nat \ {0}
    /\ MaxRead \in 1..CountRegister /\ MaxWrite \in 0..CountRegister
    \* IDENTIFY offers blocks as long as the FIFO
    /\ FifoSectors \in Nat \ {0} /\ MaxMultiple \in 1..FifoSectors /\ MaxMultiple < CountRegister
    /\ CardFaults \in BOOLEAN

VARIABLES type,          \* hdf[0].type: a file, a file behind an RDB of ours, a card
          size,          \* and how many sectors it has
          spb,           \* hdf[0].sectors_per_block
          file,          \* hdf[0].file: sector and cluster of the cursor
          pc,            \* where the server is
          lba, sector_count, block_count,    \* its locals
          nSize, bc,     \* those of FileReadEx
          goal, back,    \* those of FileSeek: the offset, and where it returns to
          g,             \* Gayle's registers
          tfr,           \* the task file
          host,          \* the Amiga's driver
          request, active, moved, trusted    \* what AbstractDisk speaks of

fw_locals == <<lba, sector_count, block_count, nSize, bc, goal, back>>
fw_vars == <<pc, fw_locals>>
disk_vars == <<request, active, moved, trusted>>
vars == <<type, size, spb, file, fw_vars, g, tfr, host, disk_vars>>

-----------------------------------------------------------------------------
\* Addresses

\* Slip: the cylinder for an RDB of ours is counted whether there is one or not.
Geo_Always == [k \in Kinds |-> [n \in Sizes |-> [Approximate(k, n) EXCEPT !.cylinders = @ + 1]]]

\* The geometry of each drive, and the one of this.
Geo == [k \in Kinds |-> [n \in Sizes |-> GetHardfileGeometry(k, n)]]
Heads == Geo[type][size].heads
Sectors == Geo[type][size].sectors

chs2lba(a) == (a.c * Heads + a.h) * Sectors + a.s - 1

\* What the driver puts into the task file for a sector.
ChsOf(l) == [c |-> l \div (Heads * Sectors),
             h |-> (l \div Sectors) % Heads,
             s |-> (l % Sectors) + 1]

\* Slip: the last sector of a track is followed by the next cylinder.
NextChs_SkipHead(a) ==
    IF a.s # Sectors THEN [a EXCEPT !.s = a.s + 1] ELSE [c |-> a.c + 1, h |-> 0, s |-> 1]

\* One step of "Advance CHS values".
NextChs(a) ==
    IF a.s # Sectors THEN [a EXCEPT !.s = a.s + 1]
    ELSE IF a.h + 1 # Heads THEN [a EXCEPT !.s = 1, !.h = a.h + 1]
    ELSE [c |-> a.c + 1, h |-> 0, s |-> 1]

\* The address of the last of n sectors.
Advance(a, n) ==
    LET f[k \in 0..(n - 1)] == IF k = 0 THEN a ELSE NextChs(f[k - 1])
    IN  f[n - 1]

\* hdf[unit].offset: the RDB we make up takes the first cylinder.
Offset == IF type = "synth" THEN 0 - Heads * Sectors ELSE 0

\* As much as IDENTIFY and the RDB tell the Amiga of.
Announced(k, n) == Geo[k][n].cylinders * Geo[k][n].heads * Geo[k][n].sectors

\* The place of a sector of the drive: a block made up by FakeRDB, a sector of
\* the file, or a sector of the card.
PlaceOf(r, l) ==
    LET rdb == Geo[r.kind][r.size].heads * Geo[r.kind][r.size].sectors
    IN  IF r.cmd = "identify" THEN <<"identify", 0>>
        ELSE IF r.kind # "synth" THEN <<r.kind, l>>
        ELSE IF l < rdb THEN <<"rdb", l>> ELSE <<"file", l - rdb>>

-----------------------------------------------------------------------------
\* The cursor of an open file: clusters are numbered along the chain.

Clusters == (size + ClusterSize - 1) \div ClusterSize
EOC == Clusters + 1
Link(c) == IF c < Clusters THEN c + 1 ELSE EOC
ClusterOf(s) == s \div ClusterSize

\* Where FileRead, FileReadEx and FileWrite address the card, k sectors on: what
\* lies behind a cluster is not the file's next one.
At(f, k) == IF f.cluster = EOC \/ (f.sector % ClusterSize) + k >= ClusterSize
            THEN <<"wild", f.sector + k>>
            ELSE <<"file", (f.cluster - 1) * ClusterSize + (f.sector % ClusterSize) + k>>

\* FileSeek, up to its loop: moving back means starting again, except within
\* the cluster.
Rewind(f, offset) ==
    IF f.sector <= offset THEN f
    ELSE IF ClusterOf(f.sector) # ClusterOf(offset) THEN [sector |-> 0, cluster |-> 1]
    ELSE [f EXCEPT !.sector = offset]

\* hdf[unit].index: the cluster at the beginning of every stretch of the file.
index(i) == (i * IndexStep) \div ClusterSize + 1

\* Slip: the sector of the index, and the cluster of where the cursor was.
Jump_KeepCluster(f, offset) ==
    IF ClusterOf(f.sector) # ClusterOf(offset) /\ f.sector > offset
    THEN [f EXCEPT !.sector = (offset \div IndexStep) * IndexStep] ELSE f

\* HardFileSeek, up to its call of FileSeek.
Jump(f, offset) ==
    IF /\ ClusterOf(f.sector) # ClusterOf(offset)
       /\ \/ f.sector > offset
          \/ ClusterOf(f.sector) \div LinksPerSector # ClusterOf(offset) \div LinksPerSector
    THEN [sector |-> (offset \div IndexStep) * IndexStep,
          cluster |-> index(offset \div IndexStep)]
    ELSE f

\* Where BuildHardfileIndex leaves the cursor: at its last entry.
Indexed == LET i == (size - 1) \div IndexStep
           IN  [sector |-> i * IndexStep, cluster |-> index(i)]

-----------------------------------------------------------------------------
\* Gayle

Drq(r) == \/ r.pio_in /\ r.fifo # <<>>
          \/ r.pio_out /\ r.fifo = <<>> /\ r.count # 0
Bsy(r) == r.busy /\ ~Drq(r)            \* what the server sees as CMD_IDECMD

\* What follows a change of the registers within a clock or two: a block that
\* becomes ready interrupts, and PIO in ends with the command.
Settle(old, r) ==
    LET edge == r.pio_in /\ r.mark /\ ~Drq(old) /\ Drq(r)
        s == IF edge THEN [r EXCEPT !.intreq = TRUE, !.mark = FALSE] ELSE r
    IN  IF ~s.busy /\ ~Drq(s) THEN [s EXCEPT !.pio_in = FALSE] ELSE s

\* WriteStatus(bits)
Status(r, bits) ==
    Settle(r, [
        busy |-> r.busy /\ "END" \notin bits,
        pio_in |-> r.pio_in \/ (r.busy /\ "RDY" \in bits),
        pio_out |-> /\ r.pio_out \/ (r.busy /\ "REQ" \in bits)
                    /\ ~(r.busy /\ "END" \in bits),
        error |-> r.error \/ (r.busy /\ "ERR" \in bits),
        mark |-> r.mark \/ (r.busy /\ "RDY" \in bits) \/ (r.pio_in /\ "IRQ" \in bits),
        intreq |-> \/ r.intreq
                   \/ ~r.pio_in /\ r.pio_out /\ "IRQ" \in bits
                   \/ ~r.pio_in /\ ~r.pio_out /\ "END" \in bits,
        count |-> r.count, fifo |-> r.fifo])

\* A sector from the server or the card goes into the FIFO, if it is open to them.
Push(r, s) == IF r.pio_in THEN Settle(r, [r EXCEPT !.fifo = Append(@, s)]) ELSE r

\* The Amiga has read a sector: the last one ends the command.
Pop(r) == Settle(r, [r EXCEPT !.fifo = Tail(@), !.count = (@ - 1) % CountRegister,
                              !.busy = @ /\ r.count # 1])

-----------------------------------------------------------------------------
\* The Amiga's driver

DataCommands == {"read", "readm", "write", "writem"}
OtherCommands == {"identify", "multiple", "nodata", "unknown", "disabled"}
Multiple(r) == r.cmd \in {"readm", "writem"}
Writing(r) == r.cmd \in {"write", "writem"}

\* It stays within what the drive says it has.
RequestsTo(k, n) ==
    {r \in [cmd : DataCommands, kind : {k}, size : {n}, lba : 0..Announced(k, n),
            count : 1..CountRegister] :
        /\ r.lba + r.count <= Announced(k, n)
        /\ r.count <= IF Writing(r) THEN MaxWrite ELSE MaxRead}
    \cup [cmd : {"identify"}, kind : {k}, size : {n}, lba : {0}, count : {1}]
    \cup [cmd : {"multiple"}, kind : {k}, size : {n}, lba : {MaxMultiple}, count : {0}]
    \cup [cmd : {"nodata", "unknown", "disabled"}, kind : {k}, size : {n}, lba : {0}, count : {0}]
Requests == UNION {RequestsTo(k, n) : k \in Kinds, n \in Sizes}

Block(r) == IF Multiple(r) THEN Min({r.count, spb}) ELSE 1
Left == IF g.count = 0 THEN CountRegister ELSE g.count

\* A command: it needs a drive that is not busy, and a block size if it works
\* in blocks.  IDENTIFY leaves no 1 in the sector count, which Gayle would take
\* for the end of the command before the server has ended it.
HostAsk(r) ==
    /\ ~active /\ ~g.busy /\ ~Drq(g)
    /\ trusted
    /\ Multiple(r) => spb # 0
    /\ request' = r /\ active' = TRUE /\ moved' = <<>>
    /\ tfr' = [cmd |-> r.cmd, chs |-> ChsOf(r.lba),
               count |-> IF r.cmd = "multiple" THEN r.lba
                         ELSE IF r.cmd = "identify" THEN 0
                         ELSE r.count % CountRegister]
    /\ g' = [g EXCEPT !.busy = TRUE, !.fifo = <<>>, !.error = FALSE, !.intreq = FALSE,
                      !.count = tfr'.count]
    /\ host' = [phase |-> IF Writing(r) THEN "data" ELSE "irq", block |-> Block(r)]
    /\ UNCHANGED <<type, size, spb, file, fw_vars, trusted>>

\* The interrupt: the next block is ready, or the command is over.
HostIrq ==
    /\ active /\ host.phase = "irq" /\ g.intreq
    /\ g' = [g EXCEPT !.intreq = FALSE]
    /\ LET over == g.error \/ request.count = 0 \/ (Writing(request) /\ ~g.busy)
       IN  /\ active' = ~over
           /\ host' = IF over THEN host
                      ELSE [phase |-> "data",
                            block |-> Min({Block(request), Left})]
    /\ UNCHANGED <<type, size, spb, file, fw_vars, tfr, request, moved, trusted>>

HostRead ==
    /\ active /\ host.phase = "data" /\ g.pio_in /\ Drq(g)
    /\ moved' = Append(moved, Head(g.fifo))
    /\ g' = Pop(g)
    /\ active' = (Len(moved') < request.count)
    /\ host' = IF host.block > 1 THEN [host EXCEPT !.block = @ - 1]
               ELSE [host EXCEPT !.phase = "irq"]
    /\ UNCHANGED <<type, size, spb, file, fw_vars, tfr, request, trusted>>

HostWrite ==
    /\ active /\ host.phase = "data" /\ g.pio_out /\ Drq(g)
    /\ g' = [g EXCEPT !.fifo = <<PlaceOf(request, request.lba + request.count - g.count)>>,
                      !.count = @ - 1]
    /\ host' = IF host.block > 1 THEN [host EXCEPT !.block = @ - 1]
               ELSE [host EXCEPT !.phase = "irq"]
    /\ UNCHANGED <<type, size, spb, file, fw_vars, tfr, disk_vars>>

Host == \/ \E r \in RequestsTo(type, size) : HostAsk(r)
        \/ HostIrq \/ HostRead \/ HostWrite

-----------------------------------------------------------------------------
\* The server

\* The server's locals end with the command.
Forget == /\ lba' = 0 /\ sector_count' = 0 /\ block_count' = 0 /\ nSize' = 0 /\ bc' = 0
          /\ goal' = 0 /\ back' = [found |-> "loop", failed |-> "loop"]

\* FileSeek(&hdf.file, offset), from the cursor f; its loop is Follow, and it
\* returns to label.
FileSeek(f, offset, label) ==
    /\ file' = Rewind(f, offset)
    /\ goal' = offset
    /\ pc' = "seek"
    /\ back' = label
HardFileSeek(offset, label) == FileSeek(Jump(file, offset), offset, label)

\* One turn of FileSeek's loop: the link of the FAT is read, or cannot be.
SeekLink ==
    /\ pc = "seek" /\ ClusterOf(file.sector) # ClusterOf(goal)
    /\ LET next == Link(file.cluster)
       IN  IF next = EOC
           THEN file' = [file EXCEPT !.cluster = EOC] /\ pc' = back.failed
           ELSE /\ file' = [sector |-> file.sector + ClusterSize, cluster |-> next]
                /\ UNCHANGED pc
    /\ UNCHANGED <<type, size, spb, fw_locals, g, tfr, host, disk_vars>>

SeekFails ==
    /\ CardFaults
    /\ pc = "seek" /\ ClusterOf(file.sector) # ClusterOf(goal)
    /\ trusted' = FALSE
    /\ pc' = back.failed
    /\ UNCHANGED <<type, size, spb, file, fw_locals, g, tfr, host, request, active, moved>>

SeekDone ==
    /\ pc = "seek" /\ ClusterOf(file.sector) = ClusterOf(goal)
    /\ file' = [file EXCEPT !.sector = goal]
    /\ pc' = back.found
    /\ UNCHANGED <<type, size, spb, fw_locals, g, tfr, host, disk_vars>>

\* HandleFpga takes the status once, serves the floppies, and then comes to us.
\* With a fatal error on the screen it is not called (main.c:342); what happens
\* when the user has dismissed the error is outside this model.
Poll ==
    /\ pc = "loop" /\ Bsy(g)
    /\ trusted
    /\ pc' = "dispatch"
    /\ UNCHANGED <<type, size, spb, file, fw_locals, g, tfr, host, disk_vars>>

\* The registers the server writes: the address in the task file, the rest of
\* which it gives back as it was; and the status.
WriteTaskFile(a) == tfr' = [tfr EXCEPT !.chs = a]
WriteStatus(bits) == g' = Status(g, bits)

\* Commands that move no data: the task file, the status, and nothing else.
NoData ==
    /\ pc = "dispatch" /\ tfr.cmd \in {"multiple", "nodata", "unknown", "disabled"}
    /\ WriteStatus({"END", "IRQ"}
                    \cup (IF tfr.cmd \in {"unknown", "disabled"} THEN {"ERR"} ELSE {}))
    /\ spb' = IF tfr.cmd = "multiple" THEN tfr.count ELSE spb
    /\ pc' = "loop"
    /\ UNCHANGED <<type, size, file, fw_locals, tfr, host, disk_vars>>

IdentifyDevice ==
    /\ pc = "dispatch" /\ tfr.cmd = "identify"
    /\ g' = Push(Status(g, {"RDY"}), <<"identify", 0>>)
    /\ pc' = "identified"
    /\ UNCHANGED <<type, size, spb, file, fw_locals, tfr, host, disk_vars>>

IdentifyEnds ==
    /\ pc = "identified"
    /\ WriteStatus({"END", "IRQ"})
    /\ pc' = "loop"
    /\ UNCHANGED <<type, size, spb, file, fw_locals, tfr, host, disk_vars>>

\* Slip: all that is left, whatever was set.
BlockCount_All(n) == IF tfr.cmd \in {"readm", "writem"} THEN n ELSE 1

BlockCount(n) == IF tfr.cmd \in {"readm", "writem"} THEN Min({n, spb}) ELSE 1

\* HandleHDD takes a count of 0 for all of the register's values.
SectorCount == IF tfr.count = 0 THEN CountRegister ELSE tfr.count

\* ATA_ReadSectors: the address of the last sector goes into the task file
\* before the first one is read.
ReadSectors ==
    /\ pc = "dispatch" /\ tfr.cmd \in {"read", "readm"}
    /\ lba' = chs2lba(tfr.chs)
    /\ sector_count' = SectorCount
    /\ WriteTaskFile(Advance(tfr.chs, SectorCount))
    /\ pc' = "read"
    /\ UNCHANGED <<type, size, spb, file, block_count, nSize, bc, goal, back, g, host, disk_vars>>

\* Slip: only the first block is announced.
ReadBlock_Once ==
    /\ pc = "read" /\ sector_count # 0
    /\ block_count' = BlockCount(sector_count)
    /\ g' = IF sector_count = SectorCount THEN Status(g, {"RDY"}) ELSE g
    /\ pc' = "empty"
    /\ UNCHANGED <<type, size, spb, file, lba, sector_count, nSize, bc, goal, back,
                   tfr, host, disk_vars>>

ReadBlock ==
    /\ pc = "read" /\ sector_count # 0
    /\ block_count' = BlockCount(sector_count)
    /\ WriteStatus({"RDY"})
    /\ pc' = "empty"
    /\ UNCHANGED <<type, size, spb, file, lba, sector_count, nSize, bc, goal, back,
                   tfr, host, disk_vars>>

ReadEnds ==
    /\ pc = "read" /\ sector_count = 0
    /\ pc' = "loop" /\ Forget
    /\ UNCHANGED <<type, size, spb, file, g, tfr, host, disk_vars>>

\* "wait for empty sector buffer"
BufferEmpty ==
    /\ pc = "empty" /\ Bsy(g)
    /\ nSize' = block_count
    /\ pc' = "block"
    /\ UNCHANGED <<type, size, spb, file, lba, sector_count, block_count, bc, goal, back,
                   g, tfr, host, disk_vars>>

\* nSize counts the sectors of the block that are left.
MadeUp == type = "synth" /\ lba + Offset < 0
Patched == type = "file" /\ lba = 0

SendRDB ==
    /\ pc = "block" /\ nSize # 0 /\ MadeUp
    /\ g' = Push(g, <<"rdb", lba>>)
    /\ lba' = lba + 1 /\ nSize' = nSize - 1
    /\ UNCHANGED <<type, size, spb, file, pc, sector_count, block_count, bc, goal, back,
                   tfr, host, disk_vars>>

\* Sector 0 of a hardfile passes through sector_buffer, where its flags and its
\* checksum are changed: HardFileSeek, FileReadEx(.., 1), and the copy.
SeekPatched ==
    /\ pc = "block" /\ nSize # 0 /\ Patched
    /\ HardFileSeek(lba, [found |-> "patch", failed |-> "patch"])
    /\ UNCHANGED <<type, size, spb, lba, sector_count, block_count, nSize, bc,
                   g, tfr, host, disk_vars>>

SendPatched ==
    /\ pc = "patch"
    /\ \/ /\ g' = Push(g, At(file, 0))
          /\ FileSeek(file, file.sector + 1, [found |-> "block", failed |-> "block"])
          /\ UNCHANGED trusted
       \/ /\ CardFaults
          /\ g' = Push(g, <<"stale", 0>>)
          /\ trusted' = FALSE
          /\ pc' = "block"
          /\ UNCHANGED <<file, goal, back>>
    /\ lba' = lba + 1 /\ nSize' = nSize - 1
    /\ UNCHANGED <<type, size, spb, sector_count, block_count, bc, tfr, host, request, active, moved>>

SeekBlock ==
    /\ pc = "block" /\ nSize # 0 /\ type # "card" /\ ~MadeUp /\ ~Patched
    /\ HardFileSeek(lba + Offset, [found |-> "readex", failed |-> "readex"])
    /\ lba' = lba + nSize
    /\ UNCHANGED <<type, size, spb, sector_count, block_count, nSize, bc, g, tfr, host, disk_vars>>

\* FileReadEx: one read of the card for the sectors of one cluster.
ReadCluster ==
    /\ pc = "readex" /\ nSize # 0
    /\ bc' = Min({nSize, ClusterSize - (file.sector % ClusterSize)})
    /\ nSize' = nSize - bc'
    /\ goal' = 0
    /\ pc' = "burst"
    /\ UNCHANGED <<type, size, spb, file, lba, sector_count, block_count, back, g, tfr, host, disk_vars>>

CardBlock ==
    /\ pc = "block" /\ nSize # 0 /\ type = "card"
    /\ bc' = nSize /\ nSize' = 0
    /\ goal' = 0
    /\ pc' = "burst"
    /\ UNCHANGED <<type, size, spb, file, lba, sector_count, block_count, back, g, tfr, host, disk_vars>>

\* MMC_ReadMultiple, straight into the FIFO; goal counts the sectors sent.
SendSector ==
    /\ pc = "burst" /\ goal < bc
    /\ g' = Push(g, IF type = "card" THEN <<"card", lba + goal>> ELSE At(file, goal))
    /\ goal' = goal + 1
    /\ UNCHANGED <<type, size, spb, file, pc, lba, sector_count, block_count, nSize, bc, back,
                   tfr, host, disk_vars>>

SendFails ==
    /\ CardFaults
    /\ pc = "burst" /\ goal < bc
    /\ trusted' = FALSE
    /\ lba' = IF type = "card" THEN lba + bc ELSE lba
    /\ nSize' = 0
    /\ pc' = "sent"
    /\ UNCHANGED <<type, size, spb, file, sector_count, block_count, bc, goal, back,
                   g, tfr, host, request, active, moved>>

ClusterSent ==
    /\ pc = "burst" /\ goal = bc
    /\ IF type = "card"
       THEN /\ lba' = lba + bc
            /\ pc' = "sent"
            /\ UNCHANGED <<file, goal, back>>
       ELSE /\ FileSeek(file, file.sector + bc, [found |-> "readex", failed |-> "sent"])
            /\ UNCHANGED lba
    /\ UNCHANGED <<type, size, spb, sector_count, block_count, nSize, bc, g, tfr, host, disk_vars>>

BlockSent ==
    /\ \/ pc = "sent"
       \/ pc \in {"block", "readex"} /\ nSize = 0
    /\ sector_count' = sector_count - block_count
    /\ pc' = "read"
    /\ UNCHANGED <<type, size, spb, file, lba, block_count, nSize, bc, goal, back,
                   g, tfr, host, disk_vars>>

\* ATA_WriteSectors.  lba includes the offset, and is negative in the RDB we
\* made up; the cursor is placed once, and then moves with the sectors.
WriteSectors ==
    /\ pc = "dispatch" /\ tfr.cmd \in {"write", "writem"}
    /\ lba' = chs2lba(tfr.chs) + Offset
    /\ sector_count' = SectorCount
    /\ WriteTaskFile(Advance(tfr.chs, SectorCount))
    /\ WriteStatus({"REQ"})
    /\ IF type = "card"
       THEN pc' = "write" /\ UNCHANGED <<file, goal, back>>
       ELSE HardFileSeek(Max({lba', 0}), [found |-> "write", failed |-> "write"])
    /\ UNCHANGED <<type, size, spb, block_count, nSize, bc, host, disk_vars>>

WriteBlock ==
    /\ pc = "write" /\ sector_count # 0
    /\ block_count' = BlockCount(sector_count)
    /\ pc' = "full"
    /\ UNCHANGED <<type, size, spb, file, lba, sector_count, nSize, bc, goal, back,
                   g, tfr, host, disk_vars>>

\* "wait for full write buffer" (CMD_IDEDAT), the sector out of the FIFO, and
\* onto the card: FileWrite and a step of the cursor, or MMC_Write.  Nobody
\* looks at what FileWrite and MMC_Write return.
StoreSector ==
    /\ pc = "full" /\ block_count # 0 /\ g.pio_out /\ g.fifo # <<>>
    /\ g' = [g EXCEPT !.fifo = <<>>]
    /\ \/ /\ moved' = Append(moved, IF type = "card" THEN <<"card", lba>>
                                    ELSE IF lba < 0 THEN Head(g.fifo)      \* dropped
                                    ELSE At(file, 0))
          /\ UNCHANGED trusted
       \/ /\ CardFaults
          /\ trusted' = FALSE
          /\ UNCHANGED moved
    /\ IF type = "card" \/ lba < 0
       THEN UNCHANGED <<file, goal, back, pc>>
       ELSE FileSeek(file, file.sector + 1, [found |-> "full", failed |-> "full"])
    /\ lba' = lba + 1
    /\ sector_count' = sector_count - 1
    /\ block_count' = block_count - 1
    /\ UNCHANGED <<type, size, spb, nSize, bc, tfr, host, request, active>>

BlockStored ==
    /\ pc = "full" /\ block_count = 0
    /\ IF sector_count = 0
       THEN WriteStatus({"END", "IRQ"}) /\ pc' = "loop" /\ Forget
       ELSE WriteStatus({"IRQ"}) /\ pc' = "write" /\ UNCHANGED fw_locals
    /\ UNCHANGED <<type, size, spb, file, tfr, host, disk_vars>>

Server ==
    \/ Poll \/ NoData \/ IdentifyDevice \/ IdentifyEnds
    \/ SeekLink \/ SeekFails \/ SeekDone
    \/ ReadSectors \/ ReadBlock \/ ReadEnds \/ BufferEmpty
    \/ SendRDB \/ SeekPatched \/ SendPatched \/ SeekBlock
    \/ ReadCluster \/ CardBlock \/ SendSector \/ SendFails \/ ClusterSent \/ BlockSent
    \/ WriteSectors \/ WriteBlock \/ StoreSector \/ BlockStored

Init ==
    /\ type \in Kinds /\ size \in Sizes
    /\ spb = 0
    /\ file = IF type = "card" THEN [sector |-> 0, cluster |-> 1] ELSE Indexed
    /\ pc = "loop"
    /\ lba = 0 /\ sector_count = 0 /\ block_count = 0 /\ nSize = 0 /\ bc = 0
    /\ goal = 0 /\ back = [found |-> "loop", failed |-> "loop"]
    /\ g = [busy |-> FALSE, pio_in |-> FALSE, pio_out |-> FALSE, error |-> FALSE,
            mark |-> FALSE, intreq |-> FALSE, count |-> 0, fifo |-> <<>>]
    /\ tfr = [cmd |-> "nodata", chs |-> ChsOf(0), count |-> 0]
    /\ host = [phase |-> "irq", block |-> 1]
    /\ request = [cmd |-> "nodata", kind |-> type, size |-> size, lba |-> 0, count |-> 0]
    /\ active = FALSE /\ moved = <<>> /\ trusted = TRUE

Next == Host \/ Server

\* The firmware does not stop, and a driver serves its interrupts.
Spec == Init /\ [][Next]_vars /\ WF_vars(Server)
             /\ WF_vars(HostIrq) /\ WF_vars(HostRead) /\ WF_vars(HostWrite)

-----------------------------------------------------------------------------
\* What the properties need to know of the drives.  The search for a geometry
\* finds one: with the numbers of the code it does up to 16 * 255 * 65535
\* sectors, and a file on a FAT is shorter than that by far.
GeometryFound == \A k \in Kinds, n \in Sizes : Found(k, n)

\* No file fills its last cluster: at the end of one that does, FileSeek leaves
\* the cursor with the mark of the end.
PartlyFilled == \A n \in Sizes : n % ClusterSize # 0

\* The cursor's cluster is the one its sector is in ("current cluster", "sector
\* index in file": fat.h), in every state in which the server can use it.  The
\* index, the way back and every link followed have to agree on that.
CursorCoherent ==
    trusted => /\ file.cluster = ClusterOf(file.sector) + 1
               /\ file.cluster # EOC

\* The sectors that move are those that were asked for, each once and in
\* order, and a command ends without error only when all have moved.
Drive == INSTANCE AbstractDisk WITH Place <- PlaceOf
DriveSpec == Drive!Spec

\* The FIFO never holds more than it has room for: nothing waits for room
\* within a block, the wait is before it.
FifoFits == Len(g.fifo) <= FifoSectors

\* After a command the task file holds the address of its last sector, which
\* the driver may read back.
EndAddress ==
    (pc = "loop" /\ ~active /\ trusted /\ request.cmd \in DataCommands) =>
        chs2lba(tfr.chs) = request.lba + request.count - 1

\* A write of the whole register: its count is 0, which is all of them for
\* HandleHDD and none for drq (gayle.v:358).  It is never asked for its data.
NeverOffered == Writing(request) /\ request.count = CountRegister

\* Every command but that one comes to its end: neither side waits for the
\* other forever.
CommandEnds == active /\ ~NeverOffered ~> ~active \/ ~trusted
=============================================================================
