-------------------------------- MODULE Boot --------------------------------
(***************************************************************************)
(* From power-up to the main loop, and the FAT volume underneath: the boot *)
(* loader (ctrl_boot_832/boot.c, minfat.c) finds the volume and loads the  *)
(* firmware; ColdBoot (main.c) mounts the volume again (fat.c), loads the  *)
(* configuration and the Kickstart (config.c, fpga.c) and lets the CPU go; *)
(* from the main loop the user saves the configuration (SaveConfiguration, *)
(* FileCreate, UpdateEntry) and reboots, and the hardfile is served.       *)
(* Every sector moves through a driver call of SdCard, so that everything  *)
(* that can go wrong with the card can go wrong at every sector, and the   *)
(* power can be cut between any two exchanges.                             *)
(*                                                                         *)
(* A cluster and a directory are a sector each, and the FAT is one sector, *)
(* in two copies.                                                          *)
(***************************************************************************)
EXTENDS SdCard, Sequences

CONSTANTS Clusters, Slots,  \* 1..n: the clusters; the entries of a directory sector
          Names,            \* the configuration slots the user saves to
          BigRoot,          \* a FAT32 root directory of two clusters
          Free,             \* the clusters no file has
          MaxActs   \* how many saves and power cuts

\* The places of the boot loader.
Loader == {"power", "b_init", "b_mbr", "b_vbr", "b_dir", "b_dirlink", "b_load", "b_link", "enter", "lost"}
ASSUME BootAssumption == MaxActs \in Nat /\ None \notin Loader \cup {"mounted"}
ASSUME NumbersAssumption == /\ IsFiniteSet(Clusters) /\ Clusters = 1..Cardinality(Clusters)
                            /\ IsFiniteSet(Slots) /\ Slots = 1..Cardinality(Slots)

VARIABLES pc, walk, file, found,      \* where the program is; FileOpen's walk and result
          fattype, fat32,             \* the mounted volume
          fat_buffer, sector_buffer,  \* the FAT sector and the directory sector in memory
          kickdir,                    \* config.kickdir
          ErrorMask, ErrorFatal, cpu, rom,
          new,                        \* FileCreate's place in the directory, and its cluster
          boot,                       \* the boot loader's variables
          acts

volume == <<fattype, fat32, fat_buffer, sector_buffer>>
errors == <<ErrorMask, ErrorFatal>>
machine == <<kickdir, cpu, rom, new>>
vars == <<card_vars, pc, walk, file, found, volume, errors, machine, boot, acts>>

-----------------------------------------------------------------------------
\* What is on a card.  FAT entry 0 holds the media byte, which reads as an end
\* of chain; cluster 0, and any number that is none, is outside the data area.

EOC == Cardinality(Clusters) + 1
RomDir == 6

Sector(c) == IF c \in Clusters THEN <<"c", c>> ELSE Wild
Root(is32) == IF is32 THEN Sector(1) ELSE <<"dir", 0>>
Part == <<"part", 0>>           \* the hard disk's: another partition of the card
FatCopy(i) == <<"fat", i>>

Is(t, v) == [t |-> t, v |-> v]
Entry(name, c) == [name |-> name, cluster |-> c, old |-> FALSE, dir |-> FALSE]
NoDir == [s \in Slots |-> None]
Dir(entries) == Is("dir", [s \in Slots |-> IF s \in DOMAIN entries THEN entries[s] ELSE None])
EntriesIn(data) == IF data.t = "dir" THEN data.v ELSE NoDir
FatIn(data) == IF data.t = "fat" THEN data.v ELSE [c \in {0} \cup Clusters |-> 0]

Osd == Entry("OSD", 3)
Kick == Entry("KICK", 5)
Roms == [Entry("ROMS", RomDir) EXCEPT !.dir = TRUE]
OldConfig == [Entry("cfg0", 7) EXCEPT !.old = TRUE]
Hrtmon == Entry("HRTMON", 10)
RootEntries(vol) == <<Osd, Kick, Roms>>
                    \o (IF 7 \in Free THEN <<>> ELSE <<OldConfig>>)
                    \o (IF vol = "fat16" THEN <<Hrtmon>> ELSE <<>>)
Fat == [c \in {0} \cup Clusters |->
          CASE c \in Free -> 0
            [] c = 3 -> 4
            [] c = 1 /\ BigRoot -> 2
            [] OTHER -> EOC]

Sectors == {Mbr, Wild, <<"vbr", 0>>, <<"dir", 0>>, FatCopy(1), FatCopy(2)}
           \cup {Sector(c) : c \in Clusters} \cup {Part}
Volume(c) ==
    [s \in Sectors |->
        CASE s = Mbr -> Is("boot", IF c.part THEN "partitions" ELSE c.vol)
          [] s = <<"vbr", 0>> -> Is("boot", c.vol)
          [] s \in {FatCopy(1), FatCopy(2)} -> Is("fat", Fat)
          [] s \in {<<"dir", 0>>, Sector(1)} ->
                Dir(IF BigRoot THEN [x \in Slots |-> IF x = 1 THEN Kick ELSE Entry("other", 2)]
                    ELSE RootEntries(c.vol))
          [] s = Sector(2) -> Dir(<<Osd>>)
          [] s = Sector(RomDir) -> Dir(<<Kick>>)
          [] s = Sector(3) -> Is("data", "osd_1")
          [] s = Sector(4) -> Is("data", "osd_2")
          [] s = Sector(5) -> Is("data", "rom")
          [] s = Sector(7) -> Is("data", RomDir)          \* a configuration: its kickdir
          [] OTHER -> Is("data", "junk")]

-----------------------------------------------------------------------------
\* Calling the drivers, and what is done with the answers.

Read(s, then) == Start("MMC_Read", "cmd", s, 1, None) /\ pc' = then
Write(s, data, then) == Start("MMC_Write", "cmd", s, 1, data) /\ pc' = then
Load(s, then) == Start("sd_read_sector", "cmd", s, 1, None) /\ pc' = then
Jump(then) == /\ pc' = then /\ answer' = NoAnswer
              /\ UNCHANGED <<card, selected, CardType, SDHCtype, call, moved, faults>>

At(label) == pc = label /\ call.op = None
Ok == answer.ok = TRUE

\* FatalError in the driver that failed.
SetError(mask, fatal) == ErrorMask' = mask /\ ErrorFatal' = fatal
Told == IF answer.ok = FALSE THEN ErrorMask \cup {"sd"} ELSE ErrorMask
Fatal == ErrorFatal \/ answer.ok = FALSE
Note == SetError(Told, Fatal)
ClearError(e) == SetError(Told \ {e}, FALSE)

\* GetFATLink out of the buffered sector.
Link(fat, c) == IF c \in DOMAIN fat THEN fat[c] ELSE EOC

-----------------------------------------------------------------------------
\* The boot loader.  boot = [fat32, buffer, buffered, cluster, loaded]: its
\* format flag, sector_buffer (where it also keeps the FAT), whether
\* buffered_fat_index says that is the FAT's sector, the cluster it has got to
\* in the directory or the file, and what it has loaded.

NoBoot == [fat32 |-> FALSE, buffer |-> Is("data", "junk"), buffered |-> FALSE, cluster |-> 0, loaded |-> <<>>]
Idle == UNCHANGED <<walk, file, found, volume, errors, machine, acts>>

\* main: whatever fails, ErrorCode and once more.
BootError == /\ Start("spi_init", "b0", Mbr, 1, None) /\ pc' = "b_init" /\ boot' = NoBoot
Power == /\ At("power") /\ BootError /\ Idle

BootInit == /\ At("b_init") /\ Idle
            /\ IF Ok THEN Load(Mbr, "b_mbr") /\ UNCHANGED boot ELSE BootError

\* FindDrive and the start of FileOpen.
BootMount(vol) ==
    IF vol \in {"fat16", "fat32"}
    THEN LET is32 == vol = "fat32" IN
         /\ Load(Root(is32), "b_dir")
         /\ boot' = [boot EXCEPT !.fat32 = is32, !.buffered = FALSE, !.cluster = 1]
    ELSE BootError
BootFindDrive ==
    /\ Idle
    /\ \/ /\ At("b_mbr")
          /\ \/ ~Ok /\ BootError
             \/ Ok /\ answer.data.v = "partitions" /\ Load(<<"vbr", 0>>, "b_vbr") /\ UNCHANGED boot
             \/ Ok /\ answer.data.v # "partitions" /\ BootMount(answer.data.v)
       \/ /\ At("b_vbr")
          /\ IF Ok THEN BootMount(answer.data.v) ELSE BootError

\* GetCluster: in memory, or through the sector on the card.
BootLink(b) == IF b.buffer.t = "fat" THEN Link(b.buffer.v, b.cluster) ELSE 0
Linked(b) == [b EXCEPT !.cluster = BootLink(b)]
GetCluster(b, label) == Load(FatCopy(1), label) /\ boot' = b
GotCluster == IF Ok THEN Linked([boot EXCEPT !.buffer = answer.data, !.buffered = TRUE])
              ELSE [boot EXCEPT !.cluster = 0]

\* FileOpen: the directory's sectors; a sector that cannot be read leaves the
\* one before in the buffer.
NextDir(b) == IF b.cluster = EOC THEN BootError
              ELSE Load(Sector(b.cluster), "b_dir") /\ boot' = b
Hits(name, data) == {s \in Slots : EntriesIn(data)[s] # None /\ EntriesIn(data)[s].name = name}
FirstCluster(name, data) == EntriesIn(data)[CHOOSE s \in Hits(name, data) : TRUE].cluster
BootFileOpen ==
    /\ Idle
    /\ \/ /\ At("b_dir")
          /\ LET b == IF Ok THEN [boot EXCEPT !.buffer = answer.data] ELSE boot
                 first == FirstCluster("OSD", b.buffer)
             IN IF Hits("OSD", b.buffer) # {}
                THEN Load(Sector(first), "b_load") /\ boot' = [b EXCEPT !.cluster = first]
                ELSE \/ ~b.fat32 /\ BootError
                     \/ b.fat32 /\ b.buffered /\ NextDir(Linked(b))
                     \/ b.fat32 /\ ~b.buffered /\ GetCluster(b, "b_dirlink")
       \/ At("b_dirlink") /\ NextDir(GotCluster)

\* LoadFile, and _boot.
LoadNext(b) ==
    IF Len(b.loaded) < 2 THEN Load(Sector(b.cluster), "b_load") /\ boot' = b
    ELSE Jump("enter") /\ boot' = b
LinkNext(b) == IF b.buffered THEN LoadNext(Linked(b)) ELSE GetCluster(b, "b_link")
\* Slip: a sector that cannot be read is tried again with the card as it is.
LoadFile_Again ==
    /\ Idle
    /\ \/ /\ At("b_load")
          /\ IF ~Ok THEN Load(Sector(boot.cluster), "b_load") /\ UNCHANGED boot
             ELSE LinkNext([boot EXCEPT !.loaded = Append(@, answer.data.v)])
       \/ At("b_link") /\ LoadNext(GotCluster)

LoadFile ==
    /\ Idle
    /\ \/ /\ At("b_load")
          /\ IF ~Ok THEN BootError
             ELSE LinkNext([boot EXCEPT !.loaded = Append(@, answer.data.v)])
       \/ At("b_link") /\ LoadNext(GotCluster)

Firmware == <<"osd_1", "osd_2">>
Enter == /\ At("enter") /\ Idle
         /\ Jump(IF boot.loaded = Firmware THEN "cold" ELSE "lost") /\ boot' = NoBoot

BootLoader == Power \/ BootInit \/ BootFindDrive \/ BootFileOpen \/ LoadFile \/ Enter

-----------------------------------------------------------------------------
\* Walking a directory: FileOpen, FindDirectoryByCluster and the search of
\* FileCreate.  walk = [name, dir, chain, cluster, then].

NoWalk == [name |-> None, dir |-> FALSE, chain |-> FALSE, cluster |-> 0, then |-> None]
NoFile == [cluster |-> 0, old |-> FALSE, sec |-> Wild, slot |-> 0]

Walk(name, dir, from, then) ==
    /\ walk' = [name |-> name, dir |-> dir, chain |-> from # 0 \/ fat32,
                cluster |-> IF from = 0 THEN 1 ELSE from, then |-> then]
    /\ Read(IF from = 0 THEN Root(fat32) ELSE Sector(from), "walk")
FileOpen(name, from, then) == Walk(name, FALSE, from, then)

Lowest(S) == CHOOSE x \in S : \A y \in S : x <= y
Matches(e) == e # None /\ e.dir = walk.dir /\ e.name = walk.name

\* A walk that fails, with or without an error of its own.  FileOpen forgets
\* the file only when it has seen the whole directory.
Walked(result) == found' = result /\ Jump(walk.then) /\ walk' = [NoWalk EXCEPT !.name = walk.name]
NotThere == /\ Walked("no")
            /\ IF walk.dir THEN Note /\ UNCHANGED file
               ELSE SetError(Told \cup {"fs"}, Fatal) /\ file' = NoFile
Follow(c) == IF c = EOC THEN NotThere
             ELSE /\ Read(Sector(c), "walk") /\ walk' = [walk EXCEPT !.cluster = c]
                  /\ Note /\ UNCHANGED <<file, found>>

\* The next cluster of the walk, when the directory is a chain.
Onward == IF walk.chain
          THEN IF fat_buffer = None
               THEN Read(FatCopy(1), "link") /\ Note /\ UNCHANGED <<file, found, walk>>
               ELSE Follow(Link(fat_buffer, walk.cluster))
          ELSE NotThere

WalkRead ==
    /\ At("walk") /\ UNCHANGED <<fattype, fat32, fat_buffer, sector_buffer, machine, boot, acts>>
    /\ IF ~Ok THEN Walked("unread") /\ Note /\ UNCHANGED file
       ELSE LET hits == {s \in Slots : Matches(EntriesIn(answer.data)[s])} IN
            IF hits = {} THEN Onward
            ELSE LET s == Lowest(hits)
                     e == EntriesIn(answer.data)[s]
                 IN /\ Walked("yes") /\ Note
                    /\ file' = IF walk.dir THEN file
                               ELSE [cluster |-> e.cluster, old |-> e.old, slot |-> s,
                                     sec |-> IF walk.cluster = 1 /\ ~fat32 THEN Root(FALSE)
                                             ELSE Sector(walk.cluster)]
\* GetFATLink's read; when it fails the link is cluster 0.
WalkLink ==
    /\ At("link") /\ UNCHANGED <<fattype, fat32, sector_buffer, machine, boot, acts>>
    /\ IF Ok THEN fat_buffer' = FatIn(answer.data) /\ Follow(Link(FatIn(answer.data), walk.cluster))
       ELSE UNCHANGED fat_buffer /\ Follow(0)

Walking == WalkRead \/ WalkLink

-----------------------------------------------------------------------------
\* ColdBoot.

\* When MMC_Init or FindDrive fails the CPU stays held.
Kept == UNCHANGED <<walk, file, found>>
NoVolume == Jump("main") /\ UNCHANGED <<fattype, fat32>>

ColdBoot == /\ Start("MMC_Init", "cmd0", Mbr, 1, None) /\ pc' = "inited"
            /\ cpu' = "held" /\ rom' = None /\ SetError({}, FALSE)
Cold == At("cold") /\ ColdBoot /\ Kept /\ UNCHANGED <<volume, kickdir, new, boot, acts>>

\* FindDrive.
Inited == /\ At("inited") /\ Kept /\ UNCHANGED <<fattype, fat32, sector_buffer, errors, machine, boot, acts>>
          /\ IF Ok THEN fat_buffer' = None /\ Read(Mbr, "mbr")
             ELSE UNCHANGED fat_buffer /\ Jump("main")

\* A boot sector's format; one the card had before is not forgotten.
Format(vol) == IF vol = "fat16" THEN 16 ELSE IF vol = "fat32" THEN 32 ELSE fattype
\* Slip: the format is not compared with the sector's.
Mounted_Any(vol) == vol \in {"fat16", "fat32"}

Mounted(vol) ==
    /\ vol \in {"fat16", "fat32"}
    /\ (fat32 \/ Format(vol) = 32) => vol = "fat32"
FindDrive ==
    /\ Kept /\ UNCHANGED <<fat_buffer, sector_buffer, machine, boot, acts>>
    /\ LET mounts(vol) ==
              /\ fattype' = Format(vol) /\ fat32' = (fat32 \/ Format(vol) = 32)
              /\ IF Mounted(vol) THEN Jump("mounted") /\ Note
                 ELSE Jump("main") /\ SetError(Told \cup {"fs"}, TRUE)
       IN \/ /\ At("mbr")
             /\ \/ ~Ok /\ NoVolume /\ Note
                \/ /\ Ok /\ answer.data.v = "partitions"
                   /\ Read(<<"vbr", 0>>, "vbr") /\ UNCHANGED <<fattype, fat32, errors>>
                \/ Ok /\ answer.data.v # "partitions" /\ mounts(answer.data.v)
          \/ /\ At("vbr")
             /\ IF Ok THEN mounts(answer.data.v) ELSE NoVolume /\ Note

\* LoadConfiguration(0); then the drive sounds, of which there are none, and
\* OpenHardfile(0), of which there is none either.
LoadConfiguration ==
    /\ UNCHANGED <<volume, cpu, rom, new, boot, acts>>
    /\ \/ At("mounted") /\ FileOpen("cfg0", 0, "config") /\ UNCHANGED <<file, found, kickdir, errors>>
       \/ /\ At("config") /\ found = "yes"
          /\ Read(Sector(file.cluster), "settings") /\ Kept /\ UNCHANGED <<kickdir, errors>>
       \/ /\ At("config") /\ found # "yes"
          /\ FileOpen("DRIVESND", 0, "sounds") /\ kickdir' = 0 /\ ClearError("fs")
          /\ UNCHANGED <<file, found>>
       \/ /\ At("settings") /\ FileOpen("DRIVESND", 0, "sounds") /\ UNCHANGED <<file, found>>
          /\ IF Ok THEN kickdir' = answer.data.v /\ Note ELSE kickdir' = 0 /\ ClearError("fs")

\* ApplyConfiguration(1, 1): the hard disks, HRTmon, the Kickstart, the
\* extended ROM.
HardfilesOpen ==
    /\ UNCHANGED <<volume, kickdir, new, boot, acts>>
    /\ \/ /\ At("sounds") /\ FileOpen("HARDFILE", 0, "hdf0") /\ ClearError("fs")
          /\ UNCHANGED <<file, found, cpu, rom>>
       \/ /\ At("hdf0") /\ Start("MMC_GetCSD", "cmd", Mbr, 1, None) /\ pc' = "hdf1"
          /\ Kept /\ UNCHANGED <<errors, cpu, rom>>
       \/ /\ At("hdf1") /\ FileOpen("HRTMON", 0, "hrtmon") /\ Note
          /\ cpu' = "held" /\ UNCHANGED <<file, found, rom>>

\* It works as well without; what it read of the monitor nobody asks.
UploadActionReplay ==
    /\ UNCHANGED <<volume, kickdir, cpu, rom, new, boot, acts, walk, found>>
    /\ \/ /\ At("hrtmon") /\ found = "yes"
          /\ Read(Sector(file.cluster), "monitor") /\ Note /\ UNCHANGED file
       \/ /\ At("hrtmon") /\ found # "yes"
          /\ Jump("kick_1") /\ ClearError("fs") /\ UNCHANGED file
       \/ /\ At("monitor") /\ Jump("kick_1") /\ Note /\ file' = [file EXCEPT !.cluster = EOC]

\* UploadKickstart, the n-th of two attempts: is the directory one, the key
\* file, the ROM file, and its two copies in memory.
Tries == [kick |-> <<"kick_1", "kick_2">>, up |-> <<"up_1", "up_2">>,
          valid |-> <<"valid_1", "valid_2">>, key |-> <<"key_1", "key_2">>,
          rom |-> <<"rom_1", "rom_2">>, first |-> <<"first_1", "first_2">>,
          again |-> <<"again_1", "again_2">>, second |-> <<"second_1", "second_2">>]
Try(n, label) == Tries[label][n]
KickFails(n) == Jump(IF n = 1 THEN "kick_2" ELSE "no_rom") /\ SetError(Told \cup {"rom"}, Fatal)
KickMissing(n) == Jump(IF n = 1 THEN "kick_2" ELSE "no_rom") /\ SetError(Told \cup {"rom"}, TRUE)
RomPart(old) == IF Ok /\ answer.data = Is("data", "rom") THEN old ELSE "bad"
UploadKickstart(n) ==
    /\ UNCHANGED <<volume, kickdir, cpu, new, boot, acts>>
    /\ \/ /\ At(Try(n, "kick"))
          /\ IF kickdir = 0 THEN FileOpen("KEY", 0, Try(n, "key")) ELSE Read(Sector(kickdir), Try(n, "up")) /\ UNCHANGED walk
          /\ UNCHANGED <<file, found, errors, rom>>
       \/ /\ At(Try(n, "up")) /\ UNCHANGED <<file, found, rom>>
          /\ IF Ok THEN Walk("ROMS", TRUE, 0, Try(n, "valid")) /\ Note ELSE KickFails(n) /\ UNCHANGED walk
       \/ /\ At(Try(n, "valid")) /\ UNCHANGED <<file, found, rom>>
          /\ IF found = "yes" THEN FileOpen("KEY", kickdir, Try(n, "key")) /\ Note
             ELSE KickFails(n) /\ UNCHANGED walk
       \/ /\ At(Try(n, "key")) /\ FileOpen("KICK", kickdir, Try(n, "rom")) /\ Note
          /\ UNCHANGED <<file, found, rom>>
       \/ /\ At(Try(n, "rom")) /\ UNCHANGED <<walk, file, found, rom>>
          /\ IF found = "yes" THEN Read(Sector(file.cluster), Try(n, "first")) /\ ClearError("fs")
             ELSE KickMissing(n)
       \/ /\ At(Try(n, "first")) /\ FileOpen("KICK", kickdir, Try(n, "again")) /\ Note
          /\ rom' = RomPart("good") /\ file' = [file EXCEPT !.cluster = EOC] /\ UNCHANGED found
       \/ /\ At(Try(n, "again")) /\ Read(Sector(file.cluster), Try(n, "second")) /\ Note
          /\ UNCHANGED <<walk, file, found, rom>>
       \/ /\ At(Try(n, "second")) /\ FileOpen("EXTENDED", 0, "ext_1") /\ Note
          /\ rom' = RomPart(rom) /\ UNCHANGED <<file, found>>

\* Slip: the missing extended ROM's error is cleared with every other.
ExtDone_All == SetError({}, FALSE)

\* The error of a missing extended ROM is cleared.
ExtDone == ClearError("fs")

\* UploadExtROM, twice, in vain; then the CPU goes if there is a ROM.
Release ==
    /\ UNCHANGED <<volume, kickdir, rom, new, boot, acts>>
    /\ \/ At("ext_1") /\ FileOpen("EXTENDED", 0, "ext_2") /\ Note /\ UNCHANGED <<file, found, cpu>>
       \/ At("ext_2") /\ Jump("main") /\ ExtDone /\ cpu' = "runs" /\ Kept
       \/ At("no_rom") /\ Jump("main") /\ Note /\ Kept /\ UNCHANGED cpu

ColdBoots == \/ Cold \/ Inited \/ FindDrive \/ LoadConfiguration \/ HardfilesOpen \/ UploadActionReplay
             \/ \E n \in 1..2 : UploadKickstart(n)
             \/ Release

-----------------------------------------------------------------------------
\* SaveConfiguration, from the menu.

Config == Is("data", kickdir)
Done == Jump("main") /\ walk' = NoWalk /\ new' = NoFile
Fails == Done /\ Note
WriteConfig(f) == Write(Sector(f.cluster), Config, "saved")
SaveKeeps == UNCHANGED <<fattype, fat32, kickdir, cpu, rom, boot, acts>>

\* With no volume ever mounted the root directory has no entries.
Save ==
    /\ At("main") /\ ErrorMask = {} /\ acts < MaxActs /\ acts' = acts + 1
    /\ UNCHANGED <<file, found, volume, machine, boot>>
    /\ \/ fattype # 0 /\ (\E n \in Names : FileOpen(n, 0, "save")) /\ UNCHANGED errors
       \/ fattype = 0 /\ SetError({"fs"}, ErrorFatal) /\ Jump("main") /\ UNCHANGED walk

\* A file of the old size first gets the new size: UpdateEntry.
SaveOpened ==
    /\ At("save") /\ SaveKeeps /\ UNCHANGED <<found, fat_buffer, sector_buffer, new>>
    /\ \/ /\ found = "yes" /\ file.old
          /\ Read(file.sec, "update") /\ Note /\ UNCHANGED <<walk, file>>
       \/ /\ found = "yes" /\ ~file.old
          /\ WriteConfig(file) /\ Note /\ UNCHANGED <<walk, file>>
       \/ /\ found # "yes" /\ Read(Root(fat32), "dir")
          /\ walk' = [walk EXCEPT !.cluster = 1] /\ ClearError("fs") /\ UNCHANGED file
UpdateEntry ==
    /\ SaveKeeps /\ UNCHANGED <<found, fat_buffer, sector_buffer>>
    /\ \/ /\ At("update")
          /\ IF Ok /\ EntriesIn(answer.data)[file.slot] # None
             THEN /\ Write(file.sec, Is("dir", [EntriesIn(answer.data) EXCEPT ![file.slot].old = FALSE]), "updated")
                  /\ Note /\ UNCHANGED <<walk, new>>
             ELSE Fails
          /\ file' = [file EXCEPT !.old = FALSE]
       \/ /\ At("updated") /\ UNCHANGED file
          /\ IF Ok THEN WriteConfig(file) /\ UNCHANGED <<walk, new, errors>> ELSE Fails

\* FileCreate: a free entry of the directory; a free cluster of the FAT, which
\* goes to both copies; then the entry.
EmptyIn(data) == {s \in Slots : EntriesIn(data)[s] = None}
FreeIn(fat) == {c \in Clusters : c >= 2 /\ fat[c] = 0}

NewEntry == Is("dir", [sector_buffer EXCEPT ![new.slot] = Entry(walk.name, new.cluster)])
DirSector == IF walk.cluster = 1 THEN Root(fat32) ELSE Sector(walk.cluster)

\* Slip: the cluster is not marked in the buffer that stays.
Allocate_Unmarked(fat, n) ==
    IF FreeIn(fat) = {} THEN fat_buffer' = fat /\ new' = n /\ WriteConfig(file)
    ELSE LET c == Lowest(FreeIn(fat)) IN
         /\ fat_buffer' = fat /\ new' = [n EXCEPT !.cluster = c]
         /\ Write(FatCopy(1), Is("fat", [fat EXCEPT ![c] = EOC]), "fat_1")

\* With no cluster free it reports success, and the file is where it was.
Allocate(fat, n) ==
    IF FreeIn(fat) = {} THEN fat_buffer' = fat /\ new' = n /\ WriteConfig(file)
    ELSE LET c == Lowest(FreeIn(fat))
             marked == [fat EXCEPT ![c] = EOC]
         IN /\ fat_buffer' = marked /\ new' = [n EXCEPT !.cluster = c]
            /\ Write(FatCopy(1), Is("fat", marked), "fat_1")

CreateFollow(c) ==
    IF c = EOC THEN Done /\ SetError(Told \cup {"fs"}, Fatal)
    ELSE Read(Sector(c), "dir") /\ walk' = [walk EXCEPT !.cluster = c] /\ Note /\ UNCHANGED new
FindEntry ==
    /\ SaveKeeps /\ UNCHANGED <<file, found>>
    /\ \/ /\ At("dir") /\ ~Ok /\ Fails /\ UNCHANGED <<fat_buffer, sector_buffer>>
       \/ /\ At("dir") /\ Ok /\ EmptyIn(answer.data) # {} /\ UNCHANGED <<walk, errors>>
          /\ sector_buffer' = EntriesIn(answer.data)
          /\ LET n == [NoFile EXCEPT !.sec = DirSector, !.slot = Lowest(EmptyIn(answer.data))] IN
             IF fat_buffer = None
             THEN Read(FatCopy(1), "fat") /\ new' = n /\ UNCHANGED fat_buffer
             ELSE Allocate(fat_buffer, n)
       \/ /\ At("dir") /\ Ok /\ EmptyIn(answer.data) = {} /\ UNCHANGED <<fat_buffer, sector_buffer>>
          /\ \/ ~fat32 /\ CreateFollow(EOC)
             \/ /\ fat32 /\ fat_buffer = None
                /\ Read(FatCopy(1), "dirlink") /\ UNCHANGED <<walk, errors, new>>
             \/ fat32 /\ fat_buffer # None /\ CreateFollow(Link(fat_buffer, walk.cluster))
       \/ /\ At("dirlink") /\ UNCHANGED sector_buffer
          /\ IF Ok THEN fat_buffer' = FatIn(answer.data) /\ CreateFollow(Link(FatIn(answer.data), walk.cluster))
             ELSE UNCHANGED fat_buffer /\ CreateFollow(0)
FileCreate ==
    /\ SaveKeeps /\ UNCHANGED <<found, sector_buffer>>
    /\ \/ /\ At("fat") /\ UNCHANGED <<file>>
          /\ IF Ok THEN Allocate(FatIn(answer.data), new) /\ UNCHANGED <<walk, errors>>
             ELSE Fails /\ UNCHANGED fat_buffer
       \/ /\ At("fat_1") /\ UNCHANGED <<file, fat_buffer>>
          /\ IF Ok THEN Write(FatCopy(2), Is("fat", fat_buffer), "fat_2") /\ UNCHANGED <<walk, errors, new>>
             ELSE Fails
       \/ /\ At("fat_2") /\ UNCHANGED <<file, fat_buffer>>
          /\ IF Ok THEN Write(new.sec, NewEntry, "entry") /\ UNCHANGED <<walk, errors, new>>
             ELSE Fails
       \/ /\ At("entry") /\ UNCHANGED fat_buffer
          /\ IF Ok THEN file' = new /\ WriteConfig(new) /\ UNCHANGED <<walk, errors, new>>
             ELSE Fails /\ UNCHANGED file

Saved == /\ At("saved") /\ Fails /\ SaveKeeps /\ UNCHANGED <<file, found, fat_buffer, sector_buffer>>

Saving == SaveOpened \/ UpdateEntry \/ FindEntry \/ FileCreate \/ Saved

-----------------------------------------------------------------------------
\* The main loop.

\* HandleHDD reads some sectors of the hard disk, or writes one.
Serve == /\ At("main") /\ ErrorMask = {} /\ cpu = "runs" /\ pc' = "served"
         /\ \/ Start("MMC_ReadMultiple", "cmd", Part, 2, None)
            \/ Start("MMC_Write", "cmd", Part, 1, Is("data", "hdf"))
         /\ Kept /\ UNCHANGED <<volume, errors, machine, boot, acts>>
Served == /\ At("served") /\ Jump("main") /\ Note
          /\ Kept /\ UNCHANGED <<volume, machine, boot, acts>>

\* "Reboot" in the menu, and the error page: a fatal error or one about the
\* ROM boots again, any other is cleared.
Reboot == /\ At("main") /\ ErrorMask = {} /\ ColdBoot
          /\ Kept /\ UNCHANGED <<volume, kickdir, new, boot, acts>>
Dismiss == /\ At("main") /\ ErrorMask # {}
           /\ IF ErrorFatal \/ "rom" \in ErrorMask THEN ColdBoot
              ELSE SetError({}, FALSE) /\ UNCHANGED <<cpu, rom>> /\ Jump("main")
           /\ Kept /\ UNCHANGED <<volume, kickdir, new, boot, acts>>

MainLoop == Served \/ Dismiss
User == Serve \/ Save \/ Reboot

-----------------------------------------------------------------------------
\* The power goes, and comes back.
PoweredUp ==
    /\ pc = "power" /\ walk = NoWalk /\ file = NoFile /\ found = None /\ new = NoFile
    /\ fattype = 0 /\ fat32 = FALSE /\ fat_buffer = None /\ sector_buffer = NoDir /\ kickdir = 0
    /\ ErrorMask = {} /\ ErrorFatal = FALSE /\ cpu = "held" /\ rom = None /\ boot = NoBoot
    /\ selected = FALSE /\ CardType = None /\ SDHCtype = FALSE /\ call = NoCall /\ answer = NoAnswer
    /\ moved = NoMove
Cut == /\ \/ acts < MaxActs /\ acts' = acts + 1 /\ pc # "power"
          \/ pc = "lost" /\ UNCHANGED acts
       /\ pc' = "power" /\ walk' = NoWalk /\ file' = NoFile /\ found' = None
       /\ new' = NoFile /\ fattype' = 0 /\ fat32' = FALSE /\ fat_buffer' = None
       /\ sector_buffer' = NoDir /\ kickdir' = 0 /\ ErrorMask' = {} /\ ErrorFatal' = FALSE
       /\ cpu' = "held" /\ rom' = None /\ boot' = NoBoot /\ selected' = FALSE
       /\ CardType' = None /\ SDHCtype' = FALSE /\ call' = NoCall /\ answer' = NoAnswer
       /\ moved' = NoMove
       /\ card' = [card EXCEPT !.mode = IF @ = "out" THEN @ ELSE "native"]
       /\ UNCHANGED faults

boot_vars == <<pc, walk, file, found, volume, errors, machine, boot, acts>>
Processor == \/ BootLoader \/ Walking \/ ColdBoots \/ Saving \/ MainLoop
             \/ Drivers /\ UNCHANGED boot_vars
Hands == \/ User \/ Cut
         \/ (Pull \/ Insert) /\ UNCHANGED boot_vars

Init == /\ PoweredUp /\ faults = 0 /\ acts = 0
        /\ \E c \in Cards : card = [kind |-> c.kind, part |-> c.part, vol |-> c.vol,
                                   mode |-> "native", disk |-> FreshDisk(c)]
Next == Processor \/ Hands \/ (Settle /\ UNCHANGED boot_vars)

\* Both programs run without pause: each is a loop that never sleeps.
Spec == Init /\ [][Next]_vars /\ WF_vars(Processor)

-----------------------------------------------------------------------------
\* Properties.

\* The entries of the root directory of a card.
RootSectors(vol) == IF vol = "fat32" THEN {Sector(1)} \cup (IF BigRoot THEN {Sector(2)} ELSE {})
                    ELSE {Root(FALSE)}
Entries(c) == {[sec |-> x, slot |-> s] : x \in RootSectors(c.vol), s \in Slots}
EntryAt(c, e) == EntriesIn(c.disk[e.sec])[e.slot]
Used(c) == {e \in Entries(c) : EntryAt(c, e) # None /\ EntryAt(c, e).name # "other"}

\* A volume as it is found: every sector there is, a FAT, entries in the
\* directory, and a marked cluster of its own for each.
UsedIn(data, s) == EntriesIn(data)[s] # None /\ EntriesIn(data)[s].name # "other"
ClusterIn(data, s) == EntriesIn(data)[s].cluster
Marks(disk) == disk[FatCopy(1)].v
FatShape(fat) == fat = [x \in {0} \cup Clusters |-> fat[x]]
EntryShape(e) == e = [name |-> e.name, cluster |-> e.cluster, old |-> e.old, dir |-> e.dir]
DirShape(v) == v = [s \in Slots |-> v[s]] /\ \A s \in Slots : v[s] # None => EntryShape(v[s])
OwnCluster(vol, disk, x, s) ==
    /\ ClusterIn(disk[x], s) \in Clusters /\ Marks(disk)[ClusterIn(disk[x], s)] # 0
    /\ \A y \in RootSectors(vol), t \in Slots :
          UsedIn(disk[y], t) /\ ClusterIn(disk[y], t) = ClusterIn(disk[x], s) => x = y /\ s = t
Consistent(vol, disk) ==
    /\ disk = [s \in Sectors |-> disk[s]]
    /\ disk[FatCopy(1)].t = "fat" /\ FatShape(Marks(disk))
    /\ \A x \in RootSectors(vol) : DirShape(EntriesIn(disk[x]))
    /\ \A x \in RootSectors(vol), s \in Slots : UsedIn(disk[x], s) => OwnCluster(vol, disk, x, s)
ASSUME VolumeAssumption == \A c \in Cards : Consistent(c.vol, FreshDisk(c))

\* Wherever the power is cut and whatever call fails, no entry of the
\* directory owns a cluster that the FAT has as free, and no two entries own
\* the same one: FileCreate marks the cluster, in the buffer and in both
\* copies, before it writes the entry, and a buffer that could not be written
\* stays marked.
EntriesOwnClusters ==
    \A e \in Used(card) :
        /\ card.disk[FatCopy(1)].v[EntryAt(card, e).cluster] # 0
        /\ \A d \in Used(card) \ {e} : EntryAt(card, d).cluster # EntryAt(card, e).cluster

\* A volume is mounted in the format of the sector it was found in, although
\* fattype and fat32 keep what an earlier card had.
MountedInItsFormat ==
    [][pc # "mounted" /\ pc' = "mounted" => fat32' = (answer.data.v = "fat32")]_vars

\* A Kickstart of which a sector could not be read is not noticed by the upload
\* (RomBeforeRelease), but the card's error outlives every ClearError on the
\* way to the release of the CPU: it is left for the error page.
RomOrError ==
    [][cpu = "held" /\ cpu' = "runs" => rom' = "good" \/ "sd" \in ErrorMask']_vars

\* "Only let the CPU go if there is actually a ROM for it to run" (main.c:214):
\* never with a Kickstart of which a sector is missing.
RomBeforeRelease == [][cpu = "held" /\ cpu' = "runs" => rom' = "good"]_vars

\* Whatever fails, power-up, a reboot, a save and a transfer end in the main
\* loop: the boot loader tries again until the card lets it load the firmware.
\* It needs a card with a volume on it, and what it loads to be the firmware;
\* and a link that its FileOpen cannot read keeps it in the directory for good
\* if the card does not answer again.
AdriftInDirectory == pc \in {"b_dir", "b_dirlink"} /\ boot.cluster = 0
ReachesMain ==
    pc # "main" ~> \/ pc \in {"main", "lost"}
                   \/ card.mode = "out" \/ card.vol = "blank"
                   \/ Misaddressed \/ AdriftInDirectory
=============================================================================
