----------------------------- MODULE BootProofs -----------------------------
(***************************************************************************)
(* For any cards, any number of slips, exchanges of the card, power cuts   *)
(* and retries, and any volume: every block the firmware moves is the      *)
(* sector of the card it asked for (SectorsMeant of SdCard, through every  *)
(* step of Boot); a volume is mounted in its own format; no entry of a     *)
(* directory owns a free cluster or another's, if nothing is written to a  *)
(* card that was not recognised; and the CPU is let go with a good         *)
(* Kickstart or with the card's error noted.                               *)
(*                                                                         *)
(* The argument for the first: a card that has been exchanged hears        *)
(* nothing but CMD0, which only an initialisation sends, and a card that   *)
(* has not is of the kind CardType says, unless an initialisation is under *)
(* way.  In its dialogue an SDHC card that was not recognised by CMD8      *)
(* stays idle, and the dialogue fails.  The boot loader's initialisation   *)
(* leaves CardType alone, but runs only while there is none.               *)
(*                                                                         *)
(* For the third: while the card is the one that was initialised last, the *)
(* FAT in memory marks every cluster the card's own marks, so the cluster  *)
(* FileCreate takes is nobody's; it is marked in memory before it is on    *)
(* the card, and on the card before there is an entry for it; and a write  *)
(* under way is one whose outcome is consistent again (Pending).           *)
(*                                                                         *)
(* For the fourth: from UploadKickstart's first part on, what is in memory *)
(* is good or the card's error is noted, and no error that is cleared on   *)
(* the way is the card's.                                                  *)
(***************************************************************************)
EXTENDS Boot, FiniteSetTheorems, WellFoundedInduction, TLAPS

-----------------------------------------------------------------------------
(* The invariant.                                                          *)

\* Records with the fields they have.
CardShape(c) == c = [kind |-> c.kind, part |-> c.part, vol |-> c.vol, mode |-> c.mode, disk |-> c.disk]
CallShape(c) == c = [op |-> c.op, at |-> c.at, asked |-> c.asked, left |-> c.left,
                     tries |-> c.tries, data |-> c.data]
WalkShape(w) == w = [name |-> w.name, dir |-> w.dir, chain |-> w.chain, cluster |-> w.cluster, then |-> w.then]
Shapes == CardShape(card) /\ CallShape(call) /\ WalkShape(walk)

\* The boot loader runs while no type is known, and uses its own driver.
LoaderFirst == pc \in Loader => CardType = None /\ call.op \in {None, "spi_init", "sd_read_sector"}
SpiFirst == call.op \in {"spi_init", "sd_read_sector"} => CardType = None
\* Where no directory walk ends.
NoWalks == Loader \cup {"mounted"}
WalksReturn == walk.then \notin NoWalks

\* A card that hears nothing but CMD0; the type is the card's.
Deaf == card.mode \in {"out", "native"}
Agrees == CardType # None => ((CardType = "SDHC") <=> (card.kind = "SDHC"))

\* MMC_Init once CMD0 is answered: where an SDHC card must still be idle, and
\* where it cannot be at all.
Begun == call.op = "MMC_Init" /\ call.at # "cmd0"
OldWay == {"cmd8", "sd55", "sd41", "lp55", "lp41", "cmd1"}
Ends == {"cmd16sd", "cmd16mmc"}
Dialogue == card.kind = "SDHC" => (call.at \in OldWay => card.mode = "idle") /\ call.at \notin Ends
Known == ~Deaf => (Begun => Dialogue) /\ (~Begun => Agrees)

IInv == Shapes /\ LoaderFirst /\ SpiFirst /\ WalksReturn /\ Known /\ SectorsMeant

-----------------------------------------------------------------------------
(* What a card replies.                                                    *)

\* An exchanged card answers nothing but CMD0, and stays as it is.
LEMMA DeafReply ==
    ASSUME Deaf, NEW cmd, cmd # "CMD0", NEW a \in Replies(cmd)
    PROVE  a.mode = card.mode /\ a.r = "none"
<1>1. Heard(cmd) = {Reply("none", card.mode)}
  BY DEF Heard, Deaf
<1> QED
  BY <1>1 DEF Replies, Reply, Slow, Lost

\* A card whose answer to CMD0 comes is idle.
LEMMA ResetReply ==
    ASSUME NEW cmd, cmd = "CMD0", NEW a \in Replies(cmd), a.r = "idle"
    PROVE  a.mode = "idle"
<1>1. Heard(cmd) = {Reply("none", card.mode)} \/ Heard(cmd) = {Reply("idle", "idle")}
  BY DEF Heard
<1> QED
  BY <1>1 DEF Replies, Reply, Slow, Lost

\* An SDHC card that has not been asked with HCS.
LEMMA IdleReply ==
    ASSUME card.kind = "SDHC", card.mode = "idle",
           NEW cmd \in {"CMD8", "CMD55", "CMD41", "CMD1"}, NEW a \in Replies(cmd)
    PROVE  a.mode = "idle" /\ a.r # "ready"
<1>1. \E r \in {"echo", "idle"} : Heard(cmd) = {Reply(r, "idle")}
  <2>1. CASE cmd = "CMD8"
    BY <2>1 DEF Heard, Awake, V2
  <2>2. CASE cmd = "CMD55"
    BY <2>2 DEF Heard, Awake, Sd
  <2>3. CASE cmd = "CMD41"
    BY <2>3 DEF Heard, Awake, Starts
  <2>4. CASE cmd = "CMD1"
    BY <2>4 DEF Heard, Awake, Starts
  <2> QED
    BY <2>1, <2>2, <2>3, <2>4
<1> QED
  BY <1>1 DEF Replies, Reply, Slow, Lost

-----------------------------------------------------------------------------
(* The two programs between driver calls.                                  *)

Firmware_ops == {"MMC_Read", "MMC_ReadMultiple", "MMC_Write", "MMC_GetCSD"}

\* A step of a program: it calls a driver or none, and its own one.
Caller ==
    /\ call.op = None /\ UNCHANGED <<card, CardType>> /\ moved' \in {moved, NoMove}
    /\ pc' \in Loader => pc \in Loader
    /\ pc' = "mounted" => FindDrive
    /\ WalkShape(walk') /\ walk'.then \notin NoWalks
    /\ \/ call' = call
       \/ CallShape(call') /\ call'.op \in Firmware_ops /\ pc' \notin Loader
       \/ CallShape(call') /\ call'.op = "MMC_Init" /\ call'.at = "cmd0" /\ pc' \notin Loader
       \/ CallShape(call') /\ call'.op \in {"spi_init", "sd_read_sector"} /\ pc \in Loader

\* Such a step keeps the invariant.
LEMMA CallerKeeps ==
    ASSUME IInv, Caller
    PROVE  IInv'
<1> USE SdCardAssumption, BootAssumption DEF Ops, Types
<1>1. Shapes'
  BY DEF IInv, Shapes, Caller, CardShape
<1>2. LoaderFirst' /\ SpiFirst' /\ WalksReturn'
  BY DEF IInv, LoaderFirst, SpiFirst, WalksReturn, Caller, Firmware_ops
<1>3. Known'
  <2>1. ~Begun /\ ~Begun'
    BY DEF Begun, Caller, Firmware_ops
  <2>2. (Deaf' <=> Deaf) /\ (Agrees' <=> Agrees)
    BY DEF Deaf, Agrees, Caller
  <2> QED
    BY <2>1, <2>2 DEF IInv, Known
<1>4. SectorsMeant'
  BY DEF IInv, SectorsMeant, Misaddressed, Caller, NoMove
<1> QED
  BY <1>1, <1>2, <1>3, <1>4 DEF IInv

\* The steps of the boot loader are such steps.
LEMMA LoaderCalls ==
    ASSUME IInv, BootLoader
    PROVE  Caller
<1> USE SdCardAssumption, BootAssumption
    DEF Ops, Types, IInv, Shapes, NoWalks, WalksReturn, WalkShape, CallShape, Caller,
        Start, Load, Jump, At, Loader
<1>1. CASE Power
  BY <1>1 DEF Power, BootError, Idle
<1>2. CASE BootInit
  BY <1>2 DEF BootInit, BootError, Idle
<1>3. CASE BootFindDrive
  BY <1>3 DEF BootFindDrive, BootMount, BootError, Idle
<1>4. CASE BootFileOpen
  BY <1>4 DEF BootFileOpen, NextDir, GetCluster, BootError, Idle
<1>5. CASE LoadFile
  BY <1>5 DEF LoadFile, LinkNext, LoadNext, GetCluster, BootError, Idle
<1>6. CASE Enter
  BY <1>6 DEF Enter, Idle
<1> QED
  BY <1>1, <1>2, <1>3, <1>4, <1>5, <1>6 DEF BootLoader

\* So are those of a directory walk, which goes back to its caller.
LEMMA WalkCalls ==
    ASSUME IInv, Walking
    PROVE  Caller
<1> USE SdCardAssumption, BootAssumption
    DEF Ops, Types, IInv, Shapes, NoWalks, WalksReturn, WalkShape, CallShape, Caller,
        Start, Read, Jump, At, Loader,
        Firmware_ops, NoWalk, Follow, NotThere, Walked
<1>1. CASE WalkRead
  <2>1. ASSUME NEW x, Walked(x) PROVE Caller
    BY <1>1, <2>1 DEF WalkRead
  <2>2. ASSUME Onward PROVE Caller
    BY <1>1, <2>2 DEF WalkRead, Onward
  <2> QED
    BY ONLY <1>1, <2>1, <2>2 DEF WalkRead
<1>2. CASE WalkLink
  BY <1>2 DEF WalkLink
<1> QED
  BY <1>1, <1>2 DEF Walking

\* UploadKickstart's places are places a walk may come back to.
LEMMA TriesLater ==
    ASSUME NEW n \in 1..2
    PROVE  /\ Try(n, "kick") \notin NoWalks /\ Try(n, "up") \notin NoWalks /\ Try(n, "valid") \notin NoWalks
           /\ Try(n, "key") \notin NoWalks /\ Try(n, "rom") \notin NoWalks /\ Try(n, "first") \notin NoWalks
           /\ Try(n, "again") \notin NoWalks /\ Try(n, "second") \notin NoWalks
<1>1. CASE n = 1
  BY <1>1 DEF Try, Tries, NoWalks, Loader
<1>2. CASE n = 2
  BY <1>2 DEF Try, Tries, NoWalks, Loader
<1> QED
  BY <1>1, <1>2

\* The steps of UploadKickstart, by what each does: a sector, a walk or a jump.
LEMMA KickstartCalls ==
    ASSUME IInv, NEW n \in 1..2, UploadKickstart(n)
    PROVE  Caller
<1> DEFINE Later(label) == Try(n, label) \notin NoWalks
<1>1. ASSUME call.op = None, NEW s, NEW label, Later(label), Read(s, Try(n, label)), UNCHANGED walk
      PROVE  Caller
  BY <1>1, SdCardAssumption, BootAssumption
     DEF IInv, Shapes, NoWalks, WalksReturn, WalkShape, CallShape, Caller, Start, Read, Firmware_ops, Ops
<1>2. ASSUME call.op = None, NEW name, NEW from, NEW label, Later(label), FileOpen(name, from, Try(n, label))
      PROVE  Caller
  BY <1>2, SdCardAssumption, BootAssumption
     DEF IInv, Shapes, NoWalks, WalkShape, CallShape, Caller, Start, Read, FileOpen, Walk, Firmware_ops, Ops, Loader
<1>3. ASSUME call.op = None, Walk("ROMS", TRUE, 0, Try(n, "valid"))
      PROVE  Caller
  BY <1>3, SdCardAssumption, BootAssumption, TriesLater
     DEF IInv, Shapes, NoWalks, WalkShape, CallShape, Caller, Start, Read, Walk, Firmware_ops, Ops, Loader
<1>4. ASSUME call.op = None, UNCHANGED walk, KickFails(n) \/ KickMissing(n)
      PROVE  Caller
  BY <1>4, SdCardAssumption, BootAssumption
     DEF IInv, Shapes, NoWalks, WalksReturn, WalkShape, Caller, Jump, KickFails, KickMissing, Loader
<1>5. ASSUME call.op = None, FileOpen("EXTENDED", 0, "ext_1")
      PROVE  Caller
  BY <1>5, SdCardAssumption, BootAssumption
     DEF IInv, Shapes, NoWalks, WalkShape, CallShape, Caller, Start, Read, FileOpen, Walk, Firmware_ops, Ops, Loader
<1> QED
  BY <1>1, <1>2, <1>3, <1>4, <1>5, TriesLater DEF UploadKickstart, At

\* The steps of ColdBoot.
LEMMA ColdBootCalls ==
    ASSUME IInv, ColdBoots
    PROVE  Caller
<1> USE SdCardAssumption, BootAssumption
    DEF Ops, Types, IInv, Shapes, NoWalks, WalksReturn, WalkShape, CallShape, Caller,
        Start, Read, Jump, At, Loader,
        Firmware_ops, Kept, FileOpen, Walk
<1>1. CASE Cold
  BY <1>1 DEF Cold, ColdBoot
<1>2. CASE Inited
  BY <1>2 DEF Inited
<1>3. CASE FindDrive
  <2>1. ASSUME NEW then, then \notin Loader, Jump(then) PROVE Caller
    BY <1>3, <2>1 DEF FindDrive
  <2>2. ASSUME NEW s, Read(s, "vbr") PROVE Caller
    BY <1>3, <2>2 DEF FindDrive
  <2>3. (\E then \in {"main", "mounted"} : Jump(then)) \/ (\E s : Read(s, "vbr"))
    BY ONLY <1>3 DEF FindDrive, NoVolume
  <2> QED
    BY <2>1, <2>2, <2>3
<1>4. CASE LoadConfiguration
  BY <1>4 DEF LoadConfiguration
<1>5. CASE HardfilesOpen
  BY <1>5 DEF HardfilesOpen
<1>6. CASE UploadActionReplay
  BY <1>6 DEF UploadActionReplay
<1>7. ASSUME NEW n \in 1..2, UploadKickstart(n)
      PROVE  Caller
  BY <1>7, KickstartCalls
<1>8. CASE Release
  BY <1>8 DEF Release
<1> QED
  BY <1>1, <1>2, <1>3, <1>4, <1>5, <1>6, <1>7, <1>8 DEF ColdBoots

\* The steps of SaveConfiguration.
LEMMA SaveCalls ==
    ASSUME IInv, Saving
    PROVE  Caller
<1> USE SdCardAssumption, BootAssumption
    DEF Ops, Types, IInv, Shapes, NoWalks, WalksReturn, WalkShape, CallShape, Caller,
        Start, Read, Write, Jump, At, Loader,
        Firmware_ops, Fails, Done, NoWalk, WriteConfig
<1>1. CASE SaveOpened
  BY <1>1 DEF SaveOpened
<1>2. CASE UpdateEntry
  BY <1>2 DEF UpdateEntry
<1>3. CASE FindEntry
  BY <1>3 DEF FindEntry, CreateFollow, Allocate
<1>4. CASE FileCreate
  BY <1>4 DEF FileCreate, Allocate
<1>5. CASE Saved
  BY <1>5 DEF Saved
<1> QED
  BY <1>1, <1>2, <1>3, <1>4, <1>5 DEF Saving

\* The steps of the main loop and of its user.
LEMMA MainLoopCalls ==
    ASSUME IInv, MainLoop \/ User
    PROVE  Caller
<1> USE SdCardAssumption, BootAssumption
    DEF Ops, Types, IInv, Shapes, NoWalks, WalksReturn, WalkShape, CallShape, Caller,
        Start, Read, Jump, At, Loader,
        Firmware_ops, Kept
<1>1. CASE Served
  BY <1>1 DEF Served
<1>2. CASE Dismiss
  <2>1. ASSUME ColdBoot PROVE Caller
    BY <1>2, <2>1 DEF Dismiss, ColdBoot
  <2>2. ASSUME Jump("main") PROVE Caller
    BY <1>2, <2>2 DEF Dismiss
  <2>3. ColdBoot \/ Jump("main")
    BY <1>2 DEF Dismiss
  <2> QED
    BY <2>1, <2>2, <2>3
<1>3. CASE Serve
  BY <1>3 DEF Serve
<1>4. CASE Save
  BY <1>4 DEF Save, FileOpen, Walk
<1>5. CASE Reboot
  BY <1>5 DEF Reboot, ColdBoot
<1> QED
  BY <1>1, <1>2, <1>3, <1>4, <1>5 DEF MainLoop, User

-----------------------------------------------------------------------------
(* The drivers.                                                            *)

\* A step of a driver that leaves the type alone.
Driver ==
    /\ UNCHANGED CardType
    /\ CardShape(card') /\ card'.kind = card.kind
    /\ CallShape(call') /\ call'.op \in {None, call.op}

\* MMC_Read, MMC_ReadMultiple and MMC_Write: an exchanged card stays deaf, and
\* a block is the sector meant if the type is the card's.
Transfer ==
    /\ Driver /\ call.op \in Firmware_ops
    /\ Deaf => Deaf'
    /\ \/ moved' \in {moved, NoMove}
       \/ ~Deaf /\ (CardType # None /\ Agrees => moved'.asked = moved'.on_card)

\* Such a transfer keeps the invariant.
LEMMA TransferKeeps ==
    ASSUME IInv, Transfer, UNCHANGED <<pc, walk>>
    PROVE  IInv'
<1> USE SdCardAssumption, BootAssumption DEF Ops, Types
<1>1. Shapes'
  BY DEF IInv, Shapes, Transfer, Driver
<1>2. LoaderFirst' /\ SpiFirst' /\ WalksReturn'
  BY DEF IInv, LoaderFirst, SpiFirst, WalksReturn, Transfer, Driver, Firmware_ops
<1>3. ~Begun /\ ~Begun'
  BY DEF Begun, Transfer, Driver, Firmware_ops
<1>4. Agrees' <=> Agrees
  BY DEF Agrees, Transfer, Driver
<1>5. Known'
  BY <1>3, <1>4 DEF IInv, Known, Transfer
<1>6. SectorsMeant'
  <2>1. CASE moved' \in {moved, NoMove}
    BY <2>1 DEF IInv, SectorsMeant, Misaddressed, Transfer, Driver, NoMove
  <2>2. CASE ~Deaf /\ (CardType # None /\ Agrees => moved'.asked = moved'.on_card)
    BY <1>3, <2>2 DEF IInv, Known, SectorsMeant, Misaddressed, Transfer, Driver
  <2> QED
    BY <2>1, <2>2 DEF Transfer
<1> QED
  BY <1>1, <1>2, <1>5, <1>6 DEF IInv

\* spi.c: it knows no type.
LEMMA LoaderDriverKeeps ==
    ASSUME IInv, Driver, call.op \in {"spi_init", "sd_read_sector"}, UNCHANGED <<pc, walk>>
    PROVE  IInv'
<1> USE SdCardAssumption, BootAssumption DEF Ops, Types
<1>1. CardType = None /\ CardType' = None
  BY DEF IInv, SpiFirst, Driver
<1>2. Shapes'
  BY DEF IInv, Shapes, Driver
<1>3. LoaderFirst' /\ SpiFirst' /\ WalksReturn'
  BY <1>1 DEF IInv, LoaderFirst, SpiFirst, WalksReturn, Driver
<1>4. ~Begun' /\ Agrees'
  BY <1>1 DEF Begun, Agrees, Driver
<1>5. SectorsMeant'
  BY <1>1 DEF SectorsMeant
<1> QED
  BY <1>2, <1>3, <1>4, <1>5 DEF IInv, Known

\* Any command but CMD0: the card keeps its kind, and an exchanged one its silence.
LEMMA Exchanged ==
    ASSUME CardShape(card), NEW cmd, cmd # "CMD0", NEW a \in Replies(cmd), Exchange(a)
    PROVE  CardShape(card') /\ card'.kind = card.kind /\ (Deaf => Deaf')
<1>1. CardShape(card') /\ card'.kind = card.kind /\ card'.mode = a.mode
  BY DEF Exchange, CardShape
<1> QED
  BY <1>1, DeafReply DEF Deaf

\* A block that comes, and one that does not.
LEMMA TokenCame ==
    ASSUME CardShape(card), NEW mode \in {"block", "stream"}, TokenComes(mode, CardType = "SDHC")
    PROVE  /\ CardShape(card') /\ card'.kind = card.kind /\ ~Deaf
           /\ CardType # None /\ Agrees => moved'.asked = moved'.on_card
<1>1. CardShape(card') /\ card'.kind = card.kind
  BY DEF TokenComes, CardShape
<1>2. ~Deaf
  BY DEF TokenComes, Deaf
<1>3. moved'.asked = call.asked /\ moved'.on_card = OnCard(CardType = "SDHC", call.asked)
  BY DEF TokenComes
<1>4. ASSUME CardType # None, Agrees
      PROVE  OnCard(CardType = "SDHC", call.asked) = call.asked
  BY <1>4 DEF OnCard, Agrees
<1> QED
  BY <1>1, <1>2, <1>3, <1>4

LEMMA TokenWasLost ==
    ASSUME CardShape(card), NEW mode, TokenLost(mode)
    PROVE  CardShape(card') /\ card'.kind = card.kind /\ (Deaf => Deaf') /\ moved' = NoMove
  BY DEF TokenLost, CardShape, Deaf

\* A command is sent, and the driver goes on or returns.
LEMMA CommandSent ==
    ASSUME IInv, call.op \in Firmware_ops, UNCHANGED CardType,
           NEW cmd, cmd # "CMD0", NEW a \in Replies(cmd), Exchange(a),
           (\E at : Goto(at)) \/ (\E ok, data : Return(ok, data))
    PROVE  Transfer
<1>1. CardShape(card) /\ CallShape(call)
  BY DEF IInv, Shapes
<1>2. CardShape(card') /\ card'.kind = card.kind /\ (Deaf => Deaf')
  BY <1>1, Exchanged
<1>3. CallShape(call') /\ call'.op \in {None, call.op} /\ moved' \in {moved, NoMove}
  BY <1>1 DEF Goto, Return, NoCall, CallShape
<1> QED
  BY <1>2, <1>3 DEF Transfer, Driver

\* MMC_Read and MMC_GetCSD are such transfers ...
LEMMA ReadTransfers ==
    ASSUME IInv, MMC_Read
    PROVE  Transfer
<1>1. call.op \in Firmware_ops /\ UNCHANGED CardType
  BY DEF MMC_Read, Firmware_ops
<1>2. CardShape(card)
  BY DEF IInv, Shapes
<1>3. ASSUME NEW cmd \in {"CMD17", "CMD9"}, NEW a \in Replies(cmd), Exchange(a),
             IF a.r = "ready" THEN Goto("token") ELSE Return(FALSE, None)
      PROVE  Transfer
  BY <1>1, <1>3, CommandSent
<1>4. ASSUME TokenComes("block", CardType = "SDHC"), Deliver(Block(CardType = "SDHC"))
      PROVE  Transfer
  <2>1. CallShape(call') /\ call'.op = None
    BY <1>4 DEF Deliver, NoCall, CallShape
  <2> QED
    BY <1>1, <1>2, <1>4, <2>1, TokenCame DEF Transfer, Driver
<1>5. ASSUME TokenLost("block"), GiveUp
      PROVE  Transfer
  <2>1. CallShape(call') /\ call'.op = None
    BY <1>5 DEF GiveUp, NoCall, CallShape
  <2> QED
    BY <1>1, <1>2, <1>5, <2>1, TokenWasLost DEF Transfer, Driver
<1> QED
  BY <1>3, <1>4, <1>5 DEF MMC_Read

\* ... and MMC_ReadMultiple ...
LEMMA ReadMultipleTransfers ==
    ASSUME IInv, MMC_ReadMultiple
    PROVE  Transfer
<1>1. call.op \in Firmware_ops /\ UNCHANGED CardType
  BY DEF MMC_ReadMultiple, Firmware_ops
<1>2. CardShape(card) /\ CallShape(call)
  BY DEF IInv, Shapes
<1>3. ASSUME NEW a \in Replies("CMD18"), Exchange(a),
             IF a.r = "ready" THEN Goto("token") ELSE Return(FALSE, None)
      PROVE  Transfer
  BY <1>1, <1>3, CommandSent
<1>4. ASSUME TokenComes("stream", CardType = "SDHC"), NEW at, call' = [call EXCEPT !.left = @ - 1, !.at = at]
      PROVE  Transfer
  <2>1. CallShape(call') /\ call'.op = call.op
    BY <1>2, <1>4 DEF CallShape
  <2> QED
    BY <1>1, <1>2, <1>4, <2>1, TokenCame DEF Transfer, Driver
<1>5. ASSUME TokenLost("stream"), GiveUp
      PROVE  Transfer
  <2>1. CallShape(call') /\ call'.op = None
    BY <1>5 DEF GiveUp, NoCall, CallShape
  <2> QED
    BY <1>1, <1>2, <1>5, <2>1, TokenWasLost DEF Transfer, Driver
<1>6. ASSUME MMC_CMD12
      PROVE  Transfer
  BY <1>1, <1>6, CommandSent DEF MMC_CMD12
<1> QED
  BY <1>3, <1>4, <1>5, <1>6 DEF MMC_ReadMultiple

\* ... and MMC_Write.
LEMMA WriteTransfers ==
    ASSUME IInv, MMC_Write
    PROVE  Transfer
<1>1. call.op \in Firmware_ops /\ UNCHANGED CardType
  BY DEF MMC_Write, Firmware_ops
<1>2. CardShape(card) /\ CallShape(call)
  BY DEF IInv, Shapes
<1>3. ASSUME NEW a \in Replies("CMD24"), Exchange(a),
             IF a.r = "ready" THEN Goto("block") ELSE Return(FALSE, None)
      PROVE  Transfer
  BY <1>1, <1>3, CommandSent
<1>4. ASSUME NEW s, s = OnCard(CardType = "SDHC", call.asked), card.mode = "receive",
             card' = [card EXCEPT !.mode = "busy", !.disk[s] = call.data],
             moved' = [op |-> call.op, asked |-> call.asked, on_card |-> s],
             call' = [call EXCEPT !.at = "busy"]
      PROVE  Transfer
  <2>1. CallShape(call') /\ call'.op = call.op /\ CardShape(card') /\ card'.kind = card.kind
    BY <1>2, <1>4 DEF CallShape, CardShape
  <2>2. ~Deaf /\ moved'.asked = call.asked /\ moved'.on_card = s
    BY <1>4 DEF Deaf
  <2>3. CardType # None /\ Agrees => s = call.asked
    BY <1>4 DEF OnCard, Agrees
  <2> QED
    BY <1>1, <2>1, <2>2, <2>3 DEF Transfer, Driver
<1>5. ASSUME NEW ok, Return(ok, None),
             UNCHANGED card \/ \E m : card' = [card EXCEPT !.mode = m] /\ card.mode \in {"receive", "busy"}
      PROVE  Transfer
  <2>1. CallShape(call') /\ call'.op = None /\ moved' = NoMove
    BY <1>5 DEF Return, NoCall, CallShape
  <2>2. CardShape(card') /\ card'.kind = card.kind /\ (Deaf => Deaf')
    BY <1>2, <1>5 DEF CardShape, Deaf
  <2> QED
    BY <1>1, <2>1, <2>2 DEF Transfer, Driver
<1>6. card' = [card EXCEPT !.mode = IF @ = "busy" THEN "ready" ELSE @]
      => UNCHANGED card \/ \E m : card' = [card EXCEPT !.mode = m] /\ card.mode \in {"receive", "busy"}
  BY <1>2 DEF CardShape
<1> QED
  BY <1>3, <1>4, <1>5, <1>6 DEF MMC_Write

\* spi.c's steps touch neither the type nor the firmware's calls.
LEMMA LoaderDrives ==
    ASSUME IInv, wait_initV2 \/ wait_init \/ is_sdhc \/ spi_init \/ sd_read_sector
    PROVE  Driver /\ call.op \in {"spi_init", "sd_read_sector"}
<1>1. CardShape(card) /\ CallShape(call)
  BY DEF IInv, Shapes
<1>2. ASSUME NEW a, Exchange(a)
      PROVE  CardShape(card') /\ card'.kind = card.kind
  BY <1>1, <1>2 DEF Exchange, CardShape
<1>3. ASSUME NEW at, NEW cmd, NEW a \in cmd_write(at, cmd)
      PROVE  call.op = "spi_init"
  BY <1>3 DEF cmd_write
<1>4. ASSUME NEW at, \/ call' = [call EXCEPT !.at = at]
                     \/ call' = [call EXCEPT !.at = at, !.tries = @ - 1]
                     \/ call' = NoCall
      PROVE  CallShape(call') /\ call'.op \in {None, call.op}
  <2>1. CASE call' = [call EXCEPT !.at = at]
    BY <1>1, <2>1 DEF CallShape
  <2>2. CASE call' = [call EXCEPT !.at = at, !.tries = @ - 1]
    BY <1>1, <2>2 DEF CallShape
  <2>3. CASE call' = NoCall
    BY <2>3 DEF CallShape, NoCall
  <2> QED
    BY <1>4, <2>1, <2>2, <2>3
<1>5. CASE wait_initV2
  <2>1. PICK at, cmd : \E a \in cmd_write(at, cmd) :
            /\ Exchange(a) /\ UNCHANGED CardType
            /\ (\E n : SpiNext(n)) \/ SpiAgain("b55", sdhc(FALSE))
    BY <1>5 DEF wait_initV2
  <2>2. CASE \E n : SpiNext(n)
    BY <1>2, <1>3, <1>4, <2>1, <2>2 DEF SpiNext, Goto, Driver
  <2>3. CASE SpiAgain("b55", sdhc(FALSE))
    BY <1>2, <1>3, <1>4, <2>1, <2>3 DEF SpiAgain, sdhc, Retry, Driver
  <2> QED
    BY <2>1, <2>2, <2>3
<1>6. CASE wait_init
  BY <1>2, <1>3, <1>4, <1>6 DEF wait_init, SpiAgain, sdhc, Retry, Driver
<1>7. CASE is_sdhc
  BY <1>2, <1>3, <1>4, <1>7 DEF is_sdhc, SpiNext, SpiAgain, sdhc, Goto, Retry, Driver
<1>8. CASE spi_init
  BY <1>1, <1>2, <1>3, <1>4, <1>8 DEF spi_init, SpiNext, SpiAgain, Goto, Return, Retry, Driver
<1>9. CASE sd_read_sector
  <2>1. call.op = "sd_read_sector" /\ UNCHANGED CardType
    BY <1>9 DEF sd_read_sector
  <2>2. ASSUME TokenComes("block", SDHCtype) \/ TokenLost("block")
        PROVE  CardShape(card') /\ card'.kind = card.kind
    BY <1>1, <2>2 DEF TokenComes, TokenLost, CardShape
  <2> QED
    BY <1>2, <1>4, <1>9, <2>1, <2>2 DEF sd_read_sector, Goto, Deliver, GiveUp, Driver
<1> QED
  BY <1>5, <1>6, <1>7, <1>8, <1>9

-----------------------------------------------------------------------------
(* MMC_Init's dialogue.                                                    *)

NewWay == {"hc55", "hc41", "cmd58"}
Places == OldWay \cup NewWay \cup Ends

\* Where its dialogue may turn next, and how it may end.
Turn(r, n) ==
    \/ call.at = "cmd0" /\ r = "idle" /\ n = "cmd8"
    \/ call.at \in OldWay /\ n \in OldWay
    \/ call.at \in Places /\ n \in NewWay
    \/ call.at \in OldWay /\ r = "ready" /\ n \in Ends
Ended(r) ==
    \/ call.at \in Places \cup {"cmd0"} /\ CardType' = None
    \/ call.at \in {"cmd58"} \cup Ends /\ CardType' = InitDone(call.at, r)

\* MMC_Init's step, command by command, is a turn or an end.
LEMMA InitTurns ==
    ASSUME IInv, MMC_Init
    PROVE  \E a \in Replies(InitCommand[call.at]) :
              /\ Exchange(a)
              /\ \/ UNCHANGED <<CardType, moved>> /\ CallShape(call') /\ call'.op = call.op /\ Turn(a.r, call'.at)
                 \/ call' = NoCall /\ moved' = NoMove /\ Ended(a.r)
<1> USE DEF OldWay, NewWay, Ends, Places
<1>1. CallShape(call) /\ call.op = "MMC_Init"
  BY DEF IInv, Shapes, MMC_Init
<1>2. ASSUME NEW at, Goto(at)
      PROVE  UNCHANGED moved /\ CallShape(call') /\ call'.op = call.op /\ call'.at = at
  BY <1>1, <1>2 DEF Goto, CallShape
<1>3. ASSUME NEW at, Retry(at, CardType, InitEnds(None))
      PROVE  \/ UNCHANGED <<CardType, moved>> /\ CallShape(call') /\ call'.op = call.op /\ call'.at = at
             \/ InitEnds(None)
  BY <1>1, <1>3 DEF Retry, CallShape
<1>4. ASSUME NEW type, InitEnds(type)
      PROVE  call' = NoCall /\ moved' = NoMove /\ CardType' = type
  BY <1>4 DEF InitEnds, Return
<1> QED
  BY <1>2, <1>3, <1>4 DEF MMC_Init, Turn, Ended

\* The command it sends at each place: CMD0 at the first only.
LEMMA InitAsks ==
    /\ call.at \in OldWay => InitCommand[call.at] \in {"CMD8", "CMD55", "CMD41", "CMD1"}
    /\ call.at \in Places => InitCommand[call.at] # "CMD0"
    /\ call.at = "cmd0" => InitCommand[call.at] = "CMD0"
BY DEF OldWay, NewWay, Ends, Places, InitCommand

\* MMC_Init keeps the invariant: by the place it is at, and by whether the card hears it.
LEMMA InitKeeps ==
    ASSUME IInv, MMC_Init, UNCHANGED <<pc, walk>>
    PROVE  IInv'
<1> USE SdCardAssumption, BootAssumption DEF Ops, Types
<1>1. call.op = "MMC_Init" /\ CardShape(card)
  BY DEF MMC_Init, IInv, Shapes
<1>2. PICK a \in Replies(InitCommand[call.at]) :
         /\ Exchange(a)
         /\ \/ UNCHANGED <<CardType, moved>> /\ CallShape(call') /\ call'.op = call.op /\ Turn(a.r, call'.at)
            \/ call' = NoCall /\ moved' = NoMove /\ Ended(a.r)
  BY InitTurns
<1>3. CardShape(card') /\ card'.kind = card.kind /\ card'.mode = a.mode
  BY <1>1, <1>2 DEF Exchange, CardShape
<1>4. call'.op \in {None, "MMC_Init"} /\ CallShape(call')
  BY <1>1, <1>2 DEF NoCall, CallShape
<1>5. Shapes' /\ SpiFirst' /\ WalksReturn'
  BY <1>3, <1>4 DEF IInv, Shapes, SpiFirst, WalksReturn
<1>6. LoaderFirst'
  BY <1>1 DEF IInv, LoaderFirst
<1>7. SectorsMeant'
  BY <1>2 DEF IInv, SectorsMeant, Misaddressed, NoMove
<1>8. Known'
  <2>1. CASE call.at = "cmd0"
    <3>1. CASE CardType' = None /\ call' = NoCall
      BY <3>1 DEF Known, Begun, Agrees, NoCall
    <3>2. CASE Turn(a.r, call'.at) /\ call'.op = call.op
      <4>1. a.r = "idle" /\ call'.at = "cmd8"
        BY <2>1, <3>2 DEF Turn, OldWay, Ends, NewWay, Places
      <4>2. card'.mode = "idle"
        BY <1>2, <1>3, <2>1, <4>1, InitAsks, ResetReply
      <4> QED
        BY <1>1, <3>2, <4>1, <4>2 DEF Known, Begun, Dialogue, OldWay, Ends
    <3> QED
      BY <1>2, <2>1, <3>1, <3>2 DEF Ended, Ends
  <2>2. CASE call.at # "cmd0" /\ Deaf
    <3>1. call.at \in Places
      BY <1>2, <2>2 DEF Turn, Ended, Places, OldWay, NewWay, Ends
    <3>2. a.mode = card.mode
      BY <1>2, <2>2, <3>1, InitAsks, DeafReply
    <3> QED
      BY <1>3, <2>2, <3>2 DEF Known, Deaf
  <2>3. CASE call.at # "cmd0" /\ ~Deaf
    <3>1. Dialogue
      BY <1>1, <2>3 DEF IInv, Known, Begun
    <3>2. card.kind = "SDHC" /\ call.at \in OldWay => a.mode = "idle" /\ a.r # "ready"
      BY <1>2, <3>1, InitAsks, IdleReply DEF Dialogue
    <3>3. CASE call' = NoCall /\ Ended(a.r)
      <4>1. Agrees'
        BY <1>3, <2>3, <3>1, <3>3 DEF Agrees, Dialogue, Ended, InitDone, Ends, OldWay
      <4> QED
        BY <3>3, <4>1 DEF Known, Begun, NoCall
    <3>4. CASE Turn(a.r, call'.at) /\ call'.op = call.op
      <4>1. Dialogue'
        BY <1>3, <2>3, <3>1, <3>2, <3>4 DEF Dialogue, Turn, OldWay, NewWay, Ends, Places
      <4>2. call'.at # "cmd0"
        BY <3>4 DEF Turn, OldWay, NewWay, Ends, Places
      <4> QED
        BY <1>1, <3>4, <4>1, <4>2 DEF Known, Begun
    <3> QED
      BY <1>2, <3>3, <3>4
  <2> QED
    BY <2>1, <2>2, <2>3
<1> QED
  BY <1>5, <1>6, <1>7, <1>8 DEF IInv

-----------------------------------------------------------------------------
(* The theorem.                                                            *)

\* At first nothing is known.
LEMMA InitHolds == Init => IInv
<1> SUFFICES ASSUME Init PROVE IInv
  OBVIOUS
<1> USE SdCardAssumption, BootAssumption DEF Ops, Types
<1>1. CardType = None /\ call = NoCall /\ moved = NoMove /\ walk = NoWalk
  BY DEF Init, PoweredUp
<1>2. CardShape(card)
  BY DEF Init, CardShape
<1>3. Shapes
  BY <1>1, <1>2 DEF Shapes, CallShape, NoCall, WalkShape, NoWalk
<1>4. LoaderFirst /\ SpiFirst /\ WalksReturn
  BY <1>1 DEF LoaderFirst, SpiFirst, WalksReturn, NoWalks, NoCall, NoWalk
<1>5. Known /\ SectorsMeant
  BY <1>1 DEF Known, Begun, Agrees, NoCall, SectorsMeant
<1> QED
  BY <1>3, <1>4, <1>5 DEF IInv

\* A card is pulled, put in, or comes to rest.
LEMMA HandsKeep ==
    ASSUME IInv, (Pull \/ Insert \/ Settle) /\ UNCHANGED boot_vars
    PROVE  IInv'
<1>1. UNCHANGED <<pc, walk, call, CardType, moved>>
  BY DEF boot_vars, Pull, Insert, Settle
<1>2. CardShape(card) /\ CardShape(card')
  <2>1. CardShape(card)
    BY DEF IInv, Shapes
  <2>2. CASE Pull
    BY <2>1, <2>2 DEF Pull, CardShape
  <2>3. CASE Settle
    BY <2>1, <2>3 DEF Settle, CardShape
  <2>4. CASE Insert
    BY <2>1, <2>4 DEF Insert, CardShape
  <2> QED
    BY <2>1, <2>2, <2>3, <2>4
<1>3. Deaf' \/ (call.op = None /\ ~Deaf /\ card'.kind = card.kind)
  BY <1>2 DEF Pull, Insert, Settle, CardShape, Deaf
<1>4. Known'
  <2>1. CASE Deaf'
    BY <2>1 DEF Known
  <2>2. CASE call.op = None /\ ~Deaf /\ card'.kind = card.kind
    BY <1>1, <2>2, SdCardAssumption DEF IInv, Known, Begun, Agrees, Ops
  <2> QED
    BY <1>3, <2>1, <2>2
<1>5. Shapes' /\ LoaderFirst' /\ SpiFirst' /\ WalksReturn' /\ SectorsMeant'
  BY <1>1, <1>2 DEF IInv, Shapes, LoaderFirst, SpiFirst, WalksReturn, SectorsMeant, Misaddressed
<1> QED
  BY <1>4, <1>5 DEF IInv

\* The power is cut.
LEMMA CutKeeps ==
    ASSUME IInv, Cut
    PROVE  IInv'
<1> USE SdCardAssumption, BootAssumption DEF Ops, Types
<1>1. CardType' = None /\ call' = NoCall /\ moved' = NoMove /\ walk' = NoWalk
  BY DEF Cut
<1>2. CardShape(card')
  BY DEF IInv, Shapes, CardShape, Cut
<1>3. Shapes'
  BY <1>1, <1>2 DEF Shapes, CallShape, NoCall, WalkShape, NoWalk
<1>4. LoaderFirst' /\ SpiFirst' /\ WalksReturn'
  BY <1>1 DEF LoaderFirst, SpiFirst, WalksReturn, NoWalks, NoCall, NoWalk
<1>5. Known' /\ SectorsMeant'
  BY <1>1 DEF Known, Begun, Agrees, NoCall, SectorsMeant
<1> QED
  BY <1>3, <1>4, <1>5 DEF IInv

\* Every step keeps the invariant.
LEMMA StepKeeps == IInv /\ [Next]_vars => IInv'
<1> SUFFICES ASSUME IInv, [Next]_vars PROVE IInv'
  OBVIOUS
<1>1. CASE BootLoader \/ Walking \/ ColdBoots \/ Saving \/ MainLoop \/ User
  BY <1>1, LoaderCalls, WalkCalls, ColdBootCalls, SaveCalls, MainLoopCalls, CallerKeeps
<1>2. CASE Drivers /\ UNCHANGED boot_vars
  <2>1. UNCHANGED <<pc, walk>>
    BY <1>2 DEF boot_vars
  <2>2. CASE MMC_Init
    BY <2>1, <2>2, InitKeeps
  <2>3. CASE MMC_Read \/ MMC_ReadMultiple \/ MMC_Write
    BY <2>1, <2>3, ReadTransfers, ReadMultipleTransfers, WriteTransfers, TransferKeeps
  <2>4. CASE wait_initV2 \/ wait_init \/ is_sdhc \/ spi_init \/ sd_read_sector
    BY <2>1, <2>4, LoaderDrives, LoaderDriverKeeps
  <2> QED
    BY <1>2, <2>2, <2>3, <2>4 DEF Drivers
<1>3. CASE Cut
  BY <1>3, CutKeeps
<1>4. CASE (Pull \/ Insert \/ Settle) /\ UNCHANGED boot_vars
  BY <1>4, HandsKeep
<1>5. CASE UNCHANGED vars
  BY <1>5 DEF vars, card_vars, IInv, Shapes, LoaderFirst, SpiFirst, WalksReturn, Known, Deaf, Begun,
              Dialogue, Agrees, SectorsMeant, Misaddressed
<1> QED
  BY <1>1, <1>2, <1>3, <1>4, <1>5 DEF Next, Processor, Hands

\* Whatever is lost, pulled, exchanged or cut off, and for every number of
\* slips and retries: a block that mmc.c moves while CardType names a type is
\* the sector of the card that was asked for.
THEOREM BlocksAreTheOnesAsked == Spec => []SectorsMeant
<1>1. IInv => SectorsMeant
  BY DEF IInv
<1> QED
  BY InitHolds, StepKeeps, <1>1, PTL DEF Spec

\* A volume is mounted in the format of its own sector, for every card: only
\* FindDrive gets there, and it compares what it has kept from an earlier card
\* with the sector it has just read.
THEOREM FormatIsTheSectors == Spec => MountedInItsFormat
<1>1. ASSUME IInv, [Next]_vars, pc # "mounted", pc' = "mounted"
      PROVE  FindDrive
  <2>1. CASE BootLoader \/ Walking \/ ColdBoots \/ Saving \/ MainLoop \/ User
    BY <1>1, <2>1, LoaderCalls, WalkCalls, ColdBootCalls, SaveCalls, MainLoopCalls DEF Caller
  <2>2. CASE (Drivers \/ Pull \/ Insert \/ Settle) /\ UNCHANGED boot_vars
    BY <1>1, <2>2 DEF boot_vars
  <2>3. CASE Cut
    BY <1>1, <2>3 DEF Cut
  <2>4. CASE UNCHANGED vars
    BY <1>1, <2>4 DEF vars
  <2> QED
    BY <1>1, <2>1, <2>2, <2>3, <2>4 DEF Next, Processor, Hands
<1>2. ASSUME FindDrive, pc' = "mounted"
      PROVE  fat32' = (answer.data.v = "fat32")
  <2> DEFINE vol == answer.data.v
  <2>1. Jump("mounted") /\ Mounted(vol) /\ fat32' = (fat32 \/ Format(vol) = 32)
    BY <1>2 DEF FindDrive, Read, Jump, NoVolume
  <2>2. vol \in {"fat16", "fat32"} /\ (fat32 \/ Format(vol) = 32 <=> vol = "fat32")
    BY <2>1 DEF Mounted, Format
  <2> QED
    BY <2>1, <2>2
<1> QED
  BY <1>1, <1>2, InitHolds, StepKeeps, PTL DEF Spec, MountedInItsFormat


-----------------------------------------------------------------------------
(* What a save writes, and what it leaves of a volume.                     *)

\* A nonempty set of naturals has its Lowest.
LEMMA LowestIn ==
    ASSUME NEW S \in SUBSET Nat, S # {}
    PROVE  Lowest(S) \in S
<1> DEFINE T == {0..m : m \in S}
<1>1. T \subseteq FiniteSubsetsOf(Nat)
  <2>1. ASSUME NEW m \in S PROVE 0..m \in FiniteSubsetsOf(Nat)
    BY FS_Interval DEF FiniteSubsetsOf
  <2> QED
    BY <2>1
<1>2. PICK t \in T : \A u \in T : ~ (<<u, t>> \in StrictSubsetOrdering(Nat))
  <2> HIDE DEF T
  <2>1. T # {}
    BY DEF T
  <2> QED
    BY <1>1, <2>1, FS_StrictSubsetOrderingWellFounded, WFMin
<1>3. PICK m \in S : t = 0..m
  OBVIOUS
<1>4. ASSUME NEW k \in S, k < m
      PROVE  FALSE
  <2>1. 0..k \in T
    OBVIOUS
  <2>2. 0..k \subseteq 0..m /\ 0..k # 0..m
    BY <1>4
  <2>3. <<0..k, t>> \in StrictSubsetOrdering(Nat)
    BY <1>3, <2>2 DEF StrictSubsetOrdering
  <2> QED
    BY <1>2, <2>1, <2>3
<1>5. \A k \in S : m <= k
  BY <1>4
<1> QED
  BY <1>5 DEF Lowest

\* The clusters, and the mark that ends a chain.
LEMMA Numbers == Clusters \subseteq Nat /\ EOC # 0 /\ EOC \in Nat
<1>1. Cardinality(Clusters) \in Nat
  BY NumbersAssumption, FS_CardinalityType
<1> QED
  BY <1>1, NumbersAssumption DEF EOC

\* A sector of the directory is none of the FAT's, and all are on the card.
LEMMA Apart ==
    ASSUME NEW vol
    PROVE  /\ RootSectors(vol) \subseteq Sectors /\ FatCopy(1) \in Sectors
           /\ FatCopy(1) \notin RootSectors(vol) /\ FatCopy(2) \notin RootSectors(vol)
           /\ Part \notin RootSectors(vol) /\ FatCopy(1) # FatCopy(2) /\ Part # FatCopy(1)
           /\ \A c : Sector(c) \notin {FatCopy(1), FatCopy(2)}
           /\ \A b : Root(b) \notin {FatCopy(1), FatCopy(2)}
<1>1. \A c : Sector(c) \notin {FatCopy(1), FatCopy(2), Part}
  BY DEF Sector, FatCopy, Wild, Part
<1>2. \A b : Root(b) \notin {FatCopy(1), FatCopy(2), Part}
  BY <1>1 DEF Root, FatCopy, Part
<1>3. \A c : Sector(c) \in Sectors
  BY DEF Sectors, Sector
<1>4. RootSectors(vol) \subseteq {Sector(1), Sector(2), Root(FALSE)}
  BY DEF RootSectors
<1>5. Root(FALSE) \in Sectors /\ FatCopy(1) \in Sectors
  BY DEF Root, Sectors
<1>6. FatCopy(1) # FatCopy(2) /\ Part # FatCopy(1)
  BY DEF FatCopy, Part
<1> QED
  BY <1>1, <1>2, <1>3, <1>4, <1>5, <1>6

\* The FAT is written with more marks.
LEMMA MarkKeeps ==
    ASSUME NEW vol, NEW disk, Consistent(vol, disk), NEW m, FatShape(m),
           \A x \in Clusters : Marks(disk)[x] # 0 => m[x] # 0
    PROVE  Consistent(vol, [disk EXCEPT ![FatCopy(1)] = Is("fat", m)])
<1> DEFINE after == [disk EXCEPT ![FatCopy(1)] = Is("fat", m)]
<1>1. disk = [s \in Sectors |-> disk[s]]
  BY DEF Consistent
<1>2. after = [s \in Sectors |-> after[s]]
  BY <1>1
<1>3. after[FatCopy(1)] = Is("fat", m) /\ \A x \in RootSectors(vol) : after[x] = disk[x]
  BY <1>1, Apart
<1> HIDE DEF after
<1>4. after[FatCopy(1)].t = "fat" /\ Marks(after) = m
  BY <1>3 DEF Is, Marks
<1>5. \A x \in RootSectors(vol) : DirShape(EntriesIn(after[x]))
  BY <1>3 DEF Consistent
<1>6. ASSUME NEW x \in RootSectors(vol), NEW s \in Slots, UsedIn(after[x], s)
      PROVE  OwnCluster(vol, after, x, s)
  <2>1. OwnCluster(vol, disk, x, s)
    BY <1>3, <1>6 DEF Consistent
  <2> QED
    BY <1>3, <1>4, <2>1 DEF OwnCluster
<1>7. Consistent(vol, after)
  BY <1>2, <1>4, <1>5, <1>6 DEF Consistent
<1> QED
  BY <1>7 DEF after

\* No entry of the directory owns this cluster.
Unowned(vol, disk, c) ==
    \A x \in RootSectors(vol), s \in Slots : UsedIn(disk[x], s) => ClusterIn(disk[x], s) # c

\* Any other sector is written: if it is the directory's, each entry of it is
\* the one that was there, but for one that gets a marked cluster nobody owns.
NewIn(vol, disk, data, s) ==
    /\ ClusterIn(data, s) \in Clusters /\ Marks(disk)[ClusterIn(data, s)] # 0
    /\ Unowned(vol, disk, ClusterIn(data, s))
KeptIn(before, data, s) == UsedIn(before, s) /\ ClusterIn(data, s) = ClusterIn(before, s)
\* A write to the directory or the FAT that adds at most one entry, of a marked
\* cluster nobody owns, and takes no mark away, leaves the volume consistent.
LEMMA EntryKeeps ==
    ASSUME NEW vol, NEW disk, Consistent(vol, disk), NEW a, a # FatCopy(1), NEW data, NEW n,
           a \in RootSectors(vol) =>
               /\ DirShape(EntriesIn(data))
               /\ \A s \in Slots : UsedIn(data, s) =>
                     KeptIn(disk[a], data, s) \/ (s = n /\ NewIn(vol, disk, data, s))
    PROVE  Consistent(vol, [disk EXCEPT ![a] = data])
<1> DEFINE after == [disk EXCEPT ![a] = data]
<1>1. disk = [s \in Sectors |-> disk[s]]
  BY DEF Consistent
<1>2. after = [s \in Sectors |-> after[s]]
  BY <1>1
<1>3. after[FatCopy(1)] = disk[FatCopy(1)] /\ \A x \in RootSectors(vol) : after[x] = IF x = a THEN data ELSE disk[x]
  BY <1>1, Apart
<1> HIDE DEF after
<1>4. after[FatCopy(1)].t = "fat" /\ Marks(after) = Marks(disk) /\ FatShape(Marks(after))
  BY <1>3 DEF Consistent, Marks
<1>5. \A x \in RootSectors(vol) : DirShape(EntriesIn(after[x]))
  BY <1>3 DEF Consistent
<1>6. ASSUME NEW x \in RootSectors(vol), NEW s \in Slots, UsedIn(after[x], s)
      PROVE  \/ UsedIn(disk[x], s) /\ ClusterIn(after[x], s) = ClusterIn(disk[x], s)
             \/ x = a /\ s = n /\ NewIn(vol, disk, after[x], s)
  <2>1. CASE x = a
    BY <1>3, <1>6, <2>1 DEF KeptIn
  <2>2. CASE x # a
    BY <1>3, <1>6, <2>2
  <2> QED
    BY <2>1, <2>2
<1>7. ASSUME NEW x \in RootSectors(vol), NEW s \in Slots, UsedIn(after[x], s)
      PROVE  OwnCluster(vol, after, x, s)
  <2> DEFINE c == ClusterIn(after[x], s)
  <2>1. CASE UsedIn(disk[x], s) /\ c = ClusterIn(disk[x], s)
    <3>1. OwnCluster(vol, disk, x, s)
      BY <2>1 DEF Consistent
    <3>2. c \in Clusters /\ Marks(after)[c] # 0
      BY <1>4, <2>1, <3>1 DEF OwnCluster
    <3>3. ASSUME NEW y \in RootSectors(vol), NEW t \in Slots, UsedIn(after[y], t), ClusterIn(after[y], t) = c
          PROVE  x = y /\ s = t
      <4>1. ~NewIn(vol, disk, after[y], t)
        BY <2>1, <3>3 DEF NewIn, Unowned
      <4>2. UsedIn(disk[y], t) /\ ClusterIn(disk[y], t) = ClusterIn(disk[x], s)
        BY <1>6, <2>1, <3>3, <4>1
      <4> QED
        BY <3>1, <4>2 DEF OwnCluster
    <3> QED
      BY <3>2, <3>3 DEF OwnCluster
  <2>2. CASE x = a /\ s = n /\ NewIn(vol, disk, after[x], s)
    <3>1. c \in Clusters /\ Marks(after)[c] # 0 /\ Unowned(vol, disk, c)
      BY <1>4, <2>2 DEF NewIn
    <3>2. ASSUME NEW y \in RootSectors(vol), NEW t \in Slots, UsedIn(after[y], t), ClusterIn(after[y], t) = c
          PROVE  x = y /\ s = t
      BY <1>6, <2>2, <3>1, <3>2 DEF Unowned
    <3> QED
      BY <3>1, <3>2 DEF OwnCluster
  <2> QED
    BY <1>6, <1>7, <2>1, <2>2
<1>8. Consistent(vol, after)
  BY <1>2, <1>4, <1>5, <1>7 DEF Consistent
<1> QED
  BY <1>8 DEF after

\* What the invariant is for.
LEMMA ConsistentOwn ==
    ASSUME Consistent(card.vol, card.disk)
    PROVE  EntriesOwnClusters
<1>1. ASSUME NEW e \in Used(card)
      PROVE  /\ e = [sec |-> e.sec, slot |-> e.slot] /\ e.sec \in RootSectors(card.vol) /\ e.slot \in Slots
             /\ UsedIn(card.disk[e.sec], e.slot) /\ EntryAt(card, e).cluster = ClusterIn(card.disk[e.sec], e.slot)
  BY <1>1 DEF Used, Entries, EntryAt, UsedIn, ClusterIn
<1>2. ASSUME NEW e \in Used(card)
      PROVE  OwnCluster(card.vol, card.disk, e.sec, e.slot)
  BY <1>1, <1>2 DEF Consistent
<1>3. ASSUME NEW e \in Used(card), NEW d \in Used(card) \ {e}
      PROVE  EntryAt(card, d).cluster # EntryAt(card, e).cluster
  BY <1>1, <1>2, <1>3 DEF OwnCluster
<1> QED
  BY <1>1, <1>2, <1>3 DEF EntriesOwnClusters, OwnCluster, Marks

-----------------------------------------------------------------------------
(* The invariant of a save.                                                *)

\* No write goes out while no card has been recognised.
BlindWrite == call.op = "MMC_Write" /\ CardType = None

\* The card is the one that was initialised last, and it was.
Session == ~Deaf /\ CardType # None /\ pc # "inited"

\* The initialisation, and what it leaves.
InitPlace == /\ call.op = "MMC_Init" => pc = "inited"
             /\ pc = "inited" => call.op \in {None, "MMC_Init"}
             /\ pc = "inited" /\ call.op = None => answer.ok = TRUE \/ CardType = None

\* The buffered FAT marks what the card's marks.
Holds(fat) == FatShape(fat) /\ \A x \in Clusters : Marks(card.disk)[x] # 0 => fat[x] # 0
Buffered == Session /\ fat_buffer # None => Holds(fat_buffer)

\* A read that something is made of: of the sector it is about.
Copied == {"update", "dir", "fat", "dirlink", "link"}
Target == IF pc = "update" THEN file.sec ELSE IF pc = "dir" THEN DirSector ELSE FatCopy(1)
Asks == pc \in Copied /\ call.op # None => call.op = "MMC_Read" /\ call.asked = Target
Answered == Session /\ pc \in Copied /\ call.op = None /\ answer.ok = TRUE => answer.data = card.disk[Target]

\* A write on its way, before it has landed and after.
Goes == /\ call.op = "MMC_Write" =>
              IF pc = "fat_1" THEN call.asked = FatCopy(1) /\ call.data = Is("fat", fat_buffer)
              ELSE call.asked # FatCopy(1)
        /\ pc = "fat_1" => call.op \in {None, "MMC_Write"}
        /\ pc = "fat_2" /\ call.op = "MMC_Write" => call.asked = FatCopy(2)
After == [card.disk EXCEPT ![call.asked] = call.data]
Pending == Session /\ call.op = "MMC_Write" => Consistent(card.vol, After)
Landed == Session /\ pc = "fat_1" /\ \/ call.op = "MMC_Write" /\ call.at = "busy"
                                     \/ call.op = None /\ answer.ok = TRUE
          => Marks(card.disk) = fat_buffer

\* FileCreate: the place it has found, and the cluster it has marked.
FatPlaces == {FatCopy(1), FatCopy(2)}
Filed(f) == /\ f = [cluster |-> f.cluster, old |-> f.old, sec |-> f.sec, slot |-> f.slot]
            /\ f.sec \notin FatPlaces
Creating == pc \in {"fat", "fat_1", "fat_2"} =>
               Filed(new) /\ (Session => sector_buffer = EntriesIn(card.disk[new.sec]))
Allocated == Session /\ pc \in {"fat_1", "fat_2"} =>
               /\ new.cluster \in Clusters /\ Unowned(card.vol, card.disk, new.cluster)
               /\ fat_buffer[new.cluster] # 0
               /\ pc = "fat_2" => Marks(card.disk)[new.cluster] # 0

\* Where a directory walk ends, and where the directory is a chain.
Returns == {"config", "sounds", "hdf0", "hrtmon", "save", "ext_1", "ext_2", "valid_1", "valid_2",
            "key_1", "key_2", "rom_1", "rom_2", "again_1", "again_2"}
WalkPlaces == /\ pc \in {"walk", "link"} => walk.then \in Returns
              /\ pc = "dirlink" => fat32
              /\ Filed(file) /\ (pc = "entry" => Filed(new))

OwnInv == /\ Consistent(card.vol, card.disk) /\ InitPlace /\ Buffered /\ Asks /\ Answered
          /\ Goes /\ Pending /\ Landed /\ Creating /\ Allocated /\ WalkPlaces

-----------------------------------------------------------------------------
(* The drivers keep it.                                                    *)

\* The step moves no block to the card, and none of the program's variables.
Still == card'.vol = card.vol /\ card'.disk = card.disk /\ UNCHANGED boot_vars

\* MMC_Init: the card is no session's before it ends.
LEMMA InitOwn ==
    ASSUME IInv, OwnInv, MMC_Init, UNCHANGED boot_vars
    PROVE  OwnInv'
<1> USE SdCardAssumption DEF Ops, Types
<1>1. PICK a \in Replies(InitCommand[call.at]) :
         /\ Exchange(a)
         /\ \/ UNCHANGED <<CardType, moved>> /\ CallShape(call') /\ call'.op = call.op
            \/ call' = NoCall
  BY InitTurns
<1>2. Still
  BY <1>1 DEF Exchange, Still, IInv, Shapes, CardShape
<1>3. pc = "inited" /\ call.op = "MMC_Init"
  BY DEF MMC_Init, OwnInv, InitPlace
<1>4. pc' = "inited" /\ ~Session' /\ call'.op \in {None, "MMC_Init"}
  BY <1>1, <1>2, <1>3 DEF Still, boot_vars, Session, NoCall
<1>5. InitPlace'
  <2>1. CASE call' = NoCall
    <3>1. PICK type : InitEnds(type)
      BY <1>3, <2>1 DEF MMC_Init, Goto, Retry, NoCall
    <3>2. CardType' = type /\ answer'.ok = (type # None)
      BY <3>1 DEF InitEnds, Return
    <3>3. CASE type = None
      BY <1>4, <3>2, <3>3 DEF InitPlace
    <3>4. CASE type # None
      <4>1. answer'.ok = TRUE
        BY <3>2, <3>4
      <4> QED
        BY <1>4, <4>1 DEF InitPlace
    <3> QED
      BY <3>3, <3>4
  <2>2. CASE call'.op = call.op
    BY <1>3, <1>4, <2>2 DEF InitPlace
  <2> QED
    BY <1>1, <2>1, <2>2
<1>6. Consistent(card'.vol, card'.disk)
  BY <1>2 DEF Still, OwnInv
<1>7. (Buffered /\ Answered /\ Pending /\ Landed /\ Allocated)'
  BY <1>4 DEF Buffered, Answered, Pending, Landed, Allocated
<1>8. (Asks /\ Goes /\ Creating)'
  BY <1>4 DEF Asks, Goes, Creating, Copied
<1>9. WalkPlaces'
  BY <1>2, <1>4 DEF Still, boot_vars, volume, WalkPlaces, OwnInv
<1> QED
  BY <1>5, <1>6, <1>7, <1>8, <1>9 DEF OwnInv

\* spi.c: there is no session.
LEMMA LoaderOwn ==
    ASSUME IInv, OwnInv, wait_initV2 \/ wait_init \/ is_sdhc \/ spi_init \/ sd_read_sector, UNCHANGED boot_vars
    PROVE  OwnInv'
<1> USE SdCardAssumption DEF Ops, Types
<1>1. CardType = None /\ CardType' = None /\ call.op \in {"spi_init", "sd_read_sector"}
      /\ call'.op \in {None, "spi_init", "sd_read_sector"}
  BY LoaderDrives DEF IInv, SpiFirst, Driver
<1>2. Still
  <2>1. ASSUME NEW a, Exchange(a) PROVE Still
    BY <2>1 DEF Exchange, Still, IInv, Shapes, CardShape
  <2>2. ASSUME TokenComes("block", SDHCtype) \/ TokenLost("block") PROVE Still
    BY <2>2 DEF TokenComes, TokenLost, Still, IInv, Shapes, CardShape
  <2>3. ASSUME UNCHANGED card PROVE Still
    BY <2>3 DEF Still
  <2>4. CASE sd_read_sector
    BY <2>1, <2>2, <2>4 DEF sd_read_sector
  <2>5. CASE spi_init
    BY <2>1, <2>3, <2>5 DEF spi_init
  <2>6. CASE is_sdhc
    BY <2>1, <2>6 DEF is_sdhc
  <2>7. CASE wait_initV2 \/ wait_init
    BY <2>1, <2>7 DEF wait_initV2, wait_init
  <2> QED
    BY <2>4, <2>5, <2>6, <2>7
<1>3. pc' = pc /\ pc # "inited" /\ pc \notin Copied /\ pc # "fat_1"
  BY <1>1, <1>2 DEF Still, boot_vars, OwnInv, InitPlace, Asks, Goes
<1>4. ~Session' /\ InitPlace'
  BY <1>1, <1>3 DEF Session, InitPlace
<1>5. Consistent(card'.vol, card'.disk)
  BY <1>2 DEF Still, OwnInv
<1>6. (Buffered /\ Answered /\ Pending /\ Landed /\ Allocated)'
  BY <1>4 DEF Buffered, Answered, Pending, Landed, Allocated
<1>7. (Asks /\ Goes)'
  BY <1>1, <1>3 DEF Asks, Goes
<1>8. Creating' /\ WalkPlaces'
  BY <1>2, <1>3, <1>4 DEF Still, boot_vars, volume, machine, Creating, WalkPlaces, OwnInv
<1> QED
  BY <1>4, <1>5, <1>6, <1>7, <1>8 DEF OwnInv

\* A step of the firmware's drivers that writes no block: the call goes on, or
\* it ends, with what was read or after a write that has landed.
Passes ==
    /\ Still /\ UNCHANGED CardType /\ call.op \in Firmware_ops /\ (Deaf => Deaf')
    /\ \/ UNCHANGED <<call.op, call.asked, call.data>> /\ call'.at # "busy"
       \/ call' = NoCall /\ answer'.ok = FALSE
       \/ call' = NoCall /\ call.op \in {"MMC_ReadMultiple", "MMC_GetCSD"}
       \/ call' = NoCall /\ call.op = "MMC_Read" /\ (Session => answer'.data = card.disk[call.asked])
       \/ call' = NoCall /\ call.op = "MMC_Write" /\ call.at = "busy"

\* A driver step that moves no block to the card and ends no initialisation.
LEMMA PassesOwn ==
    ASSUME OwnInv, Passes
    PROVE  OwnInv'
<1> USE SdCardAssumption DEF Ops, Types
<1>1. /\ UNCHANGED <<pc, file, walk, fat32, fat_buffer, sector_buffer, new, CardType>>
      /\ card'.vol = card.vol /\ card'.disk = card.disk
  BY DEF Passes, Still, boot_vars, volume, machine
<1>2. pc # "inited" /\ pc' # "inited"
  BY <1>1 DEF OwnInv, InitPlace, Passes, Firmware_ops
<1>3. Session' => Session
  BY <1>1, <1>2 DEF Session, Passes
<1>4. call'.op \in {None, call.op} /\ call.op # None /\ call.op # "MMC_Init"
  BY DEF Passes, NoCall, Firmware_ops
<1>5. (Consistent(card.vol, card.disk) /\ InitPlace)'
  BY <1>1, <1>2, <1>4 DEF OwnInv, InitPlace
<1>6. Buffered'
  BY <1>1, <1>3 DEF OwnInv, Buffered, Holds
<1>7. Target' = Target
  BY <1>1 DEF Target, DirSector
<1>8. Asks' /\ Answered'
  <2>1. pc \in Copied => call.op = "MMC_Read" /\ call.asked = Target
    BY <1>4 DEF OwnInv, Asks
  <2>2. CASE call'.op = call.op /\ call'.asked = call.asked
    BY <1>1, <1>4, <1>7, <2>1, <2>2 DEF Asks, Answered
  <2>3. CASE call' = NoCall
    <3>1. Asks'
      BY <2>3 DEF Asks, NoCall
    <3>2. pc \in Copied /\ answer'.ok = TRUE /\ Session => answer'.data = card.disk[Target]
      BY <1>4, <2>1, <2>3 DEF Passes, NoCall
    <3> QED
      BY <1>1, <1>3, <1>7, <3>1, <3>2 DEF Answered
  <2> QED
    BY <2>2, <2>3 DEF Passes
<1>9. Goes'
  <2>1. CASE call'.op = call.op /\ call'.asked = call.asked /\ call'.data = call.data
    BY <1>1, <2>1 DEF OwnInv, Goes
  <2>2. CASE call' = NoCall
    BY <2>2 DEF Goes, NoCall
  <2> QED
    BY <2>1, <2>2 DEF Passes
<1>10. Pending'
  <2>1. CASE call'.op = call.op /\ call'.asked = call.asked /\ call'.data = call.data
    <3>1. After' = After
      BY <1>1, <2>1 DEF After
    <3> QED
      BY <1>1, <1>3, <2>1, <3>1 DEF OwnInv, Pending
  <2>2. CASE call' = NoCall
    BY <2>2 DEF Pending, NoCall
  <2> QED
    BY <2>1, <2>2 DEF Passes
<1>11. Landed'
  <2>1. pc = "fat_1" => call.op = "MMC_Write"
    BY <1>4 DEF OwnInv, Goes
  <2>2. CASE call'.op = call.op /\ call'.at # "busy"
    BY <1>1, <1>4, <2>2 DEF Landed
  <2>3. CASE call' = NoCall
    <3>1. pc = "fat_1" /\ answer'.ok = TRUE => call.at = "busy"
      BY <1>4, <2>1, <2>3 DEF Passes, NoCall
    <3>2. Session /\ pc = "fat_1" /\ answer'.ok = TRUE => Marks(card.disk) = fat_buffer
      BY <2>1, <3>1 DEF OwnInv, Landed
    <3> QED
      BY <1>1, <1>3, <2>3, <3>2 DEF Landed, NoCall
  <2> QED
    BY <2>2, <2>3 DEF Passes
<1>12. Creating' /\ Allocated' /\ WalkPlaces'
  BY <1>1, <1>3 DEF OwnInv, Creating, Allocated, WalkPlaces
<1> QED
  BY <1>5, <1>6, <1>8, <1>9, <1>10, <1>11, <1>12 DEF OwnInv

\* A block comes to the card: it is the one on its way, at the sector it is for.
Lands ==
    /\ call.op = "MMC_Write" /\ ~Deaf /\ UNCHANGED CardType /\ UNCHANGED boot_vars
    /\ \E s : /\ (CardType # None /\ Agrees => s = call.asked)
              /\ card'.vol = card.vol /\ card'.disk = [card.disk EXCEPT ![s] = call.data]
    /\ call' = [call EXCEPT !.at = "busy"] /\ UNCHANGED answer

\* The step in which a block lands on the card.
LEMMA LandsOwn ==
    ASSUME IInv, OwnInv, ~BlindWrite, Lands
    PROVE  OwnInv'
<1> USE SdCardAssumption DEF Ops, Types
<1>1. /\ UNCHANGED <<pc, file, walk, fat32, fat_buffer, sector_buffer, new, CardType>>
  BY DEF Lands, boot_vars, volume, machine
<1>2. call'.op = "MMC_Write" /\ call'.at = "busy" /\ call'.asked = call.asked /\ call'.data = call.data
  BY DEF Lands, IInv, Shapes, CallShape
<1>3. pc # "inited" /\ pc' # "inited" /\ pc \notin Copied /\ pc # "fat"
  BY <1>1 DEF Lands, OwnInv, InitPlace, Asks, Copied
<1>4. Session /\ Agrees
  BY <1>3 DEF Lands, Session, BlindWrite, IInv, Known, Begun
<1>5. card'.vol = card.vol /\ card'.disk = After
  BY <1>4 DEF Lands, Session, After
<1>6. Consistent(card.vol, After)
  BY <1>4 DEF OwnInv, Pending, Lands
<1>7. (Consistent(card.vol, card.disk) /\ InitPlace /\ Asks /\ Answered)'
  BY <1>1, <1>2, <1>3, <1>5, <1>6 DEF InitPlace, Asks, Answered
<1>8. card.disk = [s \in Sectors |-> card.disk[s]] /\ FatCopy(1) \in Sectors
  BY Apart DEF OwnInv, Consistent
<1>9. \A s \in Sectors : After[s] = IF s = call.asked THEN call.data ELSE card.disk[s]
  BY <1>8 DEF After
<1>10. Marks(After) = IF pc = "fat_1" THEN fat_buffer ELSE Marks(card.disk)
  BY <1>8, <1>9 DEF Marks, Goes, OwnInv, Lands, Is
<1>11. Buffered'
  <2>1. fat_buffer # None => FatShape(fat_buffer) /\ \A x \in Clusters : Marks(After)[x] # 0 => fat_buffer[x] # 0
    BY <1>4, <1>10 DEF OwnInv, Buffered, Holds
  <2> QED
    BY <1>1, <1>5, <2>1 DEF Buffered, Holds
<1>12. Goes' /\ WalkPlaces'
  BY <1>1, <1>2 DEF OwnInv, Goes, WalkPlaces, Lands
<1>13. Landed'
  BY <1>1, <1>5, <1>10 DEF Landed
<1>14. Pending'
  <2>1. After' = After
    <3> DEFINE a == call.asked d == call.data
    <3>1. After' = [card.disk EXCEPT ![a] = d, ![a] = d]
      BY <1>2, <1>5 DEF After
    <3>2. [card.disk EXCEPT ![a] = d, ![a] = d] = [card.disk EXCEPT ![a] = d]
      BY <1>8
    <3> QED
      BY <3>1, <3>2 DEF After
  <2> QED
    BY <1>5, <1>6, <2>1 DEF Pending
<1>15. Creating'
  <2>1. pc \in {"fat_1", "fat_2"} => call.asked \in FatPlaces
    BY DEF OwnInv, Goes, Lands, FatPlaces
  <2>2. pc \in {"fat_1", "fat_2"} => new.sec # call.asked
    BY <2>1 DEF OwnInv, Creating, Filed
  <2>3. pc \in {"fat_1", "fat_2"} => After[new.sec] = card.disk[new.sec]
    BY <1>8, <2>2 DEF After
  <2> QED
    BY <1>1, <1>3, <1>4, <1>5, <2>3 DEF OwnInv, Creating
<1>16. Allocated'
  <2>1. pc \in {"fat_1", "fat_2"} => call.asked \in FatPlaces
    BY DEF OwnInv, Goes, Lands, FatPlaces
  <2>2. pc \in {"fat_1", "fat_2"} => \A x \in RootSectors(card.vol) : After[x] = card.disk[x]
    BY <1>8, <1>9, <2>1, Apart DEF FatPlaces
  <2>3. pc \in {"fat_1", "fat_2"} => Unowned(card.vol, After, new.cluster)
    BY <1>4, <2>2 DEF OwnInv, Allocated, Unowned
  <2>4. pc = "fat_2" => Marks(After)[new.cluster] # 0
    BY <1>4, <1>10 DEF OwnInv, Allocated
  <2> QED
    BY <1>1, <1>4, <1>5, <2>3, <2>4 DEF OwnInv, Allocated
<1> QED
  BY <1>7, <1>11, <1>12, <1>13, <1>14, <1>15, <1>16 DEF OwnInv

\* The steps of MMC_Read, MMC_GetCSD and MMC_ReadMultiple are such steps.
LEMMA ExchangeStill ==
    ASSUME IInv, UNCHANGED boot_vars,
           \/ \E a : Exchange(a)
           \/ \E mode, by_sector : TokenComes(mode, by_sector)
           \/ \E mode : TokenLost(mode)
           \/ \E m : card' = [card EXCEPT !.mode = m]
           \/ UNCHANGED card
    PROVE  Still
BY DEF IInv, Shapes, CardShape, Exchange, TokenComes, TokenLost, Still

\* A call that goes on to another place.
LEMMA GoesOn ==
    ASSUME IInv, NEW at, Goto(at)
    PROVE  UNCHANGED <<call.op, call.asked, call.data>> /\ call'.at = at
BY DEF IInv, Shapes, CallShape, Goto

\* The steps of MMC_Read are of the first kind ...
LEMMA ReadPasses ==
    ASSUME IInv, OwnInv, MMC_Read, UNCHANGED boot_vars
    PROVE  Passes
<1>1. UNCHANGED CardType /\ call.op \in {"MMC_Read", "MMC_GetCSD"} /\ call.op \in Firmware_ops /\ (Deaf => Deaf')
  BY ReadTransfers DEF MMC_Read, Transfer, Firmware_ops
<1>2. Still
  BY ExchangeStill DEF MMC_Read
<1>3. ASSUME NEW at, at # "busy", Goto(at) PROVE Passes
  BY <1>1, <1>2, <1>3, GoesOn DEF Passes
<1>4. ASSUME Return(FALSE, None) \/ GiveUp PROVE Passes
  BY <1>1, <1>2, <1>4 DEF Passes, Return, GiveUp
<1>5. ASSUME Deliver(Block(CardType = "SDHC")) PROVE Passes
  <2>1. Session => Agrees
    BY <1>1 DEF Session, IInv, Known, Begun
  <2>2. Session => OnCard(CardType = "SDHC", call.asked) = call.asked
    BY <2>1 DEF Session, Agrees, OnCard
  <2>3. call' = NoCall /\ (Session => answer'.data = card.disk[call.asked])
    BY <1>5, <2>2 DEF Deliver, Block
  <2> QED
    BY <1>1, <1>2, <2>3 DEF Passes
<1> QED
  BY <1>3, <1>4, <1>5 DEF MMC_Read

\* ... and so are those of MMC_ReadMultiple.
LEMMA ReadMultiplePasses ==
    ASSUME IInv, OwnInv, MMC_ReadMultiple, UNCHANGED boot_vars
    PROVE  Passes
<1>1. UNCHANGED CardType /\ call.op = "MMC_ReadMultiple" /\ call.op \in Firmware_ops /\ (Deaf => Deaf')
  BY ReadMultipleTransfers DEF MMC_ReadMultiple, Transfer, Firmware_ops
<1>2. Still
  BY ExchangeStill DEF MMC_ReadMultiple, MMC_CMD12
<1>3. ASSUME NEW at, at # "busy", Goto(at) PROVE Passes
  BY <1>1, <1>2, <1>3, GoesOn DEF Passes
<1>4. ASSUME NEW ok, Return(ok, None) \/ GiveUp PROVE Passes
  BY <1>1, <1>2, <1>4 DEF Passes, Return, GiveUp
<1>5. ASSUME NEW at, at # "busy", call' = [call EXCEPT !.left = @ - 1, !.at = at] PROVE Passes
  <2>1. UNCHANGED <<call.op, call.asked, call.data>> /\ call'.at = at
    BY <1>5 DEF IInv, Shapes, CallShape
  <2> QED
    BY <1>1, <1>2, <1>5, <2>1 DEF Passes
<1> QED
  BY <1>3, <1>4, <1>5 DEF MMC_ReadMultiple, MMC_CMD12

\* MMC_Write's are, but for the one that hands the block over.
LEMMA WriteSteps ==
    ASSUME IInv, OwnInv, MMC_Write, UNCHANGED boot_vars
    PROVE  Passes \/ Lands
<1>1. UNCHANGED CardType /\ call.op = "MMC_Write" /\ call.op \in Firmware_ops /\ (Deaf => Deaf')
  BY WriteTransfers DEF MMC_Write, Transfer, Firmware_ops
<1>2. ASSUME NEW at, at # "busy", Goto(at), Still PROVE Passes
  BY <1>1, <1>2, GoesOn DEF Passes
<1>3. ASSUME Return(FALSE, None), Still PROVE Passes
  BY <1>1, <1>3 DEF Passes, Return
<1>4. ASSUME Return(TRUE, None), call.at = "busy", Still PROVE Passes
  BY <1>1, <1>4 DEF Passes, Return
<1>5. ASSUME NEW s, s = OnCard(CardType = "SDHC", call.asked), card.mode = "receive",
             card' = [card EXCEPT !.mode = "busy", !.disk[s] = call.data],
             call' = [call EXCEPT !.at = "busy"], UNCHANGED answer
      PROVE  Lands
  <2>1. card'.vol = card.vol /\ card'.disk = [card.disk EXCEPT ![s] = call.data]
    BY <1>5 DEF IInv, Shapes, CardShape
  <2>2. CardType # None /\ Agrees => s = call.asked
    BY <1>5 DEF Agrees, OnCard
  <2> QED
    BY <1>1, <1>5, <2>1, <2>2 DEF Lands, Deaf
<1>6. CASE call.at = "cmd" /\ \E a \in Replies("CMD24") :
              Exchange(a) /\ IF a.r = "ready" THEN Goto("block") ELSE Return(FALSE, None)
  BY <1>2, <1>3, <1>6, ExchangeStill
<1>7. CASE call.at = "block" /\ Return(FALSE, None)
           /\ IF card.mode = "receive" THEN Slip(1) /\ card' = [card EXCEPT !.mode = "ready"]
              ELSE UNCHANGED <<faults, card>>
  BY <1>3, <1>7, ExchangeStill
<1>8. CASE call.at = "busy" /\ card' = [card EXCEPT !.mode = IF @ = "busy" THEN "ready" ELSE @]
           /\ Return(TRUE, None)
  BY <1>4, <1>8, ExchangeStill
<1>9. CASE call.at = "busy" /\ Return(FALSE, None) /\ UNCHANGED card
  BY <1>3, <1>9, ExchangeStill
<1> QED
  BY <1>5, <1>6, <1>7, <1>8, <1>9 DEF MMC_Write

-----------------------------------------------------------------------------
(* The two programs keep it.                                               *)

\* A step that creates no file: its read is of the sector its place is about,
\* its write leaves the volume in order.
Marking == {"fat", "fat_1", "fat_2"}
Quiet ==
    /\ call.op = None /\ UNCHANGED <<card, CardType>> /\ pc' \notin Marking \cup {"inited"}
    /\ pc # "inited" \/ fat_buffer' = None \/ CardType = None
    /\ fat_buffer' = fat_buffer \/ fat_buffer' = None \/ (Session => Holds(fat_buffer'))
    /\ \/ call' = call /\ pc' \notin Copied
       \/ call'.op \notin {None, "MMC_Init", "MMC_Write"} /\ pc' \notin Copied
       \/ call'.op = "MMC_Read" /\ call'.asked = Target'
       \/ /\ call'.op = "MMC_Write" /\ call'.asked # FatCopy(1) /\ pc # "inited" /\ pc' \notin Copied
          /\ Session => Consistent(card.vol, [card.disk EXCEPT ![call'.asked] = call'.data])
    /\ WalkPlaces'

\* A step of a program that starts no write but those of the data area, and
\* touches neither the FAT in memory nor a place it is about to write to.
LEMMA QuietOwn ==
    ASSUME OwnInv, Quiet
    PROVE  OwnInv'
<1> USE SdCardAssumption DEF Ops, Types
<1>1. card' = card /\ CardType' = CardType /\ pc' # "inited" /\ pc' \notin Marking
  BY DEF Quiet
<1>2. Session' => Session \/ pc = "inited"
  BY <1>1 DEF Session, Deaf
<1>3. (Consistent(card.vol, card.disk) /\ WalkPlaces)'
  BY <1>1 DEF OwnInv, Quiet
<1>4. InitPlace'
  BY <1>1 DEF InitPlace, Quiet
<1>5. Buffered'
  <2>1. Session' /\ fat_buffer' # None => Holds(fat_buffer')
    <3>1. CASE Session /\ fat_buffer' = fat_buffer
      BY <3>1 DEF OwnInv, Buffered
    <3>2. CASE pc = "inited"
      BY <1>1, <3>2 DEF Quiet, Session
    <3> QED
      BY <1>2, <3>1, <3>2 DEF Quiet
  <2> QED
    BY <1>1, <2>1 DEF Buffered, Holds
<1>6. Asks' /\ Answered'
  BY <1>1 DEF Asks, Answered, Quiet
<1>7. Goes' /\ Landed' /\ Creating' /\ Allocated'
  BY <1>1 DEF Goes, Landed, Creating, Allocated, Quiet, Marking
<1>8. Pending'
  <2>1. CASE call'.op = "MMC_Write"
    <3>1. pc # "inited" /\ (Session => Consistent(card.vol, [card.disk EXCEPT ![call'.asked] = call'.data]))
      BY <2>1 DEF Quiet
    <3> QED
      BY <1>1, <1>2, <3>1 DEF Pending, After
  <2>2. CASE call'.op # "MMC_Write"
    BY <2>2 DEF Pending
  <2> QED
    BY <2>1, <2>2
<1> QED
  BY <1>3, <1>4, <1>5, <1>6, <1>7, <1>8 DEF OwnInv

\* The card is initialised again.
LEMMA ColdBootOwn ==
    ASSUME OwnInv, ColdBoot, UNCHANGED <<file, walk>>
    PROVE  OwnInv'
<1> USE SdCardAssumption DEF Ops, Types
<1>1. card' = card /\ pc' = "inited" /\ call'.op = "MMC_Init"
  BY DEF ColdBoot, Start
<1>2. ~Session' /\ InitPlace'
  BY <1>1 DEF Session, InitPlace
<1>3. (Consistent(card.vol, card.disk) /\ WalkPlaces)'
  BY <1>1 DEF OwnInv, WalkPlaces
<1>4. (Buffered /\ Asks /\ Answered /\ Goes /\ Pending /\ Landed /\ Creating /\ Allocated)'
  BY <1>1, <1>2 DEF Buffered, Asks, Answered, Goes, Pending, Landed, Creating, Allocated, Copied
<1> QED
  BY <1>2, <1>3, <1>4 DEF OwnInv

\* The steps of the boot loader.
LEMMA LoaderQuiet ==
    ASSUME IInv, OwnInv, BootLoader
    PROVE  Quiet
<1> USE DEF Start, Load, Jump, At, Copied, Marking
<1>1. /\ UNCHANGED <<file, walk, fat_buffer, card, CardType>> /\ call.op = None
      /\ pc \in Loader /\ pc # "inited"
      /\ pc' \in Loader \cup {"cold"}
      /\ call' = call \/ call'.op \in {"spi_init", "sd_read_sector"}
  <2> USE DEF Loader, Idle, volume
  <2>1. CASE Power
    BY <2>1 DEF Power, BootError
  <2>2. CASE BootInit
    BY <2>2 DEF BootInit, BootError
  <2>3. CASE BootFindDrive
    BY <2>3 DEF BootFindDrive, BootMount, BootError
  <2>4. CASE BootFileOpen
    BY <2>4 DEF BootFileOpen, NextDir, GetCluster, BootError
  <2>5. CASE LoadFile
    BY <2>5 DEF LoadFile, LinkNext, LoadNext, GetCluster, BootError
  <2>6. CASE Enter
    BY <2>6 DEF Enter
  <2> QED
    BY <2>1, <2>2, <2>3, <2>4, <2>5, <2>6 DEF BootLoader
<1>2. pc' \notin Marking \cup {"inited", "walk", "link", "dirlink", "entry"} \cup Copied
  BY <1>1 DEF Loader
<1>3. WalkPlaces'
  BY <1>1, <1>2 DEF OwnInv, WalkPlaces
<1> QED
  BY <1>1, <1>2, <1>3, SdCardAssumption DEF Quiet, Ops

\* What is read as the FAT holds the card's marks.
LEMMA FatRead ==
    ASSUME OwnInv, Session => answer.data = card.disk[FatCopy(1)]
    PROVE  Session => Holds(FatIn(answer.data))
BY DEF OwnInv, Consistent, FatIn, Holds, Marks

\* The file a walk finds, and none.
LEMMA FoundFiled ==
    /\ Filed(NoFile)
    /\ \A e, s, c : Filed([cluster |-> e.cluster, old |-> e.old, slot |-> s,
                           sec |-> IF c = 1 /\ ~fat32 THEN Root(FALSE) ELSE Sector(c)])
<1>1. Wild \notin FatPlaces /\ (\A c : Sector(c) \notin FatPlaces) /\ \A b : Root(b) \notin FatPlaces
  BY Apart DEF FatPlaces, Wild, FatCopy
<1> QED
  BY <1>1 DEF Filed, NoFile

\* The steps of a directory walk are quiet.
LEMMA WalkQuiet ==
    ASSUME IInv, OwnInv, Walking
    PROVE  Quiet
<1> USE SdCardAssumption DEF Ops, Start, Read, Jump, At, Copied, Marking
<1>1. walk.then \in Returns /\ Filed(file)
  BY DEF Walking, WalkRead, WalkLink, OwnInv, WalkPlaces
<1>2. call.op = None /\ pc \in {"walk", "link"} /\ UNCHANGED <<card, CardType, fat32>>
  <2>1. CASE WalkRead
    BY <2>1 DEF WalkRead, Onward, Follow, NotThere, Walked
  <2>2. CASE WalkLink
    BY <2>2 DEF WalkLink, Follow, NotThere, Walked
  <2> QED
    BY <2>1, <2>2 DEF Walking
<1>3. \/ fat_buffer' = fat_buffer
      \/ Session => Holds(fat_buffer')
  <2>1. CASE WalkRead
    BY <2>1 DEF WalkRead
  <2>2. CASE WalkLink /\ Ok
    <3>1. Session => answer.data = card.disk[FatCopy(1)]
      BY <2>2 DEF WalkLink, OwnInv, Answered, Target, Ok
    <3> QED
      BY <2>2, <3>1, FatRead DEF WalkLink
  <2>3. CASE WalkLink /\ ~Ok
    BY <2>3 DEF WalkLink
  <2> QED
    BY <2>1, <2>2, <2>3 DEF Walking
<1>4. ASSUME Jump(walk.then), Filed(file') PROVE Quiet
  BY <1>1, <1>2, <1>3, <1>4 DEF Quiet, WalkPlaces, Returns
<1>5. ASSUME NEW s, Read(s, "walk"), UNCHANGED file, walk'.then = walk.then PROVE Quiet
  BY <1>1, <1>2, <1>3, <1>5 DEF Quiet, WalkPlaces
<1>6. ASSUME Read(FatCopy(1), "link"), UNCHANGED <<file, walk>> PROVE Quiet
  BY <1>1, <1>2, <1>3, <1>6 DEF Quiet, WalkPlaces, Target
<1>7. ASSUME NotThere PROVE Quiet
  BY <1>1, <1>4, <1>7, FoundFiled DEF NotThere, Walked
<1>8. ASSUME NEW c, Follow(c) PROVE Quiet
  <2>1. CASE c = EOC
    BY <1>7, <1>8, <2>1 DEF Follow
  <2>2. CASE c # EOC
    <3>1. walk' = [walk EXCEPT !.cluster = c] /\ walk'.then = walk.then
      BY <1>8, <2>2 DEF Follow, IInv, Shapes, WalkShape
    <3> QED
      BY <1>5, <1>8, <2>2, <3>1 DEF Follow
  <2> QED
    BY <2>1, <2>2
<1>9. CASE WalkRead
  <2>1. ASSUME Onward PROVE Quiet
    BY <1>6, <1>7, <1>8, <2>1 DEF Onward
  <2>2. ASSUME NEW x, Walked(x), Filed(file') PROVE Quiet
    BY <1>4, <2>2 DEF Walked
  <2> QED
    BY <1>1, <1>9, <2>1, <2>2, FoundFiled DEF WalkRead
<1>10. CASE WalkLink
  BY <1>8, <1>10 DEF WalkLink
<1> QED
  BY <1>9, <1>10 DEF Walking

\* A read of no matter what, a walk and a jump, by where they go.
Elsewhere == Copied \cup Marking \cup {"inited", "walk", "entry"}
Common == /\ call.op = None /\ pc # "inited" /\ UNCHANGED <<card, CardType, fat32>> /\ Filed(file')
          /\ fat_buffer' = fat_buffer \/ (Session => Holds(fat_buffer'))

\* So is a read of anything, on the way to a place where nothing is made of it,
LEMMA ReadQuiet ==
    ASSUME Common, NEW s, NEW then, then \notin Elsewhere, Read(s, then)
    PROVE  Quiet
BY SdCardAssumption DEF Common, Read, Start, Quiet, WalkPlaces, Elsewhere, Copied, Marking, Ops

\* a jump to such a place,
LEMMA JumpQuiet ==
    ASSUME Common, NEW then, then \notin Elsewhere, Jump(then)
    PROVE  Quiet
BY DEF Common, Jump, Quiet, WalkPlaces, Elsewhere, Copied, Marking

\* and the start of a walk.
LEMMA WalksQuiet ==
    ASSUME Common, NEW name, NEW dir, NEW from, NEW then \in Returns, Walk(name, dir, from, then)
    PROVE  Quiet
BY SdCardAssumption DEF Common, Walk, Read, Start, Quiet, WalkPlaces, Copied, Marking, Ops

\* A file stays filed.
LEMMA StaysFiled ==
    ASSUME NEW f, Filed(f), NEW c, NEW b
    PROVE  /\ Filed([f EXCEPT !.cluster = c]) /\ Filed([f EXCEPT !.old = b])
           /\ [f EXCEPT !.cluster = c].cluster = c /\ [f EXCEPT !.cluster = c].sec = f.sec
<1>1. f = [cluster |-> f.cluster, old |-> f.old, sec |-> f.sec, slot |-> f.slot]
  BY DEF Filed
<1>2. DOMAIN f = {"cluster", "old", "sec", "slot"}
  BY <1>1
<1>3. [f EXCEPT !.cluster = c] = [cluster |-> c, old |-> f.old, sec |-> f.sec, slot |-> f.slot]
  BY <1>1
<1>4. [f EXCEPT !.old = b] = [cluster |-> f.cluster, old |-> b, sec |-> f.sec, slot |-> f.slot]
  BY <1>1
<1> QED
  BY <1>3, <1>4 DEF Filed

\* UploadKickstart is made of those.
LEMMA KickstartQuiet ==
    ASSUME IInv, OwnInv, NEW n \in 1..2, UploadKickstart(n)
    PROVE  Quiet
<1>1. /\ Try(n, "valid") \in Returns /\ Try(n, "key") \in Returns /\ Try(n, "rom") \in Returns
      /\ Try(n, "again") \in Returns
      /\ \A l \in {"up", "first", "second"} : Try(n, l) \notin Elsewhere
      /\ \A l \in {"kick", "up", "valid", "key", "rom", "first", "again", "second"} : Try(n, l) # "inited"
  <2>1. CASE n = 1
    BY <2>1 DEF Try, Tries, Returns, Elsewhere, Copied, Marking
  <2>2. CASE n = 2
    BY <2>2 DEF Try, Tries, Returns, Elsewhere, Copied, Marking
  <2> QED
    BY <2>1, <2>2
<1>2. Filed(file) /\ Filed(file')
  <2>1. Filed(file)
    BY DEF OwnInv, WalkPlaces
  <2>2. Filed([file EXCEPT !.cluster = EOC])
    BY <2>1, StaysFiled
  <2>3. UNCHANGED file \/ file' = [file EXCEPT !.cluster = EOC]
    BY DEF UploadKickstart
  <2> QED
    BY <2>1, <2>2, <2>3
<1>3. Common
  <2>1. call.op = None /\ pc # "inited"
    BY <1>1 DEF UploadKickstart, At
  <2>2. UNCHANGED <<fat32, fat_buffer>>
    BY DEF UploadKickstart, volume
  <2>3. UNCHANGED <<card, CardType>>
    BY KickstartCalls DEF Caller
  <2> QED
    BY <1>2, <2>1, <2>2, <2>3 DEF Common
<1>4. ASSUME KickFails(n) \/ KickMissing(n) PROVE Quiet
  BY <1>3, <1>4, JumpQuiet DEF KickFails, KickMissing, Elsewhere, Copied, Marking
<1>5. ASSUME NEW name, NEW from, NEW then \in Returns, FileOpen(name, from, then) PROVE Quiet
  BY <1>3, <1>5, WalksQuiet DEF FileOpen
<1>6. "ext_1" \in Returns
  BY DEF Returns
<1> QED
  BY <1>1, <1>3, <1>4, <1>5, <1>6, ReadQuiet, WalksQuiet DEF UploadKickstart

\* The steps of ColdBoot after MMC_Init.
LEMMA ColdBootQuiet ==
    ASSUME IInv, OwnInv, ColdBoots, ~Cold
    PROVE  Quiet
<1>1. Filed(file)
  BY DEF OwnInv, WalkPlaces
<1>2. CASE Inited
  <2>1. call.op = None /\ UNCHANGED <<file, walk, fat32, card, CardType>> /\ pc = "inited"
    BY <1>2 DEF Inited, At, Kept, Read, Start, Jump
  <2>2. fat_buffer' = None \/ CardType = None
    BY <1>2, <2>1 DEF Inited, OwnInv, InitPlace, Ok
  <2>3. fat_buffer' = fat_buffer \/ fat_buffer' = None
    BY <1>2 DEF Inited
  <2>4. pc' \in {"mbr", "main"} /\ (call' = call \/ call'.op = "MMC_Read")
    BY <1>2 DEF Inited, Read, Start, Jump
  <2>5. WalkPlaces'
    BY <1>1, <2>1, <2>4 DEF WalkPlaces
  <2> QED
    BY <2>1, <2>2, <2>3, <2>4, <2>5, SdCardAssumption DEF Quiet, Copied, Marking, Ops
<1> DEFINE Rest == FindDrive \/ LoadConfiguration \/ HardfilesOpen \/ UploadActionReplay \/ Release
<1>3. CASE FindDrive
  <2> DEFINE Steps == UNCHANGED <<card, CardType>> /\ pc' \in {"main", "vbr", "mounted"}
                      /\ (call' = call \/ call'.op = "MMC_Read")
  <2>a. ASSUME NEW then \in {"main", "mounted"}, Jump(then) PROVE Steps
    BY <2>a DEF Jump
  <2>b. ASSUME NEW s, Read(s, "vbr") PROVE Steps
    BY <2>b DEF Read, Start
  <2>c. (\E then \in {"main", "mounted"} : Jump(then)) \/ (\E s : Read(s, "vbr"))
    BY ONLY <1>3 DEF FindDrive, NoVolume
  <2>d. UNCHANGED <<file, walk, fat_buffer>> /\ call.op = None /\ pc # "inited"
    BY <1>3 DEF FindDrive, At, Kept
  <2>1. UNCHANGED <<file, walk, fat_buffer, card, CardType>> /\ call.op = None /\ pc # "inited"
        /\ pc' \in {"main", "vbr", "mounted"} /\ (call' = call \/ call'.op = "MMC_Read")
    BY <2>a, <2>b, <2>c, <2>d
  <2>2. WalkPlaces'
    BY <1>1, <2>1 DEF WalkPlaces
  <2> QED
    BY <2>1, <2>2, SdCardAssumption DEF Quiet, Copied, Marking, Ops
<1>4. ASSUME NEW name, NEW from, NEW then \in Returns, Common, FileOpen(name, from, then) PROVE Quiet
  BY <1>4, WalksQuiet DEF FileOpen
<1>5. CASE LoadConfiguration
  <2>1. Common
    BY <1>1, <1>5 DEF LoadConfiguration, At, Common, volume, Kept, Read, Start, FileOpen, Walk
  <2>2. "config" \in Returns /\ "sounds" \in Returns /\ "settings" \notin Elsewhere
    BY DEF Returns, Elsewhere, Copied, Marking
  <2> QED
    BY <1>4, <1>5, <2>1, <2>2, ReadQuiet DEF LoadConfiguration
<1>6. CASE HardfilesOpen
  <2>1. Common
    BY <1>1, <1>6 DEF HardfilesOpen, At, Common, volume, Kept, Read, Start, FileOpen, Walk
  <2>2. "hdf0" \in Returns /\ "hrtmon" \in Returns
    BY DEF Returns
  <2>3. ASSUME Start("MMC_GetCSD", "cmd", Mbr, 1, None), pc' = "hdf1" PROVE Quiet
    BY <2>1, <2>3, SdCardAssumption DEF Common, Start, Quiet, WalkPlaces, Copied, Marking, Ops
  <2> QED
    BY <1>4, <1>6, <2>1, <2>2, <2>3 DEF HardfilesOpen
<1>7. CASE UploadActionReplay
  <2>a. Filed([file EXCEPT !.cluster = EOC])
    BY <1>1, StaysFiled
  <2>b. UNCHANGED file \/ file' = [file EXCEPT !.cluster = EOC]
    BY <1>7 DEF UploadActionReplay
  <2>1. Filed(file')
    BY <1>1, <2>a, <2>b
  <2>2. Common
    BY <1>7, <2>1 DEF UploadActionReplay, At, Common, volume, Read, Start, Jump
  <2>3. "monitor" \notin Elsewhere /\ "kick_1" \notin Elsewhere
    BY DEF Elsewhere, Copied, Marking
  <2> QED
    BY <1>7, <2>2, <2>3, ReadQuiet, JumpQuiet DEF UploadActionReplay
<1>8. ASSUME NEW n \in 1..2, UploadKickstart(n) PROVE Quiet
  BY <1>8, KickstartQuiet
<1>9. CASE Release
  <2>1. Common
    BY <1>1, <1>9 DEF Release, At, Common, volume, Kept, Jump, Read, Start, FileOpen, Walk
  <2>2. "ext_2" \in Returns /\ "main" \notin Elsewhere
    BY DEF Returns, Elsewhere, Copied, Marking
  <2> QED
    BY <1>4, <1>9, <2>1, <2>2, JumpQuiet DEF Release
<1> QED
  BY <1>2, <1>3, <1>5, <1>6, <1>7, <1>8, <1>9 DEF ColdBoots

\* A write that leaves the volume in order.
LEMMA WriteQuiet ==
    ASSUME Common, NEW s, NEW data, NEW then, then \notin Elsewhere, Write(s, data, then), s # FatCopy(1),
           Session => Consistent(card.vol, [card.disk EXCEPT ![s] = data])
    PROVE  Quiet
BY SdCardAssumption DEF Common, Write, Start, Quiet, WalkPlaces, Elsewhere, Copied, Marking, Ops

\* A configuration, wherever it is written, makes no entries.
LEMMA ConfigQuiet ==
    ASSUME OwnInv, Common, NEW f, WriteConfig(f)
    PROVE  Quiet
<1>1. EntriesIn(Config) = NoDir /\ DirShape(NoDir)
  BY DEF EntriesIn, Config, Is, NoDir, DirShape
<1>2. \A s \in Slots : ~UsedIn(Config, s)
  BY <1>1 DEF UsedIn, NoDir
<1>3. Sector(f.cluster) # FatCopy(1)
  BY Apart
<1>4. Consistent(card.vol, [card.disk EXCEPT ![Sector(f.cluster)] = Config])
  BY <1>1, <1>2, <1>3, EntryKeeps DEF OwnInv
<1>5. "saved" \notin Elsewhere
  BY DEF Elsewhere, Copied, Marking
<1> QED
  BY <1>3, <1>4, <1>5, WriteQuiet DEF WriteConfig

\* It fails, or is done.
LEMMA DoneQuiet ==
    ASSUME Common, Done
    PROVE  Quiet
<1>1. "main" \notin Elsewhere
  BY DEF Elsewhere, Copied, Marking
<1> QED
  BY <1>1, JumpQuiet DEF Done

\* An entry gets the new size.
LEMMA SizeShape ==
    ASSUME NEW e, EntryShape(e), NEW b
    PROVE  [e EXCEPT !.old = b] = [name |-> e.name, cluster |-> e.cluster, old |-> b, dir |-> e.dir]
BY DEF EntryShape

\* Giving an entry its new size changes no cluster.
LEMMA SizeKeeps ==
    ASSUME NEW v, DirShape(v), NEW t, v[t] # None
    PROVE  LET w == [v EXCEPT ![t].old = FALSE] IN
           DirShape(w) /\ \A s \in Slots : v[s] # None => w[s].name = v[s].name /\ w[s].cluster = v[s].cluster
<1> DEFINE w == [v EXCEPT ![t].old = FALSE]
           r == [v[t] EXCEPT !.old = FALSE]
<1>1. v = [s \in Slots |-> v[s]] /\ \A s \in Slots : v[s] # None => EntryShape(v[s])
  BY DEF DirShape
<1>2. w = [s \in Slots |-> IF s = t THEN r ELSE v[s]]
  BY <1>1
<1>3. t \in Slots => r = [name |-> v[t].name, cluster |-> v[t].cluster, old |-> FALSE, dir |-> v[t].dir]
  BY <1>1, SizeShape
<1> HIDE DEF w, r
<1>4. t \in Slots => r.name = v[t].name /\ r.cluster = v[t].cluster /\ EntryShape(r)
  BY <1>3 DEF EntryShape
<1>5. w = [s \in Slots |-> w[s]]
  BY <1>2
<1>6. \A s \in Slots : w[s] = IF s = t THEN r ELSE v[s]
  BY <1>2
<1>7. DirShape(w)
  BY <1>1, <1>4, <1>5, <1>6 DEF DirShape
<1> QED
  BY <1>1, <1>4, <1>6, <1>7 DEF w
\* What UpdateEntry writes fits the directory it has read.
LEMMA UpdateFits ==
    ASSUME OwnInv, Session, NEW t, NEW a, a # FatCopy(1), EntriesIn(card.disk[a])[t] # None
    PROVE  Consistent(card.vol, [card.disk EXCEPT ![a] = Is("dir", [EntriesIn(card.disk[a]) EXCEPT ![t].old = FALSE])])
<1> DEFINE v == EntriesIn(card.disk[a])
           w == [v EXCEPT ![t].old = FALSE]
<1>1. Consistent(card.vol, card.disk)
  BY DEF OwnInv
<1>2. EntriesIn(Is("dir", w)) = w
  BY DEF EntriesIn, Is
<1>3. ASSUME a \in RootSectors(card.vol)
      PROVE  /\ DirShape(w)
             /\ \A s \in Slots : w[s] # None /\ w[s].name # "other" => KeptIn(card.disk[a], Is("dir", w), s)
  <2>1. DirShape(v)
    BY <1>1, <1>3 DEF Consistent
  <2>2. DirShape(w) /\ \A s \in Slots : v[s] # None => w[s].name = v[s].name /\ w[s].cluster = v[s].cluster
    BY <2>1, SizeKeeps
  <2>3. \A s \in Slots : w[s] # None => v[s] # None
    <3>1. v = [s \in Slots |-> v[s]]
      BY <2>1 DEF DirShape
    <3>2. \A s \in Slots : s # t => w[s] = v[s]
      BY <3>1
    <3> HIDE DEF w, v
    <3> QED
      BY <3>2 DEF v
  <2> HIDE DEF w
  <2> QED
    BY <1>2, <2>2, <2>3 DEF KeptIn, UsedIn, ClusterIn
<1> HIDE DEF w
<1>4. Consistent(card.vol, [card.disk EXCEPT ![a] = Is("dir", w)])
  BY <1>1, <1>2, <1>3, EntryKeeps DEF UsedIn
<1> QED
  BY <1>4 DEF w

\* SaveConfiguration with the file found or not, and UpdateEntry.
LEMMA SaveOpenedQuiet ==
    ASSUME IInv, OwnInv, SaveOpened
    PROVE  Quiet
<1>1. Common /\ UNCHANGED file
  BY DEF SaveOpened, SaveKeeps, At, OwnInv, WalkPlaces, Common, Read, WriteConfig, Write, Start
<1>2. CASE Read(file.sec, "update")
  BY <1>1, <1>2, SdCardAssumption DEF Common, Read, Start, Quiet, WalkPlaces, Target, Copied, Marking, Ops
<1>3. CASE Read(Root(fat32), "dir") /\ walk' = [walk EXCEPT !.cluster = 1]
  <2>1. walk'.cluster = 1
    BY <1>3 DEF IInv, Shapes, WalkShape
  <2> QED
    BY <1>1, <1>3, <2>1, SdCardAssumption
       DEF Common, Read, Start, Quiet, WalkPlaces, Target, DirSector, Copied, Marking, Ops
<1> QED
  BY <1>1, <1>2, <1>3, ConfigQuiet DEF SaveOpened

\* UpdateEntry.
LEMMA UpdateEntryQuiet ==
    ASSUME IInv, OwnInv, UpdateEntry
    PROVE  Quiet
<1>1. Filed(file) /\ Filed(file')
  <2>1. Filed(file)
    BY DEF OwnInv, WalkPlaces
  <2>2. Filed([file EXCEPT !.old = FALSE])
    BY <2>1, StaysFiled
  <2> QED
    BY <2>1, <2>2 DEF UpdateEntry
<1>2. Common
  BY <1>1 DEF UpdateEntry, SaveKeeps, At, Common, Fails, Done, Jump, WriteConfig, Write, Start
<1>3. ASSUME At("update"), Ok, EntriesIn(answer.data)[file.slot] # None,
             Write(file.sec, Is("dir", [EntriesIn(answer.data) EXCEPT ![file.slot].old = FALSE]), "updated")
      PROVE  Quiet
  <2>1. Session => answer.data = card.disk[file.sec]
    BY <1>3 DEF OwnInv, Answered, Target, Copied, At, Ok
  <2>2. file.sec # FatCopy(1)
    BY <1>1 DEF Filed, FatPlaces
  <2>3. Session => Consistent(card.vol, [card.disk EXCEPT ![file.sec] =
                                  Is("dir", [EntriesIn(answer.data) EXCEPT ![file.slot].old = FALSE])])
    BY <1>3, <2>1, <2>2, UpdateFits
  <2>4. "updated" \notin Elsewhere
    BY DEF Elsewhere, Copied, Marking
  <2> QED
    BY <1>2, <1>3, <2>2, <2>3, <2>4, WriteQuiet
<1> QED
  BY <1>2, <1>3, ConfigQuiet, DoneQuiet DEF UpdateEntry, Fails

\* The steps that mark a cluster.  What they leave alone.
Keeping == call.op = None /\ pc # "inited" /\ UNCHANGED <<card, CardType, file, walk, fat32>>

\* Allocate with a free cluster.
LEMMA AllocateOwn ==
    ASSUME OwnInv, Keeping, NEW fat, NEW n, Allocate(fat, n), FreeIn(fat) # {},
           Filed(n), Session => Holds(fat) /\ sector_buffer' = EntriesIn(card.disk[n.sec])
    PROVE  OwnInv'
<1> USE SdCardAssumption DEF Ops, Types
<1> DEFINE c == Lowest(FreeIn(fat))
           marked == [fat EXCEPT ![c] = EOC]
<1>1. c \in Clusters /\ fat[c] = 0
  <2>1. FreeIn(fat) \subseteq Nat
    BY Numbers DEF FreeIn
  <2>2. c \in FreeIn(fat)
    BY <2>1, LowestIn
  <2> QED
    BY <2>2 DEF FreeIn
<1>2. /\ fat_buffer' = marked /\ new' = [n EXCEPT !.cluster = c]
      /\ Write(FatCopy(1), Is("fat", marked), "fat_1")
  BY DEF Allocate
<1> HIDE DEF c
<1>3. Filed(new') /\ new'.cluster = c /\ new'.sec = n.sec
  BY <1>2, StaysFiled
<1>4. Session => /\ FatShape(marked) /\ marked[c] # 0
                 /\ \A x \in Clusters : Marks(card.disk)[x] # 0 => marked[x] # 0
  <2>1. CASE Session
    <3>1. fat = [x \in {0} \cup Clusters |-> fat[x]]
      BY <2>1 DEF Holds, FatShape
    <3>2. \A x \in {0} \cup Clusters : marked[x] = IF x = c THEN EOC ELSE fat[x]
      BY <1>1, <3>1
    <3>3. FatShape(marked)
      BY <3>1 DEF FatShape
    <3> HIDE DEF marked
    <3> QED
      BY <1>1, <2>1, <3>2, <3>3, Numbers DEF Holds
  <2> QED
    BY <2>1
<1> HIDE DEF marked
<1>5. Session => Unowned(card.vol, card.disk, c)
  <2>1. Session => Marks(card.disk)[c] = 0
    BY <1>1 DEF Holds
  <2> QED
    BY <2>1 DEF OwnInv, Consistent, OwnCluster, Unowned
<1>6. /\ card' = card /\ CardType' = CardType /\ pc' = "fat_1" /\ call'.op = "MMC_Write" /\ call'.at = "cmd"
      /\ call'.asked = FatCopy(1) /\ call'.data = Is("fat", marked) /\ file' = file /\ walk' = walk
  BY <1>2 DEF Write, Start, Keeping
<1>7. Session' => Session
  BY <1>6 DEF Session, Deaf, Keeping
<1>8. (Consistent(card.vol, card.disk) /\ InitPlace /\ Asks /\ Answered /\ Goes /\ Landed)'
  BY <1>2, <1>6 DEF OwnInv, InitPlace, Asks, Answered, Goes, Landed, Copied
<1>9. WalkPlaces'
  BY <1>6 DEF OwnInv, WalkPlaces
<1>10. Buffered'
  BY <1>2, <1>4, <1>6, <1>7 DEF Buffered, Holds
<1>11. Pending'
  <2>1. Session => Consistent(card.vol, [card.disk EXCEPT ![FatCopy(1)] = Is("fat", marked)])
    BY <1>4, MarkKeeps DEF OwnInv
  <2> QED
    BY <1>6, <1>7, <2>1 DEF Pending, After
<1>12. Creating' /\ Allocated'
  BY <1>1, <1>2, <1>3, <1>4, <1>5, <1>6, <1>7 DEF Creating, Allocated
<1> QED
  BY <1>8, <1>9, <1>10, <1>11, <1>12 DEF OwnInv

\* ... with none, and what it is called with.
LEMMA AllocateKeeps ==
    ASSUME OwnInv, Keeping, NEW fat, NEW n, Allocate(fat, n),
           Filed(n), Session => sector_buffer' = EntriesIn(card.disk[n.sec]), Session => Holds(fat)
    PROVE  OwnInv'
<1>1. CASE FreeIn(fat) # {}
  BY <1>1, AllocateOwn
<1>2. CASE FreeIn(fat) = {}
  <2>1. WriteConfig(file) /\ Common
    BY <1>2 DEF Allocate, Keeping, Common, OwnInv, WalkPlaces
  <2> QED
    BY <2>1, ConfigQuiet, QuietOwn
<1> QED
  BY <1>1, <1>2

\* The search goes on, in the sector it asks for.
LEMMA FollowQuiet ==
    ASSUME IInv, OwnInv, Common, UNCHANGED file, fat32, NEW c, CreateFollow(c)
    PROVE  Quiet
<1>1. CASE c = EOC
  BY <1>1, DoneQuiet DEF CreateFollow
<1>2. CASE c # EOC
  <2>1. Read(Sector(c), "dir") /\ walk'.cluster = c
    BY <1>2 DEF CreateFollow, IInv, Shapes, WalkShape
  <2>2. Target' = Sector(c)
    BY <2>1 DEF Target, DirSector, Root, Common, Read
  <2> QED
    BY <2>1, <2>2, SdCardAssumption DEF Common, Read, Start, Quiet, WalkPlaces, Copied, Marking, Ops
<1> QED
  BY <1>1, <1>2

\* The place of a new file.
LEMMA PlaceFiled ==
    ASSUME NEW f, Filed(f), NEW s, s \notin FatPlaces, NEW t
    PROVE  Filed([f EXCEPT !.sec = s, !.slot = t]) /\ [f EXCEPT !.sec = s, !.slot = t].sec = s
<1>1. f = [cluster |-> f.cluster, old |-> f.old, sec |-> f.sec, slot |-> f.slot]
  BY DEF Filed
<1> DEFINE g == [f EXCEPT !.sec = s]
           h == [g EXCEPT !.slot = t]
<1>2. g = [cluster |-> f.cluster, old |-> f.old, sec |-> s, slot |-> f.slot]
  BY <1>1
<1> HIDE DEF g
<1>3. g.cluster = f.cluster /\ g.old = f.old /\ g.sec = s /\ g = [cluster |-> g.cluster, old |-> g.old, sec |-> g.sec, slot |-> g.slot]
  BY <1>2
<1>4. h = [cluster |-> g.cluster, old |-> g.old, sec |-> g.sec, slot |-> t]
  BY <1>3
<1>5. Filed(h) /\ h.sec = s
  BY <1>3, <1>4 DEF Filed
<1>6. [f EXCEPT !.sec = s, !.slot = t] = h
  BY DEF g
<1> QED
  BY <1>5, <1>6

\* FileCreate's search of the directory.
LEMMA FindEntryOwn ==
    ASSUME IInv, OwnInv, FindEntry
    PROVE  OwnInv'
<1>1. call.op = None /\ pc \in {"dir", "dirlink"} /\ UNCHANGED <<file, fat32>> /\ Filed(file)
  BY DEF FindEntry, At, SaveKeeps, OwnInv, WalkPlaces
<1>2. UNCHANGED <<card, CardType>>
  BY SaveCalls DEF Saving, Caller
<1>3. Session /\ Ok => answer.data = card.disk[Target]
  BY <1>1 DEF OwnInv, Answered, Copied, Ok
<1>4. ASSUME UNCHANGED fat_buffer PROVE Common
  BY <1>1, <1>2, <1>4 DEF Common
<1>5. CASE At("dir") /\ ~Ok /\ Fails /\ UNCHANGED fat_buffer
  BY <1>4, <1>5, DoneQuiet, QuietOwn DEF Fails
<1>6. CASE /\ At("dir") /\ Ok /\ EmptyIn(answer.data) # {} /\ UNCHANGED walk
           /\ sector_buffer' = EntriesIn(answer.data)
           /\ LET n == [NoFile EXCEPT !.sec = DirSector, !.slot = Lowest(EmptyIn(answer.data))] IN
              IF fat_buffer = None THEN Read(FatCopy(1), "fat") /\ new' = n /\ UNCHANGED fat_buffer
              ELSE Allocate(fat_buffer, n)
  <2> DEFINE n == [NoFile EXCEPT !.sec = DirSector, !.slot = Lowest(EmptyIn(answer.data))]
  <2>1. Filed(n) /\ n.sec = DirSector
    <3>1. DirSector \notin FatPlaces
      BY Apart DEF DirSector, FatPlaces
    <3>2. Filed(NoFile)
      BY FoundFiled
    <3> QED
      BY <3>1, <3>2, PlaceFiled
  <2>2. Session => sector_buffer' = EntriesIn(card.disk[n.sec])
    BY <1>3, <1>6, <2>1 DEF Target, At
  <2> HIDE DEF n
  <2>3. CASE fat_buffer # None
    <3>1. Allocate(fat_buffer, n)
      BY <1>6, <2>3 DEF n
    <3>2. Session => Holds(fat_buffer)
      BY <2>3 DEF OwnInv, Buffered
    <3>3. Keeping
      BY <1>1, <1>2, <1>6 DEF Keeping
    <3> QED
      BY <2>1, <2>2, <3>1, <3>2, <3>3, AllocateKeeps
  <2>4. CASE fat_buffer = None
    <3>1. Read(FatCopy(1), "fat") /\ new' = n /\ UNCHANGED fat_buffer
      BY <1>6, <2>4 DEF n
    <3> USE SdCardAssumption DEF Ops, Types
    <3>2. /\ card' = card /\ CardType' = CardType /\ pc' = "fat" /\ call'.op = "MMC_Read"
          /\ call'.asked = FatCopy(1) /\ file' = file /\ new' = n
      BY <1>1, <1>2, <3>1 DEF Read, Start
    <3>3. Session' => Session
      BY <1>1, <3>2 DEF Session, Deaf
    <3>4. (Consistent(card.vol, card.disk) /\ InitPlace /\ Asks /\ Answered /\ Goes /\ Pending /\ Landed /\ Allocated)'
      BY <3>2 DEF OwnInv, InitPlace, Asks, Answered, Goes, Pending, Landed, Allocated, Copied, Target
    <3>5. WalkPlaces'
      BY <3>2 DEF OwnInv, WalkPlaces
    <3>6. Buffered'
      BY <3>1, <3>2, <3>3 DEF OwnInv, Buffered, Holds
    <3>7. Creating'
      BY <2>1, <2>2, <3>2, <3>3 DEF Creating
    <3> QED
      BY <3>4, <3>5, <3>6, <3>7 DEF OwnInv
  <2> QED
    BY <2>3, <2>4
<1>7. CASE fat32 /\ Read(FatCopy(1), "dirlink") /\ UNCHANGED <<walk, fat_buffer>>
  <2>1. Quiet
    BY <1>1, <1>4, <1>7, SdCardAssumption
       DEF Common, Read, Start, Quiet, WalkPlaces, Target, Copied, Marking, Ops
  <2> QED
    BY <2>1, QuietOwn
<1>8. CASE ~fat32 /\ CreateFollow(EOC) /\ UNCHANGED fat_buffer
  BY <1>4, <1>8, DoneQuiet, QuietOwn DEF CreateFollow
<1>9. CASE fat32 /\ UNCHANGED fat_buffer /\ \E c : CreateFollow(c)
  BY <1>1, <1>4, <1>9, FollowQuiet, QuietOwn
<1>10. CASE At("dirlink") /\ Ok /\ fat_buffer' = FatIn(answer.data) /\ \E c : CreateFollow(c)
  <2>1. Session => answer.data = card.disk[FatCopy(1)]
    BY <1>3, <1>10 DEF Target, At
  <2>2. Common
    BY <1>1, <1>2, <1>10, <2>1, FatRead DEF Common
  <2>3. fat32
    BY <1>10 DEF OwnInv, WalkPlaces, At
  <2> QED
    BY <1>1, <1>10, <2>2, <2>3, FollowQuiet, QuietOwn
<1>11. CASE At("dirlink") /\ ~Ok /\ UNCHANGED fat_buffer /\ CreateFollow(0)
  <2>1. fat32
    BY <1>11 DEF OwnInv, WalkPlaces, At
  <2> QED
    BY <1>1, <1>4, <1>11, <2>1, FollowQuiet, QuietOwn
<1> QED
  BY <1>5, <1>6, <1>7, <1>8, <1>9, <1>10, <1>11 DEF FindEntry

\* The FAT's other copy is written: the marked cluster is marked on the card.
LEMMA SecondCopyOwn ==
    ASSUME OwnInv, At("fat_1"), Ok, Keeping, UNCHANGED <<fat_buffer, sector_buffer, new>>,
           NEW data, Write(FatCopy(2), data, "fat_2")
    PROVE  OwnInv'
<1> USE SdCardAssumption DEF Ops, Types
<1>1. /\ card' = card /\ CardType' = CardType /\ pc = "fat_1" /\ pc' = "fat_2" /\ call'.op = "MMC_Write"
      /\ call'.asked = FatCopy(2) /\ call'.data = data /\ file' = file /\ new' = new /\ walk' = walk
      /\ fat_buffer' = fat_buffer /\ sector_buffer' = sector_buffer
  BY DEF Write, Start, Keeping, At
<1>2. Session' => Session
  BY <1>1 DEF Session, Deaf
<1>3. Session => Marks(card.disk) = fat_buffer
  BY <1>1 DEF OwnInv, Landed, At, Ok
<1>4. FatCopy(2) # FatCopy(1) /\ FatCopy(2) \notin RootSectors(card.vol)
  BY Apart
<1>5. (Consistent(card.vol, card.disk) /\ InitPlace /\ Asks /\ Answered /\ Goes /\ Landed)'
  BY <1>1, <1>4 DEF OwnInv, InitPlace, Asks, Answered, Goes, Landed, Copied
<1>6. Buffered' /\ WalkPlaces'
  BY <1>1, <1>2 DEF OwnInv, Buffered, Holds, WalkPlaces
<1>7. Pending'
  <2>1. Consistent(card.vol, [card.disk EXCEPT ![FatCopy(2)] = data])
    BY <1>4, EntryKeeps DEF OwnInv
  <2> QED
    BY <1>1, <2>1 DEF Pending, After
<1>8. Creating' /\ Allocated'
  BY <1>1, <1>2, <1>3 DEF OwnInv, Creating, Allocated
<1> QED
  BY <1>5, <1>6, <1>7, <1>8 DEF OwnInv

\* The entry, in the sector that was read for it.
LEMMA NewEntryFits ==
    ASSUME OwnInv, Session, pc = "fat_2"
    PROVE  Consistent(card.vol, [card.disk EXCEPT ![new.sec] = NewEntry])
<1> DEFINE v == EntriesIn(card.disk[new.sec])
           e == Entry(walk.name, new.cluster)
           w == [v EXCEPT ![new.slot] = e]
<1>1. Consistent(card.vol, card.disk) /\ sector_buffer = v /\ new.sec # FatCopy(1)
      /\ new.cluster \in Clusters /\ Marks(card.disk)[new.cluster] # 0
      /\ Unowned(card.vol, card.disk, new.cluster)
  BY DEF OwnInv, Creating, Allocated, Filed, FatPlaces
<1>2. NewEntry = Is("dir", w)
  BY <1>1 DEF NewEntry
<1>3. EntriesIn(Is("dir", w)) = w
  BY DEF EntriesIn, Is
<1>4. e.cluster = new.cluster /\ EntryShape(e)
  BY DEF Entry, EntryShape
<1>5. ASSUME new.sec \in RootSectors(card.vol)
      PROVE  DirShape(w) /\ \A s \in Slots : w[s] = IF s = new.slot THEN e ELSE v[s]
  <2>1. v = [s \in Slots |-> v[s]] /\ \A s \in Slots : v[s] # None => EntryShape(v[s])
    BY <1>1, <1>5 DEF Consistent, DirShape
  <2> HIDE DEF e, v
  <2>2. w = [s \in Slots |-> w[s]] /\ \A s \in Slots : w[s] = IF s = new.slot THEN e ELSE v[s]
    BY <2>1
  <2> HIDE DEF w
  <2> QED
    BY <1>4, <2>1, <2>2 DEF DirShape
<1> HIDE DEF w, e
<1>6. ASSUME new.sec \in RootSectors(card.vol), NEW s \in Slots, UsedIn(Is("dir", w), s)
      PROVE  \/ KeptIn(card.disk[new.sec], Is("dir", w), s)
             \/ s = new.slot /\ NewIn(card.vol, card.disk, Is("dir", w), s)
  <2>1. CASE s = new.slot
    BY <1>1, <1>3, <1>4, <1>5, <1>6, <2>1 DEF NewIn, ClusterIn
  <2>2. CASE s # new.slot
    BY <1>3, <1>5, <1>6, <2>2 DEF KeptIn, UsedIn, ClusterIn
  <2> QED
    BY <2>1, <2>2
<1> QED
  BY <1>1, <1>2, <1>3, <1>5, <1>6, EntryKeeps

\* FileCreate: the FAT's two copies, and the entry.
LEMMA FileCreateOwn ==
    ASSUME IInv, OwnInv, FileCreate
    PROVE  OwnInv'
<1>1. call.op = None /\ pc \in {"fat", "fat_1", "fat_2", "entry"} /\ UNCHANGED <<fat32, sector_buffer>>
  BY DEF FileCreate, At, SaveKeeps
<1>2. UNCHANGED <<card, CardType>>
  BY SaveCalls DEF Saving, Caller
<1>3. Filed(file) /\ (pc # "entry" => UNCHANGED file)
  BY DEF FileCreate, At, OwnInv, WalkPlaces
<1>4. ASSUME UNCHANGED file, UNCHANGED fat_buffer PROVE Common
  BY <1>1, <1>2, <1>3, <1>4 DEF Common
<1>5. ASSUME Fails, UNCHANGED fat_buffer, UNCHANGED file PROVE OwnInv'
  BY <1>4, <1>5, DoneQuiet, QuietOwn DEF Fails
<1>6. CASE At("fat") /\ Ok /\ Allocate(FatIn(answer.data), new) /\ UNCHANGED walk
  <2>1. Keeping
    BY <1>1, <1>2, <1>3, <1>6 DEF Keeping, At
  <2>2. Session => answer.data = card.disk[FatCopy(1)]
    BY <1>6 DEF OwnInv, Answered, Copied, Target, At, Ok
  <2>3. Filed(new) /\ (Session => sector_buffer = EntriesIn(card.disk[new.sec]))
    BY <1>6 DEF OwnInv, Creating, At
  <2> QED
    BY <1>1, <1>6, <2>1, <2>2, <2>3, FatRead, AllocateKeeps
<1>7. CASE At("fat_1") /\ Ok /\ UNCHANGED <<fat_buffer, walk, new>>
           /\ Write(FatCopy(2), Is("fat", fat_buffer), "fat_2")
  <2>1. Keeping
    BY <1>1, <1>2, <1>3, <1>7 DEF Keeping, At
  <2> QED
    BY <1>1, <1>7, <2>1, SecondCopyOwn
<1>8. CASE At("fat_2") /\ Ok /\ UNCHANGED <<fat_buffer, new>> /\ Write(new.sec, NewEntry, "entry")
  <2>1. Session => Consistent(card.vol, [card.disk EXCEPT ![new.sec] = NewEntry])
    BY <1>8, NewEntryFits DEF At
  <2>2. Filed(new) /\ new.sec # FatCopy(1)
    BY <1>8 DEF OwnInv, Creating, At, Filed, FatPlaces
  <2>3. Quiet
    BY <1>1, <1>2, <1>3, <1>8, <2>1, <2>2, SdCardAssumption
       DEF At, Write, Start, Quiet, WalkPlaces, Copied, Marking, Ops
  <2> QED
    BY <2>3, QuietOwn
<1>9. CASE At("entry") /\ Ok /\ file' = new /\ WriteConfig(new) /\ UNCHANGED fat_buffer
  <2>1. Filed(new)
    BY <1>9 DEF OwnInv, WalkPlaces, At
  <2>2. Common
    BY <1>1, <1>2, <1>9, <2>1 DEF Common, At
  <2> QED
    BY <1>9, <2>2, ConfigQuiet, QuietOwn
<1> QED
  BY <1>5, <1>6, <1>7, <1>8, <1>9 DEF FileCreate

\* The whole of SaveConfiguration.
LEMMA SavingOwn ==
    ASSUME IInv, OwnInv, Saving
    PROVE  OwnInv'
<1>1. CASE Saved
  <2>1. Common
    BY <1>1 DEF Saved, At, SaveKeeps, OwnInv, WalkPlaces, Common, Fails, Done, Jump
  <2> QED
    BY <1>1, <2>1, DoneQuiet, QuietOwn DEF Saved, Fails
<1> QED
  BY <1>1, SaveOpenedQuiet, UpdateEntryQuiet, FindEntryOwn, FileCreateOwn, QuietOwn DEF Saving

\* The main loop and its user.
LEMMA MainLoopOwn ==
    ASSUME IInv, OwnInv, MainLoop \/ User
    PROVE  OwnInv'
<1>1. Filed(file)
  BY DEF OwnInv, WalkPlaces
<1>2. ASSUME Jump("main"), call.op = None, pc # "inited", UNCHANGED <<file, fat32, fat_buffer>> PROVE OwnInv'
  <2>1. Common /\ "main" \notin Elsewhere
    BY <1>1, <1>2 DEF Jump, Common, Elsewhere, Copied, Marking
  <2> QED
    BY <1>2, <2>1, JumpQuiet, QuietOwn
<1>3. CASE Served
  BY <1>2, <1>3 DEF Served, At, Kept, volume
<1>4. CASE Dismiss
  <2>1. ASSUME ColdBoot PROVE OwnInv'
    BY <1>4, <2>1, ColdBootOwn DEF Dismiss, Kept
  <2>2. ASSUME Jump("main") PROVE OwnInv'
    BY <1>2, <1>4, <2>2 DEF Dismiss, At, Kept, volume
  <2> QED
    BY <1>4, <2>1, <2>2 DEF Dismiss
<1>5. CASE Reboot
  BY <1>5, ColdBootOwn DEF Reboot, Kept
<1>6. CASE Save
  <2>1. ASSUME NEW n \in Names, FileOpen(n, 0, "save") PROVE OwnInv'
    <3>1. Common /\ "save" \in Returns
      BY <1>1, <1>6, <2>1 DEF Save, At, Common, volume, FileOpen, Walk, Read, Start, Returns
    <3> QED
      BY <2>1, <3>1, WalksQuiet, QuietOwn DEF FileOpen
  <2>2. ASSUME Jump("main") PROVE OwnInv'
    BY <1>2, <1>6, <2>2 DEF Save, At, volume
  <2> QED
    BY <1>6, <2>1, <2>2 DEF Save
<1>7. CASE Serve
  <2>1. /\ call.op = None /\ pc # "inited" /\ pc' = "served" /\ UNCHANGED <<file, fat32, fat_buffer, card, CardType>>
        /\ \/ call'.op = "MMC_ReadMultiple"
           \/ call'.op = "MMC_Write" /\ call'.asked = Part
    BY <1>7 DEF Serve, At, Kept, volume, Start
  <2>2. Part # FatCopy(1) /\ \A data : Consistent(card.vol, [card.disk EXCEPT ![Part] = data])
    BY Apart, EntryKeeps DEF OwnInv
  <2>3. Quiet
    BY <1>1, <2>1, <2>2, SdCardAssumption DEF Quiet, WalkPlaces, Copied, Marking, Ops
  <2> QED
    BY <2>3, QuietOwn
<1> QED
  BY <1>3, <1>4, <1>5, <1>6, <1>7 DEF MainLoop, User

-----------------------------------------------------------------------------
(* The theorem.                                                            *)

\* A volume is found consistent, and nothing is under way.
LEMMA InitOwns == Init => OwnInv
<1> SUFFICES ASSUME Init PROVE OwnInv
  OBVIOUS
<1> USE SdCardAssumption DEF Ops, Types
<1>1. CardType = None /\ call = NoCall /\ pc = "power" /\ file = NoFile /\ fat_buffer = None
  BY DEF Init, PoweredUp
<1>2. Consistent(card.vol, card.disk)
  BY VolumeAssumption DEF Init
<1>3. ~Session /\ InitPlace /\ Buffered /\ Asks /\ Answered /\ Goes /\ Pending /\ Landed /\ Creating /\ Allocated
  BY <1>1 DEF Session, InitPlace, Buffered, Asks, Answered, Goes, Pending, Landed, Creating, Allocated, Copied, NoCall
<1>4. WalkPlaces
  BY <1>1, FoundFiled DEF WalkPlaces
<1> QED
  BY <1>2, <1>3, <1>4 DEF OwnInv

\* The power is cut: the card keeps what it has, and memory is forgotten.
LEMMA CutOwn ==
    ASSUME IInv, OwnInv, Cut
    PROVE  OwnInv'
<1> USE SdCardAssumption DEF Ops, Types
<1>1. CardType' = None /\ call' = NoCall /\ pc' = "power" /\ file' = NoFile
  BY DEF Cut
<1>2. Consistent(card'.vol, card'.disk)
  BY DEF OwnInv, IInv, Shapes, CardShape, Cut
<1>3. (~Session /\ InitPlace /\ Buffered /\ Asks /\ Answered /\ Goes /\ Pending /\ Landed /\ Creating /\ Allocated)'
  BY <1>1 DEF Session, InitPlace, Buffered, Asks, Answered, Goes, Pending, Landed, Creating, Allocated, Copied, NoCall
<1>4. WalkPlaces'
  <2>1. Filed(NoFile)
    BY FoundFiled
  <2> QED
    BY <1>1, <2>1 DEF WalkPlaces
<1> QED
  BY <1>2, <1>3, <1>4 DEF OwnInv

\* A card is pulled, put in, or comes to rest.
LEMMA HandsOwn ==
    ASSUME IInv, OwnInv, (Pull \/ Insert \/ Settle) /\ UNCHANGED boot_vars
    PROVE  OwnInv'
<1>1. /\ UNCHANGED <<pc, walk, file, fat32, fat_buffer, sector_buffer, new, call, answer, CardType>>
  BY DEF boot_vars, volume, machine, Pull, Insert, Settle
<1>2. /\ Consistent(card'.vol, card'.disk)
      /\ Session' => Session /\ card'.vol = card.vol /\ card'.disk = card.disk
  <2>1. CardShape(card)
    BY DEF IInv, Shapes
  <2>2. CASE Pull
    BY <1>1, <2>1, <2>2 DEF Pull, CardShape, Session, Deaf, OwnInv
  <2>3. CASE Settle
    BY <1>1, <2>1, <2>3 DEF Settle, CardShape, Session, Deaf, OwnInv
  <2>4. CASE Insert
    <3>1. PICK c \in Cards : card' = [kind |-> c.kind, part |-> c.part, vol |-> c.vol,
                                      mode |-> "native", disk |-> FreshDisk(c)]
      BY <2>4 DEF Insert
    <3> QED
      BY <3>1, VolumeAssumption DEF Session, Deaf
  <2> QED
    BY <2>2, <2>3, <2>4
<1>3. (InitPlace /\ Asks /\ Goes /\ WalkPlaces)'
  BY <1>1 DEF OwnInv, InitPlace, Asks, Goes, WalkPlaces, Target, DirSector
<1>4. (Buffered /\ Answered /\ Landed)'
  BY <1>1, <1>2 DEF OwnInv, Buffered, Holds, Answered, Landed, Target, DirSector
<1>5. (Pending /\ Creating /\ Allocated)'
  BY <1>1, <1>2 DEF OwnInv, Pending, After, Creating, Allocated
<1> QED
  BY <1>2, <1>3, <1>4, <1>5 DEF OwnInv

\* Every step keeps the invariant, unless a write goes out blind.
LEMMA StepOwn == IInv /\ OwnInv /\ ~BlindWrite /\ [Next]_vars => OwnInv'
<1> SUFFICES ASSUME IInv, OwnInv, ~BlindWrite, [Next]_vars PROVE OwnInv'
  OBVIOUS
<1>1. CASE BootLoader \/ Walking
  BY <1>1, LoaderQuiet, WalkQuiet, QuietOwn
<1>2. CASE ColdBoots
  <2>1. CASE Cold
    BY <2>1, ColdBootOwn DEF Cold, Kept
  <2>2. CASE ~Cold
    BY <1>2, <2>2, ColdBootQuiet, QuietOwn
  <2> QED
    BY <2>1, <2>2
<1>3. CASE Saving
  BY <1>3, SavingOwn
<1>4. CASE MainLoop \/ User
  BY <1>4, MainLoopOwn
<1>5. CASE Drivers /\ UNCHANGED boot_vars
  <2>1. CASE MMC_Init
    BY <1>5, <2>1, InitOwn
  <2>2. CASE MMC_Read \/ MMC_ReadMultiple \/ MMC_Write
    BY <1>5, <2>2, ReadPasses, ReadMultiplePasses, WriteSteps, PassesOwn, LandsOwn
  <2>3. CASE wait_initV2 \/ wait_init \/ is_sdhc \/ spi_init \/ sd_read_sector
    BY <1>5, <2>3, LoaderOwn
  <2> QED
    BY <1>5, <2>1, <2>2, <2>3 DEF Drivers
<1>6. CASE Cut
  BY <1>6, CutOwn
<1>7. CASE (Pull \/ Insert \/ Settle) /\ UNCHANGED boot_vars
  BY <1>7, HandsOwn
<1>8. CASE UNCHANGED vars
  <2>1. UNCHANGED <<pc, walk, file, fat32, fat_buffer, sector_buffer, new, call, answer, CardType, card>>
    BY <1>8 DEF vars, card_vars, volume, machine
  <2>2. (InitPlace /\ Asks /\ Goes /\ WalkPlaces)'
    BY <2>1 DEF OwnInv, InitPlace, Asks, Goes, WalkPlaces, Target, DirSector
  <2>3. (Consistent(card.vol, card.disk) /\ Buffered /\ Answered /\ Landed)'
    BY <2>1 DEF OwnInv, Buffered, Holds, Answered, Landed, Target, DirSector, Session, Deaf
  <2>4. (Pending /\ Creating /\ Allocated)'
    BY <2>1 DEF OwnInv, Pending, After, Creating, Allocated, Session, Deaf
  <2> QED
    BY <2>2, <2>3, <2>4 DEF OwnInv
<1> QED
  BY <1>1, <1>2, <1>3, <1>4, <1>5, <1>6, <1>7, <1>8 DEF Next, Processor, Hands

\* Whatever call fails and wherever the power is cut, for every volume that is
\* consistent at first, any number of cards, exchanges, slips and saves, and as
\* long as no block is sent to a card that no MMC_Init has recognised: no entry
\* of a directory owns a cluster the FAT has as free, and no two own the same.
THEOREM EntriesOwnTheirClusters == Spec /\ []~BlindWrite => []EntriesOwnClusters
<1>1. OwnInv => EntriesOwnClusters
  BY ConsistentOwn DEF OwnInv
<1> QED
  BY InitHolds, StepKeeps, InitOwns, StepOwn, <1>1, PTL DEF Spec

-----------------------------------------------------------------------------
(* The Kickstart.                                                          *)

\* Its file is read in two places of each attempt; while no error of the card is
\* noted, what is read of it is a Kickstart.
KickReads == {"first_1", "first_2", "second_1", "second_2"}
KickstartRead ==
    pc \in KickReads /\ call.op = None /\ answer.ok = TRUE /\ "sd" \notin ErrorMask
    => answer.data = Is("data", "rom")

\* From its first part on, what is in memory is good or the card's error is noted.
RomPlaces == {"again_1", "again_2", "second_1", "second_2", "ext_1", "ext_2"}
Loading == pc \in RomPlaces \/ (pc \in {"walk", "link"} /\ walk.then \in RomPlaces)
Noted == rom = "good" \/ "sd" \in ErrorMask
RomInv == /\ Loading => Noted
          /\ pc \in KickReads => call.op = "MMC_Read" \/ (call.op = None /\ answer.ok \in BOOLEAN)
          /\ pc \in {"walk", "link"} => walk.then \in Returns

\* A step of a program that keeps it, and lets the CPU go with good reason.
RomStep ==
    /\ pc' \in {"walk", "link"} => walk'.then \in Returns
    /\ pc' \in KickReads => call'.op = "MMC_Read"
    /\ Loading' => Noted'
    /\ cpu = "held" /\ cpu' = "runs" => Noted'

\* An error stays that of the card until it is cleared.
LEMMA TellsOn ==
    /\ Note => ("sd" \in ErrorMask => "sd" \in ErrorMask') /\ (answer.ok = FALSE => "sd" \in ErrorMask')
    /\ \A f : SetError(Told \cup {"fs"}, f) => ("sd" \in ErrorMask => "sd" \in ErrorMask')
    /\ ClearError("fs") => ("sd" \in ErrorMask => "sd" \in ErrorMask') /\ (answer.ok = FALSE => "sd" \in ErrorMask')
BY DEF Note, SetError, Told, ClearError

\* The boot loader neither lets the CPU go nor loads a Kickstart.
LEMMA LoaderRom ==
    ASSUME BootLoader
    PROVE  RomStep
<1>1. pc' \in Loader \cup {"cold"} /\ UNCHANGED cpu
  <2> USE DEF Start, Load, Jump, At, Loader, Idle, machine
  <2>1. CASE Power
    BY <2>1 DEF Power, BootError
  <2>2. CASE BootInit
    BY <2>2 DEF BootInit, BootError
  <2>3. CASE BootFindDrive
    BY <2>3 DEF BootFindDrive, BootMount, BootError
  <2>4. CASE BootFileOpen
    BY <2>4 DEF BootFileOpen, NextDir, GetCluster, BootError
  <2>5. CASE LoadFile
    BY <2>5 DEF LoadFile, LinkNext, LoadNext, GetCluster, BootError
  <2>6. CASE Enter
    BY <2>6 DEF Enter
  <2> QED
    BY <2>1, <2>2, <2>3, <2>4, <2>5, <2>6 DEF BootLoader
<1> QED
  BY <1>1 DEF RomStep, Loading, Loader, RomPlaces, KickReads

\* A walk forgets no error of the card, and comes back to where it was to.
LEMMA WalkRom ==
    ASSUME IInv, RomInv, Walking
    PROVE  RomStep
<1>1. walk.then \in Returns /\ (walk.then \in RomPlaces => Noted) /\ UNCHANGED <<cpu, rom>>
  BY DEF Walking, WalkRead, WalkLink, At, RomInv, Loading, machine
<1>2. "sd" \in ErrorMask => "sd" \in ErrorMask'
  <2>1. ASSUME NotThere PROVE "sd" \in ErrorMask => "sd" \in ErrorMask'
    BY <2>1, TellsOn DEF NotThere
  <2>2. ASSUME NEW c, Follow(c) PROVE "sd" \in ErrorMask => "sd" \in ErrorMask'
    BY <2>1, <2>2, TellsOn DEF Follow
  <2>3. CASE WalkRead
    BY <2>1, <2>2, <2>3, TellsOn DEF WalkRead, Onward
  <2>4. CASE WalkLink
    BY <2>2, <2>4 DEF WalkLink
  <2> QED
    BY <2>3, <2>4 DEF Walking
<1>3. \/ pc' = walk.then
      \/ pc' \in {"walk", "link"} /\ walk'.then = walk.then
  <2>1. ASSUME NotThere PROVE pc' = walk.then
    BY <2>1 DEF NotThere, Walked, Jump
  <2>2. ASSUME NEW c, Follow(c), c # EOC PROVE pc' = "walk" /\ walk'.then = walk.then
    BY <2>2 DEF Follow, Read, IInv, Shapes, WalkShape
  <2>3. ASSUME NEW c, Follow(c) PROVE pc' = walk.then \/ (pc' \in {"walk", "link"} /\ walk'.then = walk.then)
    BY <2>1, <2>2, <2>3 DEF Follow
  <2>4. CASE WalkRead
    BY <2>1, <2>3, <2>4 DEF WalkRead, Onward, Walked, Jump, Read
  <2>5. CASE WalkLink
    BY <2>3, <2>5 DEF WalkLink
  <2> QED
    BY <2>4, <2>5 DEF Walking
<1>4. pc' \notin KickReads
  BY <1>1, <1>3 DEF Returns, KickReads
<1>5. Loading' => walk.then \in RomPlaces
  BY <1>1, <1>3 DEF Loading, Returns, RomPlaces
<1> QED
  BY <1>1, <1>2, <1>3, <1>4, <1>5 DEF RomStep, Noted, Returns

\* The walks and jumps of ColdBoot that load nothing.
LEMMA OtherRom ==
    ASSUME UNCHANGED cpu \/ cpu' = "held",
           \/ pc' \notin RomPlaces \cup KickReads \cup {"walk", "link"}
           \/ pc' \in {"walk", "link"} /\ walk'.then \in Returns \ RomPlaces
    PROVE  RomStep
BY DEF RomStep, Loading, Returns, RomPlaces, KickReads

\* UploadKickstart: a part read badly leaves an error, and one read well is good.
LEMMA KickstartRom ==
    ASSUME RomInv, KickstartRead, NEW n \in 1..2, UploadKickstart(n)
    PROVE  RomStep
<1>1. /\ Try(n, "valid") \in Returns \ RomPlaces /\ Try(n, "key") \in Returns \ RomPlaces
      /\ Try(n, "rom") \in Returns \ RomPlaces /\ Try(n, "again") \in Returns /\ Try(n, "again") \in RomPlaces
      /\ Try(n, "up") \notin RomPlaces \cup KickReads \cup {"walk", "link"}
      /\ Try(n, "first") \in KickReads \ (RomPlaces \cup {"walk", "link"})
      /\ Try(n, "second") \in KickReads \ {"walk", "link"} /\ Try(n, "second") \in RomPlaces
  <2>1. CASE n = 1
    BY <2>1 DEF Try, Tries, Returns, RomPlaces, KickReads
  <2>2. CASE n = 2
    BY <2>2 DEF Try, Tries, Returns, RomPlaces, KickReads
  <2> QED
    BY <2>1, <2>2
<1>2. UNCHANGED cpu
  BY DEF UploadKickstart
<1>3. ASSUME NEW name, NEW from, NEW then \in Returns \ RomPlaces, NEW dir, Walk(name, dir, from, then) PROVE RomStep
  <2>1. pc' = "walk" /\ walk'.then = then
    BY <1>3 DEF Walk, Read
  <2> QED
    BY <1>2, <1>3, <2>1, OtherRom
<1>4. ASSUME KickFails(n) \/ KickMissing(n) PROVE RomStep
  BY <1>2, <1>4, OtherRom DEF KickFails, KickMissing, Jump, RomPlaces, KickReads
<1>5. ASSUME NEW s, NEW then, Read(s, then), then \notin RomPlaces \cup KickReads \cup {"walk", "link"} PROVE RomStep
  BY <1>2, <1>5, OtherRom DEF Read
<1>6. ASSUME NEW s, Read(s, Try(n, "first")) PROVE RomStep
  BY <1>1, <1>2, <1>6 DEF Read, Start, RomStep, Loading
<1>7. ASSUME NEW name, NEW from, NEW then \in Returns, FileOpen(name, from, then), Noted' PROVE RomStep
  <2>1. pc' = "walk" /\ walk'.then = then
    BY <1>7 DEF FileOpen, Walk, Read
  <2> QED
    BY <1>2, <1>7, <2>1 DEF RomStep, KickReads
<1>8. ASSUME At(Try(n, "first")), FileOpen("KICK", kickdir, Try(n, "again")), Note, rom' = RomPart("good")
      PROVE  RomStep
  <2>1. answer.ok \in BOOLEAN /\ (answer.ok = TRUE /\ "sd" \notin ErrorMask => answer.data = Is("data", "rom"))
    BY <1>1, <1>8, SdCardAssumption DEF RomInv, KickstartRead, At, Ops
  <2>2. Noted'
    BY <1>8, <2>1, TellsOn DEF Noted, RomPart, Ok
  <2> QED
    BY <1>1, <1>7, <1>8, <2>2
<1>9. ASSUME At(Try(n, "again")), NEW s, Read(s, Try(n, "second")), Note, UNCHANGED rom PROVE RomStep
  <2>1. Noted'
    BY <1>1, <1>9, TellsOn DEF Noted, RomInv, Loading, At
  <2> QED
    BY <1>1, <1>2, <1>9, <2>1 DEF Read, Start, RomStep
<1>10. ASSUME At(Try(n, "second")), FileOpen("EXTENDED", 0, "ext_1"), Note, rom' = RomPart(rom) PROVE RomStep
  <2>1. answer.ok \in BOOLEAN /\ (answer.ok = TRUE /\ "sd" \notin ErrorMask => answer.data = Is("data", "rom"))
    BY <1>1, <1>10, SdCardAssumption DEF RomInv, KickstartRead, At, Ops
  <2>2. Noted
    BY <1>1, <1>10 DEF RomInv, Loading, At
  <2>3. Noted'
    BY <1>10, <2>1, <2>2, TellsOn DEF Noted, RomPart, Ok
  <2>4. "ext_1" \in Returns
    BY DEF Returns
  <2> QED
    BY <1>7, <1>10, <2>3, <2>4
<1> QED
  BY <1>1, <1>3, <1>4, <1>5, <1>6, <1>8, <1>9, <1>10 DEF UploadKickstart, FileOpen

\* The extended ROM's error is cleared, and the card's is not.
LEMMA ReleaseRom ==
    ASSUME RomInv, Release
    PROVE  RomStep
<1>1. CASE At("ext_1") /\ FileOpen("EXTENDED", 0, "ext_2") /\ Note /\ UNCHANGED cpu
  <2>1. Noted'
    BY <1>1, TellsOn DEF Release, RomInv, Loading, RomPlaces, At, Noted
  <2>2. pc' = "walk" /\ walk'.then = "ext_2"
    BY <1>1 DEF FileOpen, Walk, Read
  <2> QED
    BY <1>1, <2>1, <2>2 DEF RomStep, Returns, KickReads
<1>2. CASE At("ext_2") /\ Jump("main") /\ ExtDone
  <2>1. Noted'
    BY <1>2, TellsOn DEF Release, RomInv, Loading, RomPlaces, At, Noted, ExtDone
  <2> QED
    BY <1>2, <2>1 DEF Jump, RomStep, KickReads
<1>3. CASE At("no_rom") /\ Jump("main") /\ UNCHANGED cpu
  BY <1>3, OtherRom DEF Jump, RomPlaces, KickReads
<1> QED
  BY <1>1, <1>2, <1>3 DEF Release

\* The rest of ColdBoot loads no Kickstart.
LEMMA ColdBootRom ==
    ASSUME RomInv, KickstartRead, ColdBoots
    PROVE  RomStep
<1> DEFINE Others == RomPlaces \cup KickReads \cup {"walk", "link"}
<1>1. ASSUME NEW name, NEW from, NEW then \in Returns \ RomPlaces, FileOpen(name, from, then),
             UNCHANGED cpu \/ cpu' = "held"
      PROVE  RomStep
  <2>1. pc' = "walk" /\ walk'.then = then
    BY <1>1 DEF FileOpen, Walk, Read
  <2> QED
    BY <1>1, <2>1, OtherRom
<1>2. CASE Cold
  BY <1>2, OtherRom DEF Cold, ColdBoot, RomPlaces, KickReads
<1>3. CASE Inited
  BY <1>3, OtherRom DEF Inited, Read, Jump, RomPlaces, KickReads, machine
<1>4. CASE FindDrive
  <2>1. ASSUME NEW then \in {"main", "mounted"}, Jump(then) PROVE pc' \in {"main", "vbr", "mounted"}
    BY <2>1 DEF Jump
  <2>2. ASSUME NEW s, Read(s, "vbr") PROVE pc' \in {"main", "vbr", "mounted"}
    BY <2>2 DEF Read
  <2>3. (\E then \in {"main", "mounted"} : Jump(then)) \/ (\E s : Read(s, "vbr"))
    BY ONLY <1>4 DEF FindDrive, NoVolume
  <2>4. pc' \in {"main", "vbr", "mounted"} /\ UNCHANGED cpu
    BY <1>4, <2>1, <2>2, <2>3 DEF FindDrive, machine
  <2> QED
    BY <2>4, OtherRom DEF RomPlaces, KickReads
<1>5. CASE LoadConfiguration
  <2>1. "config" \in Returns \ RomPlaces /\ "sounds" \in Returns \ RomPlaces
    BY DEF Returns, RomPlaces
  <2>2. ASSUME NEW s, Read(s, "settings"), UNCHANGED cpu PROVE RomStep
    BY <2>2, OtherRom DEF Read, RomPlaces, KickReads
  <2> QED
    BY <1>1, <1>5, <2>1, <2>2 DEF LoadConfiguration
<1>6. CASE HardfilesOpen
  <2>1. "hdf0" \in Returns \ RomPlaces /\ "hrtmon" \in Returns \ RomPlaces
    BY DEF Returns, RomPlaces
  <2>2. ASSUME pc' = "hdf1", UNCHANGED cpu PROVE RomStep
    BY <2>2, OtherRom DEF RomPlaces, KickReads
  <2> QED
    BY <1>1, <1>6, <2>1, <2>2 DEF HardfilesOpen
<1>7. CASE UploadActionReplay
  BY <1>7, OtherRom DEF UploadActionReplay, Read, Jump, RomPlaces, KickReads
<1> QED
  BY <1>2, <1>3, <1>4, <1>5, <1>6, <1>7, KickstartRom, ReleaseRom DEF ColdBoots

\* Saving and the main loop load nothing.
LEMMA SavingRom ==
    ASSUME Saving
    PROVE  RomStep
<1>1. UNCHANGED cpu
  BY DEF Saving, SaveOpened, UpdateEntry, FindEntry, FileCreate, Saved, SaveKeeps
<1>2. pc' \notin RomPlaces \cup KickReads \cup {"walk", "link"}
  <2> USE DEF Read, Write, WriteConfig, Jump, Done, Fails, RomPlaces, KickReads
  <2>1. CASE SaveOpened
    BY <2>1 DEF SaveOpened
  <2>2. CASE UpdateEntry
    BY <2>2 DEF UpdateEntry
  <2>3. CASE FindEntry
    BY <2>3 DEF FindEntry, Allocate, CreateFollow
  <2>4. CASE FileCreate
    BY <2>4 DEF FileCreate, Allocate
  <2>5. CASE Saved
    BY <2>5 DEF Saved
  <2> QED
    BY <2>1, <2>2, <2>3, <2>4, <2>5 DEF Saving
<1> QED
  BY <1>1, <1>2, OtherRom

\* Nor does the main loop; it holds the CPU when it boots again.
LEMMA MainLoopRom ==
    ASSUME MainLoop \/ User
    PROVE  RomStep
<1>1. UNCHANGED cpu \/ cpu' = "held"
  BY DEF MainLoop, User, Served, Dismiss, Serve, Save, Reboot, ColdBoot, machine
<1>2. CASE Save
  <2>1. ASSUME NEW n, FileOpen(n, 0, "save") PROVE pc' = "walk" /\ walk'.then = "save"
    BY <2>1 DEF FileOpen, Walk, Read
  <2>2. ASSUME Jump("main") PROVE pc' = "main"
    BY <2>2 DEF Jump
  <2> QED
    BY <1>1, <1>2, <2>1, <2>2, OtherRom DEF Save, Returns, RomPlaces, KickReads
<1>3. CASE Served \/ Dismiss \/ Serve \/ Reboot
  <2>1. pc' \in {"main", "inited", "served"}
    BY <1>3 DEF Served, Dismiss, Serve, Reboot, ColdBoot, Jump
  <2> QED
    BY <1>1, <2>1, OtherRom DEF RomPlaces, KickReads
<1> QED
  BY <1>2, <1>3 DEF MainLoop, User

\* Every step of the two programs.
LEMMA CallersRom ==
    ASSUME IInv, RomInv, KickstartRead, BootLoader \/ Walking \/ ColdBoots \/ Saving \/ MainLoop \/ User
    PROVE  RomStep
BY LoaderRom, WalkRom, ColdBootRom, SavingRom, MainLoopRom

\* A read ends with a verdict.
LEMMA ReadVerdict ==
    ASSUME MMC_Read, IInv
    PROVE  call'.op = call.op \/ (call' = NoCall /\ answer'.ok \in BOOLEAN)
<1>1. CallShape(call)
  BY DEF IInv, Shapes
<1>2. ASSUME Goto("token") PROVE call'.op = call.op
  BY <1>1, <1>2 DEF Goto, CallShape
<1>3. ASSUME NEW ok \in BOOLEAN, NEW data, call' = NoCall, answer' = [ok |-> ok, data |-> data]
      PROVE  call' = NoCall /\ answer'.ok \in BOOLEAN
  BY <1>3
<1> QED
  BY <1>2, <1>3 DEF MMC_Read, Deliver, GiveUp, Return

\* A driver ends a read with a verdict, and leaves the rest alone.
LEMMA DriversRom ==
    ASSUME IInv, RomInv, Drivers, UNCHANGED boot_vars
    PROVE  RomInv' /\ UNCHANGED <<cpu, pc>>
<1>1. UNCHANGED <<cpu, pc, walk, rom, ErrorMask>>
  BY DEF boot_vars, machine, errors
<1>2. pc \in KickReads => call.op = "MMC_Read"
  BY SdCardAssumption DEF RomInv, Drivers, MMC_Init, MMC_Read, MMC_ReadMultiple, MMC_Write, Ops,
         spi_init, is_sdhc, wait_initV2, wait_init, sd_read_sector, cmd_write
<1>3. pc \in KickReads => MMC_Read
  BY <1>2 DEF Drivers, MMC_Init, MMC_Read, MMC_ReadMultiple, MMC_Write,
         spi_init, is_sdhc, wait_initV2, wait_init, sd_read_sector, cmd_write
<1>4. pc' \in KickReads => call'.op = "MMC_Read" \/ (call'.op = None /\ answer'.ok \in BOOLEAN)
  BY <1>1, <1>2, <1>3, ReadVerdict DEF NoCall
<1> QED
  BY <1>1, <1>4 DEF RomInv, Loading, Noted

\* Every step: the invariant, and the reason for which the CPU goes.
LEMMA StepRom ==
    ASSUME IInv, RomInv, KickstartRead, [Next]_vars
    PROVE  RomInv' /\ (cpu = "held" /\ cpu' = "runs" => Noted')
<1>1. CASE BootLoader \/ Walking \/ ColdBoots \/ Saving \/ MainLoop \/ User
  <2>1. RomStep
    BY <1>1, CallersRom
  <2> QED
    BY <2>1 DEF RomStep, RomInv
<1>2. CASE Drivers /\ UNCHANGED boot_vars
  BY <1>2, DriversRom
<1>3. CASE Cut
  BY <1>3 DEF Cut, RomInv, Loading, RomPlaces, KickReads
<1>4. CASE (Pull \/ Insert \/ Settle) /\ UNCHANGED boot_vars
  <2>1. UNCHANGED <<cpu, pc, walk, rom, ErrorMask, call, answer>>
    BY <1>4 DEF boot_vars, machine, errors, Pull, Insert, Settle
  <2> QED
    BY <2>1 DEF RomInv, Loading, Noted
<1>5. CASE UNCHANGED vars
  <2>1. UNCHANGED <<cpu, pc, walk, rom, ErrorMask, call, answer>>
    BY <1>5 DEF vars, card_vars, machine, errors
  <2> QED
    BY <2>1 DEF RomInv, Loading, Noted
<1> QED
  BY <1>1, <1>2, <1>3, <1>4, <1>5 DEF Next, Processor, Hands

\* For every card and whatever fails: as long as what is read of the ROM file
\* without an error is the Kickstart, the CPU is let go of ColdBoot either with
\* a good one or with the card's error on its way to the error page.  No error
\* that is cleared on the way is the card's.
THEOREM RomIsGoodOrReported == Spec /\ []KickstartRead => RomOrError
<1>1. Init => RomInv
  BY DEF Init, PoweredUp, RomInv, Loading, RomPlaces, KickReads
<1>2. IInv /\ RomInv /\ KickstartRead /\ [Next]_vars
      => RomInv' /\ (cpu = "held" /\ cpu' = "runs" => rom' = "good" \/ "sd" \in ErrorMask')
  BY StepRom DEF Noted
<1>3. IInv /\ [Next]_vars => IInv'
  BY StepKeeps
<1> QED
  BY <1>1, <1>2, <1>3, InitHolds, PTL DEF Spec, RomOrError

=============================================================================
