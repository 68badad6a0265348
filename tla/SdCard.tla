------------------------------- MODULE SdCard -------------------------------
(***************************************************************************)
(* An SD or MMC card and the two drivers that talk to it over SPI: the     *)
(* firmware's (ctrl_832/mmc.c) and the boot loader's                       *)
(* (ctrl_boot_832/spi.c).  A driver call is a few exchanges of a command   *)
(* and an answer; each exchange is a step.  The card's own behaviour is    *)
(* external: it is what the drivers' comments and answers expect of it.    *)
(* An answer can be lost, a card can be slow, lose a block, reject one or  *)
(* stay busy: each such slip counts against MaxFaults.                     *)
(***************************************************************************)
EXTENDS Naturals, FiniteSets

CONSTANTS Cards,        \* the cards there are: [kind, part, vol]
          FreshDisk(_), \* what a card's sectors hold at first
          MaxFaults,    \* how many slips
          MaxTries,     \* how often a driver's loop repeats a command
          None

\* The driver calls, and the types of card MMC_Init finds.
Ops == {"MMC_Init", "MMC_Read", "MMC_GetCSD", "MMC_ReadMultiple", "MMC_Write", "spi_init", "sd_read_sector"}
Types == {"MMC", "SD", "SDHC"}

ASSUME SdCardAssumption == MaxFaults \in Nat /\ MaxTries \in Nat
                            /\ None \notin Ops \cup Types

VARIABLES card,      \* [kind, part, vol, mode, disk]
          selected,  \* its chip select
          CardType,  \* mmc.c: what MMC_Init found
          SDHCtype,  \* spi.c: whether the boot loader counts in sectors
          call,      \* the driver call in progress
          answer,    \* what the last one returned, and the block it read
          moved,     \* the last block's sector: as asked, and on the card
          faults

card_vars == <<card, selected, CardType, SDHCtype, call, answer, moved, faults>>

NoCall == [op |-> None, at |-> None, asked |-> <<"mbr", 0>>, left |-> 0,
           tries |-> 0, data |-> None]
NoAnswer == [ok |-> None, data |-> None]
NoMove == [op |-> None, asked |-> None, on_card |-> None]

\* Sector 0 has the same address in bytes and in sectors.
Mbr == <<"mbr", 0>>
Wild == <<"wild", 0>>

-----------------------------------------------------------------------------
\* The card.

V2 == {"SDHC", "SD2"}
Sd == {"SDHC", "SD2", "SD1"}

Reply(r, m) == [r |-> r, mode |-> m, slip |-> 0]
Slow(a) == [r |-> a.r, mode |-> a.mode, slip |-> 1]
Lost(a) == [r |-> "none", mode |-> a.mode, slip |-> a.slip + 1]

\* A command to a card that is moving a block: one nobody took comes out.
Midway(cmd) ==
    CASE card.mode = "busy" -> {Reply("ready", "busy")}       \* it holds the line at 0
      [] card.mode = "block" -> {Reply("illegal", "ready")}
      [] card.mode = "stream" -> {IF cmd = "CMD12" THEN Reply("ready", "ready")
                                  ELSE Reply("illegal", "stream")}

\* Being told to start: the first time it does, as a rule the next one finds
\* it ready.
Starts(can) ==
    LET m == card.mode IN
    IF m = "ready" THEN {Reply("ready", m)}
    ELSE IF ~can THEN {Reply("idle", m)}
    ELSE IF m = "idle" THEN {Reply("idle", "starting"), Slow(Reply("ready", "ready"))}
    ELSE {Reply("ready", "ready"), Slow(Reply("idle", m))}

Awake(cmd) ==
    LET m == card.mode
        R1 == IF m \in {"idle", "starting"} THEN "idle" ELSE "ready"
        Transfer(mode) == {IF m = "ready" THEN Reply("ready", mode) ELSE Reply("illegal", m)}
    IN CASE cmd = "CMD8" -> {IF card.kind \in V2 THEN Reply(IF m # "ready" THEN "echo" ELSE "ready", m)
                             ELSE Reply("illegal", m)}
         [] cmd = "CMD55" -> {Reply(IF card.kind \in Sd THEN R1 ELSE "illegal", m)}
         [] cmd = "CMD41HCS" -> Starts(TRUE)
         [] cmd \in {"CMD41", "CMD1"} -> Starts(card.kind # "SDHC")
         [] cmd \in {"CMD58", "CMD16", "CMD12"} -> {Reply(R1, m)}
         [] cmd \in {"CMD17", "CMD9"} -> Transfer("block")
         [] cmd = "CMD18" -> Transfer("stream")
         [] cmd = "CMD24" -> Transfer("receive")

\* How it takes a command: its answer and the mode it goes to.
Heard(cmd) ==
    IF card.mode = "out" \/ (card.mode = "native" /\ cmd # "CMD0") THEN {Reply("none", card.mode)}
    ELSE IF cmd = "CMD0" THEN {Reply("idle", "idle")}
    ELSE IF card.mode \in {"busy", "block", "stream"} THEN Midway(cmd)
    ELSE Awake(cmd)

\* MMC_Command and cmd_write: the command or its answer can be lost.
Replies(cmd) ==
    IF ~selected THEN {Reply("none", card.mode)}
    ELSE Heard(cmd) \cup {Lost(a) : a \in Heard(cmd)} \cup {Slow(Reply("none", card.mode))}

Slip(n) == faults' = faults + n /\ faults' <= MaxFaults

\* An exchange: of the replies a command can have, this one comes.
Exchange(a) == Slip(a.slip) /\ card' = [card EXCEPT !.mode = a.mode]

\* The sector of the card a driver that counts in sectors or not reaches.
OnCard(by_sector, asked) ==
    IF asked = Mbr \/ (by_sector <=> card.kind = "SDHC") THEN asked ELSE Wild

-----------------------------------------------------------------------------
\* Calls.

\* A driver is called.
Start(op, at, asked, n, data) ==
    /\ call' = [op |-> op, at |-> at, asked |-> asked, left |-> n, tries |-> MaxTries, data |-> data]
    /\ selected' = TRUE /\ answer' = NoAnswer /\ moved' = NoMove
    /\ UNCHANGED <<card, CardType, SDHCtype, faults>>

Goto(at) == call' = [call EXCEPT !.at = at] /\ UNCHANGED <<selected, answer, moved>>

\* DisableCard and return.
Return(ok, data) ==
    /\ call' = NoCall /\ answer' = [ok |-> ok, data |-> data]
    /\ selected' = FALSE /\ moved' = NoMove

\* A loop's next turn, or its end: the count or the timer has run out.
Retry(at, type, Otherwise) ==
    \/ /\ call.tries > 0
       /\ call' = [call EXCEPT !.at = at, !.tries = @ - 1]
       /\ UNCHANGED <<selected, answer, moved, type>>
    \/ call.tries = 0 /\ Otherwise

-----------------------------------------------------------------------------
\* mmc.c

\* Slip: a failed READ_OCR counts as a card that answers in sectors.
InitDone_AnyOcr(at, r) ==
    CASE at = "cmd58" -> IF r = "ready" /\ card.kind # "SDHC" THEN "SD" ELSE "SDHC"
      [] at = "cmd16sd" -> "SD"
      [] at = "cmd16mmc" -> "MMC"

\* The type MMC_Init ends with: READ_OCR says whether the card is an SDHC one.
InitDone(at, r) ==
    CASE at = "cmd58" -> IF r # "ready" THEN None
                         ELSE IF card.kind = "SDHC" THEN "SDHC" ELSE "SD"
      [] at = "cmd16sd" -> "SD"
      [] at = "cmd16mmc" -> "MMC"

InitCommand ==
    [cmd0 |-> "CMD0", cmd8 |-> "CMD8", hc55 |-> "CMD55", hc41 |-> "CMD41HCS", cmd58 |-> "CMD58",
     sd55 |-> "CMD55", sd41 |-> "CMD41", lp55 |-> "CMD55", lp41 |-> "CMD41", cmd16sd |-> "CMD16",
     cmd1 |-> "CMD1", cmd16mmc |-> "CMD16"]

InitEnds(type) == CardType' = type /\ Return(type # None, None)

MMC_Init ==
    LET at == call.at
        fails == InitEnds(None)
        next(n) == Goto(n) /\ UNCHANGED CardType
        again(n) == Retry(n, CardType, fails)
        after(r) ==
            \/ at = "cmd0" /\ IF r = "idle" THEN next("cmd8") ELSE fails
            \/ at = "cmd8" /\ next(IF r = "echo" THEN "hc55" ELSE "sd55")
            \/ at = "hc55" /\ IF r = "idle" THEN next("hc41") ELSE fails
            \/ at = "hc41" /\ IF r = "ready" THEN next("cmd58") ELSE again("hc55")
            \/ at = "sd55" /\ next(IF r = "idle" THEN "sd41" ELSE "cmd1")
            \/ at = "sd41" /\ next(IF r \in {"idle", "ready"} THEN "lp55" ELSE "cmd1")
            \/ at = "lp55" /\ IF r = "idle" THEN next("lp41") ELSE fails
            \/ at = "lp41" /\ IF r = "ready" THEN next("cmd16sd") ELSE again("lp55")
            \/ at = "cmd1" /\ IF r = "ready" THEN next("cmd16mmc") ELSE again("cmd1")
            \/ at \in {"cmd58", "cmd16sd", "cmd16mmc"} /\ InitEnds(InitDone(at, r))
    IN /\ call.op = "MMC_Init"
       /\ \E a \in Replies(InitCommand[at]) : Exchange(a) /\ after(a.r)
       /\ UNCHANGED SDHCtype

\* A block's data token comes, with the block that is there ...
TokenComes(mode, by_sector) ==
    /\ card.mode = mode /\ UNCHANGED faults
    /\ card' = [card EXCEPT !.mode = IF mode = "stream" THEN mode ELSE "ready"]
    /\ moved' = [op |-> call.op, asked |-> call.asked, on_card |-> OnCard(by_sector, call.asked)]
Block(by_sector) == card.disk[OnCard(by_sector, call.asked)]
\* ... or the driver tires of waiting for it.
TokenLost(mode) ==
    /\ IF card.mode = mode THEN Slip(1) ELSE UNCHANGED faults
    /\ card' = [card EXCEPT !.mode = IF @ = "block" THEN "ready" ELSE @]
    /\ moved' = NoMove

\* MMC_Read and MMC_GetCSD; the block is in answer.
Deliver(data) == call' = NoCall /\ answer' = [ok |-> TRUE, data |-> data] /\ selected' = FALSE
GiveUp == call' = NoCall /\ answer' = [ok |-> FALSE, data |-> None] /\ selected' = FALSE

MMC_Read ==
    LET sdhc_card == CardType = "SDHC"
        command == IF call.op = "MMC_Read" THEN "CMD17" ELSE "CMD9"
        read(r) == IF r = "ready" THEN Goto("token") ELSE Return(FALSE, None)
    IN /\ call.op \in {"MMC_Read", "MMC_GetCSD"} /\ UNCHANGED <<CardType, SDHCtype>>
       /\ \/ call.at = "cmd" /\ (\E a \in Replies(command) : Exchange(a) /\ read(a.r))
          \/ call.at = "token" /\ TokenComes("block", sdhc_card) /\ Deliver(Block(sdhc_card))
          \/ call.at = "token" /\ TokenLost("block") /\ GiveUp

\* CMD12, whose answer nobody reads.
MMC_CMD12 == (\E a \in Replies("CMD12") : Exchange(a)) /\ Return(TRUE, None)

\* MMC_ReadMultiple: left blocks, then CMD12.  When a token does not come the
\* transfer is left open.
MMC_ReadMultiple ==
    LET read(r) == IF r = "ready" THEN Goto("token") ELSE Return(FALSE, None)
        block == /\ call' = [call EXCEPT !.left = @ - 1, !.at = IF call.left = 1 THEN "stop" ELSE "token"]
                 /\ UNCHANGED <<selected, answer>>
    IN /\ call.op = "MMC_ReadMultiple" /\ UNCHANGED <<CardType, SDHCtype>>
       /\ \/ call.at = "cmd" /\ (\E a \in Replies("CMD18") : Exchange(a) /\ read(a.r))
          \/ call.at = "token" /\ TokenComes("stream", CardType = "SDHC") /\ block
          \/ call.at = "token" /\ TokenLost("stream") /\ GiveUp
          \/ call.at = "stop" /\ MMC_CMD12

\* MMC_Write: the block, the card's word on it, and the wait while it is busy.
MMC_Write ==
    LET write(r) == IF r = "ready" THEN Goto("block") ELSE Return(FALSE, None)
        s == OnCard(CardType = "SDHC", call.asked)
    IN /\ call.op = "MMC_Write" /\ UNCHANGED <<CardType, SDHCtype>>
       /\ \/ call.at = "cmd" /\ (\E a \in Replies("CMD24") : Exchange(a) /\ write(a.r))
          \/ /\ call.at = "block" /\ card.mode = "receive"
             /\ card' = [card EXCEPT !.mode = "busy", !.disk[s] = call.data]
             /\ moved' = [op |-> call.op, asked |-> call.asked, on_card |-> s]
             /\ call' = [call EXCEPT !.at = "busy"] /\ UNCHANGED <<selected, answer, faults>>
          \/ /\ call.at = "block"
             /\ IF card.mode = "receive" THEN Slip(1) /\ card' = [card EXCEPT !.mode = "ready"]
                ELSE UNCHANGED <<faults, card>>
             /\ Return(FALSE, None)
          \/ /\ call.at = "busy" /\ card' = [card EXCEPT !.mode = IF @ = "busy" THEN "ready" ELSE @]
             /\ Return(TRUE, None) /\ UNCHANGED faults
          \/ /\ call.at = "busy" /\ card.mode = "busy" /\ Slip(1)
             /\ Return(FALSE, None) /\ UNCHANGED card

-----------------------------------------------------------------------------
\* The boot loader's spi.c

\* spi_init: CMD0 until it answers, then is_sdhc: CMD8, and ACMD41 and CMD58 in
\* a loop or, for an old card, CMD1.  What is_sdhc cannot find out it takes for
\* "no".
SpiNext(n) == Goto(n) /\ UNCHANGED SDHCtype
sdhc(yes) == /\ call' = [call EXCEPT !.at = IF yes THEN "done" ELSE "b16"] /\ SDHCtype' = yes
             /\ UNCHANGED <<selected, answer, moved>>
SpiAgain(n, Otherwise) == Retry(n, SDHCtype, Otherwise)
\* The replies cmd_write may get at this place of it.
cmd_write(at, cmd) == IF call.op = "spi_init" /\ call.at = at THEN Replies(cmd) ELSE {}

wait_initV2 ==
    \/ \E a \in cmd_write("b55", "CMD55") :
          /\ Exchange(a) /\ UNCHANGED CardType
          /\ IF a.r = "idle" THEN SpiNext("b41") ELSE SpiAgain("b55", sdhc(FALSE))
    \/ \E a \in cmd_write("b41", "CMD41HCS") :
          /\ Exchange(a) /\ UNCHANGED CardType
          /\ IF a.r = "ready" THEN SpiNext("b58") ELSE SpiAgain("b55", sdhc(FALSE))

wait_init ==
    \E a \in cmd_write("b1", "CMD1") :
        /\ Exchange(a) /\ UNCHANGED CardType
        /\ IF a.r = "ready" THEN sdhc(FALSE) ELSE SpiAgain("b1", sdhc(FALSE))

is_sdhc ==
    \/ \E a \in cmd_write("b8", "CMD8") : Exchange(a) /\ UNCHANGED CardType /\ SpiNext(IF a.r = "echo" THEN "b55" ELSE "b1")
    \/ \E a \in cmd_write("b58", "CMD58") :
          /\ Exchange(a) /\ UNCHANGED CardType
          /\ IF a.r = "ready" THEN sdhc(card.kind = "SDHC") ELSE SpiAgain("b55", sdhc(FALSE))

spi_init ==
    LET ends(ok) == Return(ok, None) /\ UNCHANGED SDHCtype IN
    \/ \E a \in cmd_write("b0", "CMD0") :
          /\ Exchange(a) /\ UNCHANGED CardType
          /\ IF a.r = "idle" THEN SpiNext("b8") ELSE SpiAgain("b0", ends(FALSE))
    \/ \E a \in cmd_write("b16", "CMD16") : Exchange(a) /\ UNCHANGED CardType /\ ends(TRUE)
    \/ /\ call.op = "spi_init" /\ call.at = "done"
       /\ ends(TRUE) /\ UNCHANGED <<card, CardType, faults>>

\* sd_read_sector: a command that fails leaves the card selected.
sd_read_sector ==
    LET read(r) == IF r = "ready" THEN Goto("token")
                   ELSE /\ call' = NoCall /\ answer' = [ok |-> FALSE, data |-> None]
                        /\ UNCHANGED <<selected, moved>>
    IN /\ call.op = "sd_read_sector" /\ UNCHANGED <<CardType, SDHCtype>>
       /\ \/ call.at = "cmd" /\ (\E a \in Replies("CMD17") : Exchange(a) /\ read(a.r))
          \/ call.at = "token" /\ TokenComes("block", SDHCtype) /\ Deliver(Block(SDHCtype))
          \/ call.at = "token" /\ TokenLost("block") /\ GiveUp

Drivers == \/ MMC_Init \/ MMC_Read \/ MMC_ReadMultiple \/ MMC_Write
           \/ spi_init \/ is_sdhc \/ wait_initV2 \/ wait_init \/ sd_read_sector

\* The card is pulled, and one is put in.
Pull == /\ card.mode # "out" /\ Slip(1) /\ card' = [card EXCEPT !.mode = "out"]
        /\ UNCHANGED <<selected, CardType, SDHCtype, call, answer, moved>>
Insert == /\ card.mode = "out"
          /\ \E c \in Cards : card' = [kind |-> c.kind, part |-> c.part, vol |-> c.vol,
                                       mode |-> "native", disk |-> FreshDisk(c)]
          /\ UNCHANGED <<selected, CardType, SDHCtype, call, answer, moved, faults>>
\* A card that was still busy when the driver gave up on it is done.
Settle == /\ card.mode = "busy" /\ call.op = None /\ card' = [card EXCEPT !.mode = "ready"]
          /\ UNCHANGED <<selected, CardType, SDHCtype, call, answer, moved, faults>>

-----------------------------------------------------------------------------
\* Every block the firmware moves is the sector of the card it asked for: the
\* type MMC_Init settled on, in a dialogue any answer of which can be lost, is
\* the one by which this card counts (mmc.c: "SDHC cards are addressed in
\* sectors not bytes").  When MMC_Init fails CardType says so, and this claims
\* nothing.
Misaddressed ==
    moved.op \in {"MMC_Read", "MMC_ReadMultiple", "MMC_Write"} /\ moved.asked # moved.on_card
SectorsMeant == CardType # None => ~Misaddressed
=============================================================================
