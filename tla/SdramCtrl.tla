----------------------------- MODULE SdramCtrl -----------------------------
(***************************************************************************)
(* rtl/sdram/sdram_ctrl.v: sixteen phases to a round, two access slots in  *)
(* a round, and the chipset, refresh, CPU, audio, host and RTG that share  *)
(* them.  A step is one rising edge of sysclk, at which the controller and *)
(* all its requesters advance; a variable is what is visible in the phase  *)
(* sdram_state names.  An address is the bank it falls in.                 *)
(*                                                                         *)
(* In front of the controller is its cache, as far as it asks for slots:   *)
(* only reads that miss, and writes.  Power-up and reset are not modelled: *)
(* a behaviour starts in the first phase after init_done.                  *)
(***************************************************************************)
EXTENDS Naturals

CONSTANTS
    Banks,           \* the banks of the SDRAM; bank 0 is the chipset's
    Clients,         \* who asks for slots at all
    REFRESHSCHEDULE, \* rounds between refreshes, less one
    RtgBanks,        \* the banks a frame buffer lies in
    RtgCrosses,      \* 1 if a frame buffer may run across banks, 0 if not
    ChipRun,         \* most rounds in a row that the chipset takes
    RtgRun,          \* most bursts before the RTG line buffer is full
    Arrivals         \* phases at whose end RTG, audio and the host may ask

ASSUME BanksAssumption ==
    /\ 0 \in Banks
    /\ RtgBanks \subseteq Banks \ {0} /\ RtgBanks # {}
ASSUME BoundsAssumption ==
    /\ REFRESHSCHEDULE \in Nat \ {0} /\ ChipRun \in Nat \ {0} /\ RtgRun \in Nat \ {0}
    /\ Arrivals \in [{"RTG", "AUDIO", "HOST"} -> SUBSET (0 .. 15)] /\ RtgCrosses \in {0, 1}
ASSUME ClientsAssumption ==
    Clients \subseteq {"CHIP", "READ", "WRITE", "AUDIO", "HOST", "RTG"}

Bit == {0, 1}
Phases == 0 .. 15

VARIABLES
    sdram_state,                            \* the phase
    slot1_type, slot1_bank, slot1_write,
    slot2_type, slot2_bank, slot2_write,
    writebuffer_hold,
    writebuffer_reg,                        \* the slot whose words these are
    refreshcnt, refresh_pending,
    sd_cmd, ba,                             \* the command on the pins
    zatn, cpu_reservertg, cpu_slot1ok, cpu_slot2ok,
    wb_reservertg, wb_slot1ok, wb_slot2ok, rtg_slot2ok, aud_slot1req,
    \* the CPU's unit, and the cache's machine behind it
    unit, cpu_we, cpu_wadr, cache_inhibit, cpuAddr_r,
    cpu_sm, write_ena, cpu_ack, cpu_acked, cache_req,
    writebuffer_req, writebufferAddr,
    \* the other requesters
    rtgce, rtgAddr, rtg_run, audce, hostce, hostwe, chip_run,
    \* the chip: of each bank, the clocks until it is idle again
    busy,
    \* history: whether the read that waits has been given a slot
    read_granted

slot1 == <<slot1_type, slot1_bank, slot1_write>>
slot2 == <<slot2_type, slot2_bank, slot2_write>>
refresh == <<refreshcnt, refresh_pending>>
posted == <<writebuffer_hold, writebuffer_reg>>
pins == <<sd_cmd, ba>>
flags == <<zatn, cpu_reservertg, cpu_slot1ok, cpu_slot2ok, wb_reservertg,
           wb_slot1ok, wb_slot2ok, rtg_slot2ok, aud_slot1req>>
cpu == <<unit, cpu_we, cpu_wadr, cache_inhibit, cpuAddr_r>>
cache == <<cpu_sm, write_ena, cpu_ack, cpu_acked, cache_req,
           writebuffer_req, writebufferAddr>>
rtg == <<rtgce, rtgAddr, rtg_run>>
vars == <<sdram_state, slot1, slot2, refresh, posted, pins, flags,
          cpu, cache, rtg, audce, hostce, hostwe, chip_run, busy, read_granted>>

Flag(p) == IF p THEN 1 ELSE 0

\* the two fill levels are the phase, one clock late
cache_fill_1 == sdram_state \in 9 .. 15 \cup {0}

\* Mutant: the level starts a phase early.
cache_fill_2_Early == sdram_state \in 0 .. 7

cache_fill_2 == sdram_state \in 1 .. 8

readcache_fill == \/ cache_fill_1 /\ slot1_type = "CPU_READCACHE"
                  \/ cache_fill_2 /\ slot2_type = "CPU_READCACHE"
hostena == cache_fill_1 /\ slot1_type = "HOST"

cpu_req == unit = "request"

-----------------------------------------------------------------------------
(* Which slot a requester may have, judged one clock before it is given.   *)

Slot1Free(b) == slot2_type = "IDLE" \/ slot2_bank # b

Slot2Free(b) ==
    /\ refresh_pending = 0
    /\ b # 0 \* Reserve bank 0 for slot 1
    /\ slot1_type = "IDLE" \/ slot1_bank # b

Judge ==
    /\ zatn' = Flag(hostce = 1 /\ Slot1Free(0))
    /\ cpu_reservertg' = Flag(rtgce = 1 /\ cpuAddr_r = rtgAddr)
    /\ cpu_slot1ok' = Flag(zatn = 0 /\ Slot1Free(cpuAddr_r))
    /\ cpu_slot2ok' = Flag(Slot2Free(cpuAddr_r))
    /\ wb_reservertg' = Flag(rtgce = 1 /\ writebufferAddr = rtgAddr)
    /\ wb_slot1ok' = Flag(zatn = 0 /\ Slot1Free(writebufferAddr))
    /\ wb_slot2ok' = Flag(Slot2Free(writebufferAddr))
    /\ rtg_slot2ok' =
         Flag(refresh_pending = 0 /\ (slot1_type = "IDLE" \/ slot1_bank # rtgAddr))
    /\ aud_slot1req' = Flag(slot1_type # "AUDIO" /\ audce = 1 /\ zatn = 0 /\ Slot1Free(0))

-----------------------------------------------------------------------------
(* The round, one action per phase or, where a slot is given, per taker.   *)

NoCommand == sd_cmd' = "INHIBIT" /\ ba' = 0
Command(c, b) == sd_cmd' = c /\ ba' = b

CountRounds ==
    IF refreshcnt = 0
    THEN refresh_pending' = 1 /\ refreshcnt' = REFRESHSCHEDULE
    ELSE refreshcnt' = refreshcnt - 1 /\ UNCHANGED refresh_pending

\* ph0: the first word of slot 2's posted write, and the refresh counter
Ph0 ==
    /\ sdram_state = 0
    /\ IF slot2_write = 1
       THEN Command("WRITE", slot2_bank) /\ writebuffer_hold' = 0
       ELSE NoCommand /\ UNCHANGED writebuffer_hold
    /\ CountRounds
    /\ UNCHANGED <<slot1, slot2, writebuffer_reg, chip_run>>

\* ph1: slot 1 is given
RefreshSlot == refresh_pending = 1 /\ slot2_type = "IDLE"
PostedSlot1 == writebuffer_req = 1 /\ wb_slot1ok = 1 /\ wb_reservertg = 0
ReadSlot1 == cache_req = 1 /\ cpu_slot1ok = 1 /\ cpu_reservertg = 0

Give1(t, b, w) ==
    /\ slot1_type' = t /\ slot1_bank' = b /\ slot1_write' = w
    /\ Command("ACTIVE", b)

Ph1Chip ==
    /\ sdram_state = 1 /\ "CHIP" \in Clients /\ chip_run < ChipRun
    /\ chip_run' = chip_run + 1
    /\ \E w \in Bit : Give1("CHIP", 0, w)
    /\ UNCHANGED <<slot2, refresh, posted>>

Ph1Refresh ==
    /\ sdram_state = 1 /\ RefreshSlot
    /\ slot1_type' = "REFRESH" /\ slot1_write' = 0 /\ refresh_pending' = 0
    /\ Command("AUTO_REFRESH", 0) /\ chip_run' = 0
    /\ UNCHANGED <<slot1_bank, slot2, refreshcnt, posted>>

\* the posted write's words are captured and the write buffer is held
Capture(slot) == writebuffer_reg' = slot /\ writebuffer_hold' = 1

Ph1Posted ==
    /\ sdram_state = 1 /\ ~RefreshSlot /\ PostedSlot1
    /\ Give1("CPU_WRITECACHE", writebufferAddr, 1)
    /\ Capture(1) /\ chip_run' = 0
    /\ UNCHANGED <<slot2, refresh>>

\* Mutant: the read is looked at before the posted write.
Ph1Read_First ==
    /\ sdram_state = 1 /\ ~RefreshSlot /\ ReadSlot1
    /\ Give1("CPU_READCACHE", cpuAddr_r, 0)
    /\ chip_run' = 0
    /\ UNCHANGED <<slot2, refresh, posted>>

Ph1Read ==
    /\ sdram_state = 1 /\ ~RefreshSlot /\ ~PostedSlot1 /\ ReadSlot1
    /\ Give1("CPU_READCACHE", cpuAddr_r, 0)
    /\ chip_run' = 0
    /\ UNCHANGED <<slot2, refresh, posted>>

NoCpuSlot1 == ~RefreshSlot /\ ~PostedSlot1 /\ ~ReadSlot1

Ph1Audio ==
    /\ sdram_state = 1 /\ NoCpuSlot1 /\ aud_slot1req = 1
    /\ Give1("AUDIO", 0, 0) /\ chip_run' = 0
    /\ UNCHANGED <<slot2, refresh, posted>>

Ph1Host ==
    /\ sdram_state = 1 /\ NoCpuSlot1 /\ aud_slot1req = 0 /\ zatn = 1
    /\ Give1("HOST", 0, hostwe) /\ chip_run' = 0
    /\ UNCHANGED <<slot2, refresh, posted>>

Ph1Idle ==
    /\ sdram_state = 1 /\ NoCpuSlot1 /\ aud_slot1req = 0 /\ zatn = 0
    /\ slot1_type' = "IDLE" /\ slot1_write' = 0 /\ NoCommand /\ chip_run' = 0
    /\ UNCHANGED <<slot1_bank, slot2, refresh, posted>>

Kept == UNCHANGED <<slot1, slot2, refresh, chip_run>>

\* ph2: the second word of slot 2's posted write
Ph2 ==
    /\ sdram_state = 2
    /\ IF slot2_write = 1 THEN Command("WRITE_AP", slot2_bank) ELSE NoCommand
    /\ Kept /\ UNCHANGED posted

\* ph4: slot 1 reads
Ph4 ==
    /\ sdram_state = 4
    /\ IF slot1_type \notin {"IDLE", "REFRESH"} /\ slot1_write = 0
       THEN Command("READ_AP", slot1_bank)
       ELSE NoCommand
    /\ Kept /\ UNCHANGED posted

\* ph8, ph10: slot 1 writes, whoever it is given to
Ph8 ==
    /\ sdram_state = 8
    /\ IF slot1_write = 1
       THEN Command("WRITE", slot1_bank) /\ writebuffer_hold' = 0
       ELSE NoCommand /\ UNCHANGED writebuffer_hold
    /\ Kept /\ UNCHANGED writebuffer_reg

Ph10 ==
    /\ sdram_state = 10
    /\ IF slot1_write = 1 THEN Command("WRITE_AP", slot1_bank) ELSE NoCommand
    /\ Kept /\ UNCHANGED posted

\* ph9: slot 2 is given
RtgSlot2 == rtgce = 1 /\ rtg_slot2ok = 1
PostedSlot2 == writebuffer_req = 1 /\ wb_slot2ok = 1
ReadSlot2 == cache_req = 1 /\ cpu_slot2ok = 1

Give2(t, b, w) ==
    /\ slot2_type' = t /\ slot2_bank' = b /\ slot2_write' = w
    /\ Command("ACTIVE", b)

Ph9Rtg ==
    /\ sdram_state = 9 /\ RtgSlot2
    /\ Give2("RTG", rtgAddr, 0)
    /\ UNCHANGED <<slot1, refresh, posted, chip_run>>

Ph9Posted ==
    /\ sdram_state = 9 /\ ~RtgSlot2 /\ PostedSlot2
    /\ Give2("CPU_WRITECACHE", writebufferAddr, 1)
    /\ Capture(2)
    /\ UNCHANGED <<slot1, refresh, chip_run>>

Ph9Read ==
    /\ sdram_state = 9 /\ ~RtgSlot2 /\ ~PostedSlot2 /\ ReadSlot2
    /\ Give2("CPU_READCACHE", cpuAddr_r, 0)
    /\ UNCHANGED <<slot1, refresh, posted, chip_run>>

Ph9Idle ==
    /\ sdram_state = 9 /\ ~RtgSlot2 /\ ~PostedSlot2 /\ ~ReadSlot2
    /\ slot2_type' = "IDLE" /\ slot2_write' = 0 /\ NoCommand
    /\ UNCHANGED <<slot1, slot2_bank, refresh, posted, chip_run>>

\* ph12: slot 2 reads
Ph12 ==
    /\ sdram_state = 12
    /\ IF slot2_type # "IDLE" /\ slot2_write = 0
       THEN Command("READ_AP", slot2_bank)
       ELSE NoCommand
    /\ Kept /\ UNCHANGED posted

Quiet ==
    /\ sdram_state \in {3, 5, 6, 7, 11, 13, 14, 15}
    /\ NoCommand /\ Kept /\ UNCHANGED posted

NextPhase == sdram_state' = (sdram_state + 1) % 16

Controller ==
    \/ Ph0
    \/ Ph1Chip \/ Ph1Refresh \/ Ph1Posted \/ Ph1Read \/ Ph1Audio \/ Ph1Host \/ Ph1Idle
    \/ Ph2 \/ Ph4 \/ Ph8
    \/ Ph9Rtg \/ Ph9Posted \/ Ph9Read \/ Ph9Idle
    \/ Ph10 \/ Ph12 \/ Quiet

-----------------------------------------------------------------------------
(* The CPU: one unit at a time.  The fields go up a clock before the       *)
(* request at least; longer before makes no difference here.  The gate is  *)
(* open in phases 2, 6, 10 and 14, and a read passes it closed when the    *)
(* line buffer seems to have it (a compare that may still be of the        *)
(* address before).                                                        *)

\* Slip: it opens with enaWRreg itself, a clock later.
Gate_Late == sdram_state % 4 = 3

Gate == sdram_state % 4 = 2

Hit == cpu_we = 0 /\ cache_inhibit = 0 /\ cpu_sm = "IDLE"

Fields ==
    /\ unit' = "setup" /\ cpu_wadr' \in Banks
    /\ \/ "WRITE" \in Clients /\ cpu_we' = 1 /\ cache_inhibit' = 0 /\ sdram_state % 4 = 1
       \/ /\ "READ" \in Clients /\ cpu_we' = 0
          /\ cache_inhibit' \in IF cpu_wadr' = 0 THEN Bit ELSE {0}

CpuRests == unit = "none" /\ UNCHANGED <<unit, cpu_we, cpu_wadr, cache_inhibit>>

CpuAsks == unit = "none" /\ Fields

CpuWaitsForGate ==
    /\ unit = "setup"
    /\ unit' = IF Gate \/ Hit THEN "request" ELSE "setup"
    /\ UNCHANGED <<cpu_we, cpu_wadr, cache_inhibit>>

CpuWaits == cpu_req /\ cpu_ack = 0 /\ UNCHANGED <<unit, cpu_we, cpu_wadr, cache_inhibit>>

CpuDone ==
    /\ cpu_req /\ cpu_ack = 1
    /\ \/ unit' = "none" /\ UNCHANGED <<cpu_we, cpu_wadr, cache_inhibit>>
       \/ Fields

Cpu == (CpuRests \/ CpuAsks \/ CpuWaitsForGate \/ CpuWaits \/ CpuDone) /\ cpuAddr_r' = cpu_wadr

-----------------------------------------------------------------------------
(* The cache's CPU-side machine, one action per state and outcome.         *)

\* when the SDRAM ack'ed the write, lower the request
LowerWrite == writebuffer_req' = IF writebuffer_hold = 1 THEN 0 ELSE writebuffer_req
SameWrite == LowerWrite /\ UNCHANGED writebufferAddr

\* when the CPU drops its request, lower the acknowledge too
Ack(a) == cpu_ack' = IF cpu_req THEN a ELSE 0

MayPost == writebuffer_req = 0 /\ writebuffer_hold = 0

IdleRests ==
    /\ cpu_sm = "IDLE" /\ (~cpu_req \/ (cpu_we = 1 /\ write_ena = 0))
    /\ write_ena' = Flag(MayPost)
    /\ SameWrite /\ cache_req' = 0 /\ Ack(cpu_ack) /\ UNCHANGED <<cpu_sm, cpu_acked>>

IdleWrite ==
    /\ cpu_sm = "IDLE" /\ cpu_req /\ cpu_we = 1 /\ write_ena = 1
    /\ writebufferAddr' = cpu_wadr
    /\ writebuffer_req' = IF writebuffer_hold = 1 THEN 0 ELSE 1
    /\ cpu_sm' = "WRITE" /\ write_ena' = Flag(MayPost)
    /\ cache_req' = 0 /\ Ack(cpu_ack) /\ UNCHANGED cpu_acked

IdleRead ==
    /\ cpu_sm = "IDLE" /\ cpu_req /\ cpu_we = 0
    /\ cpu_sm' = "READ" /\ write_ena' = Flag(MayPost)
    /\ SameWrite /\ cache_req' = 0 /\ Ack(cpu_ack) /\ UNCHANGED cpu_acked

Write ==
    /\ cpu_sm = "WRITE" /\ cpu_sm' = "WB"
    /\ Ack(1) /\ SameWrite /\ write_ena' = 0 /\ cache_req' = 0 /\ UNCHANGED cpu_acked

WriteBack ==
    /\ cpu_sm = "WB" /\ cpu_sm' = IF cpu_req THEN "WB" ELSE "IDLE"
    /\ Ack(cpu_ack) /\ SameWrite /\ write_ena' = 0 /\ cache_req' = 0 /\ UNCHANGED cpu_acked

\* a miss; the burst of an inhibited read before it may still be going
Miss ==
    /\ cpu_sm = "READ"
    /\ IF readcache_fill
       THEN cache_req' = 0 /\ cpu_sm' = "SDWAI"
       ELSE cache_req' = 1 /\ cpu_sm' = "FILL1"
    /\ cpu_acked' = 0
    /\ Ack(cpu_ack) /\ SameWrite /\ write_ena' = 0

SdramWait ==
    /\ cpu_sm = "SDWAI"
    /\ IF readcache_fill
       THEN cache_req' = 0 /\ UNCHANGED cpu_sm
       ELSE cache_req' = 1 /\ cpu_sm' = "FILL1"
    /\ Ack(cpu_ack) /\ SameWrite /\ write_ena' = 0 /\ UNCHANGED cpu_acked

FillWaits ==
    /\ cpu_sm = "FILL1" /\ ~readcache_fill
    /\ cache_req' = 1
    /\ Ack(cpu_ack) /\ SameWrite /\ write_ena' = 0 /\ UNCHANGED <<cpu_sm, cpu_acked>>

FillBegins ==
    /\ cpu_sm = "FILL1" /\ readcache_fill
    /\ cache_req' = 0
    /\ cpu_sm' = IF cache_inhibit = 1 THEN "FILLW" ELSE "FILL2"
    /\ Ack(1) /\ SameWrite /\ write_ena' = 0 /\ UNCHANGED cpu_acked

\* CPU_SM_FILL2, CPU_SM_FILLW: a fill takes the whole burst, an inhibited
\* read leaves it to run out
FillGoesOn ==
    /\ cpu_sm = "FILL2" /\ readcache_fill
    /\ cpu_acked' = IF cpu_req THEN cpu_acked ELSE 1
    /\ Ack(cpu_ack) /\ SameWrite /\ write_ena' = 0 /\ cache_req' = 0 /\ UNCHANGED cpu_sm

FillEnds ==
    /\ \/ /\ cpu_sm = "FILL2" /\ ~readcache_fill
          /\ cpu_sm' = IF ~cpu_req \/ cpu_acked = 1 THEN "IDLE" ELSE "FILL2"
       \/ cpu_sm = "FILLW" /\ cpu_sm' = IF cpu_req THEN "FILLW" ELSE "IDLE"
    /\ Ack(cpu_ack) /\ SameWrite /\ write_ena' = 0 /\ cache_req' = 0 /\ UNCHANGED cpu_acked

Cache ==
    \/ IdleRests \/ IdleWrite \/ IdleRead \/ Write \/ WriteBack
    \/ Miss \/ SdramWait \/ FillWaits \/ FillBegins \/ FillGoesOn \/ FillEnds

-----------------------------------------------------------------------------
(* RTG, audio and the host.                                                *)

MayArrive(c) == c \in Clients /\ sdram_state \in Arrivals[c]

\* the frame buffer's stream: a burst of eight words ends at ph8
RtgBurstEnds == sdram_state = 8 /\ slot2_type = "RTG" /\ rtgce = 1

RtgRests == ~RtgBurstEnds /\ UNCHANGED rtg

RtgAsks == rtgce = 0 /\ MayArrive("RTG") /\ rtgce' = 1 /\ UNCHANGED <<rtgAddr, rtg_run>>

\* vertical blanking: the stream goes back to the base address
RtgBlanked ==
    rtgce = 1 /\ ~RtgBurstEnds /\ MayArrive("RTG") /\ rtgce' = 0 /\ rtg_run' = 0 /\ rtgAddr' \in RtgBanks

RtgBurst ==
    /\ RtgBurstEnds
    /\ rtgAddr' \in IF RtgCrosses = 1 THEN RtgBanks ELSE {rtgAddr}
    /\ \/ rtg_run + 1 < RtgRun /\ rtgce' = 1 /\ rtg_run' = rtg_run + 1
       \/ rtgce' = 0 /\ rtg_run' = 0

Rtg == RtgRests \/ RtgAsks \/ RtgBlanked \/ RtgBurst

\* the audio stream: a burst ends at ph0, and the buffer may be full
AudioRests == UNCHANGED audce
AudioAsks == audce = 0 /\ MayArrive("AUDIO") /\ audce' = 1
AudioFull == audce = 1 /\ sdram_state = 0 /\ slot1_type = "AUDIO" /\ audce' = 0

Audio == AudioRests \/ AudioAsks \/ AudioFull

\* the host's cache: the request is up until the answer is there, and a new
\* one waits for the answer before it to be over
HostRests == ~(hostce = 1 /\ hostena) /\ UNCHANGED <<hostce, hostwe>>
HostAsks ==
    /\ hostce = 0 /\ ~hostena /\ MayArrive("HOST")
    /\ hostce' = 1 /\ hostwe' \in Bit
HostAnswered == hostce = 1 /\ hostena /\ hostce' = 0 /\ hostwe' = 0

Host == HostRests \/ HostAsks \/ HostAnswered

-----------------------------------------------------------------------------
(* The chip, as far as its banks go: an ACTIVE opens one, the last column  *)
(* command of an access closes it (auto-precharge) after the burst of      *)
(* eight, or the write recovery, and the precharge time; a refresh takes   *)
(* all of them.                                                            *)

Open == 15
CasLatency == 3
ReadTail == 10
WriteTail == 4
RefreshTail == 7

Chip ==
    busy' = [b \in Banks |->
        IF sd_cmd = "AUTO_REFRESH" THEN RefreshTail
        ELSE IF sd_cmd = "ACTIVE" /\ ba = b THEN Open
        ELSE IF sd_cmd = "READ_AP" /\ ba = b THEN ReadTail
        ELSE IF sd_cmd = "WRITE_AP" /\ ba = b THEN WriteTail
        ELSE IF busy[b] \in {0, Open} THEN busy[b] ELSE busy[b] - 1]

-----------------------------------------------------------------------------
ReadGiven == \/ sdram_state = 1 /\ slot1_type' = "CPU_READCACHE"
             \/ sdram_state = 9 /\ slot2_type' = "CPU_READCACHE"

Remember ==
    read_granted' = IF ReadGiven THEN 1 ELSE IF cpu_sm = "READ" THEN 0 ELSE read_granted

Init ==
    /\ sdram_state = 0
    /\ slot1_type = "IDLE" /\ slot1_bank = 0 /\ slot1_write = 0
    /\ slot2_type = "IDLE" /\ slot2_bank = 0 /\ slot2_write = 0
    /\ writebuffer_hold = 0 /\ writebuffer_reg = 1
    /\ refreshcnt = REFRESHSCHEDULE /\ refresh_pending = 0
    /\ sd_cmd = "INHIBIT" /\ ba = 0
    /\ zatn = 0 /\ aud_slot1req = 0 /\ rtg_slot2ok = 1
    /\ cpu_reservertg = 0 /\ cpu_slot1ok = 1 /\ cpu_slot2ok = 0
    /\ wb_reservertg = 0 /\ wb_slot1ok = 1 /\ wb_slot2ok = 0
    /\ unit = "none" /\ cpu_we = 0 /\ cpu_wadr = 0 /\ cache_inhibit = 0 /\ cpuAddr_r = 0
    /\ cpu_sm = "IDLE" /\ write_ena = 1 /\ cpu_ack = 0 /\ cpu_acked = 0 /\ cache_req = 0
    /\ writebuffer_req = 0 /\ writebufferAddr = 0
    /\ rtgce = 0 /\ rtgAddr \in RtgBanks /\ rtg_run = 0
    /\ audce = 0 /\ hostce = 0 /\ hostwe = 0 /\ chip_run = 0
    /\ busy = [b \in Banks |-> 0] /\ read_granted = 0

Next ==
    /\ Controller /\ NextPhase /\ Judge
    /\ Cpu /\ Cache /\ Rtg /\ Audio /\ Host
    /\ Chip /\ Remember

Spec == Init /\ [][Next]_vars


-----------------------------------------------------------------------------
\* The registers hold values of their types.
TypeOK ==
    /\ sdram_state \in Phases
    /\ slot1_type \in {"IDLE", "REFRESH", "CHIP", "CPU_READCACHE", "CPU_WRITECACHE", "AUDIO", "HOST"}
    /\ slot2_type \in {"IDLE", "RTG", "CPU_READCACHE", "CPU_WRITECACHE"}
    /\ slot1_bank \in Banks /\ slot2_bank \in Banks
    /\ slot1_write \in Bit /\ slot2_write \in Bit
    /\ writebuffer_hold \in Bit /\ writebuffer_reg \in {1, 2}
    /\ refreshcnt \in 0 .. REFRESHSCHEDULE /\ refresh_pending \in Bit
    /\ sd_cmd \in {"INHIBIT", "ACTIVE", "READ_AP", "WRITE", "WRITE_AP", "AUTO_REFRESH"}
    /\ ba \in Banks
    /\ zatn \in Bit /\ cpu_reservertg \in Bit /\ cpu_slot1ok \in Bit /\ cpu_slot2ok \in Bit
    /\ wb_reservertg \in Bit /\ wb_slot1ok \in Bit /\ wb_slot2ok \in Bit
    /\ rtg_slot2ok \in Bit /\ aud_slot1req \in Bit
    /\ unit \in {"none", "setup", "request"} /\ cpu_we \in Bit /\ cpu_wadr \in Banks
    /\ cache_inhibit \in Bit /\ cpuAddr_r \in Banks
    /\ cpu_sm \in {"IDLE", "WRITE", "WB", "READ", "SDWAI", "FILL1", "FILL2", "FILLW"}
    /\ write_ena \in Bit /\ cpu_ack \in Bit /\ cpu_acked \in Bit /\ cache_req \in Bit
    /\ writebuffer_req \in Bit /\ writebufferAddr \in Banks
    /\ rtgce \in Bit /\ rtgAddr \in RtgBanks /\ rtg_run \in 0 .. RtgRun
    /\ audce \in Bit /\ hostce \in Bit /\ hostwe \in Bit /\ chip_run \in 0 .. ChipRun
    /\ busy \in [Banks -> 0 .. Open]
    /\ read_granted \in Bit

\* "We have two slots which can operate concurrently as long as they're
\* accessing different banks": the slots in use are never in the same bank.
\* What a slot was judged free for, a clock before it is given and with an
\* address that may have moved since, is still free when it is given.
DifferentBanks ==
    slot1_type \notin {"IDLE", "REFRESH"} /\ slot2_type # "IDLE" => slot1_bank # slot2_bank

\* A bank is opened only when the chip has closed it, whichever slot used it
\* last, and the refresh finds all of them closed: the overlap of the two
\* slots' pipelines leaves the precharge its time.
OpensClosedBanks ==
    /\ sd_cmd = "ACTIVE" => busy[ba] = 0
    /\ sd_cmd = "AUTO_REFRESH" => \A b \in Banks : busy[b] = 0

\* A column command finds its bank open: nobody closed or took it between
\* the slot's row and its last word, eleven clocks later.
ColumnsInOpenBanks ==
    sd_cmd \in {"READ_AP", "WRITE", "WRITE_AP"} => busy[ba] = Open

\* Both words of a posted write are those of the write the slot was given
\* to: the next one is not captured before the second word is out, although
\* the hold is given up with the first.
WordsOfOneWrite ==
    /\ slot1_type = "CPU_WRITECACHE" /\ sdram_state \in 2 .. 10 => writebuffer_reg = 1
    /\ slot2_type = "CPU_WRITECACHE" /\ sdram_state \in 10 .. 15 \cup 0 .. 2
         => writebuffer_reg = 2

\* The first beat that the cache takes is the first word of its own read:
\* the fill level of the slot, which is a matter of phase alone, meets the
\* chip's CAS latency in either slot, and the tail of an inhibited read's
\* burst is never taken for the answer to the read behind it.
FirstBeatInTime ==
    cpu_sm = "FILL1" /\ readcache_fill
      => read_granted = 1 /\ busy[cpuAddr_r] = ReadTail - CasLatency

\* A write that the CPU is told is done has been posted: the write buffer was
\* empty and not held, though that was judged a clock before.
EveryWriteIsPosted ==
    [][cpu_sm = "IDLE" /\ cpu_sm' = "WRITE" => writebuffer_req = 0 /\ writebuffer_req' = 1]_vars

\* A read is given one slot, although its request stays up until the data
\* come, eight clocks and another allocation later.
GivenOnce == [][ReadGiven => read_granted = 0]_vars

\* A read never overtakes the posted write to the bank it reads: memory is
\* read as the CPU wrote it.
ReadBehindWrite == [][ReadGiven => ~(writebuffer_req = 1 /\ writebufferAddr = cpuAddr_r)]_vars

\* A refresh that falls due finds the one before it done, however the
\* chipset and RTG hold it off: none of the rows' refreshes is lost.
NoRefreshLost == [][refreshcnt = 0 /\ sdram_state = 0 => refresh_pending = 0]_vars

\* No command on the pins breaks a rule of the banks.
BankRules == TypeOK /\ DifferentBanks /\ OpensClosedBanks /\ ColumnsInOpenBanks

\* The words that go over the bus in a slot are the slot's own.
WordsInTime == WordsOfOneWrite /\ FirstBeatInTime

\* What is asked of the controller gets one slot, behind what it must follow.
SlotRules == EveryWriteIsPosted /\ GivenOnce /\ ReadBehindWrite /\ NoRefreshLost
=============================================================================
