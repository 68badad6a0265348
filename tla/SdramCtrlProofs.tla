-------------------------- MODULE SdramCtrlProofs --------------------------
(***************************************************************************)
(* For any banks, any refresh schedule, any run of the chipset and any     *)
(* moments at which RTG, audio and the host ask: what is asked gets one    *)
(* slot, in order, and no refresh is lost (SlotRules); the words of a slot *)
(* are its own (WordsInTime); and, for a frame buffer within a bank, no    *)
(* command breaks a rule of the banks (BankRules).                         *)
(***************************************************************************)
EXTENDS SdramCtrl, TLAPS

-----------------------------------------------------------------------------
(* The CPU and its cache.                                                  *)

\* From a request on, the registered address is the unit's.
AddressRegistered == cpu_req => cpuAddr_r = cpu_wadr

\* The acknowledge is up only where a unit is being answered, and falls with it.
AckInPlace ==
    /\ cpu_sm \notin {"WB", "FILL2", "FILLW"} => cpu_ack = 0
    /\ cpu_sm = "FILL2" /\ cpu_acked = 1 => cpu_ack = 0

\* A read that missed waits, and asks for a slot in CPU_SM_FILL1 alone.
Missed == {"READ", "SDWAI", "FILL1"}
ReadWaits ==
    /\ cpu_sm \in Missed => cpu_req /\ cpu_we = 0
    /\ cache_req = 1 <=> cpu_sm = "FILL1"
    /\ cpu_sm = "SDWAI" => read_granted = 0
    /\ cpu_sm \in {"SDWAI", "FILL1"} => cpu_acked = 0

\* The write buffer neither asks nor is held.
MayPostNow == writebuffer_req = 0 /\ writebuffer_hold = 0
\* A write waits at the cache.
WriteWaits == cpu_sm = "IDLE" /\ cpu_req /\ cpu_we = 1

\* When a write can be at which place: by the gate, by the phases in which
\* the hold falls and by those in which a burst ends.
SetupOfWrite == unit = "setup" /\ cpu_we = 1
WritePhases ==
    /\ SetupOfWrite => sdram_state \in {2, 6, 10, 14}
    /\ cpu_sm = "IDLE" /\ write_ena = 1 => MayPostNow
    /\ WriteWaits /\ write_ena = 0 /\ MayPostNow => sdram_state \in {1, 2, 9, 10}
    /\ WriteWaits /\ write_ena = 1 => sdram_state \in {2, 3, 7, 10, 11, 15}
    /\ cpu_sm = "WRITE" => /\ cpu_req /\ cpu_we = 1
                           /\ writebuffer_req = 1 /\ writebuffer_hold = 0
                           /\ sdram_state \in {0, 3, 4, 8, 11, 12}
    /\ cpu_sm = "WB" /\ cpu_req => /\ cpu_ack = 1 /\ ~MayPostNow
                                   /\ sdram_state \in {1, 4, 5, 9, 12, 13}
    /\ cpu_sm = "WB" /\ SetupOfWrite => ~MayPostNow

-----------------------------------------------------------------------------
(* The slot of a read.                                                     *)

\* From the grant to the first beat.
Slot1Waits == 2 .. 9
Slot2Waits == 10 .. 15 \cup {0, 1}

Reads1 == slot1_type = "CPU_READCACHE" /\ sdram_state \in Slot1Waits
Reads2 == slot2_type = "CPU_READCACHE" /\ sdram_state \in Slot2Waits
\* the rest of the burst
Burst1 == slot1_type = "CPU_READCACHE" /\ sdram_state \in Slot2Waits
Burst2 == slot2_type = "CPU_READCACHE" /\ sdram_state \in Slot1Waits

\* A slot is on its way to the cache exactly while the read that was granted
\* one waits, in the bank of its address; the burst before is over by then.
OwnSlot ==
    /\ Reads1 => cpu_sm = "FILL1" /\ read_granted = 1 /\ slot1_bank = cpuAddr_r
    /\ Reads2 => cpu_sm = "FILL1" /\ read_granted = 1 /\ slot2_bank = cpuAddr_r
    /\ cpu_sm = "FILL1" /\ read_granted = 1 => Reads1 \/ Reads2
    /\ cpu_sm = "FILL1" => ~Burst1 /\ ~Burst2

\* While a burst is taken its acknowledge comes and goes.
BurstTaken ==
    /\ cpu_sm = "FILL2" =>
         /\ Burst1 \/ Burst2
         /\ sdram_state \in {2, 10} => cpu_req /\ cpu_ack = 1
         /\ sdram_state \in {3, 11} => ~cpu_req
         /\ sdram_state \notin {2, 3, 10, 11} => cpu_acked = 1
    /\ cpu_sm = "FILLW" => \/ sdram_state \in {2, 10} /\ cpu_req /\ cpu_ack = 1
                           \/ sdram_state \in {3, 11} /\ ~cpu_req

-----------------------------------------------------------------------------
(* What was judged a clock before still holds.                             *)

Apart1(b) == slot2_type = "IDLE" \/ slot2_bank # b
Apart2(b) == b # 0 /\ (slot1_type = "IDLE" \/ slot1_bank # b)

\* The flags of a read, and of the write buffer when the grant comes.
JudgedRight ==
    /\ cpu_sm \in Missed /\ sdram_state # 10 /\ cpu_slot1ok = 1 => Apart1(cpuAddr_r)
    /\ cpu_sm \in Missed /\ sdram_state # 2 /\ cpu_slot2ok = 1 => Apart2(cpuAddr_r)
    /\ sdram_state = 1 /\ writebuffer_req = 1 /\ wb_slot1ok = 1 => Apart1(writebufferAddr)
    /\ sdram_state = 9 /\ writebuffer_req = 1 /\ wb_slot2ok = 1 => Apart2(writebufferAddr)

\* Of a read and a write to the same bank the same is judged.
JudgedAlike ==
    cpu_sm \in Missed /\ writebufferAddr = cpuAddr_r =>
        /\ wb_slot1ok = cpu_slot1ok /\ wb_slot2ok = cpu_slot2ok
        /\ wb_reservertg = cpu_reservertg

-----------------------------------------------------------------------------
(* The write buffer and the refresh.                                       *)

Posts1 == slot1_type = "CPU_WRITECACHE"
Posts2 == slot2_type = "CPU_WRITECACHE"

\* A slot that posts a write holds the buffer until its first word is out, and
\* nothing is asked of the buffer meanwhile but by the clock of the grant.
Posting ==
    /\ Posts1 => slot1_write = 1
    /\ Posts2 <=> slot2_write = 1
    /\ writebuffer_hold = 1 <=> \/ Posts1 /\ sdram_state \in 2 .. 8
                                \/ Posts2 /\ sdram_state \in 10 .. 15 \cup {0}
    /\ Posts1 /\ sdram_state \in 3 .. 9 => writebuffer_req = 0
    /\ Posts2 /\ sdram_state \in 11 .. 15 \cup {0, 1} => writebuffer_req = 0

\* A refresh that is due keeps slot 2 empty, and then only the chipset is
\* before it: it has had every round since the first.
RefreshDue ==
    refresh_pending = 1 =>
        /\ sdram_state \notin {0, 1} =>
             cpu_slot2ok = 0 /\ wb_slot2ok = 0 /\ rtg_slot2ok = 0
        /\ sdram_state \in 10 .. 15 \cup {0} => slot2_type = "IDLE"
        /\ sdram_state = 1 =>
             \/ refreshcnt = REFRESHSCHEDULE
             \/ slot2_type = "IDLE" /\ chip_run + 1 >= REFRESHSCHEDULE - refreshcnt
        /\ sdram_state # 1 => chip_run >= REFRESHSCHEDULE - refreshcnt

-----------------------------------------------------------------------------
(* The banks.                                                              *)

\* Slot 2 is never in the chipset's bank, and RTG's next burst not in the bank
\* of slot 1.
BanksApart ==
    /\ slot2_type # "IDLE" => slot2_bank # 0
    /\ rtgce = 1 /\ sdram_state # 2 /\ rtg_slot2ok = 1
         => slot1_type = "IDLE" \/ slot1_bank # rtgAddr
    /\ DifferentBanks

\* What the slots are when they are not in use, and beside a refresh.
SlotShapes ==
    /\ slot1_type \in {"IDLE", "REFRESH", "CPU_READCACHE"} => slot1_write = 0
    /\ slot1_type = "REFRESH" /\ sdram_state \in 2 .. 9 => slot2_type = "IDLE"

InUse1 == slot1_type \notin {"IDLE", "REFRESH"}
InUse2 == slot2_type # "IDLE"

\* The command on the pins, by phase and slot.
Pins ==
    /\ sd_cmd = "AUTO_REFRESH" <=> sdram_state = 2 /\ slot1_type = "REFRESH"
    /\ sd_cmd = "ACTIVE" <=> (sdram_state = 2 /\ InUse1) \/ (sdram_state = 10 /\ InUse2)
    /\ sd_cmd = "READ_AP" <=> \/ sdram_state = 5 /\ InUse1 /\ slot1_write = 0
                              \/ sdram_state = 13 /\ InUse2 /\ slot2_write = 0
    /\ sd_cmd = "WRITE" <=> \/ sdram_state = 9 /\ slot1_write = 1
                            \/ sdram_state = 1 /\ slot2_write = 1
    /\ sd_cmd = "WRITE_AP" <=> \/ sdram_state = 11 /\ slot1_write = 1
                               \/ sdram_state = 3 /\ slot2_write = 1
    /\ sd_cmd \notin {"AUTO_REFRESH", "INHIBIT"} =>
         ba = IF sdram_state \in {2, 5, 9, 11} THEN slot1_bank ELSE slot2_bank

\* The clocks until a slot's bank is idle, by phase.
Clocks1 ==
    IF slot1_type = "REFRESH" THEN IF sdram_state \in 3 .. 9 THEN 10 - sdram_state ELSE 0
    ELSE IF slot1_write = 1
    THEN IF sdram_state \in 3 .. 11 THEN Open
         ELSE IF sdram_state \in 12 .. 15 THEN 16 - sdram_state ELSE 0
    ELSE IF sdram_state \in 3 .. 5 THEN Open
         ELSE IF sdram_state \in 6 .. 15 THEN 16 - sdram_state ELSE 0
Clocks2 ==
    IF slot2_write = 1
    THEN IF sdram_state \in 11 .. 15 \cup 0 .. 3 THEN Open
         ELSE IF sdram_state \in 4 .. 8 THEN 8 - sdram_state ELSE 0
    ELSE IF sdram_state \in 11 .. 13 THEN Open
         ELSE IF sdram_state \in 14 .. 15 THEN 24 - sdram_state
         ELSE IF sdram_state \in 0 .. 8 THEN 8 - sdram_state ELSE 0

Uses1(b) == slot1_type = "REFRESH" \/ (InUse1 /\ slot1_bank = b)
Uses2(b) == InUse2 /\ slot2_bank = b
BusyAsUsed ==
    \A b \in Banks :
        busy[b] = IF Uses1(b) /\ Clocks1 > 0 THEN Clocks1 ELSE IF Uses2(b) THEN Clocks2 ELSE 0

-----------------------------------------------------------------------------
Requests == AddressRegistered /\ AckInPlace /\ ReadWaits /\ WritePhases /\ BurstTaken
Grants == OwnSlot /\ JudgedRight /\ JudgedAlike /\ Posting /\ RefreshDue
IInv == TypeOK /\ Requests /\ Grants /\ SlotShapes /\ WordsOfOneWrite
Rows == BanksApart /\ Pins /\ BusyAsUsed
-----------------------------------------------------------------------------
(* What a round does, by phase.                                            *)

LEMMA PhaseGoesOn ==
    ASSUME sdram_state \in Phases, NextPhase
    PROVE  /\ sdram_state' \in Phases
           /\ sdram_state' = IF sdram_state = 15 THEN 0 ELSE sdram_state + 1
BY DEF Phases, NextPhase

\* The phases of the gate and of the enable before it.
LEMMA GatePhases ==
    ASSUME sdram_state \in Phases
    PROVE  /\ sdram_state % 4 = 1 <=> sdram_state \in {1, 5, 9, 13}
           /\ sdram_state % 4 = 2 <=> sdram_state \in {2, 6, 10, 14}
BY DEF Phases

\* A slot is kept until it is given again.
LEMMA SlotsKept ==
    ASSUME Controller
    PROVE  /\ sdram_state # 1 => UNCHANGED <<slot1_type, slot1_bank, slot1_write, chip_run>>
           /\ sdram_state # 9 => UNCHANGED <<slot2_type, slot2_bank, slot2_write>>
           /\ sdram_state # 0 => UNCHANGED refreshcnt
           /\ sdram_state \notin {0, 1} => UNCHANGED refresh_pending
           /\ sdram_state \notin {0, 1, 8, 9} => UNCHANGED writebuffer_hold
           /\ sdram_state \notin {1, 9} => UNCHANGED writebuffer_reg
<1> USE DEF slot1, slot2, refresh, posted, Kept
<1>1. CASE Ph0 \/ Ph2 \/ Ph4 \/ Ph8 \/ Ph10 \/ Ph12 \/ Quiet
  BY <1>1 DEF Ph0, Ph2, Ph4, Ph8, Ph10, Ph12, Quiet
<1>2. CASE Ph1Chip \/ Ph1Refresh \/ Ph1Posted \/ Ph1Read \/ Ph1Audio \/ Ph1Host \/ Ph1Idle
  BY <1>2 DEF Ph1Chip, Ph1Refresh, Ph1Posted, Ph1Read, Ph1Audio, Ph1Host, Ph1Idle
<1>3. CASE Ph9Rtg \/ Ph9Posted \/ Ph9Read \/ Ph9Idle
  BY <1>3 DEF Ph9Rtg, Ph9Posted, Ph9Read, Ph9Idle
<1> QED
  BY <1>1, <1>2, <1>3 DEF Controller

\* ph1
LEMMA Slot1Given ==
    ASSUME Controller, sdram_state = 1
    PROVE  /\ slot1_type' \in {"IDLE", "REFRESH", "CHIP", "CPU_READCACHE", "CPU_WRITECACHE", "AUDIO", "HOST"}
           /\ slot1_type' = "CPU_READCACHE" =>
                /\ ~PostedSlot1 /\ cache_req = 1 /\ cpu_slot1ok = 1
                /\ slot1_bank' = cpuAddr_r /\ slot1_write' = 0
           /\ slot1_type' = "CPU_WRITECACHE" =>
                /\ writebuffer_req = 1 /\ wb_slot1ok = 1
                /\ slot1_bank' = writebufferAddr /\ slot1_write' = 1
                /\ writebuffer_reg' = 1 /\ writebuffer_hold' = 1
           /\ slot1_type' # "CPU_WRITECACHE" => UNCHANGED posted
           /\ slot1_type' \in {"CHIP", "AUDIO", "HOST"} => slot1_bank' = 0
           /\ slot1_type' \in {"IDLE", "REFRESH"} => slot1_write' = 0 /\ slot1_bank' = slot1_bank
           /\ slot1_type' \in {"CHIP", "HOST"} => slot1_write' \in {0, 1, hostwe}
           /\ slot1_type' = "AUDIO" => slot1_write' = 0
           /\ slot1_type' = "REFRESH" => refresh_pending' = 0 /\ slot2_type = "IDLE"
           /\ slot1_type' # "REFRESH" => refresh_pending' = refresh_pending
           /\ slot1_type' \notin {"REFRESH", "CHIP"} => ~RefreshSlot
           /\ slot1_type' = "CHIP" => chip_run < ChipRun /\ chip_run' = chip_run + 1
           /\ slot1_type' # "CHIP" => chip_run' = 0
<1> USE DEF slot1, slot2, refresh, posted, Give1, Capture
<1>1. CASE Ph1Chip
  BY <1>1 DEF Ph1Chip, Bit
<1>2. CASE Ph1Refresh
  BY <1>2 DEF Ph1Refresh, RefreshSlot
<1>3. CASE Ph1Posted
  BY <1>3 DEF Ph1Posted, PostedSlot1
<1>4. CASE Ph1Read
  BY <1>4 DEF Ph1Read, ReadSlot1
<1>5. CASE Ph1Audio \/ Ph1Host \/ Ph1Idle
  BY <1>5 DEF Ph1Audio, Ph1Host, Ph1Idle, NoCpuSlot1
<1> QED
  BY <1>1, <1>2, <1>3, <1>4, <1>5
  DEF Controller, Ph0, Ph2, Ph4, Ph8, Ph9Rtg, Ph9Posted, Ph9Read, Ph9Idle, Ph10, Ph12, Quiet

\* ph9
LEMMA Slot2Given ==
    ASSUME Controller, sdram_state = 9
    PROVE  /\ slot2_type' \in {"IDLE", "RTG", "CPU_READCACHE", "CPU_WRITECACHE"}
           /\ slot2_type' = "RTG" =>
                rtgce = 1 /\ rtg_slot2ok = 1 /\ slot2_bank' = rtgAddr /\ slot2_write' = 0
           /\ slot2_type' = "CPU_READCACHE" =>
                /\ ~PostedSlot2 /\ cache_req = 1 /\ cpu_slot2ok = 1
                /\ slot2_bank' = cpuAddr_r /\ slot2_write' = 0
           /\ slot2_type' = "CPU_WRITECACHE" =>
                /\ writebuffer_req = 1 /\ wb_slot2ok = 1
                /\ slot2_bank' = writebufferAddr /\ slot2_write' = 1
                /\ writebuffer_reg' = 2 /\ writebuffer_hold' = 1
           /\ slot2_type' # "CPU_WRITECACHE" => UNCHANGED posted
           /\ slot2_type' = "IDLE" => slot2_write' = 0 /\ slot2_bank' = slot2_bank
<1> USE DEF slot1, slot2, refresh, posted, Give2, Capture
<1>1. CASE Ph9Rtg
  BY <1>1 DEF Ph9Rtg, RtgSlot2
<1>2. CASE Ph9Posted
  BY <1>2 DEF Ph9Posted, PostedSlot2
<1>3. CASE Ph9Read
  BY <1>3 DEF Ph9Read, ReadSlot2
<1>4. CASE Ph9Idle
  BY <1>4 DEF Ph9Idle
<1> QED
  BY <1>1, <1>2, <1>3, <1>4
  DEF Controller, Ph0, Ph2, Ph4, Ph8, Ph1Chip, Ph1Refresh, Ph1Posted, Ph1Read, Ph1Audio,
      Ph1Host, Ph1Idle, Ph10, Ph12, Quiet

\* ph0 and ph8: the hold is given up with a first word; the refresh counter.
LEMMA HoldGivenUp ==
    ASSUME Controller, sdram_state \in {0, 8}
    PROVE  /\ sdram_state = 0 =>
                writebuffer_hold' = (IF slot2_write = 1 THEN 0 ELSE writebuffer_hold) /\ CountRounds
           /\ sdram_state = 8 =>
                writebuffer_hold' = (IF slot1_write = 1 THEN 0 ELSE writebuffer_hold)
BY DEF Controller, Ph0, Ph8, Ph2, Ph4, Ph1Chip, Ph1Refresh, Ph1Posted, Ph1Read, Ph1Audio,
       Ph1Host, Ph1Idle, Ph9Rtg, Ph9Posted, Ph9Read, Ph9Idle, Ph10, Ph12, Quiet

-----------------------------------------------------------------------------
(* Types.                                                                  *)

LEMMA SlotTypes ==
    ASSUME TypeOK, Controller
    PROVE  /\ slot1_type' \in {"IDLE", "REFRESH", "CHIP", "CPU_READCACHE", "CPU_WRITECACHE", "AUDIO", "HOST"}
           /\ slot2_type' \in {"IDLE", "RTG", "CPU_READCACHE", "CPU_WRITECACHE"}
           /\ slot1_bank' \in Banks /\ slot2_bank' \in Banks
           /\ slot1_write' \in Bit /\ slot2_write' \in Bit
           /\ chip_run' \in 0 .. ChipRun
<1> USE BanksAssumption, BoundsAssumption DEF TypeOK, Bit
<1>1. CASE sdram_state = 1
  BY <1>1, Slot1Given, SlotsKept
<1>2. CASE sdram_state = 9
  BY <1>2, Slot2Given, SlotsKept
<1>3. CASE sdram_state \notin {1, 9}
  BY <1>3, SlotsKept
<1> QED
  BY <1>1, <1>2, <1>3

LEMMA BufferTypes ==
    ASSUME TypeOK, Controller
    PROVE  /\ writebuffer_hold' \in Bit /\ writebuffer_reg' \in {1, 2}
           /\ refreshcnt' \in 0 .. REFRESHSCHEDULE /\ refresh_pending' \in Bit
<1> USE BoundsAssumption DEF TypeOK, Bit
<1>1. CASE sdram_state = 1
  BY <1>1, Slot1Given, SlotsKept DEF posted
<1>2. CASE sdram_state = 9
  BY <1>2, Slot2Given, SlotsKept DEF posted
<1>3. CASE sdram_state \in {0, 8}
  BY <1>3, HoldGivenUp, SlotsKept DEF CountRounds
<1>4. CASE sdram_state \notin {0, 1, 8, 9}
  BY <1>4, SlotsKept
<1> QED
  BY <1>1, <1>2, <1>3, <1>4

LEMMA PinTypes ==
    ASSUME TypeOK, Controller
    PROVE  /\ sd_cmd' \in {"INHIBIT", "ACTIVE", "READ_AP", "WRITE", "WRITE_AP", "AUTO_REFRESH"}
           /\ ba' \in Banks
<1> USE BanksAssumption DEF TypeOK, Command, NoCommand
<1>1. CASE Ph0 \/ Ph2 \/ Ph4 \/ Ph8 \/ Ph10 \/ Ph12 \/ Quiet
  BY <1>1 DEF Ph0, Ph2, Ph4, Ph8, Ph10, Ph12, Quiet
<1>2. CASE Ph1Chip \/ Ph1Refresh \/ Ph1Posted \/ Ph1Read \/ Ph1Audio \/ Ph1Host \/ Ph1Idle
  BY <1>2 DEF Ph1Chip, Ph1Refresh, Ph1Posted, Ph1Read, Ph1Audio, Ph1Host, Ph1Idle, Give1
<1>3. CASE Ph9Rtg \/ Ph9Posted \/ Ph9Read \/ Ph9Idle
  <2>1. rtgAddr \in Banks
    OBVIOUS
  <2> QED
    BY <1>3, <2>1 DEF Ph9Rtg, Ph9Posted, Ph9Read, Ph9Idle, Give2
<1> QED
  BY <1>1, <1>2, <1>3 DEF Controller

LEMMA CpuTypes ==
    ASSUME TypeOK, Cpu
    PROVE  /\ unit' \in {"none", "setup", "request"} /\ cpu_we' \in Bit /\ cpu_wadr' \in Banks
           /\ cache_inhibit' \in Bit /\ cpuAddr_r' \in Banks
BY DEF TypeOK, Bit, Cpu, CpuRests, CpuAsks, CpuWaitsForGate, CpuWaits, CpuDone, Fields

LEMMA CacheTypes ==
    ASSUME TypeOK, Cache
    PROVE  /\ cpu_sm' \in {"IDLE", "WRITE", "WB", "READ", "SDWAI", "FILL1", "FILL2", "FILLW"}
           /\ write_ena' \in Bit /\ cpu_ack' \in Bit /\ cpu_acked' \in Bit /\ cache_req' \in Bit
           /\ writebuffer_req' \in Bit /\ writebufferAddr' \in Banks
<1> USE DEF TypeOK, Bit, Ack, SameWrite, LowerWrite, Flag
<1>1. CASE IdleRests \/ IdleWrite \/ IdleRead
  BY <1>1 DEF IdleRests, IdleWrite, IdleRead
<1>2. CASE Write \/ WriteBack \/ Miss \/ SdramWait
  BY <1>2 DEF Write, WriteBack, Miss, SdramWait
<1>3. CASE FillWaits \/ FillBegins \/ FillGoesOn \/ FillEnds
  BY <1>3 DEF FillWaits, FillBegins, FillGoesOn, FillEnds
<1> QED
  BY <1>1, <1>2, <1>3 DEF Cache

LEMMA OtherTypes ==
    ASSUME TypeOK, Rtg, Audio, Host
    PROVE  /\ rtgce' \in Bit /\ rtgAddr' \in RtgBanks /\ rtg_run' \in 0 .. RtgRun
           /\ audce' \in Bit /\ hostce' \in Bit /\ hostwe' \in Bit
<1> USE BoundsAssumption DEF TypeOK, Bit
<1>1. rtgce' \in Bit /\ rtgAddr' \in RtgBanks /\ rtg_run' \in 0 .. RtgRun
  BY DEF Rtg, RtgRests, RtgAsks, RtgBlanked, RtgBurst, rtg
<1>2. audce' \in Bit
  BY DEF Audio, AudioRests, AudioAsks, AudioFull
<1>3. hostce' \in Bit /\ hostwe' \in Bit
  BY DEF Host, HostRests, HostAsks, HostAnswered
<1> QED
  BY <1>1, <1>2, <1>3

LEMMA TypesKept ==
    ASSUME TypeOK, Next
    PROVE  TypeOK'
<1> USE DEF Next
<1>1. sdram_state' \in Phases
  BY PhaseGoesOn DEF TypeOK
<1>2. /\ zatn' \in Bit /\ cpu_reservertg' \in Bit /\ cpu_slot1ok' \in Bit /\ cpu_slot2ok' \in Bit
      /\ wb_reservertg' \in Bit /\ wb_slot1ok' \in Bit /\ wb_slot2ok' \in Bit
      /\ rtg_slot2ok' \in Bit /\ aud_slot1req' \in Bit
  BY DEF Judge, Flag, Bit
<1>3. busy' \in [Banks -> 0 .. Open]
  <2>1. \A b \in Banks : busy[b] \in 0 .. Open
    BY DEF TypeOK
  <2> QED
    BY <2>1 DEF Chip, Open, RefreshTail, ReadTail, WriteTail
<1>4. read_granted' \in Bit
  BY DEF Remember, TypeOK, Bit
<1> QED
  BY <1>1, <1>2, <1>3, <1>4, SlotTypes, BufferTypes, PinTypes, CpuTypes, CacheTypes, OtherTypes
  DEF TypeOK

-----------------------------------------------------------------------------
(* The CPU, the cache and the write buffer, a clock at a time.             *)

LEMMA UnitMoves ==
    ASSUME TypeOK, Cpu
    PROVE  /\ cpu_req /\ cpu_ack = 0 => UNCHANGED <<unit, cpu_we, cpu_wadr, cache_inhibit>>
           /\ cpu_req /\ cpu_ack = 1 => ~cpu_req'
           /\ ~cpu_req /\ cpu_req' => unit = "setup" /\ UNCHANGED <<cpu_we, cpu_wadr>>
           /\ SetupOfWrite' => \/ sdram_state \in {1, 5, 9, 13}
                               \/ SetupOfWrite /\ sdram_state \notin {2, 6, 10, 14}
           /\ cpuAddr_r' = cpu_wadr
<1>1. cpu_ack \in {0, 1} /\ sdram_state \in Phases
  BY DEF TypeOK, Bit
<1> QED
  BY <1>1, GatePhases
  DEF Cpu, CpuRests, CpuAsks, CpuWaitsForGate, CpuWaits, CpuDone, Fields, Gate, cpu_req, SetupOfWrite

\* The write buffer: a request is lowered by the hold and by nothing else.
LEMMA BufferMoves ==
    ASSUME TypeOK, Controller, Cache
    PROVE  /\ writebuffer_hold = 1 => writebuffer_req' = 0
           /\ writebuffer_hold = 0 /\ writebuffer_req = 1 => writebuffer_req' = 1
           /\ writebuffer_req = 0 /\ ~IdleWrite => writebuffer_req' = 0
           /\ ~IdleWrite => writebufferAddr' = writebufferAddr
           /\ writebuffer_req = 0 /\ writebuffer_hold = 0 => writebuffer_hold' = 0
           /\ writebuffer_hold = 1 /\ sdram_state \notin {0, 8} => writebuffer_hold' = 1
<1>1. writebuffer_hold \in {0, 1} /\ writebuffer_req \in {0, 1}
  BY DEF TypeOK, Bit
<1>2. IdleWrite => writebuffer_req' = IF writebuffer_hold = 1 THEN 0 ELSE 1
  BY DEF IdleWrite
<1>3. ~IdleWrite => SameWrite
  BY DEF Cache, IdleRests, IdleRead, Write, WriteBack, Miss, SdramWait, FillWaits, FillBegins,
         FillGoesOn, FillEnds
<1>4. /\ writebuffer_req = 0 /\ writebuffer_hold = 0 => writebuffer_hold' = 0
      /\ writebuffer_hold = 1 /\ sdram_state \notin {0, 8} => writebuffer_hold' = 1
  <2>1. CASE sdram_state = 1
    BY <2>1, Slot1Given DEF posted
  <2>2. CASE sdram_state = 9
    BY <2>2, Slot2Given DEF posted
  <2>3. CASE sdram_state \in {0, 8}
    BY <2>3, HoldGivenUp
  <2>4. CASE sdram_state \notin {0, 1, 8, 9}
    BY <2>4, SlotsKept
  <2> QED
    BY <2>1, <2>2, <2>3, <2>4
<1> QED
  BY <1>1, <1>2, <1>3, <1>4 DEF SameWrite, LowerWrite

\* A read is only given a slot in CPU_SM_FILL1.
LEMMA GrantsARead ==
    ASSUME Controller, ReadWaits, ReadGiven
    PROVE  cpu_sm = "FILL1"
BY Slot1Given, Slot2Given DEF ReadGiven, ReadWaits

\* The first beat, of the slot that was given: after FILL1, and not before.
LEMMA FirstBeat ==
    ASSUME TypeOK, OwnSlot, cpu_sm = "FILL1", readcache_fill
    PROVE  \/ sdram_state = 9 /\ Reads1
           \/ sdram_state = 1 /\ Reads2
BY DEF TypeOK, Phases, OwnSlot, readcache_fill, cache_fill_1, cache_fill_2, Reads1, Reads2,
       Burst1, Burst2, Slot1Waits, Slot2Waits

-----------------------------------------------------------------------------
(* Requests.                                                               *)

LEMMA AddressKept ==
    ASSUME IInv, Next
    PROVE  AddressRegistered'
BY UnitMoves DEF IInv, Requests, AddressRegistered, AckInPlace, Next, TypeOK, Bit

LEMMA AckKept ==
    ASSUME IInv, Next
    PROVE  AckInPlace'
<1> USE DEF IInv, Requests, AckInPlace, Ack
<1>1. CASE IdleRests \/ IdleWrite \/ IdleRead
  BY <1>1 DEF IdleRests, IdleWrite, IdleRead
<1>2. CASE Write \/ WriteBack
  BY <1>2 DEF Write, WriteBack
<1>3. CASE Miss \/ SdramWait \/ FillWaits
  BY <1>3 DEF Miss, SdramWait, FillWaits
<1>4. CASE FillBegins
  BY <1>4 DEF FillBegins, ReadWaits
<1>5. CASE FillGoesOn
  BY <1>5 DEF FillGoesOn
<1>6. CASE FillEnds
  BY <1>6 DEF FillEnds
<1> QED
  BY <1>1, <1>2, <1>3, <1>4, <1>5, <1>6 DEF Next, Cache

LEMMA ReadKept ==
    ASSUME IInv, Next
    PROVE  ReadWaits'
<1> USE DEF Next
<1>1. ReadWaits /\ AckInPlace /\ TypeOK
  BY DEF IInv, Requests
<1>2. cpu_sm' \in Missed => (cpu_req' /\ cpu_we' = 0)
  <2>1. cpu_sm' \in Missed => (cpu_sm \in Missed \/ (cpu_sm = "IDLE" /\ cpu_req /\ cpu_we = 0))
    BY DEF Missed, Cache, IdleRests, IdleWrite, IdleRead, Write, WriteBack, Miss, SdramWait,
           FillWaits, FillBegins, FillGoesOn, FillEnds
  <2> QED
    BY <1>1, <2>1, UnitMoves DEF ReadWaits, AckInPlace, Missed, cpu_req
<1>3. (cache_req' = 1 <=> cpu_sm' = "FILL1") /\ (cpu_sm' \in {"SDWAI", "FILL1"} => cpu_acked' = 0)
  BY <1>1 DEF ReadWaits, Cache, IdleRests, IdleWrite, IdleRead, Write, WriteBack, Miss, SdramWait,
              FillWaits, FillBegins, FillGoesOn, FillEnds
<1>4. cpu_sm' = "SDWAI" => read_granted' = 0
  <2>1. cpu_sm' = "SDWAI" => cpu_sm \in {"READ", "SDWAI"}
    BY DEF Cache, IdleRests, IdleWrite, IdleRead, Write, WriteBack, Miss, SdramWait,
           FillWaits, FillBegins, FillGoesOn, FillEnds
  <2>2. cpu_sm # "FILL1" => ~ReadGiven
    BY <1>1, GrantsARead
  <2> QED
    BY <1>1, <2>1, <2>2 DEF Remember, ReadWaits
<1> QED
  BY <1>2, <1>3, <1>4 DEF ReadWaits

\* The cache comes to rest from a write that is done, or a burst that is over.
LEMMA ComesToRest ==
    ASSUME IInv, Cache, cpu_sm # "IDLE", cpu_sm' = "IDLE"
    PROVE  /\ write_ena' = 0
           /\ \/ cpu_sm = "WB" /\ ~cpu_req
              \/ cpu_sm = "FILL2" /\ ~readcache_fill
              \/ cpu_sm = "FILLW" /\ ~cpu_req
BY DEF Cache, IdleRests, IdleWrite, IdleRead, Write, WriteBack, Miss, SdramWait,
       FillWaits, FillBegins, FillGoesOn, FillEnds

LEMMA WritesKept ==
    ASSUME IInv, Next
    PROVE  WritePhases'
<1> USE DEF Next
<1>1. TypeOK /\ AckInPlace /\ WritePhases /\ BurstTaken
  BY DEF IInv, Requests
<1>2. sdram_state \in Phases /\ sdram_state' = IF sdram_state = 15 THEN 0 ELSE sdram_state + 1
  BY <1>1, PhaseGoesOn DEF TypeOK
<1>3. ~MayPostNow /\ sdram_state \notin {0, 8} => ~MayPostNow'
  BY <1>1, BufferMoves DEF MayPostNow, TypeOK, Bit
<1>4. SetupOfWrite' => sdram_state' \in {2, 6, 10, 14}
  BY <1>1, <1>2, UnitMoves DEF WritePhases
\* Where the cache rests, and how long.
<1>5. CASE cpu_sm = "IDLE" /\ IdleRests
  <2>1. cpu_sm' = "IDLE" /\ (write_ena' = 1 <=> MayPostNow)
    BY <1>5 DEF IdleRests, Flag, MayPost, MayPostNow
  <2>2. MayPostNow => MayPostNow'
    BY <1>1, <1>5, BufferMoves DEF MayPostNow, IdleRests, IdleWrite
  <2>3. WriteWaits' => \/ SetupOfWrite /\ sdram_state \in {2, 6, 10, 14}
                       \/ WriteWaits /\ write_ena = 0
    <3>1. CASE ~cpu_req
      BY <1>1, <3>1, UnitMoves DEF WriteWaits, SetupOfWrite, WritePhases
    <3>2. CASE cpu_req
      BY <1>1, <1>5, <3>2, UnitMoves DEF WriteWaits, IdleRests, AckInPlace
    <3> QED
      BY <3>1, <3>2
  <2>4. WriteWaits' /\ write_ena' = 1 => sdram_state' \in {2, 3, 7, 10, 11, 15}
    BY <1>1, <1>2, <2>1, <2>3 DEF WritePhases
  <2>5. WriteWaits' /\ write_ena' = 0 /\ MayPostNow' => sdram_state' \in {1, 2, 9, 10}
    BY <1>1, <1>2, <1>3, <2>1 DEF TypeOK, Bit
  <2> QED
    BY <1>4, <2>1, <2>2, <2>4, <2>5 DEF WritePhases, MayPostNow
<1>6. CASE cpu_sm # "IDLE" /\ cpu_sm' = "IDLE"
  <2>1. write_ena' = 0
    BY <1>6, ComesToRest
  <2>2. ASSUME WriteWaits', MayPostNow'
        PROVE  sdram_state' \in {1, 2, 9, 10}
    <3>1. CASE cpu_sm = "WB" /\ ~cpu_req
      <4>1. SetupOfWrite
        BY <1>1, <2>2, <3>1, UnitMoves DEF WriteWaits, SetupOfWrite
      <4> QED
        BY <1>1, <1>3, <2>2, <3>1, <4>1 DEF WritePhases
    <3>2. CASE cpu_sm = "FILL2" /\ ~readcache_fill
      BY <1>1, <1>2, <3>2
      DEF BurstTaken, Burst1, Burst2, Slot1Waits, Slot2Waits, readcache_fill, cache_fill_1,
          cache_fill_2, Phases
    <3>3. CASE cpu_sm = "FILLW" /\ ~cpu_req
      <4>1. SetupOfWrite
        BY <1>1, <2>2, <3>3, UnitMoves DEF WriteWaits, SetupOfWrite
      <4> QED
        BY <1>1, <3>3, <4>1 DEF WritePhases, BurstTaken
    <3> QED
      BY <1>6, <3>1, <3>2, <3>3, ComesToRest
  <2> QED
    BY <1>4, <1>6, <2>1, <2>2 DEF WritePhases, MayPostNow
\* A write is taken, and the next one cannot come before its place.
<1>7. CASE IdleWrite
  <2>1. WriteWaits /\ MayPostNow /\ sdram_state \in {2, 3, 7, 10, 11, 15}
    BY <1>1, <1>7 DEF IdleWrite, WriteWaits, WritePhases
  <2>2. cpu_sm' = "WRITE" /\ writebuffer_req' = 1 /\ writebuffer_hold' = 0
    BY <1>1, <1>7, <2>1, BufferMoves DEF IdleWrite, MayPostNow
  <2>3. cpu_req' /\ cpu_we' = 1
    BY <1>1, <2>1, UnitMoves DEF WriteWaits, AckInPlace, cpu_req
  <2> QED
    BY <1>2, <1>4, <2>1, <2>2, <2>3 DEF WritePhases, WriteWaits
<1>8. CASE Write
  <2>1. cpu_sm' = "WB" /\ cpu_ack' = 1 /\ cpu_req' /\ unit' = "request"
    BY <1>1, <1>8, UnitMoves DEF Write, WritePhases, AckInPlace, Ack, cpu_req
  <2>2. ~MayPostNow'
    BY <1>1, <1>8, BufferMoves DEF Write, WritePhases, MayPostNow
  <2>3. sdram_state' \in {1, 4, 5, 9, 12, 13}
    BY <1>1, <1>2, <1>8 DEF Write, WritePhases
  <2> QED
    BY <1>4, <2>1, <2>2, <2>3 DEF WritePhases, WriteWaits
<1>9. CASE WriteBack /\ cpu_sm' # "IDLE"
  <2>1. cpu_sm = "WB" /\ cpu_sm' = "WB" /\ cpu_req
    BY <1>9 DEF WriteBack
  <2>2. ~cpu_req' /\ ~MayPostNow'
    BY <1>1, <1>3, <2>1, UnitMoves DEF WritePhases
  <2> QED
    BY <1>4, <2>1, <2>2 DEF WritePhases, WriteWaits
<1>10. CASE cpu_sm' \in {"READ", "SDWAI", "FILL1", "FILL2", "FILLW"}
  BY <1>4, <1>10 DEF WritePhases, WriteWaits
<1>11. IdleRests \/ IdleWrite \/ Write \/ WriteBack \/ (cpu_sm # "IDLE" /\ cpu_sm' = "IDLE")
       \/ cpu_sm' \in {"READ", "SDWAI", "FILL1", "FILL2", "FILLW"}
  BY DEF Cache, IdleRead, Miss, SdramWait, FillWaits, FillBegins, FillGoesOn, FillEnds
<1>12. IdleRests => cpu_sm = "IDLE"
  BY DEF IdleRests
<1>13. WriteBack => cpu_sm # "IDLE"
  BY DEF WriteBack
<1> QED
  BY <1>5, <1>6, <1>7, <1>8, <1>9, <1>10, <1>11, <1>12, <1>13

LEMMA BurstKept ==
    ASSUME IInv, Next
    PROVE  BurstTaken'
<1> USE DEF Next
<1>1. TypeOK /\ AckInPlace /\ ReadWaits /\ BurstTaken /\ OwnSlot
  BY DEF IInv, Requests, Grants
<1>2. sdram_state \in Phases /\ sdram_state' = IF sdram_state = 15 THEN 0 ELSE sdram_state + 1
  BY <1>1, PhaseGoesOn DEF TypeOK
<1>3. CASE FillBegins
  <2>1. sdram_state' \in {2, 10} /\ (Burst1' \/ Burst2')
    BY <1>1, <1>2, <1>3, FirstBeat, SlotsKept
    DEF FillBegins, Reads1, Reads2, Burst1, Burst2, Slot1Waits, Slot2Waits
  <2>2. cpu_req' /\ cpu_ack' = 1
    BY <1>1, <1>3, UnitMoves DEF FillBegins, ReadWaits, AckInPlace, Missed, Ack, cpu_req
  <2> QED
    BY <2>1, <2>2 DEF BurstTaken
<1>4. CASE FillGoesOn
  <2>1. cpu_sm = "FILL2" /\ cpu_sm' = "FILL2" /\ readcache_fill
    BY <1>4 DEF FillGoesOn
  <2>2. ~Reads1 /\ ~Reads2
    BY <1>1, <2>1 DEF OwnSlot
  <2>3. sdram_state \notin {1, 9} /\ (Burst1' \/ Burst2')
    BY <1>1, <1>2, <2>1, <2>2, SlotsKept
    DEF BurstTaken, Reads1, Reads2, Burst1, Burst2, Slot1Waits, Slot2Waits, readcache_fill,
        cache_fill_1, cache_fill_2, Phases
  <2>4. sdram_state \in {2, 10} => ~cpu_req'
    BY <1>1, <2>1, UnitMoves DEF BurstTaken
  <2>5. sdram_state \notin {2, 10} => cpu_acked' = 1
    BY <1>1, <1>4, <2>1 DEF FillGoesOn, BurstTaken
  <2> QED
    BY <1>2, <2>1, <2>3, <2>4, <2>5 DEF BurstTaken, Phases
<1>5. CASE FillEnds
  <2>1. cpu_sm = "FILL2" => cpu_sm' = "IDLE"
    <3>1. cpu_sm = "FILL2" => sdram_state \in {1, 9}
      BY <1>1, <1>2, <1>5
      DEF FillEnds, BurstTaken, Burst1, Burst2, Slot1Waits, Slot2Waits, readcache_fill,
          cache_fill_1, cache_fill_2, Phases
    <3> QED
      BY <1>1, <1>5, <3>1 DEF FillEnds, BurstTaken
  <2>2. cpu_sm' = "FILLW" => cpu_sm = "FILLW" /\ cpu_req
    BY <1>5 DEF FillEnds
  <2>3. cpu_sm' = "FILLW" => sdram_state' \in {3, 11} /\ ~cpu_req'
    BY <1>1, <1>2, <2>2, UnitMoves DEF BurstTaken
  <2>4. cpu_sm' # "FILL2"
    BY <1>5, <2>1 DEF FillEnds
  <2> QED
    BY <2>3, <2>4 DEF BurstTaken
<1>6. CASE cpu_sm' \notin {"FILL2", "FILLW"}
  BY <1>6 DEF BurstTaken
<1> QED
  BY <1>3, <1>4, <1>5, <1>6
  DEF Cache, IdleRests, IdleWrite, IdleRead, Write, WriteBack, Miss, SdramWait, FillWaits

-----------------------------------------------------------------------------
(* Grants.                                                                 *)

\* A missed read comes from a request at rest, with its address registered.
LEMMA MissedStays ==
    ASSUME IInv, Next, cpu_sm' \in Missed
    PROVE  /\ cpu_req /\ cpuAddr_r' = cpuAddr_r /\ writebufferAddr' = writebufferAddr
           /\ cpu_sm \in Missed \/ IdleRead
<1> USE DEF Next
<1>1. cpu_sm \in Missed \/ IdleRead
  BY DEF Missed, Cache, IdleRests, IdleWrite, IdleRead, Write, WriteBack, Miss, SdramWait,
         FillWaits, FillBegins, FillGoesOn, FillEnds
<1>2. cpu_req
  BY <1>1 DEF IdleRead, IInv, Requests, ReadWaits
<1>3. ~IdleWrite
  BY DEF IdleWrite, Missed
<1> QED
  BY <1>1, <1>2, <1>3, UnitMoves, BufferMoves DEF IInv, Requests, AddressRegistered

\* What is granted a read leaves it waiting.
LEMMA GrantWaits ==
    ASSUME IInv, Next, ReadGiven
    PROVE  cpu_sm = "FILL1" /\ read_granted = 0 /\ ~readcache_fill
<1> USE DEF Next
<1>1. TypeOK /\ ReadWaits /\ OwnSlot /\ JudgedRight
  BY DEF IInv, Requests, Grants
<1>2. cpu_sm = "FILL1"
  BY <1>1, GrantsARead
<1>3. CASE sdram_state = 1
  <2>1. cpu_slot1ok = 1
    BY <1>3, Slot1Given DEF ReadGiven
  <2>2. Apart1(cpuAddr_r)
    BY <1>1, <1>2, <1>3, <2>1 DEF JudgedRight, Missed
  <2>3. ~Reads2 /\ ~Reads1
    BY <1>1, <1>3, <2>2 DEF OwnSlot, Apart1, Reads1, Reads2, Slot1Waits
  <2> QED
    BY <1>1, <1>2, <1>3, <2>3, FirstBeat DEF OwnSlot, TypeOK, Bit
<1>4. CASE sdram_state = 9
  <2>1. cpu_slot2ok = 1
    BY <1>4, Slot2Given DEF ReadGiven
  <2>2. Apart2(cpuAddr_r)
    BY <1>1, <1>2, <1>4, <2>1 DEF JudgedRight, Missed
  <2>3. ~Reads2 /\ ~Reads1
    BY <1>1, <1>4, <2>2 DEF OwnSlot, Apart2, Reads1, Reads2, Slot2Waits
  <2> QED
    BY <1>1, <1>2, <1>4, <2>3, FirstBeat DEF OwnSlot, TypeOK, Bit
<1> QED
  BY <1>3, <1>4 DEF ReadGiven

LEMMA OwnSlotKept ==
    ASSUME IInv, Next
    PROVE  OwnSlot'
<1> USE DEF Next
<1>1. TypeOK /\ ReadWaits /\ OwnSlot
  BY DEF IInv, Requests, Grants
<1>2. sdram_state \in Phases /\ sdram_state' = IF sdram_state = 15 THEN 0 ELSE sdram_state + 1
  BY <1>1, PhaseGoesOn DEF TypeOK
<1>3. cpu_sm = "FILL1" /\ ~readcache_fill => cpu_sm' = "FILL1"
  BY DEF Cache, IdleRests, IdleWrite, IdleRead, Write, WriteBack, Miss, SdramWait,
         FillWaits, FillBegins, FillGoesOn, FillEnds
<1>4. cpu_sm' = "FILL1" => (cpu_sm = "FILL1" \/ cpu_sm \in {"READ", "SDWAI"}) /\ ~readcache_fill
  BY DEF Cache, IdleRests, IdleWrite, IdleRead, Write, WriteBack, Miss, SdramWait,
         FillWaits, FillBegins, FillGoesOn, FillEnds
<1>5. ASSUME Reads1'
      PROVE  cpu_sm' = "FILL1" /\ read_granted' = 1 /\ slot1_bank' = cpuAddr_r'
  <2>1. sdram_state = 1 \/ (Reads1 /\ sdram_state # 9)
    BY <1>2, <1>5, SlotsKept DEF Reads1, Slot1Waits, Phases
  <2>2. CASE sdram_state = 1
    <3>1. ReadGiven /\ slot1_bank' = cpuAddr_r
      BY <1>5, <2>2, Slot1Given DEF ReadGiven, Reads1
    <3>2. cpu_sm' = "FILL1"
      BY <1>3, <3>1, GrantWaits
    <3> QED
      BY <3>1, <3>2, MissedStays DEF Remember, Missed
  <2>3. CASE Reads1 /\ sdram_state # 9
    <3>1. cpu_sm = "FILL1" /\ read_granted = 1 /\ slot1_bank = cpuAddr_r
      BY <1>1, <2>3 DEF OwnSlot
    <3>2. ~readcache_fill
      BY <1>1, <2>3, <3>1, FirstBeat DEF Reads1, Slot1Waits
    <3>3. cpu_sm' = "FILL1" /\ slot1_bank' = slot1_bank
      BY <1>3, <2>3, <3>1, <3>2, SlotsKept DEF Reads1, Slot1Waits
    <3> QED
      BY <3>1, <3>3, MissedStays DEF Remember, Missed
  <2> QED
    BY <2>1, <2>2, <2>3
<1>6. ASSUME Reads2'
      PROVE  cpu_sm' = "FILL1" /\ read_granted' = 1 /\ slot2_bank' = cpuAddr_r'
  <2>1. sdram_state = 9 \/ (Reads2 /\ sdram_state # 1)
    BY <1>2, <1>6, SlotsKept DEF Reads2, Slot2Waits, Phases
  <2>2. CASE sdram_state = 9
    <3>1. ReadGiven /\ slot2_bank' = cpuAddr_r
      BY <1>6, <2>2, Slot2Given DEF ReadGiven, Reads2
    <3>2. cpu_sm' = "FILL1"
      BY <1>3, <3>1, GrantWaits
    <3> QED
      BY <3>1, <3>2, MissedStays DEF Remember, Missed
  <2>3. CASE Reads2 /\ sdram_state # 1
    <3>1. cpu_sm = "FILL1" /\ read_granted = 1 /\ slot2_bank = cpuAddr_r
      BY <1>1, <2>3 DEF OwnSlot
    <3>2. ~readcache_fill
      BY <1>1, <2>3, <3>1, FirstBeat DEF Reads2, Slot2Waits
    <3>3. cpu_sm' = "FILL1" /\ slot2_bank' = slot2_bank
      BY <1>3, <2>3, <3>1, <3>2, SlotsKept DEF Reads2, Slot2Waits
    <3> QED
      BY <3>1, <3>3, MissedStays DEF Remember, Missed
  <2> QED
    BY <2>1, <2>2, <2>3
<1>7. ASSUME cpu_sm' = "FILL1"
      PROVE  ~Burst1' /\ ~Burst2' /\ (read_granted' = 1 => Reads1' \/ Reads2')
  <2>1. ~readcache_fill /\ (cpu_sm = "FILL1" => ~Burst1 /\ ~Burst2)
    BY <1>1, <1>4, <1>7 DEF OwnSlot
  <2>2. ~Burst1' /\ ~Burst2'
    BY <1>2, <2>1, SlotsKept
    DEF Burst1, Burst2, Slot1Waits, Slot2Waits, Phases, readcache_fill, cache_fill_1, cache_fill_2
  <2>3. ASSUME read_granted' = 1
        PROVE  Reads1' \/ Reads2'
    <3>1. CASE ReadGiven
      BY <1>2, <3>1 DEF ReadGiven, Reads1, Reads2, Slot1Waits, Slot2Waits
    <3>2. CASE ~ReadGiven
      <4>1. cpu_sm = "FILL1" /\ read_granted = 1
        BY <1>1, <1>4, <1>7, <2>3, <3>2 DEF Remember, ReadWaits
      <4>2. Reads1 \/ Reads2
        BY <1>1, <4>1 DEF OwnSlot
      <4>3. ~(Reads1 /\ sdram_state = 9) /\ ~(Reads2 /\ sdram_state = 1)
        BY <2>1 DEF Reads1, Reads2, readcache_fill, cache_fill_1, cache_fill_2
      <4> QED
        BY <1>2, <4>2, <4>3, SlotsKept DEF Reads1, Reads2, Slot1Waits, Slot2Waits, Phases
    <3> QED
      BY <3>1, <3>2
  <2> QED
    BY <2>2, <2>3
<1> QED
  BY <1>5, <1>6, <1>7 DEF OwnSlot

LEMMA JudgedKept ==
    ASSUME IInv, Next
    PROVE  JudgedRight' /\ JudgedAlike'
<1> USE DEF Next
<1>1. TypeOK /\ WritePhases
  BY DEF IInv, Requests
<1>2. sdram_state \in Phases /\ sdram_state' = IF sdram_state = 15 THEN 0 ELSE sdram_state + 1
  BY <1>1, PhaseGoesOn DEF TypeOK
<1>3. ASSUME cpu_sm' \in Missed, sdram_state' # 10, cpu_slot1ok' = 1
      PROVE  Apart1(cpuAddr_r)'
  <2>1. cpuAddr_r' = cpuAddr_r
    BY <1>3, MissedStays
  <2>2. UNCHANGED <<slot2_type, slot2_bank>>
    BY <1>2, <1>3, SlotsKept
  <2> QED
    BY <1>3, <2>1, <2>2 DEF Judge, Flag, Slot1Free, Apart1
<1>4. ASSUME cpu_sm' \in Missed, sdram_state' # 2, cpu_slot2ok' = 1
      PROVE  Apart2(cpuAddr_r)'
  <2>1. cpuAddr_r' = cpuAddr_r
    BY <1>4, MissedStays
  <2>2. UNCHANGED <<slot1_type, slot1_bank>>
    BY <1>2, <1>4, SlotsKept
  <2> QED
    BY <1>4, <2>1, <2>2 DEF Judge, Flag, Slot2Free, Apart2
\* No write is taken by the clock before a grant.
<1>5. sdram_state \in {0, 8} => writebufferAddr' = writebufferAddr
  <2>1. IdleWrite => sdram_state \notin {0, 8}
    BY <1>1 DEF IdleWrite, WritePhases, WriteWaits
  <2> QED
    BY <1>1, <2>1, BufferMoves
<1>6. ASSUME sdram_state' = 1, wb_slot1ok' = 1
      PROVE  Apart1(writebufferAddr)'
  <2>1. sdram_state = 0
    BY <1>2, <1>6 DEF Phases
  <2> QED
    BY <1>5, <1>6, <2>1, SlotsKept DEF Judge, Flag, Slot1Free, Apart1
<1>7. ASSUME sdram_state' = 9, wb_slot2ok' = 1
      PROVE  Apart2(writebufferAddr)'
  <2>1. sdram_state = 8
    BY <1>2, <1>7 DEF Phases
  <2> QED
    BY <1>5, <1>7, <2>1, SlotsKept DEF Judge, Flag, Slot2Free, Apart2
<1>8. JudgedAlike'
  <2>1. cpu_sm' \in Missed => cpuAddr_r' = cpuAddr_r /\ writebufferAddr' = writebufferAddr
    BY MissedStays
  <2> QED
    BY <2>1 DEF JudgedAlike, Judge, Missed
<1> QED
  BY <1>3, <1>4, <1>6, <1>7, <1>8 DEF JudgedRight

LEMMA PostingKept ==
    ASSUME IInv, Next
    PROVE  Posting' /\ WordsOfOneWrite'
<1> USE DEF Next
<1>1. TypeOK /\ Posting /\ WordsOfOneWrite
  BY DEF IInv, Grants
<1>2. sdram_state \in Phases /\ sdram_state' = IF sdram_state = 15 THEN 0 ELSE sdram_state + 1
  BY <1>1, PhaseGoesOn DEF TypeOK
<1>3. writebuffer_hold \in {0, 1} /\ slot1_write \in {0, 1} /\ slot2_write \in {0, 1}
  BY <1>1 DEF TypeOK, Bit
<1>4. (Posts1' => slot1_write' = 1) /\ (Posts2' <=> slot2_write' = 1)
  BY <1>1, <1>3, Slot1Given, Slot2Given, SlotsKept DEF Posting, Posts1, Posts2
<1>5. writebuffer_hold' = 1 <=> \/ Posts1' /\ sdram_state' \in 2 .. 8
                                \/ Posts2' /\ sdram_state' \in 10 .. 15 \cup {0}
  <2>1. CASE sdram_state = 1
    BY <1>1, <1>2, <2>1, Slot1Given, SlotsKept DEF Posting, Posts1, Posts2, posted
  <2>2. CASE sdram_state = 9
    BY <1>1, <1>2, <2>2, Slot2Given, SlotsKept DEF Posting, Posts1, Posts2, posted
  <2>3. CASE sdram_state \in {0, 8}
    BY <1>1, <1>2, <1>3, <2>3, HoldGivenUp, SlotsKept DEF Posting, Posts1, Posts2
  <2>4. CASE sdram_state \notin {0, 1, 8, 9}
    BY <1>1, <1>2, <2>4, SlotsKept DEF Posting, Posts1, Posts2, Phases
  <2> QED
    BY <2>1, <2>2, <2>3, <2>4
<1>6. /\ Posts1' /\ sdram_state' \in 3 .. 9 => writebuffer_req' = 0
      /\ Posts2' /\ sdram_state' \in 11 .. 15 \cup {0, 1} => writebuffer_req' = 0
  <2>1. writebuffer_hold = 1 => writebuffer_req' = 0
    BY <1>1, BufferMoves
  <2> QED
    BY <1>1, <1>2, <2>1, SlotsKept DEF Posting, Posts1, Posts2, Phases
<1>7. WordsOfOneWrite'
  <2>1. CASE sdram_state = 1
    BY <1>1, <1>2, <2>1, Slot1Given, SlotsKept DEF Posting, Posts1, Posts2, WordsOfOneWrite, posted
  <2>2. CASE sdram_state = 9
    BY <1>1, <1>2, <2>2, Slot2Given, SlotsKept DEF Posting, Posts1, Posts2, WordsOfOneWrite, posted
  <2>3. CASE sdram_state \notin {1, 9}
    BY <1>1, <1>2, <2>3, SlotsKept DEF WordsOfOneWrite, Phases
  <2> QED
    BY <2>1, <2>2, <2>3
<1> QED
  BY <1>4, <1>5, <1>6, <1>7 DEF Posting

LEMMA RefreshKept ==
    ASSUME IInv, Next
    PROVE  RefreshDue' /\ SlotShapes'
<1> USE BoundsAssumption DEF Next
<1>1. TypeOK /\ RefreshDue /\ SlotShapes
  BY DEF IInv, Grants
<1>2. sdram_state \in Phases /\ sdram_state' = IF sdram_state = 15 THEN 0 ELSE sdram_state + 1
  BY <1>1, PhaseGoesOn DEF TypeOK
<1>3. refresh_pending \in {0, 1} /\ refreshcnt \in 0 .. REFRESHSCHEDULE /\ chip_run \in 0 .. ChipRun
  BY <1>1 DEF TypeOK, Bit
<1>4. SlotShapes'
  BY <1>1, <1>2, Slot1Given, SlotsKept DEF SlotShapes, Phases
<1>5. ASSUME refresh_pending' = 1, sdram_state # 0
      PROVE  refresh_pending = 1
  BY <1>5, Slot1Given, SlotsKept
<1>6. ASSUME refresh_pending' = 1, sdram_state' \notin {0, 1}
      PROVE  cpu_slot2ok' = 0 /\ wb_slot2ok' = 0 /\ rtg_slot2ok' = 0
  <2>1. refresh_pending = 1
    BY <1>2, <1>5, <1>6 DEF Phases
  <2> QED
    BY <2>1 DEF Judge, Flag, Slot2Free
<1>7. ASSUME refresh_pending' = 1, sdram_state' \in 10 .. 15 \cup {0}
      PROVE  slot2_type' = "IDLE"
  <2>1. refresh_pending = 1 /\ sdram_state \in 9 .. 15
    BY <1>2, <1>5, <1>7 DEF Phases
  <2>2. CASE sdram_state = 9
    BY <1>1, <2>1, <2>2, Slot2Given DEF RefreshDue
  <2>3. CASE sdram_state # 9
    BY <1>1, <2>1, <2>3, SlotsKept DEF RefreshDue
  <2> QED
    BY <2>2, <2>3
<1>8. ASSUME refresh_pending' = 1, sdram_state' = 1
      PROVE  \/ refreshcnt' = REFRESHSCHEDULE
             \/ slot2_type' = "IDLE" /\ chip_run' + 1 >= REFRESHSCHEDULE - refreshcnt'
  <2>1. sdram_state = 0
    BY <1>2, <1>8 DEF Phases
  <2>2. CountRounds /\ UNCHANGED <<slot2_type, chip_run>>
    BY <2>1, HoldGivenUp, SlotsKept
  <2> QED
    BY <1>1, <1>3, <1>8, <2>1, <2>2 DEF CountRounds, RefreshDue
<1>9. ASSUME refresh_pending' = 1, sdram_state' # 1
      PROVE  chip_run' >= REFRESHSCHEDULE - refreshcnt'
  <2>1. refresh_pending = 1 /\ sdram_state # 0 /\ refreshcnt' = refreshcnt
    BY <1>2, <1>5, <1>9, SlotsKept
  <2>2. CASE sdram_state = 1
    <3>1. slot1_type' # "REFRESH"
      BY <1>9, <2>2, Slot1Given
    <3>2. CASE slot1_type' = "CHIP"
      BY <1>1, <1>3, <2>1, <2>2, <3>2, Slot1Given DEF RefreshDue
    <3>3. CASE slot1_type' # "CHIP"
      BY <1>1, <1>3, <2>1, <2>2, <3>1, <3>3, Slot1Given DEF RefreshDue, RefreshSlot
    <3> QED
      BY <3>2, <3>3
  <2>3. CASE sdram_state # 1
    BY <1>1, <2>1, <2>3, SlotsKept DEF RefreshDue
  <2> QED
    BY <2>2, <2>3
<1> QED
  BY <1>4, <1>6, <1>7, <1>8, <1>9 DEF RefreshDue

-----------------------------------------------------------------------------
(* The rules of the slots.                                                 *)

LEMMA InitHolds == Init => IInv
<1> SUFFICES ASSUME Init
             PROVE  IInv
  OBVIOUS
<1>1. TypeOK
  BY BanksAssumption, BoundsAssumption DEF Init, TypeOK, Phases, Bit, Open
<1>2. Requests
  BY DEF Init, Requests, AddressRegistered, AckInPlace, ReadWaits, WritePhases, BurstTaken,
         SetupOfWrite, WriteWaits, MayPostNow, Missed, cpu_req
<1>3. Grants /\ SlotShapes /\ WordsOfOneWrite
  BY DEF Init, Grants, OwnSlot, JudgedRight, JudgedAlike, Posting, RefreshDue, SlotShapes,
         WordsOfOneWrite, Reads1, Reads2, Missed, Posts1, Posts2
<1> QED
  BY <1>1, <1>2, <1>3 DEF IInv

LEMMA NextKeeps == IInv /\ [Next]_vars => IInv'
<1> SUFFICES ASSUME IInv, [Next]_vars
             PROVE  IInv'
  OBVIOUS
<1>1. CASE Next
  <2>1. TypeOK'
    BY <1>1, TypesKept DEF IInv
  <2>2. Requests'
    BY <1>1, AddressKept, AckKept, ReadKept, WritesKept, BurstKept DEF Requests
  <2>3. Grants' /\ SlotShapes' /\ WordsOfOneWrite'
    BY <1>1, OwnSlotKept, JudgedKept, PostingKept, RefreshKept DEF Grants
  <2> QED
    BY <2>1, <2>2, <2>3 DEF IInv
<1>2. CASE UNCHANGED vars
  <2> USE <1>2 DEF vars, slot1, slot2, refresh, posted, pins, flags, cpu, cache, rtg
  <2>1. TypeOK'
    BY DEF IInv, TypeOK
  <2>2. Requests'
    BY DEF IInv, Requests, AddressRegistered, AckInPlace, ReadWaits, WritePhases, BurstTaken,
           SetupOfWrite, WriteWaits, MayPostNow, cpu_req, Burst1, Burst2
  <2>3. Grants' /\ SlotShapes' /\ WordsOfOneWrite'
    BY DEF IInv, Grants, OwnSlot, JudgedRight, JudgedAlike, Posting, RefreshDue, SlotShapes,
           WordsOfOneWrite, Reads1, Reads2, Burst1, Burst2, Posts1, Posts2, Apart1, Apart2
  <2> QED
    BY <2>1, <2>2, <2>3 DEF IInv
<1> QED
  BY <1>1, <1>2

\* The registers keep their types, and the invariant of the slots holds, for
\* any banks, schedule and arrivals.
THEOREM SlotsHold == Spec => []IInv
BY InitHolds, NextKeeps, PTL DEF Spec

\* A write that is taken has the buffer (cpu_cache_new.v, CPU_SM_IDLE).
LEMMA PostsItsWrite ==
    ASSUME IInv, Next, cpu_sm = "IDLE", cpu_sm' = "WRITE"
    PROVE  writebuffer_req = 0 /\ writebuffer_req' = 1
<1>1. IdleWrite
  BY DEF Next, Cache, IdleRests, IdleRead, Write, WriteBack, Miss, SdramWait, FillWaits,
         FillBegins, FillGoesOn, FillEnds
<1>2. MayPostNow
  BY <1>1 DEF IdleWrite, IInv, Requests, WritePhases
<1> QED
  BY <1>1, <1>2 DEF IdleWrite, MayPostNow

\* Where a read is given a slot, no write to its bank waits.
LEMMA NoWriteBefore ==
    ASSUME IInv, Next, ReadGiven
    PROVE  ~(writebuffer_req = 1 /\ writebufferAddr = cpuAddr_r)
<1> USE DEF Next
<1>1. cpu_sm = "FILL1" /\ JudgedAlike
  BY GrantWaits DEF IInv, Grants
<1>2. CASE sdram_state = 1
  <2>1. ~PostedSlot1 /\ cpu_slot1ok = 1 /\ cpu_reservertg = 0
    <3>1. slot1_type' = "CPU_READCACHE"
      BY <1>2 DEF ReadGiven
    <3>2. Ph1Read
      BY <1>2, <3>1
      DEF Controller, Ph0, Ph2, Ph4, Ph8, Ph1Chip, Ph1Refresh, Ph1Posted, Ph1Audio, Ph1Host,
          Ph1Idle, Give1, Ph9Rtg, Ph9Posted, Ph9Read, Ph9Idle, Ph10, Ph12, Quiet
    <3> QED
      BY <3>2 DEF Ph1Read, ReadSlot1
  <2> QED
    BY <1>1, <2>1 DEF JudgedAlike, Missed, PostedSlot1
<1>3. CASE sdram_state = 9
  <2>1. ~PostedSlot2 /\ cpu_slot2ok = 1
    BY <1>3, Slot2Given DEF ReadGiven
  <2> QED
    BY <1>1, <2>1 DEF JudgedAlike, Missed, PostedSlot2
<1> QED
  BY <1>2, <1>3 DEF ReadGiven

\* What is asked of the controller gets one slot, behind what it must follow:
\* a write taken from the CPU is posted, a read is given one slot, behind the
\* write to its bank, and no refresh is lost if the chipset leaves the
\* controller a round before the next is due.
THEOREM SlotRulesHold ==
    ASSUME ChipRun < REFRESHSCHEDULE
    PROVE  Spec => SlotRules
<1>1. IInv /\ [Next]_vars =>
        /\ [cpu_sm = "IDLE" /\ cpu_sm' = "WRITE" => writebuffer_req = 0 /\ writebuffer_req' = 1]_vars
        /\ [ReadGiven => read_granted = 0]_vars
        /\ [ReadGiven => ~(writebuffer_req = 1 /\ writebufferAddr = cpuAddr_r)]_vars
        /\ [refreshcnt = 0 /\ sdram_state = 0 => refresh_pending = 0]_vars
  <2> SUFFICES ASSUME IInv, Next
               PROVE  /\ cpu_sm = "IDLE" /\ cpu_sm' = "WRITE"
                           => writebuffer_req = 0 /\ writebuffer_req' = 1
                      /\ ReadGiven => read_granted = 0
                      /\ ReadGiven => ~(writebuffer_req = 1 /\ writebufferAddr = cpuAddr_r)
                      /\ refreshcnt = 0 /\ sdram_state = 0 => refresh_pending = 0
    OBVIOUS
  <2>1. refreshcnt = 0 /\ sdram_state = 0 => refresh_pending = 0
    BY BoundsAssumption DEF IInv, Grants, RefreshDue, TypeOK, Bit
  <2> QED
    BY <2>1, PostsItsWrite, GrantWaits, NoWriteBefore
<1> QED
  BY <1>1, SlotsHold, PTL
  DEF Spec, SlotRules, EveryWriteIsPosted, GivenOnce, ReadBehindWrite, NoRefreshLost

-----------------------------------------------------------------------------
(* The rules of the banks.                                                 *)

\* While it asks, RTG keeps its bank, if its frame buffer lies in one.
LEMMA RtgKeepsBank ==
    ASSUME RtgCrosses = 0, Rtg, rtgce' = 1
    PROVE  rtgAddr' = rtgAddr
BY DEF Rtg, RtgRests, RtgAsks, RtgBlanked, RtgBurst, rtg

LEMMA BanksKept ==
    ASSUME RtgCrosses = 0, IInv, BanksApart, Next
    PROVE  BanksApart'
<1> USE DEF Next
<1>1. TypeOK /\ ReadWaits /\ JudgedRight
  BY DEF IInv, Requests, Grants
<1>2. sdram_state \in Phases /\ sdram_state' = IF sdram_state = 15 THEN 0 ELSE sdram_state + 1
  BY <1>1, PhaseGoesOn DEF TypeOK
<1>3. ASSUME sdram_state = 9, slot2_type' # "IDLE"
      PROVE  slot2_bank' # 0 /\ (slot1_type = "IDLE" \/ slot1_bank # slot2_bank')
  <2>1. CASE slot2_type' = "RTG"
    BY <1>1, <1>3, <2>1, Slot2Given, BanksAssumption DEF BanksApart, TypeOK
  <2>2. CASE slot2_type' = "CPU_READCACHE"
    <3>1. cpu_sm = "FILL1"
      BY <1>1, <1>3, <2>2, Slot2Given DEF ReadWaits
    <3> QED
      BY <1>1, <1>3, <2>2, <3>1, Slot2Given DEF JudgedRight, Missed, Apart2
  <2>3. CASE slot2_type' = "CPU_WRITECACHE"
    BY <1>1, <1>3, <2>3, Slot2Given DEF JudgedRight, Apart2
  <2> QED
    BY <1>3, <2>1, <2>2, <2>3, Slot2Given
<1>4. ASSUME sdram_state = 1, slot1_type' \notin {"IDLE", "REFRESH"}, slot2_type # "IDLE"
      PROVE  slot1_bank' # slot2_bank
  <2>1. CASE slot1_type' \in {"CHIP", "AUDIO", "HOST"}
    BY <1>4, <2>1, Slot1Given DEF BanksApart
  <2>2. CASE slot1_type' = "CPU_READCACHE"
    <3>1. cpu_sm = "FILL1"
      BY <1>1, <1>4, <2>2, Slot1Given DEF ReadWaits
    <3> QED
      BY <1>1, <1>4, <2>2, <3>1, Slot1Given DEF JudgedRight, Missed, Apart1
  <2>3. CASE slot1_type' = "CPU_WRITECACHE"
    BY <1>1, <1>4, <2>3, Slot1Given DEF JudgedRight, Apart1
  <2> QED
    BY <1>4, <2>1, <2>2, <2>3, Slot1Given
<1>5. slot2_type' # "IDLE" => slot2_bank' # 0
  BY <1>3, SlotsKept DEF BanksApart
<1>6. DifferentBanks'
  BY <1>3, <1>4, SlotsKept DEF BanksApart, DifferentBanks
<1>7. rtgce' = 1 /\ sdram_state' # 2 /\ rtg_slot2ok' = 1
        => slot1_type' = "IDLE" \/ slot1_bank' # rtgAddr'
  BY <1>2, SlotsKept, RtgKeepsBank DEF Judge, Flag
<1> QED
  BY <1>5, <1>6, <1>7 DEF BanksApart

\* The command that the controller puts on the pins, by the phase.
LEMMA CommandGiven ==
    ASSUME TypeOK, SlotShapes, Posting, Controller
    PROVE  /\ sdram_state = 0 => IF slot2_write = 1 THEN Command("WRITE", slot2_bank) ELSE NoCommand
           /\ sdram_state = 1 =>
                /\ slot1_type' = "REFRESH" => Command("AUTO_REFRESH", 0)
                /\ slot1_type' = "IDLE" => NoCommand
                /\ slot1_type' \notin {"IDLE", "REFRESH"} => Command("ACTIVE", slot1_bank')
           /\ sdram_state = 2 => IF slot2_write = 1 THEN Command("WRITE_AP", slot2_bank) ELSE NoCommand
           /\ sdram_state = 4 =>
                IF InUse1 /\ slot1_write = 0 THEN Command("READ_AP", slot1_bank) ELSE NoCommand
           /\ sdram_state = 8 => IF slot1_write = 1 THEN Command("WRITE", slot1_bank) ELSE NoCommand
           /\ sdram_state = 9 => IF InUse2' THEN Command("ACTIVE", slot2_bank') ELSE NoCommand
           /\ sdram_state = 10 => IF slot1_write = 1 THEN Command("WRITE_AP", slot1_bank) ELSE NoCommand
           /\ sdram_state = 12 =>
                IF InUse2 /\ slot2_write = 0 THEN Command("READ_AP", slot2_bank) ELSE NoCommand
           /\ sdram_state \in {3, 5, 6, 7, 11, 13, 14, 15} => NoCommand
<1> USE DEF InUse1, InUse2
<1>1. CASE Ph0 \/ Ph2 \/ Ph4 \/ Ph8 \/ Ph10 \/ Ph12 \/ Quiet
  BY <1>1 DEF Ph0, Ph2, Ph4, Ph8, Ph10, Ph12, Quiet
<1>2. CASE Ph1Chip \/ Ph1Refresh \/ Ph1Posted \/ Ph1Read \/ Ph1Audio \/ Ph1Host \/ Ph1Idle
  BY <1>2 DEF Ph1Chip, Ph1Refresh, Ph1Posted, Ph1Read, Ph1Audio, Ph1Host, Ph1Idle, Give1
<1>3. CASE Ph9Rtg \/ Ph9Posted \/ Ph9Read \/ Ph9Idle
  BY <1>3 DEF Ph9Rtg, Ph9Posted, Ph9Read, Ph9Idle, Give2
<1> QED
  BY <1>1, <1>2, <1>3 DEF Controller

LEMMA PinsKept ==
    ASSUME IInv, Next
    PROVE  Pins'
<1> USE DEF Next, InUse1, InUse2, Command, NoCommand
<1>1. TypeOK /\ SlotShapes /\ Posting
  BY DEF IInv, Grants
<1>2. sdram_state \in Phases /\ sdram_state' = IF sdram_state = 15 THEN 0 ELSE sdram_state + 1
  BY <1>1, PhaseGoesOn DEF TypeOK
<1>3. SlotShapes' /\ Posting' /\ TypeOK'
  BY RefreshKept, PostingKept, TypesKept, <1>1
<1>4. CASE sdram_state = 1
  BY <1>1, <1>2, <1>4, CommandGiven DEF Pins
<1>5. CASE sdram_state = 9
  BY <1>1, <1>2, <1>5, CommandGiven DEF Pins
<1>6. CASE sdram_state \notin {1, 9}
  <2>1. UNCHANGED <<slot1_type, slot1_bank, slot1_write, slot2_type, slot2_bank, slot2_write>>
    BY <1>6, SlotsKept
  <2>2. CASE sdram_state \in {0, 2, 4}
    BY <1>1, <1>2, <2>1, <2>2, CommandGiven DEF Pins
  <2>3. CASE sdram_state \in {8, 10, 12}
    BY <1>1, <1>2, <2>1, <2>3, CommandGiven DEF Pins
  <2>4. CASE sdram_state \notin {0, 2, 4, 8, 10, 12}
    BY <1>1, <1>2, <1>6, <2>1, <2>4, CommandGiven DEF Pins, Phases
  <2> QED
    BY <2>2, <2>3, <2>4
<1> QED
  BY <1>4, <1>5, <1>6

LEMMA BusyKept ==
    ASSUME IInv, Rows, Next
    PROVE  BusyAsUsed'
<1> USE DEF Next, Open
<1>1. TypeOK /\ SlotShapes /\ Pins /\ BusyAsUsed /\ DifferentBanks
  BY DEF IInv, Rows, BanksApart
<1>2. sdram_state \in Phases /\ sdram_state' = IF sdram_state = 15 THEN 0 ELSE sdram_state + 1
  BY <1>1, PhaseGoesOn DEF TypeOK
<1> SUFFICES ASSUME NEW b \in Banks
             PROVE  busy'[b] = IF Uses1(b)' /\ Clocks1' > 0 THEN Clocks1'
                               ELSE IF Uses2(b)' THEN Clocks2' ELSE 0
  BY DEF BusyAsUsed
<1>3. busy[b] = IF Uses1(b) /\ Clocks1 > 0 THEN Clocks1 ELSE IF Uses2(b) THEN Clocks2 ELSE 0
  BY <1>1 DEF BusyAsUsed
<1>4. busy'[b] = IF sd_cmd = "AUTO_REFRESH" THEN 7
                 ELSE IF sd_cmd = "ACTIVE" /\ ba = b THEN 15
                 ELSE IF sd_cmd = "READ_AP" /\ ba = b THEN 10
                 ELSE IF sd_cmd = "WRITE_AP" /\ ba = b THEN 4
                 ELSE IF busy[b] \in {0, 15} THEN busy[b] ELSE busy[b] - 1
  BY DEF Chip, RefreshTail, ReadTail, WriteTail
<1>5. slot1_write \in {0, 1} /\ slot2_write \in {0, 1} /\ (slot2_write = 1 => InUse2)
  BY <1>1 DEF TypeOK, Bit, IInv, Grants, Posting, Posts2, InUse2
<1> USE DEF Uses1, Uses2, Clocks1, Clocks2, InUse1, InUse2
\* The bank is nobody's, slot 1's or slot 2's.
<1>6. CASE sdram_state = 1
  BY <1>1, <1>2, <1>3, <1>4, <1>5, <1>6, SlotsKept DEF Pins
<1>7. CASE sdram_state = 9
  BY <1>1, <1>2, <1>3, <1>4, <1>5, <1>7, SlotsKept DEF Pins, SlotShapes, DifferentBanks
<1>8. CASE sdram_state \notin {1, 9}
  <2>1. UNCHANGED <<slot1_type, slot1_bank, slot1_write, slot2_type, slot2_bank, slot2_write>>
    BY <1>8, SlotsKept
  <2>2. CASE sdram_state = 0
    BY <1>1, <1>2, <1>3, <1>4, <1>5, <2>1, <2>2 DEF Pins, SlotShapes, DifferentBanks
  <2>6. CASE sdram_state = 2
    BY <1>1, <1>2, <1>3, <1>4, <1>5, <2>1, <2>6 DEF Pins, SlotShapes, DifferentBanks
  <2>7. CASE sdram_state = 3
    BY <1>1, <1>2, <1>3, <1>4, <1>5, <2>1, <2>7 DEF Pins, SlotShapes, DifferentBanks
  <2>8. CASE sdram_state = 4
    BY <1>1, <1>2, <1>3, <1>4, <1>5, <2>1, <2>8 DEF Pins, SlotShapes, DifferentBanks
  <2>3. CASE sdram_state \in {5, 6, 7, 8}
    BY <1>1, <1>2, <1>3, <1>4, <1>5, <2>1, <2>3 DEF Pins, SlotShapes, DifferentBanks
  <2>4. CASE sdram_state \in {10, 11, 12}
    BY <1>1, <1>2, <1>3, <1>4, <1>5, <2>1, <2>4 DEF Pins, SlotShapes, DifferentBanks
  <2>5. CASE sdram_state \in {13, 14, 15}
    BY <1>1, <1>2, <1>3, <1>4, <1>5, <2>1, <2>5 DEF Pins, SlotShapes, DifferentBanks
  <2> QED
    BY <1>2, <1>8, <2>2, <2>3, <2>4, <2>5, <2>6, <2>7, <2>8 DEF Phases
<1> QED
  BY <1>6, <1>7, <1>8

\* The rows' invariant goes with that of the slots.
LEMMA RowsKept ==
    ASSUME RtgCrosses = 0, IInv, Rows, [Next]_vars
    PROVE  Rows'
<1>1. CASE Next
  BY <1>1, BanksKept, PinsKept, BusyKept DEF Rows
<1>2. CASE UNCHANGED vars
  <2> USE <1>2 DEF vars, slot1, slot2, refresh, posted, pins, flags, cpu, cache, rtg
  <2>1. BanksApart' /\ Pins'
    BY DEF Rows, BanksApart, DifferentBanks, Pins, InUse1, InUse2
  <2>2. Clocks1' = Clocks1 /\ Clocks2' = Clocks2
    BY DEF Clocks1, Clocks2
  <2>3. BusyAsUsed'
    BY <2>2 DEF Rows, BusyAsUsed, Uses1, Uses2, InUse1, InUse2
  <2> QED
    BY <2>1, <2>3 DEF Rows
<1> QED
  BY <1>1, <1>2

\* Always, for a frame buffer within a bank, the pins and the banks are as the
\* phase and the slots in use say.
THEOREM RowsHold ==
    ASSUME RtgCrosses = 0
    PROVE  Spec => []Rows
<1>1. Init => Rows
  BY DEF Init, Rows, BanksApart, DifferentBanks, Pins, BusyAsUsed, InUse1, InUse2, Uses1, Uses2
<1>2. IInv /\ Rows /\ [Next]_vars => Rows'
  BY RowsKept
<1> QED
  BY <1>1, <1>2, SlotsHold, PTL DEF Spec

\* No command on the pins of the SDRAM (sdram_ctrl.v) breaks a rule of the
\* banks: the slots in use are in different banks, a bank is opened when it is
\* closed and refreshed when all are, and a column is read or written in an
\* open one; for any banks, clients, schedule and arrivals, if a frame buffer
\* lies within a bank.
THEOREM BankRulesHold ==
    ASSUME RtgCrosses = 0
    PROVE  Spec => []BankRules
<1>1. IInv /\ Rows => BankRules
  <2> SUFFICES ASSUME IInv, Rows
               PROVE  BankRules
    OBVIOUS
  <2>1. TypeOK /\ SlotShapes /\ DifferentBanks /\ Pins /\ BusyAsUsed
    BY DEF IInv, Rows, BanksApart
  <2>2. /\ slot1_write \in {0, 1} /\ slot2_write \in {0, 1} /\ (slot2_write = 1 => InUse2)
        /\ ba \in Banks /\ sdram_state \in 0 .. 15
    BY <2>1 DEF TypeOK, Bit, Phases, IInv, Grants, Posting, Posts2, InUse2
  <2> USE DEF InUse1, InUse2, Uses1, Uses2, Clocks1, Clocks2, Open
  <2>3. sd_cmd = "ACTIVE" => busy[ba] = 0
    BY <2>1, <2>2 DEF Pins, BusyAsUsed, SlotShapes, DifferentBanks
  <2>4. ASSUME sd_cmd = "AUTO_REFRESH", NEW b \in Banks
        PROVE  busy[b] = 0
    <3>1. sdram_state = 2 /\ slot1_type = "REFRESH" /\ slot2_type = "IDLE"
      BY <2>1, <2>4 DEF Pins, SlotShapes
    <3>2. ~Uses2(b) /\ Clocks1 = 0
      BY <3>1
    <3> QED
      BY <2>1, <3>2 DEF BusyAsUsed
  <2>5. sd_cmd \in {"READ_AP", "WRITE", "WRITE_AP"} => busy[ba] = Open
    <3>1. busy[ba] = IF Uses1(ba) /\ Clocks1 > 0 THEN Clocks1 ELSE IF Uses2(ba) THEN Clocks2 ELSE 0
      BY <2>1, <2>2 DEF BusyAsUsed
    <3>2. CASE sd_cmd = "READ_AP"
      BY <2>1, <2>2, <3>1, <3>2 DEF Pins, SlotShapes, DifferentBanks
    <3>3. CASE sd_cmd = "WRITE"
      BY <2>1, <2>2, <3>1, <3>3 DEF Pins, SlotShapes, DifferentBanks
    <3>4. CASE sd_cmd = "WRITE_AP"
      BY <2>1, <2>2, <3>1, <3>4 DEF Pins, SlotShapes, DifferentBanks
    <3> QED
      BY <3>2, <3>3, <3>4
  <2> QED
    BY <2>1, <2>3, <2>4, <2>5 DEF BankRules, OpensClosedBanks, ColumnsInOpenBanks
<1> QED
  BY <1>1, SlotsHold, RowsHold, PTL

\* The words on the bus in a slot are the slot's own: both words of a posted
\* write, and the first beat that the cache (cpu_cache_new.v) takes for the
\* read that waits, by the chip's latency.
THEOREM WordsAreInTime ==
    ASSUME RtgCrosses = 0
    PROVE  Spec => []WordsInTime
<1>1. IInv /\ Rows => WordsInTime
  <2> SUFFICES ASSUME IInv, Rows, cpu_sm = "FILL1", readcache_fill
               PROVE  read_granted = 1 /\ busy[cpuAddr_r] = ReadTail - CasLatency
    BY DEF IInv, WordsInTime, FirstBeatInTime
  <2>1. TypeOK /\ OwnSlot /\ SlotShapes /\ DifferentBanks /\ BusyAsUsed
    BY DEF IInv, Grants, Rows, BanksApart
  <2>2. cpuAddr_r \in Banks
    BY <2>1 DEF TypeOK
  <2>3. busy[cpuAddr_r] = IF Uses1(cpuAddr_r) /\ Clocks1 > 0 THEN Clocks1
                          ELSE IF Uses2(cpuAddr_r) THEN Clocks2 ELSE 0
    BY <2>1, <2>2 DEF BusyAsUsed
  <2>4. CASE sdram_state = 9 /\ Reads1
    <3>1. read_granted = 1 /\ slot1_bank = cpuAddr_r
      BY <2>1, <2>4 DEF OwnSlot
    <3>2. Uses1(cpuAddr_r) /\ Clocks1 = 7
      BY <2>1, <2>4, <3>1 DEF SlotShapes, Reads1, Uses1, InUse1, Clocks1
    <3> QED
      BY <2>3, <3>1, <3>2 DEF ReadTail, CasLatency
  <2>5. CASE sdram_state = 1 /\ Reads2
    <3>1. read_granted = 1 /\ slot2_bank = cpuAddr_r /\ slot2_write # 1
      BY <2>1, <2>5 DEF OwnSlot, IInv, Grants, Posting, Posts2, Reads2
    <3>2. Uses2(cpuAddr_r) /\ Clocks2 = 7 /\ Clocks1 = 0
      BY <2>1, <2>5, <3>1 DEF Reads2, Uses2, InUse2, Clocks1, Clocks2
    <3> QED
      BY <2>3, <3>1, <3>2 DEF ReadTail, CasLatency
  <2> QED
    BY <2>1, <2>4, <2>5, FirstBeat
<1> QED
  BY <1>1, SlotsHold, RowsHold, PTL

=============================================================================
