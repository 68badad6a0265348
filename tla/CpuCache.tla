------------------------------ MODULE CpuCache ------------------------------
(***************************************************************************)
(* rtl/sdram/cpu_cache_new.v, the cache both RAM controllers put in front  *)
(* of their memory: a 16-byte line buffer, two instruction and two data    *)
(* ways, and a one-entry posted write.  An action of this module is one    *)
(* rising edge of the memory clock as the cache sees it; the controller    *)
(* behind it (FastRam) supplies read_ack, dat and wack.                    *)
(*                                                                         *)
(* One row of the cache is modelled, with every line of memory that maps   *)
(* to it, and one byte lane: the lanes are alike and independent, so sel   *)
(* is the set of words whose byte in that lane a write replaces.           *)
(*                                                                         *)
(* Data are named, not valued.  <<l, w>> is the CURRENT content of word w  *)
(* of line l: what the last write the cache accepted left there.  A copy   *)
(* that a later write makes out of date becomes None, as is any rubbish.   *)
(* In the line buffer and the ways, where the word is given by the place,  *)
(* the name is the line alone.                                             *)
(***************************************************************************)
EXTENDS Naturals

CONSTANTS Lines,  \* the lines of memory that share the row
          Units,  \* the shapes of access the CPU makes: [blk, two, sel]
          Kinds,  \* the ways it uses: "D" data, "I" instruction
          Clears, \* the values its cache-clear line (cpu_cache_ctrl[3]) takes
          LineClears, \* and those of its line-buffer clear, cacheline_clr
          None

Words == 0 .. 7
Ways == {"D", "I"}
Bit == {0, 1}

ASSUME UnitsAssumption ==
    /\ None \notin Lines
    /\ Kinds \subseteq Ways
    /\ Clears \subseteq Bit /\ LineClears \subseteq Bit
    /\ \A u \in Units :
          /\ u.blk \in Words /\ u.two \in Bit
          /\ u.two = 1 => u.blk # 7
          /\ u.sel \subseteq (IF u.two = 1 THEN {u.blk, u.blk + 1} ELSE {u.blk})

VARIABLES
    \* the unit port: where the master is, and the fields on the port
    master, acc,
    \* the CPU-side machine
    sm, cnt, ptr, fill_first, acked, write_ena, cack, rdat,
    \* the line buffer and the input that clears it
    lb, match, cacheline_clr,
    \* the posted write and the read request to the controller; and, for the
    \* properties alone, whether the write on the port has been accepted
    wreq, wbuf, rreq, taken,
    \* the ways: tags and least-recently-used bit, contents, the one being filled
    tags, way, fillway, fillp,
    \* the clear logic and the machine that clears the tags
    cc_clr_r, cc_clr, sdr_sm, init_done

port == <<master, acc>>
cpu_sm == <<sm, cnt, ptr, fill_first, acked, write_ena, cack, rdat>>
line_buffer == <<lb, match, cacheline_clr>>
requests == <<wreq, wbuf, rreq, taken>>
ways == <<tags, way, fillway, fillp>>
clearing == <<cc_clr_r, cc_clr, sdr_sm, init_done>>

u_req == master = "req"
blk == acc.blk

-----------------------------------------------------------------------------
(* What the port shows.                                                    *)

valid == match = 1 /\ sm = "IDLE" /\ acc.we = 0
ack == u_req /\ (cack = 1 \/ valid)

\* the accepted write's words: from this edge on, other copies are out of date
accepts == sm = "IDLE" /\ u_req /\ acc.we = 1 /\ write_ena = 1
overwritten == IF accepts THEN acc.sel ELSE {}

-----------------------------------------------------------------------------
(* The master of the unit port, ap040_ram_seq: the fields go out with no   *)
(* request up, the request follows on a later edge through the placement   *)
(* gate or on a hit, and is held until its acknowledgement; then it is low *)
(* for a clock before the fields may change.                               *)

Accesses ==
    {[line |-> l, we |-> w, kind |-> k, blk |-> u.blk, two |-> u.two, sel |-> u.sel] :
        l \in Lines, w \in Bit, k \in Kinds, u \in Units}

Present ==
    /\ master = "free" /\ master' = "armed"
    /\ acc' \in Accesses

\* the gate may be open at any edge, so a hit lets nothing new through
Launch == master = "armed" /\ master' = "req" /\ UNCHANGED acc

Release == ack /\ master' = "gap" /\ UNCHANGED acc

Gap == master = "gap" /\ master' = "free" /\ UNCHANGED acc

Stay == ~ack /\ master # "gap" /\ UNCHANGED port

MasterEdge == Present \/ Launch \/ Release \/ Gap \/ Stay

-----------------------------------------------------------------------------
(* Helpers.                                                                *)

\* the name of datum d once it is stored at word w
At(w, d) == IF d # None /\ d[2] = w THEN d[1] ELSE None

\* a line's words without those the edge's write makes out of date
Outdated(words, l, sel) == [w \in Words |-> IF words[w] = l /\ w \in sel THEN None ELSE words[w]]

\* the ways that hold line l, the instruction ways first
Holding(l) == {p \in Ways \X Bit : tags[p[1]].tag[p[2]] = l}
Entry(p) == {2 * (p \div 2), 2 * (p \div 2) + 1}
NextEntry(p) == (2 * (p \div 2) + 2) % 8
PrevEntry(p) == (2 * (p \div 2) + 6) % 8

\* the line buffer's words, as the data register takes them every clock
FromBuffer(w) == IF lb.word[w] = None THEN None ELSE <<lb.word[w], w>>
Buffered == [a |-> FromBuffer(blk), b |-> FromBuffer((blk + 1) % 8)]

\* the line buffer where a clock does not set it
Kept == [lb EXCEPT !.dirty = IF cacheline_clr = 1 THEN 1 ELSE @]

\* the acknowledgement falls with the request, whatever else sets it
Acknowledge(set) == cack' = IF u_req THEN (IF set THEN 1 ELSE cack) ELSE 0

EmptyTags == [k \in Ways |-> [tag |-> [i \in Bit |-> None], lru |-> 0]]
NoWords == [w \in Words |-> None]

-----------------------------------------------------------------------------
(* The CPU-side machine, one action per state and outcome.  wack and       *)
(* read_ack are the controller's levels, dat the word it delivers.         *)

\* cacheline_clr comes out of a register of the CPU wrapper that is only written
\* while no access is up, so it may stay high throughout the next one
LineClear ==
    IF master = "free" THEN cacheline_clr' \in LineClears ELSE UNCHANGED cacheline_clr

\* registered every clock: the compare of the live address, the posted write's
\* request (lowered on its acknowledgement), the write enable of CPU_SM_IDLE
EveryClock(wack) ==
    /\ LineClear
    /\ match' = (IF acc.line = lb.adr /\ lb.dirty = 0 THEN 1 ELSE 0)
    /\ wreq' = (IF wack = 1 THEN 0 ELSE IF accepts THEN 1 ELSE wreq)
    /\ wbuf' = (IF accepts THEN [line |-> acc.line, words |-> acc.sel]
                ELSE IF wack = 1 THEN None ELSE wbuf)
    /\ taken' = (IF accepts THEN 1 ELSE IF u_req THEN taken ELSE 0)
    /\ write_ena' = (IF sm = "IDLE" /\ wreq = 0 /\ wack = 0 THEN 1 ELSE 0)

Init_Wait ==
    /\ sm = "INIT" /\ sm' = (IF init_done = 1 THEN "IDLE" ELSE "INIT")
    /\ rreq' = 0 /\ rdat' = Buffered /\ Acknowledge(FALSE)
    /\ lb' = Kept /\ UNCHANGED <<cnt, ptr, fill_first, acked, ways>>

\* CPU_SM_IDLE without a request, or answering out of the line buffer
Idle ==
    /\ sm = "IDLE" /\ (~u_req \/ valid)
    /\ sm' = (IF ~u_req /\ cc_clr = 1 THEN "INIT" ELSE "IDLE")
    /\ ptr' = blk /\ rreq' = 0 /\ rdat' = Buffered /\ Acknowledge(FALSE)
    /\ lb' = Kept /\ UNCHANGED <<cnt, fill_first, acked, ways>>

\* Mutant: a write does not wait for the last one to leave.
IdleWrite_NoWait ==
    /\ sm = "IDLE" /\ u_req /\ acc.we = 1
    /\ sm' = "WRITE"
    /\ lb' = [Kept EXCEPT !.dirty = IF match = 1 THEN @ ELSE 1,
                        !.word = [w \in Words |-> IF w \notin acc.sel THEN lb.word[w]
                                                  ELSE IF accepts THEN acc.line ELSE None]]
    /\ ptr' = blk /\ rreq' = 0 /\ rdat' = Buffered /\ Acknowledge(FALSE)
    /\ way' = [k \in Ways |-> [i \in Bit |-> Outdated(way[k][i], acc.line, overwritten)]]
    /\ UNCHANGED <<cnt, fill_first, acked, tags, fillway, fillp>>

\* a write: into the line buffer at once, posted when the last one has gone
IdleWrite ==
    /\ sm = "IDLE" /\ u_req /\ acc.we = 1
    /\ sm' = (IF accepts THEN "WRITE" ELSE "IDLE")
    /\ lb' = [Kept EXCEPT !.dirty = IF match = 1 THEN @ ELSE 1,
                        !.word = [w \in Words |-> IF w \notin acc.sel THEN lb.word[w]
                                                  ELSE IF accepts THEN acc.line ELSE None]]
    /\ ptr' = blk /\ rreq' = 0 /\ rdat' = Buffered /\ Acknowledge(FALSE)
    /\ way' = [k \in Ways |-> [i \in Bit |-> Outdated(way[k][i], acc.line, overwritten)]]
    /\ UNCHANGED <<cnt, fill_first, acked, tags, fillway, fillp>>

IdleRead ==
    /\ sm = "IDLE" /\ u_req /\ acc.we = 0 /\ ~valid
    /\ sm' = "READ" /\ cnt' = 0 /\ ptr' = NextEntry(ptr)
    /\ rreq' = 0 /\ rdat' = Buffered /\ Acknowledge(FALSE)
    /\ lb' = Kept /\ UNCHANGED <<fill_first, acked, ways>>

\* the ways that hold the written line are updated with the words in ws
UpdateWays(ws) ==
    way' = [k \in Ways |-> [i \in Bit |->
              IF <<k, i>> \in Holding(acc.line)
              THEN [w \in Words |-> IF w \in ws THEN acc.line ELSE way[k][i][w]]
              ELSE way[k][i]]]

\* CPU_SM_WRITE: an even unit is one way entry, an odd two-word unit two
Write ==
    /\ sm = "WRITE"
    /\ LET whole == blk % 2 = 0 \/ acc.two = 0 IN
        /\ UpdateWays(acc.sel \cap (IF whole THEN Words ELSE {blk}))
        /\ sm' = (IF whole THEN "WB" ELSE "WRITE2")
        /\ Acknowledge(whole)
    /\ ptr' = blk /\ rreq' = 0 /\ rdat' = Buffered
    /\ lb' = Kept /\ UNCHANGED <<cnt, fill_first, acked, tags, fillway, fillp>>

\* Mutant: the second entry of an odd unit is not written.
Write2_Skipped ==
    /\ sm = "WRITE2" /\ sm' = "WB"
    /\ Acknowledge(TRUE)
    /\ ptr' = blk + 1 /\ rreq' = 0 /\ rdat' = Buffered
    /\ lb' = Kept /\ UNCHANGED <<cnt, fill_first, acked, ways>>

Write2 ==
    /\ sm = "WRITE2" /\ sm' = "WB"
    /\ UpdateWays(acc.sel \cap {blk + 1})
    /\ Acknowledge(TRUE)
    /\ ptr' = blk + 1 /\ rreq' = 0 /\ rdat' = Buffered
    /\ lb' = Kept /\ UNCHANGED <<cnt, fill_first, acked, tags, fillway, fillp>>

\* CPU_SM_WB and CPU_SM_WAIT, until the request drops
AwaitDrop ==
    /\ sm' = (IF u_req THEN sm ELSE "IDLE")
    /\ rreq' = 0 /\ rdat' = Buffered /\ Acknowledge(FALSE)
    /\ lb' = Kept /\ UNCHANGED <<cnt, fill_first, acked, ways>>

WriteBack == sm = "WB" /\ AwaitDrop /\ UNCHANGED ptr
Wait == sm = "WAIT" /\ AwaitDrop /\ ptr' = blk

\* CPU_SM_READ, every cycle: the early acknowledgement
EarlyAck == cnt = (IF acc.two = 1 THEN 2 ELSE 1)
ReadCycle ==
    /\ sm = "READ"
    /\ cnt' = (cnt + 1) % 4 /\ rdat' = Buffered /\ Acknowledge(EarlyAck)

\* a way holds the line: copy one entry a cycle
ReadHit ==
    /\ ReadCycle /\ Holding(acc.line) # {}
    /\ LET h == IF \E i \in Bit : <<"I", i>> \in Holding(acc.line) THEN "I" ELSE "D"
           j == IF <<h, 0>> \in Holding(acc.line) THEN 0 ELSE 1
           p == PrevEntry(ptr) IN
        /\ lb' = [adr |-> acc.line,
                  dirty |-> IF EarlyAck THEN 0 ELSE Kept.dirty,
                  word |-> [w \in Words |-> IF w \in Entry(p) THEN way[h][j][w] ELSE lb.word[w]]]
        /\ tags' = (IF cnt = 0 THEN [tags EXCEPT ![h] = [tag |-> @.tag, lru |-> j]] ELSE tags)
    /\ sm' = (IF cnt # 3 THEN "READ" ELSE IF u_req THEN "WAIT" ELSE "IDLE")
    /\ ptr' = NextEntry(ptr) /\ rreq' = 0
    /\ UNCHANGED <<fill_first, acked, way, fillway, fillp>>

\* none does: ask the controller, once it has ended its last burst.  A controller
\* whose bursts always end before the next read (NoStrayBeat) never makes the
\* machine wait in CPU_SM_SDWAI, so that state has no action here.
ReadMiss(read_ack) ==
    /\ ReadCycle /\ Holding(acc.line) = {}
    /\ lb' = [Kept EXCEPT !.adr = acc.line, !.dirty = IF EarlyAck THEN 0 ELSE @]
    /\ rreq' = 1 - read_ack
    /\ sm' = (IF read_ack = 0 THEN "FILL1" ELSE "SDWAI")
    /\ acked' = 0 /\ ptr' = blk
    /\ UNCHANGED <<fill_first, ways>>

\* CPU_SM_FILL1: wait for word A
Fill1Wait(read_ack) ==
    /\ sm = "FILL1" /\ read_ack = 0
    /\ rreq' = 1 /\ fillp' = ptr
    /\ rdat' = Buffered /\ Acknowledge(FALSE)
    /\ lb' = Kept /\ UNCHANGED <<sm, cnt, ptr, fill_first, acked, tags, way, fillway>>

\* word A: the tag of the way used least recently, the line buffer, the CPU
Fill1Take(read_ack, dat) ==
    /\ sm = "FILL1" /\ read_ack = 1
    /\ rreq' = 0 /\ fillp' = ptr /\ fill_first' = 1
    /\ rdat' = [Buffered EXCEPT !.a = dat]
    /\ Acknowledge(acc.two = 0)
    /\ lb' = [adr |-> acc.line, dirty |-> 0, word |-> [lb.word EXCEPT ![blk] = At(blk, dat)]]
    /\ LET k == acc.kind
           i == IF tags[k].lru = 1 THEN 0 ELSE 1 IN
        /\ tags' = [tags EXCEPT ![k] = [tag |-> [@.tag EXCEPT ![i] = acc.line], lru |-> i]]
        /\ way' = [way EXCEPT ![k][i][ptr] = At(ptr, dat)]
        /\ fillway' = <<k, i>>
    /\ sm' = "FILL2"
    /\ UNCHANGED <<cnt, ptr, acked>>

\* CPU_SM_FILL2: words A+2 ... of the wrapped burst; the first one completes a
\* two-word unit
Fill2Take(read_ack, dat) ==
    /\ sm = "FILL2" /\ read_ack = 1
    /\ LET p == (fillp + 1) % 8 IN
        /\ fillp' = p
        /\ lb' = [Kept EXCEPT !.word[p] = At(p, dat)]
        /\ way' = [way EXCEPT ![fillway[1]][fillway[2]][p] = At(p, dat)]
    /\ fill_first' = 0
    /\ rdat' = (IF fill_first = 1 THEN [Buffered EXCEPT !.b = dat] ELSE Buffered)
    /\ Acknowledge(fill_first = 1 /\ acc.two = 1)
    /\ acked' = (IF u_req THEN acked ELSE 1)
    /\ rreq' = 0
    /\ UNCHANGED <<sm, cnt, ptr, tags, fillway>>

\* ... and the end of the burst, once the CPU has dropped its request
Fill2End(read_ack) ==
    /\ sm = "FILL2" /\ read_ack = 0
    /\ LET leave == ~u_req \/ acked = 1 IN
        /\ sm' = (IF leave THEN "IDLE" ELSE "FILL2")
        /\ ptr' = (IF leave THEN blk ELSE ptr)
    /\ rreq' = 0 /\ rdat' = Buffered /\ Acknowledge(FALSE)
    /\ lb' = Kept /\ UNCHANGED <<cnt, fill_first, acked, ways>>

CpuMachine(read_ack, dat) ==
    \/ Init_Wait \/ Idle \/ IdleWrite \/ IdleRead \/ Write \/ Write2 \/ WriteBack \/ Wait
    \/ ReadHit \/ ReadMiss(read_ack)
    \/ Fill1Wait(read_ack) \/ Fill1Take(read_ack, dat)
    \/ Fill2Take(read_ack, dat) \/ Fill2End(read_ack)

-----------------------------------------------------------------------------
(* The clear logic.  The CPU-side machine goes through CPU_SM_INIT while    *)
(* the other one sweeps the tags of all 256 rows; the sweep reaches this    *)
(* row at some time of its own.                                             *)

ClearLogic ==
    IF u_req
    THEN UNCHANGED <<cc_clr_r, cc_clr>>
    ELSE /\ cc_clr' = (IF cc_clr_r = <<1, 0>> THEN 1 ELSE 0)
         /\ \E c \in Clears : cc_clr_r' = <<c, cc_clr_r[1]>>

\* the sdram-side machine, its snoop port tied off; may_end is false while the
\* 256 clocks of a sweep cannot be over
SdrMachine(may_end) ==
    \/ /\ sdr_sm = "INIT0" /\ sdr_sm' = "INIT1" /\ init_done' = 0
    \/ /\ sdr_sm = "INIT1" /\ sdr_sm' = sdr_sm /\ init_done' = 0
    \/ /\ sdr_sm = "SWEPT" /\ init_done' = 0
       /\ sdr_sm' = (IF may_end THEN "IDLE" ELSE "SWEPT")
    \/ /\ sdr_sm = "IDLE" /\ init_done' = 1
       /\ sdr_sm' = (IF cc_clr = 1 THEN "INIT0" ELSE "IDLE")

\* the sweep clears this row's tags, through the second port of the tag memory:
\* a step of its own, right after the edge it happens at
SweepRow ==
    /\ sdr_sm = "INIT1" /\ sdr_sm' = "SWEPT"
    /\ tags' = EmptyTags
    /\ UNCHANGED <<port, cpu_sm, line_buffer, requests, way, fillway, fillp,
                   cc_clr_r, cc_clr, init_done>>

\* the registers a reset of the cache sets; the tags are left to the sweep, the
\* words in the line buffer and the ways are rubbish from here on
CacheReset ==
    /\ sm' = "INIT" /\ fill_first' = 0 /\ rreq' = 0 /\ wreq' = 0 /\ write_ena' = 0
    /\ cack' = 0 /\ ptr' = 0
    /\ lb' = [adr |-> None, dirty |-> 1, word |-> NoWords] /\ match' = 0
    /\ cacheline_clr' = 0
    /\ way' = [k \in Ways |-> [i \in Bit |-> NoWords]]
    /\ wbuf' = None /\ taken' = 0 /\ rdat' = [a |-> None, b |-> None]
    /\ cc_clr_r' = <<0, 0>> /\ cc_clr' = 0
    /\ sdr_sm' = "INIT0" /\ init_done' = 0
    /\ UNCHANGED <<cnt, acked, tags, fillway, fillp>>

\* the sequencer is reset with it
MasterReset == master' = "free" /\ UNCHANGED acc

CacheInit ==
    /\ master = "free" /\ acc \in Accesses
    /\ sm = "INIT" /\ cnt = 0 /\ ptr = 0 /\ fill_first = 0 /\ acked = 0
    /\ write_ena = 0 /\ cack = 0 /\ rdat = [a |-> None, b |-> None]
    /\ lb = [adr |-> None, dirty |-> 1, word |-> NoWords] /\ match = 0
    /\ cacheline_clr = 0
    /\ wreq = 0 /\ wbuf = None /\ rreq = 0 /\ taken = 0
    /\ tags = EmptyTags /\ way = [k \in Ways |-> [i \in Bit |-> NoWords]]
    /\ fillway = <<"D", 0>> /\ fillp = 0
    /\ cc_clr_r = <<0, 0>> /\ cc_clr = 0 /\ sdr_sm = "INIT0" /\ init_done = 0
=============================================================================
