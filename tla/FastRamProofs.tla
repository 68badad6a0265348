---------------------------- MODULE FastRamProofs ----------------------------
(***************************************************************************)
(* For any lines of memory, any shapes of access, any resets and any speed *)
(* of the island: a read through the fast RAM is answered with the current *)
(* content of its words (ReadCurrent), nothing is lost or doubled between  *)
(* the CPU, the cache and the backend (Handshakes), and what the cache     *)
(* holds as valid is whole (CacheWhole), if the program does not clear the *)
(* cache while it runs.                                                    *)
(***************************************************************************)
EXTENDS FastRam, TLAPS

-----------------------------------------------------------------------------
(* Kinds of values.                                                        *)

Copies == Lines \cup {None}
Named == Lines \X Words
CpuTypes ==
    /\ lb \in [adr : Copies, dirty : Bit, word : [Words -> Copies]]
    /\ match \in Bit /\ cacheline_clr \in Bit
    /\ fill_first \in Bit /\ acked \in Bit /\ write_ena \in Bit /\ cack \in Bit
    /\ wreq \in Bit /\ rreq \in Bit /\ taken \in Bit
    /\ wreq = 1 => wbuf \in [line : Lines, words : SUBSET Words]
WayTypes ==
    /\ tags \in [Ways -> [tag : [Bit -> Copies], lru : Bit]]
    /\ way \in [Ways -> [Bit -> [Words -> Copies]]]
    /\ fillway \in Ways \X Bit
Writes == [line : Lines, words : SUBSET Words, cur : SUBSET Words]
Reads == [line : Lines, cur : SUBSET Words]
PortTypes ==
    /\ adr_r \in [line : Lines, blk : Words]
    /\ read_ack \in Bit /\ wack \in Bit /\ cdc_done \in Bit /\ wanted \in Bit
    /\ cdc_req \in Requests \cup {None}
    /\ phase \in {"idle", "asked", "accepted", "answered", "lost"}
    /\ phase # "idle" => request \in Requests
    /\ read_ack = 1 => dat \in Named \cup {None}
DataTypes ==
    cdc_rdata \in Reads \cup {None} /\ flight \in Writes \cup {None}
BackendTypes == PortTypes /\ DataTypes
Types == TypeOK /\ CpuTypes /\ WayTypes /\ BackendTypes

-----------------------------------------------------------------------------
(* The clearing of the cache.                                              *)

\* Out of reset the cache is not cleared; in reset the CPU-side machine waits
\* for the sweep, and that for the burst of a read from before.
Swept ==
    /\ cc_clr = 0 /\ cc_clr_r = <<0, 0>> /\ init_done \in Bit
    /\ sdr_sm \in {"INIT0", "INIT1", "SWEPT", "IDLE"}
    /\ sm # "INIT" \/ init_done = 1 => sdr_sm = "IDLE"
    /\ sm = "INIT" /\ sdr_sm \in {"SWEPT", "IDLE"} => tags = EmptyTags
    /\ sm = "INIT" =>
         /\ cack = 0 /\ rreq = 0 /\ wreq = 0 /\ write_ena = 0 /\ lb.dirty = 1 /\ fill_first = 0
         /\ sdr_sm = "IDLE" => bstate \in {"B_IDLE", "B_WRITE"} /\ read_ack = 0

-----------------------------------------------------------------------------
(* Where the master is when the CPU-side machine is in a state.            *)

ReadPlace ==
    /\ acc.we = 0
    /\ \/ acc.two = 1 /\ master = "req" /\ (cack = 1 <=> cnt = 3)
       \/ acc.two = 0 /\ cnt \in {0, 1} /\ master = "req" /\ cack = 0
       \/ acc.two = 0 /\ cnt = 2 /\ master = "req" /\ cack = 1
       \/ acc.two = 0 /\ cnt = 3 /\ master = "gap"
    /\ Holding(acc.line) = {} => cnt = 0
Places ==
    /\ cack = 1 => master \in {"req", "gap"}
    /\ sm \in {"IDLE", "INIT"} => cack = 0
    /\ sm \in {"WRITE", "WRITE2"} => master = "req" /\ acc.we = 1 /\ cack = 0 /\ taken = 1
    /\ sm = "WRITE2" => acc.two = 1
    /\ sm = "WB" => \/ master = "req" /\ acc.we = 1 /\ cack = 1 /\ taken = 1
                    \/ master = "gap"
    /\ taken = 1 => sm \in {"WRITE", "WRITE2", "WB"}
    /\ sm = "READ" => ReadPlace
    /\ sm = "WAIT" => master = "gap"
    /\ sm = "FILL1" => master = "req" /\ acc.we = 0 /\ cack = 0
    /\ sm = "FILL2" /\ cack = 1 => read_ack = 1 /\ (master = "req" => acc.we = 0)
    /\ rreq = 1 <=> sm = "FILL1"
    /\ master # "armed" => adr_r = Here

-----------------------------------------------------------------------------
(* The backend and the burst.                                              *)

\* the beats of the burst that the cache has taken
Beat == (burst_cnt + 7) % 8
\* the words that n beats bring
Filled(n) == {w \in Words : (w + 8 - burst_first) % 8 < n}

Bursts ==
    /\ sm \notin {"FILL1", "FILL2", "INIT"} => bstate \in {"B_IDLE", "B_WRITE"} /\ read_ack = 0
    /\ bstate \in {"B_IDLE", "B_WRITE", "B_READ"} /\ sm = "FILL1" => read_ack = 0
    /\ sm = "FILL1" /\ bstate = "B_DELIVER" => burst_cnt = read_ack
    /\ sm = "FILL1" /\ bstate \in {"B_READ", "B_DELIVER"} => burst_first = blk
    /\ sm = "FILL1" => ptr = blk
    /\ sm = "FILL2" => \/ bstate = "B_DELIVER" /\ read_ack = 1 /\ burst_cnt \in 2 .. 7
                       \/ bstate = "B_IDLE" /\ burst_cnt = 0
    /\ sm = "FILL2" /\ read_ack = 1 => fillp = (burst_first + Beat + 7) % 8
    /\ sm = "FILL2" => (fill_first = 1 <=> Beat = 1)
    /\ sm = "FILL2" /\ fill_first = 1 =>
         /\ master = "req" /\ acc.we = 0 /\ blk = burst_first /\ lb.adr = acc.line
         /\ cack = 1 - acc.two
    /\ sm = "FILL2" /\ cack = 1 => Beat \in {1, 2, 3} /\ (master = "req" => Beat # 3)
    /\ sm = "FILL2" => wreq = 0
    /\ read_ack = 1 /\ sm \in {"FILL1", "FILL2"} => dat = <<lb.adr, (burst_first + Beat) % 8>>

\* The request of the backend on its way.
CrossingPhases ==
    /\ cdc_req # None => phase = "idle" /\ bstate \in {"B_WRITE", "B_READ"} /\ wanted = 0
    /\ cdc_done = 1 => phase = "idle" /\ bstate \in {"B_WRITE", "B_READ"} /\ wanted = 0
    /\ wanted = 1 => phase # "idle" /\ bstate \in {"B_WRITE", "B_READ"}
    /\ bstate \in {"B_WRITE", "B_READ"} => wanted = 1 \/ cdc_req # None \/ cdc_done = 1
    /\ cdc_req # None => cdc_done = 0 /\ cdc_req.rd = (IF bstate = "B_READ" THEN 1 ELSE 0)
    /\ wanted = 1 => request.rd = (IF bstate = "B_READ" THEN 1 ELSE 0)
    /\ phase = "answered" => wanted = 1
    /\ bstate = "B_DELIVER" => phase = "idle"
    /\ wack = 1 => bstate = "B_WRITE" /\ cdc_req # None

\* When the backend is busy nothing is accepted that it would have to take first.
OneAtATime ==
    /\ wack = 1 => write_ena = 0
    /\ write_ena = 1 /\ sm = "IDLE" => wreq = 0
    /\ bstate \in {"B_READ", "B_DELIVER"} => wreq = 0 /\ flight = None
Crossing == CrossingPhases /\ OneAtATime

\* The write on its way, and its line.
InFlight ==
    /\ flight # None <=> \/ cdc_req # None /\ cdc_req.rd = 0
                         \/ phase \in {"asked", "accepted"} /\ request.rd = 0
    /\ cdc_req # None /\ cdc_req.rd = 0 => flight.line = cdc_req.line
    /\ phase \in {"asked", "accepted"} /\ request.rd = 0 => flight.line = request.line

\* Every current word is in memory, posted, or on its way.
Current ==
    \A l \in Lines, w \in Words :
        \/ w \in mem[l]
        \/ wreq = 1 /\ wbuf.line = l /\ w \in wbuf.words
        \/ flight # None /\ flight.line = l /\ w \in flight.cur
\* What is posted or on its way is not current in memory yet.
NotYet ==
    /\ flight # None => flight.words \cap mem[flight.line] = {} /\ flight.cur \subseteq flight.words
    /\ wreq = 1 => wbuf.words \cap mem[wbuf.line] = {}
    /\ wreq = 1 /\ wack = 0 /\ flight # None /\ flight.line = wbuf.line =>
         wbuf.words \cap flight.cur = {}
    /\ wreq = 1 /\ wack = 1 => flight.line = wbuf.line /\ wbuf.words \subseteq flight.cur

\* The answer to a fill is the line that is being filled, all of it current.
HasAnswer == bstate = "B_DELIVER" \/ (bstate = "B_READ" /\ (phase = "answered" \/ cdc_done = 1))
Answered ==
    /\ HasAnswer => cdc_rdata # None
    /\ sm \in {"FILL1", "FILL2"} =>
         /\ cdc_req # None /\ bstate = "B_READ" => cdc_req.line = lb.adr
         /\ wanted = 1 /\ bstate = "B_READ" => request.line = lb.adr
         /\ HasAnswer => cdc_rdata.line = lb.adr /\ cdc_rdata.cur = Words

-----------------------------------------------------------------------------
(* What the cache holds.                                                   *)

\* the words of a hit copied after n clocks
Copied(n) == {w \in Words : ((w \div 2) + 4 - (blk \div 2)) % 4 < n}

\* the words a write has still to bring up to date in the ways
Pending == IF sm = "WRITE" THEN acc.sel ELSE IF sm = "WRITE2" THEN acc.sel \cap {blk + 1} ELSE {}
\* the beats taken, when all have been
Taken == IF read_ack = 1 THEN Beat ELSE 8

NoTwo ==
    \A k1, k2 \in Ways, i1, i2 \in Bit :
        tags[k1].tag[i1] = tags[k2].tag[i2] /\ tags[k1].tag[i1] # None => k1 = k2 /\ i1 = i2
WayContents ==
    \A k \in Ways, i \in Bit : sm # "INIT" /\ tags[k].tag[i] # None =>
        \A w \in Words :
            \/ way[k][i][w] = tags[k].tag[i]
            \/ tags[k].tag[i] = acc.line /\ w \in Pending
            \/ sm = "FILL2" /\ fillway = <<k, i>> /\ w \notin Filled(Taken)
WayFilled == sm = "FILL2" => tags[fillway[1]].tag[fillway[2]] = lb.adr

\* a write that waits for its turn has its words in the line buffer
WriteIn(w) == sm = "IDLE" /\ master = "req" /\ acc.we = 1 /\ match = 1 /\ w \in acc.sel
BufferContents ==
    /\ sm \in {"IDLE", "WRITE", "WRITE2", "WB", "WAIT"} /\ lb.dirty = 0 =>
         \A w \in Words : lb.word[w] = lb.adr \/ WriteIn(w)
    /\ sm = "READ" /\ cnt > 0 =>
         lb.adr = acc.line /\ \A w \in Copied(cnt) : lb.word[w] = acc.line
    /\ sm = "READ" => ptr = (2 * (blk \div 2) + 2 * (cnt + 1)) % 8 \/ Holding(acc.line) = {}
    /\ sm = "FILL1" => lb.adr = acc.line /\ Holding(acc.line) = {}
    /\ sm = "FILL2" => \A w \in Filled(Taken) : lb.word[w] = lb.adr

\* What the line buffer answers with.
Valid ==
    sm = "IDLE" /\ master = "req" =>
        /\ match = 1 => lb.adr = acc.line
        /\ acc.we = 0 => ptr = blk \/ tags = EmptyTags

IInv ==
    /\ Types /\ Swept /\ Places /\ Bursts
    /\ Crossing /\ InFlight /\ Current /\ NotYet /\ Answered
    /\ NoTwo /\ WayContents /\ WayFilled /\ BufferContents /\ Valid /\ ReadCurrent

-----------------------------------------------------------------------------
(* The shapes of an access, and of a record.                               *)

LEMMA AccessShape ==
    ASSUME NEW a \in Accesses
    PROVE  /\ a.line \in Lines /\ a.we \in Bit /\ a.kind \in Ways
           /\ a.blk \in Words /\ a.two \in Bit /\ (a.two = 1 => a.blk # 7)
           /\ a.sel \subseteq {a.blk, a.blk + 1} /\ a.sel \subseteq Words
<1>1. PICK l \in Lines, w \in Bit, k \in Kinds, u \in Units :
        a = [line |-> l, we |-> w, kind |-> k, blk |-> u.blk, two |-> u.two, sel |-> u.sel]
  BY DEF Accesses
<1>2. /\ k \in Ways /\ u.blk \in Words /\ u.two \in Bit /\ (u.two = 1 => u.blk # 7)
      /\ u.sel \subseteq (IF u.two = 1 THEN {u.blk, u.blk + 1} ELSE {u.blk})
  BY UnitsAssumption
<1>3. u.sel \subseteq {u.blk, u.blk + 1} /\ u.sel \subseteq Words
  BY <1>2 DEF Words, Bit
<1> QED
  BY <1>1, <1>2, <1>3

\* The master's edge.
LEMMA MasterMoves ==
    ASSUME MasterEdge, acc \in Accesses, master \in {"free", "armed", "req", "gap"}
    PROVE  /\ master' \in {"free", "armed", "req", "gap"} /\ acc' \in Accesses
           /\ master' = "req" => /\ acc' = acc
                                 /\ master = "armed" \/ (master = "req" /\ ~ack)
           /\ master' = "gap" => master = "req" /\ ack /\ acc' = acc
           /\ master' = "free" => master \in {"free", "gap"} /\ acc' = acc
           /\ master = "req" /\ ~ack => master' = "req"
           /\ master = "req" /\ ack => master' = "gap"
           /\ master = "gap" => master' = "free"
           /\ master' # "armed" => acc' = acc
           /\ master # "free" => acc' = acc
BY DEF MasterEdge, Present, Launch, Release, Gap, Stay, port, ack, u_req

\* The pointer into a way goes round its four entries.
LEMMA EntryRound ==
    ASSUME NEW b \in Words, NEW n \in 0 .. 3, NEW p \in Words,
           p = (2 * (b \div 2) + 2 * (n + 1)) % 8
    PROVE  /\ NextEntry(p) = (2 * (b \div 2) + 2 * (n + 2)) % 8
           /\ \A w \in Words : w \in Entry(PrevEntry(p)) <=>
                 ((w \div 2) + 4 - (b \div 2)) % 4 = n
BY DEF Words, Entry, NextEntry, PrevEntry

\* The beats of a burst go round the line.
LEMMA BeatRound ==
    ASSUME NEW f \in Words, NEW n \in Words
    PROVE  /\ (f + n) % 8 \in Words
           /\ \A w \in Words : (w + 8 - f) % 8 = n <=> w = (f + n) % 8
BY DEF Words

LEMMA HoldingIs ==
    ASSUME NEW l, NEW k \in Ways, NEW i \in Bit
    PROVE  <<k, i>> \in Holding(l) <=> tags[k].tag[i] = l
BY DEF Holding

LEMMA AtWord ==
    ASSUME NEW w \in Words, NEW d \in Named \cup {None}
    PROVE  At(w, d) \in Copies
BY DEF At, Named, Copies

LEMMA EntryTypes ==
    ASSUME NEW p \in Words
    PROVE  NextEntry(p) \in Words /\ PrevEntry(p) \in Words /\ Entry(p) \subseteq Words
BY DEF NextEntry, PrevEntry, Entry, Words

-----------------------------------------------------------------------------
(* Types are kept.                                                         *)

LEMMA CpuTypesKept ==
    ASSUME Types, Places, Bursts, MasterEdge, CpuMachine(read_ack, dat), EveryClock(wack)
    PROVE  CpuTypes' /\ WayTypes' /\ cnt' \in 0 .. 3 /\ ptr' \in Words /\ fillp' \in Words
           /\ sm' \in {"INIT", "IDLE", "WRITE", "WRITE2", "WB", "READ", "WAIT", "FILL1", "FILL2"}
<1> USE DEF Types, TypeOK, CpuTypes, WayTypes
<1>1. acc.line \in Lines /\ acc.sel \subseteq Words /\ acc.kind \in Ways /\ blk \in Words
  BY AccessShape DEF blk
<1>2. Kept \in [adr : Copies, dirty : Bit, word : [Words -> Copies]]
  BY DEF Kept, Bit
<1>3. cack' \in Bit
  BY DEF CpuMachine, Acknowledge, Init_Wait, Idle, IdleWrite, IdleRead, Write, Write2, WriteBack,
         Wait, AwaitDrop, ReadHit, ReadMiss, ReadCycle, Fill1Wait, Fill1Take, Fill2Take, Fill2End, Bit
<1>0. /\ match' \in Bit /\ cacheline_clr' \in Bit /\ write_ena' \in Bit /\ wreq' \in Bit
      /\ taken' \in Bit
      /\ wreq' = 1 => wbuf' \in [line : Lines, words : SUBSET Words]
  <2>1. cacheline_clr' \in Bit
    BY UnitsAssumption DEF EveryClock, LineClear
  <2>2. wreq' = 1 => wbuf' \in [line : Lines, words : SUBSET Words]
    BY <1>1 DEF EveryClock, Bit
  <2> QED
    BY <2>1, <2>2 DEF EveryClock, Bit
<1> SUFFICES /\ cnt' \in 0 .. 3 /\ ptr' \in Words /\ fillp' \in Words
              /\ sm' \in {"INIT", "IDLE", "WRITE", "WRITE2", "WB", "READ", "WAIT", "FILL1", "FILL2"}
              /\ fill_first' \in Bit /\ acked' \in Bit /\ rreq' \in Bit
              /\ lb' \in [adr : Copies, dirty : Bit, word : [Words -> Copies]]
              /\ WayTypes'
  BY <1>0, <1>3
<1> USE <1>1, <1>2
<1>4. CASE Init_Wait \/ Idle
  BY <1>4 DEF Init_Wait, Idle, ways, Bit
<1>5. CASE IdleRead
  BY <1>5, EntryTypes DEF IdleRead, ways, Bit
<1>6. CASE IdleWrite
  <2>1. lb' = [adr |-> lb.adr, dirty |-> IF match = 1 THEN Kept.dirty ELSE 1,
               word |-> [w \in Words |-> IF w \notin acc.sel THEN lb.word[w]
                                         ELSE IF accepts THEN acc.line ELSE None]]
    BY <1>6 DEF IdleWrite, Kept
  <2>2. lb' \in [adr : Copies, dirty : Bit, word : [Words -> Copies]]
    BY <2>1 DEF Copies, Bit
  <2>3. way' \in [Ways -> [Bit -> [Words -> Copies]]]
    BY <1>6 DEF IdleWrite, Outdated, Copies
  <2> QED
    BY <1>6, <2>2, <2>3 DEF IdleWrite, Bit
<1>7. CASE Write
  BY <1>7 DEF Write, UpdateWays, Copies, Bit
<1>8. CASE Write2
  <2>1. blk + 1 \in Words
    BY <1>8, AccessShape DEF Write2, Places, blk, Words
  <2>2. way' \in [Ways -> [Bit -> [Words -> Copies]]]
    BY <1>8 DEF Write2, UpdateWays, Copies
  <2> QED
    BY <1>8, <2>1, <2>2 DEF Write2, Bit
<1>9. CASE WriteBack \/ Wait
  BY <1>9 DEF WriteBack, Wait, AwaitDrop, ways, Bit
<1>10. CASE ReadHit
  <2>1. PICK h \in Ways, j \in Bit :
           /\ lb' = [adr |-> acc.line, dirty |-> IF EarlyAck THEN 0 ELSE Kept.dirty,
                     word |-> [w \in Words |-> IF w \in Entry(PrevEntry(ptr)) THEN way[h][j][w]
                                               ELSE lb.word[w]]]
           /\ tags' = (IF cnt = 0 THEN [tags EXCEPT ![h] = [tag |-> @.tag, lru |-> j]] ELSE tags)
    BY <1>10 DEF ReadHit, Ways, Bit
  <2>2. lb' \in [adr : Copies, dirty : Bit, word : [Words -> Copies]]
    BY <2>1 DEF Copies, Bit
  <2>3. tags' \in [Ways -> [tag : [Bit -> Copies], lru : Bit]]
    BY <2>1
  <2>4. cnt' \in 0 .. 3
    BY <1>10 DEF ReadHit, ReadCycle
  <2> QED
    BY <1>10, <2>2, <2>3, <2>4, EntryTypes DEF ReadHit, Bit
<1>11. CASE ReadMiss(read_ack)
  <2>1. lb' = [adr |-> acc.line, dirty |-> IF EarlyAck THEN 0 ELSE Kept.dirty, word |-> lb.word]
    BY <1>11 DEF ReadMiss, Kept
  <2>2. lb' \in [adr : Copies, dirty : Bit, word : [Words -> Copies]]
    BY <2>1 DEF Copies, Bit
  <2>3. cnt' \in 0 .. 3 /\ read_ack = 0
    BY <1>11 DEF ReadMiss, ReadCycle, BackendTypes, PortTypes, DataTypes, Bursts, Bit
  <2> QED
    BY <1>11, <2>2, <2>3 DEF ReadMiss, Bit, ways
<1>12. CASE Fill1Wait(read_ack)
  BY <1>12 DEF Fill1Wait, Bit
<1>13. CASE Fill1Take(read_ack, dat)
  <2>1. dat \in Named \cup {None} /\ ptr \in Words
    BY <1>13 DEF Fill1Take, BackendTypes, PortTypes, Types
  <2>2. At(blk, dat) \in Copies /\ At(ptr, dat) \in Copies
    BY <1>1, <2>1, AtWord
  <2>3. lb' \in [adr : Copies, dirty : Bit, word : [Words -> Copies]]
    BY <1>1, <1>13, <2>2 DEF Fill1Take, Copies, Bit
  <2>4. PICK i \in Bit :
           /\ tags' = [tags EXCEPT ![acc.kind] = [tag |-> [@.tag EXCEPT ![i] = acc.line], lru |-> i]]
           /\ way' = [way EXCEPT ![acc.kind][i][ptr] = At(ptr, dat)]
           /\ fillway' = <<acc.kind, i>>
    BY <1>13 DEF Fill1Take, Bit
  <2>5. tags' \in [Ways -> [tag : [Bit -> Copies], lru : Bit]]
    BY <1>1, <2>4 DEF Copies
  <2>6. way' \in [Ways -> [Bit -> [Words -> Copies]]]
    BY <1>1, <2>1, <2>2, <2>4
  <2>7. fillway' \in Ways \X Bit
    BY <1>1, <2>4
  <2> QED
    BY <1>13, <2>1, <2>3, <2>5, <2>6, <2>7 DEF Fill1Take, Bit
<1>14. CASE Fill2Take(read_ack, dat)
  <2> DEFINE p == (fillp + 1) % 8
  <2>1. p \in Words
    BY DEF Words
  <2>2. At(p, dat) \in Copies
    BY <1>14, <2>1, AtWord DEF Fill2Take, BackendTypes, PortTypes, DataTypes
  <2>3. lb' = [adr |-> lb.adr, dirty |-> Kept.dirty, word |-> [lb.word EXCEPT ![p] = At(p, dat)]]
    BY <1>14 DEF Fill2Take, Kept
  <2>4. lb' \in [adr : Copies, dirty : Bit, word : [Words -> Copies]]
    BY <2>1, <2>2, <2>3
  <2>5. fillway[1] \in Ways /\ fillway[2] \in Bit
    OBVIOUS
  <2>6. way' \in [Ways -> [Bit -> [Words -> Copies]]]
    <3>1. way' = [way EXCEPT ![fillway[1]][fillway[2]][p] = At(p, dat)]
      BY <1>14 DEF Fill2Take
    <3> QED
      BY <2>1, <2>2, <2>5, <3>1
  <2> QED
    BY <1>14, <2>1, <2>4, <2>6 DEF Fill2Take, Bit
<1>15. CASE Fill2End(read_ack)
  BY <1>15 DEF Fill2End, ways, Bit
<1> QED
  BY <1>4, <1>5, <1>6, <1>7, <1>8, <1>9, <1>10, <1>11, <1>12, <1>13, <1>14, <1>15 DEF CpuMachine

\* The crossing's edge, and the island's steps.
LEMMA SourceMoves ==
    ASSUME SourceEdge
    PROVE  /\ cdc_done' \in Bit
           /\ cdc_req # None => /\ phase = "idle" /\ phase' = "asked" /\ request' = cdc_req
                                /\ wanted' = 1 /\ cdc_done' = 0
           /\ cdc_done' = 1 => /\ cdc_req = None /\ phase = "answered" /\ wanted = 1
                               /\ phase' = "idle" /\ wanted' = 0 /\ request' = request
           /\ cdc_req = None /\ cdc_done' = 0 =>
                phase' = phase /\ request' = request /\ wanted' = wanted
BY DEF SourceEdge, SourceAsk, SourceDone, SourceWait, Chan!Ask, Chan!Deliver, Bit

LEMMA IslandMoves ==
    ASSUME IslandAccept \/ IslandAnswer
    PROVE  /\ UNCHANGED <<cache, backend, cdc_done>> /\ request' = request /\ wanted' = wanted
           /\ IslandAccept => phase = "asked" /\ phase' = "accepted" /\ UNCHANGED data
           /\ IslandAnswer => phase = "accepted"
                              /\ phase' = (IF wanted = 1 THEN "answered" ELSE "idle")
BY DEF IslandAccept, IslandAnswer, Chan!Accept, Chan!Answer

\* The backend's edge.
LEMMA BackendMoves ==
    ASSUME BackendEdge, Types
    PROVE  /\ adr_r' = Here /\ adr_r' \in [line : Lines, blk : Words]
           /\ read_ack' = (IF bstate = "B_DELIVER" THEN 1 ELSE 0)
           /\ wack' = (IF bstate = "B_IDLE" /\ bstate' = "B_WRITE" THEN 1 ELSE 0)
           /\ bstate' \in {"B_IDLE", "B_WRITE", "B_READ", "B_DELIVER"}
           /\ burst_cnt' \in Words /\ burst_first' \in Words
           /\ bstate = "B_IDLE" =>
                \/ TakeWrite \/ TakeRead
                \/ /\ ~cdc_ready \/ (wreq = 0 /\ rreq = 0)
                   /\ bstate' = "B_IDLE" /\ cdc_req' = None /\ burst_cnt' = burst_cnt
           /\ bstate \in {"B_WRITE", "B_READ"} /\ cdc_done = 0 =>
                bstate' = bstate /\ cdc_req' = None /\ burst_first' = burst_first
           /\ bstate = "B_WRITE" /\ cdc_done = 1 =>
                bstate' = "B_IDLE" /\ cdc_req' = None
           /\ bstate = "B_READ" /\ cdc_done = 1 =>
                /\ bstate' = "B_DELIVER" /\ cdc_req' = None
                /\ burst_cnt' = 0 /\ burst_first' = burst_first
           /\ bstate = "B_DELIVER" => Deliver
<1>1. acc.line \in Lines /\ acc.blk \in Words /\ cdc_done \in Bit
  BY AccessShape DEF Types, TypeOK, BackendTypes, PortTypes, DataTypes
<1>2. bstate \in {"B_IDLE", "B_WRITE", "B_READ", "B_DELIVER"} /\ burst_cnt \in Words /\ burst_first \in Words
      /\ adr_r.blk \in Words
  BY DEF Types, TypeOK, BackendTypes, PortTypes, DataTypes
<1>3. CASE TakeWrite
  BY <1>1, <1>2, <1>3 DEF TakeWrite, Here
<1>4. CASE TakeRead
  BY <1>1, <1>2, <1>4 DEF TakeRead, Here, Words
<1>5. CASE Finish
  BY <1>1, <1>2, <1>5 DEF Finish, Here, Words, Bit
<1>6. CASE Deliver
  BY <1>1, <1>2, <1>6 DEF Deliver, Here, Words
<1>7. CASE BackendWait
  BY <1>1, <1>2, <1>7 DEF BackendWait, Here, Bit
<1> QED
  BY <1>3, <1>4, <1>5, <1>6, <1>7 DEF BackendEdge

LEMMA PortTypesKept ==
    ASSUME Types, Answered, BackendEdge, SourceEdge
    PROVE  PortTypes'
<1> USE DEF Types, TypeOK, BackendTypes, CpuTypes, PortTypes, DataTypes
<1>3. adr_r' \in [line : Lines, blk : Words] /\ read_ack' \in Bit /\ wack' \in Bit
  BY BackendMoves DEF Bit
<1>4. cdc_req' \in Requests \cup {None}
  <2>1. CASE TakeWrite
    <3>1. wbuf \in [line : Lines, words : SUBSET Words]
      BY <2>1 DEF TakeWrite
    <3> QED
      BY <2>1, <3>1 DEF TakeWrite, Requests
  <2>2. CASE TakeRead
    <3>1. adr_r.line \in Lines
      OBVIOUS
    <3> QED
      BY <2>2, <3>1 DEF TakeRead, Requests
  <2> QED
    BY <2>1, <2>2 DEF BackendEdge, Finish, Deliver, BackendWait
<1>5. /\ cdc_done' \in Bit /\ wanted' \in Bit
      /\ phase' \in {"idle", "asked", "accepted", "answered", "lost"}
      /\ phase' # "idle" => request' \in Requests
  BY SourceMoves DEF Bit
<1>9. read_ack' = 1 => dat' \in Named \cup {None}
  <2> SUFFICES ASSUME read_ack' = 1
               PROVE  dat' \in Named \cup {None}
    OBVIOUS
  <2>1. bstate = "B_DELIVER" /\ Deliver
    BY BackendMoves
  <2>2. cdc_rdata \in Reads
    BY <2>1 DEF Answered, HasAnswer
  <2>3. deliver_idx \in Words
    BY BeatRound DEF deliver_idx
  <2> QED
    BY <2>1, <2>2, <2>3 DEF Deliver, Named, Reads
<1> QED
  BY <1>3, <1>4, <1>5, <1>9

LEMMA DataTypesKept ==
    ASSUME Types, BackendEdge, DataEdge
    PROVE  DataTypes' /\ mem' \in [Lines -> SUBSET Words]
<1> USE DEF Types, TypeOK, BackendTypes, CpuTypes, PortTypes, DataTypes
<1>1. acc.line \in Lines /\ acc.sel \subseteq Words
  BY AccessShape
<1>6. mem' \in [Lines -> SUBSET Words]
  BY <1>1 DEF DataEdge, overwritten
<1>7. cdc_rdata' \in Reads \cup {None}
  <2>1. cdc_rdata \in Reads => [cdc_rdata EXCEPT !.cur = @ \ overwritten] \in Reads
    BY DEF Reads
  <2> QED
    BY <2>1 DEF DataEdge
<1>8. flight' \in Writes \cup {None}
  <2>1. flight \in Writes => [flight EXCEPT !.cur = @ \ overwritten] \in Writes
    BY DEF Writes
  <2>2. CASE bstate = "B_IDLE" /\ bstate' = "B_WRITE"
    <3>1. wreq = 1
      BY <2>2 DEF BackendEdge, TakeWrite, TakeRead, Finish, Deliver, BackendWait
    <3> QED
      BY <2>2, <3>1 DEF DataEdge, Writes
  <2> QED
    BY <2>1, <2>2 DEF DataEdge
<1> QED
  BY <1>6, <1>7, <1>8

LEMMA EdgeTypes ==
    ASSUME Types, Places, Bursts, Answered, Edge
    PROVE  Types'
<1>1. /\ CpuTypes' /\ WayTypes' /\ cnt' \in 0 .. 3 /\ ptr' \in Words /\ fillp' \in Words
      /\ sm' \in {"INIT", "IDLE", "WRITE", "WRITE2", "WB", "READ", "WAIT", "FILL1", "FILL2"}
  BY CpuTypesKept DEF Edge
<1>2. BackendTypes' /\ mem' \in [Lines -> SUBSET Words]
  BY PortTypesKept, DataTypesKept DEF Edge, BackendTypes
<1>3. /\ bstate' \in {"B_IDLE", "B_WRITE", "B_READ", "B_DELIVER"}
      /\ burst_cnt' \in Words /\ burst_first' \in Words
  BY BackendMoves DEF Edge
<1>4. master' \in {"free", "armed", "req", "gap"} /\ acc' \in Accesses
  BY MasterMoves DEF Edge, Types, TypeOK
<1>5. TypeOK'
  BY <1>1, <1>2, <1>3, <1>4 DEF TypeOK, CpuTypes, WayTypes, Copies
<1> QED
  BY <1>1, <1>2, <1>5 DEF Types

LEMMA SweepTypes ==
    ASSUME Types, Sweep
    PROVE  Types'
<1> USE DEF Types, TypeOK, CpuTypes, WayTypes, BackendTypes, PortTypes, DataTypes
<1>1. tags' \in [Ways -> [tag : [Bit -> Copies], lru : Bit]]
  BY DEF Sweep, SweepRow, EmptyTags, Copies, Bit
<1>2. /\ UNCHANGED <<master, acc, sm, cnt, ptr, fill_first, acked, write_ena, cack, lb, match>>
      /\ UNCHANGED <<cacheline_clr, wreq, wbuf, rreq, taken, way, fillway, fillp>>
      /\ UNCHANGED <<bstate, burst_cnt, burst_first, adr_r, read_ack, dat, wack, cdc_req>>
      /\ UNCHANGED <<cdc_done, cdc_rdata, phase, request, wanted, mem, flight>>
  BY DEF Sweep, SweepRow, port, cpu_sm, line_buffer, requests, backend, crossing, data
<1>3. CpuTypes' /\ WayTypes' /\ BackendTypes'
  BY <1>1, <1>2
<1>4. TypeOK'
  BY <1>1, <1>2 DEF Copies
<1> QED
  BY <1>3, <1>4

LEMMA IslandTypes ==
    ASSUME Types, InFlight, IslandAccept \/ IslandAnswer
    PROVE  Types'
<1> USE DEF Types, TypeOK, CpuTypes, WayTypes, BackendTypes, PortTypes, DataTypes
<1>1. /\ UNCHANGED <<master, acc, sm, cnt, ptr, fill_first, acked, write_ena, cack, lb, match>>
      /\ UNCHANGED <<cacheline_clr, wreq, wbuf, rreq, taken, tags, way, fillway, fillp>>
      /\ UNCHANGED <<bstate, burst_cnt, burst_first, adr_r, read_ack, dat, wack, cdc_req>>
      /\ UNCHANGED <<cdc_done, request, wanted>>
  BY IslandMoves DEF cache, port, cpu_sm, line_buffer, requests, ways, backend
<1>2. phase' \in {"idle", "asked", "accepted", "answered", "lost"} /\ phase # "idle"
  BY IslandMoves
<1>3. /\ mem' \in [Lines -> SUBSET Words]
      /\ cdc_rdata' \in Reads \cup {None} /\ flight' \in Writes \cup {None}
  <2>1. CASE IslandAccept
    BY <2>1 DEF IslandAccept, data
  <2>2. CASE IslandAnswer /\ request.rd = 1
    BY <1>2, <2>2 DEF IslandAnswer, Reads, Requests
  <2>3. CASE IslandAnswer /\ request.rd # 1
    <3>1. request.rd = 0 /\ phase = "accepted" /\ request.line \in Lines
      BY <1>2, <2>3, IslandMoves DEF Requests
    <3>2. flight \in Writes
      BY <3>1 DEF InFlight
    <3> QED
      BY <2>3, <3>1, <3>2 DEF IslandAnswer, Writes
  <2> QED
    BY <2>1, <2>2, <2>3
<1> QED
  BY <1>1, <1>2, <1>3

\* A reset of the CPU, or of the controller.
LEMMA Rubbish ==
    ASSUME Types, CacheReset, MasterReset
    PROVE  /\ CpuTypes' /\ WayTypes' /\ cnt' \in 0 .. 3 /\ ptr' \in Words /\ fillp' \in Words
           /\ sm' = "INIT" /\ master' = "free" /\ acc' = acc /\ acc \in Accesses
BY DEF Types, TypeOK, CpuTypes, WayTypes, CacheReset, MasterReset, NoWords, Copies, Bit, Words

LEMMA RecoverTypes ==
    ASSUME Types, NEW w \in Writes \cup {None}, Recover(w)
    PROVE  /\ mem' \in [Lines -> SUBSET Words]
           /\ cdc_rdata' \in Reads \cup {None} /\ flight' \in Writes \cup {None}
<1>1. cdc_rdata \in Reads => [cdc_rdata EXCEPT !.cur = {}] \in Reads
  BY DEF Reads
<1>2. w \in Writes => [w EXCEPT !.cur = w.words] \in Writes
  BY DEF Writes
<1> QED
  BY <1>1, <1>2 DEF Recover, Types, BackendTypes, PortTypes, DataTypes

LEMMA ResetTypes ==
    ASSUME Types, Answered, CpuReset \/ FullReset
    PROVE  Types'
<1> USE DEF Types
<1>1. /\ CpuTypes' /\ WayTypes' /\ cnt' \in 0 .. 3 /\ ptr' \in Words /\ fillp' \in Words
      /\ sm' = "INIT" /\ master' = "free" /\ acc' = acc /\ acc \in Accesses
  BY Rubbish DEF CpuReset, FullReset
<1>2. CASE CpuReset
  <2> DEFINE w == IF bstate = "B_IDLE" /\ bstate' = "B_WRITE"
                  THEN [line |-> wbuf.line, words |-> wbuf.words, cur |-> {}]
                  ELSE flight
  <2>1. BackendEdge /\ SourceEdge /\ Recover(w)
    BY <1>2 DEF CpuReset
  <2>2. bstate = "B_IDLE" /\ bstate' = "B_WRITE" => wreq = 1
    BY <2>1, BackendMoves DEF TakeWrite, TakeRead
  <2>3. w \in Writes \cup {None}
    BY <2>2 DEF Writes, CpuTypes, BackendTypes, DataTypes
  <2>4. DataTypes' /\ mem' \in [Lines -> SUBSET Words]
    BY <2>1, <2>3, RecoverTypes DEF DataTypes
  <2>5. PortTypes'
    BY <2>1, PortTypesKept
  <2>6. /\ bstate' \in {"B_IDLE", "B_WRITE", "B_READ", "B_DELIVER"}
        /\ burst_cnt' \in Words /\ burst_first' \in Words
    BY <2>1, BackendMoves
  <2> QED
    BY <1>1, <2>4, <2>5, <2>6 DEF BackendTypes, TypeOK, CpuTypes, WayTypes, Copies
<1>3. CASE FullReset
  <2> DEFINE w == IF phase = "asked" THEN flight ELSE None
  <2>1. DataTypes' /\ mem' \in [Lines -> SUBSET Words]
    <3>1. Recover(w) /\ w \in Writes \cup {None}
      BY <1>3 DEF FullReset, BackendTypes, DataTypes
    <3> QED
      BY <3>1, RecoverTypes DEF DataTypes
  <2>2. PortTypes'
    <3>1. adr_r' \in [line : Lines, blk : Words]
      BY <1>3, AccessShape DEF FullReset, Here, TypeOK, blk
    <3>2. cdc_done' = 0 /\ wack' = 0 /\ read_ack' = 0 /\ cdc_req' = None
      BY <1>3 DEF FullReset
    <3>3. /\ wanted' \in Bit /\ phase' \in {"idle", "asked", "accepted", "answered", "lost"}
          /\ phase' # "idle" => phase # "idle" /\ request' = request
      BY <1>3 DEF FullReset, BackendTypes, PortTypes, Bit
    <3> QED
      BY <3>1, <3>2, <3>3 DEF PortTypes, BackendTypes, Bit
  <2>3. bstate' = "B_IDLE" /\ burst_cnt' = 0 /\ burst_first' = burst_first
    BY <1>3 DEF FullReset
  <2> QED
    BY <1>1, <2>1, <2>2, <2>3, SMTT(30) DEF BackendTypes, TypeOK, CpuTypes, WayTypes, Copies, Words
<1> QED
  BY <1>2, <1>3

\* What a step leaves alone.
LEMMA Untouched ==
    ASSUME UNCHANGED vars
    PROVE  /\ UNCHANGED <<master, acc, sm, cnt, ptr, fill_first, acked, write_ena, cack, rdat>>
           /\ UNCHANGED <<lb, match, cacheline_clr, wreq, wbuf, rreq, taken>>
           /\ UNCHANGED <<tags, way, fillway, fillp, cc_clr_r, cc_clr, sdr_sm, init_done>>
           /\ UNCHANGED <<bstate, burst_cnt, burst_first, adr_r, read_ack, dat, wack, cdc_req>>
           /\ UNCHANGED <<cdc_done, phase, request, wanted, cdc_rdata, mem, flight>>
BY DEF vars, cache, port, cpu_sm, line_buffer, requests, ways, clearing, backend, crossing, data

LEMMA IslandLeaves ==
    ASSUME IslandAccept \/ IslandAnswer
    PROVE  /\ UNCHANGED <<master, acc, sm, cnt, ptr, fill_first, acked, write_ena, cack, rdat>>
           /\ UNCHANGED <<lb, match, cacheline_clr, wreq, wbuf, rreq, taken>>
           /\ UNCHANGED <<tags, way, fillway, fillp, cc_clr_r, cc_clr, sdr_sm, init_done>>
           /\ UNCHANGED <<bstate, burst_cnt, burst_first, adr_r, read_ack, dat, wack, cdc_req>>
           /\ UNCHANGED <<cdc_done, request, wanted>>
BY IslandMoves DEF cache, port, cpu_sm, line_buffer, requests, ways, clearing, backend

LEMMA SweepLeaves ==
    ASSUME Sweep
    PROVE  /\ UNCHANGED <<master, acc, sm, cnt, ptr, fill_first, acked, write_ena, cack, rdat>>
           /\ UNCHANGED <<lb, match, cacheline_clr, wreq, wbuf, rreq, taken>>
           /\ UNCHANGED <<way, fillway, fillp, cc_clr_r, cc_clr, init_done>>
           /\ UNCHANGED <<bstate, burst_cnt, burst_first, adr_r, read_ack, dat, wack, cdc_req>>
           /\ UNCHANGED <<cdc_done, phase, request, wanted, cdc_rdata, mem, flight>>
           /\ sdr_sm = "INIT1" /\ sdr_sm' = "SWEPT" /\ tags' = EmptyTags
BY DEF Sweep, SweepRow, port, cpu_sm, line_buffer, requests, backend, crossing, data

LEMMA TypesKept ==
    ASSUME IInv, [Next]_vars
    PROVE  Types'
<1>1. CASE Next
  BY <1>1, EdgeTypes, SweepTypes, IslandTypes, ResetTypes DEF Next, IInv
<1>2. CASE UNCHANGED vars
  BY <1>2, Untouched DEF IInv, Types, TypeOK, CpuTypes, WayTypes, BackendTypes, PortTypes, DataTypes
<1> QED
  BY <1>1, <1>2

-----------------------------------------------------------------------------
(* The CPU-side machine, state by state.                                   *)

LEMMA CpuTurns ==
    ASSUME CpuMachine(read_ack, dat)
    PROVE  /\ sm = "INIT" => Init_Wait
           /\ sm = "IDLE" => Idle \/ IdleWrite \/ IdleRead
           /\ sm = "WRITE" => Write
           /\ sm = "WRITE2" => Write2
           /\ sm = "WB" => WriteBack
           /\ sm = "READ" => ReadHit \/ ReadMiss(read_ack)
           /\ sm = "WAIT" => Wait
           /\ sm = "FILL1" => Fill1Wait(read_ack) \/ Fill1Take(read_ack, dat)
           /\ sm = "FILL2" => Fill2Take(read_ack, dat) \/ Fill2End(read_ack)
BY DEF CpuMachine, Init_Wait, Idle, IdleWrite, IdleRead, Write, Write2, WriteBack, Wait,
       ReadHit, ReadMiss, ReadCycle, Fill1Wait, Fill1Take, Fill2Take, Fill2End

\* The place the machine moves to.
LEMMA CpuGoes ==
    ASSUME CpuMachine(read_ack, dat), Types, Swept, Bursts
    PROVE  /\ sm = "INIT" => sm' = (IF init_done = 1 THEN "IDLE" ELSE "INIT")
           /\ sm = "IDLE" => sm' \in {"IDLE", "WRITE", "READ"}
           /\ sm = "WRITE" => sm' \in {"WB", "WRITE2"}
           /\ sm = "WRITE2" => sm' = "WB"
           /\ sm \in {"WB", "WAIT"} => sm' = (IF u_req THEN sm ELSE "IDLE")
           /\ sm = "READ" => sm' \in {"READ", "WAIT", "IDLE", "FILL1"}
           /\ sm = "FILL1" => sm' = (IF read_ack = 1 THEN "FILL2" ELSE "FILL1")
           /\ sm = "FILL2" => sm' \in {"FILL2", "IDLE"}
           /\ sm = "FILL2" /\ read_ack = 1 => sm' = "FILL2"
<1>1. read_ack \in Bit /\ cc_clr = 0 /\ (sm = "READ" => read_ack = 0)
  BY DEF Types, BackendTypes, PortTypes, Swept, Bursts
<1>2. /\ sm = "INIT" => sm' = (IF init_done = 1 THEN "IDLE" ELSE "INIT")
      /\ sm = "IDLE" => sm' \in {"IDLE", "WRITE", "READ"}
  <2>1. Init_Wait => sm' = (IF init_done = 1 THEN "IDLE" ELSE "INIT")
    BY DEF Init_Wait
  <2>2. Idle => sm' = "IDLE"
    BY <1>1 DEF Idle
  <2>3. IdleWrite => sm' \in {"WRITE", "IDLE"}
    BY DEF IdleWrite
  <2>4. IdleRead => sm' = "READ"
    BY DEF IdleRead
  <2> QED
    BY <2>1, <2>2, <2>3, <2>4, CpuTurns
<1>3. /\ sm = "WRITE" => sm' \in {"WB", "WRITE2"}
      /\ sm = "WRITE2" => sm' = "WB"
      /\ sm \in {"WB", "WAIT"} => sm' = (IF u_req THEN sm ELSE "IDLE")
  BY CpuTurns DEF Write, Write2, WriteBack, Wait, AwaitDrop
<1>4. sm = "READ" => sm' \in {"READ", "WAIT", "IDLE", "FILL1"}
  BY <1>1, CpuTurns DEF ReadHit, ReadMiss
<1>5. sm = "FILL1" => sm' = (IF read_ack = 1 THEN "FILL2" ELSE "FILL1")
  <2>1. Fill1Wait(read_ack) => read_ack = 0 /\ sm' = sm
    BY DEF Fill1Wait
  <2>2. Fill1Take(read_ack, dat) => read_ack = 1 /\ sm' = "FILL2"
    BY DEF Fill1Take
  <2> QED
    BY <2>1, <2>2, CpuTurns
<1>6. /\ sm = "FILL2" => sm' \in {"FILL2", "IDLE"}
      /\ sm = "FILL2" /\ read_ack = 1 => sm' = "FILL2"
  <2>1. Fill2Take(read_ack, dat) => read_ack = 1 /\ sm' = sm
    BY DEF Fill2Take
  <2>2. Fill2End(read_ack) => read_ack = 0 /\ sm' \in {"FILL2", "IDLE"}
    BY DEF Fill2End
  <2> QED
    BY <2>1, <2>2, CpuTurns
<1> QED
  BY <1>2, <1>3, <1>4, <1>5, <1>6

LEMMA SweptKept ==
    ASSUME Clears = {0}, IInv, [Next]_vars
    PROVE  Swept'
<1> USE DEF IInv
<1>1. CASE Edge
  <2>1. /\ MasterEdge /\ CpuMachine(read_ack, dat) /\ EveryClock(wack)
        /\ ClearLogic /\ SdrMachine(bstate \in {"B_IDLE", "B_WRITE"} /\ read_ack = 0)
        /\ BackendEdge
    BY <1>1 DEF Edge
  <2>2. cc_clr' = 0 /\ cc_clr_r' = <<0, 0>>
    BY <2>1 DEF ClearLogic, Swept
  <2>3. init_done' \in Bit /\ sdr_sm' \in {"INIT0", "INIT1", "SWEPT", "IDLE"}
    BY <2>1 DEF SdrMachine, Swept, Bit
  <2>4. sm' # "INIT" \/ init_done' = 1 => sdr_sm' = "IDLE"
    <3>1. sm = "INIT" /\ init_done = 0 => sm' = "INIT"
      BY <2>1, CpuGoes
    <3> QED
      BY <2>1, <3>1 DEF SdrMachine, Swept, Bit
  <2>5. ASSUME sm' = "INIT"
        PROVE  /\ sdr_sm' \in {"SWEPT", "IDLE"} => tags' = EmptyTags
               /\ cack' = 0 /\ rreq' = 0 /\ wreq' = 0 /\ write_ena' = 0 /\ lb'.dirty = 1
               /\ fill_first' = 0
               /\ sdr_sm' = "IDLE" => bstate' \in {"B_IDLE", "B_WRITE"} /\ read_ack' = 0
    <3>1. sm = "INIT" /\ Init_Wait
      BY <2>1, <2>5, CpuGoes, CpuTurns DEF Types, TypeOK
    <3>2. /\ cack = 0 /\ rreq = 0 /\ wreq = 0 /\ write_ena = 0 /\ lb.dirty = 1 /\ fill_first = 0
      BY <3>1 DEF Swept
    <3>3. sdr_sm' \in {"SWEPT", "IDLE"} => tags' = EmptyTags
      BY <2>1, <3>1 DEF SdrMachine, Swept, Init_Wait, ways
    <3>4. cack' = 0 /\ rreq' = 0 /\ fill_first' = 0
      BY <3>1, <3>2 DEF Init_Wait, Acknowledge
    <3>5. wreq' = 0 /\ write_ena' = 0
      BY <2>1, <3>1, <3>2 DEF EveryClock, accepts
    <3>6. lb'.dirty = 1
      BY <3>1, <3>2 DEF Init_Wait, Kept, Types, CpuTypes
    <3>7. sdr_sm' = "IDLE" => bstate' \in {"B_IDLE", "B_WRITE"} /\ read_ack' = 0
      <4>1. sdr_sm' = "IDLE" => bstate \in {"B_IDLE", "B_WRITE"}
        BY <2>1, <3>1 DEF SdrMachine, Swept
      <4>2. ~TakeRead
        BY <3>2 DEF TakeRead
      <4>3. cdc_done \in Bit
        BY DEF Types, BackendTypes, PortTypes
      <4> QED
        BY <2>1, <4>1, <4>2, <4>3, BackendMoves DEF TakeWrite, Bit
    <3> QED
      BY <3>3, <3>4, <3>5, <3>6, <3>7
  <2> QED
    BY <2>2, <2>3, <2>4, <2>5 DEF Swept
<1>2. CASE Sweep
  BY <1>2, SweepLeaves DEF Swept
<1>3. CASE IslandAccept \/ IslandAnswer
  BY <1>3, IslandLeaves DEF Swept
<1>4. CASE CpuReset \/ FullReset
  BY <1>4 DEF CpuReset, FullReset, CacheReset, Swept, Bit
<1>5. CASE UNCHANGED vars
  BY <1>5, Untouched DEF Swept
<1> QED
  BY <1>1, <1>2, <1>3, <1>4, <1>5 DEF Next

-----------------------------------------------------------------------------
(* The places are kept.                                                    *)

\* The acknowledgement at an edge.
Acks ==
    \/ sm = "WRITE" /\ (blk % 2 = 0 \/ acc.two = 0)
    \/ sm = "WRITE2"
    \/ sm = "READ" /\ EarlyAck
    \/ sm = "FILL1" /\ read_ack = 1 /\ acc.two = 0
    \/ sm = "FILL2" /\ read_ack = 1 /\ fill_first = 1 /\ acc.two = 1

LEMMA CpuAcknowledges ==
    ASSUME CpuMachine(read_ack, dat), Types
    PROVE  /\ cack' = (IF u_req THEN (IF Acks THEN 1 ELSE cack) ELSE 0)
           /\ rreq' = (IF sm' = "FILL1" THEN 1 ELSE 0)
<1>1. read_ack \in Bit /\ sm \in {"INIT", "IDLE", "WRITE", "WRITE2", "WB", "READ", "WAIT", "FILL1", "FILL2"}
  BY DEF Types, TypeOK, BackendTypes, PortTypes
<1> USE DEF Acks, Acknowledge
<1>2. CASE Init_Wait
  BY <1>2 DEF Init_Wait
<1>3. CASE Idle
  BY <1>3 DEF Idle
<1>4. CASE IdleWrite
  BY <1>4 DEF IdleWrite
<1>5. CASE IdleRead
  BY <1>5 DEF IdleRead
<1>6. CASE Write
  BY <1>6 DEF Write
<1>7. CASE Write2
  BY <1>7 DEF Write2
<1>8. CASE WriteBack \/ Wait
  BY <1>8 DEF WriteBack, Wait, AwaitDrop
<1>9. CASE ReadHit
  BY <1>9 DEF ReadHit, ReadCycle
<1>10. CASE ReadMiss(read_ack)
  BY <1>1, <1>10 DEF ReadMiss, ReadCycle, Bit
<1>11. CASE Fill1Wait(read_ack)
  BY <1>11 DEF Fill1Wait
<1>12. CASE Fill1Take(read_ack, dat)
  BY <1>12 DEF Fill1Take
<1>13. CASE Fill2Take(read_ack, dat)
  BY <1>13 DEF Fill2Take
<1>14. CASE Fill2End(read_ack)
  BY <1>14 DEF Fill2End
<1> QED
  BY <1>2, <1>3, <1>4, <1>5, <1>6, <1>7, <1>8, <1>9, <1>10, <1>11, <1>12, <1>13, <1>14 DEF CpuMachine

\* A hit leaves the tags as they are.
LEMMA HitKeepsTags ==
    ASSUME ReadHit, Types
    PROVE  \A k \in Ways, i \in Bit : tags'[k].tag[i] = tags[k].tag[i]
<1>1. PICK h \in Ways, j \in Bit :
        tags' = (IF cnt = 0 THEN [tags EXCEPT ![h] = [tag |-> @.tag, lru |-> j]] ELSE tags)
  BY DEF ReadHit, Ways, Bit
<1> QED
  BY <1>1 DEF Types, WayTypes

\* Holding, with the tags unfolded.
LEMMA NotHeld ==
    ASSUME NEW l
    PROVE  Holding(l) = {} <=> \A k \in Ways, i \in Bit : tags[k].tag[i] # l
<1>1. ASSUME Holding(l) = {}, NEW k \in Ways, NEW i \in Bit
      PROVE  tags[k].tag[i] # l
  BY <1>1, HoldingIs
<1>2. ASSUME \A k \in Ways, i \in Bit : tags[k].tag[i] # l, NEW p \in Holding(l)
      PROVE  FALSE
  <2>1. p \in Ways \X Bit /\ tags[p[1]].tag[p[2]] = l
    BY <1>2 DEF Holding
  <2>2. p[1] \in Ways /\ p[2] \in Bit
    BY <2>1
  <2> QED
    BY <1>2, <2>1, <2>2
<1> QED
  BY <1>1, <1>2

LEMMA PlacesAtEdge ==
    ASSUME IInv, Edge
    PROVE  Places'
<1> USE DEF IInv
<1>1. /\ MasterEdge /\ CpuMachine(read_ack, dat) /\ EveryClock(wack)
      /\ BackendEdge
  BY DEF Edge
<1>2. /\ sm \in {"INIT", "IDLE", "WRITE", "WRITE2", "WB", "READ", "WAIT", "FILL1", "FILL2"}
      /\ master \in {"free", "armed", "req", "gap"} /\ acc \in Accesses /\ cnt \in 0 .. 3
      /\ cack \in Bit /\ taken \in Bit /\ fill_first \in Bit /\ read_ack \in Bit
      /\ sm' \in {"INIT", "IDLE", "WRITE", "WRITE2", "WB", "READ", "WAIT", "FILL1", "FILL2"}
      /\ cack' \in Bit /\ taken' \in Bit
  BY EdgeTypes DEF Types, TypeOK, CpuTypes, BackendTypes, PortTypes
<1>3. /\ master' = "req" => /\ acc' = acc
                            /\ master = "armed" \/ (master = "req" /\ ~ack)
      /\ master' = "gap" => master = "req" /\ ack /\ acc' = acc
      /\ master = "req" /\ ~ack => master' = "req"
      /\ master = "req" /\ ack => master' = "gap"
      /\ master = "gap" => master' = "free"
      /\ master # "free" => acc' = acc
      /\ master' # "armed" => acc' = acc
  BY <1>1, <1>2, MasterMoves
<1>4. /\ cack' = (IF u_req THEN (IF Acks THEN 1 ELSE cack) ELSE 0)
      /\ rreq' = 1 <=> sm' = "FILL1"
  BY <1>1, CpuAcknowledges
<1>5. taken' = (IF accepts THEN 1 ELSE IF u_req THEN taken ELSE 0)
  BY <1>1 DEF EveryClock
<1>6. master' # "armed" => adr_r' = Here'
  BY <1>1, <1>3, BackendMoves DEF Here, blk
<1>7. cack' = 1 => master' \in {"req", "gap"}
  BY <1>2, <1>3, <1>4 DEF u_req
<1>8. acc.we \in Bit /\ acc.two \in Bit
  BY <1>2, AccessShape
<1> SUFFICES /\ sm' \in {"IDLE", "INIT"} => cack' = 0
             /\ sm' \in {"WRITE", "WRITE2"} => /\ master' = "req" /\ acc'.we = 1 /\ cack' = 0
                                               /\ taken' = 1
             /\ sm' = "WRITE2" => acc'.two = 1
             /\ sm' = "WB" => \/ master' = "req" /\ acc'.we = 1 /\ cack' = 1 /\ taken' = 1
                              \/ master' = "gap"
             /\ taken' = 1 => sm' \in {"WRITE", "WRITE2", "WB"}
             /\ sm' = "READ" => ReadPlace'
             /\ sm' = "WAIT" => master' = "gap"
             /\ sm' = "FILL1" => master' = "req" /\ acc'.we = 0 /\ cack' = 0
             /\ sm' = "FILL2" /\ cack' = 1 => read_ack' = 1 /\ (master' = "req" => acc'.we = 0)
  BY <1>4, <1>6, <1>7 DEF Places
<1> USE DEF ack, valid, u_req, Acks
<1>9. CASE sm = "INIT"
  BY <1>1, <1>2, <1>3, <1>4, <1>5, <1>9, CpuGoes DEF Places, accepts
<1>10. CASE sm = "IDLE"
  <2>1. cack = 0 /\ taken = 0 /\ cack' = 0
    BY <1>2, <1>4, <1>10 DEF Places, Bit
  <2>2. CASE Idle
    <3>1. sm' = "IDLE" /\ ~accepts
      BY <1>10, <2>2 DEF Idle, accepts, Swept
    <3> QED
      BY <1>5, <2>1, <3>1
  <2>3. CASE IdleWrite
    <3>1. sm' = (IF accepts THEN "WRITE" ELSE "IDLE") /\ master = "req" /\ acc.we = 1
      BY <2>3 DEF IdleWrite
    <3> QED
      BY <1>3, <1>5, <2>1, <3>1
  <2>4. CASE IdleRead
    <3>1. sm' = "READ" /\ cnt' = 0 /\ master = "req" /\ acc.we = 0 /\ ~ack /\ ~accepts
      BY <1>10, <2>1, <2>4 DEF IdleRead, accepts
    <3> QED
      BY <1>3, <1>5, <1>8, <2>1, <3>1 DEF ReadPlace, Bit
  <2> QED
    BY <1>1, <1>10, <2>2, <2>3, <2>4, CpuTurns
<1>11. CASE sm = "WRITE"
  <2>1. master = "req" /\ acc.we = 1 /\ cack = 0 /\ taken = 1
    BY <1>11 DEF Places
  <2>2. sm' = (IF blk % 2 = 0 \/ acc.two = 0 THEN "WB" ELSE "WRITE2")
    BY <1>1, <1>11, CpuTurns DEF Write
  <2> QED
    BY <1>3, <1>4, <1>5, <1>8, <1>11, <2>1, <2>2 DEF accepts, Bit
<1>12. CASE sm = "WRITE2"
  <2>1. master = "req" /\ acc.we = 1 /\ cack = 0 /\ taken = 1 /\ sm' = "WB"
    BY <1>1, <1>12, CpuGoes DEF Places
  <2> QED
    BY <1>3, <1>4, <1>5, <1>12, <2>1 DEF accepts
<1>13. CASE sm = "WB"
  BY <1>1, <1>3, <1>4, <1>5, <1>13, CpuGoes DEF Places, accepts
<1>14. CASE sm = "READ"
  <2>1. ReadPlace /\ taken = 0 /\ ~accepts
    BY <1>2, <1>14 DEF Places, accepts, Bit
  <2>2. CASE ReadHit
    <3>1. /\ cnt' = (cnt + 1) % 4
          /\ sm' = (IF cnt # 3 THEN "READ" ELSE IF u_req THEN "WAIT" ELSE "IDLE")
          /\ Holding(acc.line) # {}
      BY <2>2 DEF ReadHit, ReadCycle
    <3>2. acc' = acc /\ Holding(acc.line)' # {}
      <4>1. acc' = acc
        BY <1>3, <2>1 DEF ReadPlace
      <4>2. tags \in [Ways -> [tag : [Bit -> Copies], lru : Bit]]
        BY DEF Types, WayTypes
      <4> QED
        BY <2>2, <3>1, <4>1, NotHeld, HitKeepsTags DEF Holding
    <3> QED
      BY <1>2, <1>3, <1>4, <1>5, <1>8, <1>14, <2>1, <3>1, <3>2 DEF ReadPlace, EarlyAck, Bit
  <2>3. CASE ReadMiss(read_ack)
    <3>1. cnt = 0 /\ sm' = "FILL1"
      BY <1>14, <2>1, <2>3 DEF ReadPlace, ReadMiss, Bursts
    <3>2. master = "req" /\ cack = 0 /\ acc.we = 0 /\ ~EarlyAck
      BY <1>2, <1>8, <2>1, <3>1 DEF ReadPlace, EarlyAck, Bit
    <3>3. cack' = 0 /\ taken' = 0 /\ master' = "req" /\ acc' = acc
      BY <1>3, <1>4, <1>5, <1>14, <2>1, <3>2
    <3> QED
      BY <3>1, <3>2, <3>3
  <2> QED
    BY <1>1, <1>14, <2>2, <2>3, CpuTurns
<1>15. CASE sm = "WAIT"
  BY <1>1, <1>2, <1>3, <1>4, <1>5, <1>15, CpuGoes DEF Places, accepts
<1>16. CASE sm = "FILL1"
  <2>1. master = "req" /\ cack = 0 /\ acc.we = 0 /\ taken = 0 /\ ~accepts
    BY <1>2, <1>16 DEF Places, accepts, Bit
  <2>2. taken' = 0 /\ master' = "req" /\ acc' = acc
    BY <1>3, <1>5, <1>16, <2>1
  <2>3. sm' = (IF read_ack = 1 THEN "FILL2" ELSE "FILL1")
    BY <1>1, <1>16, CpuGoes
  <2>4. read_ack = 1 => read_ack' = 1
    BY <1>1, <1>16, BackendMoves DEF Bursts, Types, TypeOK
  <2> QED
    BY <1>2, <1>4, <1>16, <2>1, <2>2, <2>3, <2>4 DEF Bit
<1>17. CASE sm = "FILL2"
  <2>1. taken' = 0
    BY <1>2, <1>5, <1>17 DEF Places, accepts, Bit
  <2>2. sm' \in {"FILL2", "IDLE"} /\ (sm' = "IDLE" => read_ack = 0)
    BY <1>1, <1>2, <1>17, CpuGoes DEF Bit
  <2>3. sm' = "IDLE" => cack' = 0
    BY <1>2, <1>4, <1>17, <2>2 DEF Places, Bit
  <2>4. ASSUME cack' = 1
        PROVE  read_ack' = 1 /\ (master' = "req" => acc'.we = 0)
    <3>1. u_req /\ (cack = 1 \/ (read_ack = 1 /\ fill_first = 1))
      BY <1>4, <1>17, <2>4
    <3>2. Beat \in {1, 2, 3}
      BY <1>17, <3>1 DEF Bursts
    <3>3. bstate = "B_DELIVER"
      BY <1>17, <3>2 DEF Bursts, Beat
    <3>4. read_ack' = 1
      BY <1>1, <3>3, BackendMoves
    <3>5. master' = "req" => acc'.we = 0
      BY <1>3, <1>17, <3>1 DEF Bursts
    <3> QED
      BY <3>4, <3>5
  <2> QED
    BY <1>2, <2>1, <2>2, <2>3, <2>4 DEF Bit
<1> QED
  BY <1>2, <1>9, <1>10, <1>11, <1>12, <1>13, <1>14, <1>15, <1>16, <1>17

LEMMA PlacesKept ==
    ASSUME IInv, [Next]_vars
    PROVE  Places'
<1> USE DEF IInv
<1>1. CASE Edge
  BY <1>1, PlacesAtEdge
<1>2. CASE Sweep
  <2>1. sm = "INIT" /\ sm' = "INIT"
    BY <1>2, SweepLeaves DEF Swept
  <2> QED
    BY <1>2, <2>1, SweepLeaves DEF Places, Here, blk
<1>3. CASE IslandAccept \/ IslandAnswer
  BY <1>3, IslandLeaves DEF Places, ReadPlace, Holding, Here, blk
<1>4. CASE CpuReset \/ FullReset
  <2>1. adr_r' = Here'
    BY <1>4, BackendMoves DEF CpuReset, FullReset, MasterReset, Here, blk
  <2>2. sm' = "INIT" /\ cack' = 0 /\ rreq' = 0 /\ taken' = 0
    BY <1>4 DEF CpuReset, FullReset, CacheReset
  <2> QED
    BY <2>1, <2>2 DEF Places
<1>5. CASE UNCHANGED vars
  BY <1>5, Untouched DEF Places, ReadPlace, Holding, Here, blk
<1> QED
  BY <1>1, <1>2, <1>3, <1>4, <1>5 DEF Next

-----------------------------------------------------------------------------
(* The crossing.                                                           *)

\* When a write is accepted.
LEMMA Accepting ==
    ASSUME IInv, Edge, accepts
    PROVE  /\ sm = "IDLE" /\ master = "req" /\ acc.we = 1 /\ IdleWrite /\ sm' = "WRITE"
           /\ wreq = 0 /\ wack = 0 /\ bstate \in {"B_IDLE", "B_WRITE"} /\ read_ack = 0
           /\ wreq' = 1 /\ wbuf' = [line |-> acc.line, words |-> acc.sel]
           /\ taken = 0 /\ cack = 0 /\ acc' = acc /\ master' = "req"
<1> USE DEF IInv
<1>1. sm = "IDLE" /\ master = "req" /\ acc.we = 1 /\ write_ena = 1
  BY DEF accepts, u_req
<1>2. IdleWrite
  BY <1>1, CpuTurns DEF Edge, Idle, IdleRead, valid, u_req
<1>3. wreq = 0 /\ wack = 0 /\ bstate \in {"B_IDLE", "B_WRITE"} /\ read_ack = 0
  BY <1>1 DEF Crossing, OneAtATime, Bursts, Types, CpuTypes, BackendTypes, PortTypes, Bit
<1>4. taken = 0 /\ cack = 0
  BY <1>1 DEF Places, Types, CpuTypes, Bit
<1>5. ~ack
  BY <1>1, <1>4 DEF ack, valid
<1>6. acc' = acc /\ master' = "req"
  BY <1>1, <1>5, MasterMoves DEF Edge, Types, TypeOK
<1>7. sm' = "WRITE"
  BY <1>2 DEF IdleWrite
<1>8. wreq' = 1 /\ wbuf' = [line |-> acc.line, words |-> acc.sel]
  BY <1>3 DEF Edge, EveryClock
<1> QED
  BY <1>1, <1>2, <1>3, <1>4, <1>6, <1>7, <1>8

\* What a request taken by the backend carries.
LEMMA TakesARequest ==
    ASSUME IInv, TakeWrite \/ TakeRead
    PROVE  cdc_req' # None
<1>1. cdc_req' \in Requests
  <2>1. wreq = 1 => wbuf \in [line : Lines, words : SUBSET Words]
    BY DEF IInv, Types, CpuTypes
  <2>2. adr_r.line \in Lines
    BY DEF IInv, Types, BackendTypes, PortTypes
  <2> QED
    BY <2>1, <2>2 DEF TakeWrite, TakeRead, Requests
<1> QED
  BY <1>1, NoneAssumption

LEMMA PhasesAtEdge ==
    ASSUME IInv, BackendEdge, SourceEdge
    PROVE  CrossingPhases'
<1> USE DEF IInv
<1>1. /\ CrossingPhases /\ cdc_done \in Bit /\ wanted \in Bit /\ cdc_done' \in Bit
      /\ phase \in {"idle", "asked", "accepted", "answered", "lost"}
      /\ bstate \in {"B_IDLE", "B_WRITE", "B_READ", "B_DELIVER"}
  BY SourceMoves DEF Crossing, CrossingPhases, Types, TypeOK, BackendTypes, PortTypes
<1> USE <1>1 DEF CrossingPhases, Bit
<1>2. CASE TakeWrite \/ TakeRead
  <2>1. bstate = "B_IDLE" /\ phase = "idle" /\ cdc_req = None /\ cdc_done = 0 /\ wanted = 0
    BY <1>2 DEF TakeWrite, TakeRead, cdc_ready
  <2>2. phase' = "idle" /\ wanted' = 0 /\ cdc_done' = 0 /\ cdc_req' # None
    BY <1>2, <2>1, SourceMoves, TakesARequest
  <2>3. \/ bstate' = "B_WRITE" /\ cdc_req'.rd = 0
        \/ bstate' = "B_READ" /\ cdc_req'.rd = 1 /\ wack' = 0
    BY <1>2 DEF TakeWrite, TakeRead
  <2> QED
    BY <2>2, <2>3
<1>3. CASE bstate = "B_IDLE" /\ bstate' = "B_IDLE" /\ cdc_req' = None
  <2>1. cdc_req = None /\ wanted = 0 /\ phase # "answered" /\ wack' = 0
    BY <1>3, BackendMoves
  <2> QED
    BY <1>3, <2>1, SourceMoves
<1>4. CASE bstate \in {"B_WRITE", "B_READ"} /\ cdc_done = 0
  <2>1. bstate' = bstate /\ cdc_req' = None /\ wack' = 0
    BY <1>4, BackendMoves
  <2> QED
    BY <1>4, <2>1, SourceMoves
<1>5. CASE bstate \in {"B_WRITE", "B_READ"} /\ cdc_done = 1
  <2>1. bstate' \in {"B_IDLE", "B_DELIVER"} /\ cdc_req' = None /\ wack' = 0
    BY <1>5, BackendMoves
  <2>2. cdc_req = None /\ wanted = 0 /\ phase = "idle"
    BY <1>5
  <2>3. wanted' = 0 /\ cdc_done' = 0 /\ phase' = "idle"
    BY <2>2, SourceMoves
  <2> QED
    BY <2>1, <2>3
<1>6. CASE bstate = "B_DELIVER"
  <2>1. bstate' \in {"B_IDLE", "B_DELIVER"} /\ cdc_req' = None /\ wack' = 0
    BY <1>6, BackendMoves DEF Deliver
  <2>2. cdc_req = None /\ wanted = 0 /\ phase = "idle"
    BY <1>6
  <2>3. wanted' = 0 /\ cdc_done' = 0 /\ phase' = phase
    BY <2>2, SourceMoves
  <2> QED
    BY <2>1, <2>2, <2>3
<1> QED
  BY <1>2, <1>3, <1>4, <1>5, <1>6, BackendMoves

\* A read is taken only when no write is on its way.
LEMMA ReadAlone ==
    ASSUME IInv, TakeRead
    PROVE  wreq = 0 /\ flight = None /\ sm = "FILL1" /\ bstate = "B_IDLE"
BY DEF IInv, TakeRead, cdc_ready, InFlight, Crossing, CrossingPhases, Places

LEMMA ReadsAlone ==
    ASSUME IInv, BackendEdge, bstate' \in {"B_READ", "B_DELIVER"}
    PROVE  wreq = 0 /\ flight = None /\ ~accepts
<1>1. cdc_done \in Bit /\ bstate \in {"B_IDLE", "B_WRITE", "B_READ", "B_DELIVER"}
  BY DEF IInv, Types, TypeOK, BackendTypes, PortTypes
<1>2. TakeRead \/ bstate \in {"B_READ", "B_DELIVER"}
  BY <1>1, BackendMoves DEF IInv, TakeWrite, Bit
<1>3. CASE TakeRead
  BY <1>3, ReadAlone DEF accepts
<1>4. CASE bstate \in {"B_READ", "B_DELIVER"}
  BY <1>4 DEF IInv, Crossing, OneAtATime, Bursts, accepts
<1> QED
  BY <1>2, <1>3, <1>4

LEMMA CrossingKept ==
    ASSUME IInv, [Next]_vars
    PROVE  Crossing'
<1> USE DEF Crossing
<1>0. Crossing /\ InFlight /\ Swept
  BY DEF IInv
<1>1. CASE Edge
  <2>1. BackendEdge /\ SourceEdge /\ EveryClock(wack) /\ DataEdge
    BY <1>1 DEF Edge
  <2>2. CrossingPhases'
    BY <2>1, PhasesAtEdge
  <2>3. wack' = 1 => write_ena' = 0
    <3>1. wack' = 1 => wreq = 1
      BY <2>1, BackendMoves DEF TakeWrite, TakeRead, IInv
    <3> QED
      BY <2>1, <3>1 DEF EveryClock
  <2>4. write_ena' = 1 /\ sm' = "IDLE" => wreq' = 0
    BY <1>1, <2>1, Accepting DEF EveryClock
  <2>5. bstate' \in {"B_READ", "B_DELIVER"} => wreq' = 0 /\ flight' = None
    BY <2>1, ReadsAlone DEF EveryClock, DataEdge
  <2> QED
    BY <2>2, <2>3, <2>4, <2>5 DEF OneAtATime
<1>2. CASE Sweep
  BY <1>0, <1>2, SweepLeaves DEF CrossingPhases, OneAtATime
<1>3. CASE IslandAccept
  BY <1>0, <1>3, IslandMoves, IslandLeaves DEF CrossingPhases, OneAtATime, data
<1>4. CASE IslandAnswer
  <2>1. CrossingPhases'
    BY <1>0, <1>4, IslandMoves, IslandLeaves DEF CrossingPhases
  <2>2. bstate \in {"B_READ", "B_DELIVER"} => flight' = None
    BY <1>0, <1>4 DEF OneAtATime, IslandAnswer
  <2> QED
    BY <1>0, <1>4, <2>1, <2>2, IslandLeaves DEF OneAtATime
<1>5. CASE CpuReset
  <2>1. BackendEdge /\ SourceEdge /\ wreq' = 0 /\ write_ena' = 0
    BY <1>5 DEF CpuReset, CacheReset
  <2>2. bstate' \in {"B_READ", "B_DELIVER"} => flight' = None
    BY <1>5, <2>1, ReadsAlone DEF CpuReset, Recover
  <2> QED
    BY <2>1, <2>2, PhasesAtEdge DEF OneAtATime
<1>6. CASE FullReset
  <2>1. /\ bstate' = "B_IDLE" /\ cdc_req' = None /\ cdc_done' = 0 /\ wack' = 0
        /\ wreq' = 0 /\ write_ena' = 0
    BY <1>6 DEF FullReset, CacheReset
  <2>2. wanted' = 0 /\ phase' # "answered"
    BY <1>0, <1>6 DEF FullReset, CrossingPhases, IInv, Types, BackendTypes, PortTypes, Bit
  <2> QED
    BY <2>1, <2>2 DEF CrossingPhases, OneAtATime
<1>7. CASE UNCHANGED vars
  BY <1>0, <1>7, Untouched DEF CrossingPhases, OneAtATime
<1> QED
  BY <1>1, <1>2, <1>3, <1>4, <1>5, <1>6, <1>7 DEF Next

-----------------------------------------------------------------------------
(* The burst.                                                              *)

\* Nothing is asked of the backend outside CPU_SM_FILL1.
LEMMA NoNewRead ==
    ASSUME IInv, BackendEdge, sm # "FILL1", bstate \in {"B_IDLE", "B_WRITE"}
    PROVE  bstate' \in {"B_IDLE", "B_WRITE"} /\ read_ack' = 0
<1>1. ~TakeRead
  BY DEF TakeRead, IInv, Places
<1>2. cdc_done \in Bit
  BY DEF IInv, Types, BackendTypes, PortTypes
<1> QED
  BY <1>1, <1>2, BackendMoves DEF IInv, TakeWrite, Bit

\* The beat of the next edge.
LEMMA NextBeat ==
    ASSUME IInv, BackendEdge, bstate = "B_DELIVER"
    PROVE  /\ read_ack' = 1 /\ burst_cnt' = (burst_cnt + 1) % 8 /\ burst_first' = burst_first
           /\ bstate' = (IF burst_cnt = 7 THEN "B_IDLE" ELSE "B_DELIVER")
           /\ Beat' = burst_cnt /\ burst_cnt \in Words
           /\ sm \in {"FILL1", "FILL2"} => dat' = <<lb.adr, (burst_first + Beat') % 8>>
<1>1. Deliver /\ read_ack' = 1 /\ burst_cnt \in Words /\ burst_first \in Words
  BY BackendMoves DEF IInv, Types, TypeOK
<1>2. /\ burst_cnt' = (burst_cnt + 1) % 8 /\ burst_first' = burst_first
      /\ bstate' = (IF burst_cnt = 7 THEN "B_IDLE" ELSE "B_DELIVER")
  BY <1>1 DEF Deliver
<1>3. Beat' = burst_cnt
  BY <1>1, <1>2 DEF Beat, Words
<1>4. ASSUME sm \in {"FILL1", "FILL2"}
      PROVE  dat' = <<lb.adr, (burst_first + Beat') % 8>>
  <2>1. cdc_rdata.line = lb.adr /\ cdc_rdata.cur = Words
    BY <1>4 DEF IInv, Answered, HasAnswer
  <2>2. deliver_idx = (burst_first + Beat') % 8 /\ deliver_idx \in Words
    BY <1>1, <1>3, BeatRound DEF deliver_idx
  <2> QED
    BY <1>1, <2>1, <2>2 DEF Deliver
<1> QED
  BY <1>1, <1>2, <1>3, <1>4

LEMMA BurstsAtEdge ==
    ASSUME IInv, Edge
    PROVE  Bursts'
<1> USE DEF IInv
<1>1. /\ MasterEdge /\ CpuMachine(read_ack, dat) /\ EveryClock(wack) /\ BackendEdge
  BY DEF Edge
<1>2. /\ sm \in {"INIT", "IDLE", "WRITE", "WRITE2", "WB", "READ", "WAIT", "FILL1", "FILL2"}
      /\ master \in {"free", "armed", "req", "gap"} /\ acc \in Accesses
      /\ bstate \in {"B_IDLE", "B_WRITE", "B_READ", "B_DELIVER"}
      /\ burst_cnt \in Words /\ burst_first \in Words /\ fillp \in Words /\ blk \in Words
      /\ cack \in Bit /\ fill_first \in Bit /\ read_ack \in Bit /\ cdc_done \in Bit /\ cack' \in Bit
      /\ acc.two \in Bit
  BY EdgeTypes, AccessShape DEF Types, TypeOK, CpuTypes, BackendTypes, PortTypes, blk
<1>3. CASE sm \notin {"FILL1", "FILL2"}
  <2>1. sm' # "INIT" => bstate' \in {"B_IDLE", "B_WRITE"} /\ read_ack' = 0
    <3>1. ASSUME sm' # "INIT"
          PROVE  bstate \in {"B_IDLE", "B_WRITE"}
      <4>1. CASE sm = "INIT"
        BY <1>1, <3>1, <4>1, CpuGoes DEF Swept
      <4>2. CASE sm # "INIT"
        BY <1>3, <4>2 DEF Bursts
      <4> QED
        BY <4>1, <4>2
    <3> QED
      BY <1>1, <1>3, <3>1, NoNewRead
  <2>2. sm' # "FILL2" /\ (sm' = "FILL1" => sm = "READ")
    BY <1>1, <1>2, <1>3, CpuGoes
  <2>3. sm' = "FILL1" => ptr' = blk'
    <3>1. ASSUME sm = "READ", sm' = "FILL1"
          PROVE  ReadMiss(read_ack)
      BY <1>1, <3>1, CpuTurns DEF ReadHit
    <3>2. sm' = "FILL1" => acc' = acc
      BY <2>2, <1>1, <1>2, MasterMoves DEF Places, ReadPlace
    <3> QED
      BY <2>2, <3>1, <3>2 DEF ReadMiss, blk
  <2> QED
    BY <2>1, <2>2, <2>3 DEF Bursts
<1>4. CASE sm = "FILL1"
  <2>1. master = "req" /\ acc.we = 0 /\ cack = 0 /\ adr_r = Here /\ ptr = blk /\ lb.adr = acc.line
    BY <1>4 DEF Places, Bursts, BufferContents
  <2>2. acc' = acc /\ blk' = blk /\ master' = "req"
    BY <1>1, <1>2, <1>4, <2>1, MasterMoves DEF ack, valid, u_req, blk
  <2>3. CASE read_ack = 0
    <3>1. sm' = "FILL1" /\ Fill1Wait(read_ack)
      BY <1>1, <1>4, <2>3, CpuGoes, CpuTurns DEF Fill1Take
    <3>2. ptr' = blk' /\ lb'.adr = lb.adr
      BY <2>1, <2>2, <3>1 DEF Fill1Wait, Kept, Types, CpuTypes
    <3>3. CASE bstate = "B_DELIVER"
      BY <1>1, <1>4, <2>1, <2>2, <2>3, <3>1, <3>2, <3>3, NextBeat DEF Bursts
    <3>4. CASE bstate = "B_IDLE"
      BY <1>1, <2>1, <2>2, <3>1, <3>2, <3>4, BackendMoves DEF Bursts, TakeWrite, TakeRead, Here, blk
    <3>5. CASE bstate \in {"B_WRITE", "B_READ"}
      BY <1>1, <1>2, <1>4, <2>2, <3>1, <3>2, <3>5, BackendMoves DEF Bursts, Bit
    <3> QED
      BY <1>2, <3>3, <3>4, <3>5
  <2>4. CASE read_ack = 1
    <3>1. sm' = "FILL2" /\ Fill1Take(read_ack, dat)
      BY <1>1, <1>4, <2>4, CpuGoes, CpuTurns DEF Fill1Wait
    <3>2. bstate = "B_DELIVER" /\ burst_cnt = 1 /\ burst_first = blk /\ wreq = 0
      BY <1>2, <1>4, <2>4 DEF Bursts, Crossing, OneAtATime
    <3>3. fillp' = blk /\ fill_first' = 1 /\ lb'.adr = acc.line
      BY <2>1, <3>1 DEF Fill1Take
    <3>4. cack' = 1 - acc.two
      BY <1>1, <1>2, <1>4, <2>1, <2>4, CpuAcknowledges DEF Acks, u_req, Bit
    <3>5. /\ read_ack' = 1 /\ burst_cnt' = 2 /\ burst_first' = blk /\ bstate' = "B_DELIVER"
          /\ Beat' = 1 /\ dat' = <<lb.adr, (burst_first + Beat') % 8>>
      BY <1>1, <1>4, <3>2, NextBeat
    <3>6. wreq' = 0
      BY <1>1, <1>4, <3>2 DEF EveryClock, accepts
    <3>7. fillp' = (burst_first' + Beat' + 7) % 8
      BY <1>2, <3>3, <3>5 DEF Words
    <3> QED
      BY <2>1, <2>2, <3>1, <3>2, <3>3, <3>4, <3>5, <3>6, <3>7 DEF Bursts
  <2> QED
    BY <1>2, <2>3, <2>4 DEF Bit
<1>5. CASE sm = "FILL2"
  <2>1. wreq = 0 /\ wreq' = 0 /\ ~accepts
    BY <1>1, <1>5 DEF Bursts, EveryClock, accepts
  <2>2. lb'.adr = lb.adr /\ (sm' = "IDLE" => read_ack = 0)
    BY <1>1, <1>5, CpuTurns DEF Fill2Take, Fill2End, Kept, Types, CpuTypes
  <2>3. sm' \in {"FILL2", "IDLE"}
    BY <1>1, <1>5, CpuGoes
  <2>4. cack = 1 /\ master = "req" => master' = "gap"
    BY <1>1, <1>2, MasterMoves DEF ack, u_req
  <2>5. cack' = 1 => \/ cack = 1 /\ master = "req" /\ Beat \in {1, 2}
                     \/ read_ack = 1 /\ fill_first = 1 /\ Beat = 1
    BY <1>1, <1>2, <1>5, CpuAcknowledges DEF Acks, u_req, Bursts
  <2>6. CASE bstate = "B_DELIVER"
    <3>1. read_ack = 1 /\ burst_cnt \in 2 .. 7 /\ sm' = "FILL2" /\ Fill2Take(read_ack, dat)
      BY <1>1, <1>5, <2>6, CpuGoes, CpuTurns DEF Bursts, Fill2End
    <3>2. /\ read_ack' = 1 /\ burst_cnt' = (burst_cnt + 1) % 8 /\ burst_first' = burst_first
          /\ bstate' = (IF burst_cnt = 7 THEN "B_IDLE" ELSE "B_DELIVER")
          /\ Beat' = burst_cnt /\ dat' = <<lb.adr, (burst_first + Beat') % 8>>
      BY <1>1, <1>5, <2>6, NextBeat
    <3>3. Beat = burst_cnt - 1 /\ fillp = (burst_first + Beat + 7) % 8
      BY <1>2, <1>5, <3>1 DEF Beat, Bursts
    <3>4. fillp' = (burst_first' + Beat' + 7) % 8 /\ fill_first' = 0
      <4>1. fillp' = (fillp + 1) % 8 /\ fill_first' = 0
        BY <3>1 DEF Fill2Take
      <4> QED
        BY <1>2, <3>1, <3>2, <3>3, <4>1 DEF Words
    <3>5. burst_cnt' \in 3 .. 7 \/ (bstate' = "B_IDLE" /\ burst_cnt' = 0)
      BY <3>1, <3>2
    <3>6. Beat' # 1
      BY <3>1, <3>2
    <3>7. cack' = 1 => Beat' \in {1, 2, 3} /\ (master' = "req" => Beat' # 3)
      BY <2>4, <2>5, <3>1, <3>2, <3>3
    <3> QED
      BY <2>1, <2>2, <3>1, <3>2, <3>4, <3>5, <3>6, <3>7 DEF Bursts
  <2>7. CASE bstate = "B_IDLE"
    <3>1. burst_cnt = 0 /\ Beat = 7
      BY <1>5, <2>7 DEF Bursts, Beat
    <3>2. bstate' = "B_IDLE" /\ burst_cnt' = 0 /\ read_ack' = 0
      <4>1. ~TakeWrite /\ ~TakeRead
        BY <1>5, <2>1 DEF TakeWrite, TakeRead, Places
      <4> QED
        BY <1>1, <2>7, <3>1, <4>1, BackendMoves
    <3>3. Beat' = 7 /\ cack' # 1
      BY <2>5, <3>1, <3>2 DEF Beat
    <3>4. fill_first = 0
      BY <1>2, <1>5, <3>1 DEF Bursts, Bit
    <3>5. fill_first' = 0
      BY <1>1, <1>5, <3>4, CpuTurns DEF Fill2Take, Fill2End
    <3> QED
      BY <2>1, <2>3, <3>2, <3>3, <3>5 DEF Bursts
  <2> QED
    BY <1>5, <2>6, <2>7 DEF Bursts
<1> QED
  BY <1>3, <1>4, <1>5

LEMMA BurstsKept ==
    ASSUME IInv, [Next]_vars
    PROVE  Bursts'
<1>0. Bursts /\ Swept
  BY DEF IInv
<1>1. CASE Edge
  BY <1>1, BurstsAtEdge
<1>2. CASE Sweep \/ IslandAccept \/ IslandAnswer
  BY <1>0, <1>2, SweepLeaves, IslandLeaves DEF Bursts, Beat, blk
<1>3. CASE CpuReset \/ FullReset
  BY <1>3 DEF CpuReset, FullReset, CacheReset, Bursts
<1>4. CASE UNCHANGED vars
  BY <1>0, <1>4, Untouched DEF Bursts, Beat, blk
<1> QED
  BY <1>1, <1>2, <1>3, <1>4 DEF Next

-----------------------------------------------------------------------------
(* The write on its way.                                                   *)

\* the edge at which the posted write leaves the cache
Leaves == bstate = "B_IDLE" /\ bstate' = "B_WRITE"

LEMMA Leaving ==
    ASSUME IInv, BackendEdge
    PROVE  /\ Leaves <=> TakeWrite
           /\ TakeWrite => /\ wreq = 1 /\ wbuf \in [line : Lines, words : SUBSET Words] /\ ~accepts
                           /\ phase = "idle" /\ cdc_req = None /\ cdc_done = 0 /\ wanted = 0
                           /\ wack = 0 /\ wack' = 1 /\ flight = None
<1>1. Leaves <=> TakeWrite
  BY BackendMoves DEF Leaves, TakeWrite, TakeRead, IInv
<1>2. ASSUME TakeWrite
      PROVE  /\ wreq = 1 /\ wbuf \in [line : Lines, words : SUBSET Words] /\ ~accepts
             /\ phase = "idle" /\ cdc_req = None /\ cdc_done = 0 /\ wanted = 0
             /\ wack = 0 /\ wack' = 1 /\ flight = None
  <2>1. wreq = 1 /\ bstate = "B_IDLE" /\ phase = "idle" /\ wack' = 1
    BY <1>2 DEF TakeWrite, cdc_ready
  <2>2. wbuf \in [line : Lines, words : SUBSET Words]
    BY <2>1 DEF IInv, Types, CpuTypes
  <2>3. cdc_req = None /\ cdc_done = 0 /\ wanted = 0 /\ wack = 0
    BY <2>1 DEF IInv, Types, BackendTypes, PortTypes, Crossing, CrossingPhases, Bit
  <2>4. ~accepts
    BY <2>1 DEF accepts, IInv, Crossing, OneAtATime
  <2> QED
    BY <2>1, <2>2, <2>3, <2>4 DEF IInv, InFlight
<1> QED
  BY <1>1, <1>2

\* The write on its way is the request that is.
LEMMA FlightFollows ==
    ASSUME IInv, BackendEdge, SourceEdge,
           TakeWrite => flight' # None /\ flight'.line = wbuf.line,
           ~TakeWrite /\ flight = None => flight' = None,
           ~TakeWrite /\ flight # None => flight' # None /\ flight'.line = flight.line
    PROVE  InFlight'
<1> USE DEF IInv
<1>1. /\ CrossingPhases /\ InFlight /\ cdc_done' \in Bit /\ cdc_done \in Bit
      /\ phase \in {"idle", "asked", "accepted", "answered", "lost"}
      /\ bstate \in {"B_IDLE", "B_WRITE", "B_READ", "B_DELIVER"}
  BY SourceMoves DEF Crossing, Types, TypeOK, BackendTypes, PortTypes
<1>2. CASE TakeWrite
  <2>1. cdc_req' # None /\ cdc_req'.rd = 0 /\ cdc_req'.line = wbuf.line
    BY <1>2, TakesARequest DEF TakeWrite
  <2>2. phase' = "idle"
    BY <1>2, Leaving, SourceMoves DEF Bit
  <2> QED
    BY <1>2, <2>1, <2>2 DEF InFlight
<1>3. CASE TakeRead
  <2>1. cdc_req'.rd = 1
    BY <1>3 DEF TakeRead
  <2>2. phase = "idle" /\ cdc_req = None /\ bstate' = "B_READ"
    BY <1>1, <1>3 DEF TakeRead, cdc_ready, CrossingPhases
  <2>3. phase' = "idle"
    BY <1>1, <2>2, SourceMoves DEF Bit
  <2>4. flight = None /\ ~TakeWrite
    BY <1>3, <2>2, ReadAlone DEF TakeWrite
  <2> QED
    BY <2>1, <2>3, <2>4 DEF InFlight
<1>4. CASE ~TakeWrite /\ ~TakeRead
  <2>1. cdc_req' = None
    BY <1>1, <1>4, BackendMoves DEF Bit, Deliver
  <2>2. CASE cdc_req # None
    BY <1>1, <1>4, <2>1, <2>2, SourceMoves DEF InFlight, CrossingPhases
  <2>3. CASE cdc_req = None /\ cdc_done' = 1
    BY <1>1, <1>4, <2>1, <2>3, SourceMoves DEF InFlight
  <2>4. CASE cdc_req = None /\ cdc_done' = 0
    BY <1>1, <1>4, <2>1, <2>4, SourceMoves DEF InFlight
  <2> QED
    BY <1>1, <2>2, <2>3, <2>4 DEF Bit
<1> QED
  BY <1>2, <1>3, <1>4

\* What becomes of it at an edge, and at a reset.
LEMMA FlightAtEdge ==
    ASSUME IInv, BackendEdge, DataEdge
    PROVE  /\ TakeWrite => flight' = [line |-> wbuf.line, words |-> wbuf.words, cur |-> wbuf.words]
           /\ ~TakeWrite /\ flight = None => flight' = None
           /\ ~TakeWrite /\ flight # None =>
                /\ flight' \in Writes /\ flight'.line = flight.line /\ flight'.words = flight.words
                /\ flight'.cur = (IF flight.line = acc.line THEN flight.cur \ overwritten ELSE flight.cur)
<1>1. flight \in Writes \cup {None}
  BY DEF IInv, Types, BackendTypes, DataTypes
<1>2. TakeWrite => flight' = [line |-> wbuf.line, words |-> wbuf.words, cur |-> wbuf.words]
  BY Leaving DEF DataEdge, Leaves
<1>3. CASE ~TakeWrite
  <2>1. flight' = IF flight # None /\ flight.line = acc.line
                  THEN [flight EXCEPT !.cur = @ \ overwritten] ELSE flight
    BY <1>3, Leaving DEF DataEdge, Leaves
  <2>2. flight \in Writes => /\ [flight EXCEPT !.cur = @ \ overwritten] \in Writes
                             /\ [flight EXCEPT !.cur = @ \ overwritten].line = flight.line
                             /\ [flight EXCEPT !.cur = @ \ overwritten].words = flight.words
                             /\ [flight EXCEPT !.cur = @ \ overwritten].cur = flight.cur \ overwritten
    BY DEF Writes
  <2> QED
    BY <1>1, <1>3, <2>1, <2>2
<1> QED
  BY <1>2, <1>3

LEMMA Recovers ==
    ASSUME NEW w \in Writes \cup {None}, Recover(w)
    PROVE  /\ w = None => flight' = None /\ mem' = [l \in Lines |-> Words]
           /\ w # None => /\ flight' \in Writes /\ flight'.line = w.line
                          /\ flight'.words = w.words /\ flight'.cur = w.words
                          /\ mem' = [l \in Lines |-> IF l = w.line THEN Words \ w.words ELSE Words]
<1>1. w \in Writes => /\ [w EXCEPT !.cur = w.words] \in Writes
                      /\ [w EXCEPT !.cur = w.words].line = w.line
                      /\ [w EXCEPT !.cur = w.words].words = w.words
                      /\ [w EXCEPT !.cur = w.words].cur = w.words
  BY DEF Writes
<1> QED
  BY <1>1 DEF Recover

LEMMA InFlightKept ==
    ASSUME IInv, [Next]_vars
    PROVE  InFlight'
<1>0. /\ InFlight /\ CrossingPhases /\ flight \in Writes \cup {None} /\ wanted \in Bit
      /\ (phase # "idle" => request \in Requests)
      /\ phase \in {"idle", "asked", "accepted", "answered", "lost"}
  BY DEF IInv, Types, BackendTypes, PortTypes, DataTypes, Crossing
<1>1. CASE Edge
  <2>1. BackendEdge /\ SourceEdge /\ DataEdge
    BY <1>1 DEF Edge
  <2>2. TakeWrite => flight' # None /\ flight'.line = wbuf.line
    <3>1. ASSUME TakeWrite
          PROVE  flight' \in Writes
      <4>1. wbuf \in [line : Lines, words : SUBSET Words]
        BY <2>1, <3>1, Leaving
      <4> QED
        BY <2>1, <3>1, <4>1, FlightAtEdge DEF Writes
    <3> QED
      BY <2>1, <3>1, FlightAtEdge, NoneAssumption DEF Writes
  <2>3. ~TakeWrite /\ flight # None => flight' # None /\ flight'.line = flight.line
    BY <2>1, FlightAtEdge, NoneAssumption DEF Writes
  <2> QED
    BY <2>1, <2>2, <2>3, FlightAtEdge, FlightFollows
<1>2. CASE Sweep
  BY <1>0, <1>2, SweepLeaves DEF InFlight
<1>3. CASE IslandAccept
  BY <1>0, <1>3, IslandMoves, IslandLeaves DEF InFlight, data
<1>4. CASE IslandAnswer
  <2>1. phase = "accepted" /\ phase' \notin {"asked", "accepted"} /\ request \in Requests
    BY <1>0, <1>4, IslandMoves
  <2>2. cdc_req' = None
    BY <1>0, <1>4, <2>1, IslandLeaves DEF CrossingPhases
  <2>3. request.rd \in {0, 1} /\ (request.rd = 1 => flight = None)
    BY <1>0, <2>1 DEF Requests, InFlight, CrossingPhases
  <2>4. flight' = None
    BY <1>4, <2>3 DEF IslandAnswer
  <2> QED
    BY <2>1, <2>2, <2>4 DEF InFlight
<1>5. CASE CpuReset
  <2> DEFINE w == IF bstate = "B_IDLE" /\ bstate' = "B_WRITE"
                  THEN [line |-> wbuf.line, words |-> wbuf.words, cur |-> {}]
                  ELSE flight
  <2>1. BackendEdge /\ SourceEdge /\ Recover(w)
    BY <1>5 DEF CpuReset
  <2>2. /\ TakeWrite => w \in Writes /\ w.line = wbuf.line
        /\ ~TakeWrite => w = flight
    BY <2>1, Leaving DEF Leaves, Writes
  <2>3. w \in Writes \cup {None}
    BY <1>0, <2>2
  <2> HIDE DEF w
  <2> QED
    BY <2>1, <2>2, <2>3, Recovers, FlightFollows, NoneAssumption DEF Writes
<1>6. CASE FullReset
  <2> DEFINE w == IF phase = "asked" THEN flight ELSE None
  <2>1. Recover(w) /\ cdc_req' = None /\ w \in Writes \cup {None}
    BY <1>0, <1>6 DEF FullReset
  <2>2. /\ phase' \in {"asked", "accepted"} <=> phase = "asked"
        /\ request' = request
    BY <1>0, <1>6 DEF FullReset
  <2>3. /\ w # None => flight' # None /\ flight'.line = w.line
        /\ w = None => flight' = None
    BY <2>1, Recovers, NoneAssumption DEF Writes
  <2>4. w # None <=> phase = "asked" /\ request.rd = 0
    BY <1>0 DEF InFlight, CrossingPhases
  <2> QED
    BY <1>0, <2>1, <2>2, <2>3, <2>4 DEF InFlight
<1>7. CASE UNCHANGED vars
  BY <1>0, <1>7, Untouched DEF InFlight
<1> QED
  BY <1>1, <1>2, <1>3, <1>4, <1>5, <1>6, <1>7 DEF Next

-----------------------------------------------------------------------------
(* The current words.                                                      *)

LEMMA CurrentAtEdge ==
    ASSUME IInv, Edge
    PROVE  Current' /\ NotYet'
<1>1. BackendEdge /\ SourceEdge /\ DataEdge /\ EveryClock(wack)
  BY DEF Edge
<1>2. /\ Current /\ NotYet /\ wack \in Bit /\ wreq \in Bit /\ wack' \in Bit
      /\ mem \in [Lines -> SUBSET Words] /\ acc.line \in Lines
      /\ flight \in Writes \cup {None}
      /\ (wreq = 1 => wbuf \in [line : Lines, words : SUBSET Words])
  BY AccessShape, EdgeTypes DEF IInv, Types, TypeOK, CpuTypes, BackendTypes, PortTypes, DataTypes
<1>3. \A l \in Lines : mem'[l] = (IF l = acc.line THEN mem[l] \ overwritten ELSE mem[l])
  BY <1>1, <1>2 DEF DataEdge
<1>4. wack = 1 => flight # None
  BY DEF IInv, Crossing, CrossingPhases, InFlight
<1>5. CASE accepts
  <2>1. /\ wreq = 0 /\ wreq' = 1 /\ wbuf' = [line |-> acc.line, words |-> acc.sel]
        /\ ~TakeWrite /\ overwritten = acc.sel /\ wack' = 0
    BY <1>1, <1>2, <1>5, Accepting, Leaving, BackendMoves DEF overwritten, Leaves, IInv
  <2>2. Current'
    <3> SUFFICES ASSUME NEW l \in Lines, NEW w \in Words
                 PROVE  \/ w \in mem'[l]
                        \/ wreq' = 1 /\ wbuf'.line = l /\ w \in wbuf'.words
                        \/ flight' # None /\ flight'.line = l /\ w \in flight'.cur
      BY DEF Current
    <3>1. w \in mem[l] \/ (flight # None /\ flight.line = l /\ w \in flight.cur)
      BY <1>2, <2>1 DEF Current
    <3>2. flight # None => flight' # None
      BY <1>1, <2>1, FlightAtEdge, NoneAssumption DEF Writes
    <3> QED
      BY <1>1, <1>3, <2>1, <3>1, <3>2, FlightAtEdge
  <2>3. NotYet'
    <3>1. flight' # None => /\ flight # None /\ flight'.words = flight.words
                            /\ flight'.line = flight.line /\ flight'.cur \subseteq flight.cur
                            /\ flight.line = acc.line => flight'.cur \cap acc.sel = {}
      BY <1>1, <2>1, FlightAtEdge
    <3>2. \A l \in Lines : mem'[l] \subseteq mem[l]
      BY <1>3
    <3>3. mem'[acc.line] \cap acc.sel = {}
      BY <1>2, <1>3, <2>1
    <3>4. flight # None => flight.line \in Lines
      BY <1>2 DEF Writes
    <3> QED
      BY <1>2, <2>1, <3>1, <3>2, <3>3, <3>4 DEF NotYet
  <2> QED
    BY <2>2, <2>3
<1>6. CASE TakeWrite
  <2>1. /\ wreq = 1 /\ wack = 0 /\ wack' = 1 /\ ~accepts /\ flight = None
        /\ flight' = [line |-> wbuf.line, words |-> wbuf.words, cur |-> wbuf.words]
        /\ wreq' = 1 /\ wbuf' = wbuf
    BY <1>1, <1>6, Leaving, FlightAtEdge DEF EveryClock
  <2>2. \A l \in Lines : mem'[l] = mem[l]
    BY <1>3, <2>1 DEF overwritten
  <2>3. flight' # None
    BY <1>2, <2>1, NoneAssumption
  <2>4. wbuf.line \in Lines
    BY <1>2, <2>1
  <2> QED
    BY <1>2, <2>1, <2>2, <2>3, <2>4 DEF Current, NotYet
<1>7. CASE ~accepts /\ ~TakeWrite
  <2>1. \A l \in Lines : mem'[l] = mem[l]
    BY <1>3, <1>7 DEF overwritten
  <2>2. /\ flight = None => flight' = None
        /\ flight # None => /\ flight' # None /\ flight'.line = flight.line
                            /\ flight'.words = flight.words /\ flight'.cur = flight.cur
    BY <1>1, <1>7, FlightAtEdge, NoneAssumption DEF overwritten, Writes
  <2>3. wack' = 0
    BY <1>1, <1>7, BackendMoves, Leaving DEF Leaves, IInv
  <2>4. CASE wreq = 1 /\ wack = 1
    <3>1. wreq' = 0
      BY <1>1, <2>4 DEF EveryClock
    <3>2. flight # None /\ flight.line = wbuf.line /\ wbuf.words \subseteq flight.cur
          /\ flight.line \in Lines
      BY <1>2, <1>4, <2>4 DEF NotYet, Writes
    <3> QED
      BY <1>2, <2>1, <2>2, <2>3, <3>1, <3>2 DEF Current, NotYet
  <2>5. CASE wreq = 1 /\ wack = 0
    <3>1. wreq' = 1 /\ wbuf' = wbuf
      BY <1>1, <1>7, <2>5 DEF EveryClock
    <3>2. wbuf.line \in Lines /\ (flight # None => flight.line \in Lines)
      BY <1>2, <2>5 DEF Writes
    <3> QED
      BY <1>2, <2>1, <2>2, <2>3, <2>5, <3>1, <3>2 DEF Current, NotYet
  <2>6. CASE wreq = 0
    <3>1. wreq' = 0
      BY <1>1, <1>7, <2>6 DEF EveryClock
    <3>2. flight # None => flight.line \in Lines
      BY <1>2 DEF Writes
    <3> QED
      BY <1>2, <2>1, <2>2, <2>6, <3>1, <3>2 DEF Current, NotYet
  <2> QED
    BY <1>2, <2>4, <2>5, <2>6 DEF Bit
<1> QED
  BY <1>5, <1>6, <1>7

LEMMA CurrentKept ==
    ASSUME IInv, [Next]_vars
    PROVE  Current' /\ NotYet'
<1>0. /\ Current /\ NotYet /\ InFlight /\ CrossingPhases /\ flight \in Writes \cup {None}
      /\ mem \in [Lines -> SUBSET Words] /\ wack \in Bit
      /\ (wreq = 1 => wbuf \in [line : Lines, words : SUBSET Words])
      /\ (phase # "idle" => request \in Requests)
  BY DEF IInv, Types, TypeOK, CpuTypes, BackendTypes, PortTypes, DataTypes, Crossing
<1>1. CASE Edge
  BY <1>1, CurrentAtEdge
<1>2. CASE Sweep
  BY <1>0, <1>2, SweepLeaves DEF Current, NotYet
<1>3. CASE IslandAccept
  BY <1>0, <1>3, IslandMoves, IslandLeaves DEF Current, NotYet, data
<1>4. CASE IslandAnswer
  <2>1. phase = "accepted" /\ wreq' = wreq /\ wbuf' = wbuf /\ wack' = wack
    BY <1>4, IslandMoves, IslandLeaves
  <2>2. request.line \in Lines /\ request.rd \in {0, 1} /\ wack = 0
    BY <1>0, <2>1 DEF Requests, CrossingPhases, Bit
  <2>3. CASE request.rd = 1
    BY <1>0, <1>4, <2>1, <2>3 DEF IslandAnswer, Current, NotYet
  <2>4. CASE request.rd = 0
    <3>1. flight \in Writes /\ flight # None /\ flight.line = request.line
      BY <1>0, <2>1, <2>4 DEF InFlight
    <3>2. /\ flight' = None
          /\ mem' = [mem EXCEPT ![request.line] = (@ \ flight.words) \cup flight.cur]
      BY <1>4, <2>4 DEF IslandAnswer
    <3>3. Current'
      BY <1>0, <2>1, <2>2, <3>1, <3>2 DEF Current, NotYet
    <3>4. wreq = 1 => wbuf.words \cap mem'[wbuf.line] = {}
      BY <1>0, <2>1, <2>2, <3>1, <3>2 DEF NotYet
    <3> QED
      BY <2>1, <2>2, <3>2, <3>3, <3>4 DEF NotYet
  <2> QED
    BY <2>2, <2>3, <2>4
<1>5. CASE CpuReset \/ FullReset
  <2>1. PICK w \in Writes \cup {None} : Recover(w)
    <3>1. CASE CpuReset
      <4>1. BackendEdge
        BY <3>1 DEF CpuReset
      <4>2. TakeWrite => wbuf \in [line : Lines, words : SUBSET Words]
        BY <4>1, Leaving
      <4> QED
        BY <1>0, <3>1, <4>1, <4>2, Leaving DEF CpuReset, Leaves, Writes
    <3>2. CASE FullReset
      BY <1>0, <3>2 DEF FullReset
    <3> QED
      BY <1>5, <3>1, <3>2
  <2>2. wreq' = 0
    BY <1>5 DEF CpuReset, FullReset, CacheReset
  <2>3. CASE w = None
    BY <2>1, <2>2, <2>3, Recovers DEF Current, NotYet
  <2>4. CASE w # None
    <3>1. /\ flight' \in Writes /\ flight'.line = w.line /\ flight'.words = w.words
          /\ flight'.cur = w.words /\ flight' # None /\ w.line \in Lines
          /\ mem' = [l \in Lines |-> IF l = w.line THEN Words \ w.words ELSE Words]
      BY <2>1, <2>4, Recovers, NoneAssumption DEF Writes
    <3> QED
      BY <2>2, <3>1 DEF Current, NotYet
  <2> QED
    BY <2>3, <2>4
<1>6. CASE UNCHANGED vars
  BY <1>0, <1>6, Untouched DEF Current, NotYet
<1> QED
  BY <1>1, <1>2, <1>3, <1>4, <1>5, <1>6 DEF Next

-----------------------------------------------------------------------------
(* The answer to a fill.                                                   *)

\* An answer that is there after an edge was there before it.
LEMMA HadAnswer ==
    ASSUME IInv, BackendEdge, SourceEdge, HasAnswer'
    PROVE  HasAnswer /\ bstate' \in {"B_READ", "B_DELIVER"} /\ cdc_rdata \in Reads
<1> USE DEF IInv
<1>1. /\ CrossingPhases /\ cdc_done \in Bit /\ bstate \in {"B_IDLE", "B_WRITE", "B_READ", "B_DELIVER"}
      /\ phase \in {"idle", "asked", "accepted", "answered", "lost"} /\ cdc_done' \in Bit
  BY SourceMoves DEF Crossing, Types, TypeOK, BackendTypes, PortTypes
<1>2. bstate' \in {"B_READ", "B_DELIVER"}
  BY DEF HasAnswer
<1>3. HasAnswer
  <2>1. CASE TakeRead
    <3>1. phase = "idle" /\ cdc_req = None /\ bstate' = "B_READ"
      BY <1>1, <2>1 DEF TakeRead, cdc_ready, CrossingPhases
    <3>2. phase' = "idle" /\ cdc_done' = 0
      BY <1>1, <3>1, SourceMoves DEF Bit
    <3> QED
      BY <3>1, <3>2 DEF HasAnswer
  <2>2. CASE ~TakeRead
    <3>1. bstate \in {"B_READ", "B_DELIVER"}
      BY <1>1, <1>2, <2>2, BackendMoves DEF TakeWrite, Bit
    <3>2. CASE bstate = "B_READ" /\ cdc_done = 0
      <4>1. bstate' = "B_READ"
        BY <3>2, BackendMoves
      <4>2. phase = "answered"
        BY <1>1, <4>1, SourceMoves DEF HasAnswer, Bit
      <4> QED
        BY <3>2, <4>2 DEF HasAnswer
    <3> QED
      BY <1>1, <3>1, <3>2 DEF HasAnswer, Bit
  <2> QED
    BY <2>1, <2>2
<1> QED
  BY <1>2, <1>3 DEF Answered, Types, BackendTypes, DataTypes

\* A fill keeps its line.
LEMMA FillKeepsLine ==
    ASSUME IInv, Edge, sm' \in {"FILL1", "FILL2"}
    PROVE  \/ sm = "READ" /\ bstate' \in {"B_IDLE", "B_WRITE"}
           \/ sm \in {"FILL1", "FILL2"} /\ lb'.adr = lb.adr
<1> USE DEF IInv
<1>1. CpuMachine(read_ack, dat) /\ BackendEdge
  BY DEF Edge
<1>2. sm \in {"READ", "FILL1", "FILL2"}
  BY <1>1, CpuGoes DEF Types, TypeOK
<1>3. sm = "READ" => bstate' \in {"B_IDLE", "B_WRITE"}
  BY <1>1, NoNewRead DEF Bursts
<1>4. sm = "FILL1" => lb'.adr = lb.adr
  <2>1. Fill1Wait(read_ack) => lb'.adr = lb.adr
    BY DEF Fill1Wait, Kept, Types, CpuTypes
  <2>2. sm = "FILL1" /\ Fill1Take(read_ack, dat) => lb'.adr = lb.adr
    BY DEF Fill1Take, BufferContents
  <2> QED
    BY <1>1, <2>1, <2>2, CpuTurns
<1>5. sm = "FILL2" => lb'.adr = lb.adr
  BY <1>1, CpuTurns DEF Fill2Take, Fill2End, Kept, Types, CpuTypes
<1> QED
  BY <1>2, <1>3, <1>4, <1>5

LEMMA AnsweredAtEdge ==
    ASSUME IInv, Edge
    PROVE  Answered'
<1> USE DEF IInv
<1>1. BackendEdge /\ SourceEdge /\ DataEdge
  BY DEF Edge
<1>2. HasAnswer' => /\ HasAnswer /\ cdc_rdata' \in Reads
                    /\ cdc_rdata'.line = cdc_rdata.line /\ cdc_rdata'.cur = cdc_rdata.cur
  <2> SUFFICES ASSUME HasAnswer'
               PROVE  /\ HasAnswer /\ cdc_rdata' \in Reads
                      /\ cdc_rdata'.line = cdc_rdata.line /\ cdc_rdata'.cur = cdc_rdata.cur
    OBVIOUS
  <2>1. HasAnswer /\ bstate' \in {"B_READ", "B_DELIVER"} /\ cdc_rdata \in Reads
    BY <1>1, HadAnswer
  <2>2. overwritten = {}
    BY <1>1, <2>1, ReadsAlone DEF overwritten
  <2>3. [cdc_rdata EXCEPT !.cur = @ \ overwritten] = cdc_rdata
    BY <2>1, <2>2 DEF Reads
  <2>4. cdc_rdata' = cdc_rdata
    BY <1>1, <2>1, <2>3 DEF DataEdge
  <2> QED
    BY <2>1, <2>4
<1>3. cdc_rdata' \in Reads => cdc_rdata' # None
  BY NoneAssumption DEF Reads
<1>4. ASSUME sm' \in {"FILL1", "FILL2"}
      PROVE  /\ cdc_req' # None /\ bstate' = "B_READ" => cdc_req'.line = lb'.adr
             /\ wanted' = 1 /\ bstate' = "B_READ" => request'.line = lb'.adr
             /\ HasAnswer' => cdc_rdata'.line = lb'.adr /\ cdc_rdata'.cur = Words
  <2>1. CASE sm = "READ" /\ bstate' \in {"B_IDLE", "B_WRITE"}
    BY <2>1 DEF HasAnswer
  <2>2. CASE sm \in {"FILL1", "FILL2"} /\ lb'.adr = lb.adr
    <3>1. HasAnswer' => cdc_rdata'.line = lb'.adr /\ cdc_rdata'.cur = Words
      BY <1>2, <2>2 DEF Answered
    <3>2. cdc_done \in Bit /\ CrossingPhases /\ cdc_done' \in Bit
          /\ bstate \in {"B_IDLE", "B_WRITE", "B_READ", "B_DELIVER"}
      BY <1>1, SourceMoves DEF Types, TypeOK, BackendTypes, PortTypes, Crossing
    <3>3. CASE TakeRead
      <4>1. phase = "idle" /\ cdc_req = None /\ wanted = 0 /\ sm = "FILL1"
        BY <3>2, <3>3, ReadAlone DEF TakeRead, cdc_ready, CrossingPhases, Types, BackendTypes, PortTypes, Bit
      <4>2. wanted' = 0
        BY <1>1, <3>2, <4>1, SourceMoves DEF Bit
      <4>3. cdc_req'.line = lb.adr
        BY <3>3, <4>1 DEF TakeRead, Places, BufferContents, Here
      <4> QED
        BY <2>2, <3>1, <4>2, <4>3
    <3>4. CASE bstate' = "B_READ" /\ ~TakeRead
      <4>1. bstate = "B_READ" /\ cdc_done = 0 /\ cdc_req' = None
        BY <1>1, <3>2, <3>4, BackendMoves DEF TakeWrite, Deliver, Bit
      <4>2. wanted' = 1 => request'.line = lb.adr
        BY <1>1, <2>2, <3>2, <4>1, SourceMoves DEF Answered, Bit
      <4> QED
        BY <2>2, <3>1, <4>1, <4>2
    <3> QED
      BY <3>1, <3>3, <3>4
  <2> QED
    BY <1>4, <2>1, <2>2, FillKeepsLine
<1> QED
  BY <1>2, <1>3, <1>4 DEF Answered

LEMMA AnsweredKept ==
    ASSUME IInv, [Next]_vars
    PROVE  Answered'
<1>0. /\ Answered /\ CrossingPhases /\ OneAtATime /\ Current
      /\ (phase # "idle" => request \in Requests)
  BY DEF IInv, Types, BackendTypes, PortTypes, Crossing
<1>1. CASE Edge
  BY <1>1, AnsweredAtEdge
<1>2. CASE Sweep
  BY <1>0, <1>2, SweepLeaves DEF Answered, HasAnswer
<1>3. CASE IslandAccept
  BY <1>0, <1>3, IslandMoves, IslandLeaves DEF Answered, HasAnswer, data
<1>4. CASE IslandAnswer
  <2>1. phase = "accepted" /\ phase' = (IF wanted = 1 THEN "answered" ELSE "idle")
    BY <1>4, IslandMoves
  <2>2. request \in Requests /\ request.line \in Lines
    BY <1>0, <2>1 DEF Requests
  <2>3. CASE HasAnswer'
    <3>1. bstate = "B_READ" /\ wanted = 1
      BY <1>0, <1>4, <2>1, <2>3, IslandLeaves DEF HasAnswer, CrossingPhases
    <3>2. request.rd = 1 /\ wreq = 0 /\ flight = None
      BY <1>0, <3>1 DEF CrossingPhases, OneAtATime
    <3>3. mem[request.line] = Words
      <4>1. mem[request.line] \subseteq Words
        BY <2>2 DEF IInv, Types, TypeOK
      <4>2. \A w \in Words : w \in mem[request.line]
        BY <1>0, <2>2, <3>2 DEF Current
      <4> QED
        BY <4>1, <4>2
    <3>4. cdc_rdata' = [line |-> request.line, cur |-> mem[request.line]]
      BY <1>4, <3>2 DEF IslandAnswer
    <3>5. cdc_rdata' # None
      BY <2>2, <3>3, <3>4, NoneAssumption
    <3> QED
      BY <1>0, <1>4, <2>3, <3>1, <3>3, <3>4, <3>5, IslandLeaves DEF Answered
  <2>4. CASE ~HasAnswer'
    BY <1>0, <1>4, <2>4, IslandLeaves DEF Answered
  <2> QED
    BY <2>3, <2>4
<1>5. CASE CpuReset
  <2>1. BackendEdge /\ SourceEdge /\ sm' = "INIT"
    BY <1>5 DEF CpuReset, CacheReset
  <2>2. HasAnswer' => cdc_rdata' # None
    <3> SUFFICES ASSUME HasAnswer'
                 PROVE  cdc_rdata' # None
      OBVIOUS
    <3>1. cdc_rdata \in Reads /\ bstate' \in {"B_READ", "B_DELIVER"}
      BY <2>1, HadAnswer
    <3>2. cdc_rdata # None /\ [cdc_rdata EXCEPT !.cur = {}] \in Reads
      BY <3>1, NoneAssumption DEF Reads
    <3>3. cdc_rdata' = [cdc_rdata EXCEPT !.cur = {}]
      BY <1>5, <3>1, <3>2 DEF CpuReset, Recover
    <3> QED
      BY <3>2, <3>3, NoneAssumption DEF Reads
  <2> QED
    BY <2>1, <2>2 DEF Answered
<1>6. CASE FullReset
  BY <1>6 DEF FullReset, CacheReset, Answered, HasAnswer
<1>7. CASE UNCHANGED vars
  BY <1>0, <1>7, Untouched DEF Answered, HasAnswer
<1> QED
  BY <1>1, <1>2, <1>3, <1>4, <1>5, <1>6, <1>7 DEF Next

-----------------------------------------------------------------------------
(* The words that have been copied and filled.                             *)

LEMMA FilledGrows ==
    ASSUME burst_first \in Words
    PROVE  /\ Filled(8) = Words
           /\ \A w \in Words : w \in Filled(1) <=> w = burst_first
           /\ \A n \in Words : \A w \in Words :
                w \in Filled(n + 1) <=> w \in Filled(n) \/ w = (burst_first + n) % 8
<1>1. \A w \in Words : (w + 8 - burst_first) % 8 \in 0 .. 7
  BY DEF Words
<1>2. Filled(8) = Words
  <2>1. \A w \in Words : (w + 8 - burst_first) % 8 < 8
    BY <1>1
  <2> QED
    BY <2>1 DEF Filled
<1>3. ASSUME NEW w \in Words
      PROVE  w \in Filled(1) <=> w = burst_first
  <2>1. (w + 8 - burst_first) % 8 < 1 <=> w = burst_first
    BY DEF Words
  <2> QED
    BY <2>1 DEF Filled
<1>4. ASSUME NEW n \in Words, NEW w \in Words
      PROVE  w \in Filled(n + 1) <=> w \in Filled(n) \/ w = (burst_first + n) % 8
  <2>1. (w + 8 - burst_first) % 8 = n <=> w = (burst_first + n) % 8
    BY BeatRound
  <2>2. n \in 0 .. 7
    BY DEF Words
  <2>3. /\ w \in Filled(n + 1) <=> (w + 8 - burst_first) % 8 < n + 1
        /\ w \in Filled(n) <=> (w + 8 - burst_first) % 8 < n
    BY DEF Filled
  <2> QED
    BY <1>1, <2>1, <2>2, <2>3
<1> QED
  BY <1>2, <1>3, <1>4

\* The beat a fill takes at an edge, and what it completes.
LEMMA FillBeat ==
    ASSUME IInv, BackendEdge, sm \in {"FILL1", "FILL2"}, read_ack = 1
    PROVE  /\ Beat \in Words /\ burst_first' = burst_first
           /\ dat = <<lb.adr, (burst_first + Beat) % 8>>
           /\ sm = "FILL1" => Beat = 0 /\ burst_first = blk /\ ptr = blk
           /\ sm = "FILL2" => (fillp + 1) % 8 = (burst_first + Beat) % 8
           /\ Taken' = Beat + 1
<1>1. /\ bstate \in {"B_IDLE", "B_WRITE", "B_READ", "B_DELIVER"} /\ read_ack' \in Bit
      /\ burst_cnt \in Words /\ burst_first \in Words /\ fillp \in Words /\ blk \in Words
  BY BackendMoves, AccessShape DEF IInv, Types, TypeOK, Bit, blk
<1>2. Beat \in Words /\ dat = <<lb.adr, (burst_first + Beat) % 8>>
  BY <1>1 DEF IInv, Bursts, Beat, Words
<1>3. CASE bstate = "B_DELIVER"
  <2>1. Beat' = burst_cnt /\ read_ack' = 1 /\ burst_first' = burst_first
    BY <1>3, NextBeat
  <2>2. burst_cnt = Beat + 1
    BY <1>1, <1>3 DEF IInv, Bursts, Beat, Words
  <2>3. sm = "FILL1" => Beat = 0 /\ burst_first = blk /\ ptr = blk
    BY <1>2, <1>3, <2>2 DEF IInv, Bursts, Words
  <2>4. sm = "FILL2" => (fillp + 1) % 8 = (burst_first + Beat) % 8
    BY <1>1, <1>2 DEF IInv, Bursts, Words
  <2> QED
    BY <1>2, <2>1, <2>2, <2>3, <2>4 DEF Taken
<1>4. CASE bstate # "B_DELIVER"
  <2>1. sm = "FILL2" /\ bstate = "B_IDLE" /\ burst_cnt = 0
    BY <1>1, <1>4 DEF IInv, Bursts
  <2>2. Beat = 7 /\ (fillp + 1) % 8 = (burst_first + Beat) % 8
    BY <1>1, <1>2, <2>1 DEF IInv, Bursts, Beat, Words
  <2>3. ~TakeRead /\ ~TakeWrite
    BY <2>1 DEF TakeRead, TakeWrite, IInv, Places, Bursts
  <2>4. read_ack' = 0 /\ burst_first' = burst_first
    BY <2>1, <2>3, BackendMoves DEF IInv, BackendEdge, Finish, Deliver, BackendWait
  <2> QED
    BY <1>2, <2>1, <2>2, <2>4 DEF Taken
<1> QED
  BY <1>3, <1>4

\* The entries a hit copies.
LEMMA CopiedGrows ==
    ASSUME blk \in Words, NEW n \in 0 .. 3
    PROVE  /\ Copied(4) = Words
           /\ \A w \in Words : w \in Copied(n + 1) <=>
                w \in Copied(n) \/ ((w \div 2) + 4 - (blk \div 2)) % 4 = n
           /\ blk \in Copied(1)
           /\ blk # 7 => blk + 1 \in Copied(2)
<1>1. \A w \in Words : ((w \div 2) + 4 - (blk \div 2)) % 4 \in 0 .. 3
  BY DEF Words
<1>2. Copied(4) = Words
  <2>1. \A w \in Words : ((w \div 2) + 4 - (blk \div 2)) % 4 < 4
    BY <1>1
  <2> QED
    BY <2>1 DEF Copied
<1>3. ASSUME NEW w \in Words
      PROVE  w \in Copied(n + 1) <=> w \in Copied(n) \/ ((w \div 2) + 4 - (blk \div 2)) % 4 = n
  BY <1>1 DEF Copied
<1>4. blk \in Copied(1)
  <2>1. ((blk \div 2) + 4 - (blk \div 2)) % 4 < 1
    BY DEF Words
  <2> QED
    BY <2>1 DEF Copied
<1>5. blk # 7 => blk + 1 \in Copied(2)
  <2>1. blk # 7 => blk + 1 \in Words /\ (((blk + 1) \div 2) + 4 - (blk \div 2)) % 4 < 2
    BY DEF Words
  <2> QED
    BY <2>1 DEF Copied
<1> QED
  BY <1>2, <1>3, <1>4, <1>5

-----------------------------------------------------------------------------
(* The tags.                                                               *)

\* The way a fill replaces.
LEMMA FillsAWay ==
    ASSUME IInv, Fill1Take(read_ack, dat)
    PROVE  /\ fillway' \in Ways \X Bit
           /\ \A k \in Ways, i \in Bit :
                tags'[k].tag[i] = (IF <<k, i>> = fillway' THEN acc.line ELSE tags[k].tag[i])
           /\ \A k \in Ways, i \in Bit, w \in Words :
                way'[k][i][w] = (IF <<k, i>> = fillway' /\ w = ptr THEN At(ptr, dat) ELSE way[k][i][w])
<1>1. /\ tags \in [Ways -> [tag : [Bit -> Copies], lru : Bit]]
      /\ way \in [Ways -> [Bit -> [Words -> Copies]]] /\ ptr \in Words /\ acc.kind \in Ways
  BY AccessShape DEF IInv, Types, TypeOK, WayTypes
<1>2. PICK i \in Bit :
        /\ tags' = [tags EXCEPT ![acc.kind] = [tag |-> [@.tag EXCEPT ![i] = acc.line], lru |-> i]]
        /\ way' = [way EXCEPT ![acc.kind][i][ptr] = At(ptr, dat)]
        /\ fillway' = <<acc.kind, i>>
  BY DEF Fill1Take, Bit
<1> QED
  BY <1>1, <1>2

\* No edge else changes a tag.
LEMMA TagsStay ==
    ASSUME IInv, Edge, ~Fill1Take(read_ack, dat)
    PROVE  \A k \in Ways, i \in Bit : tags'[k].tag[i] = tags[k].tag[i]
<1>1. CASE ReadHit
  BY <1>1, HitKeepsTags DEF IInv
<1>2. CASE ~ReadHit
  <2>1. tags' = tags
    BY <1>2 DEF Edge, CpuMachine, Init_Wait, Idle, IdleWrite, IdleRead, Write, Write2, WriteBack, Wait,
                AwaitDrop, ReadMiss, Fill1Wait, Fill2Take, Fill2End, ways
  <2> QED
    BY <2>1
<1> QED
  BY <1>1, <1>2

LEMMA NoTwoKept ==
    ASSUME IInv, [Next]_vars
    PROVE  NoTwo'
<1>0. NoTwo
  BY DEF IInv
<1>1. CASE Edge /\ Fill1Take(read_ack, dat)
  <2>1. sm = "FILL1"
    BY <1>1 DEF Fill1Take
  <2>2. \A k \in Ways, i \in Bit : tags[k].tag[i] # acc.line
    BY <2>1, NotHeld DEF IInv, BufferContents
  <2>3. fillway' \in Ways \X Bit
        /\ \A k \in Ways, i \in Bit :
             tags'[k].tag[i] = (IF <<k, i>> = fillway' THEN acc.line ELSE tags[k].tag[i])
    BY <1>1, FillsAWay
  <2> QED
    BY <1>0, <2>2, <2>3 DEF NoTwo
<1>2. CASE Edge /\ ~Fill1Take(read_ack, dat)
  BY <1>0, <1>2, TagsStay DEF NoTwo
<1>3. CASE Sweep
  BY <1>3, SweepLeaves DEF NoTwo, EmptyTags
<1>4. CASE IslandAccept \/ IslandAnswer
  BY <1>0, <1>4, IslandLeaves DEF NoTwo
<1>5. CASE CpuReset \/ FullReset
  BY <1>0, <1>5 DEF NoTwo, CpuReset, FullReset, CacheReset
<1>6. CASE UNCHANGED vars
  BY <1>0, <1>6, Untouched DEF NoTwo
<1> QED
  BY <1>1, <1>2, <1>3, <1>4, <1>5, <1>6 DEF Next

LEMMA WayFilledKept ==
    ASSUME IInv, [Next]_vars
    PROVE  WayFilled'
<1>0. WayFilled /\ Swept /\ BufferContents
  BY DEF IInv
<1>1. CASE Edge
  <2> SUFFICES ASSUME sm' = "FILL2"
               PROVE  tags'[fillway'[1]].tag[fillway'[2]] = lb'.adr
    BY DEF WayFilled
  <2>1. CpuMachine(read_ack, dat) /\ fillway \in Ways \X Bit
    BY <1>1 DEF Edge, IInv, Types, WayTypes
  <2>2. sm \in {"FILL1", "FILL2"} /\ lb'.adr = lb.adr
    BY <1>1, <2>1, FillKeepsLine, CpuGoes DEF IInv
  <2>3. CASE sm = "FILL1"
    <3>1. Fill1Take(read_ack, dat)
      BY <2>1, <2>3, CpuTurns DEF Fill1Wait
    <3>2. fillway' \in Ways \X Bit /\ lb'.adr = acc.line
      BY <3>1, FillsAWay DEF Fill1Take
    <3>3. <<fillway'[1], fillway'[2]>> = fillway' /\ fillway'[1] \in Ways /\ fillway'[2] \in Bit
      BY <3>2
    <3> QED
      BY <3>1, <3>2, <3>3, FillsAWay
  <2>4. CASE sm = "FILL2"
    <3>1. ~Fill1Take(read_ack, dat) /\ fillway' = fillway
      BY <2>1, <2>4, CpuTurns DEF Fill1Take, Fill2Take, Fill2End, ways
    <3>2. fillway[1] \in Ways /\ fillway[2] \in Bit
      BY <2>1
    <3> QED
      BY <1>0, <1>1, <2>2, <2>4, <3>1, <3>2, TagsStay DEF WayFilled
  <2> QED
    BY <2>2, <2>3, <2>4
<1>2. CASE Sweep
  BY <1>0, <1>2, SweepLeaves DEF WayFilled, Swept
<1>3. CASE IslandAccept \/ IslandAnswer
  BY <1>0, <1>3, IslandLeaves DEF WayFilled
<1>4. CASE CpuReset \/ FullReset
  BY <1>4 DEF WayFilled, CpuReset, FullReset, CacheReset
<1>5. CASE UNCHANGED vars
  BY <1>0, <1>5, Untouched DEF WayFilled
<1> QED
  BY <1>1, <1>2, <1>3, <1>4, <1>5 DEF Next

-----------------------------------------------------------------------------
(* The ways.                                                               *)

\* Outside a write and a fill a valid way is the whole of its line.
LEMMA WholeWay ==
    ASSUME IInv, sm \notin {"INIT", "WRITE", "WRITE2", "FILL2"} \/ (sm = "FILL2" /\ read_ack = 0),
           NEW k \in Ways, NEW i \in Bit, NEW w \in Words, tags[k].tag[i] # None
    PROVE  way[k][i][w] = tags[k].tag[i]
<1>1. sm # "INIT" /\ Pending = {}
  BY DEF Pending
<1>2. sm = "FILL2" => w \in Filled(Taken)
  BY FilledGrows DEF Taken, IInv, Types, TypeOK
<1> QED
  BY <1>1, <1>2 DEF IInv, WayContents

\* What an edge of the machine writes into them.
LEMMA WaysStay ==
    ASSUME Edge, ~IdleWrite, ~Write, ~Write2, ~Fill1Take(read_ack, dat), ~Fill2Take(read_ack, dat)
    PROVE  way' = way /\ fillway' = fillway
BY DEF Edge, CpuMachine, Init_Wait, Idle, IdleRead, WriteBack, Wait, AwaitDrop, ReadHit, ReadMiss,
       Fill1Wait, Fill2End, ways

LEMMA WayContentsAtEdge ==
    ASSUME IInv, Edge
    PROVE  WayContents'
<1> SUFFICES ASSUME NEW k \in Ways, NEW i \in Bit, NEW w \in Words,
                    sm' # "INIT", tags'[k].tag[i] # None
             PROVE  \/ way'[k][i][w] = tags'[k].tag[i]
                    \/ tags'[k].tag[i] = acc'.line /\ w \in Pending'
                    \/ sm' = "FILL2" /\ fillway' = <<k, i>> /\ w \notin Filled(Taken)'
  BY DEF WayContents
<1> USE DEF IInv
<1>1. /\ CpuMachine(read_ack, dat) /\ BackendEdge /\ MasterEdge
      /\ tags \in [Ways -> [tag : [Bit -> Copies], lru : Bit]]
      /\ way \in [Ways -> [Bit -> [Words -> Copies]]] /\ fillway \in Ways \X Bit
      /\ acc \in Accesses /\ blk \in Words /\ acc.sel \subseteq {blk, blk + 1}
      /\ sm \in {"INIT", "IDLE", "WRITE", "WRITE2", "WB", "READ", "WAIT", "FILL1", "FILL2"}
  BY AccessShape DEF Edge, Types, TypeOK, WayTypes, blk
<1>2. CASE sm = "INIT"
  <2>1. Init_Wait /\ init_done = 1
    BY <1>1, <1>2, CpuTurns DEF Init_Wait
  <2>2. tags' = EmptyTags
    BY <1>2, <2>1 DEF Init_Wait, ways, Swept
  <2> QED
    BY <2>2 DEF EmptyTags
<1>3. CASE IdleWrite
  <2>1. tags' = tags /\ sm = "IDLE" /\ way[k][i][w] = tags[k].tag[i]
    BY <1>3, WholeWay DEF IdleWrite
  <2>2. way'[k][i][w] = (IF way[k][i][w] = acc.line /\ w \in overwritten THEN None ELSE way[k][i][w])
    BY <1>3 DEF IdleWrite, Outdated
  <2>3. CASE accepts
    <3>1. sm' = "WRITE" /\ acc' = acc /\ overwritten = acc.sel
      BY <2>3, Accepting DEF overwritten
    <3> QED
      BY <2>1, <2>2, <3>1 DEF Pending
  <2>4. CASE ~accepts
    BY <2>1, <2>2, <2>4 DEF overwritten
  <2> QED
    BY <2>3, <2>4
<1>4. CASE Write
  <2> DEFINE whole == blk % 2 = 0 \/ acc.two = 0
             ws == acc.sel \cap (IF whole THEN Words ELSE {blk})
  <2>1. /\ sm = "WRITE" /\ tags' = tags /\ sm' = (IF whole THEN "WB" ELSE "WRITE2")
        /\ way'[k][i][w] = (IF tags[k].tag[i] = acc.line /\ w \in ws THEN acc.line ELSE way[k][i][w])
    BY <1>4, HoldingIs DEF Write, UpdateWays
  <2>2. way[k][i][w] = tags[k].tag[i] \/ (tags[k].tag[i] = acc.line /\ w \in acc.sel)
    BY <2>1 DEF WayContents, Pending
  <2>3. acc' = acc
    BY <1>1, <2>1, MasterMoves DEF Places, Types, TypeOK
  <2>4. CASE whole
    BY <2>1, <2>2, <2>4
  <2>5. CASE ~whole
    BY <1>1, <2>1, <2>2, <2>3, <2>5 DEF Pending, blk
  <2> QED
    BY <2>4, <2>5
<1>5. CASE Write2
  <2>1. /\ sm = "WRITE2" /\ tags' = tags
        /\ way'[k][i][w] = (IF tags[k].tag[i] = acc.line /\ w \in acc.sel \cap {blk + 1} THEN acc.line
                            ELSE way[k][i][w])
    BY <1>5, HoldingIs DEF Write2, UpdateWays
  <2>2. way[k][i][w] = tags[k].tag[i] \/ (tags[k].tag[i] = acc.line /\ w \in acc.sel \cap {blk + 1})
    BY <2>1 DEF WayContents, Pending
  <2> QED
    BY <2>1, <2>2
<1>6. CASE Fill1Take(read_ack, dat)
  <2>1. sm = "FILL1" /\ sm' = "FILL2" /\ read_ack = 1
    BY <1>6 DEF Fill1Take
  <2>2. /\ burst_first' = burst_first /\ burst_first = blk /\ ptr = blk /\ Taken' = 1
        /\ dat = <<lb.adr, ptr>> /\ lb.adr = acc.line
    <3>1. blk = (blk + 0) % 8
      BY <1>1 DEF Words
    <3> QED
      BY <1>1, <2>1, <3>1, FillBeat DEF BufferContents
  <2>3. /\ tags'[k].tag[i] = (IF <<k, i>> = fillway' THEN acc.line ELSE tags[k].tag[i])
        /\ way'[k][i][w] = (IF <<k, i>> = fillway' /\ w = ptr THEN At(ptr, dat) ELSE way[k][i][w])
    BY <1>6, FillsAWay
  <2>4. CASE <<k, i>> = fillway' /\ w = ptr
    <3>1. dat # None
      BY <1>1, <2>2, NoneAssumption, AccessShape
    <3> QED
      BY <2>2, <2>3, <2>4, <3>1 DEF At
  <2>5. CASE <<k, i>> = fillway' /\ w # ptr
    <3>1. Filled(Taken)' = Filled(1)
      BY <2>2 DEF Filled
    <3>2. w \notin Filled(1)
      BY <1>1, <2>2, <2>5, FilledGrows
    <3> QED
      BY <2>1, <2>5, <3>1, <3>2
  <2>6. CASE <<k, i>> # fillway'
    BY <2>1, <2>3, <2>6, WholeWay
  <2> QED
    BY <2>4, <2>5, <2>6
<1>7. CASE Fill2Take(read_ack, dat)
  <2> DEFINE p == (fillp + 1) % 8
  <2>1. sm = "FILL2" /\ sm' = "FILL2" /\ read_ack = 1 /\ tags' = tags /\ fillway' = fillway
    BY <1>7 DEF Fill2Take
  <2>2. /\ burst_first' = burst_first /\ Taken' = Beat + 1 /\ Taken = Beat /\ Beat \in Words
        /\ dat = <<lb.adr, p>> /\ p = (burst_first + Beat) % 8
    BY <1>1, <2>1, FillBeat DEF Taken
  <2>3. p \in Words /\ burst_first \in Words
    BY DEF Words, Types, TypeOK
  <2>4. /\ fillway[1] \in Ways /\ fillway[2] \in Bit /\ fillway = <<fillway[1], fillway[2]>>
        /\ way' = [way EXCEPT ![fillway[1]][fillway[2]][p] = At(p, dat)]
    BY <1>1, <1>7 DEF Fill2Take
  <2>5. way'[k][i][w] = (IF <<k, i>> = fillway /\ w = p THEN At(p, dat) ELSE way[k][i][w])
    BY <1>1, <2>3, <2>4
  <2>6. CASE <<k, i>> = fillway /\ w = p
    <3>1. tags[k].tag[i] = lb.adr
      BY <2>1, <2>4, <2>6 DEF WayFilled
    <3>2. lb.adr \in Lines
      BY <2>1, <3>1 DEF Types, CpuTypes, Copies
    <3>3. dat # None
      BY <2>2, <2>3, <3>2, NoneAssumption
    <3> QED
      BY <2>1, <2>2, <2>5, <2>6, <3>1, <3>3 DEF At
  <2>7. CASE <<k, i>> = fillway /\ w # p
    <3>1. Filled(Taken)' = Filled(Beat + 1)
      BY <2>2 DEF Filled
    <3>2. w \in Filled(Beat + 1) <=> w \in Filled(Beat)
      BY <2>2, <2>3, <2>7, FilledGrows
    <3>3. way[k][i][w] = tags[k].tag[i] \/ w \notin Filled(Beat)
      BY <2>1, <2>2 DEF WayContents, Pending
    <3> QED
      BY <2>1, <2>5, <2>7, <3>1, <3>2, <3>3
  <2>8. CASE <<k, i>> # fillway
    BY <2>1, <2>5, <2>8 DEF WayContents, Pending
  <2> QED
    BY <2>6, <2>7, <2>8
<1>8. CASE /\ sm # "INIT" /\ ~IdleWrite /\ ~Write /\ ~Write2
           /\ ~Fill1Take(read_ack, dat) /\ ~Fill2Take(read_ack, dat)
  <2>1. way' = way /\ tags'[k].tag[i] = tags[k].tag[i]
    BY <1>8, WaysStay, TagsStay
  <2>2. sm \notin {"INIT", "WRITE", "WRITE2", "FILL2"} \/ (sm = "FILL2" /\ read_ack = 0)
    BY <1>1, <1>8, CpuTurns DEF Fill2End
  <2> QED
    BY <2>1, <2>2, WholeWay
<1> QED
  BY <1>2, <1>3, <1>4, <1>5, <1>6, <1>7, <1>8

LEMMA WayContentsKept ==
    ASSUME IInv, [Next]_vars
    PROVE  WayContents'
<1>0. WayContents /\ Swept
  BY DEF IInv
<1>1. CASE Edge
  BY <1>1, WayContentsAtEdge
<1>2. CASE Sweep
  BY <1>0, <1>2, SweepLeaves DEF WayContents, Swept
<1>3. CASE IslandAccept \/ IslandAnswer
  BY <1>0, <1>3, IslandLeaves DEF WayContents, Pending, Filled, Taken, Beat, blk
<1>4. CASE CpuReset \/ FullReset
  BY <1>4 DEF WayContents, CpuReset, FullReset, CacheReset
<1>5. CASE UNCHANGED vars
  BY <1>0, <1>5, Untouched DEF WayContents, Pending, Filled, Taken, Beat, blk
<1> QED
  BY <1>1, <1>2, <1>3, <1>4, <1>5 DEF Next

-----------------------------------------------------------------------------
(* The line buffer.                                                        *)

\* How the machine comes to CPU_SM_IDLE with a request on the port.
LEMMA ComesToIdle ==
    ASSUME IInv, Edge, sm' = "IDLE", master' = "req"
    PROVE  /\ acc' = acc
           /\ \/ Init_Wait /\ init_done = 1
              \/ Idle /\ ~u_req
              \/ IdleWrite /\ ~accepts /\ u_req
              \/ Fill2End(read_ack)
<1> USE DEF IInv
<1>1. /\ CpuMachine(read_ack, dat) /\ MasterEdge /\ acc \in Accesses
      /\ sm \in {"INIT", "IDLE", "WRITE", "WRITE2", "WB", "READ", "WAIT", "FILL1", "FILL2"}
      /\ cnt \in 0 .. 3
  BY DEF Edge, Types, TypeOK
<1>2. acc' = acc /\ (master = "armed" \/ (master = "req" /\ ~ack))
  BY <1>1, MasterMoves DEF Types, TypeOK
<1>3. sm \notin {"WRITE", "WRITE2", "FILL1"}
  BY <1>1, CpuGoes
<1>4. sm \notin {"WB", "WAIT"}
  BY <1>1, <1>2, CpuGoes DEF Places, ack, u_req
<1>5. sm # "READ"
  <2>1. sm = "READ" => ReadHit /\ cnt = 3
    BY <1>1, CpuTurns DEF ReadHit, ReadMiss, Bursts
  <2> QED
    BY <1>2, <2>1 DEF Places, ReadPlace, ack, u_req
<1>6. sm = "INIT" => Init_Wait /\ init_done = 1
  BY <1>1, CpuTurns DEF Init_Wait
<1>7. sm = "FILL2" => Fill2End(read_ack)
  BY <1>1, CpuTurns DEF Fill2Take
<1>8. CASE sm = "IDLE"
  <2>1. Idle => ~u_req
    BY <1>2 DEF Idle, ack, u_req
  <2>2. ~IdleRead
    BY DEF IdleRead
  <2>3. IdleWrite => ~accepts /\ u_req
    BY DEF IdleWrite
  <2> QED
    BY <1>1, <1>2, <1>8, <2>1, <2>2, <2>3, CpuTurns
<1> QED
  BY <1>1, <1>2, <1>3, <1>4, <1>5, <1>6, <1>7, <1>8

LEMMA ValidKept ==
    ASSUME IInv, [Next]_vars
    PROVE  Valid'
<1>0. Valid /\ Swept
  BY DEF IInv
<1>1. CASE Edge
  <2> SUFFICES ASSUME sm' = "IDLE", master' = "req"
               PROVE  /\ match' = 1 => lb'.adr = acc'.line
                      /\ ptr' = blk' \/ tags' = EmptyTags
    BY DEF Valid
  <2>1. /\ acc' = acc /\ blk' = blk
        /\ \/ Init_Wait /\ init_done = 1
           \/ Idle /\ ~u_req
           \/ IdleWrite /\ ~accepts /\ u_req
           \/ Fill2End(read_ack)
    BY <1>1, ComesToIdle DEF blk
  <2>2. match' = 1 => acc.line = lb.adr
    BY <1>1 DEF Edge, EveryClock
  <2>3. Kept.adr = lb.adr
    BY DEF Kept, IInv, Types, CpuTypes
  <2>4. CASE Init_Wait /\ init_done = 1
    <3>1. tags' = EmptyTags /\ lb' = Kept
      BY <1>0, <2>4 DEF Init_Wait, Swept, ways
    <3> QED
      BY <2>1, <2>2, <2>3, <3>1
  <2>5. CASE Idle \/ Fill2End(read_ack)
    <3>1. ptr' = blk /\ lb' = Kept
      BY <2>5 DEF Idle, Fill2End
    <3> QED
      BY <2>1, <2>2, <2>3, <3>1
  <2>6. CASE IdleWrite
    <3>1. ptr' = blk
      BY <2>6 DEF IdleWrite
    <3>2. lb'.adr = Kept.adr
      BY <2>6 DEF IdleWrite, Kept, IInv, Types, CpuTypes
    <3> QED
      BY <2>1, <2>2, <2>3, <3>1, <3>2
  <2> QED
    BY <2>1, <2>4, <2>5, <2>6
<1>2. CASE Sweep
  BY <1>0, <1>2, SweepLeaves DEF Valid, Swept
<1>3. CASE IslandAccept \/ IslandAnswer
  BY <1>0, <1>3, IslandLeaves DEF Valid, blk
<1>4. CASE CpuReset \/ FullReset
  BY <1>4 DEF Valid, CpuReset, FullReset, CacheReset
<1>5. CASE UNCHANGED vars
  BY <1>0, <1>5, Untouched DEF Valid, blk
<1> QED
  BY <1>1, <1>2, <1>3, <1>4, <1>5 DEF Next

\* Outside a fill and a read a clean line buffer is the whole of its line, but
\* for the words of a write that waits.
LEMMA WholeBuffer ==
    ASSUME IInv, lb.dirty = 0, NEW w \in Words,
           sm \in {"IDLE", "WRITE", "WRITE2", "WB", "WAIT"} \/ (sm = "FILL2" /\ read_ack = 0)
    PROVE  lb.word[w] = lb.adr \/ WriteIn(w)
<1>1. sm = "FILL2" => w \in Filled(Taken)
  BY FilledGrows DEF Taken, IInv, Types, TypeOK
<1> QED
  BY <1>1 DEF IInv, BufferContents

\* A copied entry, and the next.
LEMMA HitCopies ==
    ASSUME IInv, ReadHit
    PROVE  /\ lb'.adr = acc.line
           /\ \A w \in Words : w \in Copied(cnt + 1) => lb'.word[w] = acc.line
           /\ ptr' = (2 * (blk \div 2) + 2 * (cnt + 2)) % 8
<1> USE DEF IInv
<1>1. /\ sm = "READ" /\ Holding(acc.line) # {} /\ ptr' = NextEntry(ptr)
      /\ blk \in Words /\ cnt \in 0 .. 3 /\ ptr \in Words /\ acc.line \in Lines
  BY AccessShape DEF ReadHit, ReadCycle, Types, TypeOK, blk
<1>2. ptr = (2 * (blk \div 2) + 2 * (cnt + 1)) % 8
  BY <1>1 DEF BufferContents
<1>3. PICK h \in Ways, j \in Bit :
        /\ <<h, j>> \in Holding(acc.line)
        /\ lb' = [adr |-> acc.line, dirty |-> IF EarlyAck THEN 0 ELSE Kept.dirty,
                  word |-> [w \in Words |-> IF w \in Entry(PrevEntry(ptr)) THEN way[h][j][w]
                                            ELSE lb.word[w]]]
  <2> DEFINE h == IF \E i \in Bit : <<"I", i>> \in Holding(acc.line) THEN "I" ELSE "D"
             j == IF <<h, 0>> \in Holding(acc.line) THEN 0 ELSE 1
  <2>1. /\ h \in Ways /\ j \in Bit
        /\ lb' = [adr |-> acc.line, dirty |-> IF EarlyAck THEN 0 ELSE Kept.dirty,
                  word |-> [w \in Words |-> IF w \in Entry(PrevEntry(ptr)) THEN way[h][j][w]
                                            ELSE lb.word[w]]]
    BY DEF ReadHit, Ways, Bit
  <2>2. PICK k \in Ways, i \in Bit : tags[k].tag[i] = acc.line
    BY <1>1, NotHeld
  <2>3. <<k, i>> \in Holding(acc.line)
    BY <2>2, HoldingIs
  <2>4. \E i2 \in Bit : <<h, i2>> \in Holding(acc.line)
    BY <2>3 DEF Ways
  <2>5. <<h, j>> \in Holding(acc.line)
    BY <2>4 DEF Bit
  <2> QED
    BY <2>1, <2>5
<1>4. \A w \in Words : way[h][j][w] = acc.line
  <2>1. tags[h].tag[j] = acc.line /\ acc.line # None
    BY <1>1, <1>3, HoldingIs, UnitsAssumption
  <2> QED
    BY <1>1, <2>1, WholeWay
<1>5. /\ \A w \in Words : w \in Entry(PrevEntry(ptr)) <=> ((w \div 2) + 4 - (blk \div 2)) % 4 = cnt
      /\ NextEntry(ptr) = (2 * (blk \div 2) + 2 * (cnt + 2)) % 8
  BY <1>1, <1>2, EntryRound, SMTT(30)
<1>6. ASSUME NEW w \in Words, w \in Copied(cnt + 1)
      PROVE  lb'.word[w] = acc.line
  <2>1. w \in Copied(cnt) \/ w \in Entry(PrevEntry(ptr))
    BY <1>1, <1>5, <1>6, CopiedGrows
  <2>2. w \in Copied(cnt) => cnt > 0
    <3>1. ((w \div 2) + 4 - (blk \div 2)) % 4 \in 0 .. 3
      BY <1>1 DEF Words
    <3> QED
      BY <1>1, <3>1 DEF Copied
  <2>3. w \in Copied(cnt) => lb.word[w] = acc.line
    BY <1>1, <2>2 DEF BufferContents
  <2> QED
    BY <1>3, <1>4, <2>1, <2>3
<1> QED
  BY <1>1, <1>3, <1>5, <1>6

LEMMA BufferAtEdge ==
    ASSUME IInv, Edge
    PROVE  BufferContents'
<1> USE DEF IInv
<1>1. /\ CpuMachine(read_ack, dat) /\ BackendEdge /\ MasterEdge /\ EveryClock(wack)
      /\ lb \in [adr : Copies, dirty : Bit, word : [Words -> Copies]]
      /\ acc \in Accesses /\ acc.line \in Lines /\ blk \in Words /\ cnt \in 0 .. 3 /\ ptr \in Words
      /\ sm \in {"INIT", "IDLE", "WRITE", "WRITE2", "WB", "READ", "WAIT", "FILL1", "FILL2"}
  BY AccessShape DEF Edge, Types, TypeOK, CpuTypes, blk
<1>2. Kept.adr = lb.adr /\ Kept.word = lb.word /\ (Kept.dirty = 0 => lb.dirty = 0)
  BY <1>1 DEF Kept
<1>3. /\ master' = "req" => acc' = acc
      /\ master = "req" => acc' = acc
      /\ master = "req" /\ ~ack => master' = "req"
  BY <1>1, MasterMoves DEF Types, TypeOK
<1>4. ASSUME sm' \in {"IDLE", "WRITE", "WRITE2", "WB", "WAIT"}, lb'.dirty = 0, NEW w \in Words
      PROVE  lb'.word[w] = lb'.adr \/ WriteIn(w)'
  <2>1. sm \notin {"INIT", "FILL1"}
    <3>1. sm = "INIT" => lb'.dirty = 1
      BY <1>1, CpuTurns DEF Init_Wait, Kept, Swept
    <3> QED
      BY <1>1, <1>4, <3>1, CpuGoes
  <2>2. CASE Idle \/ Write \/ Write2 \/ WriteBack \/ Wait \/ Fill2End(read_ack)
    <3>1. lb' = Kept
      BY <2>2 DEF Idle, Write, Write2, WriteBack, Wait, AwaitDrop, Fill2End
    <3>2. sm \in {"IDLE", "WRITE", "WRITE2", "WB", "WAIT"} \/ (sm = "FILL2" /\ read_ack = 0)
      BY <2>2 DEF Idle, Write, Write2, WriteBack, Wait, Fill2End
    <3>3. ~WriteIn(w)
      <4>1. Idle => ~(master = "req" /\ acc.we = 1)
        BY DEF Idle, valid, u_req
      <4>2. Idle \/ sm # "IDLE"
        BY <2>2 DEF Write, Write2, WriteBack, Wait, Fill2End
      <4> QED
        BY <4>1, <4>2 DEF WriteIn
    <3> QED
      BY <1>2, <1>4, <3>1, <3>2, <3>3, WholeBuffer
  <2>3. CASE IdleWrite
    <3>1. lb' = [adr |-> lb.adr, dirty |-> IF match = 1 THEN Kept.dirty ELSE 1,
                 word |-> [x \in Words |-> IF x \notin acc.sel THEN lb.word[x]
                                           ELSE IF accepts THEN acc.line ELSE None]]
      BY <1>1, <2>3 DEF IdleWrite, Kept
    <3>2. match = 1 /\ lb.dirty = 0 /\ sm = "IDLE" /\ master = "req" /\ acc.we = 1
      <4>1. lb'.dirty = (IF match = 1 THEN Kept.dirty ELSE 1)
        BY <3>1
      <4>2. sm = "IDLE" /\ master = "req" /\ acc.we = 1
        BY <2>3 DEF IdleWrite, u_req
      <4> QED
        BY <1>2, <1>4, <4>1, <4>2
    <3>3. lb.adr = acc.line /\ cack = 0
      BY <3>2 DEF Valid, Places, Types, CpuTypes, Bit
    <3>4. w \notin acc.sel => lb.word[w] = lb.adr
      BY <3>2, WholeBuffer DEF WriteIn
    <3>5. CASE accepts \/ w \notin acc.sel
      BY <3>1, <3>3, <3>4, <3>5
    <3>6. CASE ~accepts /\ w \in acc.sel
      <4>1. sm' = "IDLE" /\ match' = 1
        BY <1>1, <2>3, <3>2, <3>3, <3>6 DEF IdleWrite, EveryClock
      <4>2. master' = "req" /\ acc' = acc
        BY <1>3, <3>2, <3>3 DEF ack, valid
      <4> QED
        BY <3>2, <3>6, <4>1, <4>2 DEF WriteIn
    <3> QED
      BY <3>5, <3>6
  <2>4. CASE ReadHit
    <3>1. cnt = 3
      BY <1>4, <2>4 DEF ReadHit
    <3>2. lb'.adr = acc.line /\ (w \in Copied(4) => lb'.word[w] = acc.line)
      BY <2>4, <3>1, HitCopies
    <3> QED
      BY <1>1, <3>2, CopiedGrows
  <2>5. ~IdleRead /\ ~ReadMiss(read_ack) /\ ~Fill2Take(read_ack, dat)
    BY <1>4 DEF IdleRead, ReadMiss, Fill2Take, Bursts
  <2> QED
    BY <1>1, <2>1, <2>2, <2>3, <2>4, <2>5, CpuTurns
<1>5. ASSUME sm' = "READ"
      PROVE  /\ cnt' > 0 =>
                  lb'.adr = acc'.line /\ \A w \in Copied(cnt)' : lb'.word[w] = acc'.line
             /\ ptr' = (2 * (blk' \div 2) + 2 * (cnt' + 1)) % 8 \/ Holding(acc.line)' = {}
  <2>1. CASE IdleRead
    <3>1. cnt' = 0 /\ ptr' = NextEntry(ptr) /\ tags' = tags /\ master = "req" /\ sm = "IDLE"
          /\ acc.we = 0
      BY <2>1 DEF IdleRead, ways, u_req
    <3>2. blk' = blk /\ acc' = acc
      BY <1>3, <3>1 DEF blk
    <3>3. CASE ptr = blk
      <4>1. NextEntry(blk) = (2 * (blk \div 2) + 2 * (0 + 1)) % 8
        BY DEF NextEntry
      <4> QED
        BY <3>1, <3>2, <3>3, <4>1
    <3>4. CASE tags = EmptyTags
      <4>1. \A k \in Ways, i \in Bit : tags[k].tag[i] # acc.line
        BY <1>1, <3>4, UnitsAssumption DEF EmptyTags
      <4>2. Holding(acc.line)' = Holding(acc.line)
        BY <3>1, <3>2 DEF Holding
      <4> QED
        BY <3>1, <4>1, <4>2, NotHeld
    <3> QED
      BY <3>1, <3>3, <3>4 DEF Valid
  <2>2. CASE ReadHit
    <3>1. cnt # 3 /\ cnt' = cnt + 1 /\ sm = "READ"
      BY <1>1, <1>5, <2>2 DEF ReadHit, ReadCycle
    <3>2. master = "req"
      BY <3>1 DEF Places, ReadPlace
    <3>3. acc' = acc /\ blk' = blk
      BY <1>3, <3>2 DEF blk
    <3>4. Copied(cnt)' = Copied(cnt + 1)
      BY <3>1, <3>3 DEF Copied
    <3>5. Copied(cnt + 1) \subseteq Words
      BY DEF Copied
    <3> QED
      BY <1>1, <2>2, <3>1, <3>3, <3>4, <3>5, HitCopies
  <2>3. IdleRead \/ ReadHit
    BY <1>1, <1>5, CpuGoes, CpuTurns DEF Idle, IdleWrite, ReadMiss, Bursts, Swept
  <2> QED
    BY <2>1, <2>2, <2>3
<1>6. ASSUME sm' = "FILL1"
      PROVE  lb'.adr = acc'.line /\ Holding(acc.line)' = {}
  <2>1. ReadMiss(read_ack) \/ Fill1Wait(read_ack)
    BY <1>1, <1>6, CpuGoes, CpuTurns DEF ReadHit, Fill1Take
  <2>2. master = "req" /\ Holding(acc.line) = {} /\ lb'.adr = acc.line
    <3>1. CASE ReadMiss(read_ack)
      <4>1. Holding(acc.line) = {} /\ sm = "READ" /\ lb'.adr = acc.line
        BY <1>1, <3>1 DEF ReadMiss, ReadCycle, Kept
      <4> QED
        BY <4>1 DEF Places, ReadPlace
    <3>2. CASE Fill1Wait(read_ack)
      BY <1>2, <3>2 DEF Fill1Wait, Places, BufferContents
    <3> QED
      BY <2>1, <3>1, <3>2
  <2>3. acc' = acc /\ tags' = tags
    BY <1>3, <2>1, <2>2 DEF ReadMiss, Fill1Wait, ways
  <2> QED
    BY <2>2, <2>3 DEF Holding
<1>7. ASSUME sm' = "FILL2", NEW w \in Words, w \in Filled(Taken)'
      PROVE  lb'.word[w] = lb'.adr
  <2>1. CASE Fill1Take(read_ack, dat)
    <3>1. sm = "FILL1" /\ read_ack = 1 /\ lb'.adr = acc.line
          /\ lb'.word = [lb.word EXCEPT ![blk] = At(blk, dat)]
      BY <2>1 DEF Fill1Take
    <3>2. /\ burst_first' = burst_first /\ burst_first = blk /\ Taken' = 1
          /\ dat = <<lb.adr, blk>> /\ lb.adr = acc.line
      <4>1. blk = (blk + 0) % 8
        BY <1>1 DEF Words
      <4> QED
        BY <1>1, <3>1, <4>1, FillBeat DEF BufferContents
    <3>3. w = blk
      <4>1. Filled(Taken)' = Filled(1)
        BY <3>2 DEF Filled
      <4> QED
        BY <1>1, <1>7, <3>2, <4>1, FilledGrows
    <3>4. At(blk, dat) = acc.line
      BY <1>1, <3>2, NoneAssumption DEF At
    <3> QED
      BY <1>1, <3>1, <3>3, <3>4
  <2>2. CASE Fill2Take(read_ack, dat)
    <3> DEFINE p == (fillp + 1) % 8
    <3>1. sm = "FILL2" /\ read_ack = 1 /\ lb'.adr = lb.adr
          /\ lb'.word = [lb.word EXCEPT ![p] = At(p, dat)]
      BY <1>1, <2>2 DEF Fill2Take, Kept
    <3>2. /\ burst_first' = burst_first /\ Taken' = Beat + 1 /\ Taken = Beat /\ Beat \in Words
          /\ dat = <<lb.adr, p>> /\ p = (burst_first + Beat) % 8
      BY <1>1, <3>1, FillBeat DEF Taken
    <3>3. p \in Words /\ burst_first \in Words
      BY DEF Words, Types, TypeOK
    <3>4. w \in Filled(Beat) \/ w = p
      <4>1. Filled(Taken)' = Filled(Beat + 1)
        BY <3>2 DEF Filled
      <4> QED
        BY <1>7, <3>2, <3>3, <4>1, FilledGrows
    <3>5. w \in Filled(Beat) => lb.word[w] = lb.adr
      BY <3>1, <3>2 DEF BufferContents
    <3>6. At(p, dat) = lb.adr
      <4>1. fillway[1] \in Ways /\ fillway[2] \in Bit
        BY DEF Types, WayTypes
      <4>2. lb.adr # None => dat # None
        BY <1>1, <3>2, <3>3, NoneAssumption DEF Copies
      <4> QED
        BY <3>2, <4>2 DEF At
    <3> QED
      BY <1>1, <3>1, <3>3, <3>4, <3>5, <3>6
  <2>3. CASE Fill2End(read_ack)
    <3>1. sm = "FILL2" /\ read_ack = 0 /\ lb' = Kept
      BY <2>3 DEF Fill2End
    <3>2. w \in Filled(Taken)
      BY <3>1, FilledGrows DEF Taken, Types, TypeOK
    <3> QED
      BY <1>2, <3>1, <3>2 DEF BufferContents
  <2> QED
    BY <1>1, <1>7, <2>1, <2>2, <2>3, CpuGoes, CpuTurns DEF Fill1Wait
<1>8. Filled(Taken)' \subseteq Words
  BY DEF Filled
<1> QED
  BY <1>4, <1>5, <1>6, <1>7, <1>8 DEF BufferContents

LEMMA BufferContentsKept ==
    ASSUME IInv, [Next]_vars
    PROVE  BufferContents'
<1>0. BufferContents /\ Swept
  BY DEF IInv
<1>1. CASE Edge
  BY <1>1, BufferAtEdge
<1>2. CASE Sweep
  <2>1. sm = "INIT" /\ sm' = "INIT"
    BY <1>0, <1>2, SweepLeaves DEF Swept
  <2> QED
    BY <2>1 DEF BufferContents
<1>3. CASE IslandAccept \/ IslandAnswer
  BY <1>0, <1>3, IslandLeaves
  DEF BufferContents, Copied, Filled, Taken, Beat, WriteIn, Holding, blk
<1>4. CASE CpuReset \/ FullReset
  BY <1>4 DEF BufferContents, CpuReset, FullReset, CacheReset
<1>5. CASE UNCHANGED vars
  BY <1>0, <1>5, Untouched
  DEF BufferContents, Copied, Filled, Taken, Beat, WriteIn, Holding, blk
<1> QED
  BY <1>1, <1>2, <1>3, <1>4, <1>5 DEF Next

-----------------------------------------------------------------------------
(* What the CPU is answered.                                               *)

\* The data register after an edge, from a line buffer with the words asked for.
LEMMA FromTheBuffer ==
    ASSUME IInv, lb.word[blk] = acc.line
    PROVE  /\ Buffered.a = <<acc.line, blk>>
           /\ acc.two = 1 /\ lb.word[blk + 1] = acc.line => Buffered.b = <<acc.line, blk + 1>>
<1>1. acc.line \in Lines /\ blk \in Words /\ (acc.two = 1 => blk # 7) /\ acc.line # None
  BY AccessShape, UnitsAssumption DEF IInv, Types, TypeOK, blk
<1>2. acc.two = 1 => (blk + 1) % 8 = blk + 1
  BY <1>1 DEF Words
<1> QED
  BY <1>1, <1>2 DEF Buffered, FromBuffer

LEMMA ReadAtEdge ==
    ASSUME IInv, Edge
    PROVE  ReadCurrent'
<1> SUFFICES ASSUME ack', acc'.we = 0
             PROVE  /\ rdat'.a = <<acc'.line, blk'>>
                    /\ acc'.two = 1 => rdat'.b = <<acc'.line, blk' + 1>>
  BY DEF ReadCurrent
<1> USE DEF IInv
<1>1. /\ CpuMachine(read_ack, dat) /\ BackendEdge /\ MasterEdge /\ EveryClock(wack)
      /\ acc \in Accesses /\ acc.line \in Lines /\ blk \in Words /\ cnt \in 0 .. 3
      /\ (acc.two = 1 => blk # 7) /\ acc.two \in Bit /\ cack \in Bit
      /\ lb \in [adr : Copies, dirty : Bit, word : [Words -> Copies]]
  BY AccessShape DEF Edge, Types, TypeOK, CpuTypes, blk
<1>2. master' = "req" /\ (cack' = 1 \/ (match' = 1 /\ sm' = "IDLE"))
  BY DEF ack, valid, u_req
<1>3. acc' = acc /\ blk' = blk /\ (master = "armed" \/ (master = "req" /\ ~ack))
  BY <1>1, <1>2, MasterMoves DEF Types, TypeOK, blk
<1>4. CASE cack' = 1
  <2>1. u_req /\ cack = 0 /\ Acks
    BY <1>1, <1>3, <1>4, CpuAcknowledges DEF ack, u_req, Bit
  <2>2. sm \notin {"WRITE", "WRITE2"}
    BY <1>3 DEF Places
  <2>3. CASE sm = "READ" /\ EarlyAck
    <3>1. cnt > 0 /\ Holding(acc.line) # {}
      BY <1>1, <2>3 DEF EarlyAck, Places, ReadPlace
    <3>2. rdat' = Buffered
      BY <1>1, <2>3, CpuTurns DEF ReadHit, ReadMiss, ReadCycle
    <3>3. \A w \in Copied(cnt) : lb.word[w] = acc.line
      BY <2>3, <3>1 DEF BufferContents
    <3>4. blk \in Copied(cnt) /\ (acc.two = 1 => blk + 1 \in Copied(cnt))
      <4>1. cnt = (IF acc.two = 1 THEN 2 ELSE 1)
        BY <2>3 DEF EarlyAck
      <4>2. blk \in Copied(1) /\ (blk # 7 => blk + 1 \in Copied(2))
        BY <1>1, CopiedGrows
      <4>3. \A w \in Words : w \in Copied(1) => w \in Copied(2)
        BY <1>1 DEF Copied, Words
      <4> QED
        BY <1>1, <4>1, <4>2, <4>3
    <3> QED
      BY <1>3, <3>2, <3>3, <3>4, FromTheBuffer
  <2>4. CASE sm = "FILL1" /\ read_ack = 1 /\ acc.two = 0
    <3>1. rdat' = [Buffered EXCEPT !.a = dat]
      BY <1>1, <2>4, CpuTurns DEF Fill1Wait, Fill1Take
    <3>2. dat = <<lb.adr, blk>> /\ lb.adr = acc.line
      <4>1. blk = (blk + 0) % 8
        BY <1>1 DEF Words
      <4> QED
        BY <1>1, <2>4, <4>1, FillBeat DEF BufferContents
    <3> QED
      BY <1>3, <2>4, <3>1, <3>2 DEF Buffered
  <2>5. CASE sm = "FILL2" /\ read_ack = 1 /\ fill_first = 1 /\ acc.two = 1
    <3>1. rdat' = [Buffered EXCEPT !.b = dat]
      BY <1>1, <2>5, CpuTurns DEF Fill2Take, Fill2End
    <3>2. Beat = 1 /\ blk = burst_first /\ lb.adr = acc.line /\ Taken = 1
      BY <2>5 DEF Bursts, Taken
    <3>3. dat = <<acc.line, blk + 1>>
      <4>1. (blk + 1) % 8 = blk + 1
        BY <1>1, <2>5 DEF Words
      <4> QED
        BY <1>1, <2>5, <3>2, <4>1, FillBeat
    <3>4. lb.word[blk] = acc.line
      <4>1. blk \in Filled(1)
        BY <1>1, <3>2, FilledGrows
      <4> QED
        BY <2>5, <3>2, <4>1 DEF BufferContents
    <3>5. Buffered.a = <<acc.line, blk>>
      BY <3>4, FromTheBuffer
    <3> QED
      BY <1>3, <3>1, <3>3, <3>5 DEF Buffered
  <2> QED
    BY <2>1, <2>2, <2>3, <2>4, <2>5 DEF Acks
<1>5. CASE match' = 1 /\ sm' = "IDLE"
  <2>1. lb.dirty = 0 /\ lb.adr = acc.line
    BY <1>1, <1>5 DEF EveryClock
  <2>2. \/ Init_Wait /\ init_done = 1
        \/ Idle /\ ~u_req
        \/ IdleWrite /\ ~accepts /\ u_req
        \/ Fill2End(read_ack)
    BY <1>2, <1>5, ComesToIdle
  <2>3. ~Init_Wait /\ ~IdleWrite
    <3>1. Init_Wait => sm = "INIT"
      BY DEF Init_Wait
    <3>2. IdleWrite => acc.we = 1
      BY DEF IdleWrite
    <3>3. sm = "INIT" => lb.dirty = 1
      BY DEF Swept
    <3> QED
      BY <1>3, <2>1, <3>1, <3>2, <3>3
  <2>4. rdat' = Buffered
    BY <2>2, <2>3 DEF Idle, Fill2End
  <2>5. \A w \in Words : lb.word[w] = acc.line
    <3> SUFFICES ASSUME NEW w \in Words
                 PROVE  lb.word[w] = acc.line
      OBVIOUS
    <3>1. sm = "IDLE" \/ (sm = "FILL2" /\ read_ack = 0)
      BY <2>2, <2>3 DEF Idle, Fill2End
    <3>2. ~WriteIn(w)
      BY <1>3 DEF WriteIn
    <3> QED
      BY <2>1, <3>1, <3>2, WholeBuffer
  <2>6. acc.two = 1 => blk + 1 \in Words
    BY <1>1 DEF Words
  <2> QED
    BY <1>1, <1>3, <2>4, <2>5, <2>6, FromTheBuffer
<1> QED
  BY <1>2, <1>4, <1>5

LEMMA ReadKept ==
    ASSUME IInv, [Next]_vars
    PROVE  ReadCurrent'
<1>0. ReadCurrent
  BY DEF IInv
<1>1. CASE Edge
  BY <1>1, ReadAtEdge
<1>2. CASE Sweep
  BY <1>0, <1>2, SweepLeaves DEF ReadCurrent, ack, valid, u_req, blk
<1>3. CASE IslandAccept \/ IslandAnswer
  BY <1>0, <1>3, IslandLeaves DEF ReadCurrent, ack, valid, u_req, blk
<1>4. CASE CpuReset \/ FullReset
  BY <1>4 DEF CpuReset, FullReset, MasterReset, ReadCurrent, ack, u_req
<1>5. CASE UNCHANGED vars
  BY <1>0, <1>5, Untouched DEF ReadCurrent, ack, valid, u_req, blk
<1> QED
  BY <1>1, <1>2, <1>3, <1>4, <1>5 DEF Next

-----------------------------------------------------------------------------
(* The theorems.                                                           *)

LEMMA InitIInv == Init => IInv
<1> SUFFICES ASSUME Init
             PROVE  IInv
  OBVIOUS
<1>1. /\ acc \in Accesses /\ acc.line \in Lines /\ acc.blk \in Words
  BY AccessShape DEF Init, CacheInit
<1> USE DEF Init, CacheInit, Chan!Init
<1>2. TypeOK /\ CpuTypes
  BY <1>1 DEF TypeOK, CpuTypes, NoWords, EmptyTags, Words, Bit, Copies, Ways
<1>3. WayTypes /\ BackendTypes
  BY <1>1 DEF WayTypes, BackendTypes, PortTypes, DataTypes, EmptyTags, NoWords, Copies, Ways, Bit, Here, blk
<1>4. Swept /\ Places /\ Bursts /\ Crossing
  BY DEF Swept, Places, Bursts, Crossing, CrossingPhases, OneAtATime, Here, Bit, blk
<1>5. InFlight /\ Current /\ NotYet /\ Answered
  BY DEF InFlight, Current, NotYet, Answered, HasAnswer
<1>6. NoTwo /\ WayContents /\ WayFilled /\ BufferContents /\ Valid /\ ReadCurrent
  BY DEF NoTwo, WayContents, WayFilled, BufferContents, Valid, ReadCurrent, EmptyTags, ack, u_req
<1> QED
  BY <1>2, <1>3, <1>4, <1>5, <1>6 DEF IInv, Types

LEMMA NextIInv ==
    ASSUME Clears = {0}, IInv, [Next]_vars
    PROVE  IInv'
BY TypesKept, SweptKept, PlacesKept, BurstsKept, CrossingKept, InFlightKept, CurrentKept,
   AnsweredKept, NoTwoKept, WayContentsKept, WayFilledKept, BufferContentsKept, ValidKept,
   ReadKept
DEF IInv

\* The inductive invariant of the fast RAM, for a program that does not clear
\* the cache while it runs (the clear beside an access is what ReadCurrent does
\* not survive, see the hazard of the tag sweep).
THEOREM Inductive ==
    ASSUME Clears = {0}
    PROVE  Spec => []IInv
<1>1. IInv /\ [Next]_vars => IInv'
  BY NextIInv
<1> QED
  BY <1>1, InitIInv, PTL DEF Spec

\* Coherence, for any lines, shapes of access, resets and speeds: a read of the
\* fast RAM is answered with the current content of the words it asked for.
THEOREM ReadsAreCurrent ==
    ASSUME Clears = {0}
    PROVE  Spec => []ReadCurrent
<1>1. IInv => ReadCurrent
  BY DEF IInv
<1> QED
  BY <1>1, Inductive, PTL

\* Between the CPU, the cache and the backend every register holds a value of
\* its kind, no beat of a burst is stray, a write is acknowledged once it was
\* accepted and accepted once, and no request meets a busy crossing.
THEOREM HandshakesHold ==
    ASSUME Clears = {0}
    PROVE  Spec => []Handshakes
<1>1. ASSUME IInv
      PROVE  Handshakes
  <2> USE <1>1 DEF IInv
  <2>1. TypeOK /\ NoStrayBeat
    BY DEF Types, BackendTypes, PortTypes, Bursts, NoStrayBeat
  <2>2. ack /\ acc.we = 1 => taken = 1
    <3>1. ASSUME ack, acc.we = 1
          PROVE  taken = 1
      <4>1. master = "req" /\ cack = 1
        BY <3>1 DEF ack, valid, u_req
      <4> QED
        BY <3>1, <4>1 DEF Places, ReadPlace, Types, TypeOK
    <3> QED
      BY <3>1
  <2>3. accepts => taken = 0
    BY DEF accepts, Places, Types, CpuTypes, Bit
  <2>4. AskWhenReady
    BY DEF AskWhenReady, cdc_ready, Crossing, CrossingPhases
  <2> QED
    BY <2>1, <2>2, <2>3, <2>4 DEF Handshakes, WriteTakenOnce
<1> QED
  BY <1>1, Inductive, PTL

\* Between accesses whatever the cache holds as valid is the whole of its line,
\* in one way and no other.
THEOREM CacheIsWhole ==
    ASSUME Clears = {0}
    PROVE  Spec => []CacheWhole
<1>1. ASSUME IInv
      PROVE  CacheWhole
  <2>1. WaysWhole
    <3> SUFFICES ASSUME sm = "IDLE", NEW k \in Ways, NEW i \in Bit, tags[k].tag[i] # None
                 PROVE  /\ \A w \in Words : way[k][i][w] = tags[k].tag[i]
                        /\ Holding(tags[k].tag[i]) = {<<k, i>>}
      BY DEF WaysWhole
    <3>1. \A w \in Words : way[k][i][w] = tags[k].tag[i]
      BY <1>1, WholeWay
    <3>2. <<k, i>> \in Holding(tags[k].tag[i])
      BY HoldingIs
    <3>3. ASSUME NEW p \in Holding(tags[k].tag[i])
          PROVE  p = <<k, i>>
      <4>1. p \in Ways \X Bit /\ tags[p[1]].tag[p[2]] = tags[k].tag[i]
        BY <3>3 DEF Holding
      <4>2. p[1] \in Ways /\ p[2] \in Bit /\ p = <<p[1], p[2]>>
        BY <4>1
      <4> QED
        BY <1>1, <4>1, <4>2 DEF IInv, NoTwo
    <3> QED
      BY <3>1, <3>2, <3>3
  <2>2. LineBufferWhole
    BY <1>1, WholeBuffer DEF LineBufferWhole, WriteIn, u_req
  <2> QED
    BY <2>1, <2>2 DEF CacheWhole
<1> QED
  BY <1>1, Inductive, PTL
=============================================================================
