------------------------------ MODULE FastRam ------------------------------
(***************************************************************************)
(* rtl/ddr3/ddr3_fastram.v: the Zorro III fast RAM.  The cache of CpuCache *)
(* in front of a backend that carries one line read or one posted write at *)
(* a time over the clock crossing, which is used here as RequestChannel    *)
(* promises it (Ddr3Cdc implements that).  An Edge is one rising edge of   *)
(* the memory clock in the master, the cache, the backend and the          *)
(* crossing's source side at once; the island's steps interleave with it.  *)
(***************************************************************************)
EXTENDS CpuCache

CONSTANT Resets  \* the resets that can come: "cpu", "full"

ASSUME ResetsAssumption == Resets \subseteq {"cpu", "full"}

VARIABLES
    \* the backend
    bstate, burst_cnt, burst_first, adr_r, read_ack, dat, wack,
    \* the crossing: the request pulse and payload, the response pulse, the
    \* answer's payload, and the channel itself
    cdc_req, cdc_done, cdc_rdata, phase, request, wanted, delivered,
    \* the memory: of each line, the words that are current; and of the write
    \* on its way there, the line, its words and those still current
    mem, flight

backend == <<bstate, burst_cnt, burst_first, adr_r, read_ack, dat, wack, cdc_req>>
crossing == <<cdc_done, phase, request, wanted, delivered>>
data == <<cdc_rdata, mem, flight>>
cache == <<port, cpu_sm, line_buffer, requests, ways, clearing>>
vars == <<cache, backend, crossing, data>>

Requests ==
    [rd : {1}, line : Lines, words : {{}}] \cup [rd : {0}, line : Lines, words : SUBSET Words]

Chan == INSTANCE RequestChannel WITH Request <- Requests

ASSUME NoneAssumption ==
    /\ None \notin Requests /\ None \notin Lines \X Words
    /\ None \notin [line : Lines, words : SUBSET Words, cur : SUBSET Words]
    /\ None \notin [line : Lines, cur : SUBSET Words]

-----------------------------------------------------------------------------
(* The backend, one action per state and outcome.                          *)

cdc_ready == phase = "idle"

Here == [line |-> acc.line, blk |-> acc.blk]

\* Mutant: the posted write is not acknowledged to the cache.
TakeWrite_NoAck ==
    /\ bstate = "B_IDLE" /\ cdc_ready /\ wreq = 1
    /\ cdc_req' = [rd |-> 0, line |-> wbuf.line, words |-> wbuf.words]
    /\ wack' = 0 /\ bstate' = "B_WRITE"
    /\ read_ack' = 0 /\ dat' = None /\ adr_r' = Here
    /\ UNCHANGED <<burst_cnt, burst_first>>

\* B_IDLE: a posted write first, it is the older access
TakeWrite ==
    /\ bstate = "B_IDLE" /\ cdc_ready /\ wreq = 1
    /\ cdc_req' = [rd |-> 0, line |-> wbuf.line, words |-> wbuf.words]
    /\ wack' = 1 /\ bstate' = "B_WRITE"
    /\ read_ack' = 0 /\ dat' = None /\ adr_r' = Here
    /\ UNCHANGED <<burst_cnt, burst_first>>

\* Mutant: a read overtakes the posted write.
TakeRead_First ==
    /\ bstate = "B_IDLE" /\ cdc_ready /\ rreq = 1
    /\ cdc_req' = [rd |-> 1, line |-> adr_r.line, words |-> {}]
    /\ burst_first' = adr_r.blk /\ burst_cnt' = 0 /\ bstate' = "B_READ"
    /\ wack' = 0 /\ read_ack' = 0 /\ dat' = None /\ adr_r' = Here

TakeRead ==
    /\ bstate = "B_IDLE" /\ cdc_ready /\ wreq = 0 /\ rreq = 1
    /\ cdc_req' = [rd |-> 1, line |-> adr_r.line, words |-> {}]
    /\ burst_first' = adr_r.blk /\ burst_cnt' = 0 /\ bstate' = "B_READ"
    /\ wack' = 0 /\ read_ack' = 0 /\ dat' = None /\ adr_r' = Here

\* B_WRITE and B_READ: until the crossing is done
Finish ==
    /\ bstate \in {"B_WRITE", "B_READ"} /\ cdc_done = 1
    /\ bstate' = (IF bstate = "B_WRITE" THEN "B_IDLE" ELSE "B_DELIVER")
    /\ burst_cnt' = (IF bstate = "B_WRITE" THEN burst_cnt ELSE 0)
    /\ cdc_req' = None /\ wack' = 0 /\ read_ack' = 0 /\ dat' = None /\ adr_r' = Here
    /\ UNCHANGED burst_first

deliver_idx == (burst_first + burst_cnt) % 8

\* B_DELIVER: eight back-to-back words, wrapped, from the one asked for
Deliver ==
    /\ bstate = "B_DELIVER"
    /\ dat' = (IF deliver_idx \in cdc_rdata.cur THEN <<cdc_rdata.line, deliver_idx>> ELSE None)
    /\ read_ack' = 1
    /\ burst_cnt' = (burst_cnt + 1) % 8
    /\ bstate' = (IF burst_cnt = 7 THEN "B_IDLE" ELSE "B_DELIVER")
    /\ cdc_req' = None /\ wack' = 0 /\ adr_r' = Here
    /\ UNCHANGED burst_first

BackendWait ==
    /\ \/ bstate = "B_IDLE" /\ (~cdc_ready \/ (wreq = 0 /\ rreq = 0))
       \/ bstate \in {"B_WRITE", "B_READ"} /\ cdc_done = 0
    /\ cdc_req' = None /\ wack' = 0 /\ read_ack' = 0 /\ dat' = None /\ adr_r' = Here
    /\ UNCHANGED <<bstate, burst_cnt, burst_first>>

BackendEdge == TakeWrite \/ TakeRead \/ Finish \/ Deliver \/ BackendWait

-----------------------------------------------------------------------------
(* The crossing.  Its answer is seen some edges after it was given.        *)

SourceAsk == cdc_req # None /\ Chan!Ask(cdc_req) /\ cdc_done' = 0
SourceDone == cdc_req = None /\ Chan!Deliver /\ cdc_done' = 1
SourceWait ==
    /\ cdc_req = None /\ cdc_done' = 0
    /\ UNCHANGED <<phase, request, wanted, delivered>>

SourceEdge == SourceAsk \/ SourceDone \/ SourceWait

IslandAccept == Chan!Accept /\ UNCHANGED <<cache, backend, cdc_done, data>>

\* the island performs the request
IslandAnswer ==
    /\ Chan!Answer
    /\ LET l == request.line IN
        IF request.rd = 1
        THEN cdc_rdata' = [line |-> l, cur |-> mem[l]] /\ UNCHANGED <<mem, flight>>
        ELSE /\ mem' = [mem EXCEPT ![l] = (@ \ flight.words) \cup flight.cur]
             /\ flight' = None
             /\ UNCHANGED cdc_rdata
    /\ UNCHANGED <<cache, backend, cdc_done>>

-----------------------------------------------------------------------------
(* What becomes out of date at an edge.                                    *)

DataEdge ==
    /\ mem' = [mem EXCEPT ![acc.line] = @ \ overwritten]
    /\ flight' =
         (IF bstate = "B_IDLE" /\ bstate' = "B_WRITE"
          THEN [line |-> wbuf.line, words |-> wbuf.words, cur |-> wbuf.words]
          ELSE IF flight # None /\ flight.line = acc.line
          THEN [flight EXCEPT !.cur = @ \ overwritten]
          ELSE flight)
    /\ cdc_rdata' =
         (IF bstate = "B_DELIVER" /\ bstate' = "B_IDLE" THEN None
          ELSE IF cdc_rdata # None /\ cdc_rdata.line = acc.line
          THEN [cdc_rdata EXCEPT !.cur = @ \ overwritten]
          ELSE cdc_rdata)

Edge ==
    /\ MasterEdge
    /\ CpuMachine(read_ack, dat) /\ EveryClock(wack)
    /\ ClearLogic
    \* clearing 256 rows takes longer than any read in flight
    /\ SdrMachine(bstate \in {"B_IDLE", "B_WRITE"} /\ read_ack = 0)
    /\ BackendEdge /\ SourceEdge /\ DataEdge

Sweep == SweepRow /\ UNCHANGED <<backend, crossing, data>>

(***************************************************************************)
(* Resets.  A posted write that has not left the cache is lost; what the   *)
(* memory then holds, or is about to receive, is the current content.      *)
(***************************************************************************)
Recover(write) ==
    /\ flight' = (IF write = None THEN None ELSE [write EXCEPT !.cur = write.words])
    /\ mem' = [l \in Lines |->
                 IF write # None /\ l = write.line THEN Words \ write.words ELSE Words]
    /\ cdc_rdata' = (IF cdc_rdata # None /\ bstate' \in {"B_READ", "B_DELIVER"}
                     THEN [cdc_rdata EXCEPT !.cur = {}] ELSE None)

\* the CPU's reset (tg68_rst, cache_rst): the backend goes on
CpuReset ==
    /\ "cpu" \in Resets
    /\ MasterReset /\ CacheReset
    /\ BackendEdge /\ SourceEdge
    /\ Recover(IF bstate = "B_IDLE" /\ bstate' = "B_WRITE"
               THEN [line |-> wbuf.line, words |-> wbuf.words, cur |-> {}]
               ELSE flight)

\* The board's reset is the controller's and the island's: the backend forgets,
\* the crossing drops its interest and keeps what it has not handed over, and
\* a request the island had accepted is gone; its answer never comes, and the
\* crossing, which waits for it, is never ready again.
FullReset ==
    /\ "full" \in Resets
    /\ MasterReset /\ CacheReset
    /\ bstate' = "B_IDLE" /\ cdc_req' = None /\ wack' = 0 /\ read_ack' = 0
    /\ dat' = None /\ burst_cnt' = 0 /\ adr_r' = Here /\ UNCHANGED burst_first
    /\ cdc_done' = 0 /\ wanted' = 0
    /\ phase' = (CASE phase = "accepted" -> "lost"
                   [] phase = "answered" -> "idle"
                   [] OTHER -> phase)
    /\ UNCHANGED <<request, delivered>>
    /\ Recover(IF phase = "asked" THEN flight ELSE None)

Init ==
    /\ CacheInit
    /\ bstate = "B_IDLE" /\ burst_cnt = 0 /\ burst_first = 0 /\ adr_r = Here
    /\ read_ack = 0 /\ dat = None /\ wack = 0 /\ cdc_req = None
    /\ cdc_done = 0 /\ cdc_rdata = None /\ Chan!Init
    /\ mem = [l \in Lines |-> Words] /\ flight = None

Next == Edge \/ Sweep \/ IslandAccept \/ IslandAnswer \/ CpuReset \/ FullReset

Spec == Init /\ [][Next]_vars

(***************************************************************************)
(* Fairness: the clock runs, the gate opens again and again, the sweep     *)
(* reaches every row, the island answers and the answer crosses.           *)
(***************************************************************************)
Fairness ==
    /\ WF_vars(Edge)
    /\ WF_vars(Edge /\ master = "armed" /\ master' = "req")
    /\ WF_vars(Sweep) /\ WF_vars(IslandAccept) /\ WF_vars(IslandAnswer)
    /\ WF_vars(Edge /\ cdc_done' = 1)

FairSpec == Spec /\ Fairness

(***************************************************************************)
(* Properties.                                                             *)
(***************************************************************************)

\* Every register holds a value of its kind.
TypeOK ==
    /\ master \in {"free", "armed", "req", "gap"} /\ acc \in Accesses
    /\ sm \in {"INIT", "IDLE", "WRITE", "WRITE2", "WB", "READ", "WAIT", "FILL1", "FILL2"}
    /\ cnt \in 0 .. 3 /\ ptr \in Words /\ fillp \in Words
    /\ lb.word \in [Words -> Lines \cup {None}]
    /\ \A k \in Ways : tags[k].tag \in [Bit -> Lines \cup {None}]
    /\ bstate \in {"B_IDLE", "B_WRITE", "B_READ", "B_DELIVER"}
    /\ burst_cnt \in Words /\ burst_first \in Words
    /\ mem \in [Lines -> SUBSET Words]

\* Coherence: a read is answered with the current content of the words it asked
\* for, wherever they come from: the line buffer, a way, the burst, memory
\* behind a posted write.
ReadCurrent ==
    ack /\ acc.we = 0 =>
        /\ rdat.a = <<acc.line, blk>>
        /\ acc.two = 1 => rdat.b = <<acc.line, blk + 1>>

\* Between accesses a valid line buffer is the whole of its line.
LineBufferWhole ==
    sm = "IDLE" /\ ~u_req /\ lb.dirty = 0 =>
        \A w \in Words : lb.word[w] = lb.adr

\* Between accesses a valid way is the whole of its line, and no line is in
\* two ways.
WaysWhole ==
    sm = "IDLE" =>
        \A k \in Ways, i \in Bit : LET l == tags[k].tag[i] IN
            l # None => /\ \A w \in Words : way[k][i][w] = l
                        /\ Holding(l) = {<<k, i>>}

\* A word of the burst never arrives at a cache that is neither filling nor
\* clearing itself.
NoStrayBeat == read_ack = 1 => sm \in {"FILL1", "FILL2", "INIT"}

\* A write is acknowledged only after it was accepted, and accepted only once.
WriteTakenOnce ==
    /\ ack /\ acc.we = 1 => taken = 1
    /\ accepts => taken = 0

\* The backend does not ask while the crossing is busy, so no request is lost.
AskWhenReady == cdc_req # None => cdc_ready

\* Nothing is lost or doubled between the CPU, the cache and the backend.
Handshakes == TypeOK /\ NoStrayBeat /\ WriteTakenOnce /\ AskWhenReady

\* Between accesses whatever the cache holds as valid is whole.
CacheWhole == WaysWhole /\ LineBufferWhole

\* Each request that is up is acknowledged, unless a reset takes it away, or
\* has emptied the island while it owed an answer.
Completes == u_req ~> (ack \/ ~u_req \/ phase = "lost")

\* A posted write leaves the cache, unless a reset has emptied the island while
\* it owed an answer.
WriteLeaves == wreq = 1 ~> (wreq = 0 \/ phase = "lost")

\* Whatever the CPU asks comes to its end, as long as the island still gives
\* every answer it owes.
AccessesEnd == Completes /\ WriteLeaves
=============================================================================
