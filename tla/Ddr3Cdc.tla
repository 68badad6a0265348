------------------------------ MODULE Ddr3Cdc ------------------------------
(***************************************************************************)
(* rtl/ddr3/ddr3_cdc.v: the toggle handshake that carries one request at   *)
(* a time from the Minimig clock (the "source", clk_sys) to the DDR3       *)
(* island clock (the "destination", clk_mem) and one answer back.          *)
(*                                                                         *)
(* Every step is one rising edge of one of the two clocks, or a change of  *)
(* the board reset.  The clocks are asynchronous, so edges interleave      *)
(* freely.  An edge updates every register of its domain at once from the  *)
(* values before the edge; an edge that samples a bit while the other      *)
(* domain changes it reads the old or the new value, and both orders of    *)
(* the two edges are behaviours of the model.                              *)
(*                                                                         *)
(* The whole payload {rd, be, addr, wdata} is one value of Requests.  The  *)
(* data the island returns is named after the request it answers: rdata_r  *)
(* = r says "the answer to r".                                             *)
(***************************************************************************)
EXTENDS Naturals

CONSTANTS Requests, \* the payloads the source can present
          None      \* no request

ASSUME RequestAssumption == None \notin Requests /\ Requests # {}

VARIABLES
    \* source side (clk_sys)
    req_tgl, busy, payload, ack_sync0, ack_sync1, src_done, src_rdata,
    \* destination side (clk_mem)
    dst_state, req_seen, ack_tgl, rdata_r, req_sync0, req_sync1,
    \* the island behind the port: the request it has accepted and not answered
    owed,
    \* the board reset, which holds the source and the island in reset
    board_reset

src == <<req_tgl, busy, payload, ack_sync0, ack_sync1, src_done, src_rdata>>
dst == <<dst_state, req_seen, ack_tgl, rdata_r, req_sync0, req_sync1, owed>>
CdcVars == <<src, dst, board_reset>>

Toggles == {0, 1}
Flip(b) == 1 - b

CdcInit ==
    /\ req_tgl = 0 /\ busy = 0 /\ payload = None
    /\ ack_sync0 = 0 /\ ack_sync1 = 0
    /\ src_done = 0 /\ src_rdata = None
    /\ dst_state = "D_IDLE" /\ req_seen = 0 /\ ack_tgl = 0 /\ rdata_r = None
    /\ req_sync0 = 0 /\ req_sync1 = 0
    /\ owed = None
    /\ board_reset = 1

(***************************************************************************)
(* The source side.                                                        *)
(***************************************************************************)
SyncAck == ack_sync0' = ack_tgl /\ ack_sync1' = ack_sync0

\* Mutant: a new request is taken while an abandoned one still drains.
src_ready_NoDrain == busy = 0

src_ready == busy = 0 /\ ack_sync1 = req_tgl

\* src_rst high: interest in an outstanding request is dropped, req_tgl stays
SrcReset ==
    /\ SyncAck
    /\ busy' = 0 /\ src_done' = 0
    /\ UNCHANGED <<req_tgl, payload, src_rdata, dst, board_reset>>

\* src_req honoured
SrcRequest(r) ==
    /\ board_reset = 0 /\ src_ready
    /\ SyncAck
    /\ payload' = r /\ req_tgl' = Flip(req_tgl) /\ busy' = 1
    /\ src_done' = 0
    /\ UNCHANGED <<src_rdata, dst, board_reset>>

\* the acknowledge has come back: capture the answer
SrcCapture ==
    /\ board_reset = 0 /\ busy = 1 /\ ack_sync1 = req_tgl
    /\ SyncAck
    /\ src_rdata' = rdata_r /\ src_done' = 1 /\ busy' = 0
    /\ UNCHANGED <<req_tgl, payload, dst, board_reset>>

\* nothing to do: no request presented, or the answer is not here yet
SrcWait ==
    /\ board_reset = 0 /\ (busy = 1 => ack_sync1 # req_tgl)
    /\ SyncAck
    /\ src_done' = 0
    /\ UNCHANGED <<req_tgl, busy, payload, src_rdata, dst, board_reset>>

SrcEdge ==
    SrcReset \/ SrcCapture \/ SrcWait \/ \E r \in Requests : SrcRequest(r)

(***************************************************************************)
(* The destination side, together with the island's end of the port.       *)
(***************************************************************************)
SyncReq == req_sync0' = req_tgl /\ req_sync1' = req_sync0

\* Mutant: req_seen is not updated, so the request is seen again.
DstSee_Forgets ==
    /\ dst_state = "D_IDLE" /\ req_sync1 # req_seen
    /\ SyncReq
    /\ dst_state' = "D_REQ"
    /\ UNCHANGED <<req_seen, ack_tgl, rdata_r, owed, src, board_reset>>

\* D_IDLE: the synchronised toggle moved
DstSee ==
    /\ dst_state = "D_IDLE" /\ req_sync1 # req_seen
    /\ SyncReq
    /\ req_seen' = req_sync1 /\ dst_state' = "D_REQ"
    /\ UNCHANGED <<ack_tgl, rdata_r, owed, src, board_reset>>

\* Mutant: the acknowledge is sent when the island accepts, not when it answers.
DstAccept_AckEarly ==
    /\ dst_state = "D_REQ" /\ board_reset = 0
    /\ SyncReq
    /\ dst_state' = "D_RESP" /\ owed' = payload /\ ack_tgl' = Flip(ack_tgl)
    /\ UNCHANGED <<req_seen, rdata_r, src, board_reset>>

\* D_REQ: the island raises req_accept; it reads the payload on this edge
DstAccept ==
    /\ dst_state = "D_REQ" /\ board_reset = 0
    /\ SyncReq
    /\ dst_state' = "D_RESP" /\ owed' = payload
    /\ UNCHANGED <<req_seen, ack_tgl, rdata_r, src, board_reset>>

\* Mutant: the answer is dropped without an acknowledge when nobody waits.
DstRespond_DropsUnwanted ==
    /\ dst_state = "D_RESP" /\ owed # None /\ board_reset = 0
    /\ SyncReq
    /\ rdata_r' = owed /\ owed' = None
    /\ ack_tgl' = (IF busy = 1 THEN Flip(ack_tgl) ELSE ack_tgl)
    /\ dst_state' = "D_IDLE"
    /\ UNCHANGED <<req_seen, src, board_reset>>

\* D_RESP: the island pulses resp_valid for the request it accepted
DstRespond ==
    /\ dst_state = "D_RESP" /\ owed # None /\ board_reset = 0
    /\ SyncReq
    /\ rdata_r' = owed /\ owed' = None
    /\ ack_tgl' = Flip(ack_tgl) /\ dst_state' = "D_IDLE"
    /\ UNCHANGED <<req_seen, src, board_reset>>

\* no new toggle, or the island has nothing to say on this edge
DstWait ==
    /\ dst_state = "D_IDLE" => req_sync1 = req_seen
    /\ SyncReq
    /\ UNCHANGED <<dst_state, req_seen, ack_tgl, rdata_r, owed, src, board_reset>>

DstEdge == DstSee \/ DstAccept \/ DstRespond \/ DstWait

(***************************************************************************)
(* The board reset.  It resets the source (through sdctl_rst and reset_in) *)
(* and the island (rst100, which empties the core's pipeline); it does not *)
(* reach the destination registers of the crossing, whose dst_rst is tied  *)
(* low.                                                                    *)
(***************************************************************************)
PressReset ==
    /\ board_reset = 0 /\ board_reset' = 1
    /\ owed' = None
    /\ UNCHANGED <<src, dst_state, req_seen, ack_tgl, rdata_r, req_sync0, req_sync1>>

\* the reset lasts thousands of clocks: the source has seen it
ReleaseReset ==
    /\ board_reset = 1 /\ board_reset' = 0
    /\ busy = 0 /\ src_done = 0
    /\ UNCHANGED <<src, dst>>

CdcNext == SrcEdge \/ DstEdge \/ PressReset \/ ReleaseReset

CdcSpec == CdcInit /\ [][CdcNext]_CdcVars

(***************************************************************************)
(* CdcFairness: both clocks run for ever and the reset chain lets go.  The    *)
(* island, out of reset, accepts a request it is offered and answers one   *)
(* it has accepted.                                                        *)
(***************************************************************************)
SrcClock == SrcCapture \/ SrcWait \/ (board_reset = 1 /\ SrcReset)

CdcFairness ==
    /\ WF_CdcVars(SrcClock) /\ WF_CdcVars(DstSee \/ DstWait)
    /\ WF_CdcVars(DstAccept) /\ WF_CdcVars(DstRespond)
    /\ WF_CdcVars(ReleaseReset)

CdcFairSpec == CdcSpec /\ CdcFairness

\* the same, when the board reset never strikes while a response is owed, and
\* leaves the island time to accept a request between one press and the next
IdlePress == owed = None /\ PressReset

DrainSpec == CdcInit /\ [][SrcEdge \/ DstEdge \/ IdlePress \/ ReleaseReset]_CdcVars
             /\ CdcFairness /\ SF_CdcVars(DstAccept)

(***************************************************************************)
(* Properties.                                                             *)
(***************************************************************************)

\* every register holds a value of its kind
CdcTypeOK ==
    /\ req_tgl \in Toggles /\ ack_sync0 \in Toggles /\ ack_sync1 \in Toggles
    /\ ack_tgl \in Toggles /\ req_sync0 \in Toggles /\ req_sync1 \in Toggles
    /\ req_seen \in Toggles
    /\ busy \in Toggles /\ src_done \in Toggles /\ board_reset \in Toggles
    /\ dst_state \in {"D_IDLE", "D_REQ", "D_RESP"}
    /\ payload \in Requests \cup {None} /\ src_rdata \in Requests \cup {None}
    /\ rdata_r \in Requests \cup {None} /\ owed \in Requests \cup {None}

\* At most one change travels the ring req_tgl -> req_sync -> req_seen ->
\* ack_tgl -> ack_sync: once a register on the way round differs from req_tgl, so
\* do all behind it.  Two changes at once would be two requests in flight, or an
\* edge lost in a synchroniser.
Ring ==
    /\ req_sync0 # req_tgl => req_sync1 # req_tgl
    /\ req_sync1 # req_tgl => req_seen # req_tgl
    /\ req_seen  # req_tgl => ack_tgl # req_tgl
    /\ ack_tgl   # req_tgl => ack_sync0 # req_tgl
    /\ ack_sync0 # req_tgl => ack_sync1 # req_tgl

\* The caller is never handed the answer to another request, in particular not
\* the late answer to one that a reset abandoned (src_done with src_rdata).
AnswerMatches == src_done = 1 => src_rdata = payload /\ payload # None

\* Requests are kept apart: one in flight, and each answered with its own.
RequestsApart == CdcTypeOK /\ Ring /\ AnswerMatches

\* The CDC invariant of the payload buses: from the edge that launches a
\* request until the destination has acknowledged it no payload bit changes,
\* so the destination can never sample a bus in motion, even across a reset.
PayloadStable == [][req_tgl # ack_tgl => UNCHANGED payload]_CdcVars

\* The invariant rdata_r really keeps: it is written only while both stages of
\* the source's synchroniser still show the old acknowledge, so at least two
\* whole source periods pass between the write and the capture.
RdataSettled ==
    [][rdata_r' # rdata_r => ack_sync0 # ack_tgl' /\ ack_sync1 # ack_tgl']_CdcVars

\* Neither bus moves while the other side may sample it.
BusesSettled == PayloadStable /\ RdataSettled

\* A reset in the middle of a transaction costs one discarded response and
\* nothing else (ddr3_cdc.v:93-94): once the board reset is over for good, the
\* source can always come to issue requests again.
ResetCostsOneResponse == <>[](board_reset = 0) => []<>src_ready

\* The user of the crossing sees the abstract channel.
Channel == INSTANCE RequestChannel WITH
    Request   <- Requests,
    phase     <- IF dst_state = "D_RESP" THEN "accepted"
                 ELSE IF req_tgl # ack_tgl THEN "asked"
                 ELSE IF busy = 1 THEN "answered" ELSE "idle",
    request   <- payload,
    wanted    <- busy,
    delivered <- src_rdata

ChannelSpec == Channel!Spec
ChannelLive == Channel!LiveSpec
=============================================================================
