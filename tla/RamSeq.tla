------------------------------ MODULE RamSeq ------------------------------
(***************************************************************************)
(* rtl/soc/ap040_ram_seq.vhd: one AP68040 access in, one or two unit-port  *)
(* accesses out.  Every step is one rising edge of the memory clock, at    *)
(* which the sequencer, the unit port behind it and the master in front of *)
(* it all advance; an asynchronous reset is a step of its own.             *)
(*                                                                         *)
(* Bytes are named, not valued: the byte of memory at address a is "a",    *)
(* byte k of the operand is "k".  A read is right when operand byte k is   *)
(* memory byte addr+k, a write when memory byte addr+k is operand byte k.  *)
(***************************************************************************)
EXTENDS Naturals

CONSTANT MemBytes \* the bytes the port addresses: 2^26 in the code

LineBytes == 16

\* the address space is a whole number of lines
ASSUME MemBytesAssumption ==
    MemBytes \in Nat \ {0} /\ MemBytes % LineBytes = 0

Addrs == 0 .. MemBytes - 1
Sizes == {1, 2, 4}
Bit == {0, 1}

VARIABLES
    \* the master's access, held stable while req is high
    req, we, size, addr,
    \* the sequencer
    st, cur, left, pos, rbuf, done_r, armed,
    \* the unit port: the request, its word-aligned address, and what each
    \* enabled slot of the two-word window carries (its domain is u_bs)
    u_req, u_we, u_adr, u_wdat,
    \* the port has the answer (u_ack is this level gated by the request)
    answered,
    \* history: the <<operand byte, memory byte>> pairs this access has
    \* written, and the units it has launched
    written, units

master == <<req, we, size, addr>>
fields == <<u_we, u_adr, u_wdat>>
seq == <<st, cur, left, pos, rbuf, done_r, armed, u_req, fields, units>>
vars == <<master, seq, answered, written>>

-----------------------------------------------------------------------------
(* The shape of the unit that starts at byte address a with n operand      *)
(* bytes to go: as many bytes as fit the two-word window and the line.     *)

Lesser(a, b) == IF a < b THEN a ELSE b

p0(a) == a % 2

\* Mutant: line_mutant = 1, the limit at the end of the line is dropped.
ncov_NoLine(a, n) == Lesser(n, 4 - p0(a))

ncov(a, n) == Lesser(n, Lesser(4 - p0(a), LineBytes - (a % LineBytes)))

\* operand bytes from k on, in the slots they take
Unit(a, n, k) == [p \in p0(a) .. p0(a) + ncov(a, n) - 1 |-> k + p - p0(a)]

\* the pairs a unit moves between the operand and the window at address w
Moves(unit, w) == {<<unit[p], w + p>> : p \in DOMAIN unit}

\* the address counter is as wide as the address
Wrap(a) == IF a < MemBytes THEN a ELSE a - MemBytes

-----------------------------------------------------------------------------

Init ==
    /\ st = "RS_IDLE" /\ cur = 0 /\ left = 0 /\ pos = 0 /\ rbuf = {}
    /\ done_r = 0 /\ armed = 0 /\ u_req = 0
    /\ u_we = 0 /\ u_adr = 0 /\ u_wdat = << >>
    /\ req = 0 /\ we = 0 /\ size = 1 /\ addr = 0
    /\ answered = 0 /\ written = {} /\ units = 0

(***************************************************************************)
(* The sequencer: one action per state and outcome.                        *)
(***************************************************************************)
u_ack == u_req = 1 /\ answered = 1

\* the completion level lasts as long as the request does
DoneHeld == done_r' = IF req = 0 THEN 0 ELSE done_r

\* RS_IDLE: latch the access and present its first unit in the same edge
Accept ==
    /\ st = "RS_IDLE" /\ req = 1 /\ done_r = 0
    /\ cur' = addr /\ left' = size /\ pos' = 0 /\ rbuf' = {}
    /\ u_we' = we /\ u_adr' = addr - p0(addr) /\ u_wdat' = Unit(addr, size, 0)
    /\ armed' = 1 /\ u_req' = 0 /\ st' = "RS_LAUNCH"
    /\ units' = 0
    /\ DoneHeld

Idle ==
    /\ st = "RS_IDLE" /\ (req = 0 \/ done_r = 1)
    /\ u_req' = 0 /\ DoneHeld
    /\ UNCHANGED <<st, cur, left, pos, rbuf, armed, fields, units>>

\* RS_LAUNCH: the fields go out; the request follows on a later edge, when the
\* placement gate is open or the unit is taken for a line-buffer hit
Present ==
    /\ st = "RS_LAUNCH"
    /\ u_adr' = cur - p0(cur) /\ u_wdat' = Unit(cur, left, pos) /\ armed' = 1
    /\ DoneHeld
    /\ UNCHANGED <<cur, left, pos, rbuf, u_we>>

Launch ==
    /\ Present /\ armed = 1
    /\ u_req' = 1 /\ st' = "RS_WAIT" /\ units' = units + 1

Hold == Present /\ UNCHANGED <<st, u_req, units>>

\* Mutant: the place of the next byte in the operand does not advance.
TakeBytes_PosStays ==
    /\ st = "RS_WAIT" /\ u_ack
    /\ rbuf' = (IF u_we = 1 THEN rbuf ELSE rbuf \cup Moves(Unit(cur, left, pos), u_adr))
    /\ cur' = Wrap(cur + ncov(cur, left))
    /\ left' = left - ncov(cur, left)
    /\ u_req' = 0
    /\ UNCHANGED <<fields, units, pos>>

\* RS_WAIT: take the unit's bytes; the last one completes the access
TakeBytes ==
    /\ st = "RS_WAIT" /\ u_ack
    /\ rbuf' = (IF u_we = 1 THEN rbuf ELSE rbuf \cup Moves(Unit(cur, left, pos), u_adr))
    /\ cur' = Wrap(cur + ncov(cur, left))
    /\ left' = left - ncov(cur, left)
    /\ pos' = pos + ncov(cur, left)
    /\ u_req' = 0
    /\ UNCHANGED <<fields, units>>

\* Mutant: armed survives the unit, so the next one is not set up.
TakeMore_KeepsArmed ==
    /\ TakeBytes /\ left # ncov(cur, left)
    /\ st' = "RS_GAP" /\ DoneHeld
    /\ UNCHANGED armed

TakeMore ==
    /\ TakeBytes /\ left # ncov(cur, left)
    /\ st' = "RS_GAP" /\ DoneHeld /\ armed' = 0

\* Mutant: the access ends without its acknowledgement.
TakeLast_NoAck ==
    /\ TakeBytes /\ left = ncov(cur, left)
    /\ st' = "RS_IDLE" /\ DoneHeld /\ armed' = 0

TakeLast ==
    /\ TakeBytes /\ left = ncov(cur, left)
    /\ st' = "RS_IDLE" /\ done_r' = 1 /\ armed' = 0

Wait ==
    /\ st = "RS_WAIT" /\ ~u_ack
    /\ DoneHeld
    /\ UNCHANGED <<st, cur, left, pos, rbuf, armed, u_req, fields, units>>

\* RS_GAP: one cycle with the request low between the units
Gap ==
    /\ st = "RS_GAP" /\ st' = "RS_LAUNCH"
    /\ DoneHeld
    /\ UNCHANGED <<cur, left, pos, rbuf, armed, u_req, fields, units>>

SeqStep == Accept \/ Idle \/ Launch \/ Hold \/ TakeMore \/ TakeLast \/ Wait \/ Gap

(***************************************************************************)
(* The unit port (cpu_cache_new).  It may answer a read in the request's   *)
(* first cycle, a write only later; the answer drops with the request.     *)
(***************************************************************************)
PortAnswer ==
    /\ answered = 0 /\ u_req' = 1 /\ (u_req = 1 \/ u_we' = 0)
    /\ answered' = 1
    /\ written' = (IF u_we' = 1 THEN written \cup Moves(u_wdat, u_adr) ELSE written)

PortQuiet ==
    /\ answered' = (IF u_req = 1 THEN answered ELSE 0)
    /\ written' = (IF st = "RS_IDLE" /\ st' = "RS_LAUNCH" THEN {} ELSE written)

PortStep == PortAnswer \/ PortQuiet

(***************************************************************************)
(* The master: it raises a request with its access, and takes it down once *)
(* it has seen the completion.                                             *)
(***************************************************************************)
Request ==
    /\ req = 0 /\ req' = 1
    /\ we' \in Bit /\ size' \in Sizes /\ addr' \in Addrs

Consume ==
    /\ req = 1 /\ done_r = 1 /\ req' = 0
    /\ UNCHANGED <<we, size, addr>>

MasterStep == Request \/ Consume \/ UNCHANGED master

-----------------------------------------------------------------------------

Edge == SeqStep /\ PortStep /\ MasterStep

\* the asynchronous reset, which also resets the master and the cache
Reset ==
    /\ st' = "RS_IDLE" /\ cur' = 0 /\ left' = 0 /\ pos' = 0 /\ rbuf' = {}
    /\ done_r' = 0 /\ armed' = 0 /\ u_req' = 0
    /\ u_we' = 0 /\ u_adr' = 0 /\ u_wdat' = << >>
    /\ req' = 0 /\ answered' = 0 /\ written' = {} /\ units' = 0
    /\ UNCHANGED <<we, size, addr>>

Next == Edge \/ Reset

Spec == Init /\ [][Next]_vars

(***************************************************************************)
(* Fairness: the clock runs; the gate opens again while RS_LAUNCH waits    *)
(* for it; the port answers a request that stays up.                       *)
(***************************************************************************)
Fairness ==
    /\ WF_vars(Edge)
    /\ WF_vars(Accept /\ PortStep /\ MasterStep)
    /\ WF_vars(Gap /\ PortStep /\ MasterStep)
    /\ WF_vars(Launch /\ PortStep /\ MasterStep)
    /\ WF_vars(Wait /\ PortAnswer /\ MasterStep)
    /\ WF_vars((TakeMore \/ TakeLast) /\ PortStep /\ MasterStep)

FairSpec == Spec /\ Fairness

(***************************************************************************)
(* Properties.                                                             *)
(***************************************************************************)

\* Every register holds a value of its kind: in particular the byte counters
\* never run out of their three bits.
TypeOK ==
    /\ req \in Bit /\ we \in Bit /\ size \in Sizes /\ addr \in Addrs
    /\ st \in {"RS_IDLE", "RS_LAUNCH", "RS_WAIT", "RS_GAP"}
    /\ cur \in Addrs /\ left \in 0 .. 4 /\ pos \in 0 .. 4
    /\ done_r \in Bit /\ armed \in Bit /\ u_req \in Bit
    /\ u_we \in Bit /\ u_adr \in Addrs
    /\ answered \in Bit /\ units \in Nat

\* The unit-port contract: a request enables at least one slot, only slots of
\* its two-word window, and only bytes of one 16-byte line.
UnitInLine ==
    u_req = 1 =>
        /\ DOMAIN u_wdat # {} /\ DOMAIN u_wdat \subseteq 0 .. 3
        /\ \A p \in DOMAIN u_wdat : (u_adr % LineBytes) + p < LineBytes

\* When an access is acknowledged, every operand byte has moved to or from its
\* own byte of memory, and no other byte has moved: nothing is lost, doubled
\* or shifted where an access is split.
Operand == {<<k, Wrap(addr + k)>> : k \in 0 .. size - 1}

TransferExact ==
    done_r = 1 /\ req = 1 => (IF we = 1 THEN written ELSE rbuf) = Operand

\* The worst case anywhere is two units (the header's "worst case two units
\* for any size"), so an access never holds the port for three slots.
AtMostTwoUnits == units <= 2

\* What a unit may be, and how many an access takes.
UnitsFit == TypeOK /\ UnitInLine /\ AtMostTwoUnits

\* The setup rule of the port: the fields are out one clock before the request
\* rises, and stay as they are for as long as it is up.
FieldsSettled == [][u_req' = 1 => UNCHANGED fields]_vars

\* Every access is acknowledged, unless a reset takes the request away.
Completes == req = 1 ~> (done_r = 1 \/ req = 0)
=============================================================================
