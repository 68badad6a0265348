----------------------------- MODULE PortProofs -----------------------------
(***************************************************************************)
(* Proofs about the two ends of a CPU access to the DDR3 memory: the       *)
(* sequencer that splits it into unit-port accesses (RamSeq), and the      *)
(* clock crossing behind the port (Ddr3Cdc).                               *)
(*                                                                         *)
(* The sequencer, for an address space of any number of lines: at every    *)
(* moment of an access the bytes that have moved are the first pos bytes   *)
(* of the operand (Moved), because a unit carries the next ncov of them,   *)
(* each to its own address (UnitMoves), and the counters always add up to  *)
(* the size (Counters).  What the first unit leaves, the second one covers *)
(* (SecondUnit).                                                           *)
(*                                                                         *)
(* The crossing, for every set of requests and every interleaving of the   *)
(* two clocks, resets included: the two toggles and the two synchronisers  *)
(* form a ring                                                             *)
(*    req_tgl -> req_sync0 -> req_sync1 -> req_seen -> ack_tgl             *)
(*            -> ack_sync0 -> ack_sync1 -> (back to req_tgl)               *)
(* along which at most one change travels.  The source only starts a new   *)
(* change when its own end of the ring agrees with req_tgl, and then the   *)
(* whole ring is of one value.                                             *)
(***************************************************************************)
EXTENDS RamSeq, Ddr3Cdc, TLAPS

-----------------------------------------------------------------------------
\* The sequencer

LEMMA UnitShape ==
    ASSUME NEW a \in Addrs, NEW n \in 1 .. 4
    PROVE  /\ p0(a) \in {0, 1} /\ a - p0(a) \in Addrs
           /\ ncov(a, n) \in 1 .. n
           /\ p0(a) + ncov(a, n) \in 1 .. 4
           /\ ((a - p0(a)) % LineBytes) + p0(a) + ncov(a, n) <= LineBytes
           /\ a + ncov(a, n) <= MemBytes
<1>1. MemBytes \in Nat /\ MemBytes % 16 = 0
  BY MemBytesAssumption DEF LineBytes
<1>2. a \in Nat /\ a < MemBytes
  BY <1>1 DEF Addrs
<1>3. a + (16 - (a % 16)) <= MemBytes
  BY <1>1, <1>2
<1> QED
  BY <1>1, <1>2, <1>3 DEF p0, ncov, Lesser, LineBytes, Addrs

LEMMA SecondUnit ==
    ASSUME NEW a \in Addrs, NEW n \in Sizes, ncov(a, n) # n
    PROVE  ncov(Wrap(a + ncov(a, n)), n - ncov(a, n)) = n - ncov(a, n)
<1>1. MemBytes \in Nat /\ MemBytes % 16 = 0
  BY MemBytesAssumption DEF LineBytes
<1>2. a \in Nat /\ a < MemBytes
  BY <1>1 DEF Addrs
<1>3. a + ncov(a, n) <= MemBytes /\ ncov(a,n) \in Nat
  BY UnitShape DEF Sizes
<1> QED
  BY <1>1, <1>2, <1>3 DEF p0, ncov, Lesser, LineBytes, Sizes, Wrap

-----------------------------------------------------------------------------
(* The bytes an access has moved once its first n operand bytes are done.  *)
Part(a, n) == {<<k, Wrap(a + k)>> : k \in 0 .. n - 1}

\* The pairs of a unit of m bytes from operand byte s on, by slot and by byte.
BySlot(s, m, q, c) == {<<s + p - q, (c - q) + p>> : p \in q .. q + m - 1}
ByByte(a, s, m) == {<<k, Wrap(a + k)>> : k \in s .. s + m - 1}

\* The slots of a unit, renumbered as operand bytes.
LEMMA Renumber ==
    ASSUME NEW s \in Nat, NEW a \in Addrs, NEW m \in Nat, NEW c \in Addrs, NEW q \in {0, 1},
           c = Wrap(a + s) /\ c + m <= MemBytes /\ s + m <= 4
    PROVE  BySlot(s, m, q, c) = ByByte(a, s, m)
<1>0. MemBytes \in Nat /\ a \in Nat /\ a < MemBytes /\ c \in Nat
  BY MemBytesAssumption DEF Addrs
<1>1. ASSUME NEW p \in q .. q + m - 1
      PROVE  /\ s + p - q \in s .. s + m - 1
             /\ (c - q) + p = Wrap(a + (s + p - q))
  BY <1>0 DEF Wrap
<1>2. ASSUME NEW k \in s .. s + m - 1
      PROVE  /\ k - s + q \in q .. q + m - 1
             /\ s + (k - s + q) - q = k
             /\ (c - q) + (k - s + q) = Wrap(a + k)
  BY <1>0 DEF Wrap
<1>3. ASSUME NEW x \in BySlot(s, m, q, c)
      PROVE  x \in ByByte(a, s, m)
  BY <1>1 DEF BySlot, ByByte
<1>4. ASSUME NEW x \in ByByte(a, s, m)
      PROVE  x \in BySlot(s, m, q, c)
  <2>1. PICK k \in s .. s + m - 1 : x = <<k, Wrap(a + k)>>
    BY <1>4 DEF ByByte
  <2>2. /\ k - s + q \in q .. q + m - 1
        /\ x = <<s + (k - s + q) - q, (c - q) + (k - s + q)>>
    BY <1>2, <2>1
  <2> QED
    BY <2>2 DEF BySlot
<1> QED
  BY <1>3, <1>4 DEF BySlot, ByByte

\* One unit moves the next ncov operand bytes, each to its own address.
LEMMA UnitMoves ==
    ASSUME NEW s \in Nat, NEW a \in Addrs, NEW n \in 1 .. 4, s + n <= 4,
           NEW c \in Addrs, c = Wrap(a + s)
    PROVE  Part(a, s) \cup Moves(Unit(c, n, s), c - p0(c)) = Part(a, s + ncov(c, n))
<1>1. MemBytes \in Nat /\ a \in Nat /\ a < MemBytes /\ c \in Nat /\ c < MemBytes
  BY MemBytesAssumption DEF Addrs
<1>2. PICK m \in 1 .. n, q \in {0, 1} : /\ m = ncov(c, n) /\ q = p0(c) /\ c + m <= MemBytes
  BY UnitShape
<1>3. Moves(Unit(c, n, s), c - q) = BySlot(s, m, q, c)
  BY <1>2 DEF Moves, Unit, BySlot
<1>4. BySlot(s, m, q, c) = ByByte(a, s, m)
  <2>1. m \in Nat /\ c = Wrap(a + s) /\ c + m <= MemBytes /\ s + m <= 4
    BY <1>2
  <2> QED
    BY <2>1, Renumber
<1>5. 0 .. s + m - 1 = (0 .. s - 1) \cup (s .. s + m - 1)
  BY <1>2
<1>6. Part(a, s) \cup ByByte(a, s, m) = Part(a, s + m)
  BY <1>5 DEF Part, ByByte
<1> QED
  BY <1>2, <1>3, <1>4, <1>6

-----------------------------------------------------------------------------
(* The inductive invariant: between acceptance and completion, the counters *)
(* say how far the access has come, the unit on the port is the one they    *)
(* describe, and exactly the bytes before it have moved.                    *)
Busy == st # "RS_IDLE"

Counters ==
    Busy =>
        /\ req = 1 /\ done_r = 0
        /\ left \in 1 .. 4 /\ pos + left = size
        /\ cur = Wrap(addr + pos)
        /\ pos = 0 \/ ncov(cur, left) = left

UnitCount ==
    /\ units \in 0 .. 2
    /\ st = "RS_LAUNCH" => units = (IF pos = 0 THEN 0 ELSE 1)
    /\ st = "RS_WAIT" => units = (IF pos = 0 THEN 1 ELSE 2)
    /\ st = "RS_GAP" => units = 1 /\ pos # 0

OnPort ==
    /\ u_req = (IF st = "RS_WAIT" THEN 1 ELSE 0)
    /\ st = "RS_WAIT" => armed = 1
    /\ st = "RS_GAP" => armed = 0
    /\ Busy => u_we = we
    /\ Busy /\ armed = 1 => u_adr = cur - p0(cur) /\ u_wdat = Unit(cur, left, pos)

Moved ==
    /\ Busy /\ we = 1 =>
         written = Part(addr, IF st = "RS_WAIT" /\ answered = 1 THEN pos + ncov(cur, left) ELSE pos)
    /\ Busy /\ we = 0 => rbuf = Part(addr, pos)
    /\ st = "RS_LAUNCH" => answered = 0

IInv == TypeOK /\ Counters /\ UnitCount /\ OnPort /\ Moved /\ TransferExact

-----------------------------------------------------------------------------

LEMMA IInvInit == Init => IInv
<1> SUFFICES ASSUME Init PROVE IInv
  OBVIOUS
<1>1. 0 \in Addrs
  BY MemBytesAssumption DEF Addrs
<1> QED
  BY <1>1 DEF Init, IInv, TypeOK, Counters, UnitCount, OnPort, Moved, TransferExact,
              Busy, Bit, Sizes

\* What a step of the sequencer finds when an access is under way.
LEMMA BusyFacts ==
    ASSUME IInv, Busy
    PROVE  /\ ncov(cur, left) \in 1 .. left /\ cur + ncov(cur, left) <= MemBytes
           /\ cur - p0(cur) \in Addrs
           /\ Wrap(cur + ncov(cur, left)) \in Addrs
           /\ Wrap(cur + ncov(cur, left)) = Wrap(addr + (pos + ncov(cur, left)))
           /\ Part(addr, pos) \cup Moves(Unit(cur, left, pos), cur - p0(cur))
                = Part(addr, pos + ncov(cur, left))
<1> USE DEF IInv, TypeOK, Counters
<1>1. MemBytes \in Nat /\ MemBytes >= 16 /\ addr \in Nat /\ addr < MemBytes /\ cur \in Nat
  BY MemBytesAssumption DEF Addrs, LineBytes
<1>2. addr \in Addrs /\ left \in 1 .. 4 /\ cur \in Addrs /\ cur = Wrap(addr + pos) /\ pos \in Nat /\ pos + left <= 4
  BY DEF Sizes
<1>3. /\ ncov(cur, left) \in 1 .. left /\ cur + ncov(cur, left) <= MemBytes
      /\ cur - p0(cur) \in Addrs
  BY <1>2, UnitShape
<1>4. /\ Wrap(cur + ncov(cur, left)) \in Addrs
      /\ Wrap(cur + ncov(cur, left)) = Wrap(addr + (pos + ncov(cur, left)))
  BY <1>1, <1>2, <1>3 DEF Wrap, Addrs
<1>6. Part(addr, pos) \cup Moves(Unit(cur, left, pos), cur - p0(cur))
        = Part(addr, pos + ncov(cur, left))
  BY <1>2, UnitMoves
<1> QED
  BY <1>3, <1>4, <1>6

\* While an access is under way, the master keeps it as it is.
LEMMA MasterHolds ==
    ASSUME IInv, Busy, MasterStep
    PROVE  UNCHANGED master
BY DEF IInv, TypeOK, Counters, MasterStep, Request, Consume, Bit

\* Taking a unit leaves exactly its bytes and those before it moved.
LEMMA TakeMoves ==
    ASSUME IInv, TakeBytes, PortStep
    PROVE  /\ answered' \in {0, 1}
           /\ we = 1 => written' = Part(addr, pos')
           /\ we = 0 => rbuf' = Part(addr, pos')
<1>1. st = "RS_WAIT" /\ answered = 1 /\ u_req' = 0 /\ Busy
  BY DEF TakeBytes, u_ack, Busy
<1>2. written' = written /\ answered' \in {0, 1}
  BY <1>1 DEF PortStep, PortAnswer, PortQuiet, IInv, TypeOK
<1>3. u_we = we /\ u_adr = cur - p0(cur)
  BY <1>1 DEF IInv, OnPort
<1>4. pos' = pos + ncov(cur, left)
  BY DEF TakeBytes
<1>5. ASSUME we = 1 PROVE written' = Part(addr, pos')
  BY <1>1, <1>2, <1>4, <1>5 DEF IInv, Moved
<1>6. ASSUME we = 0 PROVE rbuf' = Part(addr, pos')
  <2>1. rbuf' = rbuf \cup Moves(Unit(cur, left, pos), u_adr)
    BY <1>3, <1>6 DEF TakeBytes
  <2>2. rbuf = Part(addr, pos)
    BY <1>1, <1>6 DEF IInv, Moved
  <2> QED
    BY <1>1, <1>3, <1>4, <2>1, <2>2, BusyFacts
<1> QED
  BY <1>2, <1>5, <1>6

\* One case per action of the sequencer.
LEMMA IInvStep == IInv /\ [Next]_vars => IInv'
<1> SUFFICES ASSUME IInv, [Next]_vars PROVE IInv'
  OBVIOUS
<1> USE DEF Bit, Busy
<1>1. CASE UNCHANGED vars
  BY <1>1 DEF IInv, TypeOK, Counters, UnitCount, OnPort, Moved, TransferExact, Operand,
              vars, master, seq, fields
<1>2. CASE Reset
  <2>1. 0 \in Addrs
    BY MemBytesAssumption DEF Addrs
  <2> QED
    BY <1>2, <2>1 DEF Reset, IInv, TypeOK, Counters, UnitCount, OnPort, Moved, TransferExact
<1>3. ASSUME Edge PROVE IInv'
  <2> USE <1>3 DEF Edge
  <2>1. CASE Accept
    <3>1. UNCHANGED master
      BY <2>1 DEF Accept, MasterStep, Request, Consume, IInv, TypeOK
    <3>2. Part(addr, 0) = {} /\ Wrap(addr + 0) = addr
      BY MemBytesAssumption DEF Part, Wrap, IInv, TypeOK, Addrs
    <3>3. addr - p0(addr) \in Addrs /\ size \in 1 .. 4
      BY UnitShape DEF IInv, TypeOK, Sizes
    <3>4. answered' = 0 /\ written' = {}
      BY <2>1 DEF Accept, PortStep, PortAnswer, PortQuiet, IInv, OnPort, TypeOK
    <3> QED
      BY <2>1, <3>1, <3>2, <3>3, <3>4
         DEF Accept, DoneHeld, master, IInv, TypeOK, Counters, UnitCount, OnPort, Moved, TransferExact
  <2>2. CASE Idle
    <3>1. Operand' = Operand \/ req' = 0 \/ done_r' = 0
      BY <2>2 DEF Idle, DoneHeld, MasterStep, Request, Consume, master, Operand, IInv, TypeOK
    <3> QED
      BY <2>2, <3>1
         DEF Idle, DoneHeld, PortStep, PortAnswer, PortQuiet, MasterStep, Request, Consume,
             master, fields, IInv, TypeOK, Counters, UnitCount, OnPort, Moved, TransferExact
  <2>3. CASE Launch
    <3>1. Busy /\ UNCHANGED master
      BY <2>3, MasterHolds DEF Launch, Present
    <3>2. done_r' = 0 /\ u_req = 0
      BY <2>3, <3>1 DEF Launch, Present, DoneHeld, IInv, Counters, OnPort
    <3>3. written' = written
      BY <2>3, <3>1, <3>2 DEF Launch, Present, PortStep, PortAnswer, PortQuiet, IInv, OnPort, TypeOK
    <3> QED
      BY <2>3, <3>1, <3>2, <3>3, BusyFacts
         DEF Launch, Present, PortStep, PortAnswer, PortQuiet, master, IInv, TypeOK, Counters, UnitCount, OnPort, Moved, TransferExact
  <2>4. CASE Hold
    <3>1. Busy /\ UNCHANGED master
      BY <2>4, MasterHolds DEF Hold, Present
    <3> QED
      BY <2>4, <3>1, BusyFacts
         DEF Hold, Present, DoneHeld, PortStep, PortAnswer, PortQuiet, master, IInv, TypeOK, Counters, UnitCount, OnPort, Moved, TransferExact
  <2>5. CASE TakeMore
    <3>1. Busy /\ UNCHANGED master
      BY <2>5, MasterHolds DEF TakeMore, TakeBytes
    <3>2. answered' \in {0, 1}
      BY <2>5, TakeMoves DEF TakeMore
    <3>3. pos = 0 /\ left = size
      BY <2>5, <3>1 DEF TakeMore, IInv, Counters, TypeOK
    <3>4. ncov(Wrap(cur + ncov(cur, left)), left - ncov(cur, left)) = left - ncov(cur, left)
      BY <2>5, <3>3, SecondUnit DEF TakeMore, IInv, TypeOK
    <3>5. done_r' = 0 /\ answered = 1 /\ u_req' = 0 /\ u_we' = u_we /\ u_adr' = u_adr
      BY <2>5, <3>1 DEF TakeMore, TakeBytes, u_ack, DoneHeld, fields, IInv, Counters
    <3>6. TypeOK' /\ Counters'
      BY <2>5, <3>1, <3>2, <3>3, <3>4, <3>5, BusyFacts
         DEF TakeMore, TakeBytes, master, IInv, TypeOK, Counters, Sizes
    <3>7. UnitCount' /\ OnPort'
      BY <2>5, <3>1, <3>3, <3>5, BusyFacts
         DEF TakeMore, TakeBytes, master, IInv, TypeOK, UnitCount, OnPort
    <3>8. Moved' /\ TransferExact'
      BY <2>5, <3>1, <3>5, TakeMoves DEF TakeMore, master, Moved, TransferExact
    <3> QED
      BY <3>6, <3>7, <3>8 DEF IInv
  <2>6. CASE TakeLast
    <3>1. Busy /\ UNCHANGED master
      BY <2>6, MasterHolds DEF TakeLast, TakeBytes
    <3>2. size = pos' /\ we \in {0, 1}
      BY <2>6, <3>1 DEF TakeLast, TakeBytes, IInv, TypeOK, Counters
    <3>3. Operand' = Part(addr, pos')
      BY <3>1, <3>2 DEF master, Operand, Part
    <3>4. TransferExact'
      BY <2>6, <3>1, <3>2, <3>3, TakeMoves DEF TakeLast, master, TransferExact
    <3>5. TypeOK'
      <4>1. pos' \in 0 .. 4 /\ left' = 0
        BY <2>6, <3>1, <3>2 DEF TakeLast, TakeBytes, IInv, TypeOK, Sizes
      <4>2. cur' \in Addrs /\ answered' \in {0, 1}
        BY <2>6, <3>1, BusyFacts, TakeMoves DEF TakeLast, TakeBytes
      <4> QED
        BY <2>6, <3>1, <4>1, <4>2 DEF TakeLast, TakeBytes, master, fields, IInv, TypeOK
    <3>6. Counters' /\ UnitCount' /\ OnPort' /\ Moved'
      BY <2>6, <3>1 DEF TakeLast, TakeBytes, IInv, Counters, UnitCount, OnPort, Moved
    <3> QED
      BY <3>4, <3>5, <3>6 DEF IInv
  <2>7. CASE Wait
    <3>1. Busy /\ UNCHANGED master
      BY <2>7, MasterHolds DEF Wait
    <3> QED
      BY <2>7, <3>1, BusyFacts
         DEF Wait, u_ack, DoneHeld, PortStep, PortAnswer, PortQuiet, master, fields, IInv, TypeOK, Counters, UnitCount, OnPort, Moved, TransferExact
  <2>8. CASE Gap
    <3>1. Busy /\ UNCHANGED master
      BY <2>8, MasterHolds DEF Gap
    <3> QED
      BY <2>8, <3>1
         DEF Gap, DoneHeld, PortStep, PortAnswer, PortQuiet, master, fields, IInv, TypeOK, Counters, UnitCount, OnPort, Moved, TransferExact
  <2> QED
    BY <2>1, <2>2, <2>3, <2>4, <2>5, <2>6, <2>7, <2>8 DEF SeqStep
<1> QED
  BY <1>1, <1>2, <1>3 DEF Next

THEOREM Inductive == Spec => []IInv
BY IInvInit, IInvStep, PTL DEF Spec

-----------------------------------------------------------------------------
(* The theorems, for an address space of any number of lines.              *)

\* Every register stays within its range, whatever the access.
THEOREM TypeCorrect == Spec => []TypeOK
<1>1. IInv => TypeOK
  BY DEF IInv
<1> QED
  BY <1>1, Inductive, PTL

\* An acknowledged access has moved each of its bytes exactly, and no other.
THEOREM TransferCorrect == Spec => []TransferExact
<1>1. IInv => TransferExact
  BY DEF IInv
<1> QED
  BY <1>1, Inductive, PTL

\* No access takes more than two units.
THEOREM TwoUnitsSuffice == Spec => []AtMostTwoUnits
<1>1. IInv => AtMostTwoUnits
  BY DEF IInv, UnitCount, AtMostTwoUnits
<1> QED
  BY <1>1, Inductive, PTL

\* No unit leaves its line or its window.
THEOREM UnitsInLine == Spec => []UnitInLine
<1>1. ASSUME IInv PROVE UnitInLine
  <2> SUFFICES ASSUME u_req = 1 PROVE UnitInLine
    BY DEF UnitInLine
  <2>1. st = "RS_WAIT" /\ Busy
    BY <1>1 DEF IInv, OnPort, Busy
  <2>2. cur \in Addrs /\ left \in 1 .. 4
    BY <1>1, <2>1 DEF IInv, TypeOK, Counters
  <2>3. /\ u_adr = cur - p0(cur) /\ u_adr \in Nat
        /\ DOMAIN u_wdat = p0(cur) .. p0(cur) + ncov(cur, left) - 1
    BY <1>1, <2>1, <2>2, UnitShape DEF IInv, OnPort, Unit, Addrs
  <2>4. /\ p0(cur) \in {0, 1} /\ ncov(cur, left) \in 1 .. 4
        /\ p0(cur) + ncov(cur, left) <= 4
        /\ (u_adr % LineBytes) + p0(cur) + ncov(cur, left) <= LineBytes
    BY <2>2, <2>3, UnitShape
  <2>5. u_adr % LineBytes \in Nat
    BY <2>3 DEF LineBytes
  <2>6. p0(cur) \in DOMAIN u_wdat /\ DOMAIN u_wdat \subseteq 0 .. 3
    BY <2>3, <2>4
  <2>7. ASSUME NEW p \in DOMAIN u_wdat PROVE (u_adr % LineBytes) + p < LineBytes
    BY <2>3, <2>4, <2>5 DEF LineBytes
  <2> QED
    BY <2>6, <2>7 DEF UnitInLine
<1> QED
  BY <1>1, Inductive, PTL

\* A unit fits its line and its window, and two of them fit any access.
THEOREM UnitsAlwaysFit == Spec => []UnitsFit
BY TypeCorrect, TwoUnitsSuffice, UnitsInLine, PTL DEF UnitsFit

\* The fields never move in the clock in which the request rises, nor after it.
THEOREM SetupKept == Spec => FieldsSettled
<1>1. ASSUME IInv, [Next]_vars, u_req' = 1 PROVE UNCHANGED fields
  <2>1. CASE UNCHANGED vars
    BY <2>1 DEF vars, seq
  <2>2. CASE Reset
    BY <1>1, <2>2 DEF Reset
  <2>3. CASE Edge
    <3>1. Launch \/ Wait \/ Hold \/ Gap
      BY <1>1, <2>3 DEF Edge, SeqStep, Accept, Idle, TakeMore, TakeLast, TakeBytes
    <3>2. CASE Wait \/ Gap
      BY <3>2 DEF Wait, Gap
    <3>3. CASE Launch
      BY <1>1, <3>3 DEF Launch, Present, IInv, OnPort, Busy, fields
    <3>4. CASE Hold
      BY <1>1, <3>4 DEF Hold, Present, IInv, OnPort
    <3> QED
      BY <3>1, <3>2, <3>3, <3>4
  <2> QED
    BY <1>1, <2>1, <2>2, <2>3 DEF Next
<1>2. IInv /\ [Next]_vars => [u_req' = 1 => UNCHANGED fields]_vars
  BY <1>1
<1> QED
  BY <1>2, Inductive, PTL DEF Spec, FieldsSettled

-----------------------------------------------------------------------------
\* The crossing

\* The destination works exactly while it has seen a request it did not answer.
Working == dst_state = "D_IDLE" <=> ack_tgl = req_seen

\* What the island owes is the request the source presented last.
Owes ==
    /\ owed # None => dst_state = "D_RESP" /\ owed = payload
    /\ (busy = 1 \/ req_tgl # ack_tgl) => payload # None

\* Once the destination has answered, rdata_r is the answer to that request
\* until the source has taken it.
Answered == busy = 1 /\ ack_tgl = req_tgl => rdata_r = payload

CdcIInv == CdcTypeOK /\ Ring /\ Working /\ Owes /\ Answered /\ AnswerMatches

-----------------------------------------------------------------------------

\* The registers keep their types.
LEMMA TypeInit == CdcInit => CdcTypeOK
BY DEF CdcInit, CdcTypeOK, Toggles

LEMMA TypeStep == CdcTypeOK /\ [CdcNext]_CdcVars => CdcTypeOK'
<1> SUFFICES ASSUME CdcTypeOK, [CdcNext]_CdcVars PROVE CdcTypeOK'
  OBVIOUS
<1> USE DEF CdcTypeOK, Toggles, Flip
<1>1. CASE SrcReset
  BY <1>1 DEF SrcReset, SyncAck, dst
<1>2. ASSUME NEW r \in Requests, SrcRequest(r) PROVE CdcTypeOK'
  BY <1>2 DEF SrcRequest, SyncAck, dst
<1>3. CASE SrcCapture
  BY <1>3 DEF SrcCapture, SyncAck, dst
<1>4. CASE SrcWait
  BY <1>4 DEF SrcWait, SyncAck, dst
<1>5. CASE DstSee
  BY <1>5 DEF DstSee, SyncReq, src
<1>6. CASE DstAccept
  BY <1>6 DEF DstAccept, SyncReq, src
<1>7. CASE DstRespond
  BY <1>7 DEF DstRespond, SyncReq, src
<1>8. CASE DstWait
  BY <1>8 DEF DstWait, SyncReq, src
<1>9. CASE PressReset
  BY <1>9 DEF PressReset, src
<1>10. CASE ReleaseReset
  BY <1>10 DEF ReleaseReset, src, dst
<1>11. CASE UNCHANGED CdcVars
  BY <1>11 DEF CdcVars, src, dst
<1> QED
  BY <1>1, <1>2, <1>3, <1>4, <1>5, <1>6, <1>7, <1>8, <1>9, <1>10, <1>11
     DEF CdcNext, SrcEdge, DstEdge

\* Every register of the crossing always holds a value of its kind
\* (ddr3_cdc.v, all register declarations).
THEOREM CdcTypeCorrect == CdcSpec => []CdcTypeOK
<1> QED
  BY TypeInit, TypeStep, PTL DEF CdcSpec

-----------------------------------------------------------------------------

\* The strengthening is inductive.
LEMMA CdcIInvInit == CdcInit => CdcIInv
BY RequestAssumption
   DEF CdcInit, CdcIInv, CdcTypeOK, Toggles, Ring, Working, Owes, Answered, AnswerMatches

LEMMA CdcIInvStep == CdcIInv /\ [CdcNext]_CdcVars => CdcIInv'
<1> SUFFICES ASSUME CdcIInv, [CdcNext]_CdcVars PROVE CdcIInv'
  OBVIOUS
<1>0. CdcTypeOK'
  BY TypeStep DEF CdcIInv
<1> USE RequestAssumption
    DEF CdcIInv, Ring, Working, Owes, Answered, AnswerMatches, CdcTypeOK, Toggles, Flip
<1>1. CASE SrcReset
  BY <1>0, <1>1 DEF SrcReset, SyncAck, dst
<1>2. ASSUME NEW r \in Requests, SrcRequest(r) PROVE CdcIInv'
  BY <1>0, <1>2 DEF SrcRequest, src_ready, SyncAck, dst
<1>3. CASE SrcCapture
  BY <1>0, <1>3 DEF SrcCapture, SyncAck, dst
<1>4. CASE SrcWait
  BY <1>0, <1>4 DEF SrcWait, SyncAck, dst
<1>5. CASE DstSee
  BY <1>0, <1>5 DEF DstSee, SyncReq, src
<1>6. CASE DstAccept
  BY <1>0, <1>6 DEF DstAccept, SyncReq, src
<1>7. CASE DstRespond
  BY <1>0, <1>7 DEF DstRespond, SyncReq, src
<1>8. CASE DstWait
  BY <1>0, <1>8 DEF DstWait, SyncReq, src
<1>9. CASE PressReset
  BY <1>0, <1>9 DEF PressReset, src
<1>10. CASE ReleaseReset
  BY <1>0, <1>10 DEF ReleaseReset, src, dst
<1>11. CASE UNCHANGED CdcVars
  BY <1>0, <1>11 DEF CdcVars, src, dst
<1> QED
  BY <1>1, <1>2, <1>3, <1>4, <1>5, <1>6, <1>7, <1>8, <1>9, <1>10, <1>11
     DEF CdcNext, SrcEdge, DstEdge

LEMMA CdcInductive == CdcSpec => []CdcIInv
BY CdcIInvInit, CdcIInvStep, PTL DEF CdcSpec

-----------------------------------------------------------------------------

\* At most one change travels the ring of toggles and synchronisers, so no
\* request is lost or seen twice (ddr3_cdc.v:162-164, 202-204, 220-225).
THEOREM OneInFlight == CdcSpec => []Ring
<1>1. CdcIInv => Ring
  BY DEF CdcIInv
<1> QED
  BY <1>1, CdcInductive, PTL

\* The source is never handed the answer to a request it did not make, however
\* resets abandon requests (src_done, src_rdata: ddr3_cdc.v:168-186).
THEOREM AnswersMatch == CdcSpec => []AnswerMatches
<1>1. CdcIInv => AnswerMatches
  BY DEF CdcIInv
<1> QED
  BY <1>1, CdcInductive, PTL

\* One request is in flight, and is answered with its own answer: together,
\* what the run checks (ddr3_cdc.v:168-240).
THEOREM KeptApart == CdcSpec => []RequestsApart
<1>1. CdcIInv => RequestsApart
  BY DEF CdcIInv, RequestsApart
<1> QED
  BY <1>1, CdcInductive, PTL

\* The payload buses are stable while a request travels, which is what lets
\* them cross without synchronisers (ddr3_cdc.v:33-44).
THEOREM PayloadQuasiStatic == CdcSpec => PayloadStable
<1>1. ASSUME CdcIInv, [CdcNext]_CdcVars
      PROVE  [req_tgl # ack_tgl => UNCHANGED payload]_CdcVars
  <2>1. CASE \E r \in Requests : SrcRequest(r)
    BY <1>1, <2>1 DEF SrcRequest, src_ready, CdcIInv, Ring
  <2>2. CASE ~ \E r \in Requests : SrcRequest(r)
    BY <1>1, <2>2 DEF CdcNext, SrcEdge, SrcReset, SrcCapture, SrcWait, DstEdge,
          DstSee, DstAccept, DstRespond, DstWait, PressReset, ReleaseReset, src, CdcVars
  <2> QED
    BY <2>1, <2>2
<1> QED
  BY <1>1, CdcInductive, PTL DEF CdcSpec, PayloadStable

\* The answer bus is written only while neither stage of the source's
\* synchroniser can show the acknowledge (ddr3_cdc.v:46-50).
THEOREM RdataQuasiStatic == CdcSpec => RdataSettled
<1>1. ASSUME CdcIInv, [CdcNext]_CdcVars
      PROVE  [rdata_r' # rdata_r => ack_sync0 # ack_tgl' /\ ack_sync1 # ack_tgl']_CdcVars
  <2>1. CASE DstRespond
    BY <1>1, <2>1 DEF DstRespond, Flip, Toggles, CdcIInv, Ring, Working, CdcTypeOK
  <2>2. CASE ~DstRespond
    BY <1>1, <2>2 DEF CdcNext, SrcEdge, SrcReset, SrcRequest, SrcCapture, SrcWait,
          DstEdge, DstSee, DstAccept, DstWait, PressReset, ReleaseReset, dst, CdcVars
  <2> QED
    BY <2>1, <2>2
<1> QED
  BY <1>1, CdcInductive, PTL DEF CdcSpec, RdataSettled

\* Neither bus of the crossing moves while it may be sampled
\* (ddr3_cdc.v:33-50).
THEOREM BusesQuasiStatic == CdcSpec => BusesSettled
BY PayloadQuasiStatic, RdataQuasiStatic DEF BusesSettled

-----------------------------------------------------------------------------

\* The crossing implements the abstract request channel: the memory accepts
\* every request once, its answer is handed over at most once and to the
\* request it belongs to, and nothing new starts before the old exchange ends.
THEOREM ImplementsChannel == CdcSpec => ChannelSpec
<1> USE RequestAssumption
    DEF Channel!Next, Channel!Ask, Channel!Accept, Channel!Answer, Channel!Deliver,
        Channel!Abandon, Channel!cvars
<1>1. CdcInit => Channel!Init
  BY DEF CdcInit, Channel!Init
<1>2. ASSUME CdcIInv, CdcIInv', [CdcNext]_CdcVars PROVE [Channel!Next]_(Channel!cvars)
  <2> USE <1>2 DEF CdcIInv, CdcTypeOK, Toggles, Flip, Ring, Working, Owes, Answered
  <2>1. CASE SrcReset
    BY <2>1 DEF SrcReset, SyncAck, dst
  <2>2. ASSUME NEW r \in Requests, SrcRequest(r) PROVE Channel!Ask(r)
    BY <2>2 DEF SrcRequest, src_ready, SyncAck, dst
  <2>3. CASE SrcCapture
    BY <2>3 DEF SrcCapture, SyncAck, dst
  <2>4. CASE SrcWait
    BY <2>4 DEF SrcWait, SyncAck, dst
  <2>5. CASE DstSee
    BY <2>5 DEF DstSee, SyncReq, src
  <2>6. CASE DstAccept
    BY <2>6 DEF DstAccept, SyncReq, src
  <2>7. CASE DstRespond
    BY <2>7 DEF DstRespond, SyncReq, src
  <2>8. CASE DstWait
    BY <2>8 DEF DstWait, SyncReq, src
  <2>9. CASE PressReset
    BY <2>9 DEF PressReset, src
  <2>10. CASE ReleaseReset
    BY <2>10 DEF ReleaseReset, src, dst
  <2>11. CASE UNCHANGED CdcVars
    BY <2>11 DEF CdcVars, src, dst
  <2> QED
    BY <2>1, <2>2, <2>3, <2>4, <2>5, <2>6, <2>7, <2>8, <2>9, <2>10, <2>11
       DEF CdcNext, SrcEdge, DstEdge
<1> QED
  BY <1>1, <1>2, CdcInductive, PTL DEF CdcSpec, ChannelSpec, Channel!Spec
=============================================================================
