----------------------------- MODULE UsrpDevice -----------------------------
(***************************************************************************)
(* The USRP1 device (USRPDevice.cpp) apart from its receive path (module   *)
(* UsrpRead): opening, starting, stopping, and writeSamples(), which cuts  *)
(* a block into packets of at most Payload samples with the low bits of    *)
(* the time. A sample is its place in the block.                           *)
(***************************************************************************)
EXTENDS Integers, Sequences

CONSTANTS
    Payload,            \* samples in a packet (504 bytes)
    MaxPkts,            \* packets outData has room for
    Lens,               \* the lengths of the blocks that are written
    W,                  \* the device's clock wraps at W
    Stamps,             \* timestamps
    MaxStarts           \* bound: calls of start()

\* What the constants are; assumed where the module is instantiated.
UsrpDeviceAssumption ==
    /\ {Payload, MaxPkts, W} \subseteq Nat \ {0}
    /\ Lens \subseteq 0 .. MaxPkts * Payload /\ Stamps \subseteq Nat /\ MaxStarts \in Nat

VARIABLES
    m_uRx, m_uTx,       \* "null", "stopped" or "running"
    opened, started,
    data,               \* the reader's buffer: "none", "allocated" or "freed"
    leaked,             \* buffers that are lost
    outPkt, written,    \* the packets of the last write; its block and time
    starts

vars == <<m_uRx, m_uTx, opened, started, data, leaked, outPkt, written, starts>>

NoWrite == [len |-> 0, stamp |-> 0, control |-> FALSE]

Init ==
    /\ m_uRx = "null" /\ m_uTx = "null" /\ opened = FALSE /\ started = FALSE
    /\ data = "none" /\ leaked = 0 /\ outPkt = <<>> /\ written = NoWrite /\ starts = 0
-----------------------------------------------------------------------------
\* open(): the receiver, then the transmitter; each may fail.
OpenFails(tx) ==
    /\ ~opened /\ m_uRx = "null"
    /\ m_uRx' = IF tx THEN "stopped" ELSE "null"
    /\ m_uTx' = "null"
    /\ UNCHANGED <<opened, started, data, leaked, outPkt, written, starts>>

Open ==
    /\ ~opened /\ m_uRx = "null" /\ opened' = TRUE
    /\ m_uRx' = "stopped" /\ m_uTx' = "stopped" /\ started' = FALSE
    /\ UNCHANGED <<data, leaked, outPkt, written, starts>>

\* start(): both are stopped first, and the transmitter is started only if
\* the receiver is.
Start(rx, tx) ==
    /\ opened /\ ~started /\ starts < MaxStarts /\ starts' = starts + 1
    /\ m_uRx' = IF rx THEN "running" ELSE "stopped"
    /\ m_uTx' = IF rx /\ tx THEN "running" ELSE "stopped"
    /\ started' = (rx /\ tx)
    /\ data' = "allocated" /\ leaked' = IF data = "allocated" THEN leaked + 1 ELSE leaked
    /\ UNCHANGED <<opened, outPkt, written>>

\* stop(): deletes currData, which nothing ever sets, and not data.
Stop(rx, tx) ==
    /\ opened /\ started
    /\ m_uRx' = IF rx THEN "stopped" ELSE "running"
    /\ m_uTx' = IF rx /\ tx THEN "stopped" ELSE "running"
    /\ started' = ~(rx /\ tx)
    /\ UNCHANGED <<opened, data, leaked, outPkt, written, starts>>
-----------------------------------------------------------------------------
\* Packet k of a block.
Packet(k, len, stamp, control) ==
    LET first == (k - 1) * Payload
        left == len - first
    IN  [start |-> k = 1, end |-> left <= Payload, control |-> control,
         first |-> first, size |-> IF left < Payload THEN left ELSE Payload,
         time |-> (stamp + first) % W]

NumPkts(len) == (len + Payload - 1) \div Payload

\* writeSamples(); the block is written under writeLock.
WriteSamples(len, stamp, control) ==
    /\ started
    /\ outPkt' = [k \in 1 .. NumPkts(len) |-> Packet(k, len, stamp, control)]
    /\ written' = [len |-> len, stamp |-> stamp, control |-> control]
    /\ UNCHANGED <<m_uRx, m_uTx, opened, started, data, leaked, starts>>

\* updateAlignment() writes a block of one sample, with the low bits of the
\* time, on the control channel.
UpdateAlignment(stamp) == WriteSamples(1, stamp % W, TRUE)

Next ==
    \/ \E tx \in BOOLEAN : OpenFails(tx)
    \/ Open
    \/ \E rx, tx \in BOOLEAN : Start(rx, tx) \/ Stop(rx, tx)
    \/ \E len \in Lens, stamp \in Stamps : WriteSamples(len, stamp, FALSE)
    \/ \E stamp \in Stamps : UpdateAlignment(stamp)

Spec == Init /\ [][Next]_vars
-----------------------------------------------------------------------------
\* The packets of a write carry every sample of the block once, in order and
\* at its time modulo the clock; the first packet and only it starts the
\* block, the last and only it ends it; all fit into outData.
PacketsAreBlock ==
    LET n == Len(outPkt)
        end(k) == outPkt[k].first + outPkt[k].size
    IN  /\ n <= MaxPkts
        /\ n = 0 => written.len = 0
        /\ n > 0 => outPkt[1].first = 0 /\ end(n) = written.len
        /\ \A k \in 1 .. n :
            /\ outPkt[k].size \in 1 .. Payload
            /\ k < n => outPkt[k + 1].first = end(k)
            /\ outPkt[k].start <=> k = 1
            /\ outPkt[k].end <=> k = n
            /\ outPkt[k].time = (written.stamp + outPkt[k].first) % W

\* stop() frees the buffer of the reads, so that no start() loses one.
\* Does not hold: stop() deletes currData, and start() allocates data.
BufferFreed == leaked = 0
=============================================================================
