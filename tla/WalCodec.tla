------------------------------ MODULE WalCodec ------------------------------
(***************************************************************************)
(* wal/header.rs: the 64-byte record header, its encoder and the decoder   *)
(* that every reader of a segment uses (sov2pcap, the vault).              *)
(*                                                                         *)
(* A buffer is a sequence of cells: one for each header field that the     *)
(* decoder tells apart and one for each payload byte.  The CRC is taken to *)
(* be collision-free: it is the sequence of the cells it covers.           *)
(*                                                                         *)
(* The module's behaviours write records into a segment and then damage it *)
(* once: a torn write ends it early, or a cell of it changes.              *)
(***************************************************************************)
EXTENDS Integers, Sequences

CONSTANTS
  TcpFlags,      \* values of the tcp_flags field
  Bodies,        \* values of the fields that are carried along (addresses,
                 \* ports, timestamp, seq, ack, window)
  Payloads,      \* payloads, as sequences of bytes
  MaxOrig,       \* largest orig_payload_len
  MaxRecords     \* bound: so many records are written

ASSUME WalCodecAssumption ==
  /\ TcpFlags \subseteq Nat /\ Bodies \subseteq Nat
  /\ Payloads \subseteq Seq(Nat)
  /\ MaxOrig \in Nat /\ MaxRecords \in Nat

VARIABLES
  written,   \* records written
  buf,       \* cells of the segment
  intact,    \* so many of its first cells are as written
  damaged    \* whether the one damage has happened

vars == <<written, buf, intact, damaged>>

Magic == 21328     \* 0x5350
Version == 4
HeaderSize == 8    \* cells: magic version tcp_flags crc body flags payload_len orig_len

\* Logical records; the TRUNCATED flag is derived from the two lengths.
Record == {r \in [tcp_flags : TcpFlags, body : Bodies, degraded : BOOLEAN,
                  truncated : BOOLEAN, orig : 0 .. MaxOrig, payload : Payloads] :
             /\ Len(r.payload) <= r.orig
             /\ r.truncated = (r.orig > Len(r.payload))}

\* Faulty variant: the cells before the crc field are left out.
CrcOfBody(s) == SubSeq(s, 5, Len(s))

\* crc32_of: everything but the crc field itself.
CrcOf(s) == SubSeq(s, 1, 3) \o SubSeq(s, 5, Len(s))

\* WalRecord::encode; the crc is filled in last.
Encode(r) ==
  LET blank == <<Magic, Version, r.tcp_flags, 0, r.body, IF r.degraded THEN 1 ELSE 0,
                 Len(r.payload), r.orig>> \o r.payload
  IN  [blank EXCEPT ![4] = CrcOf(blank)]

Failed == [ok |-> FALSE]

\* try_decode: Magic, Version, Length, CRC, in this order, at offset pos.
TryDecode(b, pos) ==
  IF Len(b) - pos < HeaderSize THEN Failed
  ELSE LET h == SubSeq(b, pos + 1, pos + HeaderSize)
           total == HeaderSize + h[7]
       IN  IF \/ h[1] # Magic
              \/ h[2] # Version
              \/ h[7] \notin Nat       \* a crc cell, which no boundary leads to
              \/ Len(b) - pos < total
              \/ CrcOf(SubSeq(b, pos + 1, pos + total)) # h[4]
           THEN Failed
           ELSE [ok |-> TRUE,
                 next |-> pos + total,
                 record |-> [tcp_flags |-> h[3], body |-> h[5], degraded |-> h[6] % 2 = 1,
                             truncated |-> h[8] > h[7], orig |-> h[8],
                             payload |-> SubSeq(b, pos + HeaderSize + 1, pos + total)]]

\* Faulty variant: a torn record is not counted as left over.
DecodeStreamHeaderOnly(b) ==
  LET From[pos \in 0 .. Len(b)] ==
        LET d == TryDecode(b, pos) IN
        IF d.ok THEN [records |-> <<d.record>> \o From[d.next].records,
                      residual |-> From[d.next].residual]
        ELSE [records |-> <<>>,
              residual |-> IF Len(b) - pos < HeaderSize THEN Len(b) - pos ELSE 0]
  IN  From[0]

\* decode_stream: records up to the first that fails, and the cells left over.
DecodeStream(b) ==
  LET From[pos \in 0 .. Len(b)] ==
        LET d == TryDecode(b, pos) IN
        IF d.ok THEN [records |-> <<d.record>> \o From[d.next].records,
                      residual |-> From[d.next].residual]
        ELSE [records |-> <<>>, residual |-> Len(b) - pos]
  IN  From[0]

-----------------------------------------------------------------------------
Init == written = <<>> /\ buf = <<>> /\ intact = 0 /\ damaged = FALSE

Write ==
  /\ Len(written) < MaxRecords
  /\ ~ damaged
  /\ \E r \in Record :
       /\ written' = Append(written, r)
       /\ buf' = buf \o Encode(r)
  /\ intact' = Len(buf')
  /\ UNCHANGED damaged

\* Where the first k records end, and where the crc fields lie.
Extent(k) ==
  LET end[j \in 0 .. Len(written)] ==
        IF j = 0 THEN 0 ELSE end[j - 1] + HeaderSize + Len(written[j].payload)
  IN  end[k]
CrcCells == {Extent(k) + 4 : k \in 0 .. Len(written) - 1}

\* A torn write, or a reader that comes while the segment grows.
Tear ==
  /\ ~ damaged
  /\ \E n \in 0 .. Len(buf) - 1 : buf' = SubSeq(buf, 1, n) /\ intact' = n
  /\ damaged' = TRUE
  /\ UNCHANGED written

\* One cell changes a little: a length becomes shorter or longer by one.
Corrupt ==
  /\ ~ damaged
  /\ \E i \in DOMAIN buf :
       /\ \E v \in IF i \in CrcCells THEN {<<>>} ELSE {buf[i] - 1, buf[i] + 1} \cap Nat :
            buf' = [buf EXCEPT ![i] = v]
       /\ intact' = i - 1
  /\ damaged' = TRUE
  /\ UNCHANGED written

Next == Write \/ Tear \/ Corrupt

Spec == Init /\ [][Next]_vars

-----------------------------------------------------------------------------
\* "any failure drops the dirty tail; no silent bad packets": from a torn or
\* corrupted segment the decoder returns exactly the records that are wholly
\* intact, as they were given to encode, and reports the rest as residue.
IntactRecords == {k \in 0 .. Len(written) : Extent(k) <= intact}
NoSilentBadRecord ==
  \E k \in IntactRecords :
    /\ \A j \in IntactRecords : j <= k
    /\ DecodeStream(buf) = [records |-> SubSeq(written, 1, k),
                            residual |-> Len(buf) - Extent(k)]

\* Chunk boundaries fall anywhere: decoding a part, and then its residue with
\* all that follows, gives what decoding the whole gives.
Resumable ==
  \A n \in 0 .. Len(buf) :
    LET head == DecodeStream(SubSeq(buf, 1, n))
        rest == DecodeStream(SubSeq(buf, n - head.residual + 1, Len(buf)))
    IN  DecodeStream(buf) = [records |-> head.records \o rest.records,
                             residual |-> rest.residual]

=============================================================================
