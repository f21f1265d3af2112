---------------------------- MODULE CapturePath ----------------------------
(***************************************************************************)
(* What becomes of one frame: bpf/capture.bpf.c filters and copies it in   *)
(* the kernel, parse/slicer.rs cuts its payload, wal/header.rs stores the  *)
(* two payload lengths and bin/sov2pcap.rs turns the record into a packet  *)
(* of a pcap file.  The frame is seen by two parsers that must agree, and  *)
(* its length is cut twice, by limits that do not know of each other.      *)
(*                                                                         *)
(* Lengths are in cells; contents other than ports are left out.           *)
(***************************************************************************)
EXTENDS Integers, FiniteSets, FiniteSetsExt

CONSTANTS
  Ports,          \* ports of the frames
  CapturePorts,   \* capture_ports: what is in port_filter_map
  MaxCopy,        \* MAX_COPY of the kernel program
  SliceBytes,     \* slice_bytes
  Options,        \* lengths the IP and TCP options may have together
  MaxPayload,     \* bound: largest payload on the wire
  MinFrame,       \* length to which Ethernet pads a short frame
  Link, Ip, Tcp, Udp    \* header lengths without options

ASSUME CapturePathAssumption ==
  /\ CapturePorts \subseteq Ports
  /\ Ports \subseteq Nat
  /\ {MaxCopy, SliceBytes, Link, Ip, Tcp, Udp} \subseteq Nat \ {0}
  /\ Options \subseteq Nat /\ MaxPayload \in Nat /\ MinFrame \in Nat

VARIABLES stage, frame, copied, rec, pcap

vars == <<stage, frame, copied, rec, pcap>>

\* A frame at the tc hook.  linear: its first bytes, headers included, lie
\* between data and data_end; fragment: an IPv4 fragment; padded: it came in from
\* the wire, on its way out a frame is not padded yet.
Frames == [ether : {"ipv4", "ipv6", "other"}, l4 : {"tcp", "udp", "other"},
           src : Ports, dst : Ports, options : Options, payload : 0 .. MaxPayload,
           linear : BOOLEAN, fragment : BOOLEAN, padded : BOOLEAN]

L4Len(f) == IF f.l4 = "tcp" THEN Tcp ELSE Udp
Headers(f) == Link + Ip + L4Len(f) + f.options
Padding(f) == IF f.padded THEN Max({0, MinFrame - Headers(f) - f.payload}) ELSE 0

\* skb->len; the IP layer, which takes the padding off, comes later.
WireLen(f) == Headers(f) + f.payload + Padding(f)
IsL4(f) == f.l4 \in {"tcp", "udp"}

NoRecord == [src |-> 0, dst |-> 0, payload_len |-> 0, orig |-> 0, truncated |-> FALSE]
NoPacket == [incl |-> 0, orig |-> 0]

Init ==
  /\ stage = "wire"
  /\ frame \in Frames
  /\ copied = 0 /\ rec = NoRecord /\ pcap = NoPacket

\* Faulty variant: only the destination port is looked up.
WhitelistedDst(f) == f.dst \in CapturePorts

\* The two lookups in port_filter_map.
Whitelisted(f) == f.dst \in CapturePorts \/ f.src \in CapturePorts

Selected(f) == f.ether # "other" /\ IsL4(f) /\ f.linear /\ Whitelisted(f)

\* The program lets the frame pass unrecorded.
ClassifyPass ==
  /\ stage = "wire"
  /\ ~ Selected(frame)
  /\ stage' = "passed"
  /\ UNCHANGED <<frame, copied, rec, pcap>>

\* It copies the frame, or the first MaxCopy bytes of it.
ClassifyCopy ==
  /\ stage = "wire"
  /\ Selected(frame)
  /\ copied' = Min({WireLen(frame), MaxCopy})
  /\ stage' = "copied"
  /\ UNCHANGED <<frame, rec, pcap>>

\* No room in the ring, or bpf_skb_load_bytes fails.
ClassifyDiscard ==
  /\ stage = "wire"
  /\ Selected(frame)
  /\ stage' = "passed"
  /\ UNCHANGED <<frame, copied, rec, pcap>>

\* Slicer::process gives None: not IPv4, headers cut off, or a fragment, of
\* which the parser does not show the transport layer.
SliceReject ==
  /\ stage = "copied"
  /\ frame.ether # "ipv4" \/ copied < Headers(frame) \/ frame.fragment
  /\ stage' = "rejected"
  /\ UNCHANGED <<frame, copied, rec, pcap>>

\* Faulty variant: a payload of exactly slice_bytes counts as cut.
CutAtBoundary(app) == app >= SliceBytes

\* truncated, in Slicer::process.
Cut(app) == app > SliceBytes

\* ... or a record: app is what follows the headers in the copy.  The parser does
\* not look at the length in the IP header, so padding is payload to it.
SliceRecord ==
  /\ stage = "copied"
  /\ frame.ether = "ipv4" /\ copied >= Headers(frame) /\ ~ frame.fragment
  /\ LET app == copied - Headers(frame) IN
       rec' = [src |-> frame.src, dst |-> frame.dst,
               payload_len |-> IF Cut(app) THEN SliceBytes ELSE app,
               orig |-> app,
               truncated |-> Cut(app)]
  /\ stage' = "record"
  /\ UNCHANGED <<frame, copied, pcap>>

\* Faulty variant: the original length without the transport header.
PcapOrigShort(r, l4) == Link + Ip + r.orig

\* orig_len of the packet, in main of sov2pcap.
PcapOrig(r, l4) == Link + Ip + l4 + r.orig

\* sov2pcap writes headers without options before the stored payload.
Convert ==
  /\ stage = "record"
  /\ pcap' = [incl |-> Link + Ip + L4Len(frame) + rec.payload_len,
              orig |-> PcapOrig(rec, L4Len(frame))]
  /\ stage' = "packet"
  /\ UNCHANGED <<frame, copied, rec>>

Next ==
  \/ ClassifyPass \/ ClassifyCopy \/ ClassifyDiscard
  \/ SliceReject \/ SliceRecord
  \/ Convert

Spec == Init /\ [][Next]_vars

-----------------------------------------------------------------------------
\* Of a conversation with a watched service, both directions are recorded: a
\* record's frame answered the other way round would be recorded too.
Reply(f) == [f EXCEPT !.src = f.dst, !.dst = f.src]
BothDirections ==
  stage \in {"record", "packet"} => Selected(Reply(frame)) /\ {rec.src, rec.dst} \cap CapturePorts # {}

\* With a copy limit above slice_bytes and the headers ("enough for 4 KB and
\* the L2, L3 and L4 headers"), a reader can tell that a payload was cut, by
\* whichever of the two limits; padding counts as payload.
TruncationVisible ==
  stage = "record" =>
    (rec.truncated <=> rec.payload_len < frame.payload + Padding(frame))

\* sov2pcap: orig_len > incl_len exactly for a truncated record.
PcapShowsTruncation ==
  stage = "packet" => (rec.truncated <=> pcap.orig > pcap.incl) /\ pcap.incl <= pcap.orig

=============================================================================
