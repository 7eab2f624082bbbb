---------------------------- MODULE ExtractFields ----------------------------
(***************************************************************************)
(* Flow::extract_flow_fields of the example switch (examples/switch/       *)
(* flow.cc): it walks through the headers of a captured frame, which may   *)
(* be cut off anywhere, and sets the fields of a match.  One step per      *)
(* header, and one per turn of the loop over VLAN tags.                    *)
(***************************************************************************)
EXTENDS Integers, FiniteSets

CONSTANTS
  MaxLen,    \* BOUND: bytes of the longest frame
  MaxTags    \* BOUND: VLAN tags of a frame

ASSUME LenAssumption == MaxLen \in Nat /\ MaxTags \in Nat

\* sizeof of the packed headers (packets.h)
Size == [eth |-> 14, llc |-> 3, snap |-> 5, vlan |-> 4, arp |-> 28, ip |-> 20,
         icmp |-> 4, tcp |-> 20, udp |-> 8]

\* What the function's branches tell apart of a frame: its length as captured,
\* Ethernet II or 802.3 (and then which LLC and SNAP it carries), the number
\* of VLAN tags, what is behind them, and for IP fragmentation and protocol.
Frame == [len : 0..MaxLen, framing : {"II", "snap", "other_org", "other_llc"},
          tags : 0..MaxTags, payload : {"arp", "ip", "other"},
          fragment : BOOLEAN, proto : {"icmp", "tcp", "udp", "other"}]

\* the eth_type of the Ethernet header: the first tag's, or what it carries;
\* for 802.3 it is a length
EthType(frame) ==
  CASE frame.framing # "II" -> "length"
    [] frame.framing = "II" /\ frame.tags > 0 -> "vlan"
    [] frame.framing = "II" /\ frame.tags = 0 -> frame.payload

VARIABLES
  frame,    \* the captured frame
  pc,       \* the header to be parsed next
  offset,   \* bytes parsed
  match,    \* the fields set so far
  freed     \* proto has been freed

frameVars == <<frame, pc, offset, match, freed>>

FrameInit ==
  /\ frame \in Frame
  /\ pc = "eth"
  /\ offset = 0
  /\ match = {}
  /\ freed = FALSE

\* the size of the header is counted once too often
MutantCutOffAt(header) == frame.len <= offset + Size[header]

\* the header is not wholly there: free and return
CutOff(header) == frame.len < offset + Size[header]

Return(release) ==
  /\ pc' = "done"
  /\ freed' = release

\* nothing is freed on the way out
MutantReturnCutOff(header) ==
  /\ CutOff(header)
  /\ Return(FALSE)
  /\ UNCHANGED <<frame, offset, match>>

ReturnCutOff(header) ==
  /\ CutOff(header)
  /\ Return(TRUE)
  /\ UNCHANGED <<frame, offset, match>>

Parse(header, fields) ==
  /\ ~CutOff(header)
  /\ offset' = offset + Size[header]
  /\ match' = match \cup fields
  /\ UNCHANGED frame

Ethernet ==
  /\ pc = "eth"
  /\ \/ ReturnCutOff("eth")
     \/ /\ frame.framing = "II"
        /\ Parse("eth", {"dl_src", "dl_dst", "dl_type"})
        /\ pc' = "vlan"
        /\ UNCHANGED freed
     \/ /\ frame.framing # "II"
        /\ Parse("eth", {})
        /\ pc' = "llc"
        /\ UNCHANGED freed

\* an 802.3 frame is given up unless its LLC header announces a SNAP header
Llc ==
  /\ pc = "llc"
  /\ \/ ReturnCutOff("llc")
     \/ frame.framing = "other_llc" /\ Parse("llc", {}) /\ Return(TRUE)
     \/ /\ frame.framing # "other_llc"
        /\ Parse("llc", {})
        /\ pc' = "snap"
        /\ UNCHANGED freed

\* ... of the Ethernet organisation; dl_src is then written twice, first with
\* the source and then with the destination, and dl_dst never
Snap ==
  /\ pc = "snap"
  /\ \/ ReturnCutOff("snap")
     \/ frame.framing = "other_org" /\ Parse("snap", {}) /\ Return(TRUE)
     \/ /\ frame.framing = "snap"
        /\ Parse("snap", {"dl_src", "dl_type"})
        /\ pc' = "vlan"
        /\ UNCHANGED freed

Vlan ==
  /\ pc = "vlan"
  /\ \/ /\ EthType(frame) = "vlan"
        /\ \/ ReturnCutOff("vlan")
           \/ /\ Parse("vlan", {"dl_vlan", "dl_vlan_pcp", "dl_type"})
              /\ pc' = "tags"
              /\ UNCHANGED freed
     \/ /\ EthType(frame) # "vlan"
        /\ match' = match \cup {"dl_vlan"}      \* 0xffff: none
        /\ pc' = "tags"
        /\ UNCHANGED <<frame, offset, freed>>

\* the tag is looked at without moving on
MutantSkipTags ==
  /\ pc = "tags"
  /\ \/ /\ EthType(frame) = "vlan"
        /\ \/ ReturnCutOff("vlan")
           \/ ~CutOff("vlan") /\ UNCHANGED frameVars
     \/ /\ EthType(frame) # "vlan"
        /\ pc' = "arp"
        /\ UNCHANGED <<frame, offset, match, freed>>

\* The loop over the other tags tests the type in the Ethernet header, which
\* the body does not change: it ends where the frame ends.
SkipTags ==
  /\ pc = "tags"
  /\ \/ /\ EthType(frame) = "vlan"
        /\ \/ ReturnCutOff("vlan")
           \/ /\ Parse("vlan", {"dl_type"})
              /\ UNCHANGED <<pc, freed>>
     \/ /\ EthType(frame) # "vlan"
        /\ pc' = "arp"
        /\ UNCHANGED <<frame, offset, match, freed>>

Arp ==
  /\ pc = "arp"
  /\ \/ /\ EthType(frame) = "arp"
        /\ \/ ReturnCutOff("arp")
           \/ /\ Parse("arp", {"nw_src", "nw_dst", "nw_proto"})
              /\ Return(TRUE)
     \/ /\ EthType(frame) # "arp"
        /\ pc' = "ip"
        /\ UNCHANGED <<frame, offset, match, freed>>

\* next_proto is only set by a whole IP header of a packet not fragmented
Ip ==
  /\ pc = "ip"
  /\ \/ /\ EthType(frame) = "ip"
        /\ \/ ReturnCutOff("ip")
           \/ /\ Parse("ip", {"nw_src", "nw_dst", "nw_proto", "nw_tos"})
              /\ \/ frame.fragment /\ Return(TRUE)
                 \/ ~frame.fragment /\ pc' = "transport" /\ UNCHANGED freed
     \/ /\ EthType(frame) # "ip"
        /\ Return(TRUE)
        /\ UNCHANGED <<frame, offset, match>>

\* the length is not checked again for a header that is mostly there
MutantTransport ==
  /\ pc = "transport"
  /\ \/ /\ frame.proto # "other"
        /\ offset' = offset + Size[frame.proto]
        /\ match' = match \cup {"tp_src", "tp_dst"}
        /\ UNCHANGED frame
        /\ Return(frame.proto # "icmp")
     \/ /\ frame.proto = "other"
        /\ Return(TRUE)
        /\ UNCHANGED <<frame, offset, match>>

\* ICMP returns before the call of free
Transport ==
  /\ pc = "transport"
  /\ \/ /\ frame.proto # "other"
        /\ \/ ReturnCutOff(frame.proto)
           \/ /\ Parse(frame.proto, {"tp_src", "tp_dst"})
              /\ Return(frame.proto # "icmp")
     \/ /\ frame.proto = "other"
        /\ Return(TRUE)
        /\ UNCHANGED <<frame, offset, match>>

FrameNext == Ethernet \/ Llc \/ Snap \/ Vlan \/ SkipTags \/ Arp \/ Ip \/ Transport

\* sequential code: a step that can be taken is taken
FrameSpec == FrameInit /\ [][FrameNext]_frameVars /\ WF_frameVars(FrameNext)

-----------------------------------------------------------------------------
(* Properties *)

MatchFields == {"dl_src", "dl_dst", "dl_type", "dl_vlan", "dl_vlan_pcp",
                "nw_src", "nw_dst", "nw_proto", "nw_tos", "tp_src", "tp_dst"}

\* The type invariant.
FrameTypeOK ==
  /\ frame \in Frame
  /\ pc \in {"eth", "llc", "snap", "vlan", "tags", "arp", "ip", "transport", "done"}
  /\ offset \in 0..MaxLen
  /\ match \subseteq MatchFields
  /\ freed \in BOOLEAN

\* No header is read that is not wholly inside the captured bytes, however the
\* frame is cut off and whatever it claims to contain (flow.cc:30-191).
ReadsInBounds == offset <= frame.len

\* The function returns, although its loop over VLAN tags tests something that
\* its body does not change (flow.cc:105).
Returns == <>(pc = "done")

\* Every way out frees proto, except the one for a whole ICMP header: it
\* returns first and frees never (flow.cc:162-163).
LeaksOnICMPOnly ==
  pc = "done" /\ ~freed =>
    /\ EthType(frame) = "ip" /\ frame.proto = "icmp" /\ ~frame.fragment
    /\ frame.len >= Size["eth"] + Size["ip"] + Size["icmp"]

\* the bytes of an untagged Ethernet II frame up to the end of its IP header
WithIP == Size["eth"] + Size["ip"]

\* A frame without tags is parsed as far as it goes: the addresses are set if
\* and only if the whole IP or ARP header was captured, the ports if and only
\* if the whole transport header of an unfragmented packet was.
UntaggedParsedFully ==
  pc = "done" /\ frame.framing = "II" /\ frame.tags = 0 =>
    /\ "nw_src" \in match <=>
         \/ frame.payload = "arp" /\ frame.len >= Size["eth"] + Size["arp"]
         \/ frame.payload = "ip" /\ frame.len >= WithIP
    /\ "tp_src" \in match <=>
         /\ frame.payload = "ip" /\ ~frame.fragment /\ frame.proto # "other"
         /\ frame.len >= WithIP + Size[frame.proto]

\* "skip through rest of VLAN tags" (flow.cc:104): a tagged frame's network
\* header is parsed like that of any other.
TagsSkipped ==
  pc = "done" /\ frame.framing = "II" /\ frame.tags > 0 /\ frame.payload = "ip"
  /\ frame.len >= WithIP + frame.tags * Size["vlan"]
    => "nw_src" \in match

=============================================================================
