------------------------- MODULE ExampleSwitchProofs -------------------------
(***************************************************************************)
(* The parts of the example switch around its datapath.                    *)
(*                                                                         *)
(* Matching (examples/switch/flow.hh, flow.cc): the matching functions     *)
(* mean what FlowMatchCheck says they mean, for every set of fields,       *)
(* values, address bits and masks.  extract_flow_fields never reads past   *)
(* the captured bytes, parses frames without tags as far as they go and    *)
(* leaks on one path only, for frames of every length and with any number  *)
(* of VLAN tags.                                                           *)
(*                                                                         *)
(* The OpenFlow client (examples/switch/client): it has one connection and *)
(* takes it for dead only when it is, for every number of connections,     *)
(* messages and versions.                                                  *)
(***************************************************************************)
EXTENDS FlowMatchCheck, ExtractFields, OFClient, SequenceTheorems, TLAPS

-----------------------------------------------------------------------------
(* Flows and packets *)

\* An address is among those it stands for, whatever the mask (flow.hh:146).
LEMMA OwnAddress ==
  ASSUME NEW a \in Address, NEW am
  PROVE  a \in Addresses(a, am)
  BY DEF Addresses

\* The packet formula pkt_nw is membership in the addresses of the pair.
LEMMA PacketAddress ==
  ASSUME NEW a \in Address, NEW p \in Address, NEW am \in Address
  PROVE  pkt_nw(a, p, am) <=> p \in Addresses(a, am)
  BY DEF pkt_nw, BitNot, BitXor, Addresses, Address

\* The non-strict formula nonstrict_nw is inclusion (flow.hh:99).
LEMMA NestedAddresses ==
  ASSUME NEW a \in Address, NEW b \in Address,
         NEW am \in Address, NEW bm \in Address
  PROVE  nonstrict_nw(a, b, am, bm)
           <=> Addresses(b, bm) \subseteq Addresses(a, am)
<1> DEFINE Agree == \A i \in Bits \ am : i \notin bm /\ (i \in a <=> i \in b)
<1>1. nonstrict_nw(a, b, am, bm) <=> Agree
  BY DEF nonstrict_nw, BitNot, Address
<1>2. ASSUME Agree
      PROVE  Addresses(b, bm) \subseteq Addresses(a, am)
  BY <1>2 DEF Addresses
<1>3. ASSUME Addresses(b, bm) \subseteq Addresses(a, am)
      PROVE  Agree
  <2> TAKE i \in Bits \ am
  <2>1. i \in a <=> i \in b
    BY <1>3, OwnAddress DEF Addresses
  <2>2. i \notin bm
    <3> SUFFICES ASSUME i \in bm PROVE FALSE
      OBVIOUS
    <3> DEFINE flipped == IF i \in a THEN b \ {i} ELSE b \cup {i}
    <3>1. flipped \in Addresses(b, bm)
      BY DEF Addresses, Address
    <3>2. flipped \notin Addresses(a, am)
      BY DEF Addresses
    <3> QED BY <3>1, <3>2, <1>3
  <2> QED BY <2>1, <2>2
<1> QED BY <1>1, <1>2, <1>3

\* The strict formula strict_nw is equality of the addresses (flow.hh:41).
LEMMA EqualAddresses ==
  ASSUME NEW a \in Address, NEW b \in Address,
         NEW am \in Address, NEW bm \in Address
  PROVE  strict_nw(a, b, am, bm) <=> Addresses(a, am) = Addresses(b, bm)
<1>1. ASSUME strict_nw(a, b, am, bm)
      PROVE  Addresses(a, am) = Addresses(b, bm)
  BY <1>1 DEF strict_nw, BitNot, BitXor, Addresses, Address
<1>2. ASSUME Addresses(a, am) = Addresses(b, bm)
      PROVE  strict_nw(a, b, am, bm)
  <2>1. nonstrict_nw(a, b, am, bm) /\ nonstrict_nw(b, a, bm, am)
    BY <1>2, NestedAddresses
  <2>2. am = bm
    BY <2>1 DEF nonstrict_nw, BitNot, Address
  <2> QED BY <2>1, <2>2 DEF nonstrict_nw, strict_nw, BitNot, BitXor, Address
<1> QED BY <1>1, <1>2

-----------------------------------------------------------------------------
\* The state is a pair of rules for ever.
LEMMA RulesStay == FSpec => [](x \in Rule /\ y \in Rule)
<1>1. FInit => x \in Rule /\ y \in Rule
  BY DEF FInit
<1>2. x \in Rule /\ y \in Rule /\ [FNext]_<<x, y>>
        => (x \in Rule /\ y \in Rule)'
  BY DEF FNext
<1> QED BY <1>1, <1>2, PTL DEF FSpec

\* What a rule is made of.
LEMMA RuleParts ==
  ASSUME NEW r \in Rule
  PROVE  /\ r.match.val \in [Fields -> Values]
         /\ r.match.nw_src \in Address /\ r.match.nw_dst \in Address
         /\ r.nw_src_mask \in Address /\ r.nw_dst_mask \in Address
  BY MasksAssumption DEF Rule, Match

\* nonstrict_nw is containment of addresses for every width and every mask
\* (flow.hh:99).
THEOREM AddressesAlwaysNest == FSpec => []AddressesNest
<1>1. x \in Rule /\ y \in Rule => AddressesNest
  BY RuleParts, NestedAddresses DEF AddressesNest
<1> QED BY <1>1, RulesStay, PTL

\* strict_nw is equality of addresses for every width and every mask
\* (flow.hh:41).
THEOREM AddressesAlwaysEqual == FSpec => []AddressesEqual
<1>1. x \in Rule /\ y \in Rule => AddressesEqual
  BY RuleParts, EqualAddresses DEF AddressesEqual
<1> QED BY <1>1, RulesStay, PTL

\* A delete reaches every rule that its match contains (flow.hh:104): the
\* packet that holds the contained rule's own values settles the fields, the
\* packets with its other addresses the masks.
THEOREM DeleteReachesContained == FSpec => []ContainedMatches
<1>1. ASSUME x \in Rule, y \in Rule, Contains(x, y)
      PROVE  non_strict_match(x, y)
  <2> DEFINE pkt(s, d) ==
        [val |-> y.match.val, wild |-> {}, nw_src |-> s, nw_dst |-> d]
  <2>1. ASSUME NEW s \in Addresses(y.match.nw_src, y.nw_src_mask),
               NEW d \in Addresses(y.match.nw_dst, y.nw_dst_mask)
        PROVE  Accepts(x, pkt(s, d))
    <3>1. pkt(s, d) \in Packet
      BY <1>1, RuleParts DEF Packet, Addresses
    <3>2. Accepts(y, pkt(s, d))
      BY DEF Accepts
    <3> QED BY <1>1, <3>1, <3>2 DEF Contains
  <2>2. /\ y.match.nw_src \in Addresses(y.match.nw_src, y.nw_src_mask)
        /\ y.match.nw_dst \in Addresses(y.match.nw_dst, y.nw_dst_mask)
    BY <1>1, RuleParts, OwnAddress
  <2>3. \A f \in Fields : nonstrict_wild(x.match, y.match, f)
    BY <2>1, <2>2 DEF Accepts, nonstrict_wild, wc, Complement
  <2>4. nonstrict_nw(x.match.nw_src, y.match.nw_src, x.nw_src_mask, y.nw_src_mask)
    <3>1. Addresses(y.match.nw_src, y.nw_src_mask)
            \subseteq Addresses(x.match.nw_src, x.nw_src_mask)
      BY <2>1, <2>2 DEF Accepts
    <3> QED BY <1>1, <3>1, RuleParts, NestedAddresses
  <2>5. nonstrict_nw(x.match.nw_dst, y.match.nw_dst, x.nw_dst_mask, y.nw_dst_mask)
    <3>1. Addresses(y.match.nw_dst, y.nw_dst_mask)
            \subseteq Addresses(x.match.nw_dst, x.nw_dst_mask)
      BY <2>1, <2>2 DEF Accepts
    <3> QED BY <1>1, <3>1, RuleParts, NestedAddresses
  <2> QED BY <2>3, <2>4, <2>5 DEF non_strict_match, match_std_nonstrict
<1>2. x \in Rule /\ y \in Rule => ContainedMatches
  BY <1>1 DEF ContainedMatches
<1> QED BY <1>2, RulesStay, PTL

\* Matching a packet is what the rule says, and the same as containing the
\* rule of that packet (flow.hh:146, 99).
THEOREM PacketMatchAlwaysAgrees == FSpec => []PacketMatchAgrees
<1>1. ASSUME x \in Rule, NEW p \in Packet
      PROVE  /\ pkt_match(x, p) <=> Accepts(x, p)
             /\ pkt_match(x, p) <=> non_strict_match(x, ExactRule(p, x.priority))
  <2>1. p.nw_src \in Address /\ p.nw_dst \in Address /\ p.wild = {}
    BY DEF Packet
  <2>2. /\ x.match.nw_src \in Address /\ x.match.nw_dst \in Address
        /\ x.nw_src_mask \in Address /\ x.nw_dst_mask \in Address
    BY <1>1, RuleParts
  <2>3. pkt_match(x, p) <=> Accepts(x, p)
    <3>1. \A f \in Fields : pkt_wild(x.match, p, f)
            <=> (f \in x.match.wild \/ x.match.val[f] = p.val[f])
      BY DEF pkt_wild, wc
    <3> QED BY <2>1, <2>2, <3>1, PacketAddress
            DEF pkt_match, match_std_pkt, Accepts
  <2>4. \A f \in Fields : pkt_wild(x.match, p, f) <=> nonstrict_wild(x.match, p, f)
    BY <2>1 DEF pkt_wild, nonstrict_wild, wc, Complement
  <2>5. ASSUME NEW a \in Address, NEW b \in Address, NEW am \in Address
        PROVE  pkt_nw(a, b, am) <=> nonstrict_nw(a, b, am, {})
    BY DEF pkt_nw, nonstrict_nw, BitNot, BitXor, Address
  <2>6. /\ ExactRule(p, x.priority).match = p
        /\ ExactRule(p, x.priority).nw_src_mask = {}
        /\ ExactRule(p, x.priority).nw_dst_mask = {}
    BY DEF ExactRule
  <2>7. pkt_match(x, p) <=> non_strict_match(x, ExactRule(p, x.priority))
    BY <2>1, <2>2, <2>4, <2>5, <2>6
       DEF pkt_match, match_std_pkt, non_strict_match, match_std_nonstrict
  <2> QED BY <2>3, <2>7
<1>2. x \in Rule /\ y \in Rule => PacketMatchAgrees
  BY <1>1 DEF PacketMatchAgrees
<1> QED BY <1>2, RulesStay, PTL

-----------------------------------------------------------------------------
(* Parsing a frame *)

Headers == {"eth", "llc", "snap", "vlan", "arp", "ip", "icmp", "tcp", "udp"}

\* The sizes of the headers are natural numbers.
LEMMA SizesAreNat == \A h \in Headers : Size[h] \in Nat
  BY DEF Size, Headers

\* A header is parsed only where the captured bytes hold all of it.
LEMMA ParseInBounds ==
  ASSUME FrameTypeOK, ReadsInBounds, NEW h \in Headers,
         NEW fields \in SUBSET MatchFields, Parse(h, fields)
  PROVE  /\ frame' = frame
         /\ match' \subseteq MatchFields
         /\ offset' \in 0..MaxLen
         /\ offset' <= frame.len
<1>1. frame.len \in 0..MaxLen
  BY DEF FrameTypeOK, Frame
<1>2. Size[h] \in Nat
  BY SizesAreNat
<1> QED
  BY <1>1, <1>2, LenAssumption DEF Parse, CutOff, FrameTypeOK, ReadsInBounds

\* Returning at a header that is cut off leaves everything as it is.
LEMMA ReturnKeeps ==
  ASSUME NEW h, ReturnCutOff(h)
  PROVE  UNCHANGED <<frame, offset, match>> /\ pc' = "done" /\ freed' = TRUE
  BY DEF ReturnCutOff, Return

\* The inductive step, header by header.
LEMMA ParsingStep ==
  FrameTypeOK /\ ReadsInBounds /\ [FrameNext]_frameVars => FrameTypeOK' /\ ReadsInBounds'
<1> SUFFICES ASSUME FrameTypeOK, ReadsInBounds, [FrameNext]_frameVars
             PROVE  FrameTypeOK' /\ ReadsInBounds'
  OBVIOUS
<1>1. /\ {"dl_src", "dl_dst", "dl_type"} \in SUBSET MatchFields
      /\ {"dl_src", "dl_type"} \in SUBSET MatchFields
      /\ {} \in SUBSET MatchFields
      /\ {"dl_vlan", "dl_vlan_pcp", "dl_type"} \in SUBSET MatchFields
      /\ "dl_vlan" \in MatchFields
      /\ {"dl_type"} \in SUBSET MatchFields
      /\ {"nw_src", "nw_dst", "nw_proto"} \in SUBSET MatchFields
      /\ {"nw_src", "nw_dst", "nw_proto", "nw_tos"} \in SUBSET MatchFields
      /\ {"tp_src", "tp_dst"} \in SUBSET MatchFields
  BY DEF MatchFields
<1>2. ASSUME NEW h \in Headers, ReturnCutOff(h)
      PROVE  FrameTypeOK' /\ ReadsInBounds'
  BY <1>2, ReturnKeeps DEF FrameTypeOK, ReadsInBounds
<1>3. ASSUME NEW h \in Headers, NEW fields \in SUBSET MatchFields,
             Parse(h, fields),
             \/ pc' \in {"llc", "snap", "vlan", "tags", "arp", "ip", "transport"}
                /\ UNCHANGED freed
             \/ pc' = pc /\ UNCHANGED freed
             \/ Return(TRUE)
             \/ Return(FALSE)
      PROVE  FrameTypeOK' /\ ReadsInBounds'
  BY <1>3, ParseInBounds DEF FrameTypeOK, ReadsInBounds, Return
<1> USE DEF Headers
<1>4. CASE Ethernet
  BY <1>1, <1>2, <1>3, <1>4 DEF Ethernet
<1>5. CASE Llc
  BY <1>1, <1>2, <1>3, <1>5 DEF Llc
<1>6. CASE Snap
  BY <1>1, <1>2, <1>3, <1>6 DEF Snap
<1>7. CASE Vlan
  <2>1. CASE match' = match \cup {"dl_vlan"} /\ pc' = "tags"
             /\ UNCHANGED <<frame, offset, freed>>
    BY <1>1, <2>1 DEF FrameTypeOK, ReadsInBounds
  <2> QED BY <1>1, <1>2, <1>3, <1>7, <2>1 DEF Vlan
<1>8. CASE SkipTags
  <2>1. CASE pc' = "arp" /\ UNCHANGED <<frame, offset, match, freed>>
    BY <2>1 DEF FrameTypeOK, ReadsInBounds
  <2> QED BY <1>1, <1>2, <1>3, <1>8, <2>1 DEF SkipTags
<1>9. CASE Arp
  <2>1. CASE pc' = "ip" /\ UNCHANGED <<frame, offset, match, freed>>
    BY <2>1 DEF FrameTypeOK, ReadsInBounds
  <2> QED BY <1>1, <1>2, <1>3, <1>9, <2>1 DEF Arp
<1>10. CASE Ip
  <2>1. CASE Return(TRUE) /\ UNCHANGED <<frame, offset, match>>
    BY <2>1 DEF FrameTypeOK, ReadsInBounds, Return
  <2> QED BY <1>1, <1>2, <1>3, <1>10, <2>1 DEF Ip
<1>11. CASE Transport
  <2>1. CASE Return(TRUE) /\ UNCHANGED <<frame, offset, match>>
    BY <2>1 DEF FrameTypeOK, ReadsInBounds, Return
  <2>2. CASE frame.proto # "other" /\ ReturnCutOff(frame.proto)
    BY <1>2, <2>2 DEF FrameTypeOK, Frame
  <2>3. CASE /\ frame.proto # "other"
             /\ Parse(frame.proto, {"tp_src", "tp_dst"})
             /\ Return(frame.proto # "icmp")
    <3>1. frame.proto \in Headers
      BY <2>3 DEF FrameTypeOK, Frame
    <3>2. Return(TRUE) \/ Return(FALSE)
      BY <2>3
    <3> QED BY <1>1, <1>3, <2>3, <3>1, <3>2
  <2> QED BY <1>11, <2>1, <2>2, <2>3 DEF Transport
<1>12. CASE UNCHANGED frameVars
  BY <1>12 DEF frameVars, FrameTypeOK, ReadsInBounds
<1> QED
  BY <1>4, <1>5, <1>6, <1>7, <1>8, <1>9, <1>10, <1>11, <1>12 DEF FrameNext

\* No byte past the captured ones is read, for frames of any length and with
\* any number of tags (flow.cc:22-194).
THEOREM ReadsAlwaysInBounds == FrameSpec => [](FrameTypeOK /\ ReadsInBounds)
<1>1. FrameInit => FrameTypeOK /\ ReadsInBounds
  <2> SUFFICES ASSUME FrameInit PROVE FrameTypeOK /\ ReadsInBounds
    OBVIOUS
  <2>1. frame.len \in 0..MaxLen
    BY DEF FrameInit, Frame
  <2>2. offset = 0 /\ offset \in 0..MaxLen /\ offset <= frame.len
    BY <2>1, LenAssumption DEF FrameInit
  <2>3. match \subseteq MatchFields
    BY DEF FrameInit
  <2> QED BY <2>2, <2>3 DEF FrameInit, FrameTypeOK, ReadsInBounds
<1> QED BY <1>1, ParsingStep, PTL DEF FrameSpec

-----------------------------------------------------------------------------
(* What is parsed of a frame without tags, and the path that leaks *)

Untagged == frame.framing = "II" /\ frame.tags = 0

\* The bytes parsed and the fields set before each header of a frame without
\* tags.
UntaggedInv ==
  Untagged =>
    /\ pc \notin {"llc", "snap"}
    /\ pc = "eth" => offset = 0
    /\ pc \in {"vlan", "tags", "arp", "ip"} => offset = Size["eth"]
    /\ pc \in {"eth", "vlan", "tags", "arp", "ip"} =>
         "nw_src" \notin match /\ "tp_src" \notin match
    /\ pc = "ip" => frame.payload # "arp"
    /\ pc = "transport" =>
         /\ offset = WithIP /\ frame.payload = "ip" /\ ~frame.fragment
         /\ "nw_src" \in match /\ "tp_src" \notin match

\* Only a frame without tags comes to the transport header.
TransportInv ==
  pc = "transport" => EthType(frame) = "ip" /\ ~frame.fragment

ParsedInv == UntaggedInv /\ TransportInv /\ UntaggedParsedFully /\ LeaksOnICMPOnly

\* The Ethernet type is the payload's for a frame without tags, and only then.
LEMMA TypeOfFrame ==
  ASSUME frame \in Frame
  PROVE  /\ Untagged => EthType(frame) = frame.payload
         /\ EthType(frame) \in {"arp", "ip"} => Untagged
         /\ EthType(frame) = "vlan" => ~Untagged
         /\ frame.payload \in {"arp", "ip", "other"}
<1>1. frame.tags \in Nat /\ frame.payload \in {"arp", "ip", "other"}
  BY LenAssumption DEF Frame
<1>2. CASE frame.framing # "II"
  BY <1>1, <1>2 DEF EthType, Untagged
<1>3. CASE frame.framing = "II" /\ frame.tags > 0
  BY <1>1, <1>3 DEF EthType, Untagged
<1>4. CASE frame.framing = "II" /\ frame.tags = 0
  BY <1>1, <1>4 DEF EthType, Untagged
<1> QED BY <1>1, <1>2, <1>3, <1>4

\* Up to the end of an untagged frame's IP header its fields are set one after
\* the other; a return in between leaves the rest unset.
LEMMA ParsedStep ==
  FrameTypeOK /\ ReadsInBounds /\ ParsedInv /\ [FrameNext]_frameVars => ParsedInv'
<1> SUFFICES ASSUME FrameTypeOK, ReadsInBounds, ParsedInv, [FrameNext]_frameVars
             PROVE  ParsedInv'
  OBVIOUS
<1>1. /\ frame.len \in Nat /\ offset \in Nat
      /\ frame.proto \in {"icmp", "tcp", "udp", "other"}
      /\ frame \in Frame
  BY LenAssumption DEF FrameTypeOK, Frame
<1>2. /\ Untagged => EthType(frame) = frame.payload
      /\ EthType(frame) \in {"arp", "ip"} => Untagged
      /\ EthType(frame) = "vlan" => ~Untagged
      /\ frame.payload \in {"arp", "ip", "other"}
  BY <1>1, TypeOfFrame
<1> USE <1>1, <1>2 DEF ParsedInv, Untagged, CutOff, Size, WithIP, Return, Parse, ReturnCutOff
<1>3. CASE Ethernet
  BY <1>3 DEF Ethernet, UntaggedInv, TransportInv, UntaggedParsedFully, LeaksOnICMPOnly
<1>4. CASE Llc
  BY <1>4 DEF Llc, UntaggedInv, TransportInv, UntaggedParsedFully, LeaksOnICMPOnly
<1>5. CASE Snap
  BY <1>5 DEF Snap, UntaggedInv, TransportInv, UntaggedParsedFully, LeaksOnICMPOnly
<1>6. CASE Vlan
  BY <1>6 DEF Vlan, UntaggedInv, TransportInv, UntaggedParsedFully, LeaksOnICMPOnly
<1>7. CASE SkipTags
  BY <1>7 DEF SkipTags, UntaggedInv, TransportInv, UntaggedParsedFully, LeaksOnICMPOnly
<1>8. CASE Arp
  BY <1>8 DEF Arp, UntaggedInv, TransportInv, UntaggedParsedFully, LeaksOnICMPOnly
<1>9. CASE Ip
  BY <1>9 DEF Ip, UntaggedInv, TransportInv, UntaggedParsedFully, LeaksOnICMPOnly
<1>10. CASE Transport
  <2>1. /\ EthType(frame) = "ip" /\ ~frame.fragment /\ Untagged
        /\ frame.payload = "ip" /\ offset = 34
        /\ "nw_src" \in match /\ "tp_src" \notin match
    BY <1>10 DEF Transport, UntaggedInv, TransportInv
  <2>2. frame.len >= 34 /\ frame' = frame /\ pc' = "done"
    BY <1>10, <2>1 DEF Transport, ReadsInBounds
  <2>3. UntaggedInv' /\ TransportInv'
    BY <2>2 DEF UntaggedInv, TransportInv
  <2>4. CASE frame.proto = "other"
    <3>1. match' = match /\ freed' = TRUE
      BY <1>10, <2>4 DEF Transport
    <3> QED BY <2>1, <2>2, <2>3, <2>4, <3>1 DEF UntaggedParsedFully, LeaksOnICMPOnly
  <2>5. CASE frame.proto # "other" /\ CutOff(frame.proto)
    <3>1. match' = match /\ freed' = TRUE
      BY <1>10, <2>5 DEF Transport
    <3>2. frame.len < 34 + Size[frame.proto]
      BY <2>1, <2>5
    <3>3. ~(frame.len >= 34 + Size[frame.proto])
      BY <3>2, <2>5
    <3> QED BY <2>1, <2>2, <2>3, <3>1, <3>3 DEF UntaggedParsedFully, LeaksOnICMPOnly
  <2>6. CASE frame.proto # "other" /\ ~CutOff(frame.proto)
    <3>1. /\ match' = match \cup {"tp_src", "tp_dst"}
          /\ freed' = (frame.proto # "icmp")
      BY <1>10, <2>6 DEF Transport
    <3>2. frame.len >= 34 + Size[frame.proto]
      BY <2>1, <2>6
    <3>3. UntaggedParsedFully'
      BY <2>1, <2>2, <2>6, <3>1, <3>2 DEF UntaggedParsedFully
    <3>4. ~freed' => frame.proto = "icmp" /\ frame.len >= 38
      <4>1. ASSUME ~freed' PROVE frame.proto = "icmp"
        BY <3>1, <4>1, Zenon
      <4> QED BY <3>2, <4>1
    <3>5. LeaksOnICMPOnly'
      BY <2>1, <2>2, <3>4 DEF LeaksOnICMPOnly
    <3> QED BY <2>3, <3>3, <3>5
  <2> QED BY <2>4, <2>5, <2>6
<1>11. CASE UNCHANGED frameVars
  BY <1>11 DEF frameVars, UntaggedInv, TransportInv, UntaggedParsedFully, LeaksOnICMPOnly
<1> QED
  BY <1>3, <1>4, <1>5, <1>6, <1>7, <1>8, <1>9, <1>10, <1>11 DEF FrameNext

\* The fields of a frame without tags and the leak, together.
LEMMA ParsedAlways == FrameSpec => []ParsedInv
<1>1. FrameInit => ParsedInv
  BY DEF FrameInit, ParsedInv, UntaggedInv, TransportInv, UntaggedParsedFully,
         LeaksOnICMPOnly
<1>2. FrameSpec => [](FrameTypeOK /\ ReadsInBounds)
  BY ReadsAlwaysInBounds
<1> QED BY <1>1, <1>2, ParsedStep, PTL DEF FrameSpec

\* Only the path of a whole ICMP header returns without freeing proto
\* (flow.cc:162-163), whatever the frame.
THEOREM LeakOnlyOnICMP == FrameSpec => []LeaksOnICMPOnly
  BY ParsedAlways, PTL DEF ParsedInv

\* Of a frame without tags the addresses and ports are set if and only if
\* their headers were captured whole (flow.cc:109-191).
THEOREM UntaggedAlwaysParsed == FrameSpec => []UntaggedParsedFully
  BY ParsedAlways, PTL DEF ParsedInv

-----------------------------------------------------------------------------
(* The client *)

\* The parts of a queue that is not empty.
LEMMA HeadTail ==
  ASSUME NEW S, NEW s \in Seq(S), s # <<>>
  PROVE  /\ Head(s) = s[1] /\ Head(s) \in S
         /\ Tail(s) \in Seq(S)
         /\ Len(s) \in Nat \ {0}
         /\ DOMAIN Tail(s) = 1..(Len(s) - 1)
         /\ \A k \in 1..(Len(s) - 1) : Tail(s)[k] = s[k + 1]
  OBVIOUS

\* Before it is started the client has made no connection and tries to make
\* none: what Start needs, since it starts a thread that makes one.
NothingMade == main = "new" => made = 0 /\ connector = "none"

CInv == TypeOK /\ NothingMade /\ OneConnection

\* what a step of the controller or the receipt of a message leaves alone
LEMMA SameConnections ==
  ASSUME CInv, UNCHANGED <<main, loop, connector, made, phase, conn>>,
         link' \in [Ids -> {"open", "silent", "reset"}],
         toSw' \in [Ids -> Seq(Message)],
         state' \in [Ids -> {"started", "running", "failed", "dead"}],
         alive' \in [Ids -> BOOLEAN],
         timers' \in [Ids -> Nat],
         echo' \in [Ids -> BOOLEAN]
  PROVE  CInv'
  BY DEF CInv, TypeOK, NothingMade, OneConnection

\* Closing the connection conn points to leaves nothing live that was not
\* live before, and does not bring a connection into being.
LEMMA ClosingProperties ==
  ASSUME TypeOK, NEW j \in 0..MaxConns
  PROVE  /\ Closing(j) \in [Ids -> {"none", "new", "up", "down", "closing", "deleted"}]
         /\ \A i \in Ids : /\ Closing(j)[i] = "none" <=> phase[i] = "none"
                           /\ Closing(j)[i] \in {"new", "up"} =>
                                Closing(j)[i] = phase[i] /\ i # j
  BY ClientAssumption DEF TypeOK, Closing, Ids

\* The invariant holds before the client is started.
LEMMA InitCInv == Init => CInv
<1> SUFFICES ASSUME Init PROVE CInv
  OBVIOUS
<1>1. TypeOK
  <2>1. /\ made \in 0..MaxConns /\ conn \in 0..made
        /\ \A i \in Ids : phase[i] = "none" <=> i > made
    BY ClientAssumption DEF Init, Ids
  <2>2. toSw \in [Ids -> Seq(Message)]
    BY DEF Init
  <2> QED
    BY <2>1, <2>2 DEF Init, TypeOK
<1>2. NothingMade /\ OneConnection
  BY DEF Init, NothingMade, OneConnection
<1> QED
  BY <1>1, <1>2 DEF CInv

-----------------------------------------------------------------------------
(* The threads *)

\* The steps of main keep the invariant.
LEMMA MainCInv ==
  ASSUME CInv, Start \/ StopConn \/ CancelConnector \/ StopLoop
  PROVE  CInv'
<1> USE DEF CInv, cvars
<1>1. CASE Start
  <2>1. \A i \in Ids : phase[i] = "none"
    BY <1>1 DEF Start, NothingMade, TypeOK, Ids
  <2> QED
    BY <1>1, <2>1 DEF Start, TypeOK, NothingMade, OneConnection
<1>2. CASE StopConn
  <2>1. conn \in 0..MaxConns
    BY ClientAssumption DEF TypeOK
  <2>2. /\ phase' \in [Ids -> {"none", "new", "up", "down", "closing", "deleted"}]
        /\ \A i \in Ids : /\ phase'[i] = "none" <=> phase[i] = "none"
                          /\ phase'[i] \in {"new", "up"} => phase'[i] = phase[i]
    BY <1>2, <2>1, ClosingProperties DEF StopConn
  <2> QED
    BY <1>2, <2>2 DEF StopConn, TypeOK, NothingMade, OneConnection
<1>3. CASE CancelConnector
  BY <1>3 DEF CancelConnector, TypeOK, NothingMade, OneConnection
<1>4. CASE StopLoop
  BY <1>4 DEF StopLoop, TypeOK, NothingMade, OneConnection
<1> QED
  BY <1>1, <1>2, <1>3, <1>4

\* A connection is only made while a thread is trying, and then none is live.
LEMMA TryConnectCInv ==
  ASSUME CInv, TryConnect
  PROVE  CInv'
<1> USE DEF CInv
<1>1. /\ made' = made + 1 /\ made' \in Ids /\ made \in Nat
      /\ phase' = [phase EXCEPT ![made'] = "new"]
  BY ClientAssumption DEF TryConnect, TypeOK, Ids
<1>2. \A i \in Ids : phase[i] \notin {"new", "up"}
  BY DEF TryConnect, OneConnection
<1>3. \A i \in Ids : phase'[i] = IF i = made' THEN "new" ELSE phase[i]
  BY <1>1 DEF TypeOK
<1>4. TypeOK'
  <2>1. phase' \in [Ids -> {"none", "new", "up", "down", "closing", "deleted"}]
    BY <1>1 DEF TypeOK
  <2>2. \A i \in Ids : phase'[i] = "none" <=> i > made'
    BY <1>1, <1>3 DEF TypeOK, Ids
  <2>3. made' \in 0..MaxConns /\ conn' \in 0..made'
    BY <1>1, ClientAssumption DEF TryConnect, TypeOK, Ids
  <2> QED
    BY <2>1, <2>2, <2>3 DEF TryConnect, TypeOK
<1>5. OneConnection'
  BY <1>1, <1>2, <1>3 DEF TryConnect, OneConnection
<1>6. NothingMade'
  <2>1. main # "new"
    BY DEF TryConnect, NothingMade
  <2> QED
    BY <2>1 DEF TryConnect, NothingMade
<1> QED
  BY <1>4, <1>5, <1>6

(* The controller at the other end *)

\* What the controller sends is queued, and nothing else changes.
LEMMA ControllerTypes ==
  ASSUME TypeOK, NEW i \in Ids, NEW msg \in Message, Controller(i, msg)
  PROVE  /\ toSw' \in [Ids -> Seq(Message)]
         /\ toSw' = [toSw EXCEPT ![i] = Append(toSw[i], msg)]
         /\ UNCHANGED <<main, loop, connector, made, phase, link, state, alive,
                        timers, conn>>
<1>1. toSw[i] \in Seq(Message) /\ Append(toSw[i], msg) \in Seq(Message)
  BY DEF TypeOK
<1> QED
  BY <1>1 DEF Controller, TypeOK

\* Whatever the controller does keeps the invariant.
LEMMA PeerCInv ==
  ASSUME CInv, NEW i \in Ids, PeerStep(i)
  PROVE  CInv'
<1>0. TypeOK
  BY DEF CInv
<1>1. CASE SendHello(i)
  <2>1. PICK v \in Versions : Controller(i, [type |-> "hello", version |-> v])
    BY <1>1 DEF SendHello
  <2>2. [type |-> "hello", version |-> v] \in Message
    BY DEF Message
  <2> QED
    BY <1>0, <1>1, <2>1, <2>2, ControllerTypes, SameConnections DEF SendHello, TypeOK
<1>2. ASSUME NEW msg \in Message, Controller(i, msg), echo' \in [Ids -> BOOLEAN]
      PROVE  CInv'
  BY <1>0, <1>2, ControllerTypes, SameConnections DEF TypeOK
<1>3. /\ [type |-> "features_request"] \in Message
      /\ [type |-> "echo_request"] \in Message
      /\ [type |-> "echo_reply"] \in Message
  BY DEF Message
<1>4. CASE AskFeatures(i)
  BY <1>0, <1>2, <1>3, <1>4 DEF AskFeatures, TypeOK
<1>5. CASE AskEcho(i)
  BY <1>0, <1>2, <1>3, <1>5 DEF AskEcho, TypeOK
<1>6. CASE AnswerEcho(i)
  BY <1>0, <1>2, <1>3, <1>6 DEF AnswerEcho, TypeOK
<1>7. CASE Fails(i, "silent") \/ Fails(i, "reset")
  BY <1>0, <1>7, SameConnections DEF Fails, TypeOK
<1> QED
  BY <1>1, <1>4, <1>5, <1>6, <1>7 DEF PeerStep

-----------------------------------------------------------------------------
(* The event loop *)

\* A message that is received leaves its queue, on a connection that is up.
LEMMA ReceiveTypes ==
  ASSUME TypeOK, NEW i \in Ids, NEW type, Receive(i, type)
  PROVE  /\ toSw' \in [Ids -> Seq(Message)]
         /\ toSw' = [toSw EXCEPT ![i] = Tail(toSw[i])]
         /\ toSw[i] \in Seq(Message) /\ toSw[i] # <<>> /\ toSw[i][1].type = type
         /\ phase[i] = "up"
         /\ UNCHANGED <<main, loop, connector, made, link, conn, echo>>
<1>1. toSw[i] \in Seq(Message) /\ toSw[i] # <<>>
  BY DEF TypeOK, Receive
<1> QED
  BY <1>1, HeadTail DEF Receive, TypeOK

\* A step that ends connection i, and nothing else, keeps the one connection.
LEMMA EndsCInv ==
  ASSUME CInv, NEW i \in Ids, NEW p \in {"down", "closing", "deleted"},
         phase[i] # "none", phase' = [phase EXCEPT ![i] = p],
         UNCHANGED <<main, loop, made, conn, link, echo, alive>>,
         connector' = connector,
         toSw' \in [Ids -> Seq(Message)],
         state' \in [Ids -> {"started", "running", "failed", "dead"}],
         timers' \in [Ids -> Nat]
  PROVE  CInv'
<1> USE DEF CInv
<1>1. \A j \in Ids : phase'[j] = IF j = i THEN p ELSE phase[j]
  BY DEF TypeOK
<1>2. TypeOK'
  <2>1. phase' \in [Ids -> {"none", "new", "up", "down", "closing", "deleted"}]
    BY DEF TypeOK
  <2>2. \A j \in Ids : phase'[j] = "none" <=> j > made'
    BY <1>1 DEF TypeOK
  <2> QED
    BY <2>1, <2>2 DEF TypeOK
<1>3. NothingMade' /\ OneConnection'
  BY <1>1 DEF NothingMade, OneConnection
<1> QED
  BY <1>2, <1>3

\* The handlers of messages keep the invariant.
LEMMA MessageCInv ==
  ASSUME CInv, NEW i \in Ids,
         EchoRequest(i) \/ Hello(i) \/ EchoReply(i) \/ FeaturesRequest(i)
  PROVE  CInv'
<1>0. TypeOK
  BY DEF CInv
<1>1. CASE EchoRequest(i)
  BY <1>0, <1>1, ReceiveTypes, SameConnections DEF EchoRequest, TypeOK
<1>2. CASE Hello(i)
  <2>1. /\ toSw' \in [Ids -> Seq(Message)] /\ phase[i] = "up"
        /\ UNCHANGED <<main, loop, connector, made, link, conn, echo, alive, timers>>
    BY <1>0, <1>2, ReceiveTypes DEF Hello
  <2>2. CASE UNCHANGED <<phase, state>>
    BY <1>0, <2>1, <2>2, SameConnections DEF TypeOK
  <2>3. CASE phase' = Closing(i) /\ state' = [state EXCEPT ![i] = "failed"]
    <3>1. phase' = [phase EXCEPT ![i] = "closing"]
      BY <2>1, <2>3, ClientAssumption DEF Closing, Ids
    <3>2. state' \in [Ids -> {"started", "running", "failed", "dead"}]
      BY <1>0, <2>3 DEF TypeOK
    <3> QED
      BY <1>0, <2>1, <3>1, <3>2, EndsCInv DEF TypeOK
  <2> QED
    BY <1>2, <2>2, <2>3 DEF Hello
<1>3. CASE EchoReply(i)
  BY <1>0, <1>3, ReceiveTypes, SameConnections DEF EchoReply, TypeOK
<1>4. CASE FeaturesRequest(i)
  BY <1>0, <1>4, ReceiveTypes, SameConnections DEF FeaturesRequest, TypeOK
<1> QED
  BY <1>1, <1>2, <1>3, <1>4

\* A connection comes up only while it is the only live one.
LEMMA UpCInv ==
  ASSUME CInv, NEW i \in Ids, Up(i)
  PROVE  CInv'
<1> USE DEF CInv
<1>1. \A j \in Ids : phase'[j] = IF j = i THEN "up" ELSE phase[j]
  BY DEF Up, TypeOK
<1>2. i = made /\ connector # "trying" /\ \A j \in Ids : phase[j] = "up" => j = made
  BY DEF Up, OneConnection
<1>3. TypeOK'
  <2>1. phase' \in [Ids -> {"none", "new", "up", "down", "closing", "deleted"}]
    BY DEF Up, TypeOK
  <2>2. \A j \in Ids : phase'[j] = "none" <=> j > made'
    BY <1>1 DEF Up, TypeOK
  <2>3. conn' \in 0..made'
    BY <1>2, ClientAssumption DEF Up, TypeOK, Ids
  <2> QED
    BY <2>1, <2>2, <2>3 DEF Up, TypeOK
<1>4. OneConnection'
  BY <1>1, <1>2 DEF Up, OneConnection
<1>5. NothingMade'
  BY DEF Up, NothingMade
<1> QED
  BY <1>3, <1>4, <1>5

\* So does the echo timer.
LEMMA SendEchoCInv ==
  ASSUME CInv, NEW i \in Ids, SendEcho(i)
  PROVE  CInv'
<1>0. TypeOK
  BY DEF CInv
<1>1. CASE phase' = [phase EXCEPT ![i] = "closing"] /\ state' = [state EXCEPT ![i] = "dead"]
           /\ UNCHANGED <<alive, echo>>
  <2>1. state' \in [Ids -> {"started", "running", "failed", "dead"}]
    BY <1>0, <1>1 DEF TypeOK
  <2> QED
    BY <1>0, <1>1, <2>1, EndsCInv DEF SendEcho, TypeOK
<1>2. CASE alive' = [alive EXCEPT ![i] = FALSE] /\ echo' = [echo EXCEPT ![i] = TRUE]
           /\ UNCHANGED <<phase, state>>
  <2>1. alive' \in [Ids -> BOOLEAN] /\ echo' \in [Ids -> BOOLEAN]
    BY <1>0, <1>2 DEF TypeOK
  <2> QED
    BY <1>0, <1>2, <2>1, SameConnections DEF SendEcho, TypeOK
<1> QED
  BY <1>1, <1>2 DEF SendEcho

\* EVENT_DOWN can only be that of the connection conn points to, so that one
\* is closed before the next thread tries to connect.
LEMMA DownCInv ==
  ASSUME CInv, NEW i \in Ids, Down(i)
  PROVE  CInv'
<1> USE DEF CInv
<1>1. i = conn /\ phase[i] = "up" /\ i = made
  BY DEF Down, OneConnection
<1>2. CASE Reconnects
  <2>1. phase' = [phase EXCEPT ![i] = "closing"] /\ connector' = "trying"
    BY <1>1, <1>2, ClientAssumption DEF Down, Reconnect, Closing, Ids
  <2>2. \A j \in Ids : phase'[j] = IF j = i THEN "closing" ELSE phase[j]
    BY <2>1 DEF TypeOK
  <2>3. TypeOK'
    <3>1. phase' \in [Ids -> {"none", "new", "up", "down", "closing", "deleted"}]
      BY <2>1 DEF TypeOK
    <3>2. \A j \in Ids : phase'[j] = "none" <=> j > made'
      BY <1>1, <2>2 DEF Down, TypeOK
    <3> QED
      BY <2>1, <3>1, <3>2 DEF Down, TypeOK
  <2>4. \A j \in Ids : phase'[j] \notin {"new", "up"}
    BY <1>1, <2>2 DEF OneConnection
  <2>5. main # "new"
    BY <1>1 DEF NothingMade, TypeOK, Ids
  <2> QED
    BY <2>3, <2>4, <2>5 DEF Down, OneConnection, NothingMade
<1>3. CASE ~Reconnects
  <2>1. phase' = [phase EXCEPT ![i] = "down"] /\ connector' = connector
    BY <1>3 DEF Down
  <2> QED
    BY <1>1, <2>1, EndsCInv DEF Down, TypeOK
<1> QED
  BY <1>2, <1>3

\* So does EVENT_CLOSED, on which the client reconnects.
LEMMA ClosedCInv ==
  ASSUME CInv, NEW i \in Ids, Closed(i)
  PROVE  CInv'
<1>1. /\ toSw' \in [Ids -> Seq(Message)]
      /\ timers' \in [Ids -> Nat]
  BY DEF Closed, CInv, TypeOK
<1> QED
  BY <1>1, EndsCInv DEF Closed, CInv, TypeOK

\* Every step keeps the invariant.
LEMMA NextCInv == CInv /\ [Next]_vars => CInv'
<1> SUFFICES ASSUME CInv, [Next]_vars PROVE CInv'
  OBVIOUS
<1>1. CASE UNCHANGED vars
  BY <1>1 DEF CInv, TypeOK, NothingMade, OneConnection, vars
<1>2. CASE Start \/ TryConnect \/ StopConn \/ CancelConnector \/ StopLoop
  BY <1>2, MainCInv, TryConnectCInv
<1>3. ASSUME NEW i \in Ids, LoopStep(i)
      PROVE  CInv'
  BY <1>3, UpCInv, MessageCInv, SendEchoCInv, DownCInv, ClosedCInv DEF LoopStep
<1>4. ASSUME NEW i \in Ids, PeerStep(i)
      PROVE  CInv'
  BY <1>4, PeerCInv
<1> QED
  BY <1>1, <1>2, <1>3, <1>4 DEF Next

\* The invariant always holds.
LEMMA CInvHolds == Spec => []CInv
<1>1. CInv /\ [Next]_vars => CInv'
  BY NextCInv
<1> QED
  BY InitCInv, <1>1, PTL DEF Spec

\* Every variable of the client has its type.
THEOREM ClientTypes == Spec => []TypeOK
<1>1. CInv => TypeOK
  BY DEF CInv
<1> QED
  BY CInvHolds, <1>1, PTL

\* The client has one live connection at most, none while another is being
\* made, and EVENT_DOWN is always passed on for the connection it belongs to,
\* however often it reconnects and whenever it is stopped.
THEOREM AlwaysOneConnection == Spec => []OneConnection
<1>1. CInv => OneConnection
  BY DEF CInv
<1> QED
  BY CInvHolds, <1>1, PTL

-----------------------------------------------------------------------------
(* A controller is taken for dead only while an answer of its is due.      *)

\* alive is false only between an echo request and its answer: either the
\* controller has still to give it or it is in flight.
AnswerDue ==
  \A i \in Ids :
    /\ phase[i] \in {"none", "new"} => alive[i]
    /\ phase[i] = "up" /\ link[i] = "open" /\ ~alive[i] => echo[i] \/ Answered(i)

\* At the start no echo is unanswered.
LEMMA InitAnswerDue == Init => AnswerDue
  BY DEF Init, AnswerDue

\* What leaves the controller's answers alone, or adds one, keeps them due.
LEMMA SameAnswers ==
  ASSUME AnswerDue, UNCHANGED <<link, alive, echo, toSw>>,
         \A j \in Ids : phase'[j] \in {"none", "new", "up"} => phase'[j] = phase[j]
  PROVE  AnswerDue'
  BY DEF AnswerDue, Answered

\* Connecting and stopping take no answer away.
LEMMA ThreadAnswerDue ==
  ASSUME TypeOK, AnswerDue,
         Start \/ TryConnect \/ StopConn \/ CancelConnector \/ StopLoop
  PROVE  AnswerDue'
<1>1. CASE Start \/ CancelConnector \/ StopLoop
  BY <1>1, SameAnswers DEF Start, CancelConnector, StopLoop, cvars
<1>2. CASE StopConn
  <2>1. \A j \in Ids : phase'[j] \in {"none", "new", "up"} => phase'[j] = phase[j]
    BY <1>2, ClientAssumption DEF StopConn, Closing, TypeOK, Ids
  <2> QED
    BY <1>2, <2>1, SameAnswers DEF StopConn
<1>3. CASE TryConnect
  <2>1. /\ made' \in Ids /\ made' > made
        /\ phase' = [phase EXCEPT ![made'] = "new"]
        /\ UNCHANGED <<link, alive, echo, toSw>>
    BY <1>3, ClientAssumption DEF TryConnect, TypeOK, Ids
  <2>2. phase[made'] = "none"
    BY <2>1 DEF TypeOK
  <2>3. \A j \in Ids : phase'[j] = IF j = made' THEN "new" ELSE phase[j]
    BY <2>1 DEF TypeOK
  <2> QED
    BY <2>1, <2>2, <2>3 DEF AnswerDue, Answered
<1> QED
  BY <1>1, <1>2, <1>3

\* A message more in flight does not take an answer away.
LEMMA AppendAnswered ==
  ASSUME TypeOK, NEW i \in Ids, NEW msg \in Message,
         toSw' = [toSw EXCEPT ![i] = Append(toSw[i], msg)]
  PROVE  /\ \A j \in Ids : Answered(j) => Answered(j)'
         /\ msg.type = "echo_reply" => Answered(i)'
<1>1. toSw[i] \in Seq(Message) /\ Len(toSw[i]) \in Nat
  BY DEF TypeOK
<1>2. \A j \in Ids : toSw'[j] = IF j = i THEN Append(toSw[i], msg) ELSE toSw[j]
  BY DEF TypeOK
<1>3. /\ Len(Append(toSw[i], msg)) = Len(toSw[i]) + 1
      /\ \A k \in 1..Len(toSw[i]) : Append(toSw[i], msg)[k] = toSw[i][k]
      /\ Append(toSw[i], msg)[Len(toSw[i]) + 1] = msg
  BY <1>1
<1>4. ASSUME NEW j \in Ids, Answered(j)
      PROVE  Answered(j)'
  <2>1. PICK k \in 1..Len(toSw[j]) : toSw[j][k].type = "echo_reply"
    BY <1>4 DEF Answered
  <2>2. k \in 1..Len(toSw'[j]) /\ toSw'[j][k] = toSw[j][k]
    BY <1>1, <1>2, <1>3, <2>1
  <2> QED
    BY <2>1, <2>2 DEF Answered
<1>5. ASSUME msg.type = "echo_reply"
      PROVE  Answered(i)'
  <2>1. toSw'[i] = Append(toSw[i], msg)
    BY <1>2
  <2>2. Len(toSw[i]) + 1 \in 1..(Len(toSw[i]) + 1)
    BY <1>1
  <2> QED
    BY <1>3, <1>5, <2>1, <2>2 DEF Answered
<1> QED
  BY <1>4, <1>5

\* Nor does the receipt of another message.
LEMMA TailAnswered ==
  ASSUME TypeOK, NEW i \in Ids, NEW type, type # "echo_reply", Receive(i, type)
  PROVE  \A j \in Ids : Answered(j) => Answered(j)'
<1>1. /\ toSw[i] \in Seq(Message) /\ toSw[i] # <<>> /\ toSw[i][1].type = type
      /\ toSw' = [toSw EXCEPT ![i] = Tail(toSw[i])]
  BY ReceiveTypes
<1>2. \A j \in Ids : toSw'[j] = IF j = i THEN Tail(toSw[i]) ELSE toSw[j]
  BY <1>1 DEF TypeOK
<1>3. /\ Len(toSw[i]) \in Nat \ {0}
      /\ Len(Tail(toSw[i])) = Len(toSw[i]) - 1
      /\ \A k \in 1..(Len(toSw[i]) - 1) : Tail(toSw[i])[k] = toSw[i][k + 1]
  BY <1>1
<1>4. ASSUME NEW j \in Ids, Answered(j)
      PROVE  Answered(j)'
  <2>1. PICK k \in 1..Len(toSw[j]) : toSw[j][k].type = "echo_reply"
    BY <1>4 DEF Answered
  <2>2. CASE j = i
    <3>1. k # 1
      BY <1>1, <2>1, <2>2
    <3>2. /\ Len(toSw'[i]) = Len(toSw[i]) - 1
          /\ \A n \in 1..(Len(toSw[i]) - 1) : toSw'[i][n] = toSw[i][n + 1]
      BY <1>2, <1>3
    <3>3. k - 1 \in 1..(Len(toSw[i]) - 1) /\ (k - 1) + 1 = k
      BY <1>3, <2>1, <2>2, <3>1
    <3> QED
      BY <2>1, <2>2, <3>2, <3>3 DEF Answered
  <2>3. CASE j # i
    BY <1>2, <2>1, <2>3 DEF Answered
  <2> QED
    BY <2>2, <2>3
<1> QED
  BY <1>4

\* Nor does the controller, while it is there.
LEMMA PeerAnswerDue ==
  ASSUME TypeOK, AnswerDue, NEW i \in Ids, PeerStep(i)
  PROVE  AnswerDue'
<1>1. ASSUME NEW msg \in Message, Controller(i, msg), UNCHANGED echo
      PROVE  AnswerDue'
  <2>1. \A j \in Ids : Answered(j) => Answered(j)'
    BY <1>1, ControllerTypes, AppendAnswered
  <2> QED
    BY <1>1, <2>1 DEF Controller, AnswerDue
<1>2. CASE SendHello(i)
  <2>1. PICK v \in Versions : Controller(i, [type |-> "hello", version |-> v])
    BY <1>2 DEF SendHello
  <2>2. [type |-> "hello", version |-> v] \in Message
    BY DEF Message
  <2> QED
    BY <1>1, <1>2, <2>1, <2>2 DEF SendHello
<1>3. /\ [type |-> "features_request"] \in Message
      /\ [type |-> "echo_request"] \in Message
      /\ [type |-> "echo_reply"] \in Message
  BY DEF Message
<1>4. CASE AskFeatures(i) \/ AskEcho(i)
  BY <1>1, <1>3, <1>4 DEF AskFeatures, AskEcho
<1>5. CASE AnswerEcho(i)
  <2>1. /\ \A j \in Ids : Answered(j) => Answered(j)'
        /\ Answered(i)'
    BY <1>3, <1>5, ControllerTypes, AppendAnswered DEF AnswerEcho
  <2>2. \A j \in Ids : echo[j] => echo'[j] \/ Answered(j)'
    BY <1>5, <2>1 DEF AnswerEcho, TypeOK
  <2> QED
    BY <1>5, <2>1, <2>2 DEF AnswerEcho, Controller, AnswerDue
<1>6. CASE Fails(i, "silent") \/ Fails(i, "reset")
  <2>1. UNCHANGED <<phase, alive, echo, toSw>>
    BY <1>6 DEF Fails
  <2>2. link'[i] # "open" /\ \A j \in Ids \ {i} : link'[j] = link[j]
    BY <1>6 DEF Fails, TypeOK
  <2>3. \A j \in Ids : Answered(j)' <=> Answered(j)
    BY <2>1 DEF Answered
  <2> QED
    BY <2>1, <2>2, <2>3 DEF AnswerDue
<1> QED
  BY <1>2, <1>4, <1>5, <1>6 DEF PeerStep

\* Nor does the event loop, but by handling the answer.
LEMMA LoopAnswerDue ==
  ASSUME TypeOK, AnswerDue, NEW i \in Ids, LoopStep(i)
  PROVE  AnswerDue'
<1>1. CASE Up(i)
  <2>1. \A j \in Ids : phase'[j] = IF j = i THEN "up" ELSE phase[j]
    BY <1>1 DEF Up, TypeOK
  <2>2. alive[i] /\ UNCHANGED <<link, alive, echo, toSw>>
    BY <1>1 DEF Up, AnswerDue
  <2> QED
    BY <2>1, <2>2 DEF AnswerDue, Answered
<1>2. ASSUME NEW type, type # "echo_reply", Receive(i, type), UNCHANGED alive,
             \A j \in Ids : phase'[j] \in {"none", "new", "up"} => phase'[j] = phase[j]
      PROVE  AnswerDue'
  <2>1. \A j \in Ids : Answered(j) => Answered(j)'
    BY <1>2, TailAnswered
  <2> QED
    BY <1>2, <2>1 DEF Receive, AnswerDue
<1>3. CASE EchoRequest(i)
  BY <1>2, <1>3 DEF EchoRequest
<1>4. CASE Hello(i)
  <2>1. \A j \in Ids : phase'[j] \in {"none", "new", "up"} => phase'[j] = phase[j]
    BY <1>4 DEF Hello, Closing, TypeOK
  <2> QED
    BY <1>2, <1>4, <2>1 DEF Hello
<1>5. CASE FeaturesRequest(i)
  BY <1>2, <1>5 DEF FeaturesRequest
<1>6. CASE EchoReply(i)
  <2>1. /\ \A j \in Ids : alive'[j] = IF j = i THEN TRUE ELSE alive[j]
        /\ \A j \in Ids : j # i => toSw'[j] = toSw[j]
        /\ UNCHANGED <<phase, link, echo>>
    BY <1>6 DEF EchoReply, Receive, TypeOK
  <2> QED
    BY <2>1 DEF AnswerDue, Answered
<1>7. CASE SendEcho(i)
  <2>1. CASE phase' = [phase EXCEPT ![i] = "closing"] /\ UNCHANGED <<alive, echo>>
    <3>1. \A j \in Ids : phase'[j] \in {"none", "new", "up"} => phase'[j] = phase[j]
      BY <2>1 DEF TypeOK
    <3> QED
      BY <1>7, <2>1, <3>1, SameAnswers DEF SendEcho
  <2>2. CASE alive' = [alive EXCEPT ![i] = FALSE] /\ echo' = [echo EXCEPT ![i] = TRUE]
             /\ UNCHANGED phase
    <3>1. \A j \in Ids : /\ alive'[j] = IF j = i THEN FALSE ELSE alive[j]
                         /\ echo'[j] = IF j = i THEN TRUE ELSE echo[j]
      BY <2>2 DEF TypeOK
    <3>2. phase[i] = "up" /\ UNCHANGED <<link, toSw>>
      BY <1>7 DEF SendEcho
    <3> QED
      BY <2>2, <3>1, <3>2 DEF AnswerDue, Answered
  <2> QED
    BY <1>7, <2>1, <2>2 DEF SendEcho
<1>8. CASE Down(i)
  <2>1. \A j \in Ids : phase'[j] \in {"none", "new", "up"} => phase'[j] = phase[j]
    BY <1>8 DEF Down, Reconnect, Closing, TypeOK
  <2> QED
    BY <1>8, <2>1, SameAnswers DEF Down
<1>9. CASE Closed(i)
  <2>1. \A j \in Ids : /\ phase'[j] = IF j = i THEN "deleted" ELSE phase[j]
                       /\ j # i => toSw'[j] = toSw[j]
    BY <1>9 DEF Closed, TypeOK
  <2>2. UNCHANGED <<link, alive, echo>>
    BY <1>9 DEF Closed
  <2> QED
    BY <2>1, <2>2 DEF AnswerDue, Answered
<1> QED
  BY <1>1, <1>3, <1>4, <1>5, <1>6, <1>7, <1>8, <1>9 DEF LoopStep

\* Every step keeps an answer due while the client waits for one.
LEMMA NextAnswerDue == TypeOK /\ AnswerDue /\ [Next]_vars => AnswerDue'
<1> SUFFICES ASSUME TypeOK, AnswerDue, [Next]_vars PROVE AnswerDue'
  OBVIOUS
<1>1. CASE UNCHANGED vars
  BY <1>1 DEF AnswerDue, Answered, vars
<1>2. CASE Next
  BY <1>2, ThreadAnswerDue, LoopAnswerDue, PeerAnswerDue DEF Next
<1> QED
  BY <1>1, <1>2

\* One step of the safety property: a timer closes a connection only while
\* alive is false, and with the link open its answer is then owed or on its
\* way.
LEMMA StepNoFalseDeath ==
  ASSUME TypeOK, AnswerDue, [Next]_vars, NEW i \in Ids, link[i] = "open",
         state[i] # "dead", state'[i] = "dead"
  PROVE  echo[i] \/ Answered(i)
<1>1. CASE UNCHANGED state
  BY <1>1
<1>2. ASSUME NEW j \in Ids, FeaturesRequest(j) \/ Hello(j)
      PROVE  echo[i] \/ Answered(i)
  <2>1. \/ state' = [state EXCEPT ![j] = "running"]
        \/ state' = [state EXCEPT ![j] = "failed"]
        \/ UNCHANGED state
    BY <1>2 DEF FeaturesRequest, Hello
  <2> QED
    BY <2>1 DEF TypeOK
<1>3. ASSUME NEW j \in Ids, SendEcho(j)
      PROVE  echo[i] \/ Answered(i)
  <2>1. CASE j = i
    <3>1. phase[i] = "up" /\ ~alive[i]
      BY <1>3, <2>1 DEF SendEcho
    <3> QED
      BY <3>1 DEF AnswerDue
  <2>2. CASE j # i
    BY <1>3, <2>2 DEF SendEcho, TypeOK
  <2> QED
    BY <2>1, <2>2
<1>4. CASE Start \/ TryConnect \/ StopConn \/ CancelConnector \/ StopLoop
  BY <1>1, <1>4 DEF Start, TryConnect, StopConn, CancelConnector, StopLoop, cvars
<1>5. ASSUME NEW j \in Ids, PeerStep(j)
      PROVE  UNCHANGED state
  BY <1>5 DEF PeerStep, SendHello, AskFeatures, AskEcho, AnswerEcho, Controller, Fails
<1>6. ASSUME NEW j \in Ids, Up(j) \/ EchoRequest(j) \/ EchoReply(j) \/ Down(j) \/ Closed(j)
      PROVE  UNCHANGED state
  BY <1>6 DEF Up, EchoRequest, EchoReply, Down, Closed
<1>7. CASE UNCHANGED vars
  BY <1>1, <1>7 DEF vars
<1> QED
  BY <1>1, <1>2, <1>3, <1>4, <1>5, <1>6, <1>7 DEF Next, LoopStep

\* A controller that is there is taken for dead only while it owes the answer
\* to the last echo request or that answer has not been read, however many
\* timers its features requests have added (OFClient.cc:66), in whatever order
\* they come due and however much is in flight.
THEOREM NeverFalselyDead == Spec => NoFalseDeath
<1>1. Spec => [](TypeOK /\ AnswerDue)
  <2>1. CInv => TypeOK
    BY DEF CInv
  <2>2. TypeOK /\ AnswerDue /\ [Next]_vars => AnswerDue'
    BY NextAnswerDue
  <2> QED
    BY <2>1, <2>2, CInvHolds, InitAnswerDue, PTL DEF Spec
<1>2. TypeOK /\ AnswerDue /\ [Next]_vars =>
        [\A i \in Ids : link[i] = "open" /\ state[i] # "dead" /\ state'[i] = "dead"
           => echo[i] \/ Answered(i)]_vars
  BY StepNoFalseDeath
<1> QED
  BY <1>1, <1>2, PTL DEF Spec, NoFalseDeath

=============================================================================
