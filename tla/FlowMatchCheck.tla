--------------------------- MODULE FlowMatchCheck ---------------------------
(***************************************************************************)
(* The matching functions against what a match means: the set of packets   *)
(* that it matches.  The state is a pair of rules; it never changes.       *)
(***************************************************************************)
EXTENDS FlowMatch

CONSTANTS
  Priorities,
  Masks      \* the masks a rule may have

ASSUME MasksAssumption == Masks \subseteq Address

VARIABLES x, y   \* two rules

Rule == [match : Match, priority : Priorities,
         nw_src_mask : Masks, nw_dst_mask : Masks]

Packet == [val : [Fields -> Values], wild : {{}}, nw_src : Address, nw_dst : Address]

FInit == x \in Rule /\ y \in Rule

FNext == UNCHANGED <<x, y>>

FSpec == FInit /\ [][FNext]_<<x, y>>

-----------------------------------------------------------------------------
(* Reference definitions *)

\* the addresses that an address with a mask stands for
Addresses(a, am) == { p \in Address : \A i \in Bits \ am : i \in p <=> i \in a }

\* rule r matches packet p: every field that is not wildcarded and every bit
\* that is not masked agrees
Accepts(r, p) ==
  /\ \A f \in Fields : f \in r.match.wild \/ r.match.val[f] = p.val[f]
  /\ p.nw_src \in Addresses(r.match.nw_src, r.nw_src_mask)
  /\ p.nw_dst \in Addresses(r.match.nw_dst, r.nw_dst_mask)

\* every packet that s matches is matched by r
Contains(r, s) == \A p \in Packet : Accepts(s, p) => Accepts(r, p)

\* the rule that matches packet p and no other
ExactRule(p, priority) ==
  [match |-> p, priority |-> priority, nw_src_mask |-> {}, nw_dst_mask |-> {}]

-----------------------------------------------------------------------------
(* Properties *)

\* The bit formula of nonstrict_nw (flow.hh:99) says exactly that every
\* address the second pair stands for is one the first pair stands for.
AddressesNest ==
  nonstrict_nw(x.match.nw_dst, y.match.nw_dst, x.nw_dst_mask, y.nw_dst_mask)
    <=> Addresses(y.match.nw_dst, y.nw_dst_mask)
          \subseteq Addresses(x.match.nw_dst, x.nw_dst_mask)

\* strict_nw (flow.hh:41) says exactly that the two pairs stand for the same
\* addresses: different masks never stand for the same set.
AddressesEqual ==
  strict_nw(x.match.nw_src, y.match.nw_src, x.nw_src_mask, y.nw_src_mask)
    <=> Addresses(x.match.nw_src, x.nw_src_mask)
          = Addresses(y.match.nw_src, y.nw_src_mask)

\* A non-strict match misses no rule that is contained in the given one, so
\* a delete leaves no flow behind that it should remove (flow.hh:104).
ContainedMatches == Contains(x, y) => non_strict_match(x, y)

\* A packet is matched by a rule if and only if the rule matches non-strictly
\* the rule of that very packet: the three sets of functions agree with each
\* other and with the meaning of a match where no wildcard is involved.
PacketMatchAgrees ==
  \A p \in Packet :
    /\ pkt_match(x, p) <=> Accepts(x, p)
    /\ pkt_match(x, p) <=> non_strict_match(x, ExactRule(p, x.priority))

=============================================================================
