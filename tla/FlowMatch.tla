------------------------------ MODULE FlowMatch ------------------------------
(***************************************************************************)
(* The matching functions of the example OpenFlow 1.0 switch               *)
(* (examples/switch/flow.hh, flow.cc): a flow against a packet, a flow-mod *)
(* against a flow of the table strictly (same rule) and non-strictly       *)
(* (rules that the flow-mod's match contains).                             *)
(*                                                                         *)
(* The ten fields that are compared whole are the elements of Fields; the  *)
(* two IPv4 addresses are compared under a mask, bit by bit, so addresses  *)
(* and masks are sets of one bits.  A packet is a match without wildcards. *)
(***************************************************************************)
EXTENDS Integers, FiniteSets

CONSTANTS
  Fields,   \* in_port, dl_src, ... tp_dst
  Values,   \* values of a field; 0 is what an unset field holds
  Bits      \* bit positions of an IPv4 address

ASSUME ValuesAssumption == 0 \in Values /\ \E v \in Values : v # 0

Address == SUBSET Bits

Match == [val : [Fields -> Values], wild : SUBSET Fields,
          nw_src : Address, nw_dst : Address]

\* Flow() sets both masks to all ones (every bit ignored) and nothing in the
\* switch ever changes them.
NoMask == Bits

FlowOf(match, priority) ==
  [match |-> match, priority |-> priority,
   nw_src_mask |-> NoMask, nw_dst_mask |-> NoMask]

-----------------------------------------------------------------------------
(* Operators of C++ *)

\* ~ of a Boolean promoted to int is -1 or -2, and neither is zero
Complement(condition) == TRUE

BitNot(x) == Bits \ x

BitXor(x, y) == (x \ y) \cup (y \ x)

-----------------------------------------------------------------------------
(* One field.  a and b are matches, f a field. *)

wc(a, f) == f \in a.wild

strict_wild(a, b, f) ==
  \/ wc(a, f) /\ wc(b, f)
  \/ Complement(wc(a, f)) /\ Complement(wc(b, f)) /\ a.val[f] = b.val[f]

\* a field that the table's rule wildcards is not contained in one
MutantWild(a, b, f) ==
  \/ wc(a, f) /\ wc(b, f)
  \/ a.val[f] = b.val[f]

nonstrict_wild(a, b, f) ==
  \/ wc(b, f) /\ wc(a, f)
  \/ Complement(wc(b, f)) /\ (wc(a, f) \/ a.val[f] = b.val[f])

\* only values are compared
MutantValues(a, b, f) == a.val[f] = b.val[f]

pkt_wild(a, b, f) == wc(a, f) \/ a.val[f] = b.val[f]

(* One address under a mask *)

\* the masks are not compared
MutantNoMasks(a, b, am, bm) == BitXor(a, b) \cap BitNot(am) = {}

strict_nw(a, b, am, bm) == am = bm /\ BitXor(a, b) \cap BitNot(am) = {}

\* the mask of the second address is forgotten in one of the three factors
MutantHalfMask(a, b, am, bm) ==
  BitNot(am) \cap (BitNot(a) \cup BitNot(b)) \cap (a \cup b \cup bm) = {}

nonstrict_nw(a, b, am, bm) ==
  BitNot(am) \cap (BitNot(a) \cup BitNot(b) \cup bm) \cap (a \cup b \cup bm) = {}

pkt_nw(a, b, am) == BitNot(am) \cap BitXor(a, b) = {}

-----------------------------------------------------------------------------
(* Whole matches: sa, sb are the source masks, da, db the destination masks *)

match_std_strict(a, b, sa, sb, da, db) ==
  /\ \A f \in Fields : strict_wild(a, b, f)
  /\ strict_nw(a.nw_src, b.nw_src, sa, sb)
  /\ strict_nw(a.nw_dst, b.nw_dst, da, db)

match_std_nonstrict(a, b, sa, sb, da, db) ==
  /\ \A f \in Fields : nonstrict_wild(a, b, f)
  /\ nonstrict_nw(a.nw_src, b.nw_src, sa, sb)
  /\ nonstrict_nw(a.nw_dst, b.nw_dst, da, db)

match_std_pkt(a, b, sa, da) ==
  /\ \A f \in Fields : pkt_wild(a, b, f)
  /\ pkt_nw(a.nw_src, b.nw_src, sa)
  /\ pkt_nw(a.nw_dst, b.nw_dst, da)

\* the last argument of the second call is b's source mask in the code
match_std_overlap(a, b, sa, sb, da, db) ==
  \/ match_std_nonstrict(a, b, sa, sb, da, db)
  \/ match_std_nonstrict(b, a, sb, sa, db, sb)

(* Flows *)

pkt_match(flow, packet) ==
  match_std_pkt(flow.match, packet, flow.nw_src_mask, flow.nw_dst_mask)

strict_match(x, y) ==
  /\ x.priority = y.priority
  /\ match_std_strict(x.match, y.match, x.nw_src_mask, y.nw_src_mask,
                      x.nw_dst_mask, y.nw_dst_mask)

non_strict_match(x, y) ==
  match_std_nonstrict(x.match, y.match, x.nw_src_mask, y.nw_src_mask,
                      x.nw_dst_mask, y.nw_dst_mask)

=============================================================================
