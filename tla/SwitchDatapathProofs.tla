------------------------ MODULE SwitchDatapathProofs ------------------------
(***************************************************************************)
(* The datapath of the example switch, for every number of ports, ring     *)
(* slots, packets and buffer ids and for all rules: the flow table stays   *)
(* ordered by priority, and free of duplicates as long as peers send 0 in  *)
(* wildcarded fields; and the first answer to a packet-in finds the packet *)
(* that was announced.  The invariant of the second result is DatapathInv, *)
(* whose parts are kept one after the other: types, the threads' work, the *)
(* end, the ring, what is sent, the ids, and the packets that wait.        *)
(***************************************************************************)
EXTENDS SwitchDatapath, FiniteSetTheorems, SequenceTheorems,
        WellFoundedInduction, TLAPS

-----------------------------------------------------------------------------
(* Sets of numbers *)

\* A set of natural numbers that is not empty has a least member, which is
\* what Min of the community modules chooses.
LEMMA MinOfNumbers ==
  ASSUME NEW S \in SUBSET Nat, S # {}
  PROVE  Min(S) \in S /\ \A y \in S : Min(S) <= y
<1>1. PICK x \in S : \A y \in S : <<y, x>> \notin OpToRel(<, Nat)
  BY WFMin, NatLessThanWellFounded, Zenon
<1>2. \A y \in S : ~(y < x)
  BY <1>1, Zenon DEF OpToRel
<1>3. \A y \in S : x <= y
  BY <1>2
<1> QED BY <1>3 DEF Min

\* Numbers that are below all others of 1..n are the first ones.
LEMMA FirstNumbers ==
  ASSUME NEW n \in Nat, NEW S \in SUBSET (1..n),
         \A j \in 1..n, k \in S : j < k => j \in S
  PROVE  Cardinality(S) \in 0..n /\ S = 1..Cardinality(S)
<1> DEFINE Rest == 1..n+1 \ S
<1>1. Rest \in SUBSET Nat /\ n + 1 \in Rest
  OBVIOUS
<1>2. Min(Rest) \in Rest /\ \A y \in Rest : Min(Rest) <= y
  BY <1>1, MinOfNumbers
<1> DEFINE m == Min(Rest) - 1
<1>3. m \in 0..n
  BY <1>1, <1>2
<1>4. S = 1..m
  <2>1. ASSUME NEW k \in 1..m PROVE k \in S
    <3>1. k \in 1..n + 1 /\ ~(Min(Rest) <= k)
      BY <1>2, <1>3
    <3> QED BY <1>2, <3>1
  <2>2. ASSUME NEW k \in S PROVE k \in 1..m
    <3> HIDE DEF Rest
    <3>1. Min(Rest) \in 1..n + 1 /\ Min(Rest) \notin S
      BY <1>2 DEF Rest
    <3>2. ~(Min(Rest) < k)
      BY <3>1
    <3> QED BY <3>1, <3>2
  <2> QED BY <2>1, <2>2
<1>5. Cardinality(1..m) = m
  BY <1>3, FS_Interval
<1> QED BY <1>3, <1>4, <1>5

\* The members of a subset of 1..n can be put in order.
LEMMA OrderOfNumbers ==
  ASSUME NEW n \in Nat, NEW S \in SUBSET (1..n)
  PROVE  /\ Cardinality(S) \in Nat
         /\ InOrder(S) \in [1..Cardinality(S) -> S]
         /\ \A i, j \in 1..Cardinality(S) : i < j => InOrder(S)[i] < InOrder(S)[j]
<1> DEFINE c == Cardinality(S)
           Upto(k) == { j \in S : j <= k }
           rank == [k \in S |-> Cardinality(Upto(k))]
<1>1. IsFiniteSet(S) /\ c \in Nat
  <2>1. IsFiniteSet(1..n)
    BY FS_Interval
  <2> QED BY <2>1, FS_Subset, FS_CardinalityType
<1>2. \A k \in S : /\ IsFiniteSet(Upto(k))
                   /\ Cardinality(Upto(k)) \in 1..c
  <2> TAKE k \in S
  <2>1. IsFiniteSet(Upto(k)) /\ Cardinality(Upto(k)) <= c
    BY <1>1, FS_Subset
  <2>2. Cardinality(Upto(k)) \in Nat
    BY <2>1, FS_CardinalityType
  <2>3. Upto(k) # {}
    OBVIOUS
  <2>4. Cardinality(Upto(k)) # 0
    BY <2>1, <2>3, FS_EmptySet
  <2> QED BY <1>1, <2>1, <2>2, <2>4
<1>3. \A j, k \in S : j < k => rank[j] < rank[k]
  <2> TAKE j, k \in S
  <2> HAVE j < k
  <2>1. Upto(j) \in SUBSET Upto(k) /\ Upto(k) # Upto(j)
    <3>1. k \in Upto(k) /\ k \notin Upto(j)
      OBVIOUS
    <3>2. Upto(j) \subseteq Upto(k)
      <4>1. S \subseteq Int
        OBVIOUS
      <4>2. \A x \in S : x <= j => x <= k
        <5> HIDE DEF Upto, rank, c
        <5> QED BY <4>1
      <4> QED BY <4>2, Zenon
    <3> HIDE DEF Upto
    <3> QED BY <3>1, <3>2
  <2>2. Cardinality(Upto(j)) <= Cardinality(Upto(k))
    BY <1>2, <2>1, FS_Subset
  <2>3. Cardinality(Upto(j)) # Cardinality(Upto(k))
    <3> HIDE DEF Upto
    <3> QED BY <1>2, <2>1, FS_Subset
  <2>4. rank[j] = Cardinality(Upto(j)) /\ rank[k] = Cardinality(Upto(k))
    OBVIOUS
  <2> HIDE DEF Upto, rank
  <2> QED BY <1>1, <1>2, <2>2, <2>3, <2>4
<1>4. rank \in [S -> 1..c]
  BY <1>2
<1> HIDE DEF Upto, rank
<1>5. rank \in Injection(S, 1..c)
  BY <1>3, <1>4 DEF Injection, IsInjective
<1>6. IsFiniteSet(1..c) /\ Cardinality(1..c) = c
  BY <1>1, FS_Interval
<1>7. rank \in Surjection(S, 1..c)
  BY <1>1, <1>5, <1>6, FS_Injection
<1>8. \A i \in 1..c : \E k \in S : rank[k] = i
  BY <1>7 DEF Surjection
<1> DEFINE f == [i \in 1..c |-> CHOOSE k \in S : rank[k] = i]
<1>9. f \in [1..c -> S] /\ \A i \in 1..c : f[i] \in S /\ rank[f[i]] = i
  BY <1>8
<1> HIDE DEF f
<1>10. \A i, j \in 1..c : i < j => f[i] < f[j]
  <2> TAKE i, j \in 1..c
  <2> HAVE i < j
  <2>1. f[i] \in S /\ f[j] \in S /\ rank[f[i]] = i /\ rank[f[j]] = j
    BY <1>9
  <2>2. f[i] \in Int /\ f[j] \in Int /\ i \in Int /\ j \in Int
    <3>1. S \subseteq Int
      OBVIOUS
    <3>2. 1..c \subseteq Int
      OBVIOUS
    <3> HIDE DEF c, f
    <3> QED BY <2>1, <3>1, <3>2
  <2> HIDE DEF c
  <2>3. f[j] < f[i] => j < i
    BY <1>3, <2>1
  <2>4. f[i] # f[j]
    BY <2>1, <2>2
  <2> QED BY <2>2, <2>3, <2>4
<1>11. \E g \in [1..c -> S] : \A i, j \in DOMAIN g : i < j => g[i] < g[j]
  BY <1>9, <1>10
<1>12. /\ InOrder(S) \in [1..c -> S]
       /\ \A i, j \in DOMAIN InOrder(S) : i < j => InOrder(S)[i] < InOrder(S)[j]
  BY <1>11 DEF InOrder
<1> QED BY <1>1, <1>12

-----------------------------------------------------------------------------
(* The operations of the flow table *)

InTableOrder(t) == \A j, k \in DOMAIN t : j < k => t[j].priority <= t[k].priority

HasNoDuplicates(t) == \A j, k \in DOMAIN t : j # k => ~strict_match(t[j], t[k])

Sound(t) == t \in Seq(Rules) /\ InTableOrder(t)

\* a table that may rely on having no rule twice
NoTwice(t) == /\ \A k \in DOMAIN t : ZeroWhereWild(t[k].match)
              /\ HasNoDuplicates(t)

\* The masks of rules ignore every bit of the addresses, so if they have 0 in
\* the fields they wildcard, to match strictly is to have the same priority and
\* values.
LEMMA StrictMatchOfRules ==
  ASSUME NEW x \in Rules, NEW y \in Rules,
         ZeroWhereWild(x.match), ZeroWhereWild(y.match)
  PROVE  strict_match(x, y) <=>
           x.priority = y.priority /\ \A f \in Fields : x.match.val[f] = y.match.val[f]
<1>1. x \in FlowEntry /\ y \in FlowEntry
  BY RulesAssumption
<1>2. /\ x.nw_src_mask = Bits /\ x.nw_dst_mask = Bits
      /\ y.nw_src_mask = Bits /\ y.nw_dst_mask = Bits
  BY <1>1 DEF FlowEntry, NoMask
<1>3. \A f \in Fields :
        strict_wild(x.match, y.match, f) <=> x.match.val[f] = y.match.val[f]
  <2> TAKE f \in Fields
  <2>1. f \in x.match.wild /\ f \in y.match.wild => x.match.val[f] = y.match.val[f]
    BY <1>1 DEF ZeroWhereWild
  <2> QED BY <2>1 DEF strict_wild, wc, Complement
<1>4. /\ strict_nw(x.match.nw_src, y.match.nw_src, Bits, Bits)
      /\ strict_nw(x.match.nw_dst, y.match.nw_dst, Bits, Bits)
  BY DEF strict_nw, BitNot
<1> QED BY <1>2, <1>3, <1>4 DEF strict_match, match_std_strict

\* What is left of a sound table in its order is sound, and holds no rule twice
\* if the table did not.
LEMMA PartOfTable ==
  ASSUME NEW t, Sound(t), NEW n \in Nat, NEW h \in [1..n -> 1..Len(t)],
         \A i, j \in 1..n : i < j => h[i] < h[j]
  PROVE  /\ Sound([i \in 1..n |-> t[h[i]]])
         /\ NoTwice(t) => NoTwice([i \in 1..n |-> t[h[i]]])
<1> DEFINE part == [i \in 1..n |-> t[h[i]]]
<1>1. t \in Seq(Rules) /\ DOMAIN t = 1..Len(t) /\ Len(t) \in Nat
  BY LenProperties DEF Sound
<1>2. \A i \in 1..n : t[h[i]] \in Rules
  BY <1>1, ElementOfSeq
<1>3. part \in Seq(Rules)
  BY <1>2, IsASeq
<1>4. InTableOrder(part)
  BY <1>1 DEF Sound, InTableOrder
<1>5. \A i, j \in 1..n : i # j => h[i] # h[j]
  BY <1>1
<1>6. NoTwice(t) => NoTwice(part)
  BY <1>1, <1>5 DEF NoTwice, HasNoDuplicates
<1> QED BY <1>3, <1>4, <1>6 DEF Sound

\* erase of one flow takes one place out of the table.
LEMMA RemovedFromTable ==
  ASSUME NEW t \in Seq(Rules), NEW m \in 1..Len(t)
  PROVE  RemoveAt(t, m) = [i \in 1..Len(t) - 1 |-> t[IF i < m THEN i ELSE i + 1]]
<1> DEFINE front == SubSeq(t, 1, m - 1)
           back == SubSeq(t, m + 1, Len(t))
<1>1. Len(t) \in Nat /\ \A i \in 1..Len(t) : t[i] \in Rules
  BY LenProperties, ElementOfSeq
<1>2. /\ front \in Seq(Rules) /\ Len(front) = m - 1
      /\ \A i \in 1..m - 1 : front[i] = t[i]
  BY <1>1, SubSeqProperties
<1>3. /\ back \in Seq(Rules) /\ Len(back) = Len(t) - m
      /\ \A i \in 1..Len(t) - m : back[i] = t[m + i]
  BY <1>1, SubSeqProperties
<1> HIDE DEF front, back
<1>4. /\ front \o back \in Seq(Rules)
      /\ Len(front \o back) = Len(t) - 1
      /\ \A i \in 1..Len(t) - 1 :
           (front \o back)[i] = IF i <= m - 1 THEN front[i] ELSE back[i - (m - 1)]
  <2>1. /\ front \o back \in Seq(Rules)
        /\ Len(front \o back) = Len(front) + Len(back)
        /\ \A i \in 1..Len(front) + Len(back) :
             (front \o back)[i] = IF i <= Len(front) THEN front[i] ELSE back[i - Len(front)]
    BY <1>2, <1>3, ConcatProperties
  <2> QED BY <1>1, <1>2, <1>3, <2>1
<1>5. \A i \in 1..Len(t) - 1 : (front \o back)[i] = t[IF i < m THEN i ELSE i + 1]
  <2> TAKE i \in 1..Len(t) - 1
  <2>1. CASE i < m
    BY <1>1, <1>2, <1>4, <2>1
  <2>2. CASE ~(i < m)
    <3>1. i - (m - 1) \in 1..Len(t) - m /\ m + (i - (m - 1)) = i + 1
      BY <1>1, <2>2
    <3> QED BY <1>1, <1>3, <1>4, <2>2, <3>1
  <2> QED BY <2>1, <2>2
<1>6. DOMAIN (front \o back) = 1..Len(t) - 1
      /\ front \o back = [i \in DOMAIN (front \o back) |-> (front \o back)[i]]
  BY <1>4, LenProperties
<1>7. RemoveAt(t, m) = front \o back
  BY DEF RemoveAt, front, back
<1> QED BY <1>5, <1>6, <1>7

\* The replacement of OFPFC_ADD leaves a part of the table; and no flow that
\* the new one strictly matches, if there was at most one (datapath.cc:68-74).
LEMMA ReplacedInTable ==
  ASSUME NEW t, Sound(t), NEW flow \in Rules
  PROVE  /\ Sound(WithoutFirstStrict(t, flow))
         /\ NoTwice(t) /\ ZeroWhereWild(flow.match) =>
              /\ NoTwice(WithoutFirstStrict(t, flow))
              /\ \A k \in DOMAIN WithoutFirstStrict(t, flow) :
                   ~strict_match(WithoutFirstStrict(t, flow)[k], flow)
<1> DEFINE same == { k \in DOMAIN t : strict_match(t[k], flow) }
<1>1. /\ t \in Seq(Rules) /\ DOMAIN t = 1..Len(t) /\ Len(t) \in Nat
      /\ \A k \in 1..Len(t) : t[k] \in Rules
  BY LenProperties, ElementOfSeq DEF Sound
<1>2. CASE same = {}
  BY <1>2 DEF WithoutFirstStrict
<1>3. CASE same # {}
  <2> DEFINE m == Min(same)
             h == [i \in 1..Len(t) - 1 |-> IF i < m THEN i ELSE i + 1]
  <2>1. m \in same
    <3>1. same \in SUBSET Nat
      BY <1>1
    <3> HIDE DEF same
    <3> QED BY <1>3, <3>1, MinOfNumbers
  <2>2. m \in 1..Len(t) /\ strict_match(t[m], flow)
    BY <1>1, <2>1
  <2>3. WithoutFirstStrict(t, flow) = RemoveAt(t, m)
    BY <1>3 DEF WithoutFirstStrict
  <2> HIDE DEF same, m
  <2>4. Len(t) - 1 \in Nat /\ h \in [1..Len(t) - 1 -> 1..Len(t)]
    BY <1>1, <2>2
  <2>5. \A i, j \in 1..Len(t) - 1 : i < j => h[i] < h[j]
    BY <1>1, <2>2
  <2>6. \A i \in 1..Len(t) - 1 : h[i] # m
    BY <1>1, <2>2
  <2>7. WithoutFirstStrict(t, flow) = [i \in 1..Len(t) - 1 |-> t[h[i]]]
    BY <1>1, <2>2, <2>3, RemovedFromTable
  <2> HIDE DEF h
  <2>8. /\ Sound(WithoutFirstStrict(t, flow))
        /\ NoTwice(t) => NoTwice(WithoutFirstStrict(t, flow))
    BY <2>4, <2>5, <2>7, PartOfTable
  <2>9. ASSUME NoTwice(t), ZeroWhereWild(flow.match),
               NEW i \in 1..Len(t) - 1, strict_match(t[h[i]], flow)
        PROVE  FALSE
    <3>1. h[i] \in 1..Len(t) /\ h[i] # m
      BY <2>4, <2>6
    <3>2. ZeroWhereWild(t[h[i]].match) /\ ZeroWhereWild(t[m].match)
      BY <1>1, <2>2, <2>9, <3>1 DEF NoTwice
    <3>3. strict_match(t[h[i]], t[m])
      BY <1>1, <2>2, <2>9, <3>1, <3>2, StrictMatchOfRules
    <3> QED BY <1>1, <2>2, <2>9, <3>1, <3>3 DEF NoTwice, HasNoDuplicates
  <2> QED BY <2>7, <2>8, <2>9
<1> QED BY <1>2, <1>3

\* insert into the set puts a flow behind those of smaller priority and in
\* front of all others (datapath.hh:14).
LEMMA InsertedIntoTable ==
  ASSUME NEW t, Sound(t), NEW flow \in Rules
  PROVE  /\ Sound(Inserted(t, flow))
         /\ \E k \in DOMAIN Inserted(t, flow) : Inserted(t, flow)[k] = flow
         /\ /\ NoTwice(t) /\ ZeroWhereWild(flow.match)
            /\ \A k \in DOMAIN t : ~strict_match(t[k], flow)
            => NoTwice(Inserted(t, flow))
<1> DEFINE lower == { k \in DOMAIN t : t[k].priority < flow.priority }
           c == Cardinality(lower)
           front == SubSeq(t, 1, c)
           back == SubSeq(t, c + 1, Len(t))
           new == front \o <<flow>> \o back
<1>1. /\ t \in Seq(Rules) /\ DOMAIN t = 1..Len(t) /\ Len(t) \in Nat
      /\ \A k \in 1..Len(t) : t[k] \in Rules /\ t[k].priority \in Nat
      /\ flow.priority \in Nat
  BY LenProperties, ElementOfSeq, RulesAssumption DEF Sound, FlowEntry
<1>2. \A j \in 1..Len(t), k \in lower : j < k => j \in lower
  <2> TAKE j \in 1..Len(t), k \in lower
  <2> HAVE j < k
  <2>1. t[j].priority <= t[k].priority /\ t[k].priority < flow.priority
    BY <1>1 DEF Sound, InTableOrder
  <2> QED BY <1>1, <2>1
<1>3. c \in 0..Len(t) /\ lower = 1..c
  BY <1>1, <1>2, FirstNumbers
<1>4. /\ \A k \in 1..c : t[k].priority < flow.priority
      /\ \A k \in c + 1..Len(t) : flow.priority <= t[k].priority
  <2>1. ASSUME NEW k \in 1..c PROVE t[k].priority < flow.priority
    BY <1>3, <2>1
  <2>2. ASSUME NEW k \in c + 1..Len(t) PROVE flow.priority <= t[k].priority
    <3>1. k \in 1..Len(t) /\ k \notin lower
      <4> HIDE DEF lower, c
      <4> QED BY <1>1, <1>3
    <3> QED BY <1>1, <3>1
  <2> QED BY <2>1, <2>2
<1>5. Inserted(t, flow) = new
  <2>1. Inserted(t, flow) = InsertAt(t, c + 1, flow)
    BY Zenon DEF Inserted
  <2> HIDE DEF c
  <2>2. InsertAt(t, c + 1, flow)
          = SubSeq(t, 1, (c + 1) - 1) \o <<flow>> \o SubSeq(t, c + 1, Len(t))
    BY Zenon DEF InsertAt
  <2>3. (c + 1) - 1 = c
    BY <1>1, <1>3
  <2> QED BY <2>1, <2>2, <2>3
<1> HIDE DEF lower, c
<1>6. /\ front \in Seq(Rules) /\ Len(front) = c
      /\ \A i \in 1..c : front[i] = t[i]
  BY <1>1, <1>3, SubSeqProperties
<1>7. /\ back \in Seq(Rules) /\ Len(back) = Len(t) - c
      /\ \A i \in 1..Len(t) - c : back[i] = t[c + i]
  <2>1. c + 1 \in Int /\ Len(t) \in Int /\ \A i \in c + 1..Len(t) : t[i] \in Rules
    BY <1>1, <1>3
  <2>2. /\ back \in Seq(Rules)
        /\ Len(back) = IF c + 1 <= Len(t) THEN Len(t) - (c + 1) + 1 ELSE 0
        /\ \A i \in 1..Len(t) - (c + 1) + 1 : back[i] = t[c + 1 + i - 1]
    BY <2>1, SubSeqProperties
  <2>3. /\ Len(t) - (c + 1) + 1 = Len(t) - c
        /\ \A i \in 1..Len(t) - c : c + 1 + i - 1 = c + i
    BY <1>1, <1>3
  <2> HIDE DEF back
  <2>4. c \in Nat /\ Len(t) \in Nat /\ c <= Len(t)
    BY <1>1, <1>3
  <2>5. Len(back) = Len(t) - c
    <3>1. CASE c + 1 <= Len(t)
      BY <2>2, <2>3, <3>1
    <3>2. CASE ~(c + 1 <= Len(t))
      BY <2>2, <2>4, <3>2
    <3> QED BY <3>1, <3>2
  <2> QED BY <2>2, <2>3, <2>5
<1>8. /\ <<flow>> \in Seq(Rules) /\ Len(<<flow>>) = 1 /\ <<flow>>[1] = flow
  OBVIOUS
<1> HIDE DEF front, back
<1>9. /\ front \o <<flow>> \in Seq(Rules) /\ Len(front \o <<flow>>) = c + 1
      /\ \A i \in 1..c + 1 : (front \o <<flow>>)[i] = IF i <= c THEN t[i] ELSE flow
  <2>1. /\ front \o <<flow>> \in Seq(Rules)
        /\ Len(front \o <<flow>>) = Len(front) + Len(<<flow>>)
        /\ \A i \in 1..Len(front) + Len(<<flow>>) :
             (front \o <<flow>>)[i] = IF i <= Len(front) THEN front[i]
                                      ELSE <<flow>>[i - Len(front)]
    BY <1>6, <1>8, ConcatProperties
  <2>2. \A i \in 1..c + 1 : ~(i <= c) => i - c = 1
    BY <1>1, <1>3
  <2> QED BY <1>1, <1>3, <1>6, <1>8, <2>1, <2>2
<1>10. /\ new \in Seq(Rules) /\ Len(new) = Len(t) + 1
       /\ \A i \in 1..Len(t) + 1 :
            new[i] = IF i <= c THEN t[i] ELSE IF i = c + 1 THEN flow ELSE t[i - 1]
  <2> DEFINE two == front \o <<flow>>
  <2> HIDE DEF two
  <2>1. /\ two \o back \in Seq(Rules)
        /\ Len(two \o back) = Len(two) + Len(back)
        /\ \A i \in 1..Len(two) + Len(back) :
             (two \o back)[i] = IF i <= Len(two) THEN two[i] ELSE back[i - Len(two)]
    BY <1>7, <1>9, ConcatProperties DEF two
  <2>2. Len(two) = c + 1 /\ Len(two) + Len(back) = Len(t) + 1
    <3>1. Len(two) = c + 1 /\ Len(back) = Len(t) - c
      BY <1>7, <1>9 DEF two
    <3>2. c + 1 + (Len(t) - c) = Len(t) + 1
      BY <1>1, <1>3
    <3> QED BY <3>1, <3>2
  <2>3. \A i \in 1..Len(t) + 1 : i > c + 1 =>
          i - (c + 1) \in 1..Len(t) - c /\ c + (i - (c + 1)) = i - 1
    <3>1. c \in Nat /\ Len(t) \in Nat /\ c <= Len(t)
      BY <1>1, <1>3
    <3> QED BY <3>1
  <2>4. \A i \in 1..Len(t) + 1 : i > c + 1 => back[i - (c + 1)] = t[i - 1]
    BY <1>7, <2>3
  <2>5. \A i \in 1..c + 1 : two[i] = IF i <= c THEN t[i] ELSE flow
    BY <1>9 DEF two
  <2>6. new = two \o back
    BY DEF two
  <2> HIDE DEF new
  <2> QED BY <1>1, <1>3, <2>1, <2>2, <2>4, <2>5, <2>6
<1> HIDE DEF new
<1>11. DOMAIN new = 1..Len(t) + 1
  BY <1>10, LenProperties
<1>12. InTableOrder(new)
  <2> SUFFICES ASSUME NEW j \in 1..Len(t) + 1, NEW k \in 1..Len(t) + 1, j < k
               PROVE  new[j].priority <= new[k].priority
    BY <1>11 DEF InTableOrder
  <2>1. \A a, b \in 1..Len(t) : a < b => t[a].priority <= t[b].priority
    BY <1>1 DEF Sound, InTableOrder
  <2>2. CASE k <= c
    BY <1>1, <1>3, <1>10, <2>1, <2>2
  <2>3. CASE k = c + 1
    <3>1. j \in 1..c /\ new[j] = t[j] /\ new[k] = flow
      BY <1>1, <1>3, <1>10, <2>3
    <3>2. t[j].priority < flow.priority /\ t[j].priority \in Nat
      BY <1>1, <1>3, <1>4, <3>1
    <3> QED BY <1>1, <3>1, <3>2
  <2>4. CASE k > c + 1 /\ j = c + 1
    <3>1. k - 1 \in c + 1..Len(t) /\ new[j] = flow /\ new[k] = t[k - 1]
      BY <1>1, <1>3, <1>10, <2>4
    <3> QED BY <1>4, <3>1
  <2>5. CASE k > c + 1 /\ j # c + 1
    <3> DEFINE a == IF j <= c THEN j ELSE j - 1
    <3>1. a \in 1..Len(t) /\ k - 1 \in 1..Len(t) /\ a < k - 1
      BY <1>1, <1>3, <2>5
    <3>2. new[j] = t[a] /\ new[k] = t[k - 1]
      BY <1>1, <1>3, <1>10, <2>5
    <3> QED BY <2>1, <3>1, <3>2
  <2> QED BY <1>1, <1>3, <2>2, <2>3, <2>4, <2>5
<1>13. new[c + 1] = flow /\ c + 1 \in DOMAIN new
  BY <1>1, <1>3, <1>10, <1>11
<1>14. ASSUME NoTwice(t), ZeroWhereWild(flow.match),
              \A k \in DOMAIN t : ~strict_match(t[k], flow)
       PROVE  NoTwice(new)
  <2> DEFINE old(i) == IF i <= c THEN i ELSE i - 1
  <2>1. \A i \in 1..Len(t) + 1 :
          i # c + 1 => old(i) \in 1..Len(t) /\ new[i] = t[old(i)]
    BY <1>1, <1>3, <1>10
  <2>2. \A i \in 1..Len(t) : ZeroWhereWild(t[i].match)
    BY <1>1, <1>14 DEF NoTwice
  <2>3. \A i \in 1..Len(t) : ~strict_match(t[i], flow) /\ ~strict_match(flow, t[i])
    BY <1>1, <1>14, <2>2, StrictMatchOfRules
  <2>4. \A i \in 1..Len(t) + 1 : ZeroWhereWild(new[i].match)
    BY <1>13, <1>14, <2>1, <2>2
  <2>5. ASSUME NEW j \in 1..Len(t) + 1, NEW k \in 1..Len(t) + 1, j # k,
               strict_match(new[j], new[k])
        PROVE  FALSE
    <3>1. CASE j = c + 1 \/ k = c + 1
      BY <1>13, <2>1, <2>3, <2>5, <3>1
    <3>2. CASE j # c + 1 /\ k # c + 1
      <4>1. old(j) # old(k)
        BY <1>1, <1>3, <2>5, <3>2
      <4> QED BY <1>1, <1>14, <2>1, <2>5, <3>2, <4>1 DEF NoTwice, HasNoDuplicates
    <3> QED BY <3>1, <3>2
  <2> QED BY <1>11, <2>4, <2>5 DEF NoTwice, HasNoDuplicates
<1> QED BY <1>5, <1>10, <1>12, <1>13, <1>14 DEF Sound

\* OFPFC_DELETE leaves a part of the table in its order (datapath.cc:96-107).
LEMMA DeletedFromTable ==
  ASSUME NEW t, Sound(t), NEW match
  PROVE  /\ Sound(WithoutMatching(t, match))
         /\ NoTwice(t) => NoTwice(WithoutMatching(t, match))
<1> DEFINE kept == { k \in DOMAIN t : ~non_strict_match(FlowOf(match, 0), t[k]) }
           n == Cardinality(kept)
           h == InOrder(kept)
<1>1. DOMAIN t = 1..Len(t) /\ Len(t) \in Nat
  BY LenProperties DEF Sound
<1>2. kept \in SUBSET (1..Len(t))
  BY <1>1
<1>3. WithoutMatching(t, match) = [i \in 1..n |-> t[h[i]]]
  BY DEF WithoutMatching
<1> HIDE DEF kept
<1>4. n \in Nat /\ h \in [1..n -> kept] /\ \A i, j \in 1..n : i < j => h[i] < h[j]
  BY <1>1, <1>2, OrderOfNumbers
<1>5. h \in [1..n -> 1..Len(t)]
  BY <1>2, <1>4
<1> HIDE DEF n, h
<1> QED BY <1>3, <1>4, <1>5, PartOfTable

-----------------------------------------------------------------------------
(* The table in every state *)

TableInv == Sound(flow_table) /\ (zeroed => NoTwice(flow_table))

\* Only flow-mods change the table: Datapath::handle_flow_mod.
LEMMA TableStep ==
  TableInv /\ [Next]_vars => TableInv'
<1> SUFFICES ASSUME TableInv, [Next]_vars
             PROVE  TableInv'
  OBVIOUS
<1> DEFINE Zeroes == \A k \in DOMAIN flow_table' : ZeroWhereWild(flow_table'[k].match)
           Kept == Sound(flow_table') /\ (zeroed /\ Zeroes => NoTwice(flow_table'))
<1>1. ASSUME NEW flow \in Rules,
             flow_table' = Inserted(WithoutFirstStrict(flow_table, flow), flow)
      PROVE  Kept
  <2> DEFINE rest == WithoutFirstStrict(flow_table, flow)
  <2>1. /\ Sound(rest)
        /\ zeroed /\ ZeroWhereWild(flow.match) =>
             NoTwice(rest) /\ \A k \in DOMAIN rest : ~strict_match(rest[k], flow)
    BY ReplacedInTable DEF TableInv
  <2> HIDE DEF rest
  <2>2. /\ Sound(flow_table') /\ \E k \in DOMAIN flow_table' : flow_table'[k] = flow
        /\ NoTwice(rest) /\ ZeroWhereWild(flow.match)
           /\ (\A k \in DOMAIN rest : ~strict_match(rest[k], flow)) => NoTwice(flow_table')
    <3>1. flow_table' = Inserted(rest, flow)
      BY <1>1 DEF rest
    <3> QED BY <2>1, <3>1, InsertedIntoTable
  <2>3. Zeroes => ZeroWhereWild(flow.match)
    BY <2>2
  <2> QED BY <2>1, <2>2, <2>3
<1>2. ASSUME flow_table' = flow_table PROVE Kept
  BY <1>2 DEF TableInv
<1>3. ASSUME NEW flow \in Rules, AddFlow(flow) PROVE Kept
  BY <1>1, <1>3 DEF AddFlow, TableChanged
<1>4. ASSUME NEW id \in 1..MaxIds, NEW flow \in AnswerRules, AddFlowFor(id, flow)
      PROVE  Kept
  <2>1. flow \in Rules
    BY RulesAssumption
  <2> QED BY <1>1, <1>4, <2>1 DEF AddFlowFor
<1>5. ASSUME NEW match \in Deletes, DeleteFlows(match) PROVE Kept
  BY <1>5, DeletedFromTable DEF DeleteFlows, TableChanged, TableInv
<1>6. ASSUME NEW t \in Threads, ThreadStep(t) PROVE flow_table' = flow_table
  BY <1>6 DEF ThreadStep, Output, OutputController, LoadBufferId, StoreBufferId,
              Insert, AnnounceMiss, AnnounceOutput, Finish
<1>7. CASE Next
  <2>1. Step /\ zeroed' = (zeroed /\ Zeroes)
    BY <1>7 DEF Next
  <2> SUFFICES Kept
    BY <2>1 DEF TableInv
  <2> HIDE DEF Kept
  <2>2. CASE \E p \in Ports : Lookup(p)
    BY <1>2, <2>2 DEF Lookup
  <2>3. CASE \E p \in Ports, frame \in Frames, s \in 1..Slots : Capture(p, frame, s)
    BY <1>2, <2>3 DEF Capture
  <2>4. CASE \E t \in Threads : ThreadStep(t)
    BY <1>2, <1>6, <2>4
  <2>5. CASE Connect \/ Disconnect \/ StopLoop \/ Destroy
    BY <1>2, <2>5 DEF Connect, Disconnect, StopLoop, Destroy
  <2>6. CASE \E id \in 1..MaxIds, acts \in ActionLists : PacketOut(id, acts)
    BY <1>2, <2>6 DEF PacketOut
  <2>7. CASE \E p \in Ports \cup {OFPP_NONE}, frame \in Frames, acts \in ActionLists :
               PacketOutData(p, frame, acts)
    BY <1>2, <2>7 DEF PacketOutData
  <2>8. CASE \E p \in Ports : StopPort(p)
    BY <1>2, <2>8 DEF StopPort
  <2> QED BY <1>3, <1>4, <1>5, <2>1, <2>2, <2>3, <2>4, <2>5, <2>6, <2>7, <2>8 DEF Step
<1>8. CASE UNCHANGED vars
  BY <1>8 DEF vars, TableInv
<1> QED BY <1>7, <1>8

\* However many rules are added, replaced and deleted in whatever order and with
\* whatever values in the fields they wildcard, the flow table stays ordered by
\* priority, which the lookup relies on (port.cc:48-63).  No rule is in it
\* twice, which the loop of OFPFC_ADD relies on (datapath.cc:68-74), as long as
\* every rule it held came with 0 in those fields; the code does not see to that.
THEOREM TableAlwaysSound == Spec => []TableSound
<1>1. Init => TableInv
  BY EmptySeq DEF Init, TableInv, Sound, InTableOrder, NoTwice, HasNoDuplicates
<1>2. TableInv => TableSound
  BY DEF TableInv, Sound, InTableOrder, NoTwice, HasNoDuplicates, TableSound,
         TableOrdered, NoDuplicateRules
<1> QED BY <1>1, <1>2, TableStep, PTL DEF Spec

-----------------------------------------------------------------------------
(* The packets and the threads *)

Packet == [in_port : Ports \cup {OFPP_NONE}, slot : 0..Slots, captured : Frames,
           live : BOOLEAN]

Steps == {"idle", "lookup", "act", "load", "store", "insert", "announce"}

Work == [pc : Steps, pkt : Nat, acts : Seq(Nat), id : 0..MaxIds, miss : BOOLEAN]

\* The types of what the threads share, and that indexes into the packets and
\* buffer ids are in range.
DTypeOK ==
  /\ packets \in Seq(Packet)
  /\ ring \in [Ports -> [1..Slots -> Frames \cup {NULL}]]
  /\ buffer_id \in 0..MaxIds
  /\ pkt_buffer \in [1..MaxIds -> {NULL} \cup 0..Len(packets)]
  /\ thread \in [Threads -> Work]
  /\ pending \subseteq [id : 1..MaxIds, pkt : 1..Len(packets)]
  /\ closed \subseteq Ports

\* A capture thread works on a packet of its port's ring, the event loop never
\* on one that has matched nothing; without a packet there is nothing to do.
WorkInv ==
  /\ \A t \in Threads : /\ thread[t].pkt <= Len(packets)
                        /\ thread[t].pc = "store" => thread[t].id < MaxIds
                        /\ thread[t].pc \in {"insert", "announce"} =>
                             thread[t].id > 0 /\ buffer_id > 0
  /\ \A p \in Ports : thread[p].pc # "idle" =>
       /\ thread[p].pkt # 0
       /\ packets[thread[p].pkt].in_port = p
       /\ packets[thread[p].pkt].slot # 0
  /\ thread[Loop].pc # "lookup" /\ ~thread[Loop].miss
  /\ Running => \A t \in Threads :
                  thread[t].pkt = 0 => thread[t].acts = <<>>

\* After the event loop has ended nothing is left to be done or answered.
EndInv ==
  main # "running" => /\ \A t \in Threads : thread[t].pc = "idle"
                      /\ pending = {} /\ closed = Ports /\ conn # "up"

\* The ring holds the bytes of every packet whose slot has been neither
\* reused nor freed.
RingInv ==
  \A k \in DOMAIN packets : packets[k].slot # 0 =>
    /\ packets[k].in_port \in Ports
    /\ \/ ring[packets[k].in_port][packets[k].slot] = packets[k].captured
       \/ Reused(k) \/ Freed(k)

Busy(t) == thread[t].pc # "idle"

\* While ids are given out by one thread at a time: the id in hand is the last
\* one, whose entry is made by that thread, unless the controller has named it;
\* ...
IdInv ==
  /\ \A t, u \in Threads : GivingOutId(t) /\ GivingOutId(u) => t = u
  /\ \A id \in 1..MaxIds : id > buffer_id /\ id \notin named => pkt_buffer[id] = NULL
  /\ \A t \in Threads :
       /\ thread[t].pc \in {"store", "insert", "announce"} => thread[t].id = buffer_id
       /\ buffer_id \notin named =>
            /\ thread[t].pc = "insert" => pkt_buffer[buffer_id] = NULL
            /\ thread[t].pc = "announce" /\ thread[t].miss =>
                 pkt_buffer[buffer_id] = thread[t].pkt

\* ... packet k can be reached by none of the ids but these, so it is not
\* deleted until one of them is named: ...
Safe(k, ids) ==
  /\ packets[k].live
  /\ \A id \in 1..MaxIds : pkt_buffer[id] = k => id \in ids
  /\ Busy(Loop) => thread[Loop].pkt # k

\* ... the packet of a packet-in is where its id leads and in no other place
\* until the controller names the id; ...
Waits(r) ==
  r.id \notin named => /\ pkt_buffer[r.id] = r.pkt
                       /\ Safe(r.pkt, {r.id})
                       /\ \A p \in Ports : Busy(p) => thread[p].pkt # r.pkt

\* ... and a packet that may become one is in no place but its capture thread
\* and the entry that was made for it.
Fresh(p) ==
  \/ thread[p].pc = "lookup"
  \/ /\ thread[p].miss
     /\ \/ thread[p].pc \in {"load", "store", "insert"}
        \/ thread[p].pc = "announce" /\ buffer_id \notin named

Taken(p) == IF thread[p].pc = "announce" THEN {buffer_id} ELSE {}

PacketInv ==
  /\ \A r \in pending : Waits(r)
  /\ \A p \in Ports : Fresh(p) => Safe(thread[p].pkt, Taken(p))

AloneInv == ~overlapped => IdInv /\ PacketInv

\* The record of a thread's work is what its fields are.
LEMMA WorkFields ==
  ASSUME DTypeOK, NEW t \in Threads
  PROVE  /\ thread[t] \in Work
         /\ thread[t] = [pc |-> thread[t].pc, pkt |-> thread[t].pkt,
                         acts |-> thread[t].acts, id |-> thread[t].id,
                         miss |-> thread[t].miss]
         /\ thread[t].pc \in Steps /\ thread[t].pkt \in Nat
         /\ thread[t].acts \in Seq(Nat) /\ thread[t].id \in 0..MaxIds
         /\ thread[t].miss \in BOOLEAN
  BY DEF DTypeOK, Work

\* Thread t comes to this and the other threads stay as they are.
Becomes(t, pc, pkt, acts, id, miss) ==
  /\ thread' \in [Threads -> Work]
  /\ \A u \in Threads \ {t} : thread'[u] = thread[u]
  /\ thread'[t].pc = pc /\ thread'[t].pkt = pkt /\ thread'[t].acts = acts
  /\ thread'[t].id = id /\ thread'[t].miss = miss

\* What the steps of the threads make of their work.
LEMMA CaptureWork ==
  ASSUME DTypeOK, NEW p \in Ports, NEW frame, NEW s, Capture(p, frame, s)
  PROVE  Becomes(p, "lookup", Len(packets) + 1, <<>>, 0, FALSE)
<1>1. thread' = [thread EXCEPT ![p] = [Idle EXCEPT !.pc = "lookup", !.pkt = Len(packets) + 1]]
  BY DEF Capture
<1>2. Len(packets) + 1 \in Nat /\ p \in Threads /\ <<>> \in Seq(Nat) /\ 0 \in 0..MaxIds
  BY LenProperties, DatapathAssumption DEF DTypeOK, Threads
<1> QED BY <1>1, <1>2 DEF DTypeOK, Becomes, Idle, Work, Steps

\* The event loop turns to the actions it was sent.
LEMMA PerformWork ==
  ASSUME DTypeOK, NEW k \in Nat, NEW acts \in Seq(Nat), Perform(k, acts)
  PROVE  Becomes(Loop, "act", k, acts, 0, FALSE)
<1>1. Loop \in Threads /\ 0 \in 0..MaxIds
  BY DatapathAssumption DEF Threads
<1> QED BY <1>1 DEF Perform, DTypeOK, Becomes, Idle, Work, Steps

\* A capture thread turns to the actions of a flow, or to a miss.
LEMMA LookupWork ==
  ASSUME DTypeOK, Sound(flow_table), NEW p \in Ports, Lookup(p)
  PROVE  \/ \E acts \in Seq(Nat) :
              Becomes(p, "act", thread[p].pkt, acts, thread[p].id, thread[p].miss)
         \/ Becomes(p, "load", thread[p].pkt, thread[p].acts, thread[p].id, TRUE)
<1> DEFINE matching == { k \in DOMAIN flow_table :
                           pkt_match(flow_table[k], PacketMatch(thread[p].pkt)) }
           acts == flow_table[Min(matching)].actions
<1>1. p \in Threads
  BY DEF Threads
<1>2. CASE thread' = [thread EXCEPT ![p].pc = "load", ![p].miss = TRUE]
  BY <1>1, <1>2, WorkFields DEF DTypeOK, Becomes, Work, Steps
<1>3. CASE /\ matching # {}
           /\ thread' = [thread EXCEPT ![p].pc = "act", ![p].acts = acts]
  <2>1. flow_table \in Seq(Rules) /\ DOMAIN flow_table = 1..Len(flow_table)
        /\ Len(flow_table) \in Nat
    BY LenProperties DEF Sound
  <2>2. matching \in SUBSET Nat /\ matching \subseteq DOMAIN flow_table
    BY <2>1
  <2> HIDE DEF matching
  <2>3. Min(matching) \in matching
    BY <1>3, <2>2, MinOfNumbers
  <2>4. flow_table[Min(matching)] \in FlowEntry
    BY <2>1, <2>2, <2>3, ElementOfSeq, RulesAssumption
  <2>5. acts \in Seq(Nat)
    BY <2>4 DEF FlowEntry
  <2> HIDE DEF acts
  <2> QED BY <1>1, <1>3, <2>5, WorkFields DEF DTypeOK, Becomes, Work, Steps
<1> QED BY <1>2, <1>3 DEF Lookup

\* An output is one action less.
LEMMA OutputWork ==
  ASSUME DTypeOK, NEW t \in Threads, Output(t)
  PROVE  Becomes(t, "act", thread[t].pkt, Tail(thread[t].acts), thread[t].id,
                 thread[t].miss)
<1>1. Tail(thread[t].acts) \in Seq(Nat)
  BY WorkFields, HeadTailProperties DEF Output
<1> QED BY <1>1, WorkFields DEF Output, DTypeOK, Becomes, Work, Steps

\* An output to the controller begins to draw an id.
LEMMA OutputControllerWork ==
  ASSUME DTypeOK, NEW t \in Threads, OutputController(t)
  PROVE  Becomes(t, "load", thread[t].pkt, Tail(thread[t].acts), thread[t].id, FALSE)
<1>1. Tail(thread[t].acts) \in Seq(Nat)
  BY WorkFields, HeadTailProperties DEF OutputController
<1> QED BY <1>1, WorkFields DEF OutputController, DTypeOK, Becomes, Work, Steps

\* The thread has loaded the last id.
LEMMA LoadWork ==
  ASSUME DTypeOK, NEW t \in Threads, LoadBufferId(t)
  PROVE  Becomes(t, "store", thread[t].pkt, thread[t].acts, buffer_id, thread[t].miss)
  BY WorkFields DEF LoadBufferId, DTypeOK, Becomes, Work, Steps

\* The thread has stored the next one.
LEMMA StoreWork ==
  ASSUME DTypeOK, WorkInv, NEW t \in Threads, StoreBufferId(t)
  PROVE  Becomes(t, "insert", thread[t].pkt, thread[t].acts, thread[t].id + 1,
                 thread[t].miss)
<1>1. thread[t].id + 1 \in 0..MaxIds
  <2>1. thread[t].id \in 0..MaxIds /\ thread[t].id < MaxIds
    BY WorkFields DEF StoreBufferId, WorkInv
  <2> QED BY <2>1, DatapathAssumption
<1> QED BY <1>1, WorkFields DEF StoreBufferId, DTypeOK, Becomes, Work, Steps

\* The thread has made the entry of its id.
LEMMA InsertWork ==
  ASSUME DTypeOK, NEW t \in Threads, Insert(t)
  PROVE  Becomes(t, "announce", thread[t].pkt, thread[t].acts, thread[t].id,
                 thread[t].miss)
  BY WorkFields DEF Insert, DTypeOK, Becomes, Work, Steps

\* The thread goes on with the actions behind an announced output.
LEMMA AnnounceOutputWork ==
  ASSUME DTypeOK, NEW t \in Threads, AnnounceOutput(t)
  PROVE  Becomes(t, "act", thread[t].pkt, thread[t].acts, thread[t].id, thread[t].miss)
  BY WorkFields DEF AnnounceOutput, DTypeOK, Becomes, Work, Steps

\* A thread that has finished works on nothing.
LEMMA IdleWork ==
  ASSUME DTypeOK, NEW t \in Threads, thread' = [thread EXCEPT ![t] = Idle]
  PROVE  Becomes(t, "idle", 0, <<>>, 0, FALSE)
<1>1. 0 \in 0..MaxIds /\ <<>> \in Seq(Nat)
  BY DatapathAssumption
<1> QED BY <1>1 DEF DTypeOK, Becomes, Idle, Work, Steps

\* What the steps make of the packets: a packet is added, ...
LEMMA PacketAdded ==
  ASSUME DTypeOK, NEW k \in Packet, packets' = Append(packets, k)
  PROVE  /\ packets' \in Seq(Packet)
         /\ Len(packets') = Len(packets) + 1
         /\ \A j \in 1..Len(packets) : packets'[j] = packets[j]
         /\ packets'[Len(packets) + 1] = k
         /\ Len(packets) \in Nat
  BY AppendProperties, LenProperties DEF DTypeOK

\* ... or packets are deleted, which leaves what they are.
SamePackets ==
  /\ packets' \in Seq(Packet)
  /\ Len(packets') = Len(packets)
  /\ \A j \in 1..Len(packets) : /\ packets'[j].in_port = packets[j].in_port
                                /\ packets'[j].slot = packets[j].slot
                                /\ packets'[j].captured = packets[j].captured

\* Packets that do not change are the same ones.
LEMMA PacketsStay ==
  ASSUME DTypeOK, UNCHANGED packets
  PROVE  SamePackets
  BY DEF DTypeOK, SamePackets

\* Finishing deletes no packet but the one the event loop has worked on.
LEMMA PacketFinished ==
  ASSUME DTypeOK, WorkInv, NEW t \in Threads, Finish(t)
  PROVE  /\ SamePackets
         /\ \A j \in 1..Len(packets) :
              \/ packets'[j].live = packets[j].live
              \/ t = Loop /\ j = thread[Loop].pkt
<1>1. CASE packets' = packets
  BY <1>1, PacketsStay
<1>2. CASE t = Loop /\ thread[t].pkt # 0
           /\ packets' = [packets EXCEPT ![thread[t].pkt].live = FALSE]
  <2> DEFINE k == thread[t].pkt
             deleted == [packets[k] EXCEPT !.live = FALSE]
  <2>1. k \in 1..Len(packets) /\ packets \in Seq(Packet) /\ Len(packets) \in Nat
    BY <1>2, WorkFields, LenProperties DEF WorkInv, DTypeOK
  <2>2. packets[k] \in Packet
    BY <2>1, ElementOfSeq
  <2> HIDE DEF k
  <2>3. /\ deleted \in Packet /\ deleted.in_port = packets[k].in_port
        /\ deleted.slot = packets[k].slot /\ deleted.captured = packets[k].captured
    BY <2>2 DEF Packet
  <2>4. packets' = [packets EXCEPT ![k] = deleted]
    BY <1>2 DEF k
  <2> HIDE DEF deleted
  <2>5. /\ packets' \in Seq(Packet) /\ Len(packets') = Len(packets)
        /\ \A j \in 1..Len(packets) : packets'[j] = IF j = k THEN deleted ELSE packets[j]
    BY <2>1, <2>3, <2>4, ExceptSeq
  <2> QED BY <1>2, <2>3, <2>5 DEF SamePackets, k
<1> QED BY <1>1, <1>2 DEF Finish

\* The destructor deletes packets and forgets none.
LEMMA PacketsDestroyed ==
  ASSUME DTypeOK, Destroy
  PROVE  SamePackets
<1>1. /\ packets \in Seq(Packet) /\ DOMAIN packets = 1..Len(packets)
      /\ Len(packets) \in Nat /\ \A k \in 1..Len(packets) : packets[k] \in Packet
  BY LenProperties, ElementOfSeq DEF DTypeOK
<1> DEFINE held(k) == \A id \in { id \in DOMAIN pkt_buffer : pkt_buffer[id] \notin {NULL, 0} } :
                        pkt_buffer[id] # k
           after(k) == [packets[k] EXCEPT !.live = packets[k].live /\ held(k)]
<1>2. packets' = [k \in 1..Len(packets) |-> after(k)]
  BY <1>1 DEF Destroy
<1> HIDE DEF held
<1>3. \A k \in 1..Len(packets) :
        /\ after(k) \in Packet /\ after(k).in_port = packets[k].in_port
        /\ after(k).slot = packets[k].slot /\ after(k).captured = packets[k].captured
  BY <1>1 DEF Packet
<1> HIDE DEF after
<1>4. packets' \in Seq(Packet)
  BY <1>1, <1>2, <1>3, IsASeq
<1>5. Len(packets') = Len(packets)
  BY <1>1, <1>2, <1>4, LenProperties
<1> QED BY <1>2, <1>3, <1>4, <1>5 DEF SamePackets

\* The ids that a thread may mention, and what the event loop fetches.
LEMMA IdsSeen ==
  ASSUME DTypeOK, WorkInv, NEW t \in Threads, thread[t].pc \in {"insert", "announce"}
  PROVE  BufferIdSeen(t) \subseteq 1..MaxIds
<1>1. thread[t].id \in 0..MaxIds /\ thread[t].id > 0 /\ buffer_id \in 0..MaxIds
      /\ buffer_id > 0
  BY WorkFields DEF WorkInv, DTypeOK
<1> QED BY <1>1, DatapathAssumption DEF BufferIdSeen

\* A thread works on a packet that was allocated, or on none.
LEMMA PktInRange ==
  ASSUME DTypeOK, WorkInv, NEW t \in Threads
  PROVE  thread[t].pkt \in 0..Len(packets)
<1>1. thread[t].pkt \in Nat /\ Len(packets) \in Nat
  BY WorkFields, LenProperties DEF DTypeOK
<1>2. thread[t].pkt <= Len(packets)
  BY DEF WorkInv
<1> QED BY <1>1, <1>2

\* An answer is given a packet that was allocated, or none.
LEMMA WhatIsFetched ==
  ASSUME DTypeOK, NEW id \in 1..MaxIds
  PROVE  /\ Fetched(id) \in 0..Len(packets)
         /\ Fetch(id) => pkt_buffer' \in [1..MaxIds -> {NULL} \cup 0..Len(packets)]
<1>1. Len(packets) \in Nat
  BY LenProperties DEF DTypeOK
<1>2. pkt_buffer[id] \in {NULL} \cup 0..Len(packets)
  BY <1>1 DEF DTypeOK
<1>3. Fetched(id) \in 0..Len(packets)
  BY <1>1, <1>2 DEF Fetched
<1> QED BY <1>1, <1>3 DEF Fetch, DTypeOK

\* Indexes and ids stay in range.
LEMMA TypesStep ==
  ASSUME DTypeOK, WorkInv, Sound(flow_table), [Next]_vars
  PROVE  DTypeOK' /\ Len(packets) \in Nat /\ Len(packets') >= Len(packets)
<1>1. Len(packets) \in Nat /\ Loop \in Threads /\ Ports \subseteq Threads
  BY LenProperties DEF DTypeOK, Threads
<1>2. SamePackets => packets' \in Seq(Packet) /\ Len(packets') = Len(packets)
  BY DEF SamePackets
<1>3. \A t, pc, pkt, acts, id, miss : Becomes(t, pc, pkt, acts, id, miss) =>
                                        thread' \in [Threads -> Work]
  BY DEF Becomes
<1>4. ASSUME packets' \in Seq(Packet), Len(packets') >= Len(packets), ring' = ring,
             buffer_id' = buffer_id, thread' \in [Threads -> Work],
             pkt_buffer' \in [1..MaxIds -> {NULL} \cup 0..Len(packets)],
             pending' \subseteq pending, closed' = closed
      PROVE  DTypeOK' /\ Len(packets') >= Len(packets)
  <2>1. Len(packets') \in Nat /\ 0..Len(packets) \subseteq 0..Len(packets')
        /\ 1..Len(packets) \subseteq 1..Len(packets')
    BY <1>1, <1>4, LenProperties
  <2>2. pkt_buffer' \in [1..MaxIds -> {NULL} \cup 0..Len(packets')]
    BY <1>4, <2>1
  <2>3. pending' \subseteq [id : 1..MaxIds, pkt : 1..Len(packets')]
    BY <1>4, <2>1 DEF DTypeOK
  <2> QED BY <1>4, <2>2, <2>3 DEF DTypeOK
<1>5. ASSUME packets' = packets
      PROVE  packets' \in Seq(Packet) /\ Len(packets') >= Len(packets)
  BY <1>1, <1>5 DEF DTypeOK
<1>6. ASSUME pkt_buffer' = pkt_buffer
      PROVE  pkt_buffer' \in [1..MaxIds -> {NULL} \cup 0..Len(packets)]
  BY <1>6 DEF DTypeOK
<1>7. ASSUME thread' = thread PROVE thread' \in [Threads -> Work]
  BY <1>7 DEF DTypeOK
<1>8. ASSUME NEW p \in Ports, Lookup(p) PROVE DTypeOK' /\ Len(packets') >= Len(packets)
  <2>1. thread' \in [Threads -> Work]
    BY <1>3, <1>8, LookupWork
  <2> QED BY <1>4, <1>5, <1>6, <1>8, <2>1 DEF Lookup, switch
<1>9. ASSUME NEW p \in Ports, NEW frame \in Frames, NEW s \in 1..Slots, Capture(p, frame, s)
      PROVE  DTypeOK' /\ Len(packets') >= Len(packets)
  <2>1. thread' \in [Threads -> Work]
    BY <1>3, <1>9, CaptureWork
  <2> DEFINE k == [in_port |-> p, slot |-> s, captured |-> frame, live |-> TRUE]
  <2>2. k \in Packet
    BY DatapathAssumption DEF Packet
  <2>3. packets' = Append(packets, k)
    BY <1>9 DEF Capture
  <2> HIDE DEF k
  <2>4. packets' \in Seq(Packet) /\ Len(packets') = Len(packets) + 1
    BY <2>2, <2>3, PacketAdded
  <2>5. ring' \in [Ports -> [1..Slots -> Frames \cup {NULL}]]
    <3>1. ring' = [ring EXCEPT ![p] = [ring[p] EXCEPT ![s] = frame]]
      BY <1>9 DEF Capture, DTypeOK
    <3>2. [ring[p] EXCEPT ![s] = frame] \in [1..Slots -> Frames \cup {NULL}]
      BY DEF DTypeOK
    <3> QED BY <3>1, <3>2 DEF DTypeOK
  <2>6. 0..Len(packets) \subseteq 0..Len(packets') /\ 1..Len(packets) \subseteq 1..Len(packets')
    BY <1>1, <2>4
  <2>7. UNCHANGED <<pkt_buffer, buffer_id, pending, closed>>
    BY <1>9 DEF Capture, switch
  <2>8. pkt_buffer' \in [1..MaxIds -> {NULL} \cup 0..Len(packets')]
    BY <2>6, <2>7 DEF DTypeOK
  <2>9. buffer_id' \in 0..MaxIds /\ closed' \subseteq Ports
    BY <2>7 DEF DTypeOK
  <2>10. pending' \subseteq [id : 1..MaxIds, pkt : 1..Len(packets')]
    BY <2>6, <2>7 DEF DTypeOK
  <2> QED BY <1>1, <2>1, <2>4, <2>5, <2>8, <2>9, <2>10 DEF DTypeOK
<1>10. ASSUME NEW t \in Threads, Output(t) PROVE DTypeOK' /\ Len(packets') >= Len(packets)
  BY <1>3, <1>4, <1>5, <1>6, <1>10, OutputWork DEF Output, switch
<1>11. ASSUME NEW t \in Threads, OutputController(t)
       PROVE  DTypeOK' /\ Len(packets') >= Len(packets)
  BY <1>3, <1>4, <1>5, <1>6, <1>11, OutputControllerWork DEF OutputController, switch
<1>12. ASSUME NEW t \in Threads, LoadBufferId(t)
       PROVE  DTypeOK' /\ Len(packets') >= Len(packets)
  BY <1>3, <1>4, <1>5, <1>6, <1>12, LoadWork DEF LoadBufferId, switch
<1>13. ASSUME NEW t \in Threads, StoreBufferId(t)
       PROVE  DTypeOK' /\ Len(packets') >= Len(packets)
  <2>1. thread[t].id + 1 \in 0..MaxIds /\ thread' \in [Threads -> Work]
    BY <1>13, StoreWork, WorkFields DEF Becomes, Work
  <2> QED BY <1>1, <1>13, <2>1 DEF StoreBufferId, DTypeOK, switch
<1>14. ASSUME NEW t \in Threads, Insert(t) PROVE DTypeOK' /\ Len(packets') >= Len(packets)
  <2>1. thread[t].pkt \in 0..Len(packets)
    BY <1>1, PktInRange
  <2>2. PICK id \in 1..MaxIds :
          pkt_buffer' = [pkt_buffer EXCEPT ![id] = IF @ = NULL THEN thread[t].pkt ELSE @]
    BY <1>14, IdsSeen DEF Insert
  <2>3. pkt_buffer' \in [1..MaxIds -> {NULL} \cup 0..Len(packets)]
    BY <2>1, <2>2 DEF DTypeOK
  <2> QED BY <1>3, <1>4, <1>5, <1>14, <2>3, InsertWork DEF Insert, switch
<1>15. ASSUME NEW t \in Threads, AnnounceMiss(t)
       PROVE  DTypeOK' /\ Len(packets') >= Len(packets)
  <2>1. t \in Ports /\ thread[t].pkt \in 1..Len(packets)
    <3>1. t # Loop
      BY <1>15 DEF AnnounceMiss, WorkInv
    <3>2. t \in Ports /\ thread[t].pkt # 0
      BY <1>15, <3>1 DEF AnnounceMiss, WorkInv, Threads
    <3> QED BY <1>1, <3>2, PktInRange
  <2>2. PICK id \in 1..MaxIds :
          pending' \subseteq pending \cup {[id |-> id, pkt |-> thread[t].pkt]}
    BY <1>15, IdsSeen DEF AnnounceMiss
  <2>3. pending' \subseteq [id : 1..MaxIds, pkt : 1..Len(packets)]
    BY <2>1, <2>2 DEF DTypeOK
  <2>4. thread' \in [Threads -> Work]
    BY <1>3, <1>15, IdleWork DEF AnnounceMiss
  <2> QED BY <1>1, <1>15, <2>3, <2>4 DEF AnnounceMiss, DTypeOK, switch
<1>16. ASSUME NEW t \in Threads, AnnounceOutput(t)
       PROVE  DTypeOK' /\ Len(packets') >= Len(packets)
  BY <1>3, <1>4, <1>5, <1>6, <1>16, AnnounceOutputWork DEF AnnounceOutput, switch
<1>17. ASSUME NEW t \in Threads, Finish(t) PROVE DTypeOK' /\ Len(packets') >= Len(packets)
  <2>1. packets' \in Seq(Packet) /\ Len(packets') >= Len(packets)
    BY <1>1, <1>2, <1>17, PacketFinished
  <2>2. thread' \in [Threads -> Work]
    BY <1>3, <1>17, IdleWork DEF Finish
  <2> QED BY <1>4, <1>6, <1>17, <2>1, <2>2 DEF Finish, switch
<1>18. CASE Connect \/ Disconnect \/ StopLoop
  BY <1>4, <1>5, <1>6, <1>7, <1>18 DEF Connect, Disconnect, StopLoop
<1>19. ASSUME NEW id \in 1..MaxIds, NEW acts \in ActionLists, PacketOut(id, acts)
       PROVE  DTypeOK' /\ Len(packets') >= Len(packets)
  <2>1. Fetched(id) \in Nat /\ pkt_buffer' \in [1..MaxIds -> {NULL} \cup 0..Len(packets)]
    BY <1>1, <1>19, WhatIsFetched DEF PacketOut, Names
  <2>2. acts \in Seq(Nat)
    BY RulesAssumption
  <2>3. thread' \in [Threads -> Work]
    BY <1>3, <1>19, <2>1, <2>2, PerformWork DEF PacketOut
  <2> QED BY <1>4, <1>5, <1>19, <2>1, <2>3 DEF PacketOut, Names, switch
<1>20. ASSUME NEW id \in 1..MaxIds, NEW flow \in AnswerRules, AddFlowFor(id, flow)
       PROVE  DTypeOK' /\ Len(packets') >= Len(packets)
  <2>1. Fetched(id) \in Nat /\ pkt_buffer' \in [1..MaxIds -> {NULL} \cup 0..Len(packets)]
    BY <1>1, <1>20, WhatIsFetched DEF AddFlowFor, Names
  <2>2. flow.actions \in Seq(Nat)
    BY RulesAssumption DEF FlowEntry
  <2>3. thread' = thread \/ Perform(Fetched(id), flow.actions)
    BY <1>20 DEF AddFlowFor
  <2>4. thread' \in [Threads -> Work]
    BY <1>3, <1>7, <2>1, <2>2, <2>3, PerformWork
  <2> QED BY <1>4, <1>5, <1>20, <2>1, <2>4 DEF AddFlowFor, Names, switch
<1>21. ASSUME NEW p \in Ports \cup {OFPP_NONE}, NEW frame \in Frames,
              NEW acts \in ActionLists, PacketOutData(p, frame, acts)
       PROVE  DTypeOK' /\ Len(packets') >= Len(packets)
  <2> DEFINE k == [in_port |-> p, slot |-> 0, captured |-> frame, live |-> TRUE]
  <2>1. k \in Packet /\ acts \in Seq(Nat) /\ Len(packets) + 1 \in Nat
    BY <1>1, DatapathAssumption, RulesAssumption DEF Packet
  <2>2. packets' = Append(packets, k)
    BY <1>21 DEF PacketOutData
  <2> HIDE DEF k
  <2>3. packets' \in Seq(Packet) /\ Len(packets') >= Len(packets)
    BY <1>1, <2>1, <2>2, PacketAdded
  <2>4. thread' \in [Threads -> Work]
    BY <1>3, <1>21, <2>1, PerformWork DEF PacketOutData
  <2> QED BY <1>4, <1>6, <1>21, <2>3, <2>4 DEF PacketOutData, switch
<1>22. CASE (\E flow \in Rules : AddFlow(flow)) \/ (\E match \in Deletes : DeleteFlows(match))
  BY <1>4, <1>5, <1>6, <1>7, <1>22 DEF AddFlow, DeleteFlows, switch
<1>23. ASSUME NEW p \in Ports, StopPort(p) PROVE DTypeOK' /\ Len(packets') >= Len(packets)
  <2>1. ring' \in [Ports -> [1..Slots -> Frames \cup {NULL}]]
    BY <1>23 DEF StopPort, DTypeOK
  <2>2. closed' \subseteq Ports /\ UNCHANGED <<pkt_buffer, buffer_id, packets, thread, pending>>
    BY <1>23 DEF StopPort, DTypeOK
  <2> QED BY <1>1, <2>1, <2>2 DEF DTypeOK
<1>24. CASE Destroy
  <2>1. packets' \in Seq(Packet) /\ Len(packets') >= Len(packets)
    BY <1>1, <1>2, <1>24, PacketsDestroyed
  <2> QED BY <1>4, <1>6, <1>7, <1>24, <2>1 DEF Destroy
<1>25. CASE UNCHANGED vars
  BY <1>4, <1>5, <1>6, <1>7, <1>25 DEF vars, switch
<1>26. ASSUME NEW t \in Threads, ThreadStep(t)
       PROVE  DTypeOK' /\ Len(packets') >= Len(packets)
  BY <1>10, <1>11, <1>12, <1>13, <1>14, <1>15, <1>16, <1>17, <1>26 DEF ThreadStep
<1> QED
  BY <1>1, <1>8, <1>9, <1>18, <1>19, <1>20, <1>21, <1>22, <1>23, <1>24, <1>25, <1>26
  DEF Next, Step

\* The packets there are keep their places in the rings.
Kept ==
  /\ Len(packets) \in Nat /\ Len(packets') \in Nat /\ Len(packets') >= Len(packets)
  /\ \A j \in 1..Len(packets) : /\ packets'[j].in_port = packets[j].in_port
                                /\ packets'[j].slot = packets[j].slot
                                /\ packets'[j].captured = packets[j].captured

\* No step takes a packet or its bytes as captured away.
LEMMA PacketsKept ==
  ASSUME DTypeOK, WorkInv, Sound(flow_table), [Next]_vars
  PROVE  Kept
<1>1. DTypeOK' /\ Len(packets) \in Nat /\ Len(packets') >= Len(packets)
  BY TypesStep
<1>2. Len(packets') \in Nat
  BY <1>1, LenProperties DEF DTypeOK
<1>3. CASE SamePackets
  BY <1>1, <1>2, <1>3 DEF SamePackets, Kept
<1>4. CASE UNCHANGED packets
  BY <1>3, <1>4, PacketsStay
<1>5. ASSUME NEW k \in Packet, packets' = Append(packets, k) PROVE Kept
  BY <1>1, <1>2, <1>5, PacketAdded DEF Kept
<1>6. ASSUME NEW p \in Ports, NEW frame \in Frames, NEW s \in 1..Slots, Capture(p, frame, s)
      PROVE  Kept
  <2>1. [in_port |-> p, slot |-> s, captured |-> frame, live |-> TRUE] \in Packet
    BY DatapathAssumption DEF Packet
  <2> QED BY <1>5, <1>6, <2>1 DEF Capture
<1>7. ASSUME NEW p \in Ports \cup {OFPP_NONE}, NEW frame \in Frames,
             NEW acts \in ActionLists, PacketOutData(p, frame, acts)
      PROVE  Kept
  <2>1. [in_port |-> p, slot |-> 0, captured |-> frame, live |-> TRUE] \in Packet
    BY DatapathAssumption DEF Packet
  <2> QED BY <1>5, <1>7, <2>1 DEF PacketOutData
<1>8. ASSUME NEW t \in Threads, ThreadStep(t) PROVE Kept
  <2>1. CASE Finish(t)
    BY <1>3, <2>1, PacketFinished
  <2>2. CASE ~Finish(t)
    BY <1>4, <1>8, <2>2 DEF ThreadStep, Output, OutputController, LoadBufferId,
                            StoreBufferId, Insert, AnnounceMiss, AnnounceOutput
  <2> QED BY <2>1, <2>2
<1>9. CASE Destroy
  BY <1>3, <1>9, PacketsDestroyed
<1>10. CASE Connect \/ Disconnect \/ StopLoop \/ UNCHANGED vars
  BY <1>4, <1>10 DEF Connect, Disconnect, StopLoop, vars
<1>11. ASSUME NEW id \in 1..MaxIds, NEW acts \in ActionLists, PacketOut(id, acts)
       PROVE  Kept
  BY <1>4, <1>11 DEF PacketOut
<1>12. ASSUME NEW id \in 1..MaxIds, NEW flow \in AnswerRules, AddFlowFor(id, flow)
       PROVE  Kept
  BY <1>4, <1>12 DEF AddFlowFor
<1>13. ASSUME NEW p \in Ports, Lookup(p) \/ StopPort(p) PROVE Kept
  BY <1>4, <1>13 DEF Lookup, StopPort
<1>14. CASE (\E flow \in Rules : AddFlow(flow)) \/ (\E match \in Deletes : DeleteFlows(match))
  BY <1>4, <1>14 DEF AddFlow, DeleteFlows
<1> QED
  BY <1>6, <1>7, <1>8, <1>9, <1>10, <1>11, <1>12, <1>13, <1>14 DEF Next, Step

\* One thread's step leaves the work of the others in order.
LEMMA WorkOfOthers ==
  ASSUME DTypeOK, WorkInv, Running, Kept, NEW t \in Threads,
         NEW pc, NEW pkt \in Nat, NEW acts, NEW id, NEW miss,
         Becomes(t, pc, pkt, acts, id, miss),
         buffer_id > 0 => buffer_id' > 0,
         pkt <= Len(packets'),
         pc = "store" => id < MaxIds,
         pc \in {"insert", "announce"} => id > 0 /\ buffer_id' > 0,
         t \in Ports /\ pc # "idle" => /\ pkt # 0 /\ packets'[pkt].in_port = t
                                       /\ packets'[pkt].slot # 0,
         t = Loop => pc # "lookup" /\ ~miss,
         Running' /\ pkt = 0 => acts = <<>>
  PROVE  WorkInv'
<1>1. \A u \in Threads : u # t => thread'[u] = thread[u] /\ thread[u].pkt \in Nat
  BY WorkFields DEF Becomes
<1>2. \A u \in Threads :
        /\ thread'[u].pkt <= Len(packets')
        /\ thread'[u].pc = "store" => thread'[u].id < MaxIds
        /\ thread'[u].pc \in {"insert", "announce"} => thread'[u].id > 0 /\ buffer_id' > 0
  <2> TAKE u \in Threads
  <2>1. CASE u = t
    BY <2>1 DEF Becomes
  <2>2. CASE u # t
    <3>1. thread[u].pkt <= Len(packets) /\ thread[u].pkt \in Nat
      BY <1>1, <2>2 DEF WorkInv
    <3>2. thread[u].pkt <= Len(packets')
      BY <3>1 DEF Kept
    <3> QED BY <1>1, <2>2, <3>2 DEF WorkInv
  <2> QED BY <2>1, <2>2
<1>3. \A p \in Ports : thread'[p].pc # "idle" =>
        /\ thread'[p].pkt # 0
        /\ packets'[thread'[p].pkt].in_port = p
        /\ packets'[thread'[p].pkt].slot # 0
  <2> TAKE p \in Ports
  <2>1. CASE p = t
    BY <2>1 DEF Becomes
  <2>2. CASE p # t
    <3>1. p \in Threads
      BY DEF Threads
    <3>2. thread[p].pkt <= Len(packets) /\ thread[p].pkt \in Nat /\ thread'[p] = thread[p]
      BY <1>1, <2>2, <3>1 DEF WorkInv
    <3>3. thread[p].pkt # 0 => thread[p].pkt \in 1..Len(packets)
      BY <3>2 DEF Kept
    <3> QED BY <3>2, <3>3 DEF WorkInv, Kept
  <2> QED BY <2>1, <2>2
<1>4. thread'[Loop].pc # "lookup" /\ ~thread'[Loop].miss
  BY <1>1 DEF Becomes, WorkInv, Threads
<1>5. Running' => \A u \in Threads : thread'[u].pkt = 0 => thread'[u].acts = <<>>
  BY <1>1 DEF Becomes, WorkInv
<1> QED BY <1>2, <1>3, <1>4, <1>5 DEF WorkInv

\* A step that lets the threads be keeps what holds of their work.
LEMMA WorkUntouched ==
  ASSUME DTypeOK, WorkInv, Kept, UNCHANGED <<thread, buffer_id>>, Running' => Running
  PROVE  WorkInv'
<1>1. \A u \in Threads : /\ thread[u].pkt \in 0..Len(packets)
                         /\ thread[u].pkt <= Len(packets')
                         /\ thread[u].pkt # 0 => thread[u].pkt \in 1..Len(packets)
  BY PktInRange DEF Kept
<1>2. Ports \subseteq Threads
  BY DEF Threads
<1>3. \A p \in Ports : thread[p].pc # "idle" => /\ packets'[thread[p].pkt].in_port = p
                                                /\ packets'[thread[p].pkt].slot # 0
  BY <1>1, <1>2 DEF WorkInv, Kept
<1>4. Running' => \A u \in Threads : thread[u].pkt = 0 => thread[u].acts = <<>>
  BY DEF WorkInv
<1> QED BY <1>1, <1>3, <1>4 DEF WorkInv

\* Every thread's work stays in order.
LEMMA WorkStep ==
  ASSUME DTypeOK, WorkInv, Sound(flow_table), [Next]_vars
  PROVE  WorkInv'
<1>1. /\ Kept /\ Len(packets) \in Nat /\ Len(packets') >= Len(packets)
      /\ Loop \in Threads /\ Loop \notin Ports /\ Ports \subseteq Threads
  BY PacketsKept, TypesStep, DatapathAssumption DEF Threads
<1>0. /\ ~thread[Loop].miss
      /\ \A t \in Threads : thread[t].pc \in {"insert", "announce"} =>
                            thread[t].id > 0 /\ buffer_id > 0
      /\ Running => \A t \in Threads : thread[t].pkt = 0 => thread[t].acts = <<>>
  BY DEF WorkInv
<1>2. \A t \in Threads : /\ thread[t].pkt \in Nat /\ thread[t].pkt <= Len(packets')
                         /\ thread[t].pkt # 0 => thread[t].pkt \in 1..Len(packets)
  <2> TAKE t \in Threads
  <2>1. thread[t].pkt \in 0..Len(packets)
    BY PktInRange
  <2> QED BY <1>1, <2>1 DEF Kept
<1>3. \A p \in Ports : thread[p].pc # "idle" =>
        /\ thread[p].pkt # 0
        /\ packets'[thread[p].pkt].in_port = p /\ packets'[thread[p].pkt].slot # 0
  BY <1>1, <1>2 DEF WorkInv, Kept
<1>4. ASSUME NEW p \in Ports, Lookup(p) PROVE WorkInv'
  <2>1. Running /\ thread[p].pc = "lookup" /\ buffer_id' = buffer_id
    BY <1>4 DEF Lookup
  <2>2. CASE \E acts \in Seq(Nat) :
               Becomes(p, "act", thread[p].pkt, acts, thread[p].id, thread[p].miss)
    BY <1>1, <1>2, <1>3, <2>1, <2>2, WorkOfOthers
  <2>3. CASE Becomes(p, "load", thread[p].pkt, thread[p].acts, thread[p].id, TRUE)
    BY <1>1, <1>2, <1>3, <2>1, <2>3, WorkOfOthers
  <2> QED BY <1>4, <2>2, <2>3, LookupWork
<1>5. ASSUME NEW p \in Ports, NEW frame \in Frames, NEW s \in 1..Slots, Capture(p, frame, s)
      PROVE  WorkInv'
  <2> DEFINE k == [in_port |-> p, slot |-> s, captured |-> frame, live |-> TRUE]
  <2>1. k \in Packet /\ k.in_port = p /\ k.slot # 0
    BY DatapathAssumption DEF Packet
  <2>2. Running /\ packets' = Append(packets, k) /\ buffer_id' = buffer_id
    BY <1>5 DEF Capture
  <2> HIDE DEF k
  <2>3. packets'[Len(packets) + 1] = k /\ Len(packets') = Len(packets) + 1
    BY <2>1, <2>2, PacketAdded
  <2>4. Becomes(p, "lookup", Len(packets) + 1, <<>>, 0, FALSE)
    BY <1>5, CaptureWork
  <2>5. Len(packets) + 1 \in Nat /\ Len(packets) + 1 # 0 /\ Len(packets) + 1 <= Len(packets')
    BY <1>1, <2>3
  <2> QED BY <1>1, <2>1, <2>2, <2>3, <2>4, <2>5, WorkOfOthers
<1>6. ASSUME NEW t \in Threads, Output(t) PROVE WorkInv'
  <2>1. /\ Running /\ buffer_id' = buffer_id
        /\ thread[t].pc = "act" /\ thread[t].acts # <<>>
    BY <1>6 DEF Output
  <2>2. thread[t].pkt # 0
    BY <2>1 DEF WorkInv
  <2> QED BY <1>1, <1>2, <1>3, <1>6, <2>1, <2>2, OutputWork, <1>0, WorkOfOthers
<1>7. ASSUME NEW t \in Threads, OutputController(t) PROVE WorkInv'
  <2>1. /\ Running /\ buffer_id' = buffer_id
        /\ thread[t].pc = "act" /\ thread[t].acts # <<>>
    BY <1>7 DEF OutputController
  <2>2. thread[t].pkt # 0
    BY <2>1 DEF WorkInv
  <2> QED BY <1>1, <1>2, <1>3, <1>7, <2>1, <2>2, OutputControllerWork, WorkOfOthers
<1>8. ASSUME NEW t \in Threads, LoadBufferId(t) PROVE WorkInv'
  <2>1. /\ Running /\ buffer_id' = buffer_id /\ buffer_id < MaxIds
        /\ thread[t].pc = "load"
    BY <1>8 DEF LoadBufferId
  <2>4. Becomes(t, "store", thread[t].pkt, thread[t].acts, buffer_id, thread[t].miss)
    BY <1>8, LoadWork
  <2>5. t = Loop => ~thread[t].miss
    BY <1>0
  <2> QED BY <1>0, <1>1, <1>2, <1>3, <2>1, <2>4, <2>5, WorkOfOthers
<1>9. ASSUME NEW t \in Threads, StoreBufferId(t) PROVE WorkInv'
  <2>1. /\ Running /\ buffer_id' = thread[t].id + 1 /\ thread[t].pc = "store"
    BY <1>9 DEF StoreBufferId
  <2>2. thread[t].id \in 0..MaxIds
    BY WorkFields
  <2>3. thread[t].id + 1 > 0
    BY <2>2, DatapathAssumption
  <2>4. Becomes(t, "insert", thread[t].pkt, thread[t].acts, thread[t].id + 1,
                thread[t].miss)
    BY <1>9, StoreWork
  <2>5. t = Loop => ~thread[t].miss
    BY <1>0
  <2> QED BY <1>0, <1>1, <1>2, <1>3, <2>1, <2>3, <2>4, <2>5, WorkOfOthers
<1>10. ASSUME NEW t \in Threads, Insert(t) PROVE WorkInv'
  <2>1. /\ Running /\ buffer_id' = buffer_id /\ thread[t].pc = "insert"
    BY <1>10 DEF Insert
  <2>4. Becomes(t, "announce", thread[t].pkt, thread[t].acts, thread[t].id,
                thread[t].miss)
    BY <1>10, InsertWork
  <2>5. t = Loop => ~thread[t].miss
    BY <1>0
  <2> QED BY <1>0, <1>1, <1>2, <1>3, <2>1, <2>4, <2>5, WorkOfOthers
<1>11. ASSUME NEW t \in Threads, AnnounceOutput(t) PROVE WorkInv'
  <2>1. /\ Running /\ buffer_id' = buffer_id /\ thread[t].pc = "announce"
    BY <1>11 DEF AnnounceOutput
  <2>4. Becomes(t, "act", thread[t].pkt, thread[t].acts, thread[t].id, thread[t].miss)
    BY <1>11, AnnounceOutputWork
  <2>5. t = Loop => ~thread[t].miss
    BY <1>0
  <2> QED BY <1>0, <1>1, <1>2, <1>3, <2>1, <2>4, <2>5, WorkOfOthers
<1>12. ASSUME NEW t \in Threads, AnnounceMiss(t) \/ Finish(t) PROVE WorkInv'
  <2>1. Running /\ buffer_id' = buffer_id /\ Becomes(t, "idle", 0, <<>>, 0, FALSE)
    BY <1>12, IdleWork DEF AnnounceMiss, Finish
  <2>2. 0 \in Nat /\ 0 <= Len(packets')
    BY <1>1
  <2> QED BY <1>1, <2>1, <2>2, WorkOfOthers
<1>13. ASSUME NEW id \in 1..MaxIds, NEW acts \in ActionLists, PacketOut(id, acts)
       PROVE  WorkInv'
  <2> DEFINE k == Fetched(id)
  <2>1. k \in Nat /\ k <= Len(packets') /\ acts \in Seq(Nat)
    BY <1>1, WhatIsFetched, RulesAssumption
  <2>2. Running /\ buffer_id' = buffer_id /\ Perform(k, acts)
        /\ crashed' \in IF acts = <<>> /\ k = 0 THEN {FALSE} ELSE Using(id)
    BY <1>13 DEF PacketOut
  <2>3. k = 0 /\ acts # <<>> => crashed' = TRUE
    BY <2>2 DEF Using
  <2>4. Running' /\ k = 0 => acts = <<>>
    BY <2>3 DEF Running
  <2> HIDE DEF k
  <2>5. Becomes(Loop, "act", k, acts, 0, FALSE)
    BY <2>1, <2>2, PerformWork
  <2> QED BY <1>1, <2>1, <2>2, <2>4, <2>5, WorkOfOthers
<1>14. ASSUME NEW id \in 1..MaxIds, NEW flow \in AnswerRules, AddFlowFor(id, flow)
       PROVE  WorkInv'
  <2> DEFINE k == Fetched(id)
  <2>1. k \in Nat /\ k <= Len(packets') /\ flow.actions \in Seq(Nat)
    BY <1>1, WhatIsFetched, RulesAssumption DEF FlowEntry
  <2>2. Running /\ buffer_id' = buffer_id
        /\ ((k # 0 /\ Perform(k, flow.actions)) \/ thread' = thread)
    BY <1>14 DEF AddFlowFor
  <2> HIDE DEF k
  <2>3. CASE k # 0 /\ Perform(k, flow.actions)
    <3>1. Becomes(Loop, "act", k, flow.actions, 0, FALSE)
      BY <2>1, <2>3, PerformWork
    <3> QED BY <1>1, <2>1, <2>2, <2>3, <3>1, WorkOfOthers
  <2>4. CASE thread' = thread
    BY <1>1, <2>2, <2>4, WorkUntouched
  <2> QED BY <2>2, <2>3, <2>4
<1>15. ASSUME NEW p \in Ports \cup {OFPP_NONE}, NEW frame \in Frames,
              NEW acts \in ActionLists, PacketOutData(p, frame, acts)
       PROVE  WorkInv'
  <2> DEFINE k == [in_port |-> p, slot |-> 0, captured |-> frame, live |-> TRUE]
  <2>1. k \in Packet /\ acts \in Seq(Nat)
    BY DatapathAssumption, RulesAssumption DEF Packet
  <2>2. packets' = Append(packets, k)
    BY <1>15 DEF PacketOutData
  <2> HIDE DEF k
  <2>3. Len(packets') = Len(packets) + 1
    BY <2>1, <2>2, PacketAdded
  <2>4. Len(packets) + 1 \in Nat /\ Len(packets) + 1 # 0 /\ Len(packets) + 1 <= Len(packets')
    BY <1>1, <2>3
  <2>5. Running /\ buffer_id' = buffer_id /\ Perform(Len(packets) + 1, acts)
    BY <1>15 DEF PacketOutData
  <2>6. Becomes(Loop, "act", Len(packets) + 1, acts, 0, FALSE)
    BY <2>1, <2>4, <2>5, PerformWork
  <2> QED BY <1>1, <2>4, <2>5, <2>6, WorkOfOthers
<1>16. CASE \/ Connect \/ Disconnect \/ StopLoop \/ Destroy \/ UNCHANGED vars
            \/ \E p \in Ports : StopPort(p)
            \/ \E flow \in Rules : AddFlow(flow)
            \/ \E match \in Deletes : DeleteFlows(match)
  <2>1. UNCHANGED <<thread, buffer_id>>
    BY <1>16 DEF Connect, Disconnect, StopLoop, Destroy, StopPort, AddFlow, DeleteFlows,
                 vars
  <2>2. Running \/ UNCHANGED crashed
    BY <1>16 DEF Connect, Disconnect, StopLoop, Destroy, StopPort, AddFlow, DeleteFlows,
                 vars
  <2>3. Running' => Running
    BY <2>2 DEF Running
  <2> QED BY <1>1, <2>1, <2>3, WorkUntouched
<1>17. ASSUME NEW t \in Threads, ThreadStep(t) PROVE WorkInv'
  BY <1>6, <1>7, <1>8, <1>9, <1>10, <1>11, <1>12, <1>17 DEF ThreadStep
<1> QED
  BY <1>4, <1>5, <1>13, <1>14, <1>15, <1>16, <1>17 DEF Next, Step

\* What a message that names a buffer id leaves alone, and what it takes away.
LEMMA AnswerKeeps ==
  ASSUME NEW id, NEW acts, NEW flow, PacketOut(id, acts) \/ AddFlowFor(id, flow)
  PROVE  /\ Running /\ thread[Loop].pc = "idle" /\ conn = "up"
         /\ pending' = { r \in pending : r.id # id } /\ named' = named \cup {id}
         /\ Fetch(id) /\ emitted' = {}
         /\ UNCHANGED <<buffer_id, packets, ring, conn, closed, main>>
<1>1. CASE PacketOut(id, acts)
  BY <1>1 DEF PacketOut, Names, switch
<1>2. CASE AddFlowFor(id, flow)
  <2>1. UNCHANGED <<buffer_id, packets, ring, switch>>
    BY <1>2, Zenon DEF AddFlowFor
  <2>2. Running /\ conn = "up" /\ thread[Loop].pc = "idle"
    BY <1>2 DEF AddFlowFor, Names
  <2>3. /\ pending' = { r \in pending : r.id # id } /\ named' = named \cup {id}
        /\ Fetch(id)
    BY <1>2 DEF AddFlowFor, Names
  <2>4. emitted' = {}
    BY <1>2 DEF AddFlowFor
  <2> QED BY <2>1, <2>2, <2>3, <2>4 DEF switch
<1> QED BY <1>1, <1>2

\* What main has ended stays ended.
LEMMA EndStep ==
  ASSUME EndInv, [Next]_vars
  PROVE  EndInv'
<1>1. Loop \in Threads /\ Ports \subseteq Threads
  BY DEF Threads
<1>2. CASE StopLoop
  BY <1>2 DEF StopLoop, EndInv
<1>3. CASE Destroy
  BY <1>3 DEF Destroy, EndInv
<1>4. CASE main' = main /\ main = "running"
  BY <1>4 DEF EndInv
<1>5. CASE main # "running" /\ ~StopLoop /\ ~Destroy
  <2>1. /\ \A t \in Threads : thread[t].pc = "idle"
        /\ pending = {} /\ closed = Ports /\ conn # "up"
    BY <1>5 DEF EndInv
  <2>2. CASE \E t \in Threads : ThreadStep(t)
    BY <2>1, <2>2 DEF ThreadStep, Output, OutputController, LoadBufferId,
                      StoreBufferId, Insert, AnnounceMiss, AnnounceOutput, Finish
  <2>3. CASE \E p \in Ports : \/ Lookup(p) \/ StopPort(p)
                              \/ \E frame \in Frames, s \in 1..Slots : Capture(p, frame, s)
    BY <1>1, <2>1, <2>3 DEF Lookup, StopPort, Capture
  <2>4. CASE Connect \/ Disconnect
    BY <1>5, <2>1, <2>4 DEF Connect, Disconnect
  <2>5. CASE \/ \E p \in Ports \cup {OFPP_NONE}, frame \in Frames, acts \in ActionLists :
                  PacketOutData(p, frame, acts)
             \/ \E flow \in Rules : AddFlow(flow)
             \/ \E match \in Deletes : DeleteFlows(match)
    BY <2>1, <2>5 DEF PacketOutData, AddFlow, DeleteFlows
  <2>6. CASE UNCHANGED vars
    BY <2>1, <2>6 DEF vars, switch, EndInv
  <2>7. CASE \E id \in 1..MaxIds : \/ \E acts \in ActionLists : PacketOut(id, acts)
                                   \/ \E flow \in AnswerRules : AddFlowFor(id, flow)
    BY <2>1, <2>7, AnswerKeeps
  <2> QED BY <1>5, <2>1, <2>2, <2>3, <2>4, <2>5, <2>6, <2>7 DEF Next, Step
<1>6. CASE main = "running" /\ ~StopLoop /\ ~Destroy
  <2>1. main' = main
    <3>1. CASE \E t \in Threads : ThreadStep(t)
      BY <3>1 DEF ThreadStep, Output, OutputController, LoadBufferId, StoreBufferId,
                  Insert, AnnounceMiss, AnnounceOutput, Finish, switch
    <3>2. CASE \E p \in Ports : \/ Lookup(p) \/ StopPort(p)
                                \/ \E frame \in Frames, s \in 1..Slots : Capture(p, frame, s)
      BY <3>2 DEF Lookup, StopPort, Capture, switch
    <3>3. CASE Connect \/ Disconnect
      BY <3>3 DEF Connect, Disconnect
    <3>4. CASE \/ \E p \in Ports \cup {OFPP_NONE}, frame \in Frames, acts \in ActionLists :
                    PacketOutData(p, frame, acts)
               \/ \E flow \in Rules : AddFlow(flow)
               \/ \E match \in Deletes : DeleteFlows(match)
      BY <3>4 DEF PacketOutData, AddFlow, DeleteFlows, switch
    <3>5. CASE \E id \in 1..MaxIds : \/ \E acts \in ActionLists : PacketOut(id, acts)
                                     \/ \E flow \in AnswerRules : AddFlowFor(id, flow)
      BY <3>5, AnswerKeeps
    <3>6. CASE UNCHANGED vars
      BY <3>6 DEF vars, switch
    <3> QED BY <1>6, <3>1, <3>2, <3>3, <3>4, <3>5, <3>6 DEF Next, Step
  <2> QED BY <1>4, <1>6, <2>1
<1> QED BY <1>2, <1>3, <1>5, <1>6

-----------------------------------------------------------------------------
(* What is sent is what was captured *)

\* A slot that has been reused or freed remains so.
LEMMA LostRemains ==
  ASSUME Kept, closed \subseteq closed', NEW k \in 1..Len(packets)
  PROVE  /\ Reused(k) => Reused(k)'
         /\ Freed(k) => Freed(k)'
<1>1. ASSUME Reused(k) PROVE Reused(k)'
  <2>1. PICK j \in k + 1..Len(packets) :
          packets[j].in_port = packets[k].in_port /\ packets[j].slot = packets[k].slot
    BY <1>1 DEF Reused
  <2>2. j \in k + 1..Len(packets') /\ j \in 1..Len(packets)
    BY DEF Kept
  <2> QED BY <2>1, <2>2 DEF Reused, Kept
<1>2. Freed(k) => Freed(k)'
  BY DEF Freed, Kept
<1> QED BY <1>1, <1>2

\* Every step keeps the ring's bytes those of the packets in its slots.
LEMMA RingStep ==
  ASSUME DTypeOK, WorkInv, Sound(flow_table), RingInv, [Next]_vars
  PROVE  RingInv' /\ Kept /\ closed \subseteq closed'
<1>1. /\ Kept /\ packets \in Seq(Packet) /\ packets' \in Seq(Packet)
      /\ Len(packets) \in Nat /\ DOMAIN packets = 1..Len(packets)
      /\ DOMAIN packets' = 1..Len(packets')
  BY PacketsKept, TypesStep, LenProperties DEF DTypeOK
<1>2. closed \subseteq closed'
  <2>1. CASE \E p \in Ports : StopPort(p)
    BY <2>1 DEF StopPort
  <2>2. CASE \E t \in Threads : ThreadStep(t)
    BY <2>2 DEF ThreadStep, Output, OutputController, LoadBufferId, StoreBufferId,
                Insert, AnnounceMiss, AnnounceOutput, Finish, switch
  <2>3. CASE \E p \in Ports : \/ Lookup(p)
                              \/ \E frame \in Frames, s \in 1..Slots : Capture(p, frame, s)
    BY <2>3 DEF Lookup, Capture, switch
  <2>4. CASE Connect \/ Disconnect \/ StopLoop \/ Destroy \/ UNCHANGED vars
    BY <2>4 DEF Connect, Disconnect, StopLoop, Destroy, vars, switch
  <2>5. CASE \/ \E p \in Ports \cup {OFPP_NONE}, frame \in Frames, acts \in ActionLists :
                  PacketOutData(p, frame, acts)
             \/ \E flow \in Rules : AddFlow(flow)
             \/ \E match \in Deletes : DeleteFlows(match)
    BY <2>5 DEF PacketOutData, AddFlow, DeleteFlows, switch
  <2>6. CASE \E id \in 1..MaxIds : \/ \E acts \in ActionLists : PacketOut(id, acts)
                                   \/ \E flow \in AnswerRules : AddFlowFor(id, flow)
    BY <2>6, AnswerKeeps
  <2> QED BY <2>1, <2>2, <2>3, <2>4, <2>5, <2>6 DEF Next, Step
<1>3. \A k \in 1..Len(packets) : Reused(k) \/ Freed(k) => Reused(k)' \/ Freed(k)'
  BY <1>1, <1>2, LostRemains
<1>4. ASSUME ring' = ring,
             \A k \in 1..Len(packets') : k \notin 1..Len(packets) => packets'[k].slot = 0
      PROVE  RingInv'
  <2>1. ASSUME NEW k \in 1..Len(packets'), packets'[k].slot # 0
        PROVE  /\ packets'[k].in_port \in Ports
               /\ \/ ring'[packets'[k].in_port][packets'[k].slot] = packets'[k].captured
                  \/ Reused(k)' \/ Freed(k)'
    <3>1. k \in 1..Len(packets)
      BY <1>4, <2>1
    <3> QED BY <1>1, <1>3, <1>4, <2>1, <3>1 DEF RingInv, Kept
  <2> QED BY <1>1, <2>1 DEF RingInv
<1>5. ASSUME NEW p \in Ports, NEW frame \in Frames, NEW s \in 1..Slots, Capture(p, frame, s)
      PROVE  RingInv'
  <2> DEFINE new == [in_port |-> p, slot |-> s, captured |-> frame, live |-> TRUE]
             n == Len(packets) + 1
  <2>1. new \in Packet /\ new.in_port = p /\ new.slot = s /\ new.captured = frame
    BY DatapathAssumption DEF Packet
  <2>2. packets' = Append(packets, new)
    BY <1>5 DEF Capture
  <2>3. ring' = [ring EXCEPT ![p] = [ring[p] EXCEPT ![s] = frame]]
    BY <1>5 DEF Capture, DTypeOK
  <2> HIDE DEF new
  <2>4. packets'[n] = new /\ Len(packets') = n
    BY <2>1, <2>2, PacketAdded
  <2>5. ring'[p][s] = frame
    BY <2>3 DEF DTypeOK
  <2>6. \A q \in Ports, x \in 1..Slots : q # p \/ x # s => ring'[q][x] = ring[q][x]
    BY <2>3 DEF DTypeOK
  <2>7. ASSUME NEW k \in 1..Len(packets'), packets'[k].slot # 0
        PROVE  /\ packets'[k].in_port \in Ports
               /\ \/ ring'[packets'[k].in_port][packets'[k].slot] = packets'[k].captured
                  \/ Reused(k)' \/ Freed(k)'
    <3>1. CASE k = n
      BY <2>1, <2>4, <2>5, <3>1
    <3>2. CASE k # n
      <4>1. k \in 1..Len(packets) /\ n \in k + 1..Len(packets')
        BY <1>1, <2>4, <3>2
      <4>2. packets[k] \in Packet /\ packets[k].slot # 0 /\ packets[k].in_port \in Ports
        BY <1>1, <2>7, <4>1, ElementOfSeq DEF Kept, RingInv
      <4>3. packets[k].slot \in 1..Slots
        BY <4>2, DatapathAssumption DEF Packet
      <4>4. CASE packets[k].in_port = p /\ packets[k].slot = s
        <5>1. Reused(k)'
          BY <1>1, <2>1, <2>4, <4>1, <4>4 DEF Reused, Kept
        <5> QED BY <1>1, <4>1, <4>2, <5>1 DEF Kept
      <4>5. CASE packets[k].in_port # p \/ packets[k].slot # s
        <5>1. ring'[packets[k].in_port][packets[k].slot]
                = ring[packets[k].in_port][packets[k].slot]
          BY <2>6, <4>2, <4>3, <4>5
        <5> QED BY <1>1, <1>3, <4>1, <4>2, <5>1 DEF Kept, RingInv
      <4> QED BY <4>4, <4>5
    <3> QED BY <3>1, <3>2
  <2> QED BY <1>1, <2>7 DEF RingInv
<1>6. ASSUME NEW p \in Ports, StopPort(p) PROVE RingInv'
  <2>1. /\ packets' = packets /\ closed' = closed \cup {p}
        /\ \A q \in Ports : q # p => ring'[q] = ring[q]
    BY <1>6 DEF StopPort, DTypeOK
  <2>2. ASSUME NEW k \in 1..Len(packets), packets[k].slot # 0
        PROVE  /\ packets[k].in_port \in Ports
               /\ \/ ring'[packets[k].in_port][packets[k].slot] = packets[k].captured
                  \/ Reused(k)' \/ Freed(k)'
    <3>1. CASE packets[k].in_port = p
      BY <2>1, <2>2, <3>1 DEF Freed
    <3>2. CASE packets[k].in_port # p
      BY <1>1, <1>3, <2>1, <2>2, <3>2 DEF RingInv
    <3> QED BY <3>1, <3>2
  <2> QED BY <1>1, <2>1, <2>2 DEF RingInv
<1>7. ASSUME NEW p \in Ports \cup {OFPP_NONE}, NEW frame \in Frames,
             NEW acts \in ActionLists, PacketOutData(p, frame, acts)
      PROVE  RingInv'
  <2> DEFINE new == [in_port |-> p, slot |-> 0, captured |-> frame, live |-> TRUE]
  <2>1. new \in Packet /\ new.slot = 0
    BY DatapathAssumption DEF Packet
  <2>2. packets' = Append(packets, new) /\ ring' = ring
    BY <1>7 DEF PacketOutData
  <2> HIDE DEF new
  <2>3. packets'[Len(packets) + 1] = new /\ Len(packets') = Len(packets) + 1
    BY <2>1, <2>2, PacketAdded
  <2>4. \A k \in 1..Len(packets') : k \notin 1..Len(packets) => k = Len(packets) + 1
    BY <1>1, <2>3
  <2> QED BY <1>4, <2>1, <2>2, <2>3, <2>4
<1>8. ASSUME ring' = ring, Len(packets') = Len(packets) PROVE RingInv'
  BY <1>4, <1>8
<1>9. ASSUME NEW t \in Threads, ThreadStep(t) PROVE RingInv'
  <2>1. ring' = ring
    BY <1>9 DEF ThreadStep, Output, OutputController, LoadBufferId, StoreBufferId,
                Insert, AnnounceMiss, AnnounceOutput, Finish
  <2>2. CASE Finish(t)
    BY <1>8, <2>1, <2>2, PacketFinished DEF SamePackets
  <2>3. CASE ~Finish(t)
    BY <1>8, <1>9, <2>1, <2>3 DEF ThreadStep, Output, OutputController, LoadBufferId,
                StoreBufferId, Insert, AnnounceMiss, AnnounceOutput
  <2> QED BY <2>2, <2>3
<1>10. ASSUME Destroy PROVE RingInv'
  BY <1>8, <1>10, PacketsDestroyed DEF SamePackets, Destroy
<1>11. ASSUME Connect \/ Disconnect \/ StopLoop \/ UNCHANGED vars
       PROVE  RingInv'
  BY <1>8, <1>11 DEF Connect, Disconnect, StopLoop, vars
<1>12. ASSUME \/ \E flow \in Rules : AddFlow(flow)
              \/ \E match \in Deletes : DeleteFlows(match)
              \/ \E p \in Ports : Lookup(p)
       PROVE  RingInv'
  BY <1>8, <1>12 DEF AddFlow, DeleteFlows, Lookup
<1>13. ASSUME \E id \in 1..MaxIds : \/ \E acts \in ActionLists : PacketOut(id, acts)
                                    \/ \E flow \in AnswerRules : AddFlowFor(id, flow)
       PROVE  RingInv'
  BY <1>8, <1>13, AnswerKeeps
<1>14. RingInv'
  BY <1>5, <1>6, <1>7, <1>9, <1>10, <1>11, <1>12, <1>13 DEF Next, Step
<1> QED BY <1>1, <1>2, <1>14

\* Only an output action sends a packet, and it sends what it finds.
LEMMA SentStep ==
  ASSUME DTypeOK, WorkInv, Sound(flow_table), RingInv, SentAsCaptured, [Next]_vars
  PROVE  SentAsCaptured'
<1>1. ASSUME NEW t \in Threads, Output(t) PROVE SentAsCaptured'
  <2>1. Running /\ thread[t].acts # <<>> /\ UNCHANGED <<packets, closed>>
    BY <1>1 DEF Output, switch
  <2>2. PICK k : k = thread[t].pkt
    OBVIOUS
  <2>3. k # 0 /\ k \in 0..Len(packets)
    BY <2>1, <2>2, PktInRange DEF WorkInv
  <2>4. k \in DOMAIN packets /\ k \in 1..Len(packets)
    BY <2>3, LenProperties DEF DTypeOK
  <2>5. \A e \in emitted' : e.frame = Data(k) /\ e.pkt = k
    BY <1>1, <2>2 DEF Output
  <2>6. Data(k) = packets[k].captured \/ Reused(k) \/ Freed(k)
    BY <2>4 DEF Data, RingInv
  <2>7. (Reused(k) => Reused(k)') /\ (Freed(k) => Freed(k)')
    BY <2>1, <2>4, LostRemains, RingStep
  <2>8. packets'[k].captured = packets[k].captured
    BY <2>1
  <2>9. ASSUME NEW e \in emitted'
        PROVE  e.frame = packets'[e.pkt].captured \/ Reused(e.pkt)' \/ Freed(e.pkt)'
    <3>1. PICK n : n = e.pkt
      OBVIOUS
    <3>2. n = k /\ e.frame = Data(k)
      BY <2>5, <3>1
    <3>3. e.frame = packets'[n].captured \/ Reused(n)' \/ Freed(n)'
      BY <2>6, <2>7, <2>8, <3>2
    <3> QED BY <3>1, <3>3
  <2> QED BY <2>9 DEF SentAsCaptured, Lost
<1>2. ASSUME emitted' = {} PROVE SentAsCaptured'
  BY <1>2 DEF SentAsCaptured
<1>3. ASSUME NEW t \in Threads, ThreadStep(t) PROVE SentAsCaptured'
  BY <1>1, <1>2, <1>3 DEF ThreadStep, OutputController, LoadBufferId, StoreBufferId,
                          Insert, AnnounceMiss, AnnounceOutput, Finish
<1>4. ASSUME NEW id \in 1..MaxIds, NEW acts, NEW flow, PacketOut(id, acts) \/ AddFlowFor(id, flow)
      PROVE  SentAsCaptured'
  BY <1>2, <1>4, AnswerKeeps
<1>5. ASSUME UNCHANGED vars PROVE SentAsCaptured'
  <2>1. emitted' = emitted /\ packets' = packets /\ closed' = closed
    BY <1>5 DEF vars, switch
  <2>2. \A k : (Reused(k) => Reused(k)') /\ (Freed(k) => Freed(k)')
    BY <2>1 DEF Reused, Freed
  <2> QED BY <2>1, <2>2 DEF SentAsCaptured, Lost
<1>6. ASSUME \/ \E p \in Ports : \/ Lookup(p) \/ StopPort(p)
                                 \/ \E frame \in Frames, s \in 1..Slots : Capture(p, frame, s)
             \/ Connect \/ Disconnect \/ StopLoop \/ Destroy
             \/ \E p \in Ports \cup {OFPP_NONE}, frame \in Frames, acts \in ActionLists :
                  PacketOutData(p, frame, acts)
             \/ \E flow \in Rules : AddFlow(flow)
             \/ \E match \in Deletes : DeleteFlows(match)
      PROVE  SentAsCaptured'
  <2>1. emitted' = {}
    BY <1>6 DEF Lookup, StopPort, Capture, Connect, Disconnect, StopLoop, Destroy,
                PacketOutData, AddFlow, DeleteFlows
  <2> QED BY <1>2, <2>1
<1>7. Next => SentAsCaptured'
  BY <1>3, <1>4, <1>6 DEF Next, Step
<1> QED BY <1>5, <1>7

-----------------------------------------------------------------------------
(* One thread at a time gives out ids *)

\* A thread's step that makes no entry keeps the ids in order.
LEMMA IdsKept ==
  ASSUME IdInv, NEW t \in Threads, NEW pc, NEW pkt, NEW acts, NEW id, NEW miss,
         Becomes(t, pc, pkt, acts, id, miss),
         \A u, v \in Threads : GivingOutId(u)' /\ GivingOutId(v)' => u = v,
         UNCHANGED <<buffer_id, pkt_buffer, named>>,
         pc \in {"store", "insert", "announce"} => id = buffer_id,
         pc # "insert",
         pc # "announce"
  PROVE  IdInv'
<1>1. \A u \in Threads :
        /\ thread'[u].pc \in {"store", "insert", "announce"} => thread'[u].id = buffer_id
        /\ buffer_id \notin named =>
             /\ thread'[u].pc = "insert" => pkt_buffer[buffer_id] = NULL
             /\ thread'[u].pc = "announce" /\ thread'[u].miss =>
                  pkt_buffer[buffer_id] = thread'[u].pkt
  <2> TAKE u \in Threads
  <2>1. CASE u = t
    BY <2>1 DEF Becomes
  <2>2. CASE u # t
    BY <2>2 DEF Becomes, IdInv
  <2> QED BY <2>1, <2>2
<1>2. \A i \in 1..MaxIds : i > buffer_id /\ i \notin named => pkt_buffer[i] = NULL
  BY DEF IdInv
<1> QED BY <1>1, <1>2 DEF IdInv

\* A step that draws no id keeps what holds of the ids.
LEMMA IdsUntouched ==
  ASSUME IdInv, UNCHANGED <<thread, buffer_id, pkt_buffer, named>>
  PROVE  IdInv'
  BY DEF IdInv, GivingOutId

\* A message that names a buffer id gives the event loop what it fetches, or
\* leaves it alone.
LEMMA AnswerWork ==
  ASSUME DTypeOK, NEW id \in 1..MaxIds,
         \/ \E acts \in ActionLists : PacketOut(id, acts)
         \/ \E flow \in AnswerRules : AddFlowFor(id, flow)
  PROVE  \/ thread' = thread
         \/ \E acts : Becomes(Loop, "act", Fetched(id), acts, 0, FALSE)
<1>1. Fetched(id) \in Nat
  <2>1. Fetched(id) \in 0..Len(packets) /\ Len(packets) \in Nat
    BY WhatIsFetched, LenProperties DEF DTypeOK
  <2> QED BY <2>1
<1>2. ASSUME NEW acts \in ActionLists, PacketOut(id, acts)
      PROVE  Becomes(Loop, "act", Fetched(id), acts, 0, FALSE)
  <2>1. acts \in Seq(Nat) /\ Perform(Fetched(id), acts)
    BY <1>2, RulesAssumption DEF PacketOut
  <2> QED BY <1>1, <2>1, PerformWork
<1>3. ASSUME NEW flow \in AnswerRules, AddFlowFor(id, flow)
      PROVE  thread' = thread \/ Becomes(Loop, "act", Fetched(id), flow.actions, 0, FALSE)
  <2>1. flow.actions \in Seq(Nat)
    BY RulesAssumption DEF FlowEntry
  <2>2. thread' = thread \/ Perform(Fetched(id), flow.actions)
    BY <1>3 DEF AddFlowFor
  <2> QED BY <1>1, <2>1, <2>2, PerformWork
<1> QED BY <1>2, <1>3

\* Whatever id the controller names, those it has not named stay in order.
LEMMA IdsNamed ==
  ASSUME DTypeOK, IdInv, NEW id \in 1..MaxIds,
         \A u, v \in Threads : GivingOutId(u)' /\ GivingOutId(v)' => u = v,
         \/ \E acts \in ActionLists : PacketOut(id, acts)
         \/ \E flow \in AnswerRules : AddFlowFor(id, flow)
  PROVE  IdInv'
<1>1. buffer_id' = buffer_id /\ named' = named \cup {id} /\ Fetch(id)
  BY AnswerKeeps
<1>2. \A i \in 1..MaxIds : i # id => pkt_buffer'[i] = pkt_buffer[i]
  BY <1>1 DEF Fetch, DTypeOK
<1>3. \A u \in Threads : \/ thread'[u] = thread[u]
                          \/ thread'[u].pc = "act"
  BY AnswerWork DEF Becomes
<1>4. \A i \in 1..MaxIds : i > buffer_id /\ i \notin named' => pkt_buffer'[i] = NULL
  BY <1>1, <1>2 DEF IdInv
<1>5. ASSUME NEW u \in Threads
      PROVE  /\ thread'[u].pc \in {"store", "insert", "announce"} =>
                  thread'[u].id = buffer_id
             /\ buffer_id \notin named' =>
                  /\ thread'[u].pc = "insert" => pkt_buffer'[buffer_id] = NULL
                  /\ thread'[u].pc = "announce" /\ thread'[u].miss =>
                       pkt_buffer'[buffer_id] = thread'[u].pkt
  <2>1. CASE thread'[u].pc = "act"
    BY <2>1
  <2>2. CASE thread'[u] = thread[u]
    <3>1. pkt_buffer'[buffer_id] = pkt_buffer[buffer_id] \/ buffer_id \in named'
      BY <1>1 DEF Fetch, DTypeOK
    <3> QED BY <1>1, <2>2, <3>1 DEF IdInv
  <2> QED BY <1>3, <2>1, <2>2
<1> QED BY <1>1, <1>4, <1>5 DEF IdInv

\* While ids are given out by one thread at a time they stay in order.
LEMMA IdsStep ==
  ASSUME DTypeOK, WorkInv, Sound(flow_table), IdInv, Next, ~overlapped'
  PROVE  IdInv'
<1>1. \A u, v \in Threads : GivingOutId(u)' /\ GivingOutId(v)' => u = v
  BY DEF Next
<1>2. Ports \subseteq Threads /\ Loop \in Threads
  BY DEF Threads
<1>3. ASSUME NEW p \in Ports, Lookup(p) PROVE IdInv'
  <2>1. UNCHANGED <<buffer_id, pkt_buffer, named>>
    BY <1>3 DEF Lookup
  <2> QED BY <1>1, <1>2, <1>3, <2>1, LookupWork, IdsKept
<1>4. ASSUME NEW p \in Ports, NEW frame, NEW s, Capture(p, frame, s) PROVE IdInv'
  <2>1. UNCHANGED <<buffer_id, pkt_buffer, named>>
    BY <1>4 DEF Capture
  <2> QED BY <1>1, <1>2, <1>4, <2>1, CaptureWork, IdsKept
<1>5. ASSUME NEW t \in Threads, Output(t) PROVE IdInv'
  <2>1. UNCHANGED <<buffer_id, pkt_buffer, named>>
    BY <1>5 DEF Output
  <2> QED BY <1>1, <1>5, <2>1, OutputWork, IdsKept
<1>6. ASSUME NEW t \in Threads, OutputController(t) PROVE IdInv'
  <2>1. UNCHANGED <<buffer_id, pkt_buffer, named>>
    BY <1>6 DEF OutputController
  <2> QED BY <1>1, <1>6, <2>1, OutputControllerWork, IdsKept
<1>7. ASSUME NEW t \in Threads, LoadBufferId(t) PROVE IdInv'
  <2>1. UNCHANGED <<buffer_id, pkt_buffer, named>>
    BY <1>7 DEF LoadBufferId
  <2> QED BY <1>1, <1>7, <2>1, LoadWork, IdsKept
<1>8. ASSUME NEW t \in Threads, AnnounceOutput(t) PROVE IdInv'
  <2>1. UNCHANGED <<buffer_id, pkt_buffer, named>>
    BY <1>8 DEF AnnounceOutput
  <2> QED BY <1>1, <1>8, <2>1, AnnounceOutputWork, IdsKept
<1>9. ASSUME NEW t \in Threads, AnnounceMiss(t) \/ Finish(t) PROVE IdInv'
  <2>1. UNCHANGED <<buffer_id, pkt_buffer, named>> /\ Becomes(t, "idle", 0, <<>>, 0, FALSE)
    BY <1>9, IdleWork DEF AnnounceMiss, Finish
  <2> QED BY <1>1, <2>1, IdsKept
<1>10. ASSUME NEW t \in Threads, StoreBufferId(t) PROVE IdInv'
  <2>1. /\ thread[t].pc = "store" /\ UNCHANGED <<pkt_buffer, named>>
        /\ buffer_id' = thread[t].id + 1
    BY <1>10 DEF StoreBufferId
  <2>2. thread[t].id = buffer_id /\ thread[t].id < MaxIds
    BY <2>1 DEF IdInv, WorkInv
  <2>3. buffer_id' > buffer_id /\ buffer_id' \in 1..MaxIds
    BY <2>1, <2>2, DatapathAssumption DEF DTypeOK
  <2>4. Becomes(t, "insert", thread[t].pkt, thread[t].acts, thread[t].id + 1,
                thread[t].miss)
    BY <1>10, StoreWork
  <2>5. \A u \in Threads : u # t => ~GivingOutId(u)'
    BY <1>1, <2>4 DEF Becomes, GivingOutId
  <2>6. \A id \in 1..MaxIds : id > buffer_id' /\ id \notin named => pkt_buffer'[id] = NULL
    <3>1. \A id \in 1..MaxIds : id > buffer_id /\ id \notin named => pkt_buffer[id] = NULL
      BY DEF IdInv
    <3>2. buffer_id \in Nat /\ buffer_id' \in Nat
      BY <2>3 DEF DTypeOK
    <3>3. \A id \in 1..MaxIds : id > buffer_id' => id > buffer_id
      BY <2>3, <3>2, DatapathAssumption
    <3> QED BY <2>1, <3>1, <3>3
  <2>7. buffer_id' \notin named => pkt_buffer'[buffer_id'] = NULL
    BY <2>1, <2>3 DEF IdInv
  <2>8. thread'[t].pc = "insert" /\ thread'[t].id = buffer_id'
    BY <2>1, <2>4 DEF Becomes
  <2> QED BY <1>1, <2>1, <2>5, <2>6, <2>7, <2>8 DEF IdInv, GivingOutId
<1>11. ASSUME NEW t \in Threads, Insert(t) PROVE IdInv'
  <2>1. thread[t].pc = "insert" /\ UNCHANGED <<buffer_id, named>>
    BY <1>11 DEF Insert
  <2>2. /\ thread[t].id = buffer_id
        /\ buffer_id \notin named => pkt_buffer[buffer_id] = NULL
    BY <2>1 DEF IdInv
  <2>3. buffer_id \in 1..MaxIds
    BY <2>1, <2>2, IdsSeen DEF BufferIdSeen
  <2>4. pkt_buffer' = [pkt_buffer EXCEPT ![buffer_id] =
                         IF pkt_buffer[buffer_id] = NULL THEN thread[t].pkt
                         ELSE pkt_buffer[buffer_id]]
    BY <1>11, <2>2 DEF Insert, BufferIdSeen
  <2>5. Becomes(t, "announce", thread[t].pkt, thread[t].acts, thread[t].id,
                thread[t].miss)
    BY <1>11, InsertWork
  <2>6. \A u \in Threads : u # t => ~GivingOutId(u)'
    BY <1>1, <2>5 DEF Becomes, GivingOutId
  <2>7. /\ buffer_id \notin named => pkt_buffer'[buffer_id] = thread[t].pkt
        /\ \A id \in 1..MaxIds : id # buffer_id => pkt_buffer'[id] = pkt_buffer[id]
    BY <2>2, <2>3, <2>4 DEF DTypeOK
  <2>8. \A id \in 1..MaxIds : id > buffer_id' /\ id \notin named => pkt_buffer'[id] = NULL
    BY <2>1, <2>3, <2>7 DEF IdInv
  <2>9. /\ thread'[t].pc = "announce" /\ thread'[t].id = buffer_id'
        /\ thread'[t].pkt = thread[t].pkt
    BY <2>1, <2>2, <2>5 DEF Becomes
  <2> QED BY <1>1, <2>1, <2>6, <2>7, <2>8, <2>9 DEF IdInv, GivingOutId
<1>13. ASSUME NEW id \in 1..MaxIds,
              \/ \E acts \in ActionLists : PacketOut(id, acts)
              \/ \E flow \in AnswerRules : AddFlowFor(id, flow)
       PROVE  IdInv'
  BY <1>1, <1>13, IdsNamed
<1>14. ASSUME NEW p \in Ports \cup {OFPP_NONE}, NEW frame \in Frames,
              NEW acts \in ActionLists, PacketOutData(p, frame, acts)
       PROVE  IdInv'
  <2>1. UNCHANGED <<buffer_id, pkt_buffer, named>> /\ Perform(Len(packets) + 1, acts)
    BY <1>14 DEF PacketOutData
  <2>2. Len(packets) + 1 \in Nat /\ acts \in Seq(Nat)
    BY LenProperties, RulesAssumption DEF DTypeOK
  <2>3. Becomes(Loop, "act", Len(packets) + 1, acts, 0, FALSE)
    BY <2>1, <2>2, PerformWork
  <2> QED BY <1>1, <1>2, <2>1, <2>3, IdsKept
<1>15. CASE \/ Connect \/ Disconnect \/ StopLoop \/ Destroy
            \/ \E p \in Ports : StopPort(p)
            \/ \E flow \in Rules : AddFlow(flow)
            \/ \E match \in Deletes : DeleteFlows(match)
  BY <1>15, IdsUntouched DEF Connect, Disconnect, StopLoop, Destroy, StopPort, AddFlow,
                             DeleteFlows
<1>16. ASSUME NEW t \in Threads, ThreadStep(t) PROVE IdInv'
  BY <1>5, <1>6, <1>7, <1>8, <1>9, <1>10, <1>11, <1>16 DEF ThreadStep
<1> QED
  BY <1>3, <1>4, <1>13, <1>14, <1>15, <1>16 DEF Next, Step


\* What a capture thread works on was allocated, and by it alone.
LEMMA PacketsOfPorts ==
  ASSUME DTypeOK, WorkInv, NEW p \in Ports, Busy(p)
  PROVE  /\ thread[p].pkt \in 1..Len(packets)
         /\ \A q \in Ports : q # p /\ Busy(q) => thread[q].pkt # thread[p].pkt
<1>1. p \in Threads
  BY DEF Threads
<1>2. thread[p].pkt \in 0..Len(packets) /\ thread[p].pkt # 0
  BY <1>1, PktInRange DEF WorkInv, Busy
<1>3. thread[p].pkt \in 1..Len(packets)
  BY <1>2
<1> QED BY <1>3 DEF WorkInv, Busy

\* The packets stay in place after a step that leaves the capture threads but
\* perhaps t alone and lets no packet but perhaps t's be reached by more ids.
LEMMA PacketsInPlace ==
  ASSUME DTypeOK, WorkInv, PacketInv, NEW t \in Threads, named \subseteq named',
         \A k \in 1..Len(packets), ids \in SUBSET (1..MaxIds \ named') :
           Safe(k, ids) /\ (t \in Ports /\ Busy(t) => thread[t].pkt # k) => Safe(k, ids)',
         \A r \in pending \cap pending' :
           r.id \notin named' => pkt_buffer'[r.id] = pkt_buffer[r.id],
         \A p \in Ports \ {t} :
           /\ thread'[p] = thread[p]
           /\ buffer_id' = buffer_id \/ thread[p].pc # "announce",
         \A r \in pending' \ pending : Waits(r)',
         t \in Ports => /\ (Fresh(t) => Safe(thread[t].pkt, Taken(t)))'
                        /\ Busy(t)' => \A r \in pending \cap pending' :
                             r.id \notin named' => thread'[t].pkt # r.pkt
  PROVE  PacketInv'
<1>1. ASSUME NEW r \in pending \cap pending' PROVE Waits(r)'
  <2> SUFFICES ASSUME r.id \notin named'
               PROVE  /\ pkt_buffer'[r.id] = r.pkt
                      /\ Safe(r.pkt, {r.id})'
                      /\ \A p \in Ports : Busy(p)' => thread'[p].pkt # r.pkt
    BY DEF Waits
  <2>1. /\ pkt_buffer[r.id] = r.pkt /\ Safe(r.pkt, {r.id})
        /\ \A p \in Ports : Busy(p) => thread[p].pkt # r.pkt
    BY DEF PacketInv, Waits
  <2>2. r.id \in 1..MaxIds /\ r.pkt \in 1..Len(packets)
    BY DEF DTypeOK
  <2>3. {r.id} \in SUBSET (1..MaxIds \ named')
    BY <2>2
  <2>4. Safe(r.pkt, {r.id})'
    BY <2>1, <2>2, <2>3
  <2>5. \A p \in Ports : Busy(p)' => thread'[p].pkt # r.pkt
    BY <2>1 DEF Busy
  <2> QED BY <2>1, <2>4, <2>5
<1>2. ASSUME NEW p \in Ports, p # t, Fresh(p)' PROVE Safe(thread[p].pkt, Taken(p))'
  <2>1. /\ thread'[p] = thread[p] /\ p \in Threads
        /\ buffer_id' = buffer_id \/ thread[p].pc # "announce"
    BY <1>2 DEF Threads
  <2>2. Fresh(p) /\ Busy(p) /\ Taken(p)' = Taken(p)
    BY <1>2, <2>1 DEF Fresh, Busy, Taken
  <2>3. Safe(thread[p].pkt, Taken(p))
    BY <2>2 DEF PacketInv
  <2>4. Taken(p) \in SUBSET (1..MaxIds \ named')
    <3>1. CASE thread[p].pc = "announce"
      <4>1. buffer_id > 0 /\ buffer_id \in 0..MaxIds /\ buffer_id \notin named'
        BY <1>2, <2>1, <3>1 DEF Fresh, WorkInv, DTypeOK
      <4> QED BY <3>1, <4>1, DatapathAssumption DEF Taken
    <3>2. CASE thread[p].pc # "announce"
      BY <3>2 DEF Taken
    <3> QED BY <3>1, <3>2
  <2>5. /\ thread[p].pkt \in 1..Len(packets)
        /\ t \in Ports /\ Busy(t) => thread[t].pkt # thread[p].pkt
    BY <1>2, <2>2, PacketsOfPorts
  <2>6. PICK k, ids : k = thread[p].pkt /\ ids = Taken(p)
    OBVIOUS
  <2>7. Safe(k, ids)'
    BY <2>3, <2>4, <2>5, <2>6
  <2>8. thread'[p].pkt = k /\ Taken(p)' = ids
    BY <2>1, <2>2, <2>6
  <2> QED BY <2>7, <2>8 DEF Safe
<1>3. \A p \in Ports : (Fresh(p) => Safe(thread[p].pkt, Taken(p)))'
  BY <1>2
<1> QED BY <1>1, <1>3 DEF PacketInv

\* After a step that changes no packet, entry or packet-in and gives the thread
\* that takes it no other packet.
LEMMA PacketsUntouchedBy ==
  ASSUME DTypeOK, WorkInv, PacketInv, UNCHANGED <<packets, pkt_buffer, pending, named>>,
         NEW t \in Threads, NEW pc, NEW pkt, NEW acts, NEW id, NEW miss,
         Becomes(t, pc, pkt, acts, id, miss), Busy(t),
         pc = "idle" \/ pkt = thread[t].pkt,
         \A p \in Ports \ {t} : buffer_id' = buffer_id \/ thread[p].pc # "announce",
         t \in Ports /\ Fresh(t)' => Fresh(t) /\ Taken(t) = {} /\ Taken(t)' = {}
  PROVE  PacketInv'
<1>1. ASSUME NEW k, NEW ids, Safe(k, ids) PROVE Safe(k, ids)'
  <2>1. Busy(Loop)' => Busy(Loop) /\ thread'[Loop].pkt = thread[Loop].pkt
    BY DEF Becomes, Busy, Threads
  <2> QED BY <1>1, <2>1 DEF Safe
<1>2. \A p \in Ports \ {t} : thread'[p] = thread[p]
  BY DEF Becomes, Threads
<1>3. ASSUME t \in Ports, Fresh(t)' PROVE Safe(thread[t].pkt, Taken(t))'
  <2>1. thread'[t].pkt = thread[t].pkt
    BY <1>3 DEF Becomes, Fresh
  <2>2. Safe(thread[t].pkt, {})
    BY <1>3 DEF PacketInv
  <2>3. PICK k : k = thread[t].pkt
    OBVIOUS
  <2>4. Safe(k, {})'
    BY <1>1, <2>2, <2>3
  <2> QED BY <1>3, <2>1, <2>3, <2>4 DEF Safe
<1>4. ASSUME t \in Ports, Busy(t)'
      PROVE  \A r \in pending : r.id \notin named => thread'[t].pkt # r.pkt
  BY <1>4 DEF Becomes, Busy, PacketInv, Waits
<1> QED BY <1>1, <1>2, <1>3, <1>4, PacketsInPlace

\* After a step that changes no packet, entry or thread.
LEMMA PacketsUntouched ==
  ASSUME DTypeOK, WorkInv, PacketInv, pending' \subseteq pending,
         UNCHANGED <<packets, pkt_buffer, buffer_id, named, thread>>
  PROVE  PacketInv'
<1>1. \A k, ids : Safe(k, ids) => Safe(k, ids)'
  BY DEF Safe, Busy
<1>2. Loop \in Threads /\ Loop \notin Ports
  BY DatapathAssumption DEF Threads
<1> QED BY <1>1, <1>2, PacketsInPlace

\* A capture thread is given a packet that no id leads to yet.
LEMMA CapturedInPlace ==
  ASSUME DTypeOK, WorkInv, PacketInv, NEW p \in Ports, NEW frame \in Frames,
         NEW s \in 1..Slots, Capture(p, frame, s)
  PROVE  PacketInv'
<1> DEFINE k == [in_port |-> p, slot |-> s, captured |-> frame, live |-> TRUE]
           n == Len(packets) + 1
<1>1. k \in Packet /\ k.live
  BY DatapathAssumption DEF Packet
<1>2. /\ packets' = Append(packets, k) /\ UNCHANGED <<pkt_buffer, buffer_id, pending, named>>
      /\ thread[p].pc = "idle"
  BY DEF Capture
<1> HIDE DEF k
<1>3. /\ n \in Nat /\ packets'[n] = k /\ \A i \in 1..Len(packets) : packets'[i] = packets[i]
      /\ \A i \in 0..Len(packets) : i # n
  BY <1>1, <1>2, PacketAdded
<1> HIDE DEF n
<1>4. Becomes(p, "lookup", n, <<>>, 0, FALSE)
  BY CaptureWork DEF n
<1>5. p \in Threads /\ Loop \in Threads /\ p # Loop
  BY DatapathAssumption DEF Threads
<1>6. ASSUME NEW i \in 1..Len(packets), NEW ids, Safe(i, ids) PROVE Safe(i, ids)'
  <2>1. thread'[Loop] = thread[Loop]
    BY <1>4, <1>5 DEF Becomes
  <2> QED BY <1>2, <1>3, <1>6, <2>1 DEF Safe, Busy
<1>7. Safe(thread[p].pkt, Taken(p))'
  <2>1. thread'[p].pkt = n /\ Taken(p)' = {}
    BY <1>4 DEF Becomes, Taken
  <2>2. \A id \in 1..MaxIds : pkt_buffer'[id] # n
    <3>1. \A id \in 1..MaxIds : pkt_buffer[id] \in {NULL} \cup 0..Len(packets)
      BY DEF DTypeOK
    <3> QED BY <1>2, <1>3, <3>1, DatapathAssumption
  <2>3. thread'[Loop].pkt # n
    <3>1. thread[Loop].pkt \in 0..Len(packets)
      BY <1>5, PktInRange
    <3> QED BY <1>3, <1>4, <1>5, <3>1 DEF Becomes
  <2> QED BY <1>1, <1>3, <2>1, <2>2, <2>3 DEF Safe
<1>8. \A r \in pending : thread'[p].pkt # r.pkt
  BY <1>3, <1>4 DEF Becomes, DTypeOK
<1>9. \A q \in Ports \ {p} : thread'[q] = thread[q]
  BY <1>4 DEF Becomes, Threads
<1> QED BY <1>2, <1>5, <1>6, <1>7, <1>8, <1>9, PacketsInPlace

\* The event loop is given a packet that the message carried.
LEMMA CarriedInPlace ==
  ASSUME DTypeOK, WorkInv, PacketInv, NEW p \in Ports \cup {OFPP_NONE},
         NEW frame \in Frames, NEW acts \in ActionLists, PacketOutData(p, frame, acts)
  PROVE  PacketInv'
<1> DEFINE k == [in_port |-> p, slot |-> 0, captured |-> frame, live |-> TRUE]
<1>1. k \in Packet
  BY DatapathAssumption DEF Packet
<1>2. /\ packets' = Append(packets, k) /\ UNCHANGED <<pkt_buffer, buffer_id, pending, named>>
      /\ Perform(Len(packets) + 1, acts)
  BY DEF PacketOutData
<1> HIDE DEF k
<1>3. Len(packets) \in Nat /\ \A i \in 1..Len(packets) : packets'[i] = packets[i]
  BY <1>1, <1>2, PacketAdded
<1>4. Becomes(Loop, "act", Len(packets) + 1, acts, 0, FALSE)
  <2>1. acts \in Seq(Nat) /\ Len(packets) + 1 \in Nat
    BY <1>3, RulesAssumption
  <2> QED BY <1>2, <2>1, PerformWork
<1>5. Loop \in Threads /\ Loop \notin Ports
  BY DatapathAssumption DEF Threads
<1>6. ASSUME NEW i \in 1..Len(packets), NEW ids, Safe(i, ids) PROVE Safe(i, ids)'
  <2>1. thread'[Loop].pkt # i
    BY <1>3, <1>4 DEF Becomes
  <2> QED BY <1>2, <1>3, <1>6, <2>1 DEF Safe
<1>7. \A q \in Ports : thread'[q] = thread[q]
  BY <1>4, <1>5 DEF Becomes, Threads
<1> QED BY <1>2, <1>5, <1>6, <1>7, PacketsInPlace

\* Thread t makes the entry of its id, which leads to no packet but its own.
LEMMA InsertedInPlace ==
  ASSUME DTypeOK, WorkInv, IdInv, PacketInv, NEW t \in Threads, Insert(t)
  PROVE  PacketInv'
<1> DEFINE n == thread[t].pkt
<1>1. /\ thread[t].pc = "insert" /\ Busy(t)
      /\ UNCHANGED <<packets, buffer_id, pending, named>>
  BY DEF Insert, Busy
<1>2. thread[t].id = buffer_id
  BY <1>1 DEF IdInv
<1>3. pkt_buffer' = [pkt_buffer EXCEPT ![buffer_id] =
                       IF pkt_buffer[buffer_id] = NULL THEN n ELSE pkt_buffer[buffer_id]]
  BY <1>2 DEF Insert, BufferIdSeen
<1>4. buffer_id \in 1..MaxIds
  BY <1>1, <1>2, IdsSeen DEF BufferIdSeen
<1>5. /\ \A id \in 1..MaxIds : pkt_buffer[id] # NULL => pkt_buffer'[id] = pkt_buffer[id]
      /\ \A id \in 1..MaxIds : pkt_buffer'[id] = pkt_buffer[id]
                               \/ (id = buffer_id /\ pkt_buffer'[id] = n)
  BY <1>3, <1>4 DEF DTypeOK
<1>6. Becomes(t, "announce", n, thread[t].acts, thread[t].id, thread[t].miss)
  BY InsertWork
<1> HIDE DEF n
<1>7. ASSUME NEW k \in 1..Len(packets), NEW ids, Safe(k, ids),
             t \in Ports /\ Busy(t) => thread[t].pkt # k
      PROVE  Safe(k, ids)'
  <2>1. n # k
    BY <1>1, <1>7 DEF Safe, n, Threads
  <2>2. Busy(Loop)' => Busy(Loop) /\ thread'[Loop].pkt = thread[Loop].pkt
    BY <1>1, <1>6 DEF Becomes, Busy, Threads, n
  <2>3. \A id \in 1..MaxIds : pkt_buffer'[id] = k => pkt_buffer[id] = k
    BY <1>5, <2>1
  <2> QED BY <1>1, <1>7, <2>2, <2>3 DEF Safe
<1>8. ASSUME NEW r \in pending, r.id \notin named PROVE pkt_buffer'[r.id] = pkt_buffer[r.id]
  <2>1. r.id \in 1..MaxIds /\ r.pkt \in Nat
    BY DEF DTypeOK
  <2>2. pkt_buffer[r.id] = r.pkt
    BY <1>8 DEF PacketInv, Waits
  <2> QED BY <1>5, <2>1, <2>2, DatapathAssumption
<1>9. \A p \in Ports \ {t} : thread'[p] = thread[p]
  BY <1>6 DEF Becomes, Threads
<1>10. ASSUME t \in Ports, Fresh(t)' PROVE Safe(thread[t].pkt, Taken(t))'
  <2>1. thread'[t].pkt = n /\ Taken(t)' = {buffer_id} /\ thread'[Loop] = thread[Loop]
    BY <1>1, <1>6, <1>10, DatapathAssumption DEF Becomes, Taken, Threads
  <2>2. Fresh(t) /\ Taken(t) = {}
    BY <1>1, <1>6, <1>10 DEF Fresh, Taken, Becomes
  <2>3. Safe(n, {})
    BY <1>10, <2>2 DEF PacketInv, n
  <2> QED BY <1>1, <1>5, <2>1, <2>3 DEF Safe, Busy
<1>11. ASSUME t \in Ports
       PROVE  \A r \in pending : r.id \notin named => thread'[t].pkt # r.pkt
  BY <1>1, <1>6, <1>11 DEF Becomes, PacketInv, Waits, n
<1> QED BY <1>1, <1>7, <1>8, <1>9, <1>10, <1>11, PacketsInPlace

\* What was announced as a miss waits for its answer where its id leads.
LEMMA MissInPlace ==
  ASSUME DTypeOK, WorkInv, IdInv, PacketInv, NEW t \in Threads, AnnounceMiss(t)
  PROVE  PacketInv'
<1>0. PICK new : new = [id |-> buffer_id, pkt |-> thread[t].pkt]
  OBVIOUS
<1>1. /\ thread[t].pc = "announce" /\ thread[t].miss
      /\ UNCHANGED <<pkt_buffer, buffer_id, packets, named>>
      /\ Becomes(t, "idle", 0, <<>>, 0, FALSE)
  BY IdleWork DEF AnnounceMiss
<1>2. t \in Ports /\ Busy(t) /\ thread[t].id = buffer_id /\ Loop # t
  BY <1>1, DatapathAssumption DEF WorkInv, Threads, Busy, IdInv
<1>3. pending' \subseteq pending \cup {new}
  BY <1>0, <1>2 DEF AnnounceMiss, BufferIdSeen
<1>4. new.id = buffer_id /\ new.pkt = thread[t].pkt
  BY <1>0
<1>5. \A p \in Ports \ {t} : thread'[p] = thread[p]
  BY <1>1 DEF Becomes, Threads
<1>6. ASSUME NEW k, NEW ids, Safe(k, ids) PROVE Safe(k, ids)'
  <2>1. thread'[Loop] = thread[Loop]
    BY <1>1, <1>2 DEF Becomes, Threads
  <2> QED BY <1>1, <1>6, <2>1 DEF Safe, Busy
<1>7. ~Busy(t)' /\ ~Fresh(t)'
  BY <1>1 DEF Becomes, Busy, Fresh
<1>8. ASSUME buffer_id \notin named PROVE Waits(new)'
  <2>1. Fresh(t) /\ Taken(t) = {buffer_id}
    BY <1>1, <1>8 DEF Fresh, Taken
  <2>2. Safe(new.pkt, {new.id})
    BY <1>2, <1>4, <2>1 DEF PacketInv
  <2>3. Safe(new.pkt, {new.id})'
    BY <1>6, <2>2
  <2>4. \A p \in Ports : Busy(p)' => thread'[p].pkt # new.pkt
    BY <1>2, <1>4, <1>5, <1>7, PacketsOfPorts DEF Busy
  <2>5. pkt_buffer[new.id] = new.pkt
    BY <1>1, <1>2, <1>4, <1>8 DEF IdInv, Threads
  <2> QED BY <1>1, <2>3, <2>4, <2>5 DEF Waits
<1>9. \A r \in pending' \ pending : Waits(r)'
  <2>1. new.id \in named => Waits(new)'
    BY <1>1 DEF Waits
  <2> QED BY <1>3, <1>4, <1>8, <2>1
<1> QED BY <1>1, <1>2, <1>5, <1>6, <1>7, <1>9, PacketsInPlace

\* A message that names an id takes no packet from a packet-in of another id.
LEMMA AnswerInPlace ==
  ASSUME DTypeOK, WorkInv, PacketInv, NEW id \in 1..MaxIds,
         \/ \E acts \in ActionLists : PacketOut(id, acts)
         \/ \E flow \in AnswerRules : AddFlowFor(id, flow)
  PROVE  PacketInv'
<1>1. /\ pending' \subseteq pending /\ named' = named \cup {id} /\ Fetch(id)
      /\ UNCHANGED <<buffer_id, packets>>
  BY AnswerKeeps
<1>2. /\ \A i \in 1..MaxIds : i # id => pkt_buffer'[i] = pkt_buffer[i]
      /\ pkt_buffer'[id] = Fetched(id)
  BY <1>1 DEF Fetch, DTypeOK
<1>3. Loop \in Threads /\ Loop \notin Ports
  BY DatapathAssumption DEF Threads
<1>4. /\ \A p \in Ports : thread'[p] = thread[p]
      /\ thread' = thread \/ thread'[Loop].pkt = Fetched(id)
  BY <1>3, AnswerWork DEF Becomes, Threads
<1>5. ASSUME NEW k \in 1..Len(packets), NEW ids \in SUBSET (1..MaxIds \ named'), Safe(k, ids)
      PROVE  Safe(k, ids)'
  <2>1. k # 0
    BY <1>5
  <2>2. Fetched(id) # k
    BY <1>1, <1>5, <2>1 DEF Safe, Fetched
  <2> QED BY <1>1, <1>2, <1>4, <1>5, <2>2 DEF Safe, Busy
<1>6. \A r \in pending : r.id \notin named' => pkt_buffer'[r.id] = pkt_buffer[r.id]
  BY <1>1, <1>2 DEF DTypeOK
<1> QED BY <1>1, <1>3, <1>4, <1>5, <1>6, PacketsInPlace

\* What the event loop deletes waits for no answer.
LEMMA FinishedInPlace ==
  ASSUME DTypeOK, WorkInv, PacketInv, NEW t \in Threads, Finish(t)
  PROVE  PacketInv'
<1>1. /\ Busy(t) /\ UNCHANGED <<pending, pkt_buffer, buffer_id, named>>
      /\ Becomes(t, "idle", 0, <<>>, 0, FALSE)
  BY IdleWork DEF Finish, Busy
<1>2. \A j \in 1..Len(packets) : \/ packets'[j].live = packets[j].live
                                 \/ t = Loop /\ j = thread[Loop].pkt
  BY PacketFinished
<1>3. ASSUME NEW k \in 1..Len(packets), NEW ids, Safe(k, ids) PROVE Safe(k, ids)'
  <2>1. Busy(Loop)' => Busy(Loop) /\ thread'[Loop].pkt = thread[Loop].pkt
    BY <1>1 DEF Becomes, Busy, Threads
  <2> QED BY <1>1, <1>2, <1>3, <2>1 DEF Safe
<1>4. \A p \in Ports \ {t} : thread'[p] = thread[p]
  BY <1>1 DEF Becomes, Threads
<1>5. ~Busy(t)' /\ ~Fresh(t)'
  BY <1>1 DEF Becomes, Busy, Fresh
<1> QED BY <1>1, <1>3, <1>4, <1>5, PacketsInPlace

\* While ids are given out by one thread at a time, the packet of a packet-in
\* is found by the first answer.
LEMMA PacketsStep ==
  ASSUME DTypeOK, WorkInv, EndInv, Sound(flow_table), IdInv, PacketInv, Next
  PROVE  PacketInv'
<1>1. Ports \subseteq Threads /\ Loop \in Threads /\ Loop \notin Ports
  BY DatapathAssumption DEF Threads
<1>2. ASSUME NEW t \in Threads, NEW pc, NEW acts, NEW id, NEW miss, Busy(t),
             UNCHANGED <<packets, pkt_buffer, buffer_id, pending, named>>,
             Becomes(t, pc, thread[t].pkt, acts, id, miss),
             t \in Ports /\ Fresh(t)' => Fresh(t) /\ Taken(t) = {} /\ Taken(t)' = {}
      PROVE  PacketInv'
  BY <1>2, PacketsUntouchedBy
<1>3. ASSUME NEW p \in Ports, Lookup(p) PROVE PacketInv'
  <2>1. /\ thread[p].pc = "lookup" /\ Busy(p) /\ Fresh(p) /\ Taken(p) = {}
        /\ UNCHANGED <<packets, pkt_buffer, buffer_id, pending, named>>
    BY <1>3 DEF Lookup, Busy, Fresh, Taken
  <2>2. CASE \E acts \in Seq(Nat) :
               Becomes(p, "act", thread[p].pkt, acts, thread[p].id, thread[p].miss)
    <3>1. Taken(p)' = {}
      BY <2>2 DEF Becomes, Taken
    <3> QED BY <1>1, <1>2, <2>1, <2>2, <3>1
  <2>3. CASE Becomes(p, "load", thread[p].pkt, thread[p].acts, thread[p].id, TRUE)
    <3>1. Taken(p)' = {}
      BY <2>3 DEF Becomes, Taken
    <3> QED BY <1>1, <1>2, <2>1, <2>3, <3>1
  <2> QED BY <1>3, <2>2, <2>3, LookupWork
<1>4. ASSUME NEW t \in Threads, Output(t) PROVE PacketInv'
  <2>1. /\ Busy(t) /\ UNCHANGED <<packets, pkt_buffer, buffer_id, pending, named>>
    BY <1>4 DEF Output, Busy
  <2>2. Becomes(t, "act", thread[t].pkt, Tail(thread[t].acts), thread[t].id, thread[t].miss)
    BY <1>4, OutputWork
  <2>3. ~Fresh(t)'
    BY <2>2 DEF Becomes, Fresh
  <2> QED BY <1>2, <2>1, <2>2, <2>3
<1>5. ASSUME NEW t \in Threads, OutputController(t) PROVE PacketInv'
  <2>1. /\ Busy(t) /\ UNCHANGED <<packets, pkt_buffer, buffer_id, pending, named>>
    BY <1>5 DEF OutputController, Busy
  <2>2. Becomes(t, "load", thread[t].pkt, Tail(thread[t].acts), thread[t].id, FALSE)
    BY <1>5, OutputControllerWork
  <2>3. ~Fresh(t)'
    BY <2>2 DEF Becomes, Fresh
  <2> QED BY <1>2, <2>1, <2>2, <2>3
<1>6. ASSUME NEW t \in Threads, LoadBufferId(t) PROVE PacketInv'
  <2>1. /\ thread[t].pc = "load" /\ Busy(t)
        /\ UNCHANGED <<packets, pkt_buffer, buffer_id, pending, named>>
    BY <1>6 DEF LoadBufferId, Busy
  <2>2. Becomes(t, "store", thread[t].pkt, thread[t].acts, buffer_id, thread[t].miss)
    BY <1>6, LoadWork
  <2>3. Taken(t) = {} /\ Taken(t)' = {} /\ (Fresh(t)' => Fresh(t))
    BY <2>1, <2>2 DEF Becomes, Fresh, Taken
  <2> QED BY <1>2, <2>1, <2>2, <2>3
<1>7. ASSUME NEW t \in Threads, AnnounceOutput(t) PROVE PacketInv'
  <2>1. /\ Busy(t) /\ UNCHANGED <<packets, pkt_buffer, buffer_id, pending, named>>
    BY <1>7 DEF AnnounceOutput, Busy
  <2>2. Becomes(t, "act", thread[t].pkt, thread[t].acts, thread[t].id, thread[t].miss)
    BY <1>7, AnnounceOutputWork
  <2>3. ~Fresh(t)'
    BY <2>2 DEF Becomes, Fresh
  <2> QED BY <1>2, <2>1, <2>2, <2>3
<1>8. ASSUME NEW t \in Threads, StoreBufferId(t) PROVE PacketInv'
  <2>1. /\ thread[t].pc = "store" /\ Busy(t)
        /\ UNCHANGED <<packets, pkt_buffer, pending, named>>
    BY <1>8 DEF StoreBufferId, Busy
  <2>2. Becomes(t, "insert", thread[t].pkt, thread[t].acts, thread[t].id + 1,
                thread[t].miss)
    BY <1>8, StoreWork
  <2>3. Taken(t) = {} /\ Taken(t)' = {} /\ (Fresh(t)' => Fresh(t))
    BY <2>1, <2>2 DEF Becomes, Fresh, Taken
  <2>4. \A p \in Ports \ {t} : thread[p].pc # "announce"
    BY <1>1, <2>1 DEF IdInv, GivingOutId
  <2> QED BY <2>1, <2>2, <2>3, <2>4, PacketsUntouchedBy
<1>9. ASSUME NEW t \in Threads, ThreadStep(t) PROVE PacketInv'
  BY <1>4, <1>5, <1>6, <1>7, <1>8, <1>9, InsertedInPlace, MissInPlace, FinishedInPlace
     DEF ThreadStep
<1>10. CASE Destroy
  <2>1. /\ pending' = {} /\ thread' = thread /\ \A t \in Threads : thread[t].pc = "idle"
    BY <1>10 DEF Destroy, EndInv
  <2>2. \A p \in Ports : ~Fresh(p)'
    <3>1. \A p \in Ports : thread'[p].pc = "idle"
      BY <1>1, <2>1
    <3> QED BY <3>1 DEF Fresh
  <2> QED BY <2>1, <2>2 DEF PacketInv
<1>11. CASE \/ Connect \/ Disconnect \/ StopLoop
            \/ \E p \in Ports : StopPort(p)
            \/ \E flow \in Rules : AddFlow(flow)
            \/ \E match \in Deletes : DeleteFlows(match)
  BY <1>11, PacketsUntouched
     DEF Connect, Disconnect, StopLoop, StopPort, AddFlow, DeleteFlows
<1> QED
  BY <1>3, <1>9, <1>10, <1>11, CapturedInPlace, CarriedInPlace, AnswerInPlace DEF Next, Step

\* The inductive invariant of the packets and their ids.
DatapathInv ==
  /\ TableInv /\ DTypeOK /\ WorkInv /\ EndInv
  /\ RingInv /\ SentAsCaptured /\ AloneInv

\* The invariant holds of a switch that has captured nothing.
LEMMA DatapathInit == Init => DatapathInv
<1> SUFFICES ASSUME Init PROVE DatapathInv
  OBVIOUS
<1>1. /\ flow_table = <<>> /\ packets = <<>> /\ buffer_id = 0 /\ pending = {}
      /\ pkt_buffer = [id \in 1..MaxIds |-> NULL] /\ emitted = {} /\ closed = {}
      /\ ring = [p \in Ports |-> [s \in 1..Slots |-> NULL]]
      /\ thread = [t \in Threads |-> Idle] /\ main = "running"
  BY DEF Init
<1>2. TableInv
  BY <1>1, EmptySeq DEF TableInv, Sound, InTableOrder, NoTwice, HasNoDuplicates
<1>3. Idle \in Work /\ Loop \in Threads /\ Ports \subseteq Threads
  BY DatapathAssumption DEF Idle, Work, Steps, Threads
<1>4. \A t \in Threads : thread[t].pc = "idle" /\ thread[t].pkt = 0
                         /\ thread[t].acts = <<>> /\ thread[t].miss = FALSE
  BY <1>1 DEF Idle
<1>5. Len(packets) = 0 /\ DOMAIN packets = {} /\ packets \in Seq(Packet)
  BY <1>1, EmptySeq
<1>6. DTypeOK
  BY <1>1, <1>3, <1>5, DatapathAssumption DEF DTypeOK
<1>7. WorkInv
  BY <1>3, <1>4, <1>5 DEF WorkInv
<1>8. EndInv /\ RingInv /\ SentAsCaptured
  BY <1>1, <1>5 DEF EndInv, RingInv, SentAsCaptured
<1>9. IdInv /\ PacketInv
  BY <1>1, <1>3, <1>4 DEF IdInv, PacketInv, GivingOutId, Fresh
<1> QED BY <1>2, <1>6, <1>7, <1>8, <1>9 DEF DatapathInv, AloneInv

\* Every step of a thread, of main and of the controller keeps it.
LEMMA DatapathStep == DatapathInv /\ [Next]_vars => DatapathInv'
<1> SUFFICES ASSUME DatapathInv, [Next]_vars PROVE DatapathInv'
  OBVIOUS
<1>1. /\ TableInv /\ Sound(flow_table) /\ DTypeOK /\ WorkInv /\ EndInv
      /\ RingInv /\ SentAsCaptured /\ AloneInv
  BY DEF DatapathInv, TableInv
<1>2. TableInv'
  BY <1>1, TableStep
<1>3. DTypeOK'
  BY <1>1, TypesStep
<1>4. WorkInv'
  BY <1>1, WorkStep
<1>5. EndInv'
  BY <1>1, EndStep
<1>6. RingInv'
  BY <1>1, RingStep
<1>7. SentAsCaptured'
  BY <1>1, SentStep
<1>8. AloneInv'
  <2>1. ASSUME Next, ~overlapped' PROVE IdInv' /\ PacketInv'
    <3>1. ~overlapped
      BY <2>1 DEF Next
    <3>2. IdInv /\ PacketInv
      BY <1>1, <3>1 DEF AloneInv
    <3> QED BY <1>1, <2>1, <3>2, IdsStep, PacketsStep
  <2>2. CASE UNCHANGED vars
    BY <1>1, <2>2 DEF vars, AloneInv, IdInv, PacketInv, GivingOutId, Busy, Waits, Safe,
                      Fresh, Taken
  <2> QED BY <2>1, <2>2 DEF AloneInv
<1> QED BY <1>2, <1>3, <1>4, <1>5, <1>6, <1>7, <1>8 DEF DatapathInv

\* The first answer to a packet-in reaches the packet that was announced: its
\* buffer id leads to it (port.cc:64-69) and it has not been deleted
\* (datapath.cc:76-91, 125-132), whatever other ids the controller has named and
\* whatever entries that has made or left behind.  And what any output sends is
\* what was captured.  The exceptions are the code's: ids given out by two threads
\* at one time, a ring slot reused, a capture closed, a packet deleted.
THEOREM AnswersAlwaysFindPackets == Spec => []AnswersFindPackets
<1>1. DatapathInv => AnswersFindPackets
  BY DEF DatapathInv, AloneInv, PacketInv, Waits, Safe, AnswersFindPackets
<1> QED BY <1>1, DatapathInit, DatapathStep, PTL DEF Spec

\* Packets, buffer ids and what the threads work on stay in range: an entry of
\* the packet buffer leads to a packet that was allocated or to none, and a
\* capture thread handles packets of its own port's ring.
THEOREM DatapathTypes == Spec => [](DTypeOK /\ WorkInv /\ EndInv)
<1>1. DatapathInv => DTypeOK /\ WorkInv /\ EndInv
  BY DEF DatapathInv
<1> QED BY <1>1, DatapathInit, DatapathStep, PTL DEF Spec

=============================================================================
