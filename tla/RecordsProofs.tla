------------------------------ MODULE RecordsProofs ------------------------------
(***************************************************************************)
(* Proofs about what is kept to be believed later, for any number of       *)
(* events, keys, receipts, commands and runs: the audit chain (module      *)
(* AuditChain), those who read it while it is written (IntegrityProof), the*)
(* keys and witnesses of its proofs (ProofTransparency), the ledger of     *)
(* accepted responses (AcceptanceLedger), the copies of its checkpoints    *)
(* (CheckpointTransfer), the journal of a publication (Publication).       *)
(***************************************************************************)
EXTENDS IntegrityProof, ProofTransparency, AcceptanceLedger, CheckpointTransfer, Publication,
        NumberLemmas, FiniteSetTheorems, SequenceTheorems, TLAPS

\* A hash stands for a sequence of times.
Hash == Seq(Nat)

\* The row of the n-th event of a chain that has this hash.
RowIn(s, n) ==
    [seq |-> n, at |-> s[n], prev |-> SubSeq(s, 1, n - 1), hash |-> SubSeq(s, 1, n)]

-----------------------------------------------------------------------------
(* Sequences. *)

\* The only element of a sequence.
LEMMA OneElement ==
    ASSUME NEW S, NEW s \in Seq(S), Len(s) = 1
    PROVE  s # <<>> /\ Head(s) = Last(s)
<1>1. s # <<>>
  OBVIOUS
<1>2. Head(s) = s[1]
  OBVIOUS
<1>3. Last(s) = s[1]
  BY DEF Last
<1>4. QED
  BY <1>1, <1>2, <1>3

LEMMA FrontOf ==
    ASSUME NEW s \in Hash, NEW n \in 0..Len(s)
    PROVE  /\ SubSeq(s, 1, n) \in Hash /\ Len(SubSeq(s, 1, n)) = n
           /\ \A i \in 1..n : SubSeq(s, 1, n)[i] = s[i]
BY SubSeqProperties DEF Hash

LEMMA SameFronts ==
    ASSUME NEW s \in Hash, NEW t \in Hash, NEW n \in 0..Len(s), n <= Len(t),
           \A i \in 1..n : s[i] = t[i]
    PROVE  SubSeq(s, 1, n) = SubSeq(t, 1, n)
<1>1. SubSeq(s, 1, n) \in Hash /\ SubSeq(t, 1, n) \in Hash
  BY FrontOf
<1>2. /\ Len(SubSeq(s, 1, n)) = n /\ Len(SubSeq(t, 1, n)) = n
      /\ \A i \in 1..n : SubSeq(s, 1, n)[i] = SubSeq(t, 1, n)[i]
  BY FrontOf
<1>3. QED
  BY <1>1, <1>2, SeqEqual DEF Hash

LEMMA WholeFront ==
    ASSUME NEW s \in Hash
    PROVE  SubSeq(s, 1, Len(s)) = s
BY SubSeqFull DEF Hash

LEMMA FrontOfAppend ==
    ASSUME NEW s \in Hash, NEW x \in Nat
    PROVE  /\ Append(s, x) \in Hash /\ Len(Append(s, x)) = Len(s) + 1
           /\ Append(s, x)[Len(s) + 1] = x
           /\ \A n \in 0..Len(s) : SubSeq(Append(s, x), 1, n) = SubSeq(s, 1, n)
           /\ \A i \in 1..Len(s) : Append(s, x)[i] = s[i]
<1>1. /\ Append(s, x) \in Hash /\ Len(Append(s, x)) = Len(s) + 1
      /\ Append(s, x)[Len(s) + 1] = x /\ \A i \in 1..Len(s) : Append(s, x)[i] = s[i]
  BY AppendProperties DEF Hash
<1>2. ASSUME NEW n \in 0..Len(s)
      PROVE  SubSeq(Append(s, x), 1, n) = SubSeq(s, 1, n)
  BY <1>1, SameFronts
<1>3. QED
  BY <1>1, <1>2

-----------------------------------------------------------------------------
(* The chain. *)

HeadRow == [anchorSeq : Nat, anchorHash : Hash, lastSeq : Nat, lastHash : Hash]

\* Shape of the state, and where checkpoints and prunings may point.
AuditTypeOK ==
    /\ head \in HeadRow /\ head.anchorSeq <= head.lastSeq
    /\ \A c \in checkpoints : c.seq \in 0..head.lastSeq
    /\ pruned \in Seq([from : Nat, to : Nat, hash : Hash])
    /\ \A i \in DOMAIN pruned : pruned[i].to <= head.anchorSeq
    /\ clock \in Nat

\* The anchor is behind the head once anything was written.
AnchorBehind == head.lastSeq = 0 \/ head.anchorSeq < head.lastSeq

AuditInv == AuditTypeOK /\ ChainWhole /\ AnchorBehind

LEMMA AuditInitInv == AuditInit => AuditInv
<1> SUFFICES ASSUME AuditInit
             PROVE  AuditInv
  OBVIOUS
<1>1. /\ head = Origin /\ events = {} /\ checkpoints = {} /\ pruned = <<>> /\ clock = 0
  BY DEF AuditInit
<1>2. <<>> \in Hash /\ Len(<<>>) = 0 /\ SubSeq(<<>>, 1, 0) = <<>>
  BY SubSeqEmpty DEF Hash
<1>3. AuditTypeOK
  BY <1>1, <1>2 DEF AuditTypeOK, Origin, Genesis, HeadRow
<1>4. Covered
  BY <1>1, <1>2 DEF Covered, Origin, Genesis
<1>5. ChainWhole
  BY <1>1, <1>2, <1>4 DEF ChainWhole, Origin, Genesis
<1>6. QED
  BY <1>1, <1>3, <1>5 DEF AuditInv, AnchorBehind, Origin

LEMMA RowOfTime ==
    ASSUME NEW k \in Nat, NEW c, NEW s, NEW t, t[k + 1] = c, SubSeq(t, 1, k) = s,
           SubSeq(t, 1, k + 1) = t
    PROVE  RowIn(t, k + 1) = [seq |-> k + 1, at |-> c, prev |-> s, hash |-> t]
<1>1. k + 1 - 1 = k
  OBVIOUS
<1>2. QED
  BY <1>1 DEF RowIn

\* What an append does to the head: the chain is the old one and a row more.
LEMMA AppendedHead ==
    ASSUME AuditInv, NEW h \in HeadRow, h.lastSeq = head.lastSeq, h.lastHash = head.lastHash
    PROVE  /\ Extended(h) \in HeadRow
           /\ Extended(h).lastSeq = head.lastSeq + 1
           /\ Extended(h).anchorSeq = h.anchorSeq /\ Extended(h).anchorHash = h.anchorHash
           /\ Len(Extended(h).lastHash) = head.lastSeq + 1
           /\ \A n \in 0..head.lastSeq :
                 SubSeq(Extended(h).lastHash, 1, n) = SubSeq(head.lastHash, 1, n)
           /\ \A n \in 1..head.lastSeq : Extended(h).lastHash[n] = head.lastHash[n]
           /\ NextRow(h) = RowIn(Extended(h).lastHash, head.lastSeq + 1)
<1> DEFINE s == head.lastHash
<1> DEFINE k == head.lastSeq
<1> DEFINE t == Append(s, clock)
<1>1. /\ s \in Hash /\ Len(s) = k /\ k \in Nat /\ clock \in Nat
      /\ h.lastHash = s /\ h.lastSeq = k
  BY DEF AuditInv, AuditTypeOK, ChainWhole, HeadRow
<1>2. NextRow(h) = [seq |-> k + 1, at |-> clock, prev |-> s, hash |-> t]
  BY <1>1 DEF NextRow, Digest
<1>3. Extended(h) = [h EXCEPT !.lastSeq = k + 1, !.lastHash = t]
  BY <1>1, <1>2 DEF Extended
<1>a. t \in Hash /\ Len(t) = k + 1 /\ t[k + 1] = clock
  <2> HIDE DEF s, k
  <2>1. QED
    BY <1>1, FrontOfAppend
<1>b. /\ \A n \in 0..k : SubSeq(t, 1, n) = SubSeq(s, 1, n)
      /\ \A n \in 1..k : t[n] = s[n]
  <2> HIDE DEF s, k
  <2>1. QED
    BY <1>1, FrontOfAppend
<1> HIDE DEF t
<1>5. SubSeq(t, 1, k) = s
  <2> HIDE DEF s, k
  <2>1. SubSeq(t, 1, k) = SubSeq(s, 1, k)
    BY <1>1, <1>b
  <2>2. SubSeq(s, 1, k) = s
    BY <1>1, WholeFront
  <2>3. QED
    BY <2>1, <2>2
<1>6. SubSeq(t, 1, k + 1) = t
  <2> HIDE DEF s, k
  <2>1. QED
    BY <1>1, <1>a, WholeFront
<1>7. NextRow(h) = RowIn(t, k + 1)
  <2> HIDE DEF s, k
  <2>1. RowIn(t, k + 1) = [seq |-> k + 1, at |-> clock, prev |-> s, hash |-> t]
    BY <1>1, <1>a, <1>5, <1>6, RowOfTime
  <2>2. QED
    BY <1>2, <2>1
<1>8. /\ Extended(h) \in HeadRow /\ Extended(h).lastSeq = k + 1
      /\ Extended(h).lastHash = t
      /\ Extended(h).anchorSeq = h.anchorSeq /\ Extended(h).anchorHash = h.anchorHash
  <2> HIDE DEF s, k
  <2>1. k + 1 \in Nat
    BY <1>1
  <2>2. QED
    BY <1>3, <1>a, <2>1 DEF HeadRow
<1>9. QED
  BY <1>a, <1>b, <1>7, <1>8

\* Rows of the old chain are rows of the new one.
LEMMA SameRow ==
    ASSUME NEW s, NEW t, NEW k \in Nat, NEW n \in 1..k,
           \A m \in 0..k : SubSeq(t, 1, m) = SubSeq(s, 1, m),
           \A m \in 1..k : t[m] = s[m]
    PROVE  RowIn(t, n) = RowIn(s, n)
<1>1. n - 1 \in 0..k /\ n \in 0..k
  OBVIOUS
<1>2. SubSeq(t, 1, n - 1) = SubSeq(s, 1, n - 1) /\ SubSeq(t, 1, n) = SubSeq(s, 1, n)
  BY <1>1
<1>3. QED
  BY <1>2 DEF RowIn

LEMMA RowsAreIn ==
    ChainWhole => events = {RowIn(head.lastHash, n) : n \in head.anchorSeq + 1..head.lastSeq}
BY DEF ChainWhole, RowAt, RowIn

LEMMA AddEventKeeps ==
    ASSUME AuditInv, AddEvent
    PROVE  AuditInv'
<1>1. /\ head \in HeadRow /\ head.lastSeq \in Nat /\ head.anchorSeq \in Nat
      /\ head.anchorSeq <= head.lastSeq
      /\ \A c \in checkpoints : c.seq \in 0..head.lastSeq
      /\ head.lastHash \in Hash /\ head.lastSeq = Len(head.lastHash)
  BY DEF AuditInv, AuditTypeOK, ChainWhole, HeadRow
<1>2. /\ head' = Extended(head) /\ events' = events \cup {NextRow(head)}
      /\ UNCHANGED <<checkpoints, pruned, clock>>
  BY DEF AddEvent
<1>3. /\ head' \in HeadRow /\ head'.lastSeq = head.lastSeq + 1
      /\ head'.anchorSeq = head.anchorSeq /\ head'.anchorHash = head.anchorHash
      /\ Len(head'.lastHash) = head.lastSeq + 1
      /\ \A n \in 0..head.lastSeq : SubSeq(head'.lastHash, 1, n) = SubSeq(head.lastHash, 1, n)
      /\ \A n \in 1..head.lastSeq : head'.lastHash[n] = head.lastHash[n]
      /\ NextRow(head) = RowIn(head'.lastHash, head.lastSeq + 1)
  BY <1>1, <1>2, AppendedHead
<1>4. AuditTypeOK' /\ AnchorBehind'
  BY <1>1, <1>2, <1>3 DEF AuditInv, AuditTypeOK, AnchorBehind
<1>5. events' = {RowIn(head'.lastHash, n) : n \in head.anchorSeq + 1..head.lastSeq + 1}
  <2>1. ASSUME NEW n \in head.anchorSeq + 1..head.lastSeq
        PROVE  RowIn(head'.lastHash, n) = RowIn(head.lastHash, n)
    <3>1. n \in 1..head.lastSeq
      BY <1>1
    <3>2. QED
      BY <1>1, <1>3, <3>1, SameRow
  <2>2. events = {RowIn(head.lastHash, n) : n \in head.anchorSeq + 1..head.lastSeq}
    BY RowsAreIn DEF AuditInv
  <2>3. head.anchorSeq + 1..head.lastSeq + 1 = (head.anchorSeq + 1..head.lastSeq) \cup {head.lastSeq + 1}
    BY <1>1
  <2>4. QED
    BY <1>2, <1>3, <2>1, <2>2, <2>3
<1>6. Covered'
  <2>1. Covered /\ \A i \in DOMAIN pruned : pruned[i].to \in 0..head.lastSeq
    <3>a. pruned \in Seq([from : Nat, to : Nat, hash : Hash])
      BY DEF AuditInv, AuditTypeOK
    <3>1. ASSUME NEW i \in DOMAIN pruned
          PROVE  pruned[i].to \in 0..head.lastSeq
      <4>1. pruned[i] \in [from : Nat, to : Nat, hash : Hash]
        <5>1. DOMAIN pruned = 1..Len(pruned)
          BY <3>a
        <5>2. QED
          BY <3>a, <5>1, ElementOfSeq
      <4>2. pruned[i].to <= head.anchorSeq
        BY DEF AuditInv, AuditTypeOK
      <4>3. QED
        BY <1>1, <4>1, <4>2
    <3>2. QED
      BY <3>1 DEF AuditInv, ChainWhole
  <2>2. QED
    BY <1>1, <1>2, <1>3, <2>1 DEF Covered
<1>7. \A c \in checkpoints' : c.hash = SubSeq(head'.lastHash, 1, c.seq)
  BY <1>1, <1>2, <1>3 DEF AuditInv, ChainWhole
<1>8. ChainWhole'
  BY <1>3, <1>5, <1>6, <1>7 DEF ChainWhole, RowAt, RowIn
<1>9. QED
  BY <1>4, <1>8 DEF AuditInv

LEMMA ChainRests ==
    ASSUME ChainWhole, UNCHANGED <<head, events, pruned>>
    PROVE  /\ (head.lastSeq = Len(head.lastHash))'
           /\ (events = {RowAt(n) : n \in head.anchorSeq + 1..head.lastSeq})'
           /\ Covered'
<1>1. head' = head /\ events' = events /\ pruned' = pruned
  OBVIOUS
<1>2. (head.lastSeq = Len(head.lastHash))'
  BY <1>1 DEF ChainWhole
<1>3. (events = {RowAt(n) : n \in head.anchorSeq + 1..head.lastSeq})'
  <2>1. events = {RowAt(n) : n \in head.anchorSeq + 1..head.lastSeq}
    BY DEF ChainWhole
  <2>2. \A n : RowAt(n)' = RowAt(n)
    BY <1>1 DEF RowAt
  <2>3. QED
    BY <1>1, <2>1, <2>2
<1>4. Covered'
  <2>1. Covered
    BY DEF ChainWhole
  <2>2. QED
    BY <1>1, <2>1, Zenon DEF Covered
<1>5. QED
  BY <1>2, <1>3, <1>4

LEMMA CreateCheckpointKeeps ==
    ASSUME AuditInv, CreateCheckpoint
    PROVE  AuditInv'
<1>1. /\ head \in HeadRow /\ head.lastSeq \in Nat /\ head.lastHash \in Hash
      /\ head.lastSeq = Len(head.lastHash)
  BY DEF AuditInv, AuditTypeOK, ChainWhole, HeadRow
<1>2. /\ checkpoints' = checkpoints \cup {[seq |-> head.lastSeq, hash |-> head.lastHash]}
      /\ UNCHANGED <<head, events, pruned, clock>>
  BY DEF CreateCheckpoint
<1>3. AuditTypeOK' /\ AnchorBehind'
  BY <1>1, <1>2 DEF AuditInv, AuditTypeOK, AnchorBehind
<1>4. head.lastHash = SubSeq(head.lastHash, 1, head.lastSeq)
  BY <1>1, WholeFront
<1>5. \A c \in checkpoints' : c.hash = SubSeq(head.lastHash, 1, c.seq)
  BY <1>2, <1>4 DEF AuditInv, ChainWhole
<1>6. ChainWhole'
  <2>1. ChainWhole /\ UNCHANGED <<head, events, pruned>> /\ head' = head
    BY <1>2 DEF AuditInv
  <2>2. QED
    BY <1>5, <2>1, ChainRests DEF ChainWhole
<1>7. QED
  BY <1>3, <1>6 DEF AuditInv

\* What is old enough to go is a prefix of the retained chain.
LEMMA PrefixIsChain ==
    ASSUME AuditInv, NEW cutoff, Prefix(cutoff) # {}
    PROVE  \E m \in head.anchorSeq + 1..head.lastSeq :
              Prefix(cutoff) = {RowIn(head.lastHash, n) : n \in head.anchorSeq + 1..m}
<1> DEFINE lh == head.lastHash
<1> DEFINE first == head.anchorSeq + 1
<1> DEFINE last == head.lastSeq
<1> DEFINE K == {n \in first..last : \A j \in first..last : j <= n => lh[j] < cutoff}
<1>1. first \in Nat /\ last \in Nat
  BY DEF AuditInv, AuditTypeOK, HeadRow
<1>2. events = {RowIn(lh, n) : n \in first..last}
  BY RowsAreIn DEF AuditInv
<1>3. Prefix(cutoff) = {RowIn(lh, n) : n \in K}
  <2> HIDE DEF lh, first, last
  <2>1. \A n \in first..last : RowIn(lh, n).seq = n /\ RowIn(lh, n).at = lh[n]
    BY DEF RowIn
  <2>2. ASSUME NEW n \in first..last
        PROVE  RowIn(lh, n) \in Prefix(cutoff) <=> n \in K
    BY <1>2, <2>1, <2>2 DEF Prefix
  <2>3. \A e \in Prefix(cutoff) : \E n \in first..last : e = RowIn(lh, n)
    BY <1>2 DEF Prefix
  <2>4. K \subseteq first..last
    OBVIOUS
  <2> HIDE DEF K
  <2>5. QED
    BY <2>2, <2>3, <2>4
<1>4. K # {} /\ K \in SUBSET Nat /\ \A n \in K : n <= last
  BY <1>1, <1>3
<1>5. PICK m \in K : \A n \in K : n <= m
  <2> HIDE DEF K, last
  <2>1. QED
    BY <1>1, <1>4, GreatestNumber
<1>6. K = first..m
  <2> HIDE DEF lh, first, last
  <2>1. QED
    BY <1>1, <1>5
<1>7. m \in first..last
  BY <1>5
<1>8. QED
  BY <1>3, <1>6, <1>7

LEMMA PrunePrefixKeeps ==
    ASSUME AuditInv, NEW cutoff, PrunePrefix(cutoff)
    PROVE  AuditInv'
<1> DEFINE lh == head.lastHash
<1> DEFINE first == head.anchorSeq + 1
<1> DEFINE last == head.lastSeq
<1>1. /\ head \in HeadRow /\ last \in Nat /\ head.anchorSeq \in Nat /\ first \in Nat
      /\ \A c \in checkpoints : c.seq \in 0..last
      /\ lh \in Hash /\ last = Len(lh) /\ clock \in Nat
  BY DEF AuditInv, AuditTypeOK, ChainWhole, HeadRow
<1>2. events = {RowIn(lh, n) : n \in first..last}
  BY RowsAreIn DEF AuditInv
<1>3. Prefix(cutoff) # {}
  BY DEF PrunePrefix
<1>4. PICK m \in first..last : Prefix(cutoff) = {RowIn(lh, n) : n \in first..m}
  BY <1>3, PrefixIsChain
<1> DEFINE old == RowIn(lh, m)
<1> DEFINE moved == [head EXCEPT !.anchorSeq = m, !.anchorHash = SubSeq(lh, 1, m)]
<1>5. m \in Nat /\ m \in 1..last /\ head.anchorSeq < m /\ first \in first..m /\ m \in first..m
  BY <1>1
<1>6. \A n : RowIn(lh, n).seq = n /\ RowIn(lh, n).hash = SubSeq(lh, 1, n)
  BY DEF RowIn
<1>7. (CHOOSE e \in Prefix(cutoff) : \A d \in Prefix(cutoff) : e.seq <= d.seq) = RowIn(lh, first)
  <2> HIDE DEF lh, first, last
  <2>1. RowIn(lh, first) \in Prefix(cutoff)
    BY <1>4, <1>5
  <2>2. \A d \in Prefix(cutoff) : RowIn(lh, first).seq <= d.seq
    BY <1>1, <1>4, <1>6
  <2>3. \A e \in Prefix(cutoff) :
          (\A d \in Prefix(cutoff) : e.seq <= d.seq) => e = RowIn(lh, first)
    <3>1. ASSUME NEW e \in Prefix(cutoff), \A d \in Prefix(cutoff) : e.seq <= d.seq
          PROVE  e = RowIn(lh, first)
      <4>1. PICK n \in first..m : e = RowIn(lh, n)
        BY <1>4
      <4>2. n <= first
        BY <2>1, <3>1, <4>1, <1>6
      <4>3. n = first
        BY <1>1, <1>5, <4>2
      <4>4. QED
        BY <4>1, <4>3
    <3>2. QED
      BY <3>1
  <2>4. QED
    BY <2>1, <2>2, <2>3
<1>8. (CHOOSE e \in Prefix(cutoff) : \A d \in Prefix(cutoff) : d.seq <= e.seq) = old
  <2> HIDE DEF lh, first, last
  <2>1. old \in Prefix(cutoff)
    BY <1>4, <1>5
  <2>2. \A d \in Prefix(cutoff) : d.seq <= old.seq
    BY <1>1, <1>4, <1>6
  <2>3. \A e \in Prefix(cutoff) :
          (\A d \in Prefix(cutoff) : d.seq <= e.seq) => e = old
    <3>1. ASSUME NEW e \in Prefix(cutoff), \A d \in Prefix(cutoff) : d.seq <= e.seq
          PROVE  e = old
      <4>1. PICK n \in first..m : e = RowIn(lh, n)
        BY <1>4
      <4>2. m <= n
        BY <2>1, <3>1, <4>1, <1>6
      <4>3. n = m
        BY <1>1, <1>5, <4>2
      <4>4. QED
        BY <4>1, <4>3
    <3>2. QED
      BY <3>1
  <2>4. QED
    BY <2>1, <2>2, <2>3
<1>9. /\ checkpoints' = checkpoints \cup {[seq |-> m, hash |-> SubSeq(lh, 1, m)]}
      /\ pruned' = Append(pruned, [from |-> first, to |-> m, hash |-> SubSeq(lh, 1, m)])
      /\ events' = {e \in events : e.seq \notin first..m} \cup {NextRow(moved)}
      /\ head' = Extended(moved) /\ UNCHANGED clock
  BY <1>6, <1>7, <1>8, Zenon DEF PrunePrefix
<1>10. SubSeq(lh, 1, m) \in Hash /\ Len(SubSeq(lh, 1, m)) = m
  <2>1. m \in 0..Len(lh)
    BY <1>1, <1>5
  <2> HIDE DEF lh, first, last
  <2>2. QED
    BY <1>1, <2>1, FrontOf
<1>11. /\ moved \in HeadRow /\ moved.lastSeq = last /\ moved.lastHash = lh
       /\ moved.anchorSeq = m /\ moved.anchorHash = SubSeq(lh, 1, m)
  BY <1>1, <1>5, <1>10 DEF HeadRow
<1>12. /\ head' \in HeadRow /\ head'.lastSeq = last + 1
       /\ head'.anchorSeq = m /\ head'.anchorHash = SubSeq(lh, 1, m)
       /\ Len(head'.lastHash) = last + 1
       /\ \A n \in 0..last : SubSeq(head'.lastHash, 1, n) = SubSeq(lh, 1, n)
       /\ \A n \in 1..last : head'.lastHash[n] = lh[n]
       /\ NextRow(moved) = RowIn(head'.lastHash, last + 1)
  <2> HIDE DEF moved
  <2>1. QED
    BY <1>9, <1>11, AppendedHead
<1>13. events' = {RowIn(head'.lastHash, n) : n \in m + 1..last + 1}
  <2> HIDE DEF lh, last, first, moved
  <2>1. ASSUME NEW n \in m + 1..last
        PROVE  RowIn(head'.lastHash, n) = RowIn(lh, n)
    <3>1. last \in Nat /\ n \in 1..last
      BY <1>1, <1>5
    <3>2. /\ \A k \in 0..last : SubSeq(head'.lastHash, 1, k) = SubSeq(lh, 1, k)
          /\ \A k \in 1..last : head'.lastHash[k] = lh[k]
      BY <1>12
    <3>3. QED
      BY <3>1, <3>2, SameRow
  <2>2. {e \in events : e.seq \notin first..m} = {RowIn(lh, n) : n \in m + 1..last}
    <3>1. ASSUME NEW n \in first..last
          PROVE  RowIn(lh, n).seq \notin first..m <=> n \in m + 1..last
      <4>1. n \notin first..m <=> n \in m + 1..last
        BY <1>1, <1>5
      <4>2. QED
        BY <1>6, <4>1
    <3>2. m + 1..last \subseteq first..last
      BY <1>1, <1>5
    <3>3. QED
      BY <1>2, <3>1, <3>2
  <2>3. m + 1..last + 1 = (m + 1..last) \cup {last + 1}
    BY <1>1, <1>5
  <2>4. \A n \in m + 1..last + 1 : n \in m + 1..last \/ n = last + 1
    BY <2>3
  <2>5. NextRow(moved) = RowIn(head'.lastHash, last + 1)
    BY <1>12
  <2>6. events' = {RowIn(lh, n) : n \in m + 1..last} \cup {RowIn(head'.lastHash, last + 1)}
    BY <1>9, <2>2, <2>5
  <2>7. {RowIn(lh, n) : n \in m + 1..last} = {RowIn(head'.lastHash, n) : n \in m + 1..last}
    BY <2>1
  <2>8. QED
    BY <2>3, <2>6, <2>7
<1>14. /\ pruned \in Seq([from : Nat, to : Nat, hash : Hash])
       /\ \A i \in DOMAIN pruned : pruned[i].to <= head.anchorSeq
  BY DEF AuditInv, AuditTypeOK
<1> DEFINE p == [from |-> first, to |-> m, hash |-> SubSeq(lh, 1, m)]
<1> DEFINE k == Len(pruned)
<1>15. /\ pruned' \in Seq([from : Nat, to : Nat, hash : Hash])
       /\ k \in Nat /\ DOMAIN pruned = 1..k /\ DOMAIN pruned' = 1..k + 1
       /\ Len(pruned') = k + 1 /\ pruned'[k + 1] = p
       /\ \A i \in 1..k : pruned'[i] = pruned[i]
  <2>1. p \in [from : Nat, to : Nat, hash : Hash] /\ pruned' = Append(pruned, p)
    BY <1>1, <1>5, <1>9, <1>10
  <2> HIDE DEF p
  <2>2. QED
    BY <1>14, <2>1, AppendProperties
<1>16. \A i \in 1..k : pruned[i].to \in 0..head.anchorSeq
  <2>1. ASSUME NEW i \in 1..k
        PROVE  pruned[i].to \in Nat /\ pruned[i].to <= head.anchorSeq
    <3>1. pruned[i] \in [from : Nat, to : Nat, hash : Hash]
      BY <1>14, <1>15, ElementOfSeq
    <3>2. pruned[i].to <= head.anchorSeq
      BY <1>14, <1>15
    <3>3. QED
      BY <3>1, <3>2
  <2>2. QED
    BY <1>1, <2>1
<1>17. AuditTypeOK' /\ AnchorBehind'
  <2>1. \A i \in DOMAIN pruned' : pruned'[i].to <= m
    <3>1. ASSUME NEW i \in 1..k
          PROVE  pruned'[i].to <= m
      <4>1. pruned[i].to \in 0..head.anchorSeq /\ pruned'[i] = pruned[i]
        BY <1>15, <1>16
      <4>2. QED
        BY <1>1, <1>5, <4>1
    <3>2. pruned'[k + 1].to <= m
      BY <1>5, <1>15
    <3>3. QED
      BY <1>15, <3>1, <3>2
  <2>2. \A c \in checkpoints' : c.seq \in 0..last + 1
    BY <1>1, <1>5, <1>9
  <2>3. m <= last + 1 /\ m < last + 1
    BY <1>1, <1>5
  <2> HIDE DEF lh, last, first, moved, k, p
  <2>4. QED
    BY <1>1, <1>9, <1>12, <1>15, <2>1, <2>2, <2>3 DEF AuditTypeOK, AnchorBehind
<1>18. Covered'
  <2>1. Covered
    BY DEF AuditInv, ChainWhole
  <2>2. head'.anchorHash = SubSeq(head'.lastHash, 1, head'.anchorSeq)
    BY <1>1, <1>5, <1>12
  <2>3. pruned' # <<>> /\ head'.anchorSeq = pruned'[Len(pruned')].to
    BY <1>12, <1>15
  <2>4. ASSUME NEW i \in 1..k + 1
        PROVE  /\ pruned'[i].from = (IF i = 1 THEN 1 ELSE pruned'[i - 1].to + 1)
               /\ pruned'[i].hash = SubSeq(head'.lastHash, 1, pruned'[i].to)
    <3>1. CASE i \in 1..k
      <4>1. i - 1 \in 1..k \/ i = 1
        BY <1>15, <3>1
      <4>2. pruned[i].to \in 0..last
        BY <1>1, <1>5, <1>16, <3>1
      <4>3. /\ pruned[i].from = (IF i = 1 THEN 1 ELSE pruned[i - 1].to + 1)
            /\ pruned[i].hash = SubSeq(lh, 1, pruned[i].to)
        BY <1>15, <2>1, <3>1 DEF Covered
      <4>4. QED
        BY <1>12, <1>15, <3>1, <4>1, <4>2, <4>3
    <3>2. CASE i = k + 1
      <4>1. first = (IF i = 1 THEN 1 ELSE pruned'[i - 1].to + 1)
        <5>1. CASE k = 0
          BY <1>14, <1>15, <2>1, <3>2, <5>1 DEF Covered
        <5>2. CASE k # 0
          <6>1. pruned # <<>> /\ i - 1 = k /\ k \in 1..k /\ i # 1
            BY <1>15, <3>2, <5>2
          <6>2. head.anchorSeq = pruned[k].to
            BY <2>1, <6>1 DEF Covered
          <6>3. pruned'[i - 1] = pruned[k]
            BY <1>15, <6>1
          <6>4. QED
            BY <6>1, <6>2, <6>3
        <5>3. QED
          BY <5>1, <5>2
      <4>2. SubSeq(lh, 1, m) = SubSeq(head'.lastHash, 1, m)
        BY <1>1, <1>5, <1>12
      <4>3. QED
        BY <1>15, <3>2, <4>1, <4>2
    <3>3. QED
      BY <1>15, <3>1, <3>2
  <2>5. QED
    BY <1>15, <2>2, <2>3, <2>4 DEF Covered
<1>19. \A c \in checkpoints' : c.hash = SubSeq(head'.lastHash, 1, c.seq)
  BY <1>1, <1>5, <1>9, <1>12, SMTT(30) DEF AuditInv, ChainWhole
<1>20. ChainWhole'
  BY <1>12, <1>13, <1>18, <1>19 DEF ChainWhole, RowAt, RowIn
<1>21. QED
  BY <1>17, <1>20 DEF AuditInv

LEMMA AuditStep ==
    ASSUME AuditInv, [AuditNext]_auditVars
    PROVE  AuditInv'
<1>0. ASSUME UNCHANGED <<head, events, checkpoints, pruned, clock>>
      PROVE  AuditInv'
  <2>1. ChainWhole /\ UNCHANGED <<head, events, pruned>>
    BY <1>0 DEF AuditInv
  <2>2. AuditTypeOK' /\ AnchorBehind'
    BY <1>0 DEF AuditInv, AuditTypeOK, AnchorBehind
  <2>3. \A c \in checkpoints' : c.hash = SubSeq(head'.lastHash, 1, c.seq)
    BY <1>0, <2>1 DEF ChainWhole
  <2>4. QED
    BY <2>1, <2>2, <2>3, ChainRests DEF AuditInv, ChainWhole
<1>1. CASE Act
  BY <1>1, AddEventKeeps DEF Act
<1>2. CASE Checkpoint
  BY <1>2, CreateCheckpointKeeps DEF Checkpoint
<1>3. CASE Reopen
  BY <1>0, <1>3, AddEventKeeps DEF Reopen
<1>4. CASE PruneStage
  BY <1>0, <1>4, PrunePrefixKeeps DEF PruneStage
<1>5. CASE Archive
  BY <1>0, <1>5, AddEventKeeps DEF Archive
<1>6. CASE MaintenanceEnds
  BY <1>6, AddEventKeeps DEF MaintenanceEnds
<1>7. CASE MaintenanceFails
  BY <1>0, <1>7, AddEventKeeps DEF MaintenanceFails
<1>8. CASE SetClock
  <2>1. clock' \in Nat /\ UNCHANGED <<head, events, checkpoints, pruned>>
    BY <1>8, AuditAssumption DEF SetClock
  <2>2. ChainWhole /\ UNCHANGED <<head, events, pruned>>
    BY <2>1 DEF AuditInv
  <2>3. AuditTypeOK' /\ AnchorBehind'
    BY <2>1 DEF AuditInv, AuditTypeOK, AnchorBehind
  <2>4. \A c \in checkpoints' : c.hash = SubSeq(head'.lastHash, 1, c.seq)
    BY <2>1, <2>2 DEF ChainWhole
  <2>5. QED
    BY <2>2, <2>3, <2>4, ChainRests DEF AuditInv, ChainWhole
<1>9. CASE UNCHANGED auditVars
  BY <1>0, <1>9 DEF auditVars
<1>10. QED
  BY <1>1, <1>2, <1>3, <1>4, <1>5, <1>6, <1>7, <1>8, <1>9 DEF AuditNext

\* Nothing is lost from the audit log silently, for any number of events, prunings
\* and checkpoints and any clock.
THEOREM AuditWhole == AuditSpec => []ChainWhole
<1>1. AuditInv => ChainWhole
  BY DEF AuditInv
<1>2. QED
  BY AuditInitInv, AuditStep, <1>1, PTL DEF AuditSpec

-----------------------------------------------------------------------------
(* Readers of the chain.  Whoever writes an event moves the head, so a      *)
(* reader's rows are those of the head it read or show an event beyond it.  *)

\* A head of this chain, as it is or as it was.
ChainHead(h) ==
    /\ h \in HeadRow /\ h.anchorSeq <= h.lastSeq /\ h.lastSeq = Len(h.lastHash)
    /\ h.anchorHash = SubSeq(h.lastHash, 1, h.anchorSeq)

PartOf(h, g) ==
    /\ ChainHead(h) /\ h.lastSeq <= g.lastSeq
    /\ \A n \in 0..h.lastSeq : SubSeq(h.lastHash, 1, n) = SubSeq(g.lastHash, 1, n)

RowsOf(h) == {RowIn(h.lastHash, n) : n \in h.anchorSeq + 1..h.lastSeq}

Beyond(rows, n) == \E e \in rows : e.seq > n

\* A sequence grows by its last element.
LEMMA FrontGrows ==
    ASSUME NEW s \in Hash, NEW n \in 1..Len(s)
    PROVE  SubSeq(s, 1, n) = Append(SubSeq(s, 1, n - 1), s[n])
<1>1. n \in 0..Len(s) /\ n - 1 \in 0..Len(s) /\ s[n] \in Nat /\ 1..n = (1..n - 1) \cup {n}
  BY ElementOfSeq DEF Hash
<1>. PICK t, u : t = SubSeq(s, 1, n - 1) /\ u = SubSeq(s, 1, n)
  OBVIOUS
<1>2. t \in Hash /\ Len(t) = n - 1 /\ \A i \in 1..n - 1 : t[i] = s[i]
  BY <1>1, FrontOf
<1>3. u \in Hash /\ Len(u) = n /\ \A i \in 1..n : u[i] = s[i]
  BY <1>1, FrontOf
<1>. PICK x, k, v : x = s[n] /\ k = n - 1 /\ v = Append(t, x)
  OBVIOUS
<1>4. t \in Hash /\ Len(t) = k /\ x \in Nat /\ k + 1 = n
  BY <1>1, <1>2
<1>5. v \in Hash /\ Len(v) = k + 1 /\ v[k + 1] = x /\ \A i \in 1..k : v[i] = t[i]
  <2>0. Append(t, x)[k + 1] = x
    BY ONLY <1>4 DEF Hash
  <2>1. Append(t, x)[k + 1] = x /\ \A i \in 1..k : Append(t, x)[i] = t[i]
    BY ONLY <1>4, <2>0 DEF Hash
  <2>2. Append(t, x) \in Hash /\ Len(Append(t, x)) = k + 1
    BY <1>4, FrontOfAppend
  <2>3. QED
    BY <2>1, <2>2
<1>6. \A i \in 1..n : u[i] = v[i]
  BY <1>1, <1>2, <1>3, <1>4, <1>5
<1>7. u = v
  BY <1>3, <1>4, <1>5, <1>6, SeqEqual DEF Hash
<1>8. QED
  BY <1>7

\* The rows of a head are a chain that ends with it.
LEMMA RowsAreLinked ==
    ASSUME NEW h, ChainHead(h)
    PROVE  Linked(RowsOf(h), h)
<1>. PICK s, a, b, l, rows :
        s = h.lastHash /\ a = h.anchorSeq /\ b = a + 1 /\ l = h.lastSeq /\ rows = RowsOf(h)
  OBVIOUS
<1>. PICK D, f : D = b..l /\ f = [n \in D |-> RowIn(s, n)]
  OBVIOUS
<1>1. /\ s \in Hash /\ a \in Nat /\ b \in Nat /\ l \in Nat /\ a <= l /\ l = Len(s)
      /\ h.anchorHash = SubSeq(s, 1, a)
  BY DEF ChainHead, HeadRow
<1>2. rows = {f[n] : n \in D}
  BY DEF RowsOf
<1>3. ASSUME NEW n \in D
      PROVE  /\ f[n].seq = n /\ f[n].at = s[n]
             /\ f[n].prev = SubSeq(s, 1, n - 1) /\ f[n].hash = SubSeq(s, 1, n)
  BY DEF RowIn
<1>4. a + Cardinality(rows) = l
  <2>1. f \in Bijection(D, rows)
    <3>1. f \in [D -> rows]
      BY <1>2
    <3>2. IsInjective(f)
      <4>1. ASSUME NEW m \in D, NEW n \in D, f[m] = f[n] PROVE m = n
        <5>1. f[m].seq = m /\ f[n].seq = n
          BY <1>3
        <5>2. QED
          BY <4>1, <5>1
      <4>2. QED
        BY <3>1, <4>1 DEF IsInjective
    <3>3. \A e \in rows : \E n \in D : f[n] = e
      BY <1>2
    <3>4. QED
      BY <3>1, <3>2, <3>3 DEF Bijection, Injection, Surjection
  <2>2. b \in Int /\ l \in Int
    BY <1>1
  <2>3. IsFiniteSet(D) /\ Cardinality(D) = IF b > l THEN 0 ELSE l - b + 1
    BY <2>2, FS_Interval
  <2>4. ExistsBijection(D, rows)
    BY <2>1 DEF ExistsBijection
  <2>5. Cardinality(rows) = Cardinality(D)
    BY <2>3, <2>4, FS_Bijection
  <2>6. QED
    BY <1>1, <2>3, <2>5, SMTT(30)
<1>5. {e.seq : e \in rows} = D
  <2>1. \A n \in D : f[n] \in rows /\ f[n].seq = n
    BY <1>2, <1>3
  <2>2. \A e \in rows : e.seq \in D
    BY <1>2, <1>3
  <2>3. QED
    BY <2>1, <2>2
<1>6. ASSUME NEW n \in D PROVE EventOf(rows, n) = f[n]
  <2>1. f[n] \in rows /\ f[n].seq = n
    BY <1>2, <1>3
  <2>2. \A e \in rows : e.seq = n => e = f[n]
    BY <1>2, <1>3
  <2>3. QED
    BY <2>1, <2>2 DEF EventOf
<1>7. ASSUME NEW n \in D
      PROVE  /\ n # b => n - 1 \in D
             /\ f[n].prev = (IF n = b THEN h.anchorHash ELSE f[n - 1].hash)
             /\ f[n].hash = Digest(f[n].prev, f[n].at)
  <2>1. n \in 1..Len(s) /\ (n = b => n - 1 = a) /\ (n # b => n - 1 \in D)
    BY <1>1
  <2>2. SubSeq(s, 1, n) = Append(SubSeq(s, 1, n - 1), s[n])
    BY <1>1, <2>1, FrontGrows
  <2>3. n # b => f[n - 1].hash = SubSeq(s, 1, n - 1)
    BY <1>3, <2>1
  <2>4. f[n].prev = (IF n = b THEN h.anchorHash ELSE f[n - 1].hash)
    <3>1. f[n].prev = SubSeq(s, 1, n - 1)
      BY <1>3
    <3>2. CASE n = b
      BY <1>1, <2>1, <3>1, <3>2
    <3>3. CASE n # b
      BY <2>3, <3>1, <3>3
    <3>4. QED
      BY <3>2, <3>3
  <2>5. f[n].hash = Digest(f[n].prev, f[n].at)
    BY <1>3, <2>2 DEF Digest
  <2>6. QED
    BY <2>1, <2>4, <2>5
<1>8. rows = {} => a = l
  <2>1. b \in D \/ a = l
    BY <1>1
  <2>2. QED
    BY <1>2, <2>1, ZenonT(40)
<1>9. rows # {} => l \in D /\ f[l].hash = s
  <2>1. SubSeq(s, 1, l) = s
    BY <1>1, WholeFront
  <2>2. rows # {} => l \in D
    <3>1. SUFFICES ASSUME NEW n \in D PROVE l \in D
      BY <1>2
    <3>2. QED
      BY <1>1
  <2>3. QED
    BY <1>3, <2>1, <2>2
<1>10. SubSeq(s, 1, a) = s \/ a # l
  BY <1>1, WholeFront
<1>11. h.lastHash = (IF rows = {} THEN h.anchorHash ELSE EventOf(rows, l).hash)
  BY <1>1, <1>6, <1>8, <1>9, <1>10
<1>12. ASSUME NEW n \in D
       PROVE  /\ EventOf(rows, n).prev = (IF n = b THEN h.anchorHash ELSE EventOf(rows, n - 1).hash)
              /\ EventOf(rows, n).hash = Digest(EventOf(rows, n).prev, EventOf(rows, n).at)
  <2>1. EventOf(rows, n) = f[n] /\ (n # b => EventOf(rows, n - 1) = f[n - 1])
    BY <1>6, <1>7
  <2>2. /\ f[n].prev = (IF n = b THEN h.anchorHash ELSE f[n - 1].hash)
        /\ f[n].hash = Digest(f[n].prev, f[n].at)
    BY <1>7
  <2>3. CASE n = b
    BY <2>1, <2>2, <2>3
  <2>4. CASE n # b
    BY <2>1, <2>2, <2>4
  <2>5. QED
    BY <2>3, <2>4
<1>13. QED
  BY <1>4, <1>5, <1>11, <1>12, Zenon DEF Linked

LEMMA BeyondIsNotLinked ==
    ASSUME NEW h, NEW rows, ChainHead(h), Beyond(rows, h.lastSeq)
    PROVE  ~Linked(rows, h)
<1> SUFFICES ASSUME Linked(rows, h) PROVE FALSE
  OBVIOUS
<1>1. PICK e \in rows : e.seq > h.lastSeq
  BY DEF Beyond
<1>2. h.lastSeq \in Nat /\ h.anchorSeq \in Nat
  BY DEF ChainHead, HeadRow
<1>3. e.seq \in h.anchorSeq + 1..h.lastSeq
  BY DEF Linked
<1>4. QED
  BY <1>1, <1>2, <1>3

\* The checkpoints of the chain agree with what was read of it before.
LEMMA PointsOfTheChain ==
    ASSUME ChainWhole, AuditTypeOK, NEW h, PartOf(h, head)
    PROVE  PointsAgree(checkpoints, RowsOf(h), h)
<1>1. /\ \A c \in checkpoints : c.hash = SubSeq(head.lastHash, 1, c.seq)
      /\ h.anchorSeq \in 0..h.lastSeq /\ h.anchorSeq \in Nat /\ h.lastSeq \in Nat
      /\ h.anchorHash = SubSeq(head.lastHash, 1, h.anchorSeq)
  BY DEF ChainWhole, PartOf, ChainHead, HeadRow
<1>2. ASSUME NEW e \in RowsOf(h) PROVE e.hash = SubSeq(head.lastHash, 1, e.seq)
  <2>1. PICK n \in h.anchorSeq + 1..h.lastSeq : e = RowIn(h.lastHash, n)
    BY DEF RowsOf
  <2>2. n \in 0..h.lastSeq /\ e.seq = n /\ e.hash = SubSeq(h.lastHash, 1, n)
    BY <1>1, <2>1 DEF RowIn
  <2>3. QED
    BY <2>2 DEF PartOf
<1>3. QED
  BY <1>1, <1>2 DEF PointsAgree

\* What a write does to those who are reading.
Grown ==
    /\ head'.lastSeq \in Nat /\ head'.lastSeq >= head.lastSeq
    /\ \A n \in 0..head.lastSeq : SubSeq(head'.lastHash, 1, n) = SubSeq(head.lastHash, 1, n)
    /\ head'.lastSeq = head.lastSeq => UNCHANGED <<head, events>>
    /\ checkpoints \subseteq checkpoints'

LEMMA ChainGrows ==
    ASSUME AuditInv, AuditNext
    PROVE  Grown
<1>1. /\ head \in HeadRow /\ head.lastSeq \in Nat /\ head.lastHash \in Hash /\ clock \in Nat
      /\ head.lastSeq = Len(head.lastHash)
  BY DEF AuditInv, AuditTypeOK, ChainWhole, HeadRow
<1>2. ASSUME head'.lastSeq = head.lastSeq + 1, head'.lastHash = Append(head.lastHash, clock),
             checkpoints \subseteq checkpoints'
      PROVE  Grown
  <2>1. head'.lastSeq \in Nat /\ head'.lastSeq > head.lastSeq
    BY <1>1, <1>2
  <2>2. \A n \in 0..head.lastSeq : SubSeq(head'.lastHash, 1, n) = SubSeq(head.lastHash, 1, n)
    BY <1>1, <1>2, FrontOfAppend
  <2>3. QED
    BY <1>1, <1>2, <2>1, <2>2 DEF Grown
<1>3. CASE AddEvent
  BY <1>1, <1>2, <1>3 DEF AddEvent, Extended, NextRow, Digest, HeadRow
<1>4. ASSUME NEW cutoff, PrunePrefix(cutoff) PROVE Grown
  <2>1. PICK a, b : head' = Extended([head EXCEPT !.anchorSeq = a, !.anchorHash = b])
    BY <1>4 DEF PrunePrefix
  <2>. PICK m : m = [head EXCEPT !.anchorSeq = a, !.anchorHash = b]
    OBVIOUS
  <2>2. m.lastSeq = head.lastSeq /\ m.lastHash = head.lastHash
        /\ m = [anchorSeq |-> a, anchorHash |-> b, lastSeq |-> head.lastSeq, lastHash |-> head.lastHash]
    BY <1>1 DEF HeadRow
  <2>3. head'.lastSeq = head.lastSeq + 1 /\ head'.lastHash = Append(head.lastHash, clock)
    BY <2>1, <2>2 DEF Extended, NextRow, Digest
  <2>4. checkpoints \subseteq checkpoints'
    BY <1>4 DEF PrunePrefix
  <2>5. QED
    BY <1>2, <2>3, <2>4, SMTT(30)
<1>5. CASE UNCHANGED <<head, events>> /\ checkpoints \subseteq checkpoints'
  BY <1>1, <1>5 DEF Grown
<1>6. QED
  BY <1>3, <1>4, <1>5
     DEF AuditNext, Act, Checkpoint, Reopen, PruneStage, Archive, MaintenanceEnds, MaintenanceFails,
         SetClock, CreateCheckpoint

\* The checkpoint of a proof is one of the chain.
Pointed(n) == \E c \in checkpoints : c.seq = n

\* What was read is the chain of the head that was read, or shows a later event.
OwnRows(r) == IF r.disturbed THEN Beyond(r.rows, r.head.lastSeq) ELSE r.rows = RowsOf(r.head)

ReaderInv ==
    LET r == reader
    IN  /\ r = [at |-> r.at, forProof |-> r.forProof, head |-> r.head, rows |-> r.rows,
                point |-> r.point, points |-> r.points, disturbed |-> r.disturbed]
        /\ r.disturbed \in BOOLEAN /\ r.point \in Nat
        /\ r.at \in {"head", "rows", "verdict", "proof head", "proof rows", "issued"} =>
              PartOf(r.head, head)
        /\ r.at = "head" => IF r.disturbed THEN r.head.lastSeq < head.lastSeq ELSE r.head = head
        /\ r.at \in {"rows", "verdict"} => OwnRows(r)
        /\ r.at = "verdict" /\ ~r.disturbed => PointsAgree(r.points, r.rows, r.head)
        /\ r.at \in {"checkpoint", "proof head", "proof rows"} => Pointed(r.point)
        /\ r.at = "checkpoint" =>
              IF r.disturbed THEN r.point < head.lastSeq ELSE r.point = head.lastSeq
        /\ r.at \in {"proof head", "proof rows", "issued"} => r.point <= r.head.lastSeq
        /\ r.at = "proof head" =>
              IF r.disturbed THEN r.point < r.head.lastSeq \/ r.head.lastSeq < head.lastSeq
              ELSE r.point = r.head.lastSeq /\ r.head = head
        /\ r.at \in {"proof rows", "issued"} /\ r.disturbed =>
              r.point < r.head.lastSeq \/ Beyond(r.rows, r.head.lastSeq)
        /\ r.at \in {"proof rows", "issued"} /\ ~r.disturbed =>
              r.point = r.head.lastSeq /\ r.rows = RowsOf(r.head)
        /\ r.at = "issued" /\ ~r.disturbed =>
              \E c \in r.points : c.seq = r.point /\ c.hash = r.head.lastHash

ProofInv == AuditInv /\ ReaderInv

\* The head as it is now.
LEMMA HeadNow ==
    ASSUME AuditInv
    PROVE  /\ ChainHead(head) /\ PartOf(head, head) /\ events = RowsOf(head)
           /\ head.lastSeq \in Nat
<1>1. ChainHead(head) /\ head.lastSeq \in Nat
  BY DEF AuditInv, AuditTypeOK, ChainWhole, Covered, ChainHead, HeadRow
<1>2. PartOf(head, head)
  BY <1>1 DEF PartOf
<1>3. QED
  BY <1>1, <1>2, RowsAreIn DEF AuditInv, RowsOf

\* Rows read after the head moved on show an event beyond what was read.
LEMMA LaterRows ==
    ASSUME AuditInv, NEW n \in Nat, n < head.lastSeq
    PROVE  Beyond(events, n)
<1>1. head.lastSeq \in head.anchorSeq + 1..head.lastSeq
  BY DEF AuditInv, AuditTypeOK, AnchorBehind, HeadRow
<1>2. RowIn(head.lastHash, head.lastSeq) \in events
  BY <1>1, RowsAreIn DEF AuditInv
<1>3. RowIn(head.lastHash, head.lastSeq).seq = head.lastSeq
  BY DEF RowIn
<1>4. QED
  BY <1>2, <1>3 DEF Beyond

LEMMA PartGrows ==
    ASSUME Grown, NEW h, PartOf(h, head), head.lastSeq \in Nat
    PROVE  PartOf(h, head')
<1>1. h.lastSeq \in Nat
  BY DEF PartOf, ChainHead, HeadRow
<1>2. h.lastSeq <= head'.lastSeq
  BY <1>1 DEF PartOf, Grown
<1>3. ASSUME NEW n \in 0..h.lastSeq
      PROVE  SubSeq(h.lastHash, 1, n) = SubSeq(head'.lastHash, 1, n)
  <2>1. n \in 0..head.lastSeq
    BY <1>1 DEF PartOf
  <2>2. QED
    BY <2>1 DEF PartOf, Grown
<1>4. QED
  BY <1>2, <1>3 DEF PartOf

LEMMA WriteKeeps ==
    ASSUME ProofInv, Write
    PROVE  ReaderInv'
<1>. PICK r, d : r = reader /\ d = (r.disturbed \/ (Watching /\ head'.lastSeq # head.lastSeq))
  OBVIOUS
<1>1. Grown /\ head.lastSeq \in Nat
  BY ChainGrows, HeadNow DEF ProofInv, Write
<1>2. reader' = [at |-> r.at, forProof |-> r.forProof, head |-> r.head, rows |-> r.rows,
                 point |-> r.point, points |-> r.points, disturbed |-> d] /\ d \in BOOLEAN
  BY DEF Write, ProofInv, ReaderInv
<1>3. PartOf(r.head, head) => PartOf(r.head, head') /\ r.head.lastSeq \in Nat
  BY <1>1, PartGrows DEF PartOf, ChainHead, HeadRow
<1>4. \A n : Pointed(n) => Pointed(n)'
  BY <1>1 DEF Pointed, Grown
<1>5. /\ r.at = "head" => IF d THEN r.head.lastSeq < head'.lastSeq ELSE r.head = head'
      /\ r.at = "checkpoint" => IF d THEN r.point < head'.lastSeq ELSE r.point = head'.lastSeq
      /\ r.at = "proof head" =>
            IF d THEN r.point < r.head.lastSeq \/ r.head.lastSeq < head'.lastSeq
            ELSE r.point = r.head.lastSeq /\ r.head = head'
  <2>1. /\ head'.lastSeq \in Nat /\ head'.lastSeq >= head.lastSeq
        /\ head'.lastSeq = head.lastSeq => head' = head
    BY <1>1 DEF Grown
  <2>2. PartOf(r.head, head) => r.head.lastSeq \in Nat /\ r.head.lastSeq <= head.lastSeq
    BY <1>3 DEF PartOf
  <2>3. r.point \in Nat /\ r.disturbed \in BOOLEAN
    BY DEF ProofInv, ReaderInv
  <2>4. CASE r.at = "head"
    <3>0. d <=> r.disturbed \/ head'.lastSeq # head.lastSeq
      BY <2>4 DEF Watching
    <3>1. PartOf(r.head, head) /\ IF r.disturbed THEN r.head.lastSeq < head.lastSeq ELSE r.head = head
      BY <2>4 DEF ProofInv, ReaderInv
    <3>2. QED
      BY <1>1, <2>1, <2>2, <2>3, <2>4, <3>0, <3>1
  <2>5. CASE r.at = "checkpoint"
    <3>0. d <=> r.disturbed \/ head'.lastSeq # head.lastSeq
      BY <2>5 DEF Watching
    <3>1. IF r.disturbed THEN r.point < head.lastSeq ELSE r.point = head.lastSeq
      BY <2>5 DEF ProofInv, ReaderInv
    <3>2. QED
      BY <1>1, <2>1, <2>3, <2>5, <3>0, <3>1
  <2>6. CASE r.at = "proof head"
    <3>0. d <=> r.disturbed \/ head'.lastSeq # head.lastSeq
      BY <2>6 DEF Watching
    <3>1. /\ PartOf(r.head, head) /\ r.point <= r.head.lastSeq
          /\ IF r.disturbed THEN r.point < r.head.lastSeq \/ r.head.lastSeq < head.lastSeq
             ELSE r.point = r.head.lastSeq /\ r.head = head
      BY <2>6 DEF ProofInv, ReaderInv
    <3>2. CASE d
      <4>1. r.point < r.head.lastSeq \/ r.head.lastSeq < head'.lastSeq
        BY <1>1, <2>1, <2>2, <2>3, <3>0, <3>1, <3>2
      <4>2. QED
        BY <2>6, <3>2, <4>1
    <3>3. CASE ~d
      <4>1. r.point = r.head.lastSeq /\ r.head = head'
        BY <2>1, <3>0, <3>1, <3>3
      <4>2. QED
        BY <2>6, <3>3, <4>1
    <3>4. QED
      BY <3>2, <3>3
  <2>7. QED
    BY <2>4, <2>5, <2>6
<1>6. r.at \in {"rows", "verdict", "proof rows", "issued"} => d = r.disturbed
  BY DEF Watching, ProofInv, ReaderInv
<1>7. QED
  BY <1>2, <1>3, <1>4, <1>5, <1>6 DEF ProofInv, ReaderInv, OwnRows

LEMMA ReadKeeps ==
    ASSUME ProofInv,
           ReadHead \/ ReadEvents \/ ReadCheckpoints \/ ShowReport \/ ProofHead \/ ProofRows \/ Issue
             \/ Forget \/ UNCHANGED proofVars
    PROVE  ReaderInv'
<1>. PICK r : r = reader
  OBVIOUS
<1>0. /\ UNCHANGED <<head, events, checkpoints>> /\ AuditInv
      /\ r = [at |-> r.at, forProof |-> r.forProof, head |-> r.head, rows |-> r.rows,
              point |-> r.point, points |-> r.points, disturbed |-> r.disturbed]
      /\ r.disturbed \in BOOLEAN /\ r.point \in Nat
  BY DEF ReadHead, ReadEvents, ReadCheckpoints, ShowReport, ProofHead, ProofRows, Issue, Forget, Quiet,
         proofVars, auditVars, ProofInv, ReaderInv
<1>1. /\ PartOf(head, head) /\ events = RowsOf(head) /\ head.lastSeq \in Nat
      /\ PartOf(r.head, head) => r.head.lastSeq \in Nat
  BY <1>0, HeadNow DEF PartOf, ChainHead, HeadRow
<1>2. CASE ReadHead
  <2>1. PICK p \in BOOLEAN :
           reader' = [at |-> "head", forProof |-> p, head |-> head, rows |-> {}, point |-> 0,
                      points |-> {}, disturbed |-> FALSE]
    BY <1>2 DEF ReadHead, Asleep
  <2>2. QED
    BY <1>0, <1>1, <2>1 DEF ReaderInv
<1>3. CASE ReadEvents
  <2>1. reader' = [r EXCEPT !.at = "rows", !.rows = events] /\ r.at = "head"
    BY <1>3 DEF ReadEvents
  <2>2. OwnRows(reader')
    BY <1>0, <1>1, <2>1, LaterRows DEF OwnRows, ProofInv, ReaderInv
  <2>3. QED
    BY <1>0, <2>1, <2>2 DEF ProofInv, ReaderInv
<1>4. CASE ReadCheckpoints
  <2>1. reader' = [r EXCEPT !.at = "verdict", !.points = checkpoints] /\ r.at = "rows"
    BY <1>4 DEF ReadCheckpoints
  <2>2. ~r.disturbed => PointsAgree(checkpoints, r.rows, r.head)
    BY <2>1, PointsOfTheChain DEF ProofInv, ReaderInv, OwnRows, AuditInv
  <2>3. QED
    BY <1>0, <2>1, <2>2 DEF ProofInv, ReaderInv, OwnRows
<1>5. CASE ShowReport \/ Forget
  <2>1. reader' = [at |-> "asleep", forProof |-> FALSE, head |-> Origin, rows |-> {}, point |-> 0,
                   points |-> {}, disturbed |-> FALSE]
    BY <1>5 DEF ShowReport, Forget, Asleep
  <2>2. QED
    BY <1>0, <2>1 DEF ReaderInv
<1>6. CASE ProofHead
  <2>1. reader' = [r EXCEPT !.at = "proof head", !.head = head] /\ r.at = "checkpoint"
    BY <1>6 DEF ProofHead
  <2>2. reader' = [at |-> "proof head", forProof |-> r.forProof, head |-> head, rows |-> r.rows,
                   point |-> r.point, points |-> r.points, disturbed |-> r.disturbed]
    BY <1>0, <2>1
  <2>3. /\ Pointed(r.point)'
        /\ IF r.disturbed THEN r.point < head.lastSeq ELSE r.point = head.lastSeq
    BY <1>0, <2>1 DEF ProofInv, ReaderInv, Pointed
  <2>4. r.point <= head.lastSeq /\ (~r.disturbed => r.point = head.lastSeq)
        /\ (r.disturbed => r.point < head.lastSeq)
    BY <1>0, <1>1, <2>3
  <2>5. QED
    BY <1>0, <1>1, <2>2, <2>3, <2>4 DEF ReaderInv, Pointed
<1>7. CASE ProofRows
  <2>1. reader' = [r EXCEPT !.at = "proof rows", !.rows = events] /\ r.at = "proof head"
    BY <1>7 DEF ProofRows
  <2>2. r.head.lastSeq < head.lastSeq => Beyond(events, r.head.lastSeq)
    BY <1>0, <1>1, <2>1, LaterRows DEF ProofInv, ReaderInv
  <2>3. QED
    BY <1>0, <1>1, <2>1, <2>2 DEF ProofInv, ReaderInv, Pointed
<1>8. CASE Issue
  <2>1. reader' = [r EXCEPT !.at = "issued", !.points = checkpoints] /\ r.at = "proof rows"
    BY <1>8 DEF Issue
  <2>2. ASSUME ~r.disturbed PROVE \E c \in checkpoints : c.seq = r.point /\ c.hash = r.head.lastHash
    <3>1. PartOf(r.head, head) /\ r.point = r.head.lastSeq /\ Pointed(r.point)
      BY <2>1, <2>2 DEF ProofInv, ReaderInv
    <3>2. PICK c \in checkpoints : c.seq = r.point
      BY <3>1 DEF Pointed
    <3>3. c.hash = SubSeq(head.lastHash, 1, c.seq)
      BY <1>0 DEF AuditInv, ChainWhole
    <3>4. SubSeq(head.lastHash, 1, r.point) = SubSeq(r.head.lastHash, 1, r.point)
      BY <1>1, <3>1 DEF PartOf
    <3>5. SubSeq(r.head.lastHash, 1, r.point) = r.head.lastHash
      BY <3>1, WholeFront DEF PartOf, ChainHead, HeadRow
    <3>6. QED
      BY <3>2, <3>3, <3>4, <3>5
  <2>3. QED
    BY <1>0, <2>1, <2>2 DEF ProofInv, ReaderInv
<1>9. CASE UNCHANGED proofVars
  BY <1>0, <1>9 DEF proofVars, ProofInv, ReaderInv, OwnRows, Pointed
<1>10. QED
  BY <1>2, <1>3, <1>4, <1>5, <1>6, <1>7, <1>8, <1>9

LEMMA MakeKeeps ==
    ASSUME ProofInv, MakeCheckpoint
    PROVE  ReaderInv'
<1>1. /\ reader' = [Asleep EXCEPT !.at = "checkpoint", !.point = head.lastSeq]
      /\ checkpoints' = checkpoints \cup {[seq |-> head.lastSeq, hash |-> head.lastHash]}
      /\ head' = head /\ head.lastSeq \in Nat
  BY HeadNow DEF MakeCheckpoint, CreateCheckpoint, ProofInv
<1>2. Pointed(head.lastSeq)'
  <2>1. [seq |-> head.lastSeq, hash |-> head.lastHash].seq = head.lastSeq
    OBVIOUS
  <2>2. QED
    BY <1>1, <2>1 DEF Pointed
<1>3. reader' = [at |-> "checkpoint", forProof |-> FALSE, head |-> Origin, rows |-> {},
                 point |-> head.lastSeq, points |-> {}, disturbed |-> FALSE]
  BY <1>1 DEF Asleep
<1>4. reader'.at = "checkpoint" /\ reader'.disturbed = FALSE /\ reader'.point = head.lastSeq
  BY <1>3
<1>5. \E c \in checkpoints' : c.seq = reader'.point
  BY <1>1, <1>2, <1>4 DEF Pointed
<1>6. QED
  BY <1>1, <1>3, <1>4, <1>5 DEF ReaderInv, Pointed

\* For any number of events, prunings and readings, one after the other: the chain
\* is reported broken, and a proof refused by its verifier, exactly when an event
\* was written while it was read.
THEOREM AlarmsAreOverlaps == ProofSpec => []AlarmIsOverlap
<1>1. ProofInit => ProofInv
  BY AuditInitInv DEF ProofInit, ProofInv, ReaderInv, Asleep
<1>2. ProofInv /\ [ProofNext]_proofVars => ProofInv'
  <2> SUFFICES ASSUME ProofInv, [ProofNext]_proofVars PROVE ProofInv'
    OBVIOUS
  <2>1. [AuditNext]_auditVars
    BY DEF ProofNext, proofVars, Write, ReadHead, ReadEvents, ReadCheckpoints, ShowReport, ProofHead,
           ProofRows, Issue, Forget, Quiet, MakeCheckpoint, AuditNext, Checkpoint
  <2>2. AuditInv'
    BY <2>1, AuditStep DEF ProofInv
  <2>3. ReaderInv'
    BY WriteKeeps, ReadKeeps, MakeKeeps DEF ProofNext
  <2>4. QED
    BY <2>2, <2>3 DEF ProofInv
<1>3. ProofInv => AlarmIsOverlap
  <2> SUFFICES ASSUME ProofInv PROVE AlarmIsOverlap
    OBVIOUS
  <2>. PICK r : r = reader
    OBVIOUS
  <2>1. ASSUME r.at = "verdict" PROVE Coherent(r) <=> ~r.disturbed
    BY <2>1, RowsAreLinked, BeyondIsNotLinked DEF ProofInv, ReaderInv, OwnRows, Coherent, PartOf
  <2>2. ASSUME r.at = "issued" PROVE Accepts(r) <=> ~r.disturbed
    <3>1. ChainHead(r.head) /\ r.head.lastSeq \in Nat /\ r.point \in Nat
      BY <2>2 DEF ProofInv, ReaderInv, PartOf, ChainHead, HeadRow
    <3>2. QED
      BY <2>2, <3>1, RowsAreLinked, BeyondIsNotLinked DEF ProofInv, ReaderInv, Accepts
  <2>3. QED
    BY <2>1, <2>2 DEF AlarmIsOverlap
<1>4. QED
  BY <1>1, <1>2, <1>3, PTL DEF ProofSpec

-----------------------------------------------------------------------------
(* Proofs of what the keys are.  What a pin says lies behind the registry,  *)
(* and one that raced with nobody lies behind no other.                     *)

PinRow == [transitions : Nat, revocations : Nat, raced : BOOLEAN]
EntryRow == [checkpoint : Nat, witnesses : SUBSET Witnesses]

ListsRow ==
    [transitions : Nat, revocations : Nat, pins : Seq(PinRow),
     attested : SUBSET (Witnesses \X Nat), entries : Seq(EntryRow),
     receipts : SUBSET (Mirrors \X Nat),
     bindings : Seq([size : Nat, mirrors : SUBSET Mirrors])]

PartNames == {"transitions", "revocations", "pins", "attested",
              "entries", "heads", "receipts", "bindings"}

TransparencyTypeOK ==
    /\ lists \in ListsRow
    /\ registrar \in [Registrars -> [at : {"idle", "transitions", "revocations"},
                                     transitions : Nat, revocations : Nat]]
    /\ publisher \in [at : {"idle", "chosen", "witnessed"}, checkpoint : Nat,
                      witnesses : SUBSET Witnesses]
    /\ DOMAIN issuing = {"read", "seen", "disturbed"}
    /\ issuing = [read |-> issuing.read, seen |-> issuing.seen, disturbed |-> issuing.disturbed]
    /\ issuing.read \in 0..9 /\ issuing.disturbed \in BOOLEAN
    /\ issuing.seen = [part \in PartNames |-> issuing.seen[part]]
    /\ issuing.seen.pins \in Seq(PinRow)
    /\ issuing.seen.entries \in Seq(EntryRow)
    /\ issuing.seen.heads \in Nat

\* A pin is no newer than these numbers of changes.
PinUpto(pin, t, r) == pin.transitions <= t /\ pin.revocations <= r

\* A pin that raced with no change is as new as those before it.
PinsClimb(pins) ==
    \A i, j \in 1..Len(pins) :
        i <= j /\ ~pins[j].raced => PinUpto(pins[i], pins[j].transitions, pins[j].revocations)

PinsAreBehind ==
    /\ \A i \in 1..Len(lists.pins) : PinUpto(lists.pins[i], lists.transitions, lists.revocations)
    /\ \A p \in Registrars : PinUpto(registrar[p], lists.transitions, lists.revocations)

\* What is published was witnessed.
EntryIsAttested(entry, attested) ==
    /\ entry.witnesses # {}
    /\ \A w \in entry.witnesses : <<w, entry.checkpoint>> \in attested

EntriesAreAttested(entries, attested) ==
    \A i \in 1..Len(entries) : EntryIsAttested(entries[i], attested)

\* What a proof knows of the checkpoints is as it stands.
SeenIsCurrent ==
    ~issuing.disturbed =>
        /\ issuing.read >= 3 => issuing.seen.pins = lists.pins
        /\ issuing.read >= 4 => issuing.seen.attested = ForNewest(lists)

TransparencyInv ==
    /\ TransparencyTypeOK
    /\ PinsAreBehind /\ PinsClimb(lists.pins) /\ PinsClimb(issuing.seen.pins)
    /\ EntriesAreAttested(lists.entries, lists.attested)
    /\ EntriesAreAttested(issuing.seen.entries, lists.attested)
    /\ publisher.at = "witnessed" => EntryIsAttested(publisher, lists.attested)
    /\ SeenIsCurrent
    /\ Issued => PinAgrees(issuing.seen) /\ LogAgrees(issuing.seen)

LEMMA PartsAre ==
    /\ Len(Parts) = 8
    /\ Parts[1] = "transitions" /\ Parts[2] = "revocations" /\ Parts[3] = "pins"
    /\ Parts[4] = "attested" /\ Parts[5] = "entries" /\ Parts[6] = "heads"
    /\ Parts[7] = "receipts" /\ Parts[8] = "bindings"
    /\ PartNames = {Parts[i] : i \in 1..Len(Parts)}
<1>1. /\ Len(Parts) = 8
      /\ Parts[1] = "transitions" /\ Parts[2] = "revocations" /\ Parts[3] = "pins"
      /\ Parts[4] = "attested" /\ Parts[5] = "entries" /\ Parts[6] = "heads"
      /\ Parts[7] = "receipts" /\ Parts[8] = "bindings"
  BY DEF Parts
<1>2. \A i \in 1..8 : i = 1 \/ i = 2 \/ i = 3 \/ i = 4 \/ i = 5 \/ i = 6 \/ i = 7 \/ i = 8
  OBVIOUS
<1>3. \A i \in 1..8 : Parts[i] \in PartNames
  BY <1>1, <1>2 DEF PartNames
<1>4. \A part \in PartNames : \E i \in 1..8 : Parts[i] = part
  BY <1>1 DEF PartNames
<1>5. QED
  BY <1>1, <1>3, <1>4

\* The tables as they are put in, without the proof.
LEMMA StartIsOK == TransparencyInit => TransparencyInv
<1> SUFFICES ASSUME TransparencyInit PROVE TransparencyInv
  OBVIOUS
<1>1. /\ lists = NoLists /\ registrar = [p \in Registrars |-> Unread]
      /\ publisher = Unpublished /\ issuing = NoProof
  BY DEF TransparencyInit
<1>2. /\ NoLists.transitions = 0 /\ NoLists.revocations = 0
      /\ NoLists.pins = <<>> /\ NoLists.entries = <<>> /\ NoLists \in ListsRow
  BY DEF NoLists, ListsRow
<1>3. /\ NothingRead = [part \in PartNames |-> NothingRead[part]]
      /\ NothingRead["pins"] = <<>> /\ NothingRead["entries"] = <<>> /\ NothingRead["heads"] = 0
  <2>1. NothingRead = [part \in PartNames |-> IF part = "heads" THEN 0 ELSE NoLists[part]]
    BY PartsAre DEF NothingRead
  <2>2. NoLists["pins"] = <<>> /\ NoLists["entries"] = <<>>
    BY DEF NoLists
  <2>3. QED
    BY <2>1, <2>2 DEF PartNames
<1>4. /\ issuing = [read |-> 0, seen |-> NothingRead, disturbed |-> FALSE]
      /\ issuing.read = 0 /\ issuing.seen = NothingRead /\ issuing.disturbed = FALSE
      /\ DOMAIN issuing = {"read", "seen", "disturbed"}
  BY <1>1 DEF NoProof
<1>5. TransparencyTypeOK
  <2>1. registrar \in [Registrars -> [at : {"idle", "transitions", "revocations"},
                                     transitions : Nat, revocations : Nat]]
    BY <1>1 DEF Unread
  <2>2. publisher \in [at : {"idle", "chosen", "witnessed"}, checkpoint : Nat,
                       witnesses : SUBSET Witnesses]
    BY <1>1 DEF Unpublished
  <2>3. /\ issuing.seen.pins \in Seq(PinRow) /\ issuing.seen.entries \in Seq(EntryRow)
        /\ issuing.seen.heads \in Nat
    <3>1. issuing.seen.pins = <<>> /\ issuing.seen.entries = <<>> /\ issuing.seen.heads = 0
      BY <1>3, <1>4
    <3>2. QED
      BY <3>1
  <2>4. issuing = [read |-> issuing.read, seen |-> issuing.seen, disturbed |-> issuing.disturbed]
    BY <1>4
  <2>5. issuing.seen = [part \in PartNames |-> issuing.seen[part]]
    BY <1>3, <1>4
  <2>6. issuing.read \in 0..9 /\ issuing.disturbed \in BOOLEAN
    BY <1>4
  <2>7. QED
    BY <1>1, <1>2, <1>4, <2>1, <2>2, <2>3, <2>4, <2>5, <2>6 DEF TransparencyTypeOK
<1>6. lists.pins = <<>> /\ lists.entries = <<>> /\ issuing.seen.pins = <<>> /\ issuing.seen.entries = <<>>
  BY <1>1, <1>2, <1>3, <1>4
<1>7. PinsAreBehind
  BY <1>1, <1>2, <1>6 DEF PinsAreBehind, PinUpto, Unread
<1>8. publisher.at # "witnessed"
  BY <1>1 DEF Unpublished
<1>9. ~Issued
  BY <1>4, PartsAre DEF Issued
<1>10. SeenIsCurrent
  BY <1>4 DEF SeenIsCurrent
<1>11. QED
  BY <1>5, <1>6, <1>7, <1>8, <1>9, <1>10 DEF TransparencyInv, PinsClimb, EntriesAreAttested

LEMMA PinsGrow ==
    ASSUME NEW pins \in Seq(PinRow), NEW pin \in PinRow, PinsClimb(pins),
           NEW t \in Nat, NEW r \in Nat,
           \A i \in 1..Len(pins) : PinUpto(pins[i], t, r),
           ~pin.raced => pin.transitions = t /\ pin.revocations = r
    PROVE  /\ Append(pins, pin) \in Seq(PinRow)
           /\ Append(pins, pin) # <<>>
           /\ PinsClimb(Append(pins, pin))
           /\ PinUpto(pin, t, r) =>
                 \A i \in 1..Len(Append(pins, pin)) : PinUpto(Append(pins, pin)[i], t, r)
<1>. PICK all : all = Append(pins, pin)
  OBVIOUS
<1>. PICK n : n = Len(pins)
  OBVIOUS
<1>1. /\ all \in Seq(PinRow) /\ n \in Nat /\ Len(all) = n + 1 /\ all[n + 1] = pin
      /\ \A i \in 1..n : all[i] = pins[i]
  BY AppendProperties
<1>2. \A i \in 1..(n + 1) : i \in 1..n \/ i = n + 1
  BY <1>1
<1>3. ASSUME NEW i \in 1..(n + 1), NEW j \in 1..(n + 1), i <= j, ~all[j].raced
      PROVE  PinUpto(all[i], all[j].transitions, all[j].revocations)
  <2>1. CASE j \in 1..n
    <3>1. i \in 1..n
      BY <1>1, <1>3, <2>1
    <3>2. QED
      BY <1>1, <1>3, <2>1, <3>1 DEF PinsClimb
  <2>2. CASE j = n + 1
    <3>1. pin.transitions = t /\ pin.revocations = r /\ all[j] = pin
      BY <1>1, <1>3, <2>2
    <3>2. CASE i \in 1..n
      BY <1>1, <3>1, <3>2
    <3>3. CASE i = n + 1
      BY <1>1, <3>1, <3>3 DEF PinUpto, PinRow
    <3>4. QED
      BY <1>2, <3>2, <3>3
  <2>3. QED
    BY <1>2, <2>1, <2>2
<1>4. PinsClimb(all)
  BY <1>1, <1>3 DEF PinsClimb
<1>5. ASSUME PinUpto(pin, t, r), NEW i \in 1..(n + 1) PROVE PinUpto(all[i], t, r)
  BY <1>1, <1>2, <1>5
<1>6. all # <<>>
  BY <1>1
<1>7. QED
  BY <1>1, <1>4, <1>5, <1>6

\* A change of the tables that leaves the checkpoints, their witnesses and the
\* log alone.
LEMMA KeysKeep ==
    ASSUME TransparencyInv, RotateKey \/ RevokeKey PROVE TransparencyInv'
<1>. PICK l, t, r : l = lists /\ t = lists.transitions /\ r = lists.revocations
  OBVIOUS
<1>1. l \in ListsRow /\ t \in Nat /\ r \in Nat
  BY DEF TransparencyInv, TransparencyTypeOK, ListsRow
<1>2. /\ lists' \in ListsRow /\ lists'.transitions >= t /\ lists'.revocations >= r
      /\ lists'.pins = l.pins /\ lists'.attested = l.attested /\ lists'.entries = l.entries
  <2>1. CASE RotateKey
    <3>1. lists' = [l EXCEPT !.transitions = t + 1]
      BY <2>1 DEF RotateKey
    <3>2. t + 1 \in Nat /\ t + 1 >= t /\ r >= r
      BY <1>1
    <3>3. /\ lists'.transitions = t + 1 /\ lists'.revocations = l.revocations
          /\ lists'.pins = l.pins /\ lists'.attested = l.attested /\ lists'.entries = l.entries
      BY <1>1, <3>1 DEF ListsRow
    <3>4. lists' \in ListsRow
      BY <1>1, <3>1, <3>2 DEF ListsRow
    <3>5. QED
      BY <3>2, <3>3, <3>4
  <2>2. CASE RevokeKey
    <3>1. lists' = [l EXCEPT !.revocations = r + 1]
      BY <2>2 DEF RevokeKey
    <3>2. r + 1 \in Nat /\ r + 1 >= r /\ t >= t
      BY <1>1
    <3>3. /\ lists'.transitions = l.transitions /\ lists'.revocations = r + 1
          /\ lists'.pins = l.pins /\ lists'.attested = l.attested /\ lists'.entries = l.entries
      BY <1>1, <3>1 DEF ListsRow
    <3>4. lists' \in ListsRow
      BY <1>1, <3>1, <3>2 DEF ListsRow
    <3>5. QED
      BY <3>2, <3>3, <3>4
  <2>3. QED
    BY <2>1, <2>2
<1>3. UNCHANGED <<registrar, publisher, issuing>>
  BY DEF RotateKey, RevokeKey, KeepProof
<1>4. TransparencyTypeOK'
  BY <1>2, <1>3 DEF TransparencyInv, TransparencyTypeOK
<1>5. PinsAreBehind'
  <2>1. /\ \A i \in 1..Len(l.pins) : l.pins[i].transitions \in Nat /\ l.pins[i].revocations \in Nat
        /\ \A p \in Registrars : registrar[p].transitions \in Nat /\ registrar[p].revocations \in Nat
        /\ lists'.transitions \in Nat /\ lists'.revocations \in Nat
    <3>1. l.pins \in Seq(PinRow)
      BY <1>1 DEF ListsRow
    <3>2. \A i \in 1..Len(l.pins) : l.pins[i] \in PinRow
      BY <3>1
    <3>3. \A i \in 1..Len(l.pins) : l.pins[i].transitions \in Nat /\ l.pins[i].revocations \in Nat
      BY <3>2 DEF PinRow
    <3>4. \A p \in Registrars : registrar[p].transitions \in Nat /\ registrar[p].revocations \in Nat
      BY DEF TransparencyInv, TransparencyTypeOK
    <3>5. lists'.transitions \in Nat /\ lists'.revocations \in Nat
      BY <1>2 DEF ListsRow
    <3>6. QED
      BY <3>3, <3>4, <3>5
  <2>2. ASSUME NEW pin, pin.transitions \in Nat, pin.revocations \in Nat, PinUpto(pin, t, r)
        PROVE  PinUpto(pin, lists'.transitions, lists'.revocations)
    BY <1>1, <1>2, <2>1, <2>2 DEF PinUpto
  <2>3. /\ \A i \in 1..Len(l.pins) : PinUpto(l.pins[i], t, r)
        /\ \A p \in Registrars : PinUpto(registrar[p], t, r)
    BY DEF TransparencyInv, PinsAreBehind
  <2>4. QED
    BY <1>2, <1>3, <2>1, <2>2, <2>3 DEF PinsAreBehind
<1>6. SeenIsCurrent'
  BY <1>2, <1>3 DEF TransparencyInv, SeenIsCurrent, ForNewest
<1>7. (Issued => PinAgrees(issuing.seen) /\ LogAgrees(issuing.seen))'
  BY <1>3 DEF TransparencyInv, Issued
<1>8. QED
  BY <1>2, <1>3, <1>4, <1>5, <1>6, <1>7 DEF TransparencyInv

LEMMA RegistrarReads ==
    ASSUME TransparencyInv, NEW p \in Registrars, ReadTransitions(p) \/ ReadRevocations(p)
    PROVE  TransparencyInv'
<1>1. UNCHANGED <<lists, publisher, issuing>>
  BY DEF ReadTransitions, ReadRevocations, KeepProof
<1>2. lists.transitions \in Nat /\ lists.revocations \in Nat
  BY DEF TransparencyInv, TransparencyTypeOK, ListsRow
<1>. PICK row, old, f, t, r : /\ row = registrar'[p] /\ old = registrar[p] /\ f = registrar
                              /\ t = lists.transitions /\ r = lists.revocations
  OBVIOUS
<1>3. /\ f \in [Registrars -> [at : {"idle", "transitions", "revocations"},
                              transitions : Nat, revocations : Nat]]
      /\ old \in [at : {"idle", "transitions", "revocations"}, transitions : Nat, revocations : Nat]
      /\ PinUpto(old, lists.transitions, lists.revocations)
      /\ \A q \in Registrars : PinUpto(f[q], lists.transitions, lists.revocations)
  BY DEF TransparencyInv, TransparencyTypeOK, PinsAreBehind
<1>4. registrar' = [f EXCEPT ![p] = row]
  BY <1>3 DEF ReadTransitions, ReadRevocations
<1>5. /\ row \in [at : {"idle", "transitions", "revocations"}, transitions : Nat, revocations : Nat]
      /\ PinUpto(row, lists.transitions, lists.revocations)
  <2>1. CASE ReadTransitions(p)
    <3>1. row = [old EXCEPT !.at = "transitions", !.transitions = t]
      BY <1>3, <2>1 DEF ReadTransitions
    <3>2. row = [at |-> "transitions", transitions |-> t, revocations |-> old.revocations]
      BY ONLY <1>3, <3>1
    <3>3. old.transitions \in Nat /\ old.revocations \in Nat /\ t \in Nat /\ r \in Nat
      BY <1>2, <1>3
    <3>4. old.transitions <= t /\ old.revocations <= r
      BY <1>3 DEF PinUpto
    <3>5. QED
      BY ONLY <3>2, <3>3, <3>4, t = lists.transitions, r = lists.revocations DEF PinUpto
  <2>2. CASE ReadRevocations(p)
    <3>1. row = [old EXCEPT !.at = "revocations", !.revocations = r]
      BY <1>3, <2>2 DEF ReadRevocations
    <3>2. row = [at |-> "revocations", transitions |-> old.transitions, revocations |-> r]
      BY ONLY <1>3, <3>1
    <3>3. old.transitions \in Nat /\ old.revocations \in Nat /\ t \in Nat /\ r \in Nat
      BY <1>2, <1>3
    <3>4. old.transitions <= t /\ old.revocations <= r
      BY <1>3 DEF PinUpto
    <3>5. QED
      BY ONLY <3>2, <3>3, <3>4, t = lists.transitions, r = lists.revocations DEF PinUpto
  <2>3. QED
    BY <2>1, <2>2
<1>6. TransparencyTypeOK'
  BY <1>1, <1>3, <1>4, <1>5 DEF TransparencyInv, TransparencyTypeOK
<1>7. PinsAreBehind'
  <2>1. \A q \in Registrars : PinUpto(registrar'[q], lists.transitions, lists.revocations)
    BY <1>3, <1>4, <1>5
  <2>2. QED
    BY <1>1, <2>1 DEF TransparencyInv, PinsAreBehind
<1>8. SeenIsCurrent'
  BY <1>1 DEF TransparencyInv, SeenIsCurrent, ForNewest
<1>9. QED
  BY <1>1, <1>6, <1>7, <1>8 DEF TransparencyInv, Issued

\* While a proof is read, a checkpoint or an attestation disturbs it.
LEMMA DisturbedIsOK ==
    ASSUME TransparencyInv, SeenIsCurrent,
           issuing' = [issuing EXCEPT !.disturbed = @ \/ issuing.read > 0]
    PROVE  /\ issuing'.read = issuing.read /\ issuing'.seen = issuing.seen
           /\ issuing' = [read |-> issuing'.read, seen |-> issuing'.seen,
                          disturbed |-> issuing'.disturbed]
           /\ DOMAIN issuing' = {"read", "seen", "disturbed"}
           /\ issuing'.disturbed \in BOOLEAN
           /\ SeenIsCurrent'
<1>. PICK r, s, d : r = issuing.read /\ s = issuing.seen /\ d = issuing.disturbed
  OBVIOUS
<1>1. issuing = [read |-> r, seen |-> s, disturbed |-> d] /\ r \in 0..9 /\ d \in BOOLEAN
  BY DEF TransparencyInv, TransparencyTypeOK
<1>. PICK e : e = (d \/ r > 0)
  OBVIOUS
<1>2. issuing' = [read |-> r, seen |-> s, disturbed |-> e]
  BY <1>1
<1>3. e \in BOOLEAN /\ (~e => r = 0 /\ ~d)
  <2>1. e \in BOOLEAN
    OBVIOUS
  <2>2. ~e => ~d /\ ~(r > 0)
    OBVIOUS
  <2>3. ~(r > 0) => r = 0
    BY <1>1
  <2>4. QED
    BY <2>1, <2>2, <2>3
<1>4. SeenIsCurrent'
  BY <1>1, <1>2, <1>3 DEF SeenIsCurrent
<1>5. QED
  BY <1>2, <1>3, <1>4

LEMMA PinRegistryKeeps ==
    ASSUME TransparencyInv, NEW p \in Registrars, PinRegistry(p) PROVE TransparencyInv'
<1>. PICK l, t, r, f, old : /\ l = lists /\ t = lists.transitions /\ r = lists.revocations
                           /\ f = registrar /\ old = registrar[p]
  OBVIOUS
<1>1. /\ l \in ListsRow /\ t \in Nat /\ r \in Nat /\ l.pins \in Seq(PinRow)
      /\ \A i \in 1..Len(l.pins) : PinUpto(l.pins[i], t, r)
      /\ PinsClimb(l.pins)
  BY DEF TransparencyInv, TransparencyTypeOK, ListsRow, PinsAreBehind
<1>2. /\ f \in [Registrars -> [at : {"idle", "transitions", "revocations"},
                              transitions : Nat, revocations : Nat]]
      /\ old.transitions \in Nat /\ old.revocations \in Nat
      /\ PinUpto(old, t, r)
      /\ \A q \in Registrars : PinUpto(f[q], t, r)
  BY DEF TransparencyInv, TransparencyTypeOK, PinsAreBehind
<1>3. UNCHANGED publisher /\ registrar' = [f EXCEPT ![p] = Unread]
  BY DEF PinRegistry
<1>4. /\ registrar' \in [Registrars -> [at : {"idle", "transitions", "revocations"},
                                        transitions : Nat, revocations : Nat]]
      /\ \A q \in Registrars : PinUpto(registrar'[q], t, r)
  <2>1. Unread \in [at : {"idle", "transitions", "revocations"}, transitions : Nat, revocations : Nat]
        /\ PinUpto(Unread, t, r)
    BY <1>1 DEF Unread, PinUpto
  <2>2. QED
    BY <1>2, <1>3, <2>1
<1>5. CASE UNCHANGED <<lists, issuing>>
  <2>1. TransparencyTypeOK'
    BY <1>3, <1>4, <1>5 DEF TransparencyInv, TransparencyTypeOK
  <2>2. PinsAreBehind'
    BY <1>4, <1>5 DEF TransparencyInv, PinsAreBehind
  <2>3. SeenIsCurrent'
    BY <1>5 DEF TransparencyInv, SeenIsCurrent, ForNewest
  <2>4. QED
    BY <1>3, <1>5, <2>1, <2>2, <2>3 DEF TransparencyInv, Issued
<1>6. CASE Pinned(Pin(p))
  <2>. PICK pin, all : pin = Pin(p) /\ all = Append(l.pins, pin)
    OBVIOUS
  <2>1. /\ pin \in PinRow /\ PinUpto(pin, t, r)
        /\ ~pin.raced => pin.transitions = t /\ pin.revocations = r
    <3>. PICK u, v, b : u = old.transitions /\ v = old.revocations /\ b = (u # t \/ v # r)
      OBVIOUS
    <3>1. pin = [transitions |-> u, revocations |-> v, raced |-> b]
      BY DEF Pin
    <3>2. u \in Nat /\ v \in Nat /\ b \in BOOLEAN /\ u <= t /\ v <= r
      BY <1>2 DEF PinUpto
    <3>3. ~b => u = t /\ v = r
      OBVIOUS
    <3>4. QED
      BY <3>1, <3>2, <3>3 DEF PinRow, PinUpto
  <2>2. /\ all \in Seq(PinRow) /\ PinsClimb(all)
        /\ \A i \in 1..Len(all) : PinUpto(all[i], t, r)
    BY <1>1, <2>1, PinsGrow
  <2>3. lists' = [l EXCEPT !.pins = all]
    BY <1>6 DEF Pinned
  <2>4. /\ lists'.pins = all /\ lists'.transitions = t /\ lists'.revocations = r
        /\ lists'.attested = l.attested /\ lists'.entries = l.entries
    BY <1>1, <2>3 DEF ListsRow
  <2>5. lists' \in ListsRow
    BY <1>1, <2>2, <2>3 DEF ListsRow
  <2>6. /\ issuing'.read = issuing.read /\ issuing'.seen = issuing.seen
        /\ issuing' = [read |-> issuing'.read, seen |-> issuing'.seen,
                       disturbed |-> issuing'.disturbed]
        /\ DOMAIN issuing' = {"read", "seen", "disturbed"}
        /\ issuing'.disturbed \in BOOLEAN
        /\ SeenIsCurrent'
    BY <1>6, DisturbedIsOK DEF TransparencyInv, Pinned
  <2>7. TransparencyTypeOK'
    BY <1>3, <1>4, <2>5, <2>6 DEF TransparencyInv, TransparencyTypeOK
  <2>8. PinsAreBehind'
    BY <1>4, <2>2, <2>4 DEF PinsAreBehind
  <2>9. QED
    BY <1>3, <2>2, <2>4, <2>6, <2>7, <2>8 DEF TransparencyInv, Issued
<1>7. QED
  BY <1>5, <1>6 DEF PinRegistry, KeepProof

LEMMA AttestKeeps ==
    ASSUME TransparencyInv, NEW w \in Witnesses, NEW n, Attest(w, n) PROVE TransparencyInv'
<1>. PICK l, new : l = lists /\ new = l.attested \cup {<<w, n>>}
  OBVIOUS
<1>1. l \in ListsRow /\ l.pins \in Seq(PinRow) /\ n \in 1..Len(l.pins)
  BY DEF TransparencyInv, TransparencyTypeOK, ListsRow, Attest
<1>2. n \in Nat
  BY <1>1
<1>3. lists' = [l EXCEPT !.attested = new]
  BY DEF Attest
<1>4. /\ lists'.pins = l.pins /\ lists'.transitions = l.transitions /\ lists'.revocations = l.revocations
      /\ lists'.attested = new /\ lists'.entries = l.entries
  BY <1>1, <1>3 DEF ListsRow
<1>5. lists' \in ListsRow
  <2>1. l.attested \in SUBSET (Witnesses \X Nat)
    BY <1>1 DEF ListsRow
  <2>2. new \in SUBSET (Witnesses \X Nat)
    BY <1>2, <2>1
  <2>3. QED
    BY <1>1, <1>3, <2>2 DEF ListsRow
<1>6. UNCHANGED <<registrar, publisher>>
  BY DEF Attest
<1>7. /\ issuing'.read = issuing.read /\ issuing'.seen = issuing.seen
      /\ issuing' = [read |-> issuing'.read, seen |-> issuing'.seen,
                     disturbed |-> issuing'.disturbed]
      /\ DOMAIN issuing' = {"read", "seen", "disturbed"}
      /\ issuing'.disturbed \in BOOLEAN
      /\ SeenIsCurrent'
  BY DisturbedIsOK DEF TransparencyInv, Attest
<1>8. TransparencyTypeOK'
  BY <1>5, <1>6, <1>7 DEF TransparencyInv, TransparencyTypeOK
<1>9. PinsAreBehind'
  BY <1>4, <1>6 DEF TransparencyInv, PinsAreBehind
<1>10. \A entry : EntryIsAttested(entry, l.attested) => EntryIsAttested(entry, new)
  BY DEF EntryIsAttested
<1>11. \A entries : EntriesAreAttested(entries, l.attested) => EntriesAreAttested(entries, new)
  BY <1>10 DEF EntriesAreAttested
<1>12. QED
  BY <1>4, <1>6, <1>7, <1>8, <1>9, <1>10, <1>11 DEF TransparencyInv, Issued

LEMMA PublisherReads ==
    ASSUME TransparencyInv, NEW n, ChooseCheckpoint(n) \/ ReadWitnesses PROVE TransparencyInv'
<1>1. UNCHANGED <<lists, registrar, issuing>>
  BY DEF ChooseCheckpoint, ReadWitnesses, KeepProof
<1>. PICK old : old = publisher
  OBVIOUS
<1>2. old \in [at : {"idle", "chosen", "witnessed"}, checkpoint : Nat, witnesses : SUBSET Witnesses]
  BY DEF TransparencyInv, TransparencyTypeOK
<1>3. /\ publisher' \in [at : {"idle", "chosen", "witnessed"}, checkpoint : Nat,
                         witnesses : SUBSET Witnesses]
      /\ publisher'.at = "witnessed" => EntryIsAttested(publisher', lists.attested)
  <2>1. CASE ChooseCheckpoint(n)
    <3>1. n \in Nat
      <4>1. lists.pins \in Seq(PinRow) /\ n \in 1..Len(lists.pins)
        BY <2>1 DEF TransparencyInv, TransparencyTypeOK, ListsRow, ChooseCheckpoint
      <4>2. QED
        BY <4>1
    <3>2. publisher' = [at |-> "chosen", checkpoint |-> n, witnesses |-> {}]
      BY <2>1 DEF ChooseCheckpoint, Unpublished
    <3>3. QED
      BY <3>1, <3>2
  <2>2. CASE ReadWitnesses
    <3>. PICK own : own = {w \in Witnesses : <<w, old.checkpoint>> \in lists.attested}
      OBVIOUS
    <3>1. CASE own = {}
      <4>1. publisher' = Unpublished
        BY <2>2, <3>1 DEF ReadWitnesses
      <4>2. QED
        BY <4>1 DEF Unpublished
    <3>2. CASE own # {}
      <4>1. publisher' = [old EXCEPT !.at = "witnessed", !.witnesses = own]
        BY <2>2, <3>2 DEF ReadWitnesses
      <4>2. publisher' = [at |-> "witnessed", checkpoint |-> old.checkpoint, witnesses |-> own]
        BY ONLY <1>2, <4>1
      <4>3. own \in SUBSET Witnesses /\ \A w \in own : <<w, old.checkpoint>> \in lists.attested
        OBVIOUS
      <4>4. QED
        BY <1>2, <3>2, <4>2, <4>3 DEF EntryIsAttested
    <3>3. QED
      BY <3>1, <3>2
  <2>3. QED
    BY <2>1, <2>2
<1>4. TransparencyTypeOK'
  BY <1>1, <1>3 DEF TransparencyInv, TransparencyTypeOK
<1>5. PinsAreBehind' /\ SeenIsCurrent'
  BY <1>1 DEF TransparencyInv, PinsAreBehind, SeenIsCurrent, ForNewest
<1>6. QED
  BY <1>1, <1>3, <1>4, <1>5 DEF TransparencyInv, Issued

LEMMA LogKeeps ==
    ASSUME TransparencyInv,
           PublishHead \/ (\E m \in Mirrors : \E n : Acknowledge(m, n))
           \/ (\E ms \in SUBSET Mirrors : \E n : Bind(ms, n))
    PROVE  TransparencyInv'
<1>. PICK l : l = lists
  OBVIOUS
<1>1. /\ l \in ListsRow /\ l.entries \in Seq(EntryRow)
      /\ publisher \in [at : {"idle", "chosen", "witnessed"}, checkpoint : Nat,
                        witnesses : SUBSET Witnesses]
      /\ EntriesAreAttested(l.entries, l.attested)
  BY DEF TransparencyInv, TransparencyTypeOK, ListsRow
<1>2. UNCHANGED <<registrar, issuing>>
  BY DEF PublishHead, Acknowledge, Bind, KeepProof
<1>3. CASE PublishHead
  <2>. PICK entry, all : /\ entry = [checkpoint |-> publisher.checkpoint,
                                    witnesses |-> publisher.witnesses]
                        /\ all = Append(l.entries, entry)
    OBVIOUS
  <2>1. entry \in EntryRow /\ EntryIsAttested(entry, l.attested)
    BY <1>1, <1>3 DEF TransparencyInv, PublishHead, EntryRow, EntryIsAttested
  <2>2. /\ all \in Seq(EntryRow) /\ Len(all) = Len(l.entries) + 1
        /\ all[Len(l.entries) + 1] = entry /\ \A i \in 1..Len(l.entries) : all[i] = l.entries[i]
    BY <1>1, <2>1, AppendProperties
  <2>3. EntriesAreAttested(all, l.attested)
    <3>1. \A i \in 1..Len(all) : i \in 1..Len(l.entries) \/ i = Len(l.entries) + 1
      BY <1>1, <2>2
    <3>2. QED
      BY <1>1, <2>1, <2>2, <3>1 DEF EntriesAreAttested
  <2>4. lists' = l \/ lists' = [l EXCEPT !.entries = all]
    BY <1>3 DEF PublishHead
  <2>5. /\ lists' \in ListsRow /\ lists'.pins = l.pins
        /\ lists'.transitions = l.transitions /\ lists'.revocations = l.revocations
        /\ lists'.attested = l.attested /\ EntriesAreAttested(lists'.entries, l.attested)
    <3>1. CASE lists' = l
      BY <1>1, <3>1
    <3>2. CASE lists' = [l EXCEPT !.entries = all]
      <4>1. lists' \in ListsRow
        BY <1>1, <2>2, <3>2 DEF ListsRow
      <4>2. /\ lists'.pins = l.pins /\ lists'.entries = all
            /\ lists'.transitions = l.transitions /\ lists'.revocations = l.revocations
            /\ lists'.attested = l.attested
        BY <1>1, <3>2 DEF ListsRow
      <4>3. QED
        BY <2>3, <4>1, <4>2
    <3>3. QED
      BY <2>4, <3>1, <3>2
  <2>6. publisher' = Unpublished
    BY <1>3 DEF PublishHead
  <2>7. TransparencyTypeOK' /\ publisher'.at # "witnessed"
    BY <1>2, <2>5, <2>6 DEF TransparencyInv, TransparencyTypeOK, Unpublished
  <2>8. PinsAreBehind' /\ SeenIsCurrent'
    BY <1>2, <2>5 DEF TransparencyInv, PinsAreBehind, SeenIsCurrent, ForNewest
  <2>9. QED
    BY <1>2, <2>5, <2>7, <2>8 DEF TransparencyInv, Issued
<1>4. ASSUME UNCHANGED publisher, lists' \in ListsRow, lists'.pins = l.pins,
             lists'.transitions = l.transitions, lists'.revocations = l.revocations,
             lists'.attested = l.attested, lists'.entries = l.entries
      PROVE  TransparencyInv'
  <2>1. TransparencyTypeOK'
    BY <1>2, <1>4 DEF TransparencyInv, TransparencyTypeOK
  <2>2. PinsAreBehind' /\ SeenIsCurrent'
    BY <1>2, <1>4 DEF TransparencyInv, PinsAreBehind, SeenIsCurrent, ForNewest
  <2>3. QED
    BY <1>2, <1>4, <2>1, <2>2 DEF TransparencyInv, Issued
<1>5. CASE \E m \in Mirrors : \E n : Acknowledge(m, n)
  <2>1. PICK m \in Mirrors : \E n : Acknowledge(m, n)
    BY <1>5
  <2>2. PICK n : Acknowledge(m, n)
    BY <2>1
  <2>. PICK new : new = l.receipts \cup {<<m, n>>}
    OBVIOUS
  <2>3. lists' = [l EXCEPT !.receipts = new] /\ UNCHANGED publisher /\ n \in 1..Len(l.entries)
    BY <2>2 DEF Acknowledge
  <2>4. n \in Nat /\ l.receipts \in SUBSET (Mirrors \X Nat)
    BY <1>1, <2>3 DEF ListsRow
  <2>5. new \in SUBSET (Mirrors \X Nat)
    BY <2>4
  <2>6. lists' \in ListsRow
    BY <1>1, <2>3, <2>5 DEF ListsRow
  <2>7. /\ lists'.pins = l.pins /\ lists'.entries = l.entries
        /\ lists'.transitions = l.transitions /\ lists'.revocations = l.revocations
        /\ lists'.attested = l.attested
    BY <1>1, <2>3 DEF ListsRow
  <2>8. QED
    BY <1>4, <2>3, <2>6, <2>7
<1>6. CASE \E ms \in SUBSET Mirrors : \E n : Bind(ms, n)
  <2>1. PICK ms \in SUBSET Mirrors : \E n : Bind(ms, n)
    BY <1>6
  <2>2. PICK n : Bind(ms, n)
    BY <2>1
  <2>. PICK new : new = Append(l.bindings, [size |-> n, mirrors |-> ms])
    OBVIOUS
  <2>3. /\ lists' = [l EXCEPT !.bindings = new] /\ UNCHANGED publisher
        /\ ms # {} /\ \A m \in ms : <<m, n>> \in l.receipts
    BY <2>2 DEF Bind
  <2>4. n \in Nat
    <3>1. l.receipts \in SUBSET (Mirrors \X Nat)
      BY <1>1 DEF ListsRow
    <3>2. QED
      BY <2>3, <3>1
  <2>5. new \in Seq([size : Nat, mirrors : SUBSET Mirrors])
    <3>1. l.bindings \in Seq([size : Nat, mirrors : SUBSET Mirrors])
      BY <1>1 DEF ListsRow
    <3>2. [size |-> n, mirrors |-> ms] \in [size : Nat, mirrors : SUBSET Mirrors]
      BY <2>4
    <3>3. QED
      BY <3>1, <3>2, AppendProperties
  <2>6. lists' \in ListsRow
    BY <1>1, <2>3, <2>5 DEF ListsRow
  <2>7. /\ lists'.pins = l.pins /\ lists'.entries = l.entries
        /\ lists'.transitions = l.transitions /\ lists'.revocations = l.revocations
        /\ lists'.attested = l.attested
    BY <1>1, <2>3 DEF ListsRow
  <2>8. QED
    BY <1>4, <2>3, <2>6, <2>7
<1>7. QED
  BY <1>3, <1>5, <1>6

LEMMA ReadPartKeeps ==
    ASSUME TransparencyInv, ReadPart PROVE TransparencyInv'
<1>. PICK k, s, d, part, x : /\ k = issuing.read /\ s = issuing.seen /\ d = issuing.disturbed
                            /\ part = Parts[k + 1] /\ x = Listed(part)
  OBVIOUS
<1>. PICK t : t = [s EXCEPT ![part] = x]
  OBVIOUS
<1>1. /\ issuing = [read |-> k, seen |-> s, disturbed |-> d]
      /\ k \in 0..9 /\ d \in BOOLEAN /\ s = [q \in PartNames |-> s[q]]
      /\ s.pins \in Seq(PinRow) /\ s.entries \in Seq(EntryRow) /\ s.heads \in Nat
      /\ PinsClimb(s.pins) /\ EntriesAreAttested(s.entries, lists.attested)
  BY DEF TransparencyInv, TransparencyTypeOK
<1>2. k < 8
  BY PartsAre DEF ReadPart
<1>3. /\ k + 1 \in 1..8 /\ part \in PartNames
      /\ part = "pins" <=> k = 2
      /\ part = "attested" <=> k = 3
  <2>1. k \in 0..7
    BY <1>1, <1>2
  <2>2. k = 0 \/ k = 1 \/ k = 2 \/ k = 3 \/ k = 4 \/ k = 5 \/ k = 6 \/ k = 7
    BY <2>1
  <2>3. QED
    BY <2>1, <2>2, PartsAre DEF PartNames
<1>4. UNCHANGED <<lists, registrar, publisher>>
  BY DEF ReadPart
<1>5. issuing' = [read |-> k + 1, seen |-> t, disturbed |-> d]
  <2>1. issuing' = [issuing EXCEPT !.read = k + 1, !.seen[part] = x]
    BY DEF ReadPart
  <2>2. QED
    BY ONLY <1>1, <2>1, t = [s EXCEPT ![part] = x]
<1>6. /\ issuing'.read = k + 1 /\ issuing'.seen = t /\ issuing'.disturbed = d
      /\ DOMAIN issuing' = {"read", "seen", "disturbed"}
  BY <1>5
<1>7. /\ t = [q \in PartNames |-> t[q]] /\ t[part] = x
      /\ \A q \in PartNames : q # part => t[q] = s[q]
  BY ONLY <1>1, <1>3, t = [s EXCEPT ![part] = x]
<1>8. /\ part = "pins" => x = lists.pins
      /\ part = "entries" => x = lists.entries
      /\ part = "attested" => x = ForNewest(lists)
      /\ part = "heads" => x = Len(lists.entries)
  BY DEF Listed
<1>9. /\ t.pins = (IF part = "pins" THEN lists.pins ELSE s.pins)
      /\ t.entries = (IF part = "entries" THEN lists.entries ELSE s.entries)
      /\ t.attested = (IF part = "attested" THEN ForNewest(lists) ELSE s.attested)
      /\ t.heads = (IF part = "heads" THEN Len(lists.entries) ELSE s.heads)
  <2>1. /\ "pins" \in PartNames /\ "entries" \in PartNames
        /\ "attested" \in PartNames /\ "heads" \in PartNames
    BY DEF PartNames
  <2>2. t.pins = (IF part = "pins" THEN lists.pins ELSE s.pins)
    BY <1>7, <1>8, <2>1
  <2>3. t.entries = (IF part = "entries" THEN lists.entries ELSE s.entries)
    BY <1>7, <1>8, <2>1
  <2>4. t.attested = (IF part = "attested" THEN ForNewest(lists) ELSE s.attested)
    BY <1>7, <1>8, <2>1
  <2>5. t.heads = (IF part = "heads" THEN Len(lists.entries) ELSE s.heads)
    BY <1>7, <1>8, <2>1
  <2>6. QED
    BY <2>2, <2>3, <2>4, <2>5
<1>10. /\ lists.pins \in Seq(PinRow) /\ lists.entries \in Seq(EntryRow)
       /\ PinsClimb(lists.pins) /\ EntriesAreAttested(lists.entries, lists.attested)
  BY DEF TransparencyInv, TransparencyTypeOK, ListsRow
<1>11. /\ t.pins \in Seq(PinRow) /\ PinsClimb(t.pins)
       /\ t.entries \in Seq(EntryRow) /\ EntriesAreAttested(t.entries, lists.attested)
       /\ t.heads \in Nat
  BY <1>1, <1>9, <1>10
<1>12. TransparencyTypeOK'
  <2>1. /\ issuing'.read \in 0..9 /\ issuing'.disturbed \in BOOLEAN
        /\ issuing' = [read |-> issuing'.read, seen |-> issuing'.seen,
                       disturbed |-> issuing'.disturbed]
    BY <1>1, <1>3, <1>5, <1>6
  <2>2. QED
    BY <1>4, <1>6, <1>7, <1>11, <2>1 DEF TransparencyInv, TransparencyTypeOK
<1>13. SeenIsCurrent'
  <2>1. CASE d
    BY <1>6, <2>1 DEF SeenIsCurrent
  <2>2. CASE ~d
    <3>1. (k >= 3 => s.pins = lists.pins) /\ (k >= 4 => s.attested = ForNewest(lists))
      BY <2>2 DEF TransparencyInv, SeenIsCurrent
    <3>2. k + 1 >= 3 => t.pins = lists.pins
      BY <1>1, <1>3, <1>9, <3>1
    <3>3. k + 1 >= 4 => t.attested = ForNewest(lists)
      BY <1>1, <1>3, <1>9, <3>1
    <3>4. ForNewest(lists)' = ForNewest(lists)
      BY <1>4 DEF ForNewest
    <3>5. QED
      BY <1>4, <1>6, <3>2, <3>3, <3>4 DEF SeenIsCurrent
  <2>3. QED
    BY <1>1, <2>1, <2>2
<1>14. ~Issued'
  BY <1>3, <1>6, PartsAre DEF Issued
<1>15. QED
  BY <1>4, <1>6, <1>11, <1>12, <1>13, <1>14 DEF TransparencyInv, PinsAreBehind

LEMMA IssueKeeps ==
    ASSUME TransparencyInv, IssueProof \/ DeliverProof PROVE TransparencyInv'
<1>1. UNCHANGED <<lists, registrar, publisher>>
  BY DEF IssueProof, DeliverProof
<1>2. PinsAreBehind'
  BY <1>1 DEF TransparencyInv, PinsAreBehind
<1>3. CASE issuing' = NoProof
  <2>1. /\ NothingRead = [part \in PartNames |-> NothingRead[part]]
        /\ NothingRead["pins"] = <<>> /\ NothingRead["entries"] = <<>> /\ NothingRead["heads"] = 0
    <3>1. NothingRead = [part \in PartNames |-> IF part = "heads" THEN 0 ELSE NoLists[part]]
      BY PartsAre DEF NothingRead
    <3>2. NoLists["pins"] = <<>> /\ NoLists["entries"] = <<>>
      BY DEF NoLists
    <3>3. QED
      BY <3>1, <3>2 DEF PartNames
  <2>2. /\ issuing' = [read |-> 0, seen |-> NothingRead, disturbed |-> FALSE]
        /\ issuing'.read = 0 /\ issuing'.seen = NothingRead /\ issuing'.disturbed = FALSE
        /\ DOMAIN issuing' = {"read", "seen", "disturbed"}
    BY <1>3 DEF NoProof
  <2>3. issuing'.seen.pins = <<>> /\ issuing'.seen.entries = <<>> /\ issuing'.seen.heads = 0
    BY <2>1, <2>2
  <2>4. TransparencyTypeOK'
    <3>1. /\ issuing'.seen.pins \in Seq(PinRow) /\ issuing'.seen.entries \in Seq(EntryRow)
          /\ issuing'.seen.heads \in Nat
      BY <2>3
    <3>2. issuing'.seen = [part \in PartNames |-> issuing'.seen[part]]
      BY <2>1, <2>2
    <3>3. issuing' = [read |-> issuing'.read, seen |-> issuing'.seen,
                     disturbed |-> issuing'.disturbed]
          /\ issuing'.read \in 0..9 /\ issuing'.disturbed \in BOOLEAN
      BY <2>2
    <3>4. QED
      BY <1>1, <2>2, <3>1, <3>2, <3>3 DEF TransparencyInv, TransparencyTypeOK
  <2>5. SeenIsCurrent' /\ ~Issued'
    BY <2>2, PartsAre DEF SeenIsCurrent, Issued
  <2>6. PinsClimb(issuing'.seen.pins) /\ EntriesAreAttested(issuing'.seen.entries, lists.attested)
    BY <2>3 DEF PinsClimb, EntriesAreAttested
  <2>7. QED
    BY <1>1, <1>2, <2>4, <2>5, <2>6 DEF TransparencyInv
<1>4. CASE issuing.read = 8 /\ Agrees(issuing.seen)
           /\ issuing' = [issuing EXCEPT !.read = issuing.read + 1]
  <2>. PICK s, d : s = issuing.seen /\ d = issuing.disturbed
    OBVIOUS
  <2>1. issuing = [read |-> 8, seen |-> s, disturbed |-> d]
    BY <1>4 DEF TransparencyInv, TransparencyTypeOK
  <2>2. issuing' = [issuing EXCEPT !.read = 9]
    BY <1>4
  <2>3. issuing' = [read |-> 9, seen |-> s, disturbed |-> d]
    BY ONLY <2>1, <2>2
  <2>4. /\ issuing'.read = 9 /\ issuing'.seen = issuing.seen
        /\ issuing'.disturbed = issuing.disturbed
        /\ DOMAIN issuing' = {"read", "seen", "disturbed"}
        /\ issuing' = [read |-> issuing'.read, seen |-> issuing'.seen,
                       disturbed |-> issuing'.disturbed]
    BY <2>3
  <2>5. TransparencyTypeOK'
    BY <1>1, <2>4 DEF TransparencyInv, TransparencyTypeOK
  <2>6. SeenIsCurrent'
    BY <1>1, <1>4, <2>4 DEF TransparencyInv, SeenIsCurrent, ForNewest
  <2>7. PinAgrees(issuing'.seen) /\ LogAgrees(issuing'.seen)
    BY <1>4, <2>4 DEF Agrees
  <2>8. QED
    BY <1>1, <1>2, <2>4, <2>5, <2>6, <2>7 DEF TransparencyInv
<1>5. QED
  BY <1>3, <1>4, PartsAre DEF IssueProof, DeliverProof

LEMMA TransparencyStep ==
    TransparencyInv /\ [TransparencyNext]_transparencyVars => TransparencyInv'
<1> SUFFICES ASSUME TransparencyInv, [TransparencyNext]_transparencyVars PROVE TransparencyInv'
  OBVIOUS
<1>1. CASE UNCHANGED transparencyVars
  BY <1>1 DEF transparencyVars, TransparencyInv, TransparencyTypeOK, PinsAreBehind,
              SeenIsCurrent, ForNewest, Issued
<1>2. CASE PublishNext
  <2>1. ASSUME NEW p \in Registrars, ReadTransitions(p) \/ ReadRevocations(p) \/ PinRegistry(p)
        PROVE  TransparencyInv'
    BY <2>1, RegistrarReads, PinRegistryKeeps
  <2>2. ASSUME NEW n, NEW w \in Witnesses, Attest(w, n) PROVE TransparencyInv'
    BY <2>2, AttestKeeps
  <2>3. QED
    BY <1>2, <2>1, <2>2, PublisherReads, LogKeeps DEF PublishNext
<1>3. QED
  BY <1>1, <1>2, KeysKeep, ReadPartKeeps, IssueKeeps DEF TransparencyNext

\* For any number of keys, checkpoints and processes that pin the registry: a
\* proof shows at least the changes of keys its earlier checkpoints pinned.
THEOREM ProofsAreFresh == TransparencySpec => []ProofIsFresh
<1>1. TransparencyInv => ProofIsFresh
  <2> SUFFICES ASSUME TransparencyInv, Issued, issuing.seen.pins # <<>>,
                      ~LastOf(issuing.seen.pins).raced, NEW i \in 1..Len(issuing.seen.pins)
               PROVE  /\ issuing.seen.pins[i].transitions <= issuing.seen.transitions
                      /\ issuing.seen.pins[i].revocations <= issuing.seen.revocations
    BY DEF ProofIsFresh
  <2>. PICK pins, n : pins = issuing.seen.pins /\ n = Len(pins)
    OBVIOUS
  <2>1. pins \in Seq(PinRow) /\ PinsClimb(pins) /\ PinAgrees(issuing.seen)
    BY DEF TransparencyInv, TransparencyTypeOK
  <2>2. n \in 1..n /\ i \in 1..n /\ i <= n /\ LastOf(pins) = pins[n]
    BY <2>1 DEF LastOf
  <2>3. PinUpto(pins[i], pins[n].transitions, pins[n].revocations)
    BY <2>1, <2>2 DEF PinsClimb
  <2>4. /\ pins[n].transitions = issuing.seen.transitions
        /\ pins[n].revocations = issuing.seen.revocations
    BY <2>1, <2>2 DEF PinAgrees
  <2>5. QED
    BY <2>3, <2>4 DEF PinUpto
<1>2. QED
  BY StartIsOK, TransparencyStep, <1>1, PTL DEF TransparencySpec

\* For any number of witnesses, checkpoints and entries: a proof that nothing
\* disturbed carries the witnesses its log counts for its newest checkpoint.
THEOREM ProofsAreWitnessed == TransparencySpec => []ProofIsWitnessed
<1>1. TransparencyInv => ProofIsWitnessed
  <2> SUFFICES ASSUME TransparencyInv, Issued, issuing.seen.entries # <<>>, ~issuing.disturbed,
                      LastOf(issuing.seen.entries).checkpoint = Len(issuing.seen.pins)
               PROVE  LET last == LastOf(issuing.seen.entries)
                      IN  issuing.seen.attested = {<<w, last.checkpoint>> : w \in last.witnesses}
    BY DEF ProofIsWitnessed
  <2>. PICK s, entries, last, n, all :
          /\ s = issuing.seen /\ entries = s.entries /\ last = LastOf(entries)
          /\ n = last.checkpoint /\ all = s.attested
    OBVIOUS
  <2>1. /\ entries \in Seq(EntryRow) /\ EntriesAreAttested(entries, lists.attested)
        /\ LogAgrees(s) /\ s.pins = lists.pins /\ all = ForNewest(lists)
        /\ lists.attested \in SUBSET (Witnesses \X Nat) /\ s.heads \in Nat
    <3>1. issuing.read \in 0..9 /\ issuing.read > 8
      BY PartsAre DEF TransparencyInv, TransparencyTypeOK, Issued
    <3>2. s.pins = lists.pins /\ all = ForNewest(lists)
      BY <3>1 DEF TransparencyInv, SeenIsCurrent
    <3>3. QED
      BY <3>2 DEF TransparencyInv, TransparencyTypeOK, ListsRow
  <2>2. Len(entries) \in 1..Len(entries) /\ last = entries[Len(entries)] /\ last \in EntryRow
    BY <2>1 DEF LastOf
  <2>3. last.witnesses # {} /\ \A w \in last.witnesses : <<w, n>> \in lists.attested
    BY <2>1, <2>2 DEF EntriesAreAttested, EntryIsAttested
  <2>4. all = {w \in lists.attested : w[2] = n}
    BY <2>1 DEF ForNewest
  <2>5. \A w \in last.witnesses : <<w, n>> \in all
    BY <2>3, <2>4
  <2>6. all # {}
    BY <2>3, <2>5
  <2>7. {w \in Witnesses : <<w, n>> \in all} = last.witnesses
    <3>1. Len(s.entries) + s.heads > 0
      BY <2>1, <2>2
    <3>2. s.attested # {} => {w \in Witnesses : <<w, LastOf(s.entries).checkpoint>> \in s.attested}
                               = LastOf(s.entries).witnesses
      BY ONLY <2>1, <3>1 DEF LogAgrees
    <3>3. QED
      BY <2>6, <3>2
  <2>8. \A a \in all : a[1] \in Witnesses /\ a = <<a[1], n>>
    BY <2>1, <2>4
  <2>9. QED
    BY <2>5, <2>7, <2>8
<1>2. QED
  BY StartIsOK, TransparencyStep, <1>1, PTL DEF TransparencySpec

USE LedgerAssumption DEF LedgerAssumption

-----------------------------------------------------------------------------
(* The ledger of acceptances.  An id is given once; the receipts that were  *)
(* not lost are where they were published; what a checkpoint vouches for is *)
(* fixed by the id of its last receipt, as each receipt names the one       *)
(* before it.  "files" are the receipts, "w" is the number of them ever     *)
(* written, "gone" are the ids that were lost.                              *)

LedgerCommands == Acceptors \cup Checkpointers
LedgerStages == {"idle", "verified", "temporary", "linked", "published"}

ReceiptsOK(files, w, gone) ==
    /\ w \in Nat /\ IsFiniteSet(DOMAIN files) /\ DOMAIN files \subseteq Nat \ {0}
    /\ \A n \in DOMAIN files : files[n].id \in 1..w /\ files[n].id \notin gone
    /\ \A m, n \in DOMAIN files : files[m].id = files[n].id => m = n
    /\ gone \subseteq 1..w

AcceptorOK(r, files, w, gone) ==
    /\ r.at \in LedgerStages
    /\ r.at # "idle" => r.number \in Nat \ {0}
    /\ r.at \in {"linked", "published"} =>
          /\ r.file.id \in 1..w
          /\ r.file.id \notin gone => r.number \in DOMAIN files /\ files[r.number] = r.file

\* What a checkpoint says of the receipt before a receipt, the ledger says.
Vouches(f, files, w) ==
    /\ f.count \in Nat \ {0} /\ DOMAIN f.chain = 1..f.count
    /\ \A m \in 1..f.count : f.chain[m] \in 1..w
    /\ f.head = f.chain[f.count]
    /\ \A n \in DOMAIN files : \A m \in 1..f.count :
          files[n].id = f.chain[m] => files[n].previous = IF m = 1 THEN 0 ELSE f.chain[m - 1]

CheckpointerOK(r, files, w) ==
    r.at \in LedgerStages /\ (r.at # "idle" => Vouches(r.file, files, w))

SeriesOK(files, w) ==
    /\ \E S : series \in Seq(S)
    /\ \A i \in 1..Len(series) : Vouches(series[i], files, w)

\* The receipt of an acceptance, and what it was verified against, stay.
Stands(s, files) ==
    \E n \in DOMAIN files :
        /\ files[n] = s.file /\ DOMAIN s.floor \subseteq 1..n
        /\ \A m \in DOMAIN s.floor : m \in DOMAIN files /\ files[m].id = s.floor[m]

ConfirmedOK(files, w, gone) ==
    \A s \in confirmed : s.file.id \in 1..w /\ (s.file.id \notin gone => Stands(s, files))

LedgerInv ==
    /\ command = [c \in LedgerCommands |-> command[c]]
    /\ ReceiptsOK(receipts, written, lost) /\ SeriesOK(receipts, written)
    /\ ConfirmedOK(receipts, written, lost) /\ AcceptedOnce
    /\ \A a \in Acceptors : AcceptorOK(command[a], receipts, written, lost)
    /\ \A c \in Checkpointers : CheckpointerOK(command[c], receipts, written)

-----------------------------------------------------------------------------

\* A receipt names the one before it, so that the head of a checkpoint fixes
\* all that it vouches for.
LEMMA FloorIsThere ==
    ASSUME NEW files, NEW w, NEW gone, ReceiptsOK(files, w, gone), ChainHolds(files),
           NEW f, Vouches(f, files, w), f.count \in DOMAIN files, files[f.count].id = f.head
    PROVE  \A m \in 1..f.count : m \in DOMAIN files /\ files[m].id = f.chain[m]
<1>. PICK count, chain : count \in Nat \ {0} /\ count = f.count /\ chain = f.chain
  BY DEF Vouches
<1>. DEFINE k == Cardinality(DOMAIN files)
<1>1. k \in Nat /\ DOMAIN files = 1..k
  BY FS_CardinalityType DEF ReceiptsOK, ChainHolds
<1> HIDE DEF k
<1>2. count <= k /\ files[count].id = chain[count]
  BY <1>1 DEF Vouches
<1>. DEFINE Wrong == {m \in 1..count : files[m].id # chain[m]}
<1>3. ASSUME Wrong # {} PROVE FALSE
  <2>1. Wrong \in SUBSET Nat /\ \A x \in Wrong : x <= count
    OBVIOUS
  <2>2. PICK m \in Wrong : \A y \in Wrong : y <= m
    BY <1>3, <2>1, GreatestNumber
  <2>3. m \in 1..count /\ files[m].id # chain[m] /\ m # count
    BY <1>2, <2>2
  <2>4. m + 1 \in 1..count /\ m + 1 \notin Wrong
    BY <2>2, <2>3
  <2>5. files[m + 1].id = chain[m + 1]
    BY <2>4
  <2>6. m + 1 \in DOMAIN files
    BY <1>1, <1>2, <2>4
  <2>7. files[m + 1].previous = chain[m]
    BY <2>3, <2>4, <2>5, <2>6 DEF Vouches
  <2>8. files[m + 1].previous = files[m].id
    BY <2>3, <2>6 DEF ChainHolds, PreviousId
  <2>9. QED
    BY <2>3, <2>7, <2>8
<1>4. QED
  BY <1>1, <1>2, <1>3

\* Steps of one command that publish and confirm nothing.
LEMMA CommandKeeps ==
    ASSUME LedgerInv, NEW c \in LedgerCommands, NEW r, Becomes(c, r),
           UNCHANGED <<receipts, series, written, confirmed, lost>>,
           c \in Acceptors => AcceptorOK(r, receipts, written, lost),
           c \in Checkpointers => CheckpointerOK(r, receipts, written)
    PROVE  LedgerInv'
<1>1. /\ command'[c] = r /\ \A d \in LedgerCommands \ {c} : command'[d] = command[d]
      /\ command' = [d \in LedgerCommands |-> command'[d]]
  BY DEF Becomes, LedgerInv
<1>2. ASSUME NEW a \in Acceptors PROVE AcceptorOK(command'[a], receipts, written, lost)
  BY <1>1 DEF LedgerInv, LedgerCommands
<1>3. ASSUME NEW d \in Checkpointers PROVE CheckpointerOK(command'[d], receipts, written)
  BY <1>1 DEF LedgerInv, LedgerCommands
<1>4. AcceptedOnce' /\ ConfirmedOK(receipts, written, lost)' /\ SeriesOK(receipts, written)'
      /\ ReceiptsOK(receipts, written, lost)'
  BY DEF LedgerInv, AcceptedOnce, ConfirmedOK, SeriesOK
<1>5. QED
  BY <1>1, <1>2, <1>3, <1>4 DEF LedgerInv

LEMMA RestingIsOK ==
    ASSUME NEW files, NEW w, NEW gone
    PROVE  AcceptorOK(Resting, files, w, gone) /\ CheckpointerOK(Resting, files, w)
  BY DEF Resting, AcceptorOK, CheckpointerOK, LedgerStages

LEMMA AcceptKeeps ==
    ASSUME LedgerInv, NEW a \in Acceptors, NEW request, NEW guarded, AcceptResponse(a, request, guarded)
    PROVE  LedgerInv'
<1>. PICK n, f : n = Cardinality(DOMAIN receipts) + 1
               /\ f = [id |-> 0, request |-> request, previous |-> PreviousId(receipts, n)]
  OBVIOUS
<1>. DEFINE r == [at |-> "verified", dir |-> "receipts", guarded |-> guarded, number |-> n, file |-> f]
<1>1. Becomes(a, r)
  BY DEF AcceptResponse
<1>2. n \in Nat \ {0}
  BY FS_CardinalityType DEF LedgerInv, ReceiptsOK
<1>3. AcceptorOK(r, receipts, written, lost)
  BY <1>2 DEF AcceptorOK, LedgerStages
<1> HIDE DEF r
<1>4. QED
  BY <1>1, <1>3, CommandKeeps DEF AcceptResponse, LedgerCommands

\* From one stage of a command to the next.
LEMMA StageKeeps ==
    ASSUME LedgerInv, NEW c \in LedgerCommands, WriteTemporary(c) \/ RemoveTemporary(c)
    PROVE  LedgerInv'
<1>. PICK r : r = command[c]
  OBVIOUS
<1>1. CASE WriteTemporary(c)
  <2>. DEFINE x == [r EXCEPT !.at = "temporary"]
  <2>1. Becomes(c, x) /\ r.at = "verified"
    BY <1>1 DEF WriteTemporary
  <2>2. c \in Acceptors => AcceptorOK(x, receipts, written, lost)
    BY <2>1 DEF AcceptorOK, LedgerStages, LedgerInv
  <2>3. c \in Checkpointers => CheckpointerOK(x, receipts, written)
    BY <2>1 DEF CheckpointerOK, LedgerStages, LedgerInv
  <2> HIDE DEF x
  <2>4. QED
    BY <1>1, <2>1, <2>2, <2>3, CommandKeeps DEF WriteTemporary
<1>2. CASE RemoveTemporary(c)
  <2>. DEFINE x == [r EXCEPT !.at = "published"]
  <2>1. Becomes(c, x) /\ r.at = "linked"
    BY <1>2 DEF RemoveTemporary
  <2>2. c \in Acceptors => AcceptorOK(x, receipts, written, lost)
    BY <2>1 DEF AcceptorOK, LedgerStages, LedgerInv
  <2>3. c \in Checkpointers => CheckpointerOK(x, receipts, written)
    BY <2>1 DEF CheckpointerOK, LedgerStages, LedgerInv
  <2> HIDE DEF x
  <2>4. QED
    BY <1>2, <2>1, <2>2, <2>3, CommandKeeps DEF RemoveTemporary
<1>3. QED
  BY <1>1, <1>2

\* A checkpoint is taken of a ledger whose chain holds.
LEMMA AppendKeeps ==
    ASSUME LedgerInv, NEW c \in Checkpointers, AppendCheckpoint(c)
    PROVE  LedgerInv'
<1>. PICK count, before : count = Cardinality(DOMAIN receipts)
        /\ before = (IF series = <<>> THEN [count |-> 0, id |-> <<>>] ELSE Last(series))
  OBVIOUS
<1>. DEFINE f == [count |-> count, head |-> receipts[count].id, previous |-> before.id,
                  chain |-> [n \in 1..count |-> receipts[n].id],
                  id |-> Append(before.id, receipts[count].id)]
            r == [at |-> "verified", dir |-> "checkpoints", number |-> Len(series) + 1, file |-> f]
<1>1. Becomes(c, r) /\ count > before.count
  BY DEF AppendCheckpoint
<1>2. count \in Nat /\ DOMAIN receipts = 1..count /\ ChainHolds(receipts)
  BY FS_CardinalityType DEF AppendCheckpoint, LedgerVerifies, ChainHolds, LedgerInv, ReceiptsOK
<1>3. before.count \in Nat
  BY DEF LedgerInv, SeriesOK, Vouches, Last
<1>4. count \in Nat \ {0}
  BY <1>1, <1>2, <1>3
<1>5. \A m, n \in 1..count : receipts[n].id = receipts[m].id =>
          receipts[n].previous = IF m = 1 THEN 0 ELSE receipts[m - 1].id
  BY <1>2 DEF LedgerInv, ReceiptsOK, ChainHolds, PreviousId
<1>6. Vouches(f, receipts, written)
  <2>1. \A m \in 1..count : receipts[m].id \in 1..written
    BY <1>2 DEF LedgerInv, ReceiptsOK
  <2>2. \A m \in 1..count : m # 1 => m - 1 \in 1..count
    BY <1>2
  <2>3. /\ f.count = count /\ DOMAIN f.chain = 1..count /\ f.head = receipts[count].id
        /\ \A m \in 1..count : f.chain[m] = receipts[m].id
    OBVIOUS
  <2> HIDE DEF f
  <2>4. ASSUME NEW n \in DOMAIN receipts, NEW m \in 1..count, receipts[n].id = f.chain[m]
        PROVE  receipts[n].previous = IF m = 1 THEN 0 ELSE f.chain[m - 1]
    <3>1. receipts[n].previous = IF m = 1 THEN 0 ELSE receipts[m - 1].id
      BY <1>2, <1>5, <2>3, <2>4
    <3>2. QED
      BY <2>2, <2>3, <3>1
  <2>5. QED
    BY <1>4, <2>1, <2>3, <2>4 DEF Vouches
<1> HIDE DEF f
<1>7. CheckpointerOK(r, receipts, written)
  BY <1>6 DEF CheckpointerOK, LedgerStages
<1> HIDE DEF r
<1>8. QED
  BY <1>1, <1>7, CommandKeeps DEF AppendCheckpoint, LedgerCommands

\* A receipt is published under a number that is not taken, with a new id.
LEMMA LinkKeepsIds ==
    ASSUME LedgerInv, NEW n \in Nat \ {0}, n \notin DOMAIN receipts, NEW file, file.id = written + 1,
           NEW files, files = [m \in DOMAIN receipts \cup {n} |-> IF m = n THEN file ELSE receipts[m]]
    PROVE  /\ ReceiptsOK(files, written + 1, lost)
           /\ \A f : Vouches(f, receipts, written) => Vouches(f, files, written + 1)
           /\ \A s : Stands(s, receipts) => Stands(s, files)
           /\ \A r : AcceptorOK(r, receipts, written, lost) => AcceptorOK(r, files, written + 1, lost)
<1>1. /\ written \in Nat /\ IsFiniteSet(DOMAIN receipts) /\ DOMAIN receipts \subseteq Nat \ {0}
      /\ \A m \in DOMAIN receipts : receipts[m].id \in 1..written /\ receipts[m].id \notin lost
      /\ \A l, m \in DOMAIN receipts : receipts[l].id = receipts[m].id => l = m
      /\ lost \subseteq 1..written
  BY DEF LedgerInv, ReceiptsOK
<1>2. /\ DOMAIN files = DOMAIN receipts \cup {n} /\ files[n] = file
      /\ \A m \in DOMAIN receipts : files[m] = receipts[m]
  OBVIOUS
<1>3. IsFiniteSet(DOMAIN files)
  BY <1>1, <1>2, FS_AddElement
<1>4. ReceiptsOK(files, written + 1, lost)
  BY <1>1, <1>2, <1>3 DEF ReceiptsOK
<1>5. ASSUME NEW f, Vouches(f, receipts, written) PROVE Vouches(f, files, written + 1)
  BY <1>1, <1>2, <1>5 DEF Vouches
<1>6. ASSUME NEW s, Stands(s, receipts) PROVE Stands(s, files)
  BY <1>2, <1>6 DEF Stands
<1>7. ASSUME NEW r, AcceptorOK(r, receipts, written, lost) PROVE AcceptorOK(r, files, written + 1, lost)
  BY <1>1, <1>2, <1>7 DEF AcceptorOK
<1>8. QED
  BY <1>4, <1>5, <1>6, <1>7

LEMMA LinkReceiptKeeps ==
    ASSUME LedgerInv, NEW a \in Acceptors, LinkReceipt(a)
    PROVE  LedgerInv'
<1>. PICK n, file : n = command[a].number /\ file = [command[a].file EXCEPT !.id = written + 1]
  OBVIOUS
<1>1. n \in Nat \ {0} /\ a \in LedgerCommands /\ a \notin Checkpointers
  BY DEF LedgerInv, AcceptorOK, LinkReceipt, LedgerCommands
<1>2. CASE Becomes(a, Resting) /\ UNCHANGED <<receipts, written>>
  BY <1>1, <1>2, RestingIsOK, CommandKeeps DEF LinkReceipt
<1>3. CASE /\ n \notin DOMAIN receipts
           /\ receipts' = [m \in DOMAIN receipts \cup {n} |-> IF m = n THEN file ELSE receipts[m]]
           /\ written' = written + 1
           /\ Becomes(a, [command[a] EXCEPT !.at = "linked", !.file = file])
  <2>. PICK r : r = [command[a] EXCEPT !.at = "linked", !.file = file]
    OBVIOUS
  <2>1. /\ r.at = "linked" /\ r.file = file /\ r.number = n /\ file.id = written + 1
        /\ UNCHANGED <<series, confirmed, lost>>
    BY DEF LinkReceipt
  <2>2. /\ ReceiptsOK(receipts', written', lost)
        /\ \A f : Vouches(f, receipts, written) => Vouches(f, receipts', written')
        /\ \A s : Stands(s, receipts) => Stands(s, receipts')
        /\ \A x : AcceptorOK(x, receipts, written, lost) => AcceptorOK(x, receipts', written', lost)
    BY <1>1, <1>3, <2>1, LinkKeepsIds, ZenonT(40)
  <2>3. AcceptorOK(r, receipts', written', lost)
    <3>1. n \in DOMAIN receipts' /\ receipts'[n] = file
      BY <1>3
    <3>2. file.id \in 1..written'
      BY <1>3, <2>1 DEF LedgerInv, ReceiptsOK
    <3>3. QED
      BY <1>1, <2>1, <3>1, <3>2 DEF AcceptorOK, LedgerStages
  <2>4. /\ command'[a] = r /\ \A d \in LedgerCommands \ {a} : command'[d] = command[d]
        /\ command' = [d \in LedgerCommands |-> command'[d]]
    BY <1>1, <1>3 DEF Becomes, LedgerInv
  <2>5. ASSUME NEW b \in Acceptors PROVE AcceptorOK(command'[b], receipts', written', lost)
    BY <2>2, <2>3, <2>4 DEF LedgerInv, LedgerCommands
  <2>6. ASSUME NEW d \in Checkpointers PROVE CheckpointerOK(command'[d], receipts', written')
    BY <1>1, <2>2, <2>4 DEF LedgerInv, LedgerCommands, CheckpointerOK
  <2>7. (\E S : series \in Seq(S))' /\ \A i \in 1..Len(series') : Vouches(series'[i], receipts', written')
    BY <2>1, <2>2 DEF LedgerInv, SeriesOK
  <2>8. ASSUME NEW s \in confirmed'
        PROVE  s.file.id \in 1..written' /\ (s.file.id \notin lost => Stands(s, receipts'))
    <3>1. s \in confirmed /\ written \in Nat /\ written' = written + 1
      BY <1>3, <2>1 DEF LedgerInv, ReceiptsOK
    <3>2. s.file.id \in 1..written /\ (s.file.id \notin lost => Stands(s, receipts))
      BY <3>1 DEF LedgerInv, ConfirmedOK
    <3>3. QED
      BY <2>2, <3>1, <3>2
  <2>9. AcceptedOnce'
    BY <2>1 DEF LedgerInv, AcceptedOnce
  <2>10. QED
    BY <2>1, <2>2, <2>4, <2>5, <2>6, <2>7, <2>8, <2>9 DEF LedgerInv, SeriesOK, ConfirmedOK
<1>4. QED
  BY <1>2, <1>3 DEF LinkReceipt

LEMMA LinkCheckpointKeeps ==
    ASSUME LedgerInv, NEW c \in Checkpointers, LinkCheckpoint(c)
    PROVE  LedgerInv'
<1>. PICK r, f : r = command[c] /\ f = r.file
  OBVIOUS
<1>1. /\ r.at = "temporary" /\ Vouches(f, receipts, written) /\ c \in LedgerCommands
      /\ c \notin Acceptors
  BY DEF LedgerInv, CheckpointerOK, LinkCheckpoint, LedgerCommands
<1>2. CASE Becomes(c, Resting) /\ UNCHANGED series
  BY <1>1, <1>2, RestingIsOK, CommandKeeps DEF LinkCheckpoint
<1>3. CASE /\ series' = Append(series, f)
           /\ Becomes(c, [r EXCEPT !.at = "linked"])
  <2>. PICK x : x = [r EXCEPT !.at = "linked"]
    OBVIOUS
  <2>1. CheckpointerOK(x, receipts, written)
    BY <1>1 DEF CheckpointerOK, LedgerStages
  <2>2. PICK S : series \in Seq(S)
    BY DEF LedgerInv, SeriesOK
  <2>3. series \in Seq(S \cup {f})
    BY <2>2
  <2>4. series' \in Seq(S \cup {f}) /\ \A i \in 1..Len(series') : Vouches(series'[i], receipts, written)
    BY <1>1, <1>3, <2>3 DEF LedgerInv, SeriesOK
  <2>5. /\ command'[c] = x /\ \A d \in LedgerCommands \ {c} : command'[d] = command[d]
        /\ command' = [d \in LedgerCommands |-> command'[d]]
    BY <1>1, <1>3 DEF Becomes, LedgerInv
  <2>6. UNCHANGED <<receipts, written, confirmed, lost>>
    BY DEF LinkCheckpoint
  <2>7. ASSUME NEW a \in Acceptors PROVE AcceptorOK(command'[a], receipts', written', lost')
    BY <1>1, <2>5, <2>6 DEF LedgerInv, LedgerCommands
  <2>8. ASSUME NEW d \in Checkpointers PROVE CheckpointerOK(command'[d], receipts', written')
    BY <2>1, <2>5, <2>6 DEF LedgerInv, LedgerCommands
  <2>9. SeriesOK(receipts, written)'
    BY <2>4, <2>6 DEF SeriesOK
  <2>10. AcceptedOnce' /\ ConfirmedOK(receipts, written, lost)' /\ ReceiptsOK(receipts, written, lost)'
    BY <2>6 DEF LedgerInv, AcceptedOnce, ConfirmedOK
  <2>11. QED
    BY <2>5, <2>7, <2>8, <2>9, <2>10 DEF LedgerInv
<1>4. QED
  BY <1>2, <1>3 DEF LinkCheckpoint

\* What an acceptance was verified against, and that no other receipt of its
\* request is in the ledger.
LEMMA NewStands ==
    ASSUME LedgerInv, LedgerVerifies, NEW file, NEW n, n = Cardinality(DOMAIN receipts),
           n \in DOMAIN receipts, receipts[n] = file,
           NEW floor, floor = <<>> \/ (series # <<>> /\ ReachesFloor /\ floor = Last(series).chain)
    PROVE  Stands([file |-> file, floor |-> floor], receipts)
<1>1. n \in Nat /\ DOMAIN receipts = 1..n /\ ChainHolds(receipts)
  BY FS_CardinalityType DEF LedgerVerifies, ChainHolds, LedgerInv, ReceiptsOK
<1>2. DOMAIN floor \subseteq 1..n /\ \A m \in DOMAIN floor : receipts[m].id = floor[m]
  <2>1. CASE floor = <<>>
    BY <2>1
  <2>2. CASE series # <<>> /\ ReachesFloor /\ floor = Last(series).chain
    <3>. PICK f : f = Last(series)
      OBVIOUS
    <3>1. f = series[Len(series)] /\ Len(series) \in 1..Len(series)
      BY <2>2 DEF LedgerInv, SeriesOK, Last
    <3>2. Vouches(f, receipts, written) /\ f.count \in DOMAIN receipts /\ receipts[f.count].id = f.head
      BY <2>2, <3>1 DEF LedgerInv, SeriesOK, ReachesFloor
    <3>3. \A m \in 1..f.count : m \in DOMAIN receipts /\ receipts[m].id = f.chain[m]
      <4>1. ReceiptsOK(receipts, written, lost)
        BY DEF LedgerInv
      <4>2. QED
        BY ONLY <1>1, <3>2, <4>1, FloorIsThere
    <3>4. QED
      BY <1>1, <2>2, <3>2, <3>3 DEF Vouches
  <2>3. QED
    BY <2>1, <2>2
<1>3. QED
  BY <1>1, <1>2 DEF Stands

\* A confirmed receipt that was not lost has no other of its request beside it,
\* and is not vouched for where another one was confirmed.
LEMMA ConfirmedApart ==
    ASSUME LedgerInv, LedgerVerifies, NEW r, NEW s,
           r.file.id \in 1..written, s.file.id \in 1..written,
           r.file.id \notin lost => Stands(r, receipts), s.file.id \notin lost, Stands(s, receipts),
           r.file.request = s.file.request, r.file.id # s.file.id
    PROVE  r.file.id \in lost /\ r.file.id \notin Range(s.floor)
<1>1. PICK n \in DOMAIN receipts : receipts[n] = s.file
         /\ \A m \in DOMAIN s.floor : m \in DOMAIN receipts /\ receipts[m].id = s.floor[m]
  BY DEF Stands
<1>2. ASSUME r.file.id \notin lost PROVE FALSE
  <2>1. PICK m \in DOMAIN receipts : receipts[m] = r.file
    BY <1>2 DEF Stands
  <2>2. m = n
    BY <1>1, <2>1 DEF LedgerVerifies
  <2>3. QED
    BY <1>1, <2>1, <2>2
<1>3. ASSUME r.file.id \in Range(s.floor) PROVE FALSE
  <2>1. PICK m \in DOMAIN s.floor : r.file.id = s.floor[m]
    BY <1>3 DEF Range
  <2>2. m \in DOMAIN receipts /\ receipts[m].id = r.file.id
    BY <1>1, <2>1
  <2>3. QED
    BY <1>2, <2>2 DEF LedgerInv, ReceiptsOK
<1>4. QED
  BY <1>2, <1>3

LEMMA ConfirmKeeps ==
    ASSUME LedgerInv, NEW a \in Acceptors, ConfirmAcceptance(a)
    PROVE  LedgerInv'
<1>. PICK r : r = command[a]
  OBVIOUS
<1>. PICK x : x = [file |-> r.file, floor |-> IF r.guarded THEN Last(series).chain ELSE <<>>]
  OBVIOUS
<1>1. /\ r.at = "published" /\ Becomes(a, Resting) /\ a \in LedgerCommands
      /\ UNCHANGED <<receipts, series, written, lost>>
      /\ \/ confirmed' = confirmed
         \/ /\ confirmed' = confirmed \cup {x} /\ LedgerAgrees(r.guarded)
            /\ Cardinality(DOMAIN receipts) = r.number
  BY DEF ConfirmAcceptance, LedgerCommands
<1>2. CASE confirmed' = confirmed
  BY <1>1, <1>2, RestingIsOK, CommandKeeps
<1>3. CASE /\ confirmed' = confirmed \cup {x} /\ LedgerAgrees(r.guarded)
           /\ Cardinality(DOMAIN receipts) = r.number
  <2>1. LedgerVerifies /\ x.file = r.file
    BY <1>3 DEF LedgerAgrees
  <2>2. x.file.id \in 1..written /\ (x.file.id \notin lost => Stands(x, receipts))
    <3>1. AcceptorOK(r, receipts, written, lost)
      BY DEF LedgerInv
    <3>2. r.file.id \in 1..written
      BY <1>1, <3>1 DEF AcceptorOK
    <3>3. ASSUME r.file.id \notin lost PROVE Stands(x, receipts)
      <4>1. r.number \in DOMAIN receipts /\ receipts[r.number] = r.file
        BY <1>1, <3>1, <3>3 DEF AcceptorOK
      <4>2. x.floor = <<>> \/ (series # <<>> /\ ReachesFloor /\ x.floor = Last(series).chain)
        <5>1. CASE r.guarded
          <6>1. series # <<>> /\ ReachesFloor
            BY <1>3, <5>1 DEF LedgerAgrees
          <6>2. x.floor = Last(series).chain
            BY <5>1
          <6>3. QED
            BY <6>1, <6>2
        <5>2. CASE ~ r.guarded
          <6>1. x.floor = <<>>
            BY <5>2
          <6>2. QED
            BY <6>1
        <5>3. QED
          BY <5>1, <5>2
      <4>3. Stands([file |-> r.file, floor |-> x.floor], receipts)
        BY <1>3, <2>1, <4>1, <4>2, NewStands
      <4>4. x = [file |-> r.file, floor |-> x.floor]
        OBVIOUS
      <4>5. QED
        BY <4>3, <4>4
    <3>4. QED
      BY <2>1, <3>2, <3>3
  <2>3. \A s \in confirmed' : s.file.id \in 1..written /\ (s.file.id \notin lost => Stands(s, receipts))
    BY <1>3, <2>2 DEF LedgerInv, ConfirmedOK
  <2>4. AcceptedOnce'
    <3> SUFFICES ASSUME NEW s \in confirmed', NEW t \in confirmed',
                        s.file.request = t.file.request, s.file.id # t.file.id, t.file.id \notin lost
                 PROVE  s.file.id \in lost /\ s.file.id \notin Range(t.floor)
      BY <1>1 DEF AcceptedOnce
    <3>1. QED
      BY <2>1, <2>3, ConfirmedApart
  <2>5. /\ command'[a] = Resting /\ \A d \in LedgerCommands \ {a} : command'[d] = command[d]
        /\ command' = [d \in LedgerCommands |-> command'[d]]
    BY <1>1 DEF Becomes, LedgerInv
  <2>6. ASSUME NEW b \in Acceptors PROVE AcceptorOK(command'[b], receipts', written', lost')
    BY <1>1, <2>5, RestingIsOK DEF LedgerInv, LedgerCommands
  <2>7. ASSUME NEW d \in Checkpointers PROVE CheckpointerOK(command'[d], receipts', written')
    BY <1>1, <2>5, RestingIsOK DEF LedgerInv, LedgerCommands
  <2>8. SeriesOK(receipts, written)' /\ ReceiptsOK(receipts, written, lost)'
    BY <1>1 DEF LedgerInv, SeriesOK
  <2>9. ConfirmedOK(receipts, written, lost)'
    BY <1>1, <2>3 DEF ConfirmedOK
  <2>10. QED
    BY <2>4, <2>5, <2>6, <2>7, <2>8, <2>9 DEF LedgerInv
<1>4. QED
  BY <1>1, <1>2, <1>3

\* The ledger comes back without its newest receipts.
LEMMA RollBackKeeps ==
    ASSUME LedgerInv, RollBack
    PROVE  LedgerInv'
<1>1. PICK n \in DOMAIN receipts :
          /\ receipts' = [m \in {k \in DOMAIN receipts : k < n} |-> receipts[m]]
          /\ lost' = lost \cup {receipts[k].id : k \in {j \in DOMAIN receipts : j >= n}}
  BY DEF RollBack
<1>2. UNCHANGED <<series, command, written, confirmed>>
  BY DEF RollBack
<1>3. /\ DOMAIN receipts' = {k \in DOMAIN receipts : k < n}
      /\ \A m \in DOMAIN receipts' : receipts'[m] = receipts[m]
  BY <1>1
<1>4. n \in Nat /\ \A m \in DOMAIN receipts : m \in Nat
  BY DEF LedgerInv, ReceiptsOK
<1>5. ASSUME NEW m \in DOMAIN receipts
      PROVE  IF m < n THEN m \in DOMAIN receipts' /\ receipts[m].id \notin lost'
             ELSE receipts[m].id \in lost'
  BY <1>1, <1>3, <1>4 DEF LedgerInv, ReceiptsOK
<1>6. ReceiptsOK(receipts', written, lost')
  <2>1. IsFiniteSet(DOMAIN receipts')
    BY <1>3, FS_Subset DEF LedgerInv, ReceiptsOK
  <2>2. lost' \subseteq 1..written
    BY <1>1 DEF LedgerInv, ReceiptsOK
  <2>3. QED
    BY <1>3, <1>5, <2>1, <2>2 DEF LedgerInv, ReceiptsOK
<1>7. \A f : Vouches(f, receipts, written) => Vouches(f, receipts', written)
  BY <1>3 DEF Vouches
<1>8. ASSUME NEW s, s.file.id \notin lost', s.file.id \notin lost => Stands(s, receipts)
      PROVE  Stands(s, receipts')
  <2>1. s.file.id \notin lost
    BY <1>1, <1>8
  <2>2. PICK m \in DOMAIN receipts :
            /\ receipts[m] = s.file /\ DOMAIN s.floor \subseteq 1..m
            /\ \A k \in DOMAIN s.floor : k \in DOMAIN receipts /\ receipts[k].id = s.floor[k]
    BY <1>8, <2>1 DEF Stands
  <2>3. m < n /\ m \in DOMAIN receipts'
    BY <1>4, <1>5, <1>8, <2>2
  <2>4. \A k \in DOMAIN s.floor : k \in DOMAIN receipts' /\ receipts'[k].id = s.floor[k]
    BY <1>3, <1>4, <2>2, <2>3
  <2>5. QED
    BY <1>3, <2>2, <2>3, <2>4 DEF Stands
<1>9. ASSUME NEW x, AcceptorOK(x, receipts, written, lost) PROVE AcceptorOK(x, receipts', written, lost')
  BY <1>1, <1>3, <1>5, <1>9 DEF AcceptorOK
<1>10. AcceptedOnce'
  BY <1>1, <1>2 DEF LedgerInv, AcceptedOnce
<1>11. ConfirmedOK(receipts, written, lost)'
  BY <1>2, <1>8 DEF LedgerInv, ConfirmedOK
<1>12. SeriesOK(receipts, written)' /\ \A a \in Acceptors : AcceptorOK(command[a], receipts, written, lost)'
  BY <1>2, <1>7, <1>9 DEF LedgerInv, SeriesOK
<1>13. \A c \in Checkpointers : CheckpointerOK(command[c], receipts, written)'
  BY <1>2, <1>7 DEF LedgerInv, CheckpointerOK
<1>14. QED
  BY <1>2, <1>6, <1>10, <1>11, <1>12, <1>13 DEF LedgerInv

\* For any number of requests, receipts and rollbacks, with acceptors and
\* checkpointers that are killed anywhere: a confirmed acceptance whose receipt
\* was not lost is the only one of its request.
THEOREM RequestsAcceptedOnce == LedgerSpec => []AcceptedOnce
<1>1. LedgerInit => LedgerInv
  <2> SUFFICES ASSUME LedgerInit PROVE LedgerInv
    OBVIOUS
  <2>1. DOMAIN receipts = {} /\ IsFiniteSet(DOMAIN receipts)
    BY FS_EmptySet DEF LedgerInit
  <2>2. ReceiptsOK(receipts, written, lost)
    BY <2>1 DEF LedgerInit, ReceiptsOK
  <2>3. series \in Seq({}) /\ Len(series) = 0
    BY DEF LedgerInit
  <2>4. \A c \in LedgerCommands : command[c] = Resting
    BY DEF LedgerInit, LedgerCommands
  <2>5. QED
    BY <2>1, <2>2, <2>3, <2>4, RestingIsOK
       DEF LedgerInit, LedgerInv, SeriesOK, ConfirmedOK, AcceptedOnce, LedgerCommands
<1>2. LedgerInv /\ [LedgerNext]_ledgerVars => LedgerInv'
  <2> SUFFICES ASSUME LedgerInv, [LedgerNext]_ledgerVars PROVE LedgerInv'
    OBVIOUS
  <2>1. ASSUME NEW c \in LedgerCommands,
               Kill(c) \/ (c \in Checkpointers /\ EndCheckpoint(c))
        PROVE  LedgerInv'
    BY <2>1, RestingIsOK, CommandKeeps DEF Kill, EndCheckpoint
  <2>2. CASE RemoveLitter \/ UNCHANGED ledgerVars
    BY <2>2 DEF RemoveLitter, ledgerVars, LedgerInv, SeriesOK, ConfirmedOK, AcceptedOnce
  <2>3. QED
    BY <2>1, <2>2, AcceptKeeps, StageKeeps, AppendKeeps, LinkReceiptKeeps, LinkCheckpointKeeps,
       ConfirmKeeps, RollBackKeeps DEF LedgerNext, LedgerCommands
<1>3. LedgerInv => AcceptedOnce
  BY DEF LedgerInv
<1>4. QED
  BY <1>1, <1>2, <1>3, PTL DEF LedgerSpec

USE TransferAssumption DEF TransferAssumption

-----------------------------------------------------------------------------
(* Installing a checkpoint series.  The files are numbered 1 to k; an       *)
(* installation has found or made all that come before the next one.        *)

InstallRow == [at : {"installing", "temporary", "linked"}, chain : Bundles, next : Nat \ {0}]

TransferTypeOK == install \in [Installers -> {NoInstall} \cup InstallRow]

Numbered(k) == DOMAIN replica = 1..k

InstallOK(i) ==
    LET n == install[i].next
        chain == install[i].chain
    IN  install[i] # NoInstall =>
            /\ Holds(chain, n - 1)
            /\ install[i].at = "temporary" => n <= Len(chain)
            /\ install[i].at = "linked" => Holds(chain, n)

\* The next three say of a set of files what IsOneChain and Holds say of the
\* replica.
Chained(files) ==
    \A n \in DOMAIN files : Len(files[n]) = n /\ (n > 1 => files[n - 1] = Front(files[n]))
Continues(files, newFiles) ==
    \A n \in DOMAIN files : n \in DOMAIN newFiles /\ newFiles[n] = files[n]
Covers(files, chain, g) == \A n \in 1..g : n \in DOMAIN files /\ files[n] = Upto(chain, n)

TransferInv ==
    /\ TransferTypeOK /\ (\A i \in Installers : InstallOK(i))
    /\ \E k \in Nat : Numbered(k)
    /\ Chained(replica)
    /\ \A chain \in reported : Holds(chain, Len(chain))

\* Beginnings of a bundle.
LEMMA UptoFacts ==
    ASSUME NEW chain \in Bundles, NEW g \in Nat \ {0}, g <= Len(chain)
    PROVE  /\ Len(Upto(chain, g)) = g
           /\ g > 1 => Upto(chain, g - 1) = Front(Upto(chain, g))
<1>0. PICK n \in 1..MaxGenerations : chain \in [1..n -> Marks]
  BY DEF Bundles
<1>1. n \in Nat /\ chain \in [1..n -> Marks] /\ chain \in Seq(Marks) /\ Len(chain) = n
  BY <1>0
<1>2. Upto(chain, g) = [m \in 1..g |-> chain[m]]
  BY <1>1 DEF Upto
<1>3. Len(Upto(chain, g)) = g
  BY <1>2
<1>4. g > 1 => Upto(chain, g - 1) = [m \in 1..(g - 1) |-> chain[m]]
  BY <1>1 DEF Upto
<1>5. g > 1 => Front(Upto(chain, g)) = [m \in 1..(g - 1) |-> chain[m]]
  BY <1>2, <1>3 DEF Front
<1>6. QED
  BY <1>3, <1>4, <1>5

LEMMA NumberedIsChain ==
    ASSUME TransferInv
    PROVE  /\ IsOneChain(replica)
           /\ Cardinality(DOMAIN replica) \in Nat /\ Numbered(Cardinality(DOMAIN replica))
<1>1. PICK k \in Nat : Numbered(k)
  BY DEF TransferInv
<1>2. Cardinality(1..k) = k
  BY FS_Interval
<1>3. QED
  BY <1>1, <1>2 DEF TransferInv, IsOneChain, Numbered, Chained

\* Steps that leave the files alone.
LEMMA FilesLeft ==
    ASSUME TransferInv, replica' = replica, TransferTypeOK',
           \A i \in Installers : install'[i] = install[i] \/ InstallOK(i)',
           reported' = reported \/ \E chain : reported' = reported \cup {chain} /\ Holds(chain, Len(chain))
    PROVE  TransferInv'
<1>1. ASSUME NEW i \in Installers PROVE InstallOK(i)'
  <2>1. InstallOK(i)
    BY DEF TransferInv
  <2>2. CASE install'[i] = install[i]
    BY <2>1, <2>2 DEF InstallOK, Holds
  <2>3. QED
    BY <2>2
<1>2. \A chain \in reported' : Holds(chain, Len(chain))'
  BY DEF TransferInv, Holds
<1>3. QED
  BY <1>1, <1>2 DEF TransferInv, Numbered

LEMMA BeginKeeps ==
    ASSUME TransferInv, NEW i \in Installers, NEW chain \in Bundles, BeginInstall(i, chain)
    PROVE  TransferInv'
<1> DEFINE k == Cardinality(DOMAIN replica)
<1>1. k \in Nat /\ Holds(chain, k) /\ replica' = replica /\ reported' = reported
      /\ install' = [install EXCEPT ![i] = [at |-> "installing", chain |-> chain, next |-> k + 1]]
  BY NumberedIsChain DEF BeginInstall
<1> HIDE DEF k
<1>2. /\ install'[i] = [at |-> "installing", chain |-> chain, next |-> k + 1]
      /\ TransferTypeOK' /\ \A j \in Installers \ {i} : install'[j] = install[j]
  BY <1>1 DEF TransferInv, TransferTypeOK, InstallRow
<1>3. InstallOK(i)'
  BY <1>1, <1>2 DEF InstallOK, Holds
<1>4. QED
  BY <1>1, <1>2, <1>3, FilesLeft

\* The next generation is there.
LEMMA NextKeeps ==
    ASSUME TransferInv, NEW i \in Installers, install[i] # NoInstall, NextGeneration(i),
           Holds(install[i].chain, install[i].next), UNCHANGED <<replica, reported>>
    PROVE  TransferInv'
<1>1. install[i] \in InstallRow
  BY DEF TransferInv, TransferTypeOK
<1>2. /\ install'[i].at = "installing" /\ install'[i].chain = install[i].chain
      /\ install'[i].next = install[i].next + 1 /\ install'[i] \in InstallRow
      /\ \A j \in Installers \ {i} : install'[j] = install[j]
      /\ TransferTypeOK'
  BY <1>1 DEF NextGeneration, TransferInv, TransferTypeOK, InstallRow
<1>3. InstallOK(i)'
  BY <1>1, <1>2 DEF InstallOK, Holds, InstallRow
<1>4. QED
  BY <1>2, <1>3, FilesLeft

LEMMA FailsKeeps ==
    ASSUME TransferInv, NEW i \in Installers, Fails(i), replica' = replica,
           reported' = reported \/ \E chain : reported' = reported \cup {chain} /\ Holds(chain, Len(chain))
    PROVE  TransferInv'
<1>1. install'[i] = NoInstall /\ TransferTypeOK' /\ \A j \in Installers \ {i} : install'[j] = install[j]
  BY DEF Fails, TransferInv, TransferTypeOK
<1>2. InstallOK(i)'
  BY <1>1 DEF InstallOK
<1>3. QED
  BY <1>1, <1>2, FilesLeft

LEMMA LookKeeps ==
    ASSUME TransferInv, NEW i \in Installers, LookAtDestination(i)
    PROVE  TransferInv'
<1> DEFINE g == install[i].next
           chain == install[i].chain
<1>1. install[i] \in InstallRow /\ g <= Len(chain) /\ install[i] # NoInstall /\ Holds(chain, g - 1)
      /\ UNCHANGED <<replica, reported>>
  BY DEF TransferInv, TransferTypeOK, LookAtDestination, NoInstall, InstallOK
<1>2. CASE g \in DOMAIN replica /\ replica[g] = Upto(chain, g) /\ NextGeneration(i)
  <2>1. Holds(chain, g)
    BY <1>1, <1>2 DEF Holds, InstallRow
  <2>2. QED
    BY <1>1, <1>2, <2>1, NextKeeps
<1>3. CASE Fails(i)
  BY <1>1, <1>3, FailsKeeps
<1>4. CASE install' = [install EXCEPT ![i].at = "temporary"]
  <2>1. /\ install'[i].at = "temporary" /\ install'[i].chain = chain /\ install'[i].next = g
        /\ install'[i] \in InstallRow
        /\ \A j \in Installers \ {i} : install'[j] = install[j]
    BY <1>1, <1>4 DEF TransferInv, TransferTypeOK, InstallRow
  <2>2. TransferTypeOK'
    BY <1>4, <2>1 DEF TransferInv, TransferTypeOK
  <2>3. InstallOK(i)'
    BY <1>1, <2>1 DEF InstallOK, Holds
  <2>4. QED
    BY <1>1, <2>1, <2>2, <2>3, FilesLeft
<1>5. QED
  BY <1>2, <1>3, <1>4 DEF LookAtDestination

LEMMA LinkedKeeps ==
    ASSUME TransferInv, NEW i \in Installers, install[i] # NoInstall, TransferTypeOK',
           NEW g, g = install[i].next, NEW chain, chain = install[i].chain,
           install' = [install EXCEPT ![i].at = "linked"], reported' = reported,
           Continues(replica, replica'), Covers(replica', chain, g), Chained(replica'),
           NEW k \in Nat, DOMAIN replica' = 1..k
    PROVE  TransferInv'
<1>1. \A c : \A n : Holds(c, n) => Holds(c, n)'
  BY DEF Holds, Continues
<1>0. Holds(chain, g)' /\ (\E m \in Nat : Numbered(m))' /\ Chained(replica)'
  BY DEF Holds, Numbered, Covers
<1>2. /\ install'[i].at = "linked" /\ install'[i].chain = install[i].chain
      /\ install'[i].next = install[i].next
      /\ \A j \in Installers \ {i} : install'[j] = install[j]
  BY DEF TransferInv, TransferTypeOK, InstallRow
<1>3. \A j \in Installers : InstallOK(j)'
  BY <1>0, <1>1, <1>2 DEF InstallOK, TransferInv
<1>4. QED
  BY <1>0, <1>1, <1>3 DEF TransferInv

LEMMA LinkKeeps ==
    ASSUME TransferInv, NEW i \in Installers, LinkGeneration(i)
    PROVE  TransferInv'
<1>. PICK g, chain, file : g = install[i].next /\ chain = install[i].chain /\ file = Upto(chain, g)
  OBVIOUS
<1>1. /\ install[i] \in InstallRow /\ install[i] # NoInstall /\ install[i].at = "temporary"
      /\ chain \in Bundles /\ g \in Nat \ {0} /\ g <= Len(chain)
      /\ Holds(chain, g - 1) /\ reported' = reported
  BY DEF TransferInv, TransferTypeOK, LinkGeneration, NoInstall, InstallOK, InstallRow
<1>2. CASE g \in DOMAIN replica /\ replica[g] = file /\ replica' = replica
           /\ install' = [install EXCEPT ![i].at = "linked"]
  <2>1. Holds(chain, g)
    BY <1>1, <1>2 DEF Holds
  <2>2. TransferTypeOK'
    BY <1>1, <1>2 DEF TransferInv, TransferTypeOK, InstallRow
  <2>3. Covers(replica', chain, g) /\ Continues(replica, replica') /\ Chained(replica')
    BY <1>2, <2>1 DEF Holds, Covers, Continues, TransferInv
  <2>4. PICK k \in Nat : DOMAIN replica' = 1..k
    BY <1>2 DEF TransferInv, Numbered
  <2>6. QED
    BY <1>1, <1>2, <2>2, <2>3, <2>4, LinkedKeeps
<1>3. CASE Fails(i) /\ replica' = replica
  BY <1>1, <1>3, FailsKeeps
<1>4. CASE /\ g \notin DOMAIN replica
           /\ replica' = [n \in DOMAIN replica \cup {g} |-> IF n = g THEN file ELSE replica[n]]
           /\ install' = [install EXCEPT ![i].at = "linked"]
  <2>1. PICK k \in Nat : DOMAIN replica = 1..k
    BY DEF TransferInv, Numbered
  <2>2. k = g - 1
    <3>1. \A n \in 1..(g - 1) : n \in 1..k
      BY <1>1, <2>1 DEF Holds
    <3>2. k < g
      BY <1>1, <1>4, <2>1
    <3>3. g - 1 <= k
      BY <1>1, <3>1
    <3>4. QED
      BY <1>1, <3>2, <3>3
  <2>3. /\ DOMAIN replica' = 1..g /\ replica'[g] = file
        /\ \A n \in 1..(g - 1) : replica'[n] = replica[n]
    BY <1>1, <1>4, <2>1, <2>2
  <2>4. Len(file) = g /\ (g > 1 => Upto(chain, g - 1) = Front(file))
    BY <1>1, UptoFacts
  <2>5. g > 1 => replica[g - 1] = Upto(chain, g - 1)
    BY <1>1 DEF Holds
  <2>6. ASSUME NEW n \in 1..g
        PROVE  Len(replica'[n]) = n /\ (n > 1 => replica'[n - 1] = Front(replica'[n]))
    <3>1. CASE n = g
      BY <1>1, <2>3, <2>4, <2>5, <3>1
    <3>2. CASE n # g
      <4>1. n \in 1..(g - 1) /\ n \in DOMAIN replica
        BY <1>1, <2>1, <2>2, <3>2
      <4>2. n > 1 => n - 1 \in 1..(g - 1)
        BY <1>1, <4>1
      <4>3. QED
        BY <2>3, <4>1, <4>2 DEF TransferInv, Chained
    <3>3. QED
      BY <3>1, <3>2
  <2>7. Covers(replica', chain, g) /\ Continues(replica, replica') /\ Chained(replica')
    BY <1>1, <2>1, <2>2, <2>3, <2>6 DEF Holds, Covers, Continues, Chained
  <2>8. TransferTypeOK'
    BY <1>1, <1>4 DEF TransferInv, TransferTypeOK, InstallRow
  <2>9. QED
    BY <1>1, <1>4, <2>3, <2>7, <2>8, LinkedKeeps
<1>5. QED
  BY <1>2, <1>3, <1>4 DEF LinkGeneration

LEMMA TransferStep == TransferInv /\ [TransferNext]_transferVars => TransferInv'
<1> SUFFICES ASSUME TransferInv, [TransferNext]_transferVars PROVE TransferInv'
  OBVIOUS
<1>1. ASSUME NEW i \in Installers, DropTemporary(i) PROVE TransferInv'
  <2>1. install[i] # NoInstall /\ Holds(install[i].chain, install[i].next)
    BY <1>1 DEF DropTemporary, NoInstall, TransferInv, InstallOK
  <2>2. QED
    BY <1>1, <2>1, NextKeeps DEF DropTemporary
<1>2. ASSUME NEW i \in Installers, EndInstall(i) PROVE TransferInv'
  BY <1>2, FailsKeeps DEF EndInstall
<1>3. ASSUME NEW i \in Installers, KillInstall(i) PROVE TransferInv'
  BY <1>3, FailsKeeps DEF KillInstall
<1>4. CASE RemoveDebris \/ UNCHANGED transferVars
  BY <1>4, FilesLeft DEF RemoveDebris, transferVars, TransferInv, TransferTypeOK
<1>5. QED
  BY <1>1, <1>2, <1>3, <1>4, BeginKeeps, LookKeeps, LinkKeeps DEF TransferNext

\* For any number of installations, of bundles of any length and branch, killed
\* anywhere: the destination holds one chain that begins with every series that
\* was reported as installed.
THEOREM ReplicaStaysOneChain == TransferSpec => []ReplicaIsOneChain
<1>1. TransferInit => TransferInv
  <2> SUFFICES ASSUME TransferInit PROVE TransferInv
    OBVIOUS
  <2>1. DOMAIN replica = 1..0
    BY DEF TransferInit
  <2>2. QED
    BY <2>1 DEF TransferInit, TransferInv, TransferTypeOK, InstallOK, Numbered, Chained
<1>2. TransferInv => ReplicaIsOneChain
  BY NumberedIsChain DEF TransferInv, ReplicaIsOneChain
<1>3. QED
  BY <1>1, <1>2, TransferStep, PTL DEF TransferSpec

USE PublicationAssumption DEF PublicationAssumption

-----------------------------------------------------------------------------
(* The publication of a change.  From the stage on, a process holds the     *)
(* content that was staged; the journal, the commit and the workflow are    *)
(* all of that content, and a merge that is the only one is of it.          *)

PublicationTypeOK ==
    /\ worktree \in Nat /\ index \in Nat
    /\ steps \in [JournalSteps -> Nat \cup {Nothing}]
    /\ mine \in Nat
    /\ base \in Seq(Nat \cup {Nothing, Foreign})
    /\ pull.head \in Nat \cup {Nothing, Foreign} /\ branch \in Nat \cup {Nothing, Foreign}
    /\ pull = [state |-> pull.state, head |-> pull.head]

Staged == steps["stage"]

PublicationInv ==
    /\ PublicationTypeOK
    /\ pc # "idle" /\ pc # "stage" => Done("stage")
    /\ pc \in {"check", "commit"} => index = Staged
    /\ pc = "committed" => headCommit = Staged
    /\ Done("commit") => Done("stage") /\ steps["commit"] = Staged
    /\ pc \in {"push", "pr", "ci", "merge", "merging", "merged", "verify"} => mine = Staged
    /\ Done("ci") => Done("stage") /\ steps["ci"] = Staged /\ publicChecks = "green"
    /\ pc \in {"merge", "merging", "merged", "verify"} => Done("ci")
    /\ PublishedAsStaged
    /\ Done("postverify") => Done("stage")

\* Steps of the process that leave the journal alone.
LEMMA RunKeeps ==
    ASSUME PublicationInv,
           \/ PublicationPreflight \/ ResumeCommit \/ EnsureCommit \/ EnsurePush \/ EnsurePr
           \/ BeforeMerge \/ Abort
    PROVE  PublicationInv'
<1> USE DEF PublicationInv, PublicationTypeOK, Staged, Done, PublishedAsStaged, Contents,
            JournalSteps, clone, github
<1>1. CASE PublicationPreflight BY <1>1 DEF PublicationPreflight
<1>2. CASE ResumeCommit BY <1>2 DEF ResumeCommit
<1>3. CASE EnsureCommit BY <1>3 DEF EnsureCommit
<1>4. CASE EnsurePush BY <1>4 DEF EnsurePush
<1>5. CASE EnsurePr BY <1>5 DEF EnsurePr
<1>6. CASE BeforeMerge BY <1>6 DEF BeforeMerge
<1>7. CASE Abort BY <1>7 DEF Abort
<1>8. QED
  BY <1>1, <1>2, <1>3, <1>4, <1>5, <1>6, <1>7

\* Steps that are recorded in the journal.
LEMMA MarkKeeps ==
    ASSUME PublicationInv,
           StageAndValidate \/ RunLocalChecks \/ MarkCommit \/ WaitCi \/ MarkMerge \/ Postverify
    PROVE  PublicationInv'
<1> USE DEF PublicationInv, PublicationTypeOK, Staged, Done, PublishedAsStaged, Contents,
            JournalSteps, clone, github, Mark
<1>1. CASE StageAndValidate BY <1>1 DEF StageAndValidate
<1>2. CASE RunLocalChecks BY <1>2 DEF RunLocalChecks
<1>3. CASE MarkCommit BY <1>3 DEF MarkCommit
<1>4. CASE WaitCi BY <1>4 DEF WaitCi
<1>5. CASE MarkMerge BY <1>5 DEF MarkMerge
<1>6. CASE Postverify
  <2>0. base \in Seq(Nat \cup {Nothing, Foreign}) /\ Len(base) = 1 /\ Last(base) = mine
    BY <1>6 DEF Postverify
  <2>3. base # <<>> /\ Head(base) = mine
    BY ONLY <2>0, OneElement
  <2>4. QED
    BY <1>6, <2>3 DEF Postverify
<1>7. QED
  BY <1>1, <1>2, <1>3, <1>4, <1>5, <1>6

\* The base branch only grows.
LEMMA BaseKeeps ==
    ASSUME PublicationInv, MergeExactHead \/ OtherMerge
    PROVE  PublicationInv'
<1> USE DEF PublicationInv, PublicationTypeOK
<1>1. PICK x \in Nat \cup {Nothing, Foreign} : base' = Append(base, x)
  BY DEF MergeExactHead, OtherMerge
<1>2. base' \in Seq(Nat \cup {Nothing, Foreign}) /\ base' # <<>>
  BY <1>1
<1>3. base # <<>> => Head(base') = Head(base)
  BY <1>1
<1>4. PublishedAsStaged'
  BY <1>2, <1>3 DEF PublishedAsStaged, MergeExactHead, OtherMerge, Done, clone
<1>5. PublicationTypeOK'
  BY <1>2 DEF MergeExactHead, OtherMerge, clone
<1>6. QED
  BY <1>4, <1>5 DEF MergeExactHead, OtherMerge, Done, clone, Staged

LEMMA OthersKeep ==
    ASSUME PublicationInv, Edit \/ TakeBack \/ OtherPush \/ OtherClose \/ Workflow
    PROVE  PublicationInv'
<1> USE DEF PublicationInv, PublicationTypeOK, Staged, Done, PublishedAsStaged, Contents,
            JournalSteps, clone, github
<1>1. CASE Edit BY <1>1 DEF Edit
<1>2. CASE TakeBack BY <1>2 DEF TakeBack
<1>3. CASE OtherPush BY <1>3 DEF OtherPush
<1>4. CASE OtherClose BY <1>4 DEF OtherClose
<1>5. CASE Workflow BY <1>5 DEF Workflow
<1>6. QED
  BY <1>1, <1>2, <1>3, <1>4, <1>5

\* Whatever the contents, the number of runs and what other people do: a
\* publication that was verified put the staged tree on the base branch first.
THEOREM StagedIsPublished == PublicationSpec => []PublishedAsStaged
<1>1. PublicationInit => PublicationInv
  <2> SUFFICES ASSUME PublicationInit PROVE PublicationInv
    OBVIOUS
  <2>1. base \in Seq(Nat \cup {Nothing, Foreign})
    BY DEF PublicationInit
  <2>2. /\ steps \in [JournalSteps -> Nat \cup {Nothing}]
        /\ \A s \in JournalSteps : steps[s] = Nothing
    BY DEF PublicationInit
  <2>3. PublicationTypeOK
    BY <2>1, <2>2 DEF PublicationInit, PublicationTypeOK, Contents
  <2>4. QED
    BY <2>2, <2>3 DEF PublicationInit, PublicationInv, Done, PublishedAsStaged, JournalSteps
<1>2. PublicationInv /\ [PublicationNext]_publicationVars => PublicationInv'
  <2> SUFFICES ASSUME PublicationInv, [PublicationNext]_publicationVars PROVE PublicationInv'
    OBVIOUS
  <2>1. CASE UNCHANGED publicationVars
    BY <2>1 DEF publicationVars, PublicationInv, PublicationTypeOK, Staged, Done, PublishedAsStaged,
                clone, github
  <2>2. QED
    BY <2>1, RunKeeps, MarkKeeps, BaseKeeps, OthersKeep DEF PublicationNext, Run
<1>3. PublicationInv => PublishedAsStaged
  BY DEF PublicationInv
<1>4. QED
  BY <1>1, <1>2, <1>3, PTL DEF PublicationSpec
=============================================================================
