------------------------ MODULE LiveDetectionProofs ------------------------
(***************************************************************************)
(* Proofs about detection, part by part: the correlator and the limits of  *)
(* LiveDetection, for any number of pairs and any window; the alerts of    *)
(* AlertStream, for any number of threads; the capture of OfflineRules,    *)
(* for any flows and any parameters of the rules; the tables of FlowTables, *)
(* for any packets; and what MCLiveDetection says of the parts together,   *)
(* of which each behaviour moves one.                                      *)
(*                                                                         *)
(* Of the correlator:                                                      *)
(*                                                                         *)
(* Gone counts the entries that head the feed and are all too old.  It is  *)
(* the length of that prefix (GoneIsAPrefix), and because the feed is in   *)
(* order of time (Sorted) what is left of it is within the window.  What   *)
(* ties the feeds to the history is that the newest entry of a pair is     *)
(* still there while it is recent (Held), that no entry is newer than the  *)
(* pair was seen (SeenAll), and that a muted pair has a signature that is  *)
(* no younger than its report (Muting).                                    *)
(***************************************************************************)
EXTENDS MCLiveDetection, SequenceTheorems, FiniteSetTheorems, TLAPS

Types ==
  /\ now \in Times  /\ feed \in [Kinds -> Seq(Entry)]  /\ correlated \subseteq Keys
  /\ event \in [at : {"poll", "emit", "add", "link"}, kind : Kinds \cup {"none"}, key : Keys \cup {NoKey}]
  /\ event.at \in {"emit", "add"} => event.kind \in Kinds /\ event.key \in Keys
  /\ seen \in [Kinds -> [Keys -> Times \cup {Never}]]
  /\ report \in [Keys -> Times \cup {Never}]

Sorted   == \A kind \in Kinds : \A i, j \in 1 .. Len(feed[kind]) : i <= j => feed[kind][i].ts <= feed[kind][j].ts
Past     == /\ \A kind \in Kinds : \A i \in 1 .. Len(feed[kind]) : feed[kind][i].ts <= now
            /\ \A kind \in Kinds, k \in Keys : seen[kind][k] <= now
SeenAll  == \A kind \in Kinds : \A i \in 1 .. Len(feed[kind]) : feed[kind][i].ts <= seen[kind][feed[kind][i].key]
Holds(s, k, time) == \E i \in 1 .. Len(s) : s[i].key = k /\ s[i].ts = time
Held     == \A kind \in Kinds, k \in Keys : Lately(seen[kind][k]) => Holds(feed[kind], k, seen[kind][k])
Muting   == \A k \in correlated : \E i \in 1 .. Len(feed["suricata"]) :
              feed["suricata"][i].key = k /\ feed["suricata"][i].ts <= report[k]

IInv == Types /\ Sorted /\ Past /\ SeenAll /\ Held /\ Muting

-----------------------------------------------------------------------------
(* Eviction                                                                 *)

\* What Gone counts is a prefix, so it is its length.
LEMMA PrefixLength ==
  ASSUME NEW n \in Nat, NEW P \in SUBSET (1 .. n), \A i \in P : \A j \in 1 .. i : j \in P
  PROVE  Cardinality(P) \in 0 .. n /\ \A i \in 1 .. n : i \in P <=> i <= Cardinality(P)
<1>1. IsFiniteSet(1 .. n) /\ Cardinality(1 .. n) = n
  BY FS_Interval
<1>2. IsFiniteSet(P) /\ Cardinality(P) \in Nat /\ Cardinality(P) <= n
  BY <1>1, FS_Subset, FS_CardinalityType
<1>3. ASSUME NEW i \in 1 .. n, i \in P PROVE i <= Cardinality(P)
  <2>1. (1 .. i) \in SUBSET P
    BY <1>3
  <2>2. Cardinality(1 .. i) = i
    BY FS_Interval
  <2> QED BY <1>2, <2>1, <2>2, FS_Subset
<1>4. ASSUME NEW i \in 1 .. n, i \notin P PROVE Cardinality(P) < i
  <2>1. P \in SUBSET (1 .. i - 1)
    BY <1>4
  <2>2. IsFiniteSet(1 .. i - 1) /\ Cardinality(1 .. i - 1) = i - 1
    BY FS_Interval
  <2>3. Cardinality(P) <= i - 1
    BY <2>1, <2>2, FS_Subset
  <2> QED BY <1>2, <2>3
<1>5. \A i \in 1 .. n : i \in P <=> i <= Cardinality(P)
  BY <1>2, <1>3, <1>4
<1> QED BY <1>2, <1>5

InOrder(s) == \A i, j \in 1 .. Len(s) : i <= j => s[i].ts <= s[j].ts

LEMMA GoneIsAPrefix ==
  ASSUME NEW s \in Seq(Entry), InOrder(s), now \in Times
  PROVE  /\ Gone(s) \in 0 .. Len(s)
         /\ \A i \in 1 .. Len(s) : TooOld(s[i]) <=> i <= Gone(s)
<1> DEFINE P == {i \in 1 .. Len(s) : \A j \in 1 .. i : TooOld(s[j])}
<1>1. Len(s) \in Nat /\ \A i \in 1 .. Len(s) : s[i] \in Entry /\ s[i].ts \in Int
  <2>1. Len(s) \in Nat /\ s \in [1 .. Len(s) -> Entry]
    BY LenProperties
  <2>2. \A e \in Entry : e.ts \in Int
    BY BoundAssumption DEF Entry, Times
  <2> QED BY <2>1, <2>2
<1>2. now - Window \in Int
  BY WindowAssumption, BoundAssumption DEF Times
<1>3. \A i \in 1 .. Len(s) : TooOld(s[i]) <=> i \in P
  <2> SUFFICES ASSUME NEW i \in 1 .. Len(s), TooOld(s[i]), NEW j \in 1 .. i PROVE TooOld(s[j])
    BY <1>1
  <2>1. j \in 1 .. Len(s) /\ s[j].ts <= s[i].ts
    BY <1>1 DEF InOrder
  <2> QED BY <1>1, <1>2, <2>1 DEF TooOld
<1>4. P \in SUBSET (1 .. Len(s)) /\ \A i \in P : \A j \in 1 .. i : j \in P
  BY <1>1
<1>5. Gone(s) = Cardinality(P)
  BY DEF Gone
<1> HIDE DEF P
<1>6. Cardinality(P) \in 0 .. Len(s) /\ \A i \in 1 .. Len(s) : i \in P <=> i <= Cardinality(P)
  BY <1>1, <1>4, PrefixLength
<1> QED BY <1>3, <1>5, <1>6

\* What is kept: the entries within the window, in their order.
LEMMA KeptFacts ==
  ASSUME NEW s \in Seq(Entry), InOrder(s), now \in Times
  PROVE  /\ Kept(s) \in Seq(Entry)  /\ InOrder(Kept(s))
         /\ \A i \in 1 .. Len(Kept(s)) : \E j \in 1 .. Len(s) : Kept(s)[i] = s[j] /\ ~TooOld(s[j])
         /\ \A j \in 1 .. Len(s) : ~TooOld(s[j]) => \E i \in 1 .. Len(Kept(s)) : Kept(s)[i] = s[j]
<1>1. Len(s) \in Nat /\ \A i \in 1 .. Len(s) : s[i] \in Entry
  BY LenProperties
<1>2. PICK g : g = Gone(s) /\ g \in 0 .. Len(s) /\ \A i \in 1 .. Len(s) : TooOld(s[i]) <=> i <= g
  BY GoneIsAPrefix
<1>3. Kept(s) = SubSeq(s, 1 + g, Len(s)) /\ g \in Int /\ Len(s) \in Int
  BY <1>1, <1>2 DEF Kept
<1>4. \A i \in 1 + g .. Len(s) : s[i] \in Entry
  BY <1>1, <1>2
<1>5. /\ Kept(s) \in Seq(Entry)
      /\ Len(Kept(s)) = IF 1 + g <= Len(s) THEN Len(s) - (1 + g) + 1 ELSE 0
      /\ \A i \in 1 .. Len(s) - (1 + g) + 1 : Kept(s)[i] = s[(1 + g) + i - 1]
  BY <1>3, <1>4, SubSeqProperties
<1>6. Len(Kept(s)) = Len(s) - g /\ \A i \in 1 .. Len(s) - g : Kept(s)[i] = s[g + i]
  BY <1>1, <1>2, <1>5
<1>7. \A i \in 1 .. Len(s) - g : g + i \in 1 .. Len(s) /\ ~TooOld(s[g + i])
  BY <1>1, <1>2
<1>8. InOrder(Kept(s))
  <2> SUFFICES ASSUME NEW i \in 1 .. Len(s) - g, NEW j \in 1 .. Len(s) - g, i <= j
               PROVE Kept(s)[i].ts <= Kept(s)[j].ts
    BY <1>6 DEF InOrder
  <2>1. Kept(s)[i] = s[g + i] /\ Kept(s)[j] = s[g + j]
    BY <1>6
  <2>2. g + i \in 1 .. Len(s) /\ g + j \in 1 .. Len(s) /\ g + i <= g + j
    BY <1>1, <1>2
  <2> QED BY <2>1, <2>2 DEF InOrder
<1>9. ASSUME NEW j \in 1 .. Len(s), ~TooOld(s[j]) PROVE \E i \in 1 .. Len(Kept(s)) : Kept(s)[i] = s[j]
  <2>1. j - g \in 1 .. Len(s) - g /\ g + (j - g) = j
    BY <1>1, <1>2, <1>9
  <2> QED BY <1>6, <2>1
<1> QED BY <1>5, <1>6, <1>7, <1>8, <1>9

LEMMA AppendFacts ==
  ASSUME NEW s \in Seq(Entry), InOrder(s), NEW e \in Entry, \A i \in 1 .. Len(s) : s[i].ts <= e.ts
  PROVE  /\ Append(s, e) \in Seq(Entry)  /\ InOrder(Append(s, e))
         /\ \A i \in 1 .. Len(Append(s, e)) : Append(s, e)[i] = e \/ \E j \in 1 .. Len(s) : Append(s, e)[i] = s[j]
         /\ \A j \in 1 .. Len(s) : \E i \in 1 .. Len(Append(s, e)) : Append(s, e)[i] = s[j]
         /\ \E i \in 1 .. Len(Append(s, e)) : Append(s, e)[i] = e
<1>1. Len(s) \in Nat /\ Append(s, e) \in Seq(Entry) /\ Len(Append(s, e)) = Len(s) + 1
  BY LenProperties, AppendProperties
<1>2. (\A i \in 1 .. Len(s) : Append(s, e)[i] = s[i]) /\ Append(s, e)[Len(s) + 1] = e
  BY AppendProperties
<1>3. e.ts \in Int
  BY BoundAssumption DEF Entry, Times
<1>4. \A i \in 1 .. Len(s) + 1 : i = Len(s) + 1 \/ i \in 1 .. Len(s)
  BY <1>1
<1>5. InOrder(Append(s, e))
  <2> SUFFICES ASSUME NEW i \in 1 .. Len(s) + 1, NEW j \in 1 .. Len(s) + 1, i <= j
               PROVE Append(s, e)[i].ts <= Append(s, e)[j].ts
    BY <1>1 DEF InOrder
  <2>1. CASE j = Len(s) + 1
    BY <1>2, <1>3, <1>4, <2>1
  <2>2. CASE j # Len(s) + 1
    <3>1. i \in 1 .. Len(s) /\ j \in 1 .. Len(s)
      BY <1>1, <2>2
    <3> QED BY <1>2, <3>1 DEF InOrder
  <2> QED BY <2>1, <2>2
<1>6. Len(s) + 1 \in 1 .. Len(s) + 1 /\ \A j \in 1 .. Len(s) : j \in 1 .. Len(s) + 1
  BY <1>1
<1> QED BY <1>1, <1>2, <1>4, <1>5, <1>6

-----------------------------------------------------------------------------
(* One event in the correlator                                              *)

New == [ts |-> now, key |-> event.key]

\* The feeds after it: the new entry, and of the old ones those within the window.
LEMMA FeedFacts ==
  ASSUME IInv, Correlate
  PROVE  /\ feed' \in [Kinds -> Seq(Entry)]  /\ Sorted'
         /\ \A kind \in Kinds : \A i \in 1 .. Len(feed'[kind]) :
              \/ kind = event.kind /\ feed'[kind][i] = New
              \/ \E j \in 1 .. Len(feed[kind]) : feed'[kind][i] = feed[kind][j] /\ ~TooOld(feed[kind][j])
         /\ \A kind \in Kinds : \A j \in 1 .. Len(feed[kind]) :
              ~TooOld(feed[kind][j]) => \E i \in 1 .. Len(feed'[kind]) : feed'[kind][i] = feed[kind][j]
         /\ \E i \in 1 .. Len(feed'[event.kind]) : feed'[event.kind][i] = New
<1>1. now \in Times /\ feed \in [Kinds -> Seq(Entry)] /\ event.kind \in Kinds /\ event.key \in Keys
  BY DEF IInv, Types, Correlate
<1>2. feed' = [k \in Kinds |-> IF k = event.kind THEN Append(Kept(feed[k]), New) ELSE Kept(feed[k])]
  BY DEF Correlate, Add, New
<1>3. New \in Entry /\ New.ts = now
  BY <1>1 DEF New, Entry
<1>4. ASSUME NEW kind \in Kinds
      PROVE  /\ feed'[kind] \in Seq(Entry)  /\ InOrder(feed'[kind])
             /\ \A i \in 1 .. Len(feed'[kind]) :
                  \/ kind = event.kind /\ feed'[kind][i] = New
                  \/ \E j \in 1 .. Len(feed[kind]) : feed'[kind][i] = feed[kind][j] /\ ~TooOld(feed[kind][j])
             /\ \A j \in 1 .. Len(feed[kind]) :
                  ~TooOld(feed[kind][j]) => \E i \in 1 .. Len(feed'[kind]) : feed'[kind][i] = feed[kind][j]
             /\ kind = event.kind => \E i \in 1 .. Len(feed'[kind]) : feed'[kind][i] = New
  <2>1. feed[kind] \in Seq(Entry) /\ InOrder(feed[kind])
    BY <1>1 DEF IInv, Sorted, InOrder
  <2>2. /\ Kept(feed[kind]) \in Seq(Entry)  /\ InOrder(Kept(feed[kind]))
        /\ \A i \in 1 .. Len(Kept(feed[kind])) : \E j \in 1 .. Len(feed[kind]) :
             Kept(feed[kind])[i] = feed[kind][j] /\ ~TooOld(feed[kind][j])
        /\ \A j \in 1 .. Len(feed[kind]) : ~TooOld(feed[kind][j]) =>
             \E i \in 1 .. Len(Kept(feed[kind])) : Kept(feed[kind])[i] = feed[kind][j]
    BY <1>1, <2>1, KeptFacts
  <2>3. CASE kind # event.kind
    <3>1. feed'[kind] = Kept(feed[kind])
      BY <1>2, <2>3
    <3> QED BY <2>2, <2>3, <3>1
  <2>4. CASE kind = event.kind
    <3> DEFINE s == Kept(feed[kind])
    <3>1. feed'[kind] = Append(s, New)
      BY <1>2, <2>4
    <3>2. \A i \in 1 .. Len(s) : s[i].ts <= New.ts
      BY <1>3, <2>2 DEF IInv, Past
    <3>3. s \in Seq(Entry) /\ InOrder(s)
      BY <2>2
    <3>4. /\ \A i \in 1 .. Len(s) : \E j \in 1 .. Len(feed[kind]) : s[i] = feed[kind][j] /\ ~TooOld(feed[kind][j])
          /\ \A j \in 1 .. Len(feed[kind]) : ~TooOld(feed[kind][j]) => \E i \in 1 .. Len(s) : s[i] = feed[kind][j]
      BY <2>2
    <3> HIDE DEF s
    <3>5. /\ Append(s, New) \in Seq(Entry)  /\ InOrder(Append(s, New))
          /\ \A i \in 1 .. Len(Append(s, New)) :
               Append(s, New)[i] = New \/ \E j \in 1 .. Len(s) : Append(s, New)[i] = s[j]
          /\ \A j \in 1 .. Len(s) : \E i \in 1 .. Len(Append(s, New)) : Append(s, New)[i] = s[j]
          /\ \E i \in 1 .. Len(Append(s, New)) : Append(s, New)[i] = New
      BY <1>3, <3>2, <3>3, AppendFacts
    <3>6. \A i \in 1 .. Len(Append(s, New)) :
            \/ Append(s, New)[i] = New
            \/ \E j \in 1 .. Len(feed[kind]) : Append(s, New)[i] = feed[kind][j] /\ ~TooOld(feed[kind][j])
      BY <3>4, <3>5
    <3>7. \A j \in 1 .. Len(feed[kind]) : ~TooOld(feed[kind][j]) =>
            \E i \in 1 .. Len(Append(s, New)) : Append(s, New)[i] = feed[kind][j]
      BY <3>4, <3>5
    <3> QED BY <2>4, <3>1, <3>5, <3>6, <3>7
  <2> QED BY <2>3, <2>4
<1>5. feed' \in [Kinds -> Seq(Entry)]
  BY <1>2, <1>4
<1>6. Sorted'
  BY <1>4 DEF Sorted, InOrder
<1> QED BY <1>1, <1>4, <1>5, <1>6

\* A pair that is still muted has a signature within the window, no younger than its report.
LEMMA MutedFacts ==
  ASSUME IInv
  PROVE  \A k \in Muted : k \in correlated /\ \E j \in 1 .. Len(feed["suricata"]) :
           /\ feed["suricata"][j].key = k  /\ feed["suricata"][j].ts <= report[k]
           /\ ~TooOld(feed["suricata"][j])
<1> DEFINE s == feed["suricata"]
<1>1. s \in Seq(Entry) /\ InOrder(s) /\ now \in Times
  BY DEF IInv, Types, Sorted, InOrder, Kinds
<1>2. Gone(s) \in 0 .. Len(s) /\ \A i \in 1 .. Len(s) : TooOld(s[i]) <=> i <= Gone(s)
  BY <1>1, GoneIsAPrefix
<1>3. SUFFICES ASSUME NEW k \in Muted
               PROVE k \in correlated /\ \E j \in 1 .. Len(s) : s[j].key = k /\ s[j].ts <= report[k] /\ ~TooOld(s[j])
  OBVIOUS
<1>4. k \in correlated /\ \A i \in 1 .. Gone(s) : s[i].key # k
  BY <1>3 DEF Muted
<1>5. PICK j \in 1 .. Len(s) : s[j].key = k /\ s[j].ts <= report[k]
  BY <1>4 DEF IInv, Muting
<1>6. ~TooOld(s[j])
  <2>1. j \in Nat /\ j >= 1 /\ Gone(s) \in Nat
    BY <1>2, LenProperties, <1>1
  <2> HIDE DEF s
  <2> QED BY <1>2, <1>4, <1>5, <2>1
<1> QED BY <1>4, <1>5, <1>6

\* What Correlate does besides the feeds.
Hit(k) == k = event.key /\ Found(event.kind, event.key)
LEMMA AddFacts ==
  ASSUME IInv, Correlate
  PROVE  /\ now' = now  /\ event.kind \in Kinds  /\ event.key \in Keys
         /\ \A kind \in Kinds, k \in Keys :
              seen'[kind][k] = IF kind = event.kind /\ k = event.key THEN now ELSE seen[kind][k]
         /\ \A k \in Keys : report'[k] = IF Hit(k) THEN now ELSE report[k]
         /\ \A k : k \in correlated' <=> k \in Muted \/ Hit(k)
         /\ \A k \in Muted : ~Hit(k)
<1>1. event.kind \in Kinds /\ event.key \in Keys /\ now' = now
  BY DEF IInv, Types, Correlate
<1>2. seen' = [seen EXCEPT ![event.kind][event.key] = now]
  BY DEF Correlate, Add
<1>3. \A kind \in Kinds, k \in Keys :
        seen'[kind][k] = IF kind = event.kind /\ k = event.key THEN now ELSE seen[kind][k]
  BY <1>1, <1>2 DEF IInv, Types
<1>4. \A k \in Muted : ~Hit(k)
  BY DEF Hit, Found
<1>5. CASE Found(event.kind, event.key)
  <2>1. correlated' = Muted \cup {event.key} /\ report' = [report EXCEPT ![event.key] = now]
    BY <1>5 DEF Correlate, Add
  <2>2. \A k \in Keys : report'[k] = IF Hit(k) THEN now ELSE report[k]
    BY <1>1, <1>5, <2>1 DEF IInv, Types, Hit
  <2>3. \A k : k \in correlated' <=> k \in Muted \/ Hit(k)
    BY <1>5, <2>1 DEF Hit
  <2> QED BY <1>1, <1>3, <1>4, <2>2, <2>3
<1>6. CASE ~Found(event.kind, event.key)
  <2>1. correlated' = Muted /\ report' = report
    BY <1>6 DEF Correlate, Add
  <2> QED BY <1>1, <1>3, <1>4, <1>6, <2>1 DEF Hit
<1> QED BY <1>5, <1>6

\* What Found saw: an entry of the other feed, within the window.
LEMMA FoundFacts ==
  ASSUME IInv, NEW kind \in Kinds, NEW key \in Keys
  PROVE  /\ Other(kind) \in Kinds /\ Other(kind) # kind
         /\ Found(kind, key) <=>
              /\ key \notin Muted
              /\ \E j \in 1 .. Len(feed[Other(kind)]) :
                   feed[Other(kind)][j].key = key /\ ~TooOld(feed[Other(kind)][j])
<1>1. Other(kind) \in Kinds /\ Other(kind) # kind
  BY DEF Other, Kinds
<1> DEFINE s == feed[Other(kind)]
<1>2. s \in Seq(Entry) /\ InOrder(s) /\ now \in Times
  BY <1>1 DEF IInv, Types, Sorted, InOrder
<1>3. /\ \A i \in 1 .. Len(Kept(s)) : \E j \in 1 .. Len(s) : Kept(s)[i] = s[j] /\ ~TooOld(s[j])
      /\ \A j \in 1 .. Len(s) : ~TooOld(s[j]) => \E i \in 1 .. Len(Kept(s)) : Kept(s)[i] = s[j]
  BY <1>2, KeptFacts
<1>4. Found(kind, key) <=> key \notin Muted /\ \E i \in 1 .. Len(Kept(s)) : Kept(s)[i].key = key
  BY DEF Found
<1> HIDE DEF s
<1>5. (\E i \in 1 .. Len(Kept(s)) : Kept(s)[i].key = key) <=> \E j \in 1 .. Len(s) : s[j].key = key /\ ~TooOld(s[j])
  BY <1>3
<1> QED BY <1>1, <1>4, <1>5 DEF s

\* An entry that is not too old came within the window, and so did its pair.
LEMMA EntryFacts ==
  ASSUME IInv, NEW kind \in Kinds, NEW j \in 1 .. Len(feed[kind])
  PROVE  /\ feed[kind][j].key \in Keys /\ feed[kind][j].ts \in Times /\ feed[kind][j].ts <= now
         /\ feed[kind][j].ts <= seen[kind][feed[kind][j].key]
         /\ ~TooOld(feed[kind][j]) <=> Lately(feed[kind][j].ts)
         /\ ~TooOld(feed[kind][j]) => Lately(seen[kind][feed[kind][j].key])
<1>1. feed[kind] \in Seq(Entry)
  BY DEF IInv, Types
<1>2. feed[kind][j] \in Entry
  BY <1>1, LenProperties
<1>3. PICK ts \in Times, k \in Keys : ts = feed[kind][j].ts /\ k = feed[kind][j].key
  BY <1>2 DEF Entry
<1>4. ts <= now /\ ts <= seen[kind][k] /\ seen[kind][k] \in Times \cup {Never} /\ now \in Times
  BY <1>3 DEF IInv, Past, SeenAll, Types
<1>5. TooOld(feed[kind][j]) <=> ts < now - Window
  BY <1>3 DEF TooOld
<1>6. ts \in Nat /\ now \in Nat /\ Window \in Nat /\ Never = -1 /\ seen[kind][k] \in Int
  BY <1>4, WindowAssumption, BoundAssumption DEF Times, Never
<1>7. (~(ts < now - Window) <=> Lately(ts)) /\ (~(ts < now - Window) => Lately(seen[kind][k]))
  BY <1>4, <1>6 DEF Lately
<1> QED BY <1>3, <1>4, <1>5, <1>7

-----------------------------------------------------------------------------
(* The invariant                                                            *)

LEMMA NumbersFacts ==
  /\ \A t \in Times : t \in Nat
  /\ Never = -1  /\ Window \in Nat
  /\ \A t \in Times \cup {Never} : t \in Int
BY WindowAssumption, BoundAssumption DEF Times, Never

LEMMA InitInv == ASSUME Init PROVE IInv
<1>1. /\ now = 0  /\ correlated = {}  /\ event = NoEvent  /\ feed = [kind \in Kinds |-> <<>>]
      /\ seen = [kind \in Kinds |-> [k \in Keys |-> Never]]  /\ report = [k \in Keys |-> Never]
  BY DEF Init
<1>2. now \in Times
  BY <1>1, BoundAssumption DEF Times
<1>3. <<>> \in Seq(Entry) /\ Len(<<>>) = 0
  BY EmptySeq
<1>4. Types
  BY <1>1, <1>2, <1>3 DEF Types, NoEvent
<1>5. \A kind \in Kinds : 1 .. Len(feed[kind]) = {}
  BY <1>1, <1>3
<1>6. \A kind \in Kinds, k \in Keys : seen[kind][k] = -1
  BY <1>1 DEF Never
<1>7. Sorted /\ SeenAll /\ Past
  BY <1>1, <1>5, <1>6 DEF Sorted, SeenAll, Past
<1>8. Held /\ Muting
  BY <1>1, <1>6 DEF Held, Muting, Lately, Never
<1> QED BY <1>4, <1>7, <1>8 DEF IInv

LEMMA CorrelateInv == ASSUME IInv, Correlate PROVE IInv'
<1>1. /\ now' = now  /\ event.kind \in Kinds  /\ event.key \in Keys  /\ now \in Times
      /\ New.ts = now /\ New.key = event.key
  BY AddFacts DEF New, IInv, Types
<1>2. Types'
  <2>1. feed' \in [Kinds -> Seq(Entry)]
    BY FeedFacts
  <2>2. seen' \in [Kinds -> [Keys -> Times \cup {Never}]]
    BY <1>1 DEF Correlate, Add, IInv, Types
  <2>3. report' \in [Keys -> Times \cup {Never}]
    BY <1>1 DEF Correlate, Add, IInv, Types
  <2>4. correlated' \subseteq Keys
    BY <1>1, AddFacts, MutedFacts DEF IInv, Types, Hit
  <2>5. event' = NoEvent \/ event' = [event EXCEPT !.at = "link"]
    BY DEF Correlate, Add
  <2>6. /\ event' \in [at : {"poll", "emit", "add", "link"}, kind : Kinds \cup {"none"}, key : Keys \cup {NoKey}]
        /\ event'.at \notin {"emit", "add"}
    BY <2>5 DEF NoEvent, IInv, Types
  <2>7. Entry' = Entry /\ Times' = Times
    BY DEF Entry, Times
  <2> QED BY <1>1, <2>1, <2>2, <2>3, <2>4, <2>6, <2>7 DEF Types
<1>3. Past'
  <2>1. ASSUME NEW kind \in Kinds, NEW i \in 1 .. Len(feed'[kind]) PROVE feed'[kind][i].ts <= now
    <3>1. CASE feed'[kind][i] = New
      BY <1>1, <3>1, NumbersFacts
    <3>2. CASE \E j \in 1 .. Len(feed[kind]) : feed'[kind][i] = feed[kind][j]
      BY <2>1, <3>2, EntryFacts
    <3> QED BY <3>1, <3>2, FeedFacts
  <2>2. ASSUME NEW kind \in Kinds, NEW k \in Keys PROVE seen'[kind][k] <= now
    BY <1>1, AddFacts, NumbersFacts DEF IInv, Past
  <2> QED BY <1>1, <2>1, <2>2 DEF Past
<1>4. SeenAll'
  <2> SUFFICES ASSUME NEW kind \in Kinds, NEW i \in 1 .. Len(feed'[kind])
               PROVE feed'[kind][i].ts <= seen'[kind][feed'[kind][i].key]
    BY DEF SeenAll
  <2>1. CASE kind = event.kind /\ feed'[kind][i] = New
    BY <1>1, <2>1, AddFacts, NumbersFacts
  <2>2. CASE \E j \in 1 .. Len(feed[kind]) : feed'[kind][i] = feed[kind][j]
    <3>1. PICK j \in 1 .. Len(feed[kind]) : feed'[kind][i] = feed[kind][j]
      BY <2>2
    <3>2. PICK k \in Keys, ts \in Times : k = feed[kind][j].key /\ ts = feed[kind][j].ts
      BY EntryFacts
    <3>3. ts <= now /\ ts <= seen[kind][k]
      BY <3>2, EntryFacts
    <3>4. seen'[kind][k] = now \/ seen'[kind][k] = seen[kind][k]
      BY AddFacts
    <3> QED BY <3>1, <3>2, <3>3, <3>4
  <2> QED BY <2>1, <2>2, FeedFacts
<1>5. Held'
  <2> SUFFICES ASSUME NEW kind \in Kinds, NEW k \in Keys, Lately(seen'[kind][k])
               PROVE \E i \in 1 .. Len(feed'[kind]) : feed'[kind][i].key = k /\ feed'[kind][i].ts = seen'[kind][k]
    BY <1>1 DEF Held, Holds, Lately
  <2>1. CASE kind = event.kind /\ k = event.key
    <3>1. seen'[kind][k] = now
      BY <2>1, AddFacts
    <3> QED BY <1>1, <2>1, <3>1, FeedFacts
  <2>2. CASE ~(kind = event.kind /\ k = event.key)
    <3>1. seen'[kind][k] = seen[kind][k]
      BY <2>2, AddFacts
    <3>2. PICK j \in 1 .. Len(feed[kind]) : feed[kind][j].key = k /\ feed[kind][j].ts = seen[kind][k]
      BY <3>1 DEF IInv, Held, Holds
    <3>3. ~TooOld(feed[kind][j])
      BY <3>1, <3>2, EntryFacts
    <3>4. \E i \in 1 .. Len(feed'[kind]) : feed'[kind][i] = feed[kind][j]
      BY <3>3, FeedFacts
    <3> QED BY <3>1, <3>2, <3>4
  <2> QED BY <2>1, <2>2
<1>6. Muting'
  <2> SUFFICES ASSUME NEW k \in correlated'
               PROVE \E i \in 1 .. Len(feed'["suricata"]) :
                       feed'["suricata"][i].key = k /\ feed'["suricata"][i].ts <= report'[k]
    BY DEF Muting
  <2>0. "suricata" \in Kinds
    BY DEF Kinds
  <2>1. CASE k \in Muted
    <3>1. PICK j \in 1 .. Len(feed["suricata"]) :
            /\ feed["suricata"][j].key = k  /\ feed["suricata"][j].ts <= report[k]
            /\ ~TooOld(feed["suricata"][j])
      BY <2>1, MutedFacts
    <3>2. report'[k] = report[k]
      BY <2>0, <2>1, <3>1, AddFacts, EntryFacts
    <3>3. \E i \in 1 .. Len(feed'["suricata"]) : feed'["suricata"][i] = feed["suricata"][j]
      BY <2>0, <3>1, FeedFacts
    <3> QED BY <3>1, <3>2, <3>3
  <2>2. CASE Hit(k)
    <3>1. k = event.key /\ k \in Keys /\ report'[k] = now /\ Found(event.kind, k)
      BY <1>1, <2>2, AddFacts DEF Hit
    <3>2. CASE event.kind = "suricata"
      <4>1. PICK i \in 1 .. Len(feed'["suricata"]) : feed'["suricata"][i] = New
        BY <3>2, FeedFacts
      <4> QED BY <1>1, <3>1, <4>1, NumbersFacts
    <3>3. CASE event.kind # "suricata"
      <4>1. Other(event.kind) = "suricata"
        BY <1>1, <3>3 DEF Other, Kinds
      <4>2. PICK j \in 1 .. Len(feed["suricata"]) : feed["suricata"][j].key = k /\ ~TooOld(feed["suricata"][j])
        BY <1>1, <3>1, <4>1, FoundFacts
      <4>3. PICK i \in 1 .. Len(feed'["suricata"]) : feed'["suricata"][i] = feed["suricata"][j]
        BY <2>0, <4>2, FeedFacts
      <4>4. feed["suricata"][j].ts <= now
        BY <2>0, EntryFacts
      <4> QED BY <3>1, <4>2, <4>3, <4>4
    <3> QED BY <3>2, <3>3
  <2> QED BY <2>1, <2>2, AddFacts
<1> QED BY <1>2, <1>3, <1>4, <1>5, <1>6, FeedFacts DEF IInv

LEMMA NextInv == ASSUME IInv, [Next]_vars PROVE IInv'
<1>1. ASSUME UNCHANGED <<now, correlator>>, Types' PROVE IInv'
  BY <1>1 DEF correlator, IInv, Sorted, Past, SeenAll, Held, Holds, Muting, Lately
<1>2. ASSUME NEW kind \in Kinds, NEW key \in Keys, Arrive(kind, key) PROVE IInv'
  <2>1. PICK at \in {"emit", "add"} : event' = [at |-> at, kind |-> kind, key |-> key]
    BY <1>2 DEF Arrive
  <2>2. UNCHANGED <<now, correlator>>
    BY <1>2 DEF Arrive
  <2>3. event' \in [at : {"poll", "emit", "add", "link"}, kind : Kinds \cup {"none"}, key : Keys \cup {NoKey}]
    BY <2>1
  <2>4. event'.kind \in Kinds /\ event'.key \in Keys
    BY <2>1
  <2>5. Types'
    BY <2>2, <2>3, <2>4 DEF correlator, IInv, Types, Entry, Times
  <2> QED BY <1>1, <2>2, <2>5
<1>3. CASE Emit \/ EmitCorrelation \/ EmitPrepared
  <2>1. UNCHANGED <<now, correlator>>
    BY <1>3 DEF Emit, EmitCorrelation, EmitPrepared
  <2>2. \/ event' = event \/ event' = NoEvent
        \/ event.at = "emit" /\ event' = [event EXCEPT !.at = "add"]
    BY <1>3 DEF Emit, EmitCorrelation, EmitPrepared
  <2>3. /\ event' \in [at : {"poll", "emit", "add", "link"}, kind : Kinds \cup {"none"}, key : Keys \cup {NoKey}]
        /\ event'.at \in {"emit", "add"} => event'.kind \in Kinds /\ event'.key \in Keys
    <3>1. CASE event' = event
      BY <3>1 DEF IInv, Types
    <3>2. CASE event' = NoEvent
      BY <3>2 DEF NoEvent
    <3>3. CASE event.at = "emit" /\ event' = [event EXCEPT !.at = "add"]
      BY <3>3 DEF IInv, Types
    <3> QED BY <2>2, <3>1, <3>2, <3>3
  <2>4. Types'
    BY <2>1, <2>3 DEF correlator, IInv, Types, Entry, Times
  <2> QED BY <1>1, <2>1, <2>4
<1>4. CASE Tick
  <2>1. now' = now + 1 /\ now \in Times /\ now' \in Times /\ UNCHANGED <<feed, correlated, seen, report, event>>
    BY <1>4, BoundAssumption DEF Tick, correlator, IInv, Types, Times
  <2>2. Types' /\ Sorted' /\ SeenAll' /\ Muting'
    BY <2>1 DEF IInv, Types, Sorted, SeenAll, Muting, Entry, Times
  <2>3. Past'
    <3>1. ASSUME NEW kind \in Kinds, NEW i \in 1 .. Len(feed[kind]) PROVE feed[kind][i].ts <= now + 1
      <4>1. feed[kind][i].ts <= now /\ feed[kind][i].ts \in Nat /\ now \in Nat
        BY <2>1, EntryFacts, NumbersFacts
      <4> QED BY <4>1
    <3>2. ASSUME NEW kind \in Kinds, NEW k \in Keys PROVE seen[kind][k] <= now + 1
      <4>1. seen[kind][k] \in Times \cup {Never} /\ seen[kind][k] <= now
        BY DEF IInv, Past, Types
      <4>2. seen[kind][k] \in Int /\ now \in Nat
        BY <2>1, <4>1, NumbersFacts
      <4> QED BY <4>1, <4>2
    <3> QED BY <2>1, <3>1, <3>2 DEF Past
  <2>4. Held'
    <3> SUFFICES ASSUME NEW kind \in Kinds, NEW k \in Keys, Lately(seen[kind][k])' PROVE Holds(feed[kind], k, seen[kind][k])
      BY <2>1 DEF Held, Holds
    <3>1. seen[kind][k] # Never /\ seen[kind][k] >= (now + 1) - Window /\ seen[kind][k] \in Times \cup {Never}
      BY <2>1 DEF Lately, IInv, Types
    <3>2. seen[kind][k] \in Int /\ now \in Nat /\ Window \in Nat
      BY <2>1, <3>1, NumbersFacts
    <3>3. seen[kind][k] >= now - Window
      BY <3>1, <3>2
    <3>4. Lately(seen[kind][k])
      BY <3>1, <3>3 DEF Lately
    <3> QED BY <3>4 DEF IInv, Held
  <2> QED BY <2>2, <2>3, <2>4 DEF IInv
<1>5. CASE UNCHANGED vars
  BY <1>1, <1>5 DEF vars, correlator, IInv, Types, Entry, Times
<1> QED BY <1>2, <1>3, <1>4, <1>5, CorrelateInv DEF Next

LEMMA InvHolds == Spec => []IInv
BY InitInv, NextInv, PTL DEF Spec

-----------------------------------------------------------------------------
LEMMA PairsOnly == ASSUME IInv, [Next]_vars PROVE OnlyPairs
<1>1. CASE ~Correlate
  <2>1. UNCHANGED report
    BY <1>1 DEF Next, Arrive, Emit, EmitCorrelation, EmitPrepared, Tick, vars, correlator
  <2> QED BY <2>1 DEF OnlyPairs
<1>2. CASE Correlate
  <2> SUFFICES ASSUME NEW k \in Keys, report'[k] # report[k], NEW kind \in Kinds PROVE Lately(seen'[kind][k])
    BY DEF OnlyPairs
  <2>1. Hit(k) /\ k = event.key /\ Found(event.kind, k) /\ event.kind \in Kinds
    BY <1>2, AddFacts DEF Hit
  <2>2. CASE kind = event.kind
    <3>1. seen'[kind][k] = now /\ now \in Times
      BY <1>2, <2>1, <2>2, AddFacts DEF IInv, Types
    <3> QED BY <3>1, NumbersFacts DEF Lately
  <2>3. CASE kind # event.kind
    <3>1. kind = Other(event.kind)
      BY <2>1, <2>3 DEF Other, Kinds
    <3>2. PICK j \in 1 .. Len(feed[kind]) : feed[kind][j].key = k /\ ~TooOld(feed[kind][j])
      BY <2>1, <3>1, FoundFacts
    <3>3. Lately(seen[kind][k])
      BY <3>2, EntryFacts
    <3>4. seen'[kind][k] = seen[kind][k]
      BY <1>2, <2>3, AddFacts
    <3> QED BY <3>3, <3>4
  <2> QED BY <2>2, <2>3
<1> QED BY <1>1, <1>2

LEMMA PairsAll == ASSUME IInv PROVE EveryPair
<1> SUFFICES ASSUME Correlate, Lately(seen[Other(event.kind)][event.key]) PROVE Lately(report'[event.key])
  BY DEF EveryPair
<1>1. event.kind \in Kinds /\ event.key \in Keys /\ now \in Times /\ Other(event.kind) \in Kinds
  BY AddFacts, FoundFacts DEF IInv, Types
<1>2. CASE event.key \in Muted
  <2>1. PICK j \in 1 .. Len(feed["suricata"]) :
          /\ feed["suricata"][j].ts <= report[event.key]  /\ ~TooOld(feed["suricata"][j])
    BY <1>2, MutedFacts
  <2>2. PICK ts \in Times : ts = feed["suricata"][j].ts /\ Lately(ts)
    BY <2>1, EntryFacts DEF Kinds
  <2>3. report'[event.key] = report[event.key] /\ report[event.key] \in Times \cup {Never}
    BY <1>1, <1>2, AddFacts DEF IInv, Types
  <2> QED BY <1>1, <2>1, <2>2, <2>3, NumbersFacts DEF Lately
<1>3. CASE event.key \notin Muted
  <2>1. PICK j \in 1 .. Len(feed[Other(event.kind)]) :
          /\ feed[Other(event.kind)][j].key = event.key
          /\ feed[Other(event.kind)][j].ts = seen[Other(event.kind)][event.key]
    BY <1>1 DEF IInv, Held, Holds
  <2>2. ~TooOld(feed[Other(event.kind)][j])
    BY <1>1, <2>1, EntryFacts
  <2>3. Hit(event.key)
    BY <1>1, <1>3, <2>1, <2>2, FoundFacts DEF Hit
  <2>4. report'[event.key] = now
    BY <1>1, <2>3, AddFacts
  <2> QED BY <1>1, <2>4, NumbersFacts DEF Lately
<1> QED BY <1>2, <1>3

(* For any number of pairs and any window: the correlator reports a pair    *)
(* only when both kinds of evidence came within the window, and when they   *)
(* did it has reported it within the window (add_suricata, add_ml).         *)
THEOREM PairsAreFoundExactly == Spec => FindsExactly
<1>1. IInv /\ [Next]_vars => OnlyPairs /\ EveryPair
  BY PairsOnly, PairsAll
<1> QED BY <1>1, InvHolds, PTL DEF Spec, FindsExactly
-----------------------------------------------------------------------------
(* The limiters.  The queue of a limiter is the end of the history of what *)
(* it let through, and what it no longer holds is more than a minute old.   *)

Ascending(h) == \A i, j \in 1 .. Len(h) : i <= j => h[i] <= h[j]
EndsWith(h, s) ==
  /\ Len(s) <= Len(h)
  /\ \A i \in 1 .. Len(s) : s[i] = h[Len(h) - Len(s) + i]
  /\ \A i \in 1 .. Len(h) - Len(s) : Expired(h[i])
Limited(s, h, limit) ==
  /\ s \in Seq(Times)  /\ h \in Seq(Times)  /\ Len(s) <= limit
  /\ Ascending(h)  /\ \A i \in 1 .. Len(h) : h[i] <= now
  /\ EndsWith(h, s)  /\ HeldTo(h, limit)

LEMMA TimeFacts ==
  /\ \A t \in Times : t \in Nat
  /\ Minute \in Nat  /\ RateLimit \in Nat  /\ HookRate \in Nat
BY WindowAssumption, BoundAssumption, RateAssumption DEF Times

LEMMA LimitedFacts ==
  ASSUME NEW s, NEW h, NEW limit, Limited(s, h, limit), now \in Times
  PROVE  /\ Len(s) \in Nat /\ Len(h) \in Nat /\ Len(s) <= Len(h) /\ now \in Nat /\ Minute \in Nat
         /\ \A i \in 1 .. Len(s) : s[i] \in Nat
         /\ \A i \in 1 .. Len(h) : h[i] \in Nat /\ h[i] <= now
         /\ \A i \in 1 .. Len(s) : Len(h) - Len(s) + i \in 1 .. Len(h)
<1>1. Len(s) \in Nat /\ Len(h) \in Nat /\ Len(s) <= Len(h)
  BY LenProperties DEF Limited, EndsWith
<1>2. (\A i \in 1 .. Len(s) : s[i] \in Times) /\ \A i \in 1 .. Len(h) : h[i] \in Times
  BY LenProperties DEF Limited
<1> QED BY <1>1, <1>2, TimeFacts DEF Limited

\* The queue without what has expired: still the end of the history, all of it within the minute.
LEMMA Refreshed ==
  ASSUME NEW s, NEW h, NEW limit \in Nat, Limited(s, h, limit), now \in Times
  PROVE  /\ Limited(Recent(s), h, limit)
         /\ \A i \in 1 .. Len(Recent(s)) : ~Expired(Recent(s)[i])
<1> DEFINE P == {i \in 1 .. Len(s) : \A j \in 1 .. i : Expired(s[j])}
<1>1. /\ Len(s) \in Nat /\ Len(h) \in Nat /\ Len(s) <= Len(h) /\ now \in Nat /\ Minute \in Nat
      /\ \A i \in 1 .. Len(s) : s[i] \in Nat
      /\ \A i \in 1 .. Len(h) : h[i] \in Nat /\ h[i] <= now
      /\ \A i \in 1 .. Len(s) : Len(h) - Len(s) + i \in 1 .. Len(h)
  BY LimitedFacts
<1>2. \A i \in 1 .. Len(s) : s[i] = h[Len(h) - Len(s) + i]
  BY DEF Limited, EndsWith
<1>3. \A i, j \in 1 .. Len(s) : i <= j => s[i] <= s[j]
  <2> SUFFICES ASSUME NEW i \in 1 .. Len(s), NEW j \in 1 .. Len(s), i <= j
               PROVE  s[i] <= s[j]
    OBVIOUS
  <2>1. Len(h) - Len(s) + i <= Len(h) - Len(s) + j
    BY <1>1
  <2> QED BY <1>1, <1>2, <2>1 DEF Limited, Ascending
<1>4. \A i \in 1 .. Len(s) : Expired(s[i]) <=> i \in P
  <2> SUFFICES ASSUME NEW i \in 1 .. Len(s), Expired(s[i]), NEW j \in 1 .. i
               PROVE  Expired(s[j])
    BY <1>1
  <2>1. j \in 1 .. Len(s) /\ s[j] <= s[i]
    BY <1>1, <1>3
  <2> QED BY <1>1, <2>1 DEF Expired
<1>5. P \in SUBSET (1 .. Len(s)) /\ \A i \in P : \A j \in 1 .. i : j \in P
  BY <1>1
<1>6. Recent(s) = SubSeq(s, 1 + Cardinality(P), Len(s))
  BY DEF Recent
<1> HIDE DEF P
<1>7. PICK g : g = Cardinality(P) /\ g \in 0 .. Len(s) /\ \A i \in 1 .. Len(s) : i \in P <=> i <= g
  BY <1>1, <1>5, PrefixLength
<1>8. \A i \in 1 + g .. Len(s) : s[i] \in Times
  BY <1>1, <1>7, LenProperties DEF Limited
<1>9. /\ Recent(s) \in Seq(Times)
      /\ Len(Recent(s)) = IF 1 + g <= Len(s) THEN Len(s) - (1 + g) + 1 ELSE 0
      /\ \A i \in 1 .. Len(s) - (1 + g) + 1 : Recent(s)[i] = s[(1 + g) + i - 1]
  BY <1>1, <1>6, <1>7, <1>8, SubSeqProperties
<1>10. Len(Recent(s)) = Len(s) - g /\ \A i \in 1 .. Len(s) - g : Recent(s)[i] = s[g + i] /\ g + i \in 1 .. Len(s)
  <2>1. PICK n \in Nat : n = Len(s)
    BY <1>1
  <2>2. g \in 0 .. n
    BY <1>7, <2>1
  <2>3. (IF 1 + g <= n THEN n - (1 + g) + 1 ELSE 0) = n - g /\ n - (1 + g) + 1 = n - g
    BY ONLY <2>1, <2>2
  <2>4. \A i \in 1 .. n - g : (1 + g) + i - 1 = g + i /\ g + i \in 1 .. n
    BY ONLY <2>1, <2>2
  <2>5. Len(Recent(s)) = n - g /\ \A i \in 1 .. n - g : Recent(s)[i] = s[(1 + g) + i - 1]
    BY <1>9, <2>1, <2>3
  <2> QED BY ONLY <2>1, <2>4, <2>5
<1>11. \A i \in 1 .. Len(Recent(s)) : ~Expired(Recent(s)[i])
  <2> SUFFICES ASSUME NEW i \in 1 .. Len(s) - g
               PROVE  ~Expired(s[g + i])
    BY <1>10
  <2>1. g + i \in 1 .. Len(s) /\ ~(g + i <= g)
    BY <1>1, <1>7
  <2> QED BY <1>4, <1>7, <2>1
<1>12. \A i \in 1 .. Len(Recent(s)) : Recent(s)[i] = h[Len(h) - Len(Recent(s)) + i]
  <2> SUFFICES ASSUME NEW i \in 1 .. Len(s) - g
               PROVE  s[g + i] = h[Len(h) - (Len(s) - g) + i]
    BY <1>10
  <2>1. Len(h) - Len(s) + (g + i) = Len(h) - (Len(s) - g) + i
    BY <1>1, <1>7
  <2> QED BY <1>2, <1>10, <2>1
<1>13. \A i \in 1 .. Len(h) - Len(Recent(s)) : Expired(h[i])
  <2> SUFFICES ASSUME NEW i \in 1 .. Len(h) - (Len(s) - g)
               PROVE  Expired(h[i])
    BY <1>10
  <2>1. CASE i <= Len(h) - Len(s)
    BY <1>1, <2>1 DEF Limited, EndsWith
  <2>2. CASE i > Len(h) - Len(s)
    <3>1. i - (Len(h) - Len(s)) \in 1 .. Len(s) /\ i - (Len(h) - Len(s)) <= g
          /\ Len(h) - Len(s) + (i - (Len(h) - Len(s))) = i
      BY <1>1, <1>7, <2>2
    <3> QED BY <1>2, <1>4, <1>7, <3>1
  <2> QED BY <1>1, <1>7, <2>1, <2>2
<1>14. EndsWith(h, Recent(s)) /\ Len(Recent(s)) <= limit
  BY <1>1, <1>7, <1>10, <1>12, <1>13 DEF EndsWith, Limited
<1> QED BY <1>9, <1>11, <1>14 DEF Limited

\* What is counted from a time within the last minute is in the queue.
LEMMA CountedFrom ==
  ASSUME NEW s, NEW h, NEW limit \in Nat, Limited(s, h, limit), now \in Times, NEW from \in Nat, from >= now - Minute
  PROVE  /\ IsFiniteSet(InMinute(h, from))
         /\ InMinute(h, from) \subseteq Len(h) - Len(s) + 1 .. Len(h)
<1>1. Len(s) \in Nat /\ Len(h) \in Nat /\ Len(s) <= Len(h) /\ now \in Nat /\ Minute \in Nat
  BY LimitedFacts
<1>2. ASSUME NEW i \in InMinute(h, from)
      PROVE  i \in Len(h) - Len(s) + 1 .. Len(h)
  <2>1. i \in 1 .. Len(h) /\ h[i] \in from .. from + Minute
    BY <1>2 DEF InMinute
  <2>2. ~Expired(h[i])
    BY <1>1, <2>1 DEF Expired
  <2>3. ~(i \in 1 .. Len(h) - Len(s))
    BY <2>2 DEF Limited, EndsWith
  <2> QED BY <1>1, <2>1, <2>3
<1>3. InMinute(h, from) \in SUBSET (1 .. Len(h)) /\ IsFiniteSet(1 .. Len(h))
  BY <1>1, FS_Interval DEF InMinute
<1> QED BY <1>2, <1>3, FS_Subset

\* One more: the minutes it falls into hold what is in the queue and it.
LEMMA OneMore ==
  ASSUME NEW s, NEW h, NEW limit \in Nat, Limited(s, h, limit), now \in Times, Len(s) < limit
  PROVE  Limited(Append(s, now), Append(h, now), limit)
<1> DEFINE t == Append(s, now)  g == Append(h, now)
<1>1. /\ Len(s) \in Nat /\ Len(h) \in Nat /\ Len(s) <= Len(h) /\ now \in Nat /\ Minute \in Nat
      /\ \A i \in 1 .. Len(h) : h[i] \in Nat /\ h[i] <= now
  BY LimitedFacts
<1>2. s \in Seq(Times) /\ h \in Seq(Times)
  BY DEF Limited
<1>3. /\ t \in Seq(Times)  /\ Len(t) = Len(s) + 1  /\ t[Len(s) + 1] = now
      /\ \A i \in 1 .. Len(s) : t[i] = s[i]
  BY <1>2, AppendProperties
<1>4. /\ g \in Seq(Times)  /\ Len(g) = Len(h) + 1  /\ g[Len(h) + 1] = now
      /\ \A i \in 1 .. Len(h) : g[i] = h[i]
  BY <1>2, AppendProperties
<1> HIDE DEF t, g
<1>5. \A i \in 1 .. Len(h) + 1 : i = Len(h) + 1 \/ i \in 1 .. Len(h)
  BY <1>1
<1>6. \A i \in 1 .. Len(g) : g[i] \in Nat /\ g[i] <= now
  BY <1>1, <1>4, <1>5
<1>7. Ascending(g)
  <2> SUFFICES ASSUME NEW i \in 1 .. Len(h) + 1, NEW j \in 1 .. Len(h) + 1, i <= j
               PROVE  g[i] <= g[j]
    BY <1>4 DEF Ascending
  <2>1. CASE j = Len(h) + 1
    BY <1>4, <1>6, <2>1
  <2>2. CASE j # Len(h) + 1
    <3>1. i \in 1 .. Len(h) /\ j \in 1 .. Len(h)
      BY <1>1, <2>2
    <3> QED BY <1>4, <3>1 DEF Limited, Ascending
  <2> QED BY <2>1, <2>2
<1>8. EndsWith(g, t)
  <2>1. Len(g) - Len(t) = Len(h) - Len(s) /\ Len(t) <= Len(g)
    BY <1>1, <1>3, <1>4
  <2>2. ASSUME NEW i \in 1 .. Len(s) + 1
        PROVE  t[i] = g[Len(h) - Len(s) + i]
    <3>1. CASE i = Len(s) + 1
      <4>1. Len(h) - Len(s) + i = Len(h) + 1
        BY <1>1, <3>1
      <4> QED BY <1>3, <1>4, <3>1, <4>1
    <3>2. CASE i # Len(s) + 1
      <4>1. i \in 1 .. Len(s) /\ Len(h) - Len(s) + i \in 1 .. Len(h)
        BY <1>1, <3>2
      <4>2. s[i] = h[Len(h) - Len(s) + i]
        BY <4>1 DEF Limited, EndsWith
      <4> QED BY <1>3, <1>4, <4>1, <4>2
    <3> QED BY <3>1, <3>2
  <2>3. ASSUME NEW i \in 1 .. Len(h) - Len(s)
        PROVE  Expired(g[i])
    <3>1. i \in 1 .. Len(h)
      BY <1>1
    <3>2. Expired(h[i])
      BY DEF Limited, EndsWith
    <3> QED BY <1>4, <3>1, <3>2
  <2>4. \A i \in 1 .. Len(t) : t[i] = g[Len(g) - Len(t) + i]
    BY <1>3, <2>1, <2>2
  <2>5. \A i \in 1 .. Len(g) - Len(t) : Expired(g[i])
    BY <2>1, <2>3
  <2> QED BY <2>1, <2>4, <2>5 DEF EndsWith
<1>9. ASSUME NEW from \in Nat, from >= now - Minute
      PROVE  Cardinality(InMinute(g, from)) <= limit
  <2>1. InMinute(h, from) \subseteq Len(h) - Len(s) + 1 .. Len(h)
    BY <1>9, CountedFrom
  <2>2. InMinute(g, from) \subseteq InMinute(h, from) \cup {Len(h) + 1}
    BY <1>4, <1>5 DEF InMinute
  <2>3. InMinute(g, from) \in SUBSET (Len(h) - Len(s) + 1 .. Len(h) + 1)
    BY <1>1, <2>1, <2>2
  <2>4. /\ IsFiniteSet(Len(h) - Len(s) + 1 .. Len(h) + 1)
        /\ Cardinality(Len(h) - Len(s) + 1 .. Len(h) + 1) = Len(s) + 1
    <3>1. Len(h) - Len(s) + 1 \in Int /\ Len(h) + 1 \in Int
          /\ ~(Len(h) - Len(s) + 1 > Len(h) + 1) /\ (Len(h) + 1) - (Len(h) - Len(s) + 1) + 1 = Len(s) + 1
      BY <1>1
    <3> QED BY <3>1, FS_Interval
  <2>5. Cardinality(InMinute(g, from)) \in Nat /\ Cardinality(InMinute(g, from)) <= Len(s) + 1
    BY <2>3, <2>4, FS_Subset, FS_CardinalityType
  <2> QED BY <1>1, <2>5
<1>10. HeldTo(g, limit)
  <2> SUFFICES ASSUME NEW i \in 1 .. Len(h) + 1
               PROVE  Cardinality(InMinute(g, g[i])) <= limit
    BY <1>4 DEF HeldTo
  <2>0. g[i] \in Nat
    BY <1>4, <1>6
  <2>1. CASE g[i] >= now - Minute
    BY <1>9, <2>0, <2>1
  <2>2. CASE ~(g[i] >= now - Minute)
    <3>1. i \in 1 .. Len(h) /\ g[i] = h[i] /\ ~(now \in g[i] .. g[i] + Minute)
      BY <1>1, <1>4, <1>5, <2>0, <2>2
    <3>2. InMinute(g, g[i]) = InMinute(h, h[i])
      BY <1>4, <1>5, <3>1 DEF InMinute
    <3> QED BY <3>1, <3>2 DEF Limited, HeldTo
  <2> QED BY <2>1, <2>2
<1>11. Len(t) <= limit
  BY <1>1, <1>3
<1> QED BY <1>3, <1>4, <1>6, <1>7, <1>8, <1>10, <1>11 DEF Limited, t, g

\* A queue that is full within the minute: the minute is full.
LEMMA FullMinute ==
  ASSUME NEW s, NEW h, NEW limit \in Nat, Limited(s, h, limit), now \in Times, ~(Len(s) < limit),
         \A i \in 1 .. Len(s) : ~Expired(s[i])
  PROVE  Cardinality(InMinute(h, now - Minute)) >= limit
<1>1. /\ Len(s) \in Nat /\ Len(h) \in Nat /\ Len(s) <= Len(h) /\ now \in Nat /\ Minute \in Nat
      /\ \A i \in 1 .. Len(h) : h[i] \in Nat /\ h[i] <= now
  BY LimitedFacts
<1> DEFINE L == Len(h) - Len(s) + 1 .. Len(h)
<1>2. ASSUME NEW i \in L
      PROVE  i \in InMinute(h, now - Minute)
  <2>1. i \in 1 .. Len(h) /\ i - (Len(h) - Len(s)) \in 1 .. Len(s)
        /\ Len(h) - Len(s) + (i - (Len(h) - Len(s))) = i
    BY <1>1
  <2>2. s[i - (Len(h) - Len(s))] = h[i]
    BY <2>1 DEF Limited, EndsWith
  <2>3. ~Expired(h[i])
    BY <2>1, <2>2
  <2>4. h[i] \in (now - Minute) .. ((now - Minute) + Minute)
    BY <1>1, <2>1, <2>3 DEF Expired
  <2> QED BY <2>1, <2>4 DEF InMinute
<1>3. IsFiniteSet(InMinute(h, now - Minute))
  <2>1. InMinute(h, now - Minute) \in SUBSET (1 .. Len(h)) /\ IsFiniteSet(1 .. Len(h))
    BY <1>1, FS_Interval DEF InMinute
  <2> QED BY <2>1, FS_Subset
<1>4. Cardinality(L) = Len(s)
  <2>1. Len(h) - Len(s) + 1 \in Int /\ Len(h) \in Int /\ Len(h) - (Len(h) - Len(s) + 1) + 1 = Len(s)
        /\ (Len(h) - Len(s) + 1 > Len(h) => Len(s) = 0)
    BY <1>1
  <2> QED BY <2>1, FS_Interval
<1>5. L \in SUBSET InMinute(h, now - Minute)
  BY <1>2
<1> HIDE DEF L
<1>6. Cardinality(L) <= Cardinality(InMinute(h, now - Minute)) /\ Cardinality(InMinute(h, now - Minute)) \in Nat
  BY <1>3, <1>5, FS_Subset, FS_CardinalityType
<1> QED BY <1>1, <1>4, <1>6, LenProperties DEF Limited

RateInv ==
  /\ IInv  /\ arrived \in 0 .. MaxEvents  /\ posts \in [Posters -> Seq(Times)]
  /\ Limited(stamps, raised, RateLimit)  /\ Limited(hook, posts["monitor"], HookRate)

LEMMA NothingIsHeld == ASSUME NEW limit \in Nat PROVE Limited(<<>>, <<>>, limit)
<1>1. <<>> \in Seq(Times) /\ Len(<<>>) = 0 /\ 1 .. 0 = {}
  BY EmptySeq
<1>2. EndsWith(<<>>, <<>>)
  BY <1>1 DEF EndsWith
<1> QED BY <1>1, <1>2 DEF Limited, Ascending, HeldTo

LEMMA RateInit == ASSUME Init PROVE RateInv
<1>1. /\ stamps = <<>>  /\ raised = <<>>  /\ hook = <<>>  /\ posts = [by \in Posters |-> <<>>]  /\ arrived = 0
  BY DEF Init
<1>2. posts["monitor"] = <<>> /\ posts \in [Posters -> Seq(Times)] /\ arrived \in 0 .. MaxEvents
  BY <1>1, EmptySeq, BoundAssumption DEF Posters
<1> QED BY <1>1, <1>2, InitInv, NothingIsHeld, TimeFacts DEF RateInv

\* What Raise does to the two limiters.
LEMMA PostFacts ==
  ASSUME RateInv, Post
  PROVE  posts' \in [Posters -> Seq(Times)] /\ Limited(hook', posts'["monitor"], HookRate)
<1>0. now \in Times /\ HookRate \in Nat /\ Limited(hook, posts["monitor"], HookRate)
  BY TimeFacts DEF RateInv, IInv, Types
<1>1. CASE UNCHANGED <<hook, posts>>
  BY <1>0, <1>1 DEF RateInv
<1>2. CASE /\ Room(Recent(hook), HookRate)
           /\ hook' = Append(Recent(hook), now) /\ posts' = [posts EXCEPT !["monitor"] = Append(@, now)]
  <2>1. Limited(Append(Recent(hook), now), Append(posts["monitor"], now), HookRate)
    BY <1>0, <1>2, Refreshed, OneMore DEF Room
  <2>2. posts'["monitor"] = Append(posts["monitor"], now) /\ posts' \in [Posters -> Seq(Times)]
    <3>1. "monitor" \in Posters /\ Append(posts["monitor"], now) \in Seq(Times)
      BY <1>0, AppendProperties DEF RateInv, Posters
    <3> QED BY <1>2, <3>1 DEF RateInv
  <2> QED BY <1>2, <2>1, <2>2
<1>3. CASE hook' = Recent(hook) /\ posts' = posts
  BY <1>0, <1>3, Refreshed DEF RateInv
<1> QED BY <1>1, <1>2, <1>3 DEF Post

LEMMA RaiseFacts ==
  ASSUME RateInv, Raise
  PROVE  /\ posts' \in [Posters -> Seq(Times)]
         /\ Limited(stamps', raised', RateLimit)  /\ Limited(hook', posts'["monitor"], HookRate)
         /\ raised' = raised => Cardinality(InMinute(raised, now - Minute)) >= RateLimit
<1>0. now \in Times /\ RateLimit \in Nat /\ Limited(stamps, raised, RateLimit)
  BY TimeFacts DEF RateInv, IInv, Types
<1>1. Limited(Recent(stamps), raised, RateLimit) /\ \A i \in 1 .. Len(Recent(stamps)) : ~Expired(Recent(stamps)[i])
  BY <1>0, Refreshed
<1>2. CASE Room(Recent(stamps), RateLimit)
  <2>1. stamps' = Append(Recent(stamps), now) /\ raised' = Append(raised, now) /\ Post
    BY <1>2 DEF Raise
  <2>2. Limited(Append(Recent(stamps), now), Append(raised, now), RateLimit)
    BY <1>0, <1>1, <1>2, OneMore DEF Room
  <2>3. raised' # raised
    <3>1. raised \in Seq(Times)
      BY <1>0 DEF Limited
    <3>2. Len(Append(raised, now)) = Len(raised) + 1 /\ Len(raised) \in Nat
      BY <1>0, <3>1, AppendProperties, LenProperties
    <3> QED BY <2>1, <3>2
  <2> QED BY <2>1, <2>2, <2>3, PostFacts
<1>3. CASE ~Room(Recent(stamps), RateLimit)
  <2>1. stamps' = Recent(stamps) /\ UNCHANGED <<raised, hook, posts>>
    BY <1>3 DEF Raise
  <2>2. Cardinality(InMinute(raised, now - Minute)) >= RateLimit
    BY <1>0, <1>1, <1>3, FullMinute DEF Room
  <2> QED BY <1>1, <2>1, <2>2 DEF RateInv
<1> QED BY <1>2, <1>3

LEMMA RateStep == ASSUME RateInv, [Next]_vars PROVE RateInv'
<1>0. IInv' /\ now \in Times
  BY NextInv DEF RateInv, IInv, Types
<1>1. ASSUME UNCHANGED <<now, limiters>>, arrived' \in 0 .. MaxEvents
      PROVE  RateInv'
  BY <1>0, <1>1 DEF RateInv, limiters, Limited, EndsWith, Expired, Ascending, HeldTo, InMinute, Times
<1>2. ASSUME Emit \/ EmitCorrelation
      PROVE  RateInv'
  <2>1. Raise /\ now' = now /\ arrived' = arrived
    BY <1>2 DEF Emit, EmitCorrelation
  <2>2. posts' \in [Posters -> Seq(Times)] /\ Limited(stamps', raised', RateLimit) /\ Limited(hook', posts'["monitor"], HookRate)
    BY <2>1, RaiseFacts
  <2>3. Limited(stamps, raised, RateLimit)' /\ Limited(hook, posts["monitor"], HookRate)'
    BY <2>1, <2>2 DEF Limited, EndsWith, Expired, Ascending, HeldTo, InMinute, Times
  <2> QED BY <1>0, <2>1, <2>2, <2>3 DEF RateInv
<1>3. CASE EmitPrepared
  <2>1. /\ posts' = [posts EXCEPT !["llm"] = Append(@, now)]  /\ UNCHANGED <<now, stamps, hook, raised>>
        /\ arrived' = arrived + 1 /\ arrived < MaxEvents
    BY <1>3 DEF EmitPrepared
  <2>2. "llm" \in Posters /\ "monitor" \in Posters /\ posts \in [Posters -> Seq(Times)]
    BY DEF Posters, RateInv
  <2>3. Append(posts["llm"], now) \in Seq(Times)
    BY <1>0, <2>2, AppendProperties
  <2>4. posts' \in [Posters -> Seq(Times)] /\ posts'["monitor"] = posts["monitor"]
    BY <2>1, <2>2, <2>3
  <2>5. arrived' \in 0 .. MaxEvents
    BY <2>1, BoundAssumption DEF RateInv
  <2>6. Limited(stamps, raised, RateLimit)' /\ Limited(hook, posts["monitor"], HookRate)'
    BY <2>1, <2>4 DEF RateInv, Limited, EndsWith, Expired, Ascending, HeldTo, InMinute, Times
  <2> QED BY <1>0, <2>4, <2>5, <2>6 DEF RateInv
<1>4. CASE Tick
  <2>1. now' = now + 1 /\ UNCHANGED <<stamps, hook, raised, posts, arrived>>
    BY <1>4 DEF Tick, limiters
  <2>2. ASSUME NEW h \in Seq(Times), NEW i \in 1 .. Len(h)
        PROVE  /\ h[i] <= now => h[i] <= now + 1
               /\ h[i] < now - Minute => h[i] < (now + 1) - Minute
    <3>1. h[i] \in Nat /\ now \in Nat /\ Minute \in Nat
      BY <1>0, LenProperties, TimeFacts
    <3> QED BY <3>1
  <2>3. Limited(stamps, raised, RateLimit)'
    <3>0. Limited(stamps, raised, RateLimit) /\ Len(stamps) \in Nat /\ Len(raised) \in Nat /\ raised \in Seq(Times)
      BY LenProperties DEF RateInv, Limited
    <3>1. \A i \in 1 .. Len(raised) - Len(stamps) : i \in 1 .. Len(raised)
      BY <3>0
    <3>2. EndsWith(raised, stamps)'
      BY <2>1, <2>2, <3>0, <3>1 DEF Limited, EndsWith, Expired
    <3>3. \A i \in 1 .. Len(raised) : raised[i] <= now'
      BY <2>1, <2>2, <3>0 DEF Limited
    <3> QED BY <2>1, <3>0, <3>2, <3>3 DEF Limited, Ascending, HeldTo, InMinute, Times
  <2>4. Limited(hook, posts["monitor"], HookRate)'
    <3>0. /\ Limited(hook, posts["monitor"], HookRate) /\ Len(hook) \in Nat /\ Len(posts["monitor"]) \in Nat
          /\ posts["monitor"] \in Seq(Times)
      BY LenProperties DEF RateInv, Limited
    <3>1. \A i \in 1 .. Len(posts["monitor"]) - Len(hook) : i \in 1 .. Len(posts["monitor"])
      BY <3>0
    <3>2. EndsWith(posts["monitor"], hook)'
      BY <2>1, <2>2, <3>0, <3>1 DEF Limited, EndsWith, Expired
    <3>3. \A i \in 1 .. Len(posts["monitor"]) : posts["monitor"][i] <= now'
      BY <2>1, <2>2, <3>0 DEF Limited
    <3> QED BY <2>1, <3>0, <3>2, <3>3 DEF Limited, Ascending, HeldTo, InMinute, Times
  <2> QED BY <1>0, <2>1, <2>3, <2>4 DEF RateInv
<1>5. CASE \E kind \in Kinds, k \in Keys : Arrive(kind, k)
  <2>1. UNCHANGED <<now, limiters>> /\ arrived' = arrived + 1 /\ arrived < MaxEvents
    BY <1>5 DEF Arrive
  <2>2. arrived' \in 0 .. MaxEvents
    BY <2>1, BoundAssumption DEF RateInv
  <2> QED BY <1>1, <2>1, <2>2
<1>6. CASE Correlate
  BY <1>1, <1>6 DEF Correlate, RateInv
<1>7. CASE UNCHANGED vars
  BY <1>1, <1>7 DEF vars, RateInv
<1> QED BY <1>2, <1>3, <1>4, <1>5, <1>6, <1>7 DEF Next

LEMMA RatesHold == Spec => []RateInv
BY RateInit, RateStep, PTL DEF Spec

(* For any limits and any minute: no minute, wherever it begins, holds more *)
(* alerts or posts of the monitor than its limit, and an alert is refused   *)
(* only when the minute before it is full (_allowed of AlertService and of  *)
(* WebhookNotifier).                                                        *)
THEOREM LimitsAreExact == Spec => RatesAreExact
<1>1. ASSUME RateInv, [Next]_vars
      PROVE  /\ RatesHeld'
             /\ (Emit \/ EmitCorrelation) /\ raised' = raised => Cardinality(InMinute(raised, now - Minute)) >= RateLimit
  <2>1. RateInv'
    BY <1>1, RateStep
  <2>2. RatesHeld'
    BY <2>1 DEF RateInv, Limited, RatesHeld
  <2>3. ASSUME Emit \/ EmitCorrelation
        PROVE  Raise
    BY <2>3 DEF Emit, EmitCorrelation
  <2> QED BY <1>1, <2>2, <2>3, RaiseFacts
<1>2. RateInv /\ [Next]_vars =>
        [/\ RatesHeld'
         /\ (Emit \/ EmitCorrelation) /\ raised' = raised => Cardinality(InMinute(raised, now - Minute)) >= RateLimit]_vars
  BY <1>1
<1> QED BY <1>2, RatesHold, PTL DEF Spec, RatesAreExact

(* A muted pair has a signature in the feed, and the state its types: the   *)
(* queues of both limiters are within their bounds.                         *)
THEOREM MutesEnd == Spec => []MutesAreLifted
<1>1. RateInv => TypeOK
  BY DEF RateInv, Limited, IInv, Types, TypeOK
<1>2. RateInv => MutesLift
  BY DEF RateInv, IInv, Muting, MutesLift
<1>3. RateInv => MutesAreLifted
  BY <1>1, <1>2 DEF MutesAreLifted
<1> QED BY <1>3, RatesHold, PTL

-----------------------------------------------------------------------------
(* The stream of alerts.  Until the program restarts an alert has at most   *)
(* one row in memory, unless it met a clash: the file has lines only when   *)
(* memory has rows, so that whoever reads it comes too late.  A row that    *)
(* says "running" is of an investigation that has still to write its end.   *)

Patches == {"enhance", "begin", "run"}
StreamJobs == [kind : Stream!Kinds, at : Stream!Places, id : Stream!Ids, rows : Seq(Stream!RowType), place : Nat,
               moved : BOOLEAN, merged : Stream!RowType, was : Stream!RowType]

\* What a job does where it is, while n rows are in memory.
Does(j, n) == /\ j.at \in {"hydrate", "load", "fill", "find"} => j.kind \in Patches \cup {"read"}
              /\ j.at \in {"put", "log"} => j.kind \in Patches
              /\ j.at = "put" => j.place \in 1 .. n
              /\ j.at = "fill" => j.rows # <<>>
StreamTypes ==
  /\ recent \in Seq(Stream!RowType)  /\ Len(recent) <= MaxRecent  /\ file \in Seq(Stream!RowType)
  /\ job \in [Threads -> StreamJobs]  /\ \A t \in Threads : Does(job[t], Len(recent))
  /\ alerts \in 0 .. MaxAlerts  /\ jobs \in 0 .. MaxJobs  /\ restarts \in 0 .. MaxRestarts
  /\ patched \in [Stream!Ids -> SUBSET Patches]  /\ clash \subseteq Stream!Ids

\* Rows of the first alerts that were written, count of them.
Written(rs, count) == \A n \in 1 .. Len(rs) : rs[n].id <= count
\* What a job knows of the alerts: count of them were written, those of C met a clash.
Fits(j, count, C) ==
  /\ j.kind \in Patches => j.id <= count
  /\ j.at = "put" => j.was.id = j.id /\ j.merged = Stream!Merged(j.kind, j.was)
  /\ j.at = "fill" => Written(j.rows, count) /\ \A n \in 1 .. Len(j.rows) : j.rows[n].id \in C
  /\ j.at \in {"line", "log"} => j.merged.id <= count
\* It will write the end of the investigation of alert i.
Driving(j, i) == j.id = i /\ \/ j.kind = "begin" /\ j.at = "log"
                             \/ j.kind = "run" /\ j.at \in {"hydrate", "load", "fill", "find", "put"}
\* Another thread's write or fill tells a search only that the rows were moved.
Same(j, k) == /\ k.kind = j.kind /\ k.at = j.at /\ k.id = j.id /\ k.rows = j.rows
              /\ k.place = j.place /\ k.merged = j.merged /\ k.was = j.was
\* A row shows the updates that were made.
Shows(r, made) == /\ "enhance" \in made => r.enhanced = TRUE
                  /\ "run" \in made => r.investigation = "ended"

Filled  == (alerts > 0 => recent # <<>>) /\ Written(file, alerts)
Placed  == /\ Written(recent, alerts)
           /\ \A p, q \in 1 .. Len(recent) : recent[p].id = recent[q].id /\ recent[p].id \notin clash => p = q
Unmade  == \A i \in Stream!Ids : patched[i] # {} => i <= alerts
Fitting == \A t \in Threads : Fits(job[t], alerts, clash)
Showing == \A p \in 1 .. Len(recent) : recent[p].id \notin clash => Shows(recent[p], patched[recent[p].id])
Driven  == \A p \in 1 .. Len(recent) : recent[p].id \notin clash /\ recent[p].investigation = "running" =>
             \E t \in Threads : Driving(job[t], recent[p].id)

FirstRun  == Filled /\ Placed /\ Unmade /\ Fitting /\ Showing /\ Driven
StreamInv == StreamTypes /\ (restarts = 0 => FirstRun)

-----------------------------------------------------------------------------
(* Sequences of rows.                                                       *)

\* A set of places has a first.
LEMMA LeastPlace ==
  ASSUME NEW n \in Nat, NEW S \in SUBSET (1 .. n), S # {}
  PROVE  \E m \in S : \A k \in S : m <= k
<1> DEFINE P == {k \in 1 .. n : \A j \in 1 .. k : j \notin S}
<1>1. P \in SUBSET (1 .. n) /\ \A i \in P : \A j \in 1 .. i : j \in P
  OBVIOUS
<1>2. \A i \in S : i \notin P
  OBVIOUS
<1>3. \A k \in 1 .. n : k \notin P => \E j \in 1 .. k : j \in S
  OBVIOUS
<1> HIDE DEF P
<1>4. PICK c : c = Cardinality(P) /\ c \in 0 .. n /\ \A i \in 1 .. n : i \in P <=> i <= c
  BY <1>1, PrefixLength
<1>5. c + 1 \in 1 .. n /\ \A k \in S : c + 1 <= k
  <2>1. ASSUME NEW k \in S
        PROVE  k \in 1 .. n /\ c + 1 <= k
    <3>1. k \in 1 .. n /\ ~(k <= c)
      BY <1>2, <1>4
    <3> QED BY <1>4, <3>1
  <2>2. PICK k : k \in S
    OBVIOUS
  <2>3. k \in 1 .. n /\ c + 1 <= k
    BY <2>1, <2>2
  <2>4. c + 1 \in 1 .. n
    BY <1>4, <2>3
  <2> QED BY <2>1, <2>4
<1>6. c + 1 \notin P
  BY <1>4, <1>5
<1>7. PICK j \in 1 .. c + 1 : j \in S
  BY <1>3, <1>5, <1>6
<1>8. j = c + 1
  BY <1>4, <1>5, <1>7
<1> QED BY <1>5, <1>7, <1>8

LEMMA FirstIsOne ==
  ASSUME NEW n \in Nat, NEW S \in SUBSET (1 .. n), S # {}
  PROVE  Stream!First(S) \in S
BY LeastPlace DEF Stream!First

LEMMA LastOfFacts ==
  ASSUME NEW s \in Seq(Stream!RowType), NEW n \in Nat
  PROVE  /\ Stream!LastOf(s, n) \in Seq(Stream!RowType)
         /\ Len(Stream!LastOf(s, n)) = IF Len(s) < n THEN Len(s) ELSE n
         /\ \A p \in 1 .. Len(Stream!LastOf(s, n)) :
              Stream!LastOf(s, n)[p] = s[Len(s) - Len(Stream!LastOf(s, n)) + p]
<1> DEFINE m == IF Len(s) < n THEN Len(s) ELSE n
<1>1. Len(s) \in Nat /\ m \in Nat /\ m <= Len(s)
  BY LenProperties
<1>2. Stream!LastOf(s, n) = SubSeq(s, Len(s) - m + 1, Len(s))
  BY DEF Stream!LastOf
<1>3. \A i \in Len(s) - m + 1 .. Len(s) : s[i] \in Stream!RowType
  BY <1>1, LenProperties
<1>4. Len(s) - m + 1 \in Int /\ Len(s) \in Int
  BY <1>1
<1>5. /\ SubSeq(s, Len(s) - m + 1, Len(s)) \in Seq(Stream!RowType)
      /\ Len(SubSeq(s, Len(s) - m + 1, Len(s)))
           = IF Len(s) - m + 1 <= Len(s) THEN Len(s) - (Len(s) - m + 1) + 1 ELSE 0
      /\ \A i \in 1 .. Len(s) - (Len(s) - m + 1) + 1 :
           SubSeq(s, Len(s) - m + 1, Len(s))[i] = s[(Len(s) - m + 1) + i - 1]
  <2> DEFINE b == Len(s) - m + 1  e == Len(s)
  <2>1. b \in Int /\ e \in Int /\ \A i \in b .. e : s[i] \in Stream!RowType
    BY <1>3, <1>4
  <2> HIDE DEF b, e
  <2>2. /\ SubSeq(s, b, e) \in Seq(Stream!RowType)
        /\ Len(SubSeq(s, b, e)) = IF b <= e THEN e - b + 1 ELSE 0
        /\ \A i \in 1 .. e - b + 1 : SubSeq(s, b, e)[i] = s[b + i - 1]
    BY <2>1, SubSeqProperties
  <2> QED BY <2>2 DEF b, e
<1>6. Len(Stream!LastOf(s, n)) = m
  BY <1>1, <1>2, <1>5
<1>7. \A p \in 1 .. m : Stream!LastOf(s, n)[p] = s[Len(s) - m + p]
  <2> SUFFICES ASSUME NEW p \in 1 .. m
               PROVE  Stream!LastOf(s, n)[p] = s[Len(s) - m + p]
    OBVIOUS
  <2>1. p \in 1 .. Len(s) - (Len(s) - m + 1) + 1 /\ (Len(s) - m + 1) + p - 1 = Len(s) - m + p
    BY <1>1
  <2> QED BY <1>2, <1>5, <2>1
<1> QED BY <1>2, <1>5, <1>6, <1>7

LEMMA RowIds ==
  ASSUME NEW rs \in Seq(Stream!RowType)
  PROVE  /\ Len(rs) \in Nat /\ DOMAIN rs = 1 .. Len(rs)
         /\ \A n \in 1 .. Len(rs) : rs[n] \in Stream!RowType /\ rs[n].id \in Stream!Ids /\ rs[n].id \in Nat
<1>1. Len(rs) \in Nat /\ rs \in [1 .. Len(rs) -> Stream!RowType]
  BY LenProperties
<1>2. \A r \in Stream!RowType : r.id \in Stream!Ids
  BY DEF Stream!RowType
<1>3. \A i \in Stream!Ids : i \in Nat
  BY StreamAssumption DEF Stream!Sane, Stream!Ids
<1> QED BY <1>1, <1>2, <1>3

\* append to the deque
LEMMA AppendedFacts ==
  ASSUME recent \in Seq(Stream!RowType), NEW row \in Stream!RowType, Len(recent) <= MaxRecent
  PROVE  LET new == Stream!Appended(<<row>>)  n == Len(recent) IN
         /\ new \in Seq(Stream!RowType)
         /\ Len(new) = IF n < MaxRecent THEN n + 1 ELSE MaxRecent
         /\ \A p \in 1 .. Len(new) : new[p] = IF p = Len(new) THEN row ELSE recent[n + 1 - Len(new) + p]
<1> DEFINE all == recent \o <<row>>  new == Stream!LastOf(all, MaxRecent)
<1>0. Len(recent) \in Nat /\ MaxRecent \in Nat \ {0} /\ Stream!Appended(<<row>>) = new
  BY LenProperties, StreamAssumption DEF Stream!Sane, Stream!Appended
<1>1. <<row>> \in Seq(Stream!RowType) /\ Len(<<row>>) = 1 /\ <<row>>[1] = row
  OBVIOUS
<1>2. /\ all \in Seq(Stream!RowType)  /\ Len(all) = Len(recent) + 1
      /\ \A i \in 1 .. Len(recent) + 1 : all[i] = IF i <= Len(recent) THEN recent[i] ELSE <<row>>[i - Len(recent)]
  BY <1>1, ConcatProperties
<1> HIDE DEF all
<1>3. /\ new \in Seq(Stream!RowType)  /\ Len(new) = IF Len(all) < MaxRecent THEN Len(all) ELSE MaxRecent
      /\ \A p \in 1 .. Len(new) : new[p] = all[Len(all) - Len(new) + p]
  BY <1>0, <1>2, LastOfFacts
<1> HIDE DEF new
<1>4. Len(new) = IF Len(recent) < MaxRecent THEN Len(recent) + 1 ELSE MaxRecent
  BY <1>0, <1>2, <1>3
<1>5. ASSUME NEW p \in 1 .. Len(new)
      PROVE  new[p] = IF p = Len(new) THEN row ELSE recent[Len(recent) + 1 - Len(new) + p]
  <2>0. Len(recent) + 1 - Len(new) + p \in 1 .. Len(recent) + 1
    BY <1>0, <1>4
  <2>1. new[p] = all[Len(recent) + 1 - Len(new) + p]
    <3>1. new[p] = all[Len(all) - Len(new) + p]
      BY <1>3
    <3>2. Len(all) = Len(recent) + 1
      BY <1>2
    <3> QED BY <3>1, <3>2
  <2>2. CASE p = Len(new)
    <3>1. Len(recent) + 1 - Len(new) + p = Len(recent) + 1 /\ ~(Len(recent) + 1 <= Len(recent)) /\ Len(recent) + 1 - Len(recent) = 1
      BY <1>0, <1>4, <2>2
    <3> QED BY <1>1, <1>2, <2>0, <2>1, <2>2, <3>1
  <2>3. CASE p # Len(new)
    <3>1. Len(recent) + 1 - Len(new) + p <= Len(recent)
      BY <1>0, <1>4, <2>3
    <3> QED BY <1>2, <2>0, <2>1, <2>3, <3>1
  <2> QED BY <2>2, <2>3
<1> QED BY <1>0, <1>3, <1>4, <1>5

-----------------------------------------------------------------------------
(* The invariant holds at first, and every step keeps it.                   *)

LEMMA StreamBounds ==
  /\ MaxRecent \in Nat \ {0} /\ MaxAlerts \in Nat \ {0} /\ MaxJobs \in Nat /\ MaxRestarts \in Nat
  /\ Stream!NoRow \in Stream!RowType /\ Stream!NoRow.id = 1 /\ Stream!NoRow.enhanced = FALSE
  /\ Stream!NoRow.investigation = "none"
<1>1. /\ MaxRecent \in Nat \ {0} /\ MaxAlerts \in Nat \ {0} /\ MaxJobs \in Nat /\ MaxRestarts \in Nat
  BY StreamAssumption DEF Stream!Sane
<1>2. 1 \in 1 .. MaxAlerts
  BY <1>1
<1> QED BY <1>1, <1>2 DEF Stream!NoRow, Stream!RowType, Stream!Ids, Stream!States

LEMMA IdleFacts ==
  /\ Stream!Idle \in StreamJobs /\ Stream!Idle.kind = "idle" /\ Stream!Idle.at = "idle"
  /\ \A n, count, C : Does(Stream!Idle, n) /\ Fits(Stream!Idle, count, C)
  /\ \A i : ~Driving(Stream!Idle, i)
<1>1. /\ Stream!Idle.kind = "idle" /\ Stream!Idle.at = "idle" /\ Stream!Idle.id = 1 /\ Stream!Idle.rows = <<>>
      /\ Stream!Idle.place = 0 /\ Stream!Idle.moved = FALSE /\ Stream!Idle.merged = Stream!NoRow /\ Stream!Idle.was = Stream!NoRow
  BY DEF Stream!Idle
<1>2. 1 \in Stream!Ids /\ Stream!NoRow \in Stream!RowType /\ <<>> \in Seq(Stream!RowType)
  BY StreamBounds, EmptySeq DEF Stream!Ids
<1>3. Stream!Idle \in StreamJobs
  BY <1>2 DEF Stream!Idle, StreamJobs, Stream!Kinds, Stream!Places
<1> QED BY <1>1, <1>3 DEF Does, Fits, Driving, Patches

LEMMA StreamInit == Stream!Init => StreamInv
<1> SUFFICES ASSUME Stream!Init
             PROVE  StreamInv
  OBVIOUS
<1>1. /\ recent = <<>> /\ file = <<>> /\ job = [t \in Threads |-> Stream!Idle] /\ alerts = 0 /\ jobs = 0 /\ restarts = 0
      /\ patched = [i \in Stream!Ids |-> {}] /\ clash = {}
  BY DEF Stream!Init
<1>2. recent \in Seq(Stream!RowType) /\ Len(recent) = 0 /\ file \in Seq(Stream!RowType)
  BY <1>1, EmptySeq
<1>3. job \in [Threads -> StreamJobs] /\ \A t \in Threads : job[t] = Stream!Idle
  BY <1>1, IdleFacts
<1>4. StreamTypes
  BY <1>1, <1>2, <1>3, IdleFacts, StreamBounds DEF StreamTypes
<1>5. FirstRun
  <2>1. Filled /\ Placed /\ Showing /\ Driven
    BY <1>1, <1>2, EmptySeq DEF Filled, Placed, Written, Showing, Driven
  <2>2. Unmade /\ Fitting
    BY <1>1, <1>3, IdleFacts DEF Unmade, Fitting
  <2> QED BY <2>1, <2>2 DEF FirstRun
<1> QED BY <1>4, <1>5 DEF StreamInv

\* What the invariant says of a job, field by field.
LEMMA JobFields ==
  ASSUME StreamInv, NEW t \in Threads
  PROVE  /\ job \in [Threads -> StreamJobs] /\ job[t] \in StreamJobs /\ Does(job[t], Len(recent))
         /\ job[t].id \in Stream!Ids /\ job[t].rows \in Seq(Stream!RowType) /\ job[t].merged \in Stream!RowType
         /\ job[t].was \in Stream!RowType /\ job[t].place \in Nat
         /\ restarts = 0 => Fits(job[t], alerts, clash)
<1>1. job \in [Threads -> StreamJobs] /\ job[t] \in StreamJobs /\ Does(job[t], Len(recent))
  BY DEF StreamInv, StreamTypes
<1>2. restarts = 0 => Fits(job[t], alerts, clash)
  BY DEF StreamInv, FirstRun, Fitting
<1> QED BY <1>1, <1>2 DEF StreamJobs

\* The other threads see at most that rows moved.
LEMMA NoticedFacts ==
  ASSUME StreamInv, NEW t \in Threads
  PROVE  /\ Stream!Noticed(t) \in [Threads -> StreamJobs]
         /\ Stream!Noticed(t)[t] = job[t]
         /\ \A d \in Threads : Same(job[d], Stream!Noticed(t)[d])
<1>1. ASSUME NEW d \in Threads
      PROVE  Stream!Noticed(t)[d] \in StreamJobs /\ Same(job[d], Stream!Noticed(t)[d])
  <2>1. job[d] \in StreamJobs
    BY JobFields
  <2>2. [job[d] EXCEPT !.moved = TRUE] \in StreamJobs /\ Same(job[d], [job[d] EXCEPT !.moved = TRUE])
    BY <2>1 DEF StreamJobs, Same
  <2>3. Same(job[d], job[d])
    BY DEF Same
  <2>4. Stream!Noticed(t)[d] = job[d] \/ Stream!Noticed(t)[d] = [job[d] EXCEPT !.moved = TRUE]
    BY DEF Stream!Noticed
  <2> QED BY <2>1, <2>2, <2>3, <2>4
<1>2. Stream!Noticed(t)[t] = job[t]
  BY DEF Stream!Noticed
<1>3. Stream!Noticed(t) = [d \in Threads |-> Stream!Noticed(t)[d]]
  BY DEF Stream!Noticed
<1> QED BY <1>1, <1>2, <1>3

\* A step that gives a thread another job and does no more to the rows.
LEMMA OneJobChanges ==
  ASSUME StreamInv, NEW t \in Threads, NEW j \in StreamJobs, job' = [job EXCEPT ![t] = j],
         Does(j, Len(recent)), restarts = 0 => Fits(j, alerts, clash'),
         file' \in Seq(Stream!RowType), restarts = 0 => Written(file', alerts),
         jobs' \in 0 .. MaxJobs, clash \subseteq clash', clash' \subseteq Stream!Ids,
         UNCHANGED <<recent, alerts, restarts, patched>>,
         restarts = 0 => \A p \in 1 .. Len(recent) :
           recent[p].id \notin clash' /\ Driving(job[t], recent[p].id) => Driving(j, recent[p].id)
  PROVE  StreamInv'
<1>0. Len(recent) \in Nat /\ StreamTypes
  BY LenProperties DEF StreamInv, StreamTypes
<1>1. job' \in [Threads -> StreamJobs] /\ job'[t] = j /\ \A d \in Threads \ {t} : job'[d] = job[d]
  BY JobFields
<1>2. StreamTypes'
  <2>1. \A d \in Threads : Does(job'[d], Len(recent'))
    BY <1>0, <1>1 DEF StreamTypes
  <2> QED BY <1>0, <1>1, <2>1 DEF StreamTypes, Stream!Ids, Stream!RowType, StreamJobs
<1>3. ASSUME restarts = 0
      PROVE  FirstRun'
  <2>0. Filled /\ Placed /\ Unmade /\ Fitting /\ Showing /\ Driven
    BY <1>3 DEF StreamInv, FirstRun
  <2>1. (Filled /\ Placed /\ Unmade)'
    BY <1>3, <2>0 DEF Filled, Placed, Unmade, Stream!Ids
  <2>2. Fitting'
    <3>1. ASSUME NEW d \in Threads \ {t}
          PROVE  Fits(job[d], alerts, clash')
      <4>1. Fits(job[d], alerts, clash)
        BY <2>0 DEF Fitting
      <4> QED BY <4>1 DEF Fits
    <3> QED BY <1>1, <1>3, <3>1 DEF Fitting
  <2>3. Showing'
    BY <2>0 DEF Showing
  <2>4. Driven'
    <3> SUFFICES ASSUME NEW p \in 1 .. Len(recent), recent[p].id \notin clash', recent[p].investigation = "running"
                 PROVE  \E d \in Threads : Driving(job'[d], recent[p].id)
      BY <2>0 DEF Driven
    <3>1. PICK d \in Threads : Driving(job[d], recent[p].id)
      BY <2>0 DEF Driven
    <3>2. CASE d = t
      BY <1>1, <1>3, <3>1, <3>2
    <3>3. CASE d # t
      BY <1>1, <3>1, <3>3
    <3> QED BY <3>2, <3>3
  <2> QED BY <2>1, <2>2, <2>3, <2>4 DEF FirstRun
<1> QED BY <1>2, <1>3 DEF StreamInv

LEMMA LineKeeps ==
  ASSUME StreamInv, NEW t \in Threads, Stream!Line(t)
  PROVE  StreamInv'
<1> DEFINE next == [Stream!Idle EXCEPT !.kind = "run", !.at = "hydrate", !.id = job[t].id]
           j == IF job[t].kind = "begin" THEN next ELSE Stream!Idle
<1>1. /\ job[t].at \in {"line", "log"}  /\ (file' = file \/ file' = Append(file, job[t].merged))
      /\ job' = [job EXCEPT ![t] = j]  /\ UNCHANGED <<recent, alerts, jobs, restarts, patched, clash>>
  BY DEF Stream!Line, Stream!At
<1>2. next \in StreamJobs /\ next.kind = "run" /\ next.at = "hydrate" /\ next.id = job[t].id
  BY IdleFacts, JobFields DEF StreamJobs, Stream!Kinds, Stream!Places
<1> HIDE DEF next
<1>3. j \in StreamJobs /\ Does(j, Len(recent))
  BY <1>2, IdleFacts DEF Does, Patches
<1>4. ASSUME restarts = 0
      PROVE  Fits(j, alerts, clash) /\ Written(file', alerts)
  <2>1. Fits(job[t], alerts, clash) /\ Written(file, alerts) /\ job[t].merged.id <= alerts
    BY <1>1, <1>4, JobFields DEF Fits, StreamInv, FirstRun, Filled
  <2>2. Fits(j, alerts, clash)
    BY <1>2, <2>1, IdleFacts DEF Fits, Patches
  <2>3. Written(Append(file, job[t].merged), alerts)
    <3>1. file \in Seq(Stream!RowType) /\ Len(file) \in Nat /\ job[t].merged \in Stream!RowType
      BY JobFields, LenProperties DEF StreamInv, StreamTypes
    <3> QED BY <2>1, <3>1, AppendProperties DEF Written
  <2> QED BY <1>1, <2>1, <2>2, <2>3
<1>5. file' \in Seq(Stream!RowType)
  <2>1. file \in Seq(Stream!RowType) /\ job[t].merged \in Stream!RowType
    BY JobFields DEF StreamInv, StreamTypes
  <2>2. Append(file, job[t].merged) \in Seq(Stream!RowType)
    BY <2>1, AppendProperties
  <2> QED BY <1>1, <2>1, <2>2
<1>6. ASSUME NEW i, Driving(job[t], i)
      PROVE  Driving(j, i)
  <2>1. job[t].kind = "begin" /\ job[t].id = i
    BY <1>1, <1>6 DEF Driving
  <2>2. j = next
    BY <2>1
  <2> QED BY <1>2, <2>1, <2>2 DEF Driving
<1>7. jobs' \in 0 .. MaxJobs /\ clash' = clash /\ clash' \subseteq Stream!Ids
  BY <1>1 DEF StreamInv, StreamTypes
<1> HIDE DEF j
<1> QED BY <1>1, <1>3, <1>4, <1>5, <1>6, <1>7, OneJobChanges

LEMMA AskKeeps ==
  ASSUME StreamInv, NEW t \in Threads, NEW kind \in Patches \cup {"read"}, NEW i \in Stream!Ids,
         Stream!Ask(t, kind, i), restarts = 0 /\ kind # "read" => i <= alerts
  PROVE  StreamInv'
<1> DEFINE j == [Stream!Idle EXCEPT !.kind = kind, !.at = "hydrate", !.id = i]
<1>1. /\ job[t] = Stream!Idle /\ jobs < MaxJobs /\ jobs' = jobs + 1  /\ job' = [job EXCEPT ![t] = j]
      /\ UNCHANGED <<recent, file, alerts, restarts, patched, clash>>
  BY DEF Stream!Ask
<1>2. j \in StreamJobs /\ j.kind = kind /\ j.at = "hydrate" /\ j.id = i
  BY IdleFacts DEF StreamJobs, Stream!Kinds, Stream!Places, Patches
<1> HIDE DEF j
<1>3. Does(j, Len(recent)) /\ (restarts = 0 => Fits(j, alerts, clash))
  BY <1>2 DEF Does, Fits, Patches
<1>4. jobs' \in 0 .. MaxJobs /\ clash' = clash /\ clash' \subseteq Stream!Ids /\ file' \in Seq(Stream!RowType)
  BY <1>1, StreamBounds DEF StreamInv, StreamTypes
<1>5. restarts = 0 => Written(file', alerts)
  BY <1>1 DEF StreamInv, FirstRun, Filled
<1>6. \A n : ~Driving(job[t], n)
  BY <1>1, IdleFacts
<1> QED BY <1>1, <1>2, <1>3, <1>4, <1>5, <1>6, OneJobChanges

LEMMA HydrateKeeps ==
  ASSUME StreamInv, NEW t \in Threads, Stream!Hydrate(t)
  PROVE  StreamInv'
<1> DEFINE at == IF recent # <<>> THEN "find" ELSE "load"
           j  == [job[t] EXCEPT !.at = at]
<1>1. /\ job[t].at = "hydrate" /\ job' = [job EXCEPT ![t] = j]
      /\ UNCHANGED <<recent, file, alerts, jobs, restarts, patched, clash>>
  BY JobFields DEF Stream!Hydrate, Stream!At, StreamJobs
<1>2. at \in {"find", "load"}
  OBVIOUS
<1> HIDE DEF at
<1>3. j \in StreamJobs /\ j.kind = job[t].kind /\ j.id = job[t].id /\ j.at = at
  BY <1>2, JobFields DEF StreamJobs, Stream!Places
<1> HIDE DEF j
<1>4. Does(j, Len(recent)) /\ (restarts = 0 => Fits(j, alerts, clash))
  BY <1>1, <1>2, <1>3, JobFields DEF Does, Fits
<1>5. ASSUME NEW i, Driving(job[t], i)
      PROVE  Driving(j, i)
  BY <1>1, <1>2, <1>3, <1>5 DEF Driving
<1>6. /\ jobs' \in 0 .. MaxJobs /\ clash' = clash /\ clash' \subseteq Stream!Ids /\ file' \in Seq(Stream!RowType)
      /\ restarts = 0 => Written(file', alerts)
  BY <1>1 DEF StreamInv, StreamTypes, FirstRun, Filled
<1> QED BY <1>1, <1>3, <1>4, <1>5, <1>6, OneJobChanges

\* In the first run a file with lines means that memory has rows, which whoever reads it has not seen.
LEMMA LoadKeeps ==
  ASSUME StreamInv, NEW t \in Threads, Stream!Load(t)
  PROVE  StreamInv'
<1>1. PICK rs : rs = Stream!LastOf(file, MaxRecent)
  OBVIOUS
<1>2. PICK at : at = IF rs = <<>> THEN "find" ELSE "fill"
  OBVIOUS
<1> DEFINE j == [job[t] EXCEPT !.at = at, !.rows = rs]
<1>3. /\ job[t].at = "load" /\ job' = [job EXCEPT ![t] = j]
      /\ clash' = clash \cup IF recent = <<>> THEN {} ELSE {row.id : row \in Stream!Range(rs)}
      /\ UNCHANGED <<recent, file, alerts, jobs, restarts, patched>>
  BY <1>1, <1>2, JobFields DEF Stream!Load, Stream!At, StreamJobs
<1>4. /\ file \in Seq(Stream!RowType) /\ Len(file) \in Nat /\ MaxRecent \in Nat /\ alerts \in Nat
      /\ clash \subseteq Stream!Ids /\ jobs \in 0 .. MaxJobs
  BY StreamBounds, LenProperties DEF StreamInv, StreamTypes
<1>5. /\ rs \in Seq(Stream!RowType)  /\ Len(rs) = IF Len(file) < MaxRecent THEN Len(file) ELSE MaxRecent
      /\ \A p \in 1 .. Len(rs) : rs[p] = file[Len(file) - Len(rs) + p]
  BY <1>1, <1>4, LastOfFacts
<1>6. Len(rs) \in Nat /\ Len(rs) <= Len(file) /\ DOMAIN rs = 1 .. Len(rs)
      /\ \A p \in 1 .. Len(rs) : rs[p] \in Stream!RowType /\ rs[p].id \in Stream!Ids
  <2>1. Len(rs) <= Len(file)
    BY <1>4, <1>5
  <2> QED BY <1>5, <2>1, RowIds
<1>7. /\ j \in StreamJobs /\ j.kind = job[t].kind /\ j.id = job[t].id /\ j.at = at /\ j.rows = rs
      /\ at \in {"find", "fill"} /\ (at = "fill" => rs # <<>>)
  <2>1. at \in {"find", "fill"} /\ (at = "fill" => rs # <<>>)
    BY <1>2
  <2> QED BY <1>5, <2>1, JobFields DEF StreamJobs, Stream!Places
<1> HIDE DEF j
<1>8. clash \subseteq clash' /\ clash' \subseteq Stream!Ids
  <2>1. {row.id : row \in Stream!Range(rs)} \subseteq Stream!Ids
    BY <1>6 DEF Stream!Range
  <2> QED BY <1>3, <1>4, <2>1
<1>9. Does(j, Len(recent))
  BY <1>3, <1>7, JobFields DEF Does
<1>10. ASSUME restarts = 0
       PROVE  Fits(j, alerts, clash') /\ Written(file', alerts)
  <2>1. Fits(job[t], alerts, clash) /\ Filled
    BY <1>10, JobFields DEF StreamInv, FirstRun
  <2>2. Written(file', alerts)
    BY <1>3, <2>1 DEF Filled
  <2>3. Written(rs, alerts)
    <3> SUFFICES ASSUME NEW n \in 1 .. Len(rs)
                 PROVE  rs[n].id <= alerts
      BY DEF Written
    <3>1. Len(file) - Len(rs) + n \in 1 .. Len(file)
      BY <1>4, <1>6
    <3> QED BY <1>5, <2>1, <3>1 DEF Filled, Written
  <2>4. ASSUME NEW n \in 1 .. Len(rs)
        PROVE  rs[n].id \in clash'
    <3>1. rs[n].id <= alerts /\ rs[n].id \in 1 .. MaxAlerts
      BY <1>6, <2>3 DEF Written, Stream!Ids
    <3>2. alerts > 0
      BY <1>4, <3>1, StreamBounds
    <3>3. recent # <<>>
      BY <2>1, <3>2 DEF Filled
    <3>4. rs[n] \in Stream!Range(rs)
      BY <1>6 DEF Stream!Range
    <3> QED BY <1>3, <3>3, <3>4
  <2>5. Fits(j, alerts, clash')
    BY <1>7, <2>1, <2>3, <2>4 DEF Fits
  <2> QED BY <2>2, <2>5
<1>11. ASSUME NEW i, Driving(job[t], i)
       PROVE  Driving(j, i)
  BY <1>3, <1>7, <1>11 DEF Driving
<1>12. jobs' \in 0 .. MaxJobs /\ file' \in Seq(Stream!RowType) /\ UNCHANGED <<recent, alerts, restarts, patched>>
  BY <1>3, <1>4
<1> QED BY <1>3, <1>7, <1>8, <1>9, <1>10, <1>11, <1>12, OneJobChanges

LEMMA FindKeeps ==
  ASSUME StreamInv, NEW t \in Threads, Stream!Find(t)
  PROVE  StreamInv'
<1>1. job[t].at = "find" /\ UNCHANGED <<recent, file, alerts, jobs, restarts, patched, clash>>
  BY DEF Stream!Find, Stream!At
<1>2. /\ jobs' \in 0 .. MaxJobs /\ clash' = clash /\ clash' \subseteq Stream!Ids /\ file' \in Seq(Stream!RowType)
      /\ restarts = 0 => Written(file', alerts)
  BY <1>1 DEF StreamInv, StreamTypes, FirstRun, Filled
<1>3. Stream!RowsOf(job[t].id) \subseteq 1 .. Len(recent) /\ recent \in Seq(Stream!RowType)
  BY LenProperties DEF Stream!RowsOf, StreamInv, StreamTypes
<1>4. CASE job[t].kind = "read" \/ Stream!RowsOf(job[t].id) = {}
  <2>1. job' = [job EXCEPT ![t] = Stream!Idle]
    BY <1>4 DEF Stream!Find
  <2>2. ASSUME NEW p \in 1 .. Len(recent)
        PROVE  ~Driving(job[t], recent[p].id)
    <3>1. p \in DOMAIN recent
      BY <1>3, LenProperties
    <3> QED BY <1>4, <3>1 DEF Driving, Stream!RowsOf
  <2> QED BY <1>1, <1>2, <2>1, <2>2, IdleFacts, OneJobChanges
<1>5. CASE job[t].kind # "read" /\ Stream!RowsOf(job[t].id) # {}
  <2>1. PICK n : n = Stream!First(Stream!RowsOf(job[t].id))
    OBVIOUS
  <2> DEFINE m == Stream!Merged(job[t].kind, recent[n])
             j == [job[t] EXCEPT !.at = "put", !.moved = FALSE, !.place = n, !.was = recent[n], !.merged = m]
  <2>2. n \in Stream!RowsOf(job[t].id) /\ Len(recent) \in Nat
    BY <1>3, <1>5, <2>1, FirstIsOne, LenProperties
  <2>3. n \in 1 .. Len(recent) /\ recent[n] \in Stream!RowType /\ recent[n].id = job[t].id
    BY <1>3, <2>2, LenProperties DEF Stream!RowsOf
  <2>4. job[t].kind \in Patches
    BY <1>1, <1>5, JobFields DEF Does
  <2>5. m \in Stream!RowType
    BY <2>3, <2>4 DEF Stream!Merged, Stream!RowType, Stream!States, Patches
  <2>6. job' = [job EXCEPT ![t] = j]
    BY <1>5, <2>1, JobFields DEF Stream!Find, StreamJobs
  <2> HIDE DEF m
  <2>7. /\ j \in StreamJobs /\ j.kind = job[t].kind /\ j.at = "put" /\ j.id = job[t].id /\ j.place = n
        /\ j.was = recent[n] /\ j.merged = m
    <3>1. job[t] \in StreamJobs /\ n \in Nat /\ "put" \in Stream!Places
      BY <2>3, JobFields DEF Stream!Places
    <3>2. j \in StreamJobs
      BY <2>3, <2>5, <3>1 DEF StreamJobs
    <3>3. /\ j.kind = job[t].kind /\ j.at = "put" /\ j.id = job[t].id /\ j.place = n
          /\ j.was = recent[n] /\ j.merged = m
      BY <3>1 DEF StreamJobs
    <3> QED BY <3>2, <3>3
  <2> HIDE DEF j
  <2>8. Does(j, Len(recent))
    BY <2>3, <2>4, <2>7 DEF Does
  <2>9. ASSUME restarts = 0
        PROVE  Fits(j, alerts, clash)
    <3>1. Fits(job[t], alerts, clash)
      BY <2>9, JobFields
    <3> QED BY <2>3, <2>7, <3>1 DEF Fits, m
  <2>10. ASSUME NEW i, Driving(job[t], i)
         PROVE  Driving(j, i)
    BY <1>1, <2>7, <2>10 DEF Driving
  <2> QED BY <1>1, <1>2, <2>6, <2>7, <2>8, <2>9, <2>10, OneJobChanges
<1> QED BY <1>4, <1>5

LEMMA RaisesKeeps ==
  ASSUME StreamInv, NEW t \in Threads, Stream!FindRaises(t)
  PROVE  StreamInv'
<1>1. /\ job' = [job EXCEPT ![t] = Stream!Idle] /\ clash' = clash \cup {job[t].id}
      /\ UNCHANGED <<recent, file, alerts, jobs, restarts, patched>>
  BY DEF Stream!FindRaises
<1>2. clash' \subseteq Stream!Ids /\ clash \subseteq clash'
  BY <1>1, JobFields DEF StreamInv, StreamTypes
<1>3. jobs' \in 0 .. MaxJobs /\ file' \in Seq(Stream!RowType) /\ (restarts = 0 => Written(file', alerts))
  BY <1>1 DEF StreamInv, StreamTypes, FirstRun, Filled
<1>4. ASSUME NEW i, i \notin clash'
      PROVE  ~Driving(job[t], i)
  BY <1>1, <1>4 DEF Driving
<1> QED BY <1>1, <1>2, <1>3, <1>4, IdleFacts, OneJobChanges

\* A row that is appended is the last; with the deque full the oldest row goes.  It is of a new alert, or
\* of one that met a clash.
LEMMA AppendKeeps ==
  ASSUME StreamInv, NEW t \in Threads, NEW row \in Stream!RowType, NEW j \in StreamJobs,
         recent' = Stream!Appended(<<row>>), job' = [Stream!Noticed(t) EXCEPT ![t] = j],
         UNCHANGED <<file, jobs, restarts, patched, clash>>,
         alerts' \in 0 .. MaxAlerts, alerts <= alerts', \A n : Does(j, n),
         restarts = 0 => Fits(j, alerts', clash) /\ row.id <= alerts',
         restarts = 0 => row.id \in clash \/ (row.id > alerts /\ row.investigation = "none"),
         \A i : Driving(job[t], i) => Driving(j, i)
  PROVE  StreamInv'
<1>0. StreamTypes /\ Len(recent) \in Nat /\ alerts \in Nat /\ alerts' \in Nat
  BY LenProperties, StreamBounds DEF StreamInv, StreamTypes
<1>4. /\ job' \in [Threads -> StreamJobs] /\ job'[t] = j
      /\ \A d \in Threads \ {t} : job'[d].kind = job[d].kind /\ job'[d].at = job[d].at /\ job'[d].id = job[d].id
                                  /\ Same(job[d], job'[d])
  <2>1. /\ Stream!Noticed(t) \in [Threads -> StreamJobs]
        /\ \A d \in Threads : Same(job[d], Stream!Noticed(t)[d])
    BY NoticedFacts
  <2>2. job' \in [Threads -> StreamJobs] /\ job'[t] = j
    BY <2>1
  <2>3. \A d \in Threads \ {t} : job'[d] = Stream!Noticed(t)[d]
    BY <2>1
  <2> QED BY <2>1, <2>2, <2>3 DEF Same
<1>5. /\ recent' \in Seq(Stream!RowType)
      /\ Len(recent') = IF Len(recent) < MaxRecent THEN Len(recent) + 1 ELSE MaxRecent
      /\ \A p \in 1 .. Len(recent') :
           recent'[p] = IF p = Len(recent') THEN row ELSE recent[Len(recent) + 1 - Len(recent') + p]
  BY <1>0, AppendedFacts DEF StreamTypes
<1>6. /\ Len(recent') \in Nat /\ Len(recent') > 0 /\ Len(recent') <= MaxRecent /\ Len(recent) <= Len(recent')
      /\ Len(recent') <= Len(recent) + 1
  BY <1>0, <1>5, StreamBounds DEF StreamTypes
<1>7. StreamTypes'
  <2>1. \A d \in Threads : Does(job'[d], Len(recent'))
    <3>2. ASSUME NEW d \in Threads \ {t}
          PROVE  Does(job'[d], Len(recent'))
      <4>1. Does(job[d], Len(recent)) /\ Same(job[d], job'[d])
        BY <1>0, <1>4 DEF StreamTypes
      <4> QED BY <1>0, <1>6, <4>1 DEF Does, Same
    <3> QED BY <1>4, <3>2
  <2> QED BY <1>0, <1>4, <1>5, <1>6, <2>1 DEF StreamTypes, Stream!Ids, Stream!RowType, StreamJobs
<1>8. ASSUME restarts = 0
      PROVE  FirstRun'
  <2>0. Filled /\ Placed /\ Unmade /\ Fitting /\ Showing /\ Driven
    BY <1>8 DEF StreamInv, FirstRun
  \* where the rows that stay were
  <2>1. ASSUME NEW p \in 1 .. Len(recent'), p # Len(recent')
        PROVE  \E q \in 1 .. Len(recent) : /\ q = Len(recent) + 1 - Len(recent') + p
                                           /\ recent'[p] = recent[q]
    <3>1. Len(recent) + 1 - Len(recent') + p \in 1 .. Len(recent)
      BY <1>0, <1>6, <2>1
    <3> QED BY <1>5, <2>1, <3>1
  <2>2. recent'[Len(recent')] = row /\ row.id \in Nat
    BY <1>5, <1>6, StreamBounds DEF Stream!RowType, Stream!Ids
  <2>3. Filled'
    <3>1. ASSUME NEW n \in 1 .. Len(file)
          PROVE  file[n].id <= alerts'
      <4>1. file[n].id \in Nat /\ file[n].id <= alerts
        <5>1. file \in Seq(Stream!RowType)
          BY <1>0 DEF StreamTypes
        <5> QED BY <2>0, <5>1, RowIds DEF Filled, Written
      <4> QED BY <1>0, <4>1
    <3> QED BY <1>6, <3>1, EmptySeq DEF Filled, Written
  <2>4. Placed'
    <3>1. ASSUME NEW p \in 1 .. Len(recent')
          PROVE  recent'[p].id <= alerts'
      <4>1. CASE p = Len(recent')
        BY <1>8, <2>2, <4>1
      <4>2. CASE p # Len(recent')
        <5>1. PICK q \in 1 .. Len(recent) : recent'[p] = recent[q]
          BY <2>1, <4>2
        <5>2. recent[q].id \in Nat /\ recent[q].id <= alerts
          <6>1. recent \in Seq(Stream!RowType)
            BY <1>0 DEF StreamTypes
          <6> QED BY <2>0, <6>1, RowIds DEF Placed, Written
        <5> QED BY <1>0, <5>1, <5>2
      <4> QED BY <4>1, <4>2
    \* a row that stays and the new one are of two alerts, or of one that met a clash
    <3>2. ASSUME NEW p \in 1 .. Len(recent'), p # Len(recent'), recent'[p].id = row.id
          PROVE  row.id \in clash
      <4>1. PICK q \in 1 .. Len(recent) : recent'[p] = recent[q]
        BY <2>1, <3>2
      <4>2. recent[q].id <= alerts
        BY <2>0 DEF Placed, Written
      <4>3. ~(row.id > alerts)
        BY <1>0, <2>2, <3>2, <4>1, <4>2
      <4> QED BY <1>8, <4>3
    <3>3. ASSUME NEW p \in 1 .. Len(recent'), NEW q \in 1 .. Len(recent'),
                 recent'[p].id = recent'[q].id, recent'[p].id \notin clash
          PROVE  p = q
      <4>1. CASE p = Len(recent') \/ q = Len(recent')
        BY <2>2, <3>2, <3>3, <4>1
      <4>2. CASE p # Len(recent') /\ q # Len(recent')
        <5>1. PICK m \in 1 .. Len(recent) : m = Len(recent) + 1 - Len(recent') + p /\ recent'[p] = recent[m]
          BY <2>1, <4>2
        <5>2. PICK n \in 1 .. Len(recent) : n = Len(recent) + 1 - Len(recent') + q /\ recent'[q] = recent[n]
          BY <2>1, <4>2
        <5>3. m = n
          BY <2>0, <3>3, <5>1, <5>2 DEF Placed
        <5> QED BY <1>0, <1>6, <5>1, <5>2, <5>3
      <4> QED BY <4>1, <4>2
    <3> QED BY <3>1, <3>3 DEF Placed, Written
  <2>5. Unmade'
    <3>1. ASSUME NEW i \in Stream!Ids, patched[i] # {}
          PROVE  i <= alerts'
      <4>1. i \in Nat /\ i <= alerts
        BY <2>0, <3>1, StreamBounds DEF Unmade, Stream!Ids
      <4> QED BY <1>0, <4>1
    <3> QED BY <3>1 DEF Unmade, Stream!Ids
  <2>6. Fitting'
    <3>2. ASSUME NEW d \in Threads \ {t}
          PROVE  Fits(job'[d], alerts', clash)
      <4>1. Fits(job[d], alerts, clash) /\ Same(job[d], job'[d]) /\ job[d].id \in Nat /\ job[d].merged.id \in Nat
        BY <1>4, <2>0, JobFields, StreamBounds DEF Fitting, Stream!Ids, Stream!RowType
      <4>2. \A n \in 1 .. Len(job[d].rows) : job[d].rows[n].id \in Nat
        BY JobFields, RowIds
      <4>3. /\ job[d].kind \in Patches => job[d].id <= alerts'
            /\ job[d].at \in {"line", "log"} => job[d].merged.id <= alerts'
        BY <1>0, <4>1 DEF Fits
      <4>4. job[d].at = "fill" => Written(job[d].rows, alerts') /\ \A n \in 1 .. Len(job[d].rows) : job[d].rows[n].id \in clash
        BY <1>0, <4>1, <4>2 DEF Fits, Written
      <4> QED BY <4>1, <4>3, <4>4 DEF Fits, Same
    <3> QED BY <1>4, <1>8, <3>2 DEF Fitting
  <2>7. row.id \notin clash => patched[row.id] = {} /\ row.investigation = "none"
    <3>1. row.id \in Stream!Ids
      BY DEF Stream!RowType
    <3> QED BY <1>0, <1>8, <2>0, <2>2, <3>1 DEF Unmade
  <2>8. Showing'
    <3> SUFFICES ASSUME NEW p \in 1 .. Len(recent'), recent'[p].id \notin clash
                 PROVE  Shows(recent'[p], patched[recent'[p].id])
      BY DEF Showing
    <3>1. CASE p = Len(recent')
      BY <2>2, <2>7, <3>1 DEF Shows
    <3>2. CASE p # Len(recent')
      BY <2>0, <2>1, <3>2 DEF Showing
    <3> QED BY <3>1, <3>2
  <2>9. Driven'
    <3> SUFFICES ASSUME NEW p \in 1 .. Len(recent'), recent'[p].id \notin clash, recent'[p].investigation = "running"
                 PROVE  \E d \in Threads : Driving(job'[d], recent'[p].id)
      BY DEF Driven
    <3>1. p # Len(recent')
      BY <2>2, <2>7
    <3>2. PICK q \in 1 .. Len(recent) : recent'[p] = recent[q]
      BY <2>1, <3>1
    <3>3. PICK d \in Threads : Driving(job[d], recent[q].id)
      BY <2>0, <3>2 DEF Driven
    <3>4. CASE d = t
      BY <1>4, <3>2, <3>3, <3>4
    <3>5. CASE d # t
      BY <1>4, <3>2, <3>3, <3>5 DEF Driving
    <3> QED BY <3>4, <3>5
  <2> QED BY <2>3, <2>4, <2>5, <2>6, <2>8, <2>9 DEF FirstRun
<1> QED BY <1>7, <1>8 DEF StreamInv

LEMMA WriteKeeps ==
  ASSUME StreamInv, NEW t \in Threads, Stream!Write(t)
  PROVE  StreamInv'
<1> DEFINE row == [Stream!NoRow EXCEPT !.id = alerts + 1]
           j   == [Stream!Idle EXCEPT !.kind = "write", !.at = "line", !.merged = row]
<1>0. alerts \in Nat
  BY StreamBounds DEF StreamInv, StreamTypes
<1>1. /\ job[t] = Stream!Idle /\ alerts < MaxAlerts /\ alerts' = alerts + 1
      /\ recent' = Stream!Appended(<<row>>)
      /\ job' = [Stream!Noticed(t) EXCEPT ![t] = j]
      /\ UNCHANGED <<file, jobs, restarts, patched, clash>>
  BY DEF Stream!Write
<1>2. row \in Stream!RowType /\ row.id = alerts + 1 /\ row.investigation = "none"
  BY <1>0, <1>1, StreamBounds DEF Stream!RowType, Stream!Ids
<1> HIDE DEF row
<1>3. j \in StreamJobs /\ j.kind = "write" /\ j.at = "line" /\ j.merged = row
  BY <1>2, IdleFacts DEF StreamJobs, Stream!Kinds, Stream!Places
<1> HIDE DEF j
<1>4. \A n : Does(j, n)
  BY <1>3 DEF Does
<1>5. alerts' \in 0 .. MaxAlerts /\ alerts <= alerts' /\ row.id <= alerts' /\ row.id > alerts
  BY <1>0, <1>1, <1>2, StreamBounds
<1>6. Fits(j, alerts', clash)
  BY <1>3, <1>5 DEF Fits, Patches
<1>7. \A i : ~Driving(job[t], i)
  BY <1>1, IdleFacts
<1> QED BY <1>1, <1>2, <1>3, <1>4, <1>5, <1>6, <1>7, AppendKeeps

LEMMA FillKeeps ==
  ASSUME StreamInv, NEW t \in Threads, Stream!Fill(t)
  PROVE  StreamInv'
<1>1. PICK rs : rs = job[t].rows
  OBVIOUS
<1>2. PICK at : at = IF Len(rs) = 1 THEN "find" ELSE "fill"
  OBVIOUS
<1> DEFINE j == [job[t] EXCEPT !.at = at, !.rows = Tail(rs)]
<1>3. /\ job[t].at = "fill" /\ recent' = Stream!Appended(<<Head(rs)>>)
      /\ job' = [Stream!Noticed(t) EXCEPT ![t].at = at, ![t].rows = Tail(rs)]
      /\ UNCHANGED <<file, alerts, jobs, restarts, patched, clash>>
  BY <1>1, <1>2 DEF Stream!Fill, Stream!At
<1>4. /\ rs \in Seq(Stream!RowType) /\ rs # <<>> /\ Len(rs) \in Nat /\ Len(rs) # 0
  <2>1. rs \in Seq(Stream!RowType) /\ rs # <<>>
    BY <1>1, <1>3, JobFields DEF Does
  <2> QED BY <2>1, EmptySeq, LenProperties
<1>5. /\ Head(rs) \in Stream!RowType /\ Head(rs) = rs[1]
      /\ Tail(rs) \in Seq(Stream!RowType) /\ Len(Tail(rs)) = Len(rs) - 1
      /\ \A n \in 1 .. Len(rs) - 1 : Tail(rs)[n] = rs[n + 1]
  BY <1>4, HeadTailProperties
<1>6. /\ j \in StreamJobs /\ j.kind = job[t].kind /\ j.id = job[t].id /\ j.at = at /\ j.rows = Tail(rs)
      /\ at \in {"find", "fill"} /\ (at = "fill" => Tail(rs) # <<>>)
  <2>1. at \in {"find", "fill"}
    BY <1>2
  <2>2. ASSUME at = "fill"
        PROVE  Tail(rs) # <<>>
    <3>1. Len(rs) # 1
      BY <1>2, <2>2
    <3>2. Len(Tail(rs)) # 0
      BY <1>4, <1>5, <3>1
    <3> QED BY <3>2, EmptySeq
  <2> QED BY <1>5, <2>1, <2>2, JobFields DEF StreamJobs, Stream!Places
<1>7. job' = [Stream!Noticed(t) EXCEPT ![t] = j]
  <2>1. Stream!Noticed(t) \in [Threads -> StreamJobs] /\ Stream!Noticed(t)[t] = job[t]
    BY NoticedFacts
  <2> QED BY <1>3, <2>1, JobFields DEF StreamJobs
<1> HIDE DEF j
<1>8. \A n : Does(j, n)
  <2>1. job[t].kind \in Patches \cup {"read"}
    BY <1>3, JobFields DEF Does
  <2> QED BY <1>6, <2>1 DEF Does
<1>9. alerts' \in 0 .. MaxAlerts /\ alerts <= alerts'
  BY <1>3, StreamBounds DEF StreamInv, StreamTypes
<1>10. ASSUME restarts = 0
       PROVE  Fits(j, alerts, clash) /\ Head(rs).id <= alerts /\ Head(rs).id \in clash
  <2>1. /\ Fits(job[t], alerts, clash)
        /\ \A n \in 1 .. Len(rs) : rs[n].id <= alerts /\ rs[n].id \in clash
    BY <1>1, <1>3, <1>10, JobFields DEF Fits, Written
  <2>2. 1 \in 1 .. Len(rs) /\ \A n \in 1 .. Len(rs) - 1 : n + 1 \in 1 .. Len(rs)
    BY <1>4
  <2>3. \A n \in 1 .. Len(Tail(rs)) : Tail(rs)[n].id <= alerts /\ Tail(rs)[n].id \in clash
    BY <1>5, <2>1, <2>2
  <2> QED BY <1>5, <1>6, <2>1, <2>2, <2>3 DEF Fits, Written
<1>11. ASSUME NEW i, Driving(job[t], i)
       PROVE  Driving(j, i)
  BY <1>3, <1>6, <1>11 DEF Driving
<1> QED BY <1>3, <1>5, <1>6, <1>7, <1>8, <1>9, <1>10, <1>11, AppendKeeps

\* An update replaces the row that it read, or has met another and clashes.
LEMMA PutKeeps ==
  ASSUME StreamInv, NEW t \in Threads, Stream!Put(t)
  PROVE  StreamInv'
<1> DEFINE i == job[t].id  place == job[t].place  kind == job[t].kind
           made == (IF kind = "begin" THEN patched[i] \ {"run"} ELSE patched[i]) \cup {kind}
           j == [job[t] EXCEPT !.at = "log", !.place = 0, !.was = Stream!NoRow]
<1>0. /\ StreamTypes /\ Len(recent) \in Nat /\ alerts \in Nat
      /\ recent \in [1 .. Len(recent) -> Stream!RowType]
  BY LenProperties DEF StreamInv, StreamTypes
<1>1. /\ job[t].at = "put" /\ recent' = [recent EXCEPT ![place] = job[t].merged]
      /\ clash' = clash \cup IF recent[place] = job[t].was THEN {} ELSE {i, recent[place].id}
      /\ patched' = [patched EXCEPT ![i] = made]
      /\ job' = [job EXCEPT ![t].at = "log", ![t].place = 0, ![t].was = Stream!NoRow]
      /\ UNCHANGED <<file, alerts, jobs, restarts>>
  BY DEF Stream!Put, Stream!At
<1>2. /\ kind \in Patches /\ place \in 1 .. Len(recent) /\ i \in Stream!Ids
      /\ restarts = 0 => i <= alerts /\ job[t].was.id = i /\ job[t].merged = Stream!Merged(kind, job[t].was)
  BY <1>1, JobFields DEF Does, Fits
<1>3. recent[place] \in Stream!RowType /\ recent[place].id \in Stream!Ids
  BY <1>0, <1>2 DEF Stream!RowType
<1>4. /\ j \in StreamJobs /\ j.kind = kind /\ j.at = "log" /\ j.id = i /\ j.merged = job[t].merged
  BY JobFields, StreamBounds DEF StreamJobs, Stream!Places
<1>5. job' = [job EXCEPT ![t] = j] /\ job' \in [Threads -> StreamJobs] /\ job'[t] = j
      /\ \A d \in Threads \ {t} : job'[d] = job[d]
  BY <1>1, <1>4, JobFields DEF StreamJobs
<1>6. /\ recent' \in [1 .. Len(recent) -> Stream!RowType] /\ recent' \in Seq(Stream!RowType) /\ Len(recent') = Len(recent)
      /\ recent'[place] = job[t].merged /\ \A p \in 1 .. Len(recent) : p # place => recent'[p] = recent[p]
  <2>1. /\ recent' \in [1 .. Len(recent) -> Stream!RowType]
        /\ recent'[place] = job[t].merged /\ \A p \in 1 .. Len(recent) : p # place => recent'[p] = recent[p]
    BY <1>0, <1>1, <1>2, JobFields
  <2>2. recent' \in Seq(Stream!RowType)
    BY <1>0, <2>1 DEF Seq
  <2> QED BY <1>0, <2>1, <2>2, LenProperties
<1>7. made \in SUBSET Patches /\ patched' \in [Stream!Ids -> SUBSET Patches] /\ patched'[i] = made
      /\ \A n \in Stream!Ids \ {i} : patched'[n] = patched[n]
  <2>1. made \in SUBSET Patches
    BY <1>0, <1>2 DEF StreamTypes
  <2> HIDE DEF made
  <2> QED BY <1>0, <1>1, <1>2, <2>1 DEF StreamTypes
<1>8. /\ clash \subseteq clash' /\ clash' \subseteq Stream!Ids
      /\ recent[place] # job[t].was => i \in clash' /\ recent[place].id \in clash'
  BY <1>0, <1>1, <1>2, <1>3 DEF StreamTypes
<1> HIDE DEF made, j
<1>9. StreamTypes'
  <2>1. \A d \in Threads : Does(job'[d], Len(recent'))
    BY <1>0, <1>2, <1>4, <1>5, <1>6 DEF Does, StreamTypes
  <2>2. /\ recent' \in Seq(Stream!RowType) /\ Len(recent') <= MaxRecent /\ file' \in Seq(Stream!RowType)
        /\ alerts' \in 0 .. MaxAlerts /\ jobs' \in 0 .. MaxJobs /\ restarts' \in 0 .. MaxRestarts
    BY <1>0, <1>1, <1>6 DEF StreamTypes
  <2> QED BY <1>5, <1>7, <1>8, <2>1, <2>2 DEF StreamTypes, Stream!Ids, Stream!RowType, StreamJobs, Patches
<1>10. ASSUME restarts = 0
       PROVE  FirstRun'
  <2>0. Filled /\ Placed /\ Unmade /\ Fitting /\ Showing /\ Driven
    BY <1>10 DEF StreamInv, FirstRun
  <2>1. i <= alerts /\ job[t].was.id = i /\ job[t].merged = Stream!Merged(kind, job[t].was) /\ i \in Nat
    BY <1>2, <1>10, StreamBounds DEF Stream!Ids
  <2>2. job[t].merged.id = i
    BY <1>2, <2>1, JobFields DEF Stream!Merged, Patches, Stream!RowType
  \* A row elsewhere whose id is not of a clash is of another alert.
  <2>3. ASSUME NEW p \in 1 .. Len(recent), p # place, recent[p].id \notin clash'
        PROVE  recent'[p] = recent[p] /\ recent[p].id # i /\ recent[p].id \notin clash /\ recent[p].id \in Stream!Ids
    <3>1. recent'[p] = recent[p] /\ recent[p].id \notin clash /\ recent[p].id \in Stream!Ids
      BY <1>0, <1>6, <1>8, <2>3 DEF Stream!RowType
    <3>2. ASSUME recent[p].id = i
          PROVE  FALSE
      <4>1. recent[place] = job[t].was
        BY <1>8, <2>3, <3>2
      <4>2. recent[place].id = i /\ i \notin clash
        BY <2>1, <3>1, <3>2, <4>1
      <4>3. p = place
        BY <1>2, <2>0, <3>1, <3>2, <4>2 DEF Placed
      <4> QED BY <2>3, <4>3
    <3> QED BY <3>1, <3>2
  \* The replaced row, if its alert has no clash, is the one that was read.
  <2>4. ASSUME i \notin clash'
        PROVE  recent[place] = job[t].was /\ i \notin clash
    BY <1>8, <2>4
  <2>5. Filled'
    <3>1. alerts > 0 => Len(recent) > 0
      BY <1>0, <2>0, EmptySeq DEF Filled
    <3>2. alerts > 0 => recent' # <<>>
      BY <1>6, <3>1, EmptySeq
    <3> QED BY <1>1, <2>0, <3>2 DEF Filled
  <2>6. Placed'
    <3>1. recent'[place].id = i
      BY <1>6, <2>2
    <3>2. ASSUME NEW p \in 1 .. Len(recent)
          PROVE  recent'[p].id <= alerts
      BY <1>6, <2>0, <2>1, <3>1 DEF Placed, Written
    <3>3. ASSUME NEW p \in 1 .. Len(recent), NEW q \in 1 .. Len(recent),
                 recent'[p].id = recent'[q].id, recent'[p].id \notin clash'
          PROVE  p = q
      <4>1. CASE p = place
        <5>1. ~(q # place /\ recent'[q].id = i)
          BY <1>6, <2>3, <3>1, <3>3, <4>1
        <5> QED BY <3>1, <3>3, <4>1, <5>1
      <4>2. CASE p # place /\ q = place
        BY <1>6, <2>3, <3>1, <3>3, <4>2
      <4>3. CASE p # place /\ q # place
        BY <1>6, <1>8, <2>0, <3>3, <4>3 DEF Placed
      <4> QED BY <4>1, <4>2, <4>3
    <3> QED BY <1>1, <1>6, <3>2, <3>3 DEF Placed, Written
  <2>7. Unmade'
    BY <1>1, <1>7, <2>0, <2>1 DEF Unmade, Stream!Ids
  <2>8. Fitting'
    <3>1. Fits(j, alerts, clash')
      BY <1>4, <2>1, <2>2 DEF Fits
    <3>2. ASSUME NEW d \in Threads \ {t}
          PROVE  Fits(job[d], alerts, clash')
      <4>1. Fits(job[d], alerts, clash)
        BY <2>0 DEF Fitting
      <4> QED BY <1>8, <4>1 DEF Fits
    <3> QED BY <1>1, <1>5, <3>1, <3>2 DEF Fitting
  <2>9. Showing'
    <3> SUFFICES ASSUME NEW p \in 1 .. Len(recent), recent'[p].id \notin clash'
                 PROVE  Shows(recent'[p], patched'[recent'[p].id])
      BY <1>6 DEF Showing
    <3>1. CASE p = place
      <4>1. recent'[p] = job[t].merged /\ recent'[p].id = i /\ patched'[i] = made
        BY <1>6, <1>7, <2>2, <3>1
      <4>2. recent[place] = job[t].was /\ i \notin clash
        BY <2>4, <4>1
      <4>3. Shows(job[t].was, patched[i])
        BY <1>2, <2>0, <2>1, <4>2 DEF Showing
      <4>4. Shows(job[t].merged, made)
        BY <1>2, <2>1, <4>3, JobFields DEF Shows, made, Stream!Merged, Patches, Stream!RowType
      <4> QED BY <4>1, <4>4
    <3>2. CASE p # place
      <4>1. recent[p].id \notin clash'
        BY <1>6, <3>2
      <4>2. recent'[p] = recent[p] /\ recent[p].id # i /\ recent[p].id \notin clash /\ recent[p].id \in Stream!Ids
        BY <2>3, <3>2, <4>1
      <4> QED BY <1>7, <2>0, <4>2 DEF Showing
    <3> QED BY <3>1, <3>2
  <2>10. Driven'
    <3> SUFFICES ASSUME NEW p \in 1 .. Len(recent), recent'[p].id \notin clash', recent'[p].investigation = "running"
                 PROVE  \E d \in Threads : Driving(job'[d], recent'[p].id)
      BY <1>6 DEF Driven
    <3>1. CASE p = place
      <4>1. recent'[p] = job[t].merged /\ recent'[p].id = i
        BY <1>6, <2>2, <3>1
      <4>2. recent[place] = job[t].was /\ i \notin clash
        BY <2>4, <4>1
      <4>3. CASE kind = "begin"
        BY <1>4, <1>5, <4>1, <4>3 DEF Driving
      <4>4. CASE kind = "enhance"
        <5>1. recent[place].investigation = "running" /\ recent[place].id = i
          BY <2>1, <4>1, <4>2, <4>4, JobFields DEF Stream!Merged, Stream!RowType
        <5>2. PICK d \in Threads : Driving(job[d], i)
          BY <1>2, <2>0, <4>2, <5>1 DEF Driven
        <5>3. d # t
          BY <4>4, <5>2 DEF Driving
        <5> QED BY <1>5, <4>1, <5>2, <5>3
      <4>5. CASE kind = "run"
        <5>1. job[t].merged.investigation = "ended"
          BY <2>1, <4>5, JobFields DEF Stream!Merged, Stream!RowType
        <5> QED BY <4>1, <5>1
      <4> QED BY <1>2, <4>3, <4>4, <4>5 DEF Patches
    <3>2. CASE p # place
      <4>1. recent[p].id \notin clash'
        BY <1>6, <3>2
      <4>2. recent'[p] = recent[p] /\ recent[p].id # i /\ recent[p].id \notin clash
        BY <2>3, <3>2, <4>1
      <4>3. PICK d \in Threads : Driving(job[d], recent[p].id)
        BY <2>0, <4>2 DEF Driven
      <4>4. d # t
        BY <4>2, <4>3 DEF Driving
      <4> QED BY <1>5, <4>2, <4>3, <4>4
    <3> QED BY <3>1, <3>2
  <2> QED BY <2>5, <2>6, <2>7, <2>8, <2>9, <2>10 DEF FirstRun
<1> QED BY <1>1, <1>9, <1>10 DEF StreamInv

LEMMA RestartKeeps ==
  ASSUME StreamInv, Stream!Restart
  PROVE  StreamInv'
<1>1. /\ restarts < MaxRestarts /\ restarts' = restarts + 1 /\ recent' = <<>>
      /\ job' = [t \in Threads |-> Stream!Idle] /\ UNCHANGED <<file, alerts, jobs, patched, clash>>
  BY DEF Stream!Restart
<1>2. recent' \in Seq(Stream!RowType) /\ Len(recent') = 0 /\ Len(recent') <= MaxRecent
  BY <1>1, StreamBounds, EmptySeq
<1>3. job' \in [Threads -> StreamJobs] /\ \A t \in Threads : job'[t] = Stream!Idle
  BY <1>1, IdleFacts
<1>4. restarts' \in 0 .. MaxRestarts /\ restarts' # 0
  BY <1>1, StreamBounds DEF StreamInv, StreamTypes
<1>5. \A t \in Threads : Does(job'[t], Len(recent'))
  BY <1>3, IdleFacts
<1>6. StreamTypes
  BY DEF StreamInv
<1>7. StreamTypes'
  BY <1>1, <1>2, <1>3, <1>4, <1>5, <1>6 DEF StreamTypes, Stream!Ids, Stream!RowType, StreamJobs, Patches
<1> QED BY <1>4, <1>7 DEF StreamInv

LEMMA StreamStep == StreamInv /\ [Stream!Next]_(Stream!vars) => StreamInv'
<1> SUFFICES ASSUME StreamInv, [Stream!Next]_(Stream!vars)
             PROVE  StreamInv'
  OBVIOUS
<1>1. ASSUME NEW t \in Threads, NEW i \in Stream!Ids, Stream!Enhance(t, i)
      PROVE  StreamInv'
  BY <1>1, AskKeeps DEF Stream!Enhance, Patches
<1>2. ASSUME NEW t \in Threads, NEW i \in Stream!Ids, Stream!Investigate(t, i)
      PROVE  StreamInv'
  <2>1. PICK r \in Range(recent) : r.id = i
    BY <1>2 DEF Stream!Investigate, Stream!Range, Range
  <2>2. PICK kind \in {"begin", "run"} : Stream!Ask(t, kind, i)
    BY <1>2 DEF Stream!Investigate
  <2>3. ASSUME restarts = 0
        PROVE  i <= alerts
    <3>1. PICK p \in DOMAIN recent : recent[p] = r
      BY <2>1 DEF Range
    <3>2. p \in 1 .. Len(recent)
      BY <3>1, LenProperties DEF StreamInv, StreamTypes
    <3> QED BY <2>1, <2>3, <3>1, <3>2 DEF StreamInv, FirstRun, Placed, Written
  <2>4. kind \in Patches \cup {"read"}
    BY DEF Patches
  <2> QED BY <2>2, <2>3, <2>4, AskKeeps
<1>3. ASSUME NEW t \in Threads, Stream!Read(t)
      PROVE  StreamInv'
  <2>1. 1 \in Stream!Ids
    BY StreamBounds DEF Stream!Ids
  <2> QED BY <1>3, <2>1, AskKeeps DEF Stream!Read
<1>4. CASE UNCHANGED Stream!vars
  BY <1>4 DEF Stream!vars, StreamInv, StreamTypes, FirstRun, Filled, Placed, Written, Unmade, Fitting, Showing, Driven, StreamJobs,
              Stream!Ids, Stream!RowType, Patches
<1> QED BY <1>1, <1>2, <1>3, <1>4, WriteKeeps, LineKeeps, HydrateKeeps, LoadKeeps, FillKeeps, FindKeeps, RaisesKeeps, PutKeeps,
           RestartKeeps DEF Stream!Next

LEMMA StreamHolds == Stream!Spec => []StreamInv
<1>1. Stream!Init => StreamInv
  BY StreamInit
<1>2. StreamInv /\ [Stream!Next]_(Stream!vars) => StreamInv'
  BY StreamStep
<1> QED BY <1>1, <1>2, PTL DEF Stream!Spec

\* The row that a reader finds first of an alert without a clash.
LEMMA ShownFacts ==
  ASSUME StreamInv, restarts = 0, NEW i \in Stream!Ids, Stream!RowsOf(i) # {}, i \notin clash
  PROVE  /\ Shows(Stream!Shown(i), patched[i])
         /\ Stream!Shown(i).investigation = "running" => \E t \in Threads : Driving(job[t], i)
<1>1. recent \in Seq(Stream!RowType) /\ Len(recent) \in Nat /\ Showing /\ Driven
  BY LenProperties DEF StreamInv, StreamTypes, FirstRun
<1>2. Stream!RowsOf(i) \subseteq 1 .. Len(recent)
  BY <1>1, LenProperties DEF Stream!RowsOf
<1>3. PICK n : n = Stream!First(Stream!RowsOf(i))
  OBVIOUS
<1>4. n \in Stream!RowsOf(i)
  BY <1>1, <1>2, <1>3, FirstIsOne
<1>5. n \in 1 .. Len(recent) /\ recent[n].id = i /\ Stream!Shown(i) = recent[n]
  BY <1>2, <1>3, <1>4 DEF Stream!RowsOf, Stream!Shown
<1> QED BY <1>1, <1>5 DEF Showing, Driven

(* For any bound of the deque and any number of threads: until the program  *)
(* restarts, what an enrichment or an investigation has put into an alert   *)
(* stays in the row that readers find (AlertWriter.update_alert), unless    *)
(* another thread did something to the row in the middle of an update.      *)
THEOREM UpdatesStay == Stream!Spec => []PatchesStick
<1>1. StreamInv => Stream!TypeOK
  BY DEF StreamInv, StreamTypes, StreamJobs, Patches, Stream!TypeOK
<1>2. ASSUME StreamInv
      PROVE  Stream!PatchesStick
  <2> SUFFICES ASSUME NEW i \in Stream!Ids, restarts = 0, i \notin clash, Stream!RowsOf(i) # {}
               PROVE  Stream!AsPatched(i)
    BY DEF Stream!PatchesStick, Stream!AsPatched
  <2> QED BY <1>2, ShownFacts DEF Stream!AsPatched, Shows
<1>3. StreamInv => PatchesStick
  BY <1>1, <1>2 DEF PatchesStick
<1> QED BY <1>3, StreamHolds, PTL

-----------------------------------------------------------------------------
(* What is proved of Investigation, for the instance of it here.            *)

Proved == INSTANCE InvestigationProofs WITH Workers <- Threads, Findings <- {"finding"}, Flows <- {"flow"},
                      World <- TheWorld, Mentions <- TheMentions, Private <- {"lan"}, raised <- marked

LEMMA SameInit == Osint!Init <=> Proved!Init
BY DEF Osint!Init, Proved!Init, Osint!Subjects, Proved!Subjects, Osint!Values, Proved!Values, Osint!NewRow, Proved!NewRow,
   Osint!NoRow, Proved!NoRow, Osint!Idle, Proved!Idle, Osint!Nobody, Proved!Nobody

LEMMA SameWords ==
  /\ Osint!Subjects = Proved!Subjects /\ Osint!Values = Proved!Values /\ Osint!Task = Proved!Task
  /\ Osint!Nobody = Proved!Nobody /\ Osint!Idle = Proved!Idle /\ Osint!NoRow = Proved!NoRow
  /\ Osint!NoVerdict = Proved!NoVerdict
  /\ \A s : (Osint!Busy(s) <=> Proved!Busy(s)) /\ (Osint!Exists(s) <=> Proved!Exists(s))
            /\ Osint!Targets(s) = Proved!Targets(s)
  /\ \A t, at : (Osint!At(t, at) <=> Proved!At(t, at)) /\ (Osint!GoTo(t, at) <=> Proved!GoTo(t, at))
  /\ \A t : (Osint!End(t) <=> Proved!End(t)) /\ (Osint!Accused(t) <=> Proved!Accused(t))
<1>1. /\ Osint!Subjects = Proved!Subjects /\ Osint!Values = Proved!Values /\ Osint!Task = Proved!Task
      /\ Osint!Nobody = Proved!Nobody /\ Osint!Idle = Proved!Idle /\ Osint!NoRow = Proved!NoRow
      /\ Osint!NoVerdict = Proved!NoVerdict
  BY DEF Osint!Subjects, Proved!Subjects, Osint!Values, Proved!Values, Osint!Task, Proved!Task, Osint!Nobody, Proved!Nobody,
         Osint!Idle, Proved!Idle, Osint!NoRow, Proved!NoRow, Osint!NoVerdict, Proved!NoVerdict
<1>2. \A s : (Osint!Busy(s) <=> Proved!Busy(s)) /\ (Osint!Exists(s) <=> Proved!Exists(s))
  BY DEF Osint!Busy, Proved!Busy, Osint!Exists, Proved!Exists
<1>3. \A s : Osint!Targets(s) = Proved!Targets(s)
  BY DEF Osint!Targets, Proved!Targets, Osint!Cardinality, Proved!Cardinality
<1>4. \A t, at : (Osint!At(t, at) <=> Proved!At(t, at)) /\ (Osint!GoTo(t, at) <=> Proved!GoTo(t, at))
  BY DEF Osint!At, Proved!At, Osint!GoTo, Proved!GoTo
<1>5. \A t : (Osint!End(t) <=> Proved!End(t)) /\ (Osint!Accused(t) <=> Proved!Accused(t))
  BY <1>1 DEF Osint!End, Proved!End, Osint!Accused, Proved!Accused
<1> QED BY <1>1, <1>2, <1>3, <1>4, <1>5

LEMMA SameVerdicts ==
  /\ \A e : Osint!Verdict(e) = Proved!Verdict(e)
  /\ \A v : Osint!Answers(v) = Proved!Answers(v)
  /\ \A todo : Osint!Found(todo) = Proved!Found(todo)
  /\ \A old, new, row : Osint!Replaced(old, new, row) = Proved!Replaced(old, new, row)
                        /\ Osint!Synced(old, new, row) = Proved!Synced(old, new, row)
<1>1. \A e : Osint!Verdict(e) = Proved!Verdict(e)
  BY DEF Osint!Verdict, Proved!Verdict, Osint!Triggers, Proved!Triggers, Osint!Weight, Proved!Weight,
         Osint!Relieved, Proved!Relieved
<1>2. \A v : Osint!Answers(v) = Proved!Answers(v)
  BY DEF Osint!Answers, Proved!Answers
<1>3. \A todo : Osint!Found(todo) = Proved!Found(todo)
  BY <1>1, <1>2 DEF Osint!Found, Proved!Found
<1>4. \A old, new, row : Osint!Replaced(old, new, row) = Proved!Replaced(old, new, row)
                         /\ Osint!Synced(old, new, row) = Proved!Synced(old, new, row)
  BY DEF Osint!Replaced, Proved!Replaced, Osint!Synced, Proved!Synced, Osint!Column, Proved!Column,
         Osint!Confidence, Proved!Confidence, Osint!Higher, Proved!Higher
<1> QED BY <1>1, <1>2, <1>3, <1>4

LEMMA SameAsks ==
  ASSUME NEW t
  PROVE  /\ Osint!AskFinding(t) <=> Proved!AskFinding(t)
         /\ Osint!AskFlow(t) <=> Proved!AskFlow(t)
         /\ Osint!BeginTask(t) <=> Proved!BeginTask(t)
<1>1. \A w : Osint!Launch(t, w) <=> Proved!Launch(t, w)
  BY SameWords DEF Osint!Launch, Proved!Launch
<1>2. \A s : Osint!Request(s) = Proved!Request(s)
  BY SameWords DEF Osint!Request, Proved!Request
<1>3. Osint!AskFinding(t) <=> Proved!AskFinding(t)
  BY SameWords, <1>1, <1>2 DEF Osint!AskFinding, Proved!AskFinding, Osint!Refused, Proved!Refused
<1>4. Osint!AskFlow(t) <=> Proved!AskFlow(t)
  BY SameWords, <1>1, <1>2 DEF Osint!AskFlow, Proved!AskFlow
<1>5. Osint!BeginTask(t) <=> Proved!BeginTask(t)
  BY SameWords, <1>1 DEF Osint!BeginTask, Proved!BeginTask
<1> QED BY <1>3, <1>4, <1>5

LEMMA SameSteps ==
  ASSUME NEW t
  PROVE  Osint!Step(t) <=> Proved!Step(t)
<1>1. Osint!Begin(t) <=> Proved!Begin(t)
  BY SameWords DEF Osint!Begin, Proved!Begin
<1>2. Osint!Lookup(t) <=> Proved!Lookup(t)
  BY SameWords, SameVerdicts DEF Osint!Lookup, Proved!Lookup
<1>3. Osint!LookupFails(t) <=> Proved!LookupFails(t)
  BY SameWords DEF Osint!LookupFails, Proved!LookupFails
<1>4. Osint!SayFailed(t) <=> Proved!SayFailed(t)
  BY SameWords DEF Osint!SayFailed, Proved!SayFailed
<1>5. Osint!SayComplete(t) <=> Proved!SayComplete(t)
  BY SameWords DEF Osint!SayComplete, Proved!SayComplete, Osint!Accused, Proved!Accused
<1>6. Osint!ReadRows(t) <=> Proved!ReadRows(t)
  BY SameWords DEF Osint!ReadRows, Proved!ReadRows
<1>7. Osint!WriteRows(t) <=> Proved!WriteRows(t)
  <2>1. Osint!AfterRows(t) = Proved!AfterRows(t) /\ Osint!WithoutRows(t) = Proved!WithoutRows(t)
    BY SameWords DEF Osint!AfterRows, Proved!AfterRows, Osint!WithoutRows, Proved!WithoutRows, Osint!GoesOn, Proved!GoesOn
  <2> QED BY SameWords, SameVerdicts, <2>1 DEF Osint!WriteRows, Proved!WriteRows
<1>8. Osint!RaiseSeverity(t) <=> Proved!RaiseSeverity(t)
  BY SameWords DEF Osint!RaiseSeverity, Proved!RaiseSeverity
<1>9. Osint!TaskRow(t) <=> Proved!TaskRow(t)
  BY SameWords, SameVerdicts DEF Osint!TaskRow, Proved!TaskRow
<1> QED BY <1>1, <1>2, <1>3, <1>4, <1>5, <1>6, <1>7, <1>8, <1>9 DEF Osint!Step, Proved!Step

LEMMA SameNext == [Osint!Next]_(Osint!vars) <=> [Proved!Next]_(Proved!vars)
<1>1. (Osint!Detect <=> Proved!Detect) /\ (Osint!Delete <=> Proved!Delete) /\ (Osint!Restart <=> Proved!Restart)
  BY SameWords DEF Osint!Detect, Proved!Detect, Osint!Delete, Proved!Delete, Osint!Restart, Proved!Restart
<1>2. Osint!Next <=> Proved!Next
  BY <1>1, SameAsks, SameSteps DEF Osint!Next, Proved!Next
<1>3. (UNCHANGED Osint!vars) <=> (UNCHANGED Proved!vars)
  BY DEF Osint!vars, Proved!vars
<1> QED BY <1>2, <1>3

LEMMA SameSpec == Osint!Spec => Proved!Spec
BY SameInit, SameNext, PTL DEF Osint!Spec, Proved!Spec

LEMMA SaneHere == Proved!Sane
BY OsintAssumption DEF Osint!Sane, Proved!Sane, Osint!Task, Proved!Task, Osint!Nobody, Proved!Nobody,
   Osint!Subjects, Proved!Subjects, Osint!Values, Proved!Values

LEMMA OsintHolds == Osint!Spec => [](Osint!TypeOK /\ Osint!NoneLeftRunning /\ Osint!SeverityCovers)
<1>1. Proved!TypeOK => Osint!TypeOK
  BY DEF Proved!TypeOK, Osint!TypeOK, Osint!Task, Proved!Task, Osint!Nobody, Proved!Nobody,
         Osint!Subjects, Proved!Subjects, Osint!Values, Proved!Values
<1>2. Proved!NoneLeftRunning => Osint!NoneLeftRunning
  BY DEF Proved!NoneLeftRunning, Osint!NoneLeftRunning, Osint!Subjects, Proved!Subjects, Osint!Busy, Proved!Busy
<1>3. Proved!SeverityCovers => Osint!SeverityCovers
  BY DEF Proved!SeverityCovers, Osint!SeverityCovers, Proved!AccusedAreRaised, Osint!AccusedAreRaised,
         Osint!Values, Proved!Values, Osint!Busy, Proved!Busy
<1>4. Proved!Spec => []Proved!TypeOK /\ []Proved!NoneLeftRunning /\ []Proved!SeverityCovers
  BY SaneHere, Proved!TypesHold, Proved!RunningIsWorkedAt, Proved!SeverityIsCovered
<1> QED BY <1>1, <1>2, <1>3, <1>4, SameSpec, PTL

\* What each part does is a behaviour of its module.
LEMMA PartsMove == MCSpec => Stream!Spec /\ Osint!Spec /\ Rules!Spec /\ Tables!Spec
<1>1. MCInit => Stream!Init /\ Osint!Init /\ Rules!Init /\ Tables!Init
  BY DEF MCInit
<1>2. /\ UNCHANGED streamVars <=> UNCHANGED Stream!vars
      /\ UNCHANGED osintVars <=> UNCHANGED Osint!vars
      /\ UNCHANGED rulesVars <=> UNCHANGED Rules!vars
      /\ UNCHANGED tableVars <=> UNCHANGED Tables!vars
  BY DEF streamVars, Stream!vars, osintVars, Osint!vars, rulesVars, Rules!vars,
         tableVars, Tables!vars, Tables!parser, Tables!monitor
<1>3. UNCHANGED allVars => UNCHANGED streamVars /\ UNCHANGED osintVars /\ UNCHANGED rulesVars /\ UNCHANGED tableVars
  BY DEF allVars
<1>4. [MCNext]_allVars => /\ [Stream!Next]_(Stream!vars) /\ [Osint!Next]_(Osint!vars)
                          /\ [Rules!Next]_(Rules!vars) /\ [Tables!Next]_(Tables!vars)
  BY <1>2, <1>3 DEF MCNext
<1> QED BY <1>1, <1>4, PTL DEF MCSpec, Stream!Spec, Osint!Spec, Rules!Spec, Tables!Spec

(* Whatever fails, and for any number of threads: an investigation that is  *)
(* shown as running is worked at, in the rows of the live alerts            *)
(* (live_investigation.py) and in the findings and flows of an analysis     *)
(* (investigation/service.py).                                              *)
THEOREM NobodyWaitsInVain == MCSpec => []NoneLeftRunning
<1>1. ASSUME StreamInv
      PROVE  Stream!NoneLeftRunning
  <2> SUFFICES ASSUME NEW i \in Stream!Ids, Stream!RowsOf(i) # {}, Stream!Shown(i).investigation = "running",
                      i \notin clash, ~(restarts > 0)
               PROVE  \E t \in Threads : job[t].kind \in {"begin", "run"} /\ job[t].id = i
    BY DEF Stream!NoneLeftRunning
  <2>1. restarts = 0
    BY <1>1, StreamBounds DEF StreamInv, StreamTypes
  <2>2. PICK t \in Threads : Driving(job[t], i)
    BY <1>1, <2>1, ShownFacts
  <2> QED BY <2>2 DEF Driving
<1>2. StreamInv /\ Osint!TypeOK /\ Osint!NoneLeftRunning => NoneLeftRunning
  BY <1>1 DEF NoneLeftRunning
<1> QED BY <1>2, PartsMove, StreamHolds, OsintHolds, PTL

-----------------------------------------------------------------------------
(* Detection in a capture.  A finding that names a flow names one that the  *)
(* whitelist let through; the severity of a flow is taken over the findings *)
(* that name it, after all rules, anomalies and correlations are in.        *)

\* Among finitely many rows there are an earliest and a latest.
LEMMA Extremes ==
  ASSUME NEW n \in Nat, NEW G \in SUBSET (1 .. n), G # {}, NEW when, \A i \in G : when[i] \in Int
  PROVE  /\ \E i \in G : \A j \in G : when[i] <= when[j]
         /\ \E i \in G : \A j \in G : when[i] >= when[j]
<1>1. ASSUME NEW at, \A i \in G : at[i] \in Int
      PROVE  \E i \in G : \A j \in G : at[i] <= at[j]
  <2> DEFINE Until(i) == {k \in G : at[k] <= at[i]}
  <2>1. IsFiniteSet(1 .. n) /\ Cardinality(1 .. n) = n
    BY FS_Interval
  <2>2. ASSUME NEW i \in G
        PROVE  /\ Until(i) \subseteq 1 .. n /\ i \in Until(i)
               /\ IsFiniteSet(Until(i)) /\ Cardinality(Until(i)) \in 1 .. n
    <3>1. Until(i) \subseteq 1 .. n /\ i \in Until(i)
      <4>1. at[i] \in Int /\ G \subseteq 1 .. n
        BY <1>1
      <4>2. at[i] <= at[i]
        BY <4>1
      <4> QED BY <4>1, <4>2
    <3>2. IsFiniteSet(Until(i)) /\ Cardinality(Until(i)) <= n
      BY <2>1, <3>1, FS_Subset
    <3>3. Cardinality(Until(i)) \in Nat /\ Cardinality(Until(i)) # 0
      BY <3>1, <3>2, FS_CardinalityType, FS_EmptySet
    <3> QED BY <3>1, <3>2, <3>3
  <2> HIDE DEF Until
  <2> DEFINE Ranks == {Cardinality(Until(i)) : i \in G}
  <2>3. Ranks \in SUBSET (1 .. n) /\ Ranks # {}
    BY <2>2
  <2>4. PICK m \in Ranks : \A k \in Ranks : m <= k
    BY <2>3, LeastPlace
  <2>5. PICK i \in G : m = Cardinality(Until(i))
    BY <2>4
  <2>6. ASSUME NEW j \in G, at[j] < at[i]
        PROVE  FALSE
    <3>1. at[i] \in Int /\ at[j] \in Int /\ \A k \in G : at[k] \in Int
      BY <1>1
    <3>2. Until(j) \subseteq Until(i) /\ i \notin Until(j)
      <4>1. ASSUME NEW k \in G, at[k] <= at[j]
            PROVE  at[k] <= at[i]
        BY <2>6, <3>1, <4>1
      <4>2. ~(at[i] <= at[j])
        BY <2>6, <3>1
      <4> QED BY <4>1, <4>2 DEF Until
    <3>3. Cardinality(Until(j)) <= Cardinality(Until(i)) /\ Cardinality(Until(j)) # Cardinality(Until(i))
      BY <2>2, <3>2, FS_Subset
    <3>4. Cardinality(Until(i)) <= Cardinality(Until(j))
      BY <2>4, <2>5
    <3>5. Cardinality(Until(i)) \in Nat /\ Cardinality(Until(j)) \in Nat
      BY <2>2
    <3> QED BY <3>3, <3>4, <3>5
  <2>7. \A j \in G : at[i] <= at[j]
    BY <1>1, <2>6
  <2> QED BY <2>7
<1>2. \E i \in G : \A j \in G : when[i] <= when[j]
  BY <1>1
<1>3. \E i \in G : \A j \in G : when[i] >= when[j]
  <2> DEFINE back == [i \in G |-> -when[i]]
  <2>1. \A i \in G : back[i] \in Int
    OBVIOUS
  <2>2. PICK i \in G : \A j \in G : back[i] <= back[j]
    BY <1>1, <2>1
  <2>3. \A j \in G : when[i] >= when[j]
    <3> SUFFICES ASSUME NEW j \in G PROVE when[i] >= when[j]
      OBVIOUS
    <3>1. back[i] <= back[j] /\ back[i] = -when[i] /\ back[j] = -when[j] /\ when[i] \in Int /\ when[j] \in Int
      BY <2>2
    <3> QED BY <3>1
  <2> QED BY <2>3
<1> QED BY <1>2, <1>3

LEMMA MaxFacts ==
  ASSUME NEW S, \E x \in S : \A y \in S : x >= y
  PROVE  Rules!Max(S) \in S /\ \A y \in S : Rules!Max(S) >= y
BY DEF Rules!Max

LEMMA MinFacts ==
  ASSUME NEW S, \E x \in S : \A y \in S : x <= y
  PROVE  Rules!Min(S) \in S /\ \A y \in S : Rules!Min(S) <= y
BY DEF Rules!Min

Levels == {300, 500, 800, 1000}
Stored == {[r EXCEPT !.at = t] : r \in Rows, t \in Starts}
Parsed == rows \in Seq(Stored) /\ arps \in Seq(Arps)

LEMMA RowFacts ==
  ASSUME Parsed
  PROVE  /\ Len(rows) \in Nat /\ Rules!Ids = 1 .. Len(rows) /\ Rules!Active \subseteq 1 .. Len(rows)
         /\ \A i \in 1 .. Len(rows) : rows[i].at \in Starts /\ rows[i].at \in Int /\ rows[i].raw \in Int
<1>1. Len(rows) \in Nat /\ DOMAIN rows = 1 .. Len(rows) /\ \A i \in 1 .. Len(rows) : rows[i] \in Stored
  BY LenProperties, ElementOfSeq DEF Parsed
<1>2. \A r \in Stored : r.at \in Starts /\ r.raw \in Int
  BY RulesAssumption DEF Stored, Rules!Sane
<1>3. Starts \subseteq Int
  BY RulesAssumption DEF Rules!Sane
<1> QED BY <1>1, <1>2, <1>3 DEF Rules!Ids, Rules!Active

LEMMA GroupsFacts ==
  ASSUME NEW key, NEW G \in Rules!Groups(key)
  PROVE  G \subseteq DOMAIN key /\ G # {}
BY DEF Rules!Groups

\* A finding of a rule about some active flows, or about none.
Sound(f, rule) == /\ f.rule = rule /\ f.source = "rule" /\ f.score \in Levels
                  /\ f.flow = 0 \/ f.flow \in Rules!Active

LEMMA AboutFacts ==
  ASSUME Parsed, NEW rule, NEW sev \in {"critical", "high", "medium", "low"}, NEW G \in SUBSET Rules!Active, G # {}
  PROVE  Sound(Rules!About(rule, sev, G), rule) /\ Rules!About(rule, sev, G).of = G
<1>1. \E i \in G : \A j \in G : i <= j
  <2>1. PICK i \in G : \A j \in G : i <= j
    BY RowFacts, LeastPlace
  <2> QED BY <2>1
<1>2. Rules!Min(G) \in G
  BY <1>1, MinFacts
<1>3. Rules!Level(sev) \in Levels
  BY DEF Rules!Level, Levels
<1> QED BY <1>2, <1>3 DEF Rules!About, Sound

LEMMA UnlinkedFacts ==
  ASSUME NEW rule, NEW sev \in {"critical", "high", "medium", "low"}, NEW what
  PROVE  Sound(Rules!Unlinked(rule, sev, what), rule) /\ Rules!Unlinked(rule, sev, what).of = what
<1>1. Rules!Level(sev) \in Levels
  BY DEF Rules!Level, Levels
<1> QED BY <1>1 DEF Rules!Unlinked, Sound

\* The rules that look at one flow after the other.
LEMMA SingleFacts ==
  ASSUME Parsed
  PROVE  /\ \A f \in Rules!DnsPayload : Sound(f, "DNSTUNNEL-001")
         /\ \A f \in Rules!DnsEntropy : Sound(f, "DNSTUNNEL-003")
         /\ \A f \in Rules!Dga : Sound(f, "DGATOP-001")
         /\ \A f \in Rules!Mismatches : Sound(f, "PORTMISMATCH-001")
         /\ \A f \in Rules!Exfil : Sound(f, "EXFIL-001")
         /\ \A f \in Rules!TlsNoSni : Sound(f, "TLSNONSNI-001")
         /\ \A f \in Rules!Cleartext : Sound(f, "CLEARTEXT-001")
         /\ \A f \in Rules!LongConn : Sound(f, "LONGCONN-001")
<1>1. ASSUME NEW i \in Rules!Active, NEW rule, NEW sev \in {"critical", "high", "medium", "low"}
      PROVE  Sound(Rules!About(rule, sev, {i}), rule)
  BY AboutFacts
<1>2. \A f \in Rules!DnsPayload : Sound(f, "DNSTUNNEL-001")
  BY <1>1 DEF Rules!DnsPayload
<1>3. \A f \in Rules!DnsEntropy : Sound(f, "DNSTUNNEL-003")
  BY <1>1 DEF Rules!DnsEntropy
<1>4. \A f \in Rules!Dga : Sound(f, "DGATOP-001")
  BY <1>1 DEF Rules!Dga
<1>5. \A f \in Rules!Mismatches : Sound(f, "PORTMISMATCH-001")
  BY <1>1 DEF Rules!Mismatches
<1>6. \A f \in Rules!Exfil : Sound(f, "EXFIL-001")
  BY <1>1 DEF Rules!Exfil, Rules!Senders
<1>7. \A f \in Rules!TlsNoSni : Sound(f, "TLSNONSNI-001")
  BY <1>1 DEF Rules!TlsNoSni
<1>8. \A f \in Rules!Cleartext : Sound(f, "CLEARTEXT-001")
  BY <1>1 DEF Rules!Cleartext
<1>9. \A f \in Rules!LongConn : Sound(f, "LONGCONN-001")
  BY <1>1 DEF Rules!LongConn
<1> QED BY <1>2, <1>3, <1>4, <1>5, <1>6, <1>7, <1>8, <1>9

\* Those that look at groups of flows.
LEMMA GroupedFacts ==
  ASSUME Parsed
  PROVE  /\ \A f \in Rules!Horizontal : Sound(f, "PORTSCAN-001")
         /\ \A f \in Rules!Vertical : Sound(f, "PORTSCAN-002")
         /\ \A f \in Rules!Beacon : Sound(f, "BEACON-001")
         /\ \A f \in Rules!BeaconSlow : Sound(f, "BEACON-002")
<1>1. ASSUME NEW key, DOMAIN key \subseteq Rules!Active, NEW G \in Rules!Groups(key), NEW rule
      PROVE  Sound(Rules!About(rule, "high", G), rule)
  <2>1. G \in SUBSET Rules!Active /\ G # {}
    BY <1>1, GroupsFacts
  <2> QED BY <2>1, AboutFacts
<1>2. \A f \in Rules!Horizontal : Sound(f, "PORTSCAN-001")
  BY <1>1 DEF Rules!Horizontal
<1>3. \A f \in Rules!Vertical : Sound(f, "PORTSCAN-002")
  BY <1>1 DEF Rules!Vertical
<1>4. ASSUME NEW rule, NEW connections, NEW low, NEW high, NEW f \in Rules!Beacons(rule, connections, low, high)
      PROVE  Sound(f, rule)
  BY <1>1, <1>4 DEF Rules!Beacons
<1> QED BY <1>2, <1>3, <1>4 DEF Rules!Beacon, Rules!BeaconSlow

\* And those that name no flow.
LEMMA UnnamedFacts ==
  /\ \A f \in Rules!DnsFrequency : Sound(f, "DNSTUNNEL-002")
  /\ \A f \in Rules!Gratuitous : Sound(f, "ARPSPOOFING-001")
  /\ \A f \in Rules!Storms : Sound(f, "ARPSPOOFING-002")
  /\ \A f \in Rules!Lateral : Sound(f, "LATERAL-001")
  /\ \A f \in Rules!NewDomain : Sound(f, "NEWDOMAIN-001")
<1>1. \A f \in Rules!DnsFrequency : Sound(f, "DNSTUNNEL-002")
  BY UnlinkedFacts DEF Rules!DnsFrequency
<1>2. \A f \in Rules!Gratuitous : Sound(f, "ARPSPOOFING-001")
  BY UnlinkedFacts DEF Rules!Gratuitous
<1>3. \A f \in Rules!Storms : Sound(f, "ARPSPOOFING-002")
  BY UnlinkedFacts DEF Rules!Storms
<1>4. \A f \in Rules!Lateral : Sound(f, "LATERAL-001")
  BY UnlinkedFacts DEF Rules!Lateral
<1>5. \A f \in Rules!NewDomain : Sound(f, "NEWDOMAIN-001")
  BY UnlinkedFacts DEF Rules!NewDomain
<1> QED BY <1>1, <1>2, <1>3, <1>4, <1>5

\* What the rules find, and what finds a scan or a storm.
LEMMA RuleFacts ==
  ASSUME Parsed, NEW f \in Rules!Found
  PROVE  /\ Sound(f, f.rule)
         /\ f.rule = "PORTSCAN-001" => f \in Rules!Horizontal
         /\ f.rule = "PORTSCAN-002" => f \in Rules!Vertical
         /\ f.rule = "ARPSPOOFING-002" => f \in Rules!Storms
<1>1. \/ f \in Rules!Horizontal \/ f \in Rules!Vertical \/ f \in Rules!Storms
      \/ Sound(f, f.rule) /\ f.rule \notin {"PORTSCAN-001", "PORTSCAN-002", "ARPSPOOFING-002"}
  BY SingleFacts, GroupedFacts, UnnamedFacts DEF Rules!Found, Sound
<1>2. f \in Rules!Horizontal => Sound(f, "PORTSCAN-001")
  BY GroupedFacts
<1>3. f \in Rules!Vertical => Sound(f, "PORTSCAN-002")
  BY GroupedFacts
<1>4. f \in Rules!Storms => Sound(f, "ARPSPOOFING-002")
  BY UnnamedFacts
<1> QED BY <1>1, <1>2, <1>3, <1>4 DEF Sound

\* A finding that names a flow names an active one, and its score is within 1000.
Named(f) == \/ f.flow = 0
            \/ /\ f.flow \in Rules!Active  /\ f.score \in 0 .. 1000
               /\ f.source = "ml" => f.score <= score[f.flow]
               /\ f.source \in {"rule", "ti_correlation", "ml"}
Scored   == \A i \in Rules!Ids : score[i] \in 0 .. 1000 /\ (i \notin Rules!Active => score[i] = 0)
RulesInv ==
  /\ Parsed
  /\ stage = "parse" => findings = {}
  /\ Rules!Judged => Scored /\ \A f \in findings : Named(f)
  /\ stage = "ml" => \A f \in findings : f.source = "rule"
  /\ Rules!WindowsAreTrue
  /\ Rules!SeverityCovers

\* The scores are within 0 and 1000, and the hybrid is not below what it is made of.
LEMMA MaxOfScores ==
  ASSUME NEW S \in SUBSET (0 .. 1000), S # {}
  PROVE  Rules!Max(S) \in S /\ \A y \in S : Rules!Max(S) >= y
<1> DEFINE T == {1001 - x : x \in S}
<1>1. T \in SUBSET (1 .. 1001) /\ T # {}
  <2>1. \A x \in S : 1001 - x \in 1 .. 1001
    OBVIOUS
  <2>2. \A y \in T : y \in 1 .. 1001
    BY <2>1
  <2>3. PICK x \in S : TRUE
    OBVIOUS
  <2>4. T # {}
    OBVIOUS
  <2> HIDE DEF T
  <2>5. T \subseteq 1 .. 1001
    BY ONLY <2>2
  <2> QED BY ONLY <2>4, <2>5
<1>2. PICK m \in T : \A k \in T : m <= k
  <2>1. PICK n \in Nat : n = 1001
    OBVIOUS
  <2> HIDE DEF T
  <2>2. T \in SUBSET (1 .. n) /\ T # {}
    BY ONLY <1>1, <2>1
  <2> QED BY ONLY <2>2, LeastPlace
<1>3. PICK x \in S : m = 1001 - x
  BY <1>2
<1>4. \A y \in S : x >= y
  <2> SUFFICES ASSUME NEW y \in S PROVE x >= y
    OBVIOUS
  <2>1. m <= 1001 - y
    BY <1>2
  <2> QED BY <1>3, <2>1
<1>5. \E z \in S : \A y \in S : z >= y
  BY <1>4
<1> QED BY <1>5, MaxFacts

LEMMA MinOfTwo ==
  ASSUME NEW a \in Int, NEW b \in Int
  PROVE  Rules!Min({a, b}) \in {a, b} /\ Rules!Min({a, b}) <= a /\ Rules!Min({a, b}) <= b
<1>1. \E x \in {a, b} : \A y \in {a, b} : x <= y
  OBVIOUS
<1> QED BY <1>1, MinFacts

LEMMA MaxOfTwo ==
  ASSUME NEW a \in Int, NEW b \in Int
  PROVE  Rules!Max({a, b}) \in {a, b} /\ Rules!Max({a, b}) >= a /\ Rules!Max({a, b}) >= b
<1>1. \E x \in {a, b} : \A y \in {a, b} : x >= y
  OBVIOUS
<1> QED BY <1>1, MaxFacts

LEMMA RoundedFacts ==
  ASSUME NEW n \in Int, NEW d \in Int, d > 0
  PROVE  Rules!Rounded(n, d) \in Int
<1>1. n \div d \in Int /\ n \div d + 1 \in Int
  OBVIOUS
<1> QED BY <1>1 DEF Rules!Rounded

LEMMA RoundedTenths ==
  ASSUME NEW m \in 0 .. 1000, NEW b \in 0 .. 1000
  PROVE  Rules!Rounded(10 * m + b, 10) \in Int /\ Rules!Rounded(10 * m + b, 10) >= m
<1>1. (10 * m + b) \div 10 \in Int /\ (10 * m + b) \div 10 >= m
  OBVIOUS
<1> QED BY <1>1 DEF Rules!Rounded

LEMMA NormalizedFacts ==
  ASSUME NEW d \in Int
  PROVE  Rules!Normalized(d) \in 0 .. 1000
<1> DEFINE s == IF d >= 0 THEN Rules!Rounded(500 * (DMax - d), DMax) ELSE Rules!Rounded(500 * (DMin + d) * (-1), -DMin)
<1>1. DMin \in Int /\ DMax \in Int /\ DMin < 0 /\ 0 < DMax
  BY RulesAssumption DEF Rules!Sane
<1>2. 500 * (DMax - d) \in Int /\ 500 * (DMin + d) * (-1) \in Int /\ -DMin \in Int /\ -DMin > 0
  BY <1>1
<1>3. s \in Int
  BY <1>1, <1>2, RoundedFacts
<1> HIDE DEF s
<1>4. Rules!Min({1000, s}) \in Int /\ Rules!Min({1000, s}) <= 1000
  BY <1>3, MinOfTwo
<1>5. Rules!Max({0, Rules!Min({1000, s})}) \in {0, Rules!Min({1000, s})} /\ Rules!Max({0, Rules!Min({1000, s})}) >= 0
  BY <1>4, MaxOfTwo
<1>6. Rules!Max({0, Rules!Min({1000, s})}) \in 0 .. 1000
  BY <1>4, <1>5
<1> QED BY <1>6 DEF Rules!Normalized, s

LEMMA HybridFacts ==
  ASSUME RulesInv, Rules!Judged, NEW i \in Rules!Active
  PROVE  /\ Rules!Hybrid(i) <= 1000 /\ Rules!Hybrid(i) >= score[i]
         /\ \A f \in findings : f.flow = i => Rules!Hybrid(i) >= f.score
<1> DEFINE S     == Rules!RuleScores(i) \cup {score[i]}
           m     == Rules!Max(S)
           boost == IF Rules!Of(i) # {} /\ score[i] >= 500 THEN score[i] ELSE 0
<1>1. i \in Rules!Ids /\ i # 0 /\ score[i] \in 0 .. 1000
  BY RowFacts DEF RulesInv, Scored, Rules!Active
<1>2. \A f \in findings : Named(f)
  BY DEF RulesInv
<1>3. S \in SUBSET (0 .. 1000) /\ S # {} /\ boost \in 0 .. 1000
  BY <1>1, <1>2 DEF Named, Rules!RuleScores, Rules!Of
<1>4. m \in S /\ \A y \in S : m >= y
  <2> HIDE DEF S
  <2> QED BY <1>3, MaxOfScores
<1>5. m \in 0 .. 1000
  BY <1>3, <1>4
<1>6. Rules!Rounded(10 * m + boost, 10) \in Int /\ Rules!Rounded(10 * m + boost, 10) >= m
  <2>1. m \in 0 .. 1000 /\ boost \in 0 .. 1000
    BY <1>3, <1>5
  <2> HIDE DEF m, boost
  <2> QED BY <2>1, RoundedTenths, ZenonT(40)
<1>7. Rules!Hybrid(i) = Rules!Min({1000, Rules!Rounded(10 * m + boost, 10)})
  BY DEF Rules!Hybrid, m, boost
<1> HIDE DEF m, boost
<1>8. PICK r \in Int : r = Rules!Rounded(10 * m + boost, 10)
  BY <1>6
<1>9. PICK h : h = Rules!Hybrid(i)
  OBVIOUS
<1>10. h \in {1000, r} /\ h <= 1000 /\ h >= m /\ h \in Int
  <2>1. h = Rules!Min({1000, r}) /\ r >= m
    BY <1>6, <1>7, <1>8, <1>9
  <2>2. h \in {1000, r} /\ h <= 1000
    BY <2>1, MinOfTwo
  <2> QED BY <1>5, <2>1, <2>2
<1>11. \A y \in S : y \in 0 .. 1000 /\ h >= y
  <2> SUFFICES ASSUME NEW y \in S PROVE y \in 0 .. 1000 /\ h >= y
    OBVIOUS
  <2>1. m >= y /\ y \in 0 .. 1000
    BY <1>3, <1>4
  <2> QED BY <1>5, <1>10, <2>1
<1>12. score[i] \in S
  OBVIOUS
<1>13. ASSUME NEW f \in findings, f.flow = i
       PROVE  h >= f.score
  <2>1. f.score \in 0 .. 1000 /\ (f.source \in {"rule", "ti_correlation"} \/ f.score <= score[i])
    BY <1>1, <1>2, <1>13 DEF Named
  <2>2. CASE f.source \in {"rule", "ti_correlation"}
    <3>1. f.score \in Rules!RuleScores(i)
      BY <1>13, <2>2 DEF Rules!RuleScores, Rules!Of
    <3> QED BY <1>11, <3>1
  <2>3. CASE f.score <= score[i]
    <3>1. h >= score[i]
      BY <1>11, <1>12, Zenon
    <3>2. 0 .. 1000 \subseteq Int
      OBVIOUS
    <3>3. h \in Int
      BY <1>10
    <3>4. score[i] \in Int
      BY <1>1, <3>2, Zenon
    <3>5. f.score \in Int
      BY <2>1, <3>2, Zenon
    <3> QED BY ONLY <2>3, <3>1, <3>3, <3>4, <3>5
  <2> QED BY <2>1, <2>2, <2>3
<1> HIDE DEF S
<1> QED BY <1>9, <1>10, <1>11, <1>12, <1>13

-----------------------------------------------------------------------------
(* The windows of the rules                                                 *)

\* Flows that start within the window of each other do so within that of the first of them.
LEMMA QuickIsWithin ==
  ASSUME Parsed, NEW G \in SUBSET Rules!Active, G # {}, Rules!Quick(G)
  PROVE  \E t \in Starts : Rules!Within(G, t, ScanWindow) = G
<1> DEFINE at == [i \in G |-> rows[i].at]  all == {rows[i].at : i \in G}
<1>1. Len(rows) \in Nat /\ G \in SUBSET (1 .. Len(rows)) /\ \A i \in G : rows[i].at \in Starts /\ rows[i].at \in Int
  BY RowFacts
<1>2. \A i \in G : at[i] \in Int
  BY <1>1
<1>3. (\E i \in G : \A j \in G : at[i] <= at[j]) /\ (\E i \in G : \A j \in G : at[i] >= at[j])
  <2> HIDE DEF at
  <2> QED BY <1>1, <1>2, Extremes
<1>4. PICK i \in G : \A j \in G : rows[i].at <= rows[j].at
  BY <1>3
<1>5. (\E x \in all : \A y \in all : x <= y) /\ (\E x \in all : \A y \in all : x >= y)
  BY <1>3
<1>6. Rules!Max(all) \in all /\ \A y \in all : Rules!Max(all) >= y
  BY <1>5, MaxFacts
<1>7. Rules!Min(all) \in all /\ \A y \in all : Rules!Min(all) <= y
  BY <1>5, MinFacts
<1>8. PICK high : high = Rules!Max(all)
  OBVIOUS
<1>9. PICK low : low = Rules!Min(all)
  OBVIOUS
<1>10. high - low <= ScanWindow
  BY <1>8, <1>9 DEF Rules!Quick, Rules!Span
<1>11. high \in Int /\ low \in Int /\ ScanWindow \in Int /\ rows[i].at \in Int /\ low <= rows[i].at
  BY <1>1, <1>6, <1>7, <1>8, <1>9, RulesAssumption DEF Rules!Sane
<1>12. ASSUME NEW j \in G
       PROVE  rows[i].at <= rows[j].at /\ rows[j].at <= rows[i].at + ScanWindow
  <2>1. rows[j].at \in Int /\ high >= rows[j].at
    BY <1>1, <1>6, <1>8
  <2>2. rows[i].at <= rows[j].at
    BY <1>4
  <2>3. PICK a, b : a = rows[i].at /\ b = rows[j].at
    OBVIOUS
  <2>4. /\ a \in Int /\ b \in Int /\ high \in Int /\ low \in Int /\ ScanWindow \in Int
        /\ high >= b /\ low <= a /\ high - low <= ScanWindow
    BY <1>10, <1>11, <2>1, <2>3
  <2>5. b <= a + ScanWindow
    BY ONLY <2>4
  <2> QED BY <2>2, <2>3, <2>5
<1>13. Rules!Within(G, rows[i].at, ScanWindow) = G
  BY <1>12 DEF Rules!Within
<1> QED BY <1>1, <1>13

LEMMA ScansAreTrue ==
  ASSUME Parsed
  PROVE  /\ \A f \in Rules!Horizontal :
              \E t \in Starts : Rules!Cardinality(Rules!Ports(Rules!Within(f.of, t, ScanWindow))) >= MinPorts
         /\ \A f \in Rules!Vertical :
              \E t \in Starts : Rules!Cardinality(Rules!Hosts(Rules!Within(f.of, t, ScanWindow))) >= MinHosts
<1>1. ASSUME NEW key, DOMAIN key = Rules!Active, NEW G \in Rules!Groups(key), Rules!Quick(G), NEW rule
      PROVE  /\ \E t \in Starts : Rules!Within(G, t, ScanWindow) = G
             /\ Rules!About(rule, "high", G).of = G
  <2>1. G \in SUBSET Rules!Active /\ G # {}
    BY <1>1, GroupsFacts
  <2> QED BY <1>1, <2>1, QuickIsWithin DEF Rules!About
<1>2. ASSUME NEW f \in Rules!Horizontal
      PROVE  \E t \in Starts : Rules!Cardinality(Rules!Ports(Rules!Within(f.of, t, ScanWindow))) >= MinPorts
  <2> DEFINE key == [i \in Rules!Active |-> <<rows[i].src, rows[i].dst>>]
  <2>1. DOMAIN key = Rules!Active
    OBVIOUS
  <2>2. PICK G \in Rules!Groups(key) : /\ Rules!Cardinality(Rules!Ports(G)) >= MinPorts  /\ Rules!Quick(G)
                                       /\ f = Rules!About("PORTSCAN-001", "high", G)
    BY <1>2 DEF Rules!Horizontal
  <2> HIDE DEF key
  <2>3. (\E t \in Starts : Rules!Within(G, t, ScanWindow) = G) /\ f.of = G
    BY <1>1, <2>1, <2>2
  <2> QED BY <2>2, <2>3
<1>3. ASSUME NEW f \in Rules!Vertical
      PROVE  \E t \in Starts : Rules!Cardinality(Rules!Hosts(Rules!Within(f.of, t, ScanWindow))) >= MinHosts
  <2> DEFINE key == [i \in Rules!Active |-> <<rows[i].src, rows[i].port>>]
  <2>1. DOMAIN key = Rules!Active
    OBVIOUS
  <2>2. PICK G \in Rules!Groups(key) : /\ Rules!Cardinality(Rules!Hosts(G)) >= MinHosts  /\ Rules!Quick(G)
                                       /\ f = Rules!About("PORTSCAN-002", "high", G)
    BY <1>3 DEF Rules!Vertical
  <2> HIDE DEF key
  <2>3. (\E t \in Starts : Rules!Within(G, t, ScanWindow) = G) /\ f.of = G
    BY <1>1, <2>1, <2>2
  <2> QED BY <2>2, <2>3
<1> QED BY <1>2, <1>3

\* A window that holds the replies of a storm holds a first one, and what follows that one
\* within the length of a window has them all.
LEMMA StormsAreTrue ==
  ASSUME Parsed, NEW mac
  PROVE  (\E f \in Rules!Storms : f.of = {mac})
         <=> \E t \in {e.at : e \in Arps} \cup {e.at - StormWindow : e \in Arps} : Rules!StormIn(mac, t)
<1> DEFINE There(t) == {k \in Rules!Replies(mac) : t <= arps[k].at /\ arps[k].at <= t + StormWindow}
<1>1. Len(arps) \in Nat /\ DOMAIN arps = 1 .. Len(arps) /\ \A k \in 1 .. Len(arps) : arps[k] \in Arps
  BY LenProperties, ElementOfSeq DEF Parsed
<1>2. StormWindow \in Int /\ StormReplies \in Nat /\ StormReplies # 0 /\ \A e \in Arps : e.at \in Int
  BY RulesAssumption DEF Rules!Sane
<1>3. Rules!Replies(mac) \subseteq 1 .. Len(arps) /\ \A k \in Rules!Replies(mac) : arps[k].mac = mac /\ arps[k].at \in Int
  BY <1>1, <1>2 DEF Rules!Replies
<1>4. IsFiniteSet(1 .. Len(arps))
  BY <1>1, FS_Interval
<1>5. \A S \in SUBSET (1 .. Len(arps)) : Rules!Cardinality(S) = Cardinality(S)
  BY DEF Rules!Cardinality, Cardinality
<1>6. ASSUME NEW f \in Rules!Storms, f.of = {mac}
      PROVE  \E t \in {e.at : e \in Arps} : Rules!StormIn(mac, t)
  <2>1. PICK m : /\ f = Rules!Unlinked("ARPSPOOFING-002", "high", {m})
                 /\ \E k \in Rules!Replies(m) : Rules!Cardinality(Rules!Burst(m, k)) >= StormReplies
    BY <1>6 DEF Rules!Storms
  <2>2. m = mac
    BY <1>6, <2>1 DEF Rules!Unlinked
  <2>3. PICK k \in Rules!Replies(mac) : Rules!Cardinality(Rules!Burst(mac, k)) >= StormReplies
    BY <2>1, <2>2
  <2>4. Rules!Burst(mac, k) = There(arps[k].at)
    <3>1. ASSUME NEW j \in Rules!Replies(mac)
          PROVE  arps[j].at - arps[k].at <= StormWindow <=> arps[j].at <= arps[k].at + StormWindow
      <4>1. arps[j].at \in Int /\ arps[k].at \in Int /\ StormWindow \in Int
        BY <1>2, <1>3
      <4> QED BY ONLY <4>1
    <3> QED BY <3>1 DEF Rules!Burst
  <2>5. arps[k].at \in {e.at : e \in Arps}
    BY <1>1, <1>3
  <2>6. Rules!StormIn(mac, arps[k].at)
    BY <2>3, <2>4 DEF Rules!StormIn
  <2> QED BY <2>5, <2>6
<1>7. ASSUME NEW t \in Int, Rules!StormIn(mac, t)
      PROVE  \E f \in Rules!Storms : f.of = {mac}
  <2>1. There(t) \in SUBSET (1 .. Len(arps)) /\ Rules!Cardinality(There(t)) >= StormReplies
    BY <1>3, <1>7 DEF Rules!StormIn
  <2>2. There(t) # {}
    BY <1>2, <1>5, <2>1, FS_EmptySet
  <2> DEFINE at == [k \in There(t) |-> arps[k].at]
  <2>3. \A k \in There(t) : at[k] \in Int
    BY <1>3
  <2>4. PICK k \in There(t) : \A j \in There(t) : at[k] <= at[j]
    <3> HIDE DEF at, There
    <3> QED BY <1>1, <2>1, <2>2, <2>3, Extremes
  <2>5. ASSUME NEW j \in There(t)
        PROVE  j \in Rules!Burst(mac, k)
    <3>1. /\ arps[j].at \in Int /\ arps[k].at \in Int /\ StormWindow \in Int /\ t \in Int
          /\ t <= arps[k].at /\ arps[j].at <= t + StormWindow
      BY <1>2, <1>3
    <3>2. arps[j].at - arps[k].at <= StormWindow
      BY ONLY <3>1
    <3>3. arps[j].at >= arps[k].at
      BY <2>4, <3>1
    <3> QED BY <3>2, <3>3 DEF Rules!Burst
  <2>6. Rules!Burst(mac, k) \in SUBSET (1 .. Len(arps)) /\ There(t) \subseteq Rules!Burst(mac, k)
    BY <1>3, <2>5 DEF Rules!Burst
  <2>7. Rules!Cardinality(Rules!Burst(mac, k)) >= StormReplies
    <3> HIDE DEF There
    <3>1. IsFiniteSet(Rules!Burst(mac, k))
      BY <1>4, <2>6, FS_Subset
    <3>2. Cardinality(There(t)) <= Cardinality(Rules!Burst(mac, k)) /\ IsFiniteSet(There(t))
      BY <2>6, <3>1, FS_Subset
    <3>3. Cardinality(There(t)) \in Nat /\ Cardinality(Rules!Burst(mac, k)) \in Nat
      BY <3>1, <3>2, FS_CardinalityType
    <3>4. Cardinality(There(t)) >= StormReplies /\ StormReplies \in Nat
      BY <1>2, <1>5, <2>1
    <3>5. Cardinality(Rules!Burst(mac, k)) >= StormReplies
      BY ONLY <3>2, <3>3, <3>4
    <3> QED BY <1>5, <2>6, <3>5
  <2>8. k \in Rules!Replies(mac) /\ mac \in {arps[j].mac : j \in DOMAIN arps}
    BY <1>1, <1>3
  <2>9. Rules!Unlinked("ARPSPOOFING-002", "high", {mac}) \in Rules!Storms
    BY <2>7, <2>8 DEF Rules!Storms
  <2> QED BY <2>9, UnlinkedFacts
<1>8. \A t \in {e.at : e \in Arps} \cup {e.at - StormWindow : e \in Arps} : t \in Int
  BY <1>2
<1> QED BY <1>6, <1>7, <1>8

-----------------------------------------------------------------------------
(* The task                                                                 *)

Windowed == {"PORTSCAN-001", "PORTSCAN-002", "ARPSPOOFING-002"}
\* What a window holds depends on what was stored, and no longer changes then.
LEMMA StoredKeep ==
  ASSUME UNCHANGED <<rows, arps>>
  PROVE  /\ Rules!Ids' = Rules!Ids /\ Rules!Active' = Rules!Active
         /\ \A G, t : Rules!Cardinality(Rules!Ports(Rules!Within(G, t, ScanWindow)))'
                        = Rules!Cardinality(Rules!Ports(Rules!Within(G, t, ScanWindow)))
         /\ \A G, t : Rules!Cardinality(Rules!Hosts(Rules!Within(G, t, ScanWindow)))'
                        = Rules!Cardinality(Rules!Hosts(Rules!Within(G, t, ScanWindow)))
         /\ \A mac, t : Rules!StormIn(mac, t)' <=> Rules!StormIn(mac, t)
<1>1. ASSUME NEW G, NEW t
      PROVE  /\ Rules!Ports(Rules!Within(G, t, ScanWindow))' = Rules!Ports(Rules!Within(G, t, ScanWindow))
             /\ Rules!Hosts(Rules!Within(G, t, ScanWindow))' = Rules!Hosts(Rules!Within(G, t, ScanWindow))
  BY DEF Rules!Ports, Rules!Hosts, Rules!Within
<1>2. ASSUME NEW mac, NEW t
      PROVE  Rules!StormIn(mac, t)' <=> Rules!StormIn(mac, t)
  BY DEF Rules!StormIn, Rules!Replies
<1> QED BY <1>1, <1>2 DEF Rules!Ids, Rules!Active

LEMMA WindowsKeep ==
  ASSUME RulesInv, Rules!Judged, UNCHANGED <<rows, arps, broke>>,
         findings \subseteq findings', \A f \in findings' : f \in findings \/ f.rule \notin Windowed
  PROVE  Rules!WindowsAreTrue'
<1>1. \A rule \in Windowed : Rules!Reported(rule)' = Rules!Reported(rule)
  BY DEF Rules!Reported, Windowed
<1>2. Rules!WindowsAreTrue
  BY DEF RulesInv
<1> QED BY <1>1, <1>2, StoredKeep DEF Rules!WindowsAreTrue, Rules!Judged, Windowed

\* The rules, of which one may raise.
LEMMA WindowsBegin ==
  ASSUME RulesInv, Rules!EvaluateRules
  PROVE  Rules!WindowsAreTrue'
<1>1. Parsed /\ UNCHANGED <<rows, arps>> /\ findings' = {f \in Rules!Found : f.rule # broke'}
  BY DEF RulesInv, Rules!EvaluateRules
<1>2. ASSUME NEW G \in Rules!Reported("PORTSCAN-001")'
      PROVE  \E t \in Starts : Rules!Cardinality(Rules!Ports(Rules!Within(G, t, ScanWindow))) >= MinPorts
  <2>1. PICK f \in Rules!Found : f.rule = "PORTSCAN-001" /\ f.of = G
    BY <1>1, <1>2 DEF Rules!Reported
  <2> QED BY <1>1, <2>1, RuleFacts, ScansAreTrue
<1>3. ASSUME NEW G \in Rules!Reported("PORTSCAN-002")'
      PROVE  \E t \in Starts : Rules!Cardinality(Rules!Hosts(Rules!Within(G, t, ScanWindow))) >= MinHosts
  <2>1. PICK f \in Rules!Found : f.rule = "PORTSCAN-002" /\ f.of = G
    BY <1>1, <1>3 DEF Rules!Reported
  <2> QED BY <1>1, <2>1, RuleFacts, ScansAreTrue
<1>4. ASSUME broke' # "ARPSPOOFING-002", NEW mac
      PROVE  {mac} \in Rules!Reported("ARPSPOOFING-002")' <=> \E f \in Rules!Storms : f.of = {mac}
  <2>1. ASSUME NEW f \in Rules!Storms
        PROVE  f \in Rules!Found /\ f.rule = "ARPSPOOFING-002"
    <3>1. f \in Rules!Found
      BY DEF Rules!Found
    <3> QED BY <3>1, UnnamedFacts DEF Sound
  <2>2. ASSUME NEW f \in Rules!Found, f.rule = "ARPSPOOFING-002"
        PROVE  f \in Rules!Storms
    BY <1>1, <2>2, RuleFacts
  <2> QED BY <1>1, <1>4, <2>1, <2>2 DEF Rules!Reported
<1> QED BY <1>1, <1>2, <1>3, <1>4, StoredKeep, StormsAreTrue DEF Rules!WindowsAreTrue

LEMMA ParseKeeps == ASSUME RulesInv, Rules!Parse PROVE RulesInv'
<1>1. stage = "parse" /\ UNCHANGED <<stage, broke, findings, score, severity>> /\ findings = {}
  BY DEF Rules!Parse, RulesInv
<1>2. rows \in Seq(Stored) /\ arps \in Seq(Arps)
  BY DEF RulesInv, Parsed
<1>3. rows' \in Seq(Stored) /\ arps' \in Seq(Arps)
  <2>1. CASE \E r \in Rows, t \in Starts : rows' = Append(rows, [r EXCEPT !.at = t]) /\ UNCHANGED arps
    <3>1. PICK r \in Rows, t \in Starts : rows' = Append(rows, [r EXCEPT !.at = t]) /\ UNCHANGED arps
      BY <2>1
    <3>2. [r EXCEPT !.at = t] \in Stored
      BY DEF Stored
    <3> QED BY <1>2, <3>1, <3>2, AppendProperties
  <2>2. CASE \E e \in Arps : arps' = Append(arps, e) /\ UNCHANGED rows
    BY <1>2, <2>2, AppendProperties
  <2> QED BY <2>1, <2>2 DEF Rules!Parse
<1> QED BY <1>1, <1>3 DEF RulesInv, Parsed, Stored, Rules!Judged, Rules!WindowsAreTrue, Rules!SeverityCovers

LEMMA EvaluateKeeps == ASSUME RulesInv, Rules!EvaluateRules PROVE RulesInv'
<1>1. Parsed /\ UNCHANGED <<rows, arps>> /\ findings' = {f \in Rules!Found : f.rule # broke'}
  BY DEF RulesInv, Rules!EvaluateRules
<1>2. stage' = "ml" /\ score' = [i \in Rules!Ids |-> 0]
  BY DEF Rules!EvaluateRules, Rules!Go
<1>3. \A f \in findings' : f.source = "rule" /\ (f.flow = 0 \/ f.flow \in Rules!Active) /\ f.score \in 0 .. 1000
  BY <1>1, RuleFacts DEF Sound, Levels
<1>4. \A f \in findings' : Named(f)'
  BY <1>1, <1>3, StoredKeep DEF Named
<1>5. Scored'
  BY <1>1, <1>2, StoredKeep DEF Scored
<1>6. Parsed'
  BY <1>1 DEF Parsed, Stored
<1>7. Rules!SeverityCovers'
  BY <1>2 DEF Rules!SeverityCovers
<1> QED BY <1>2, <1>3, <1>4, <1>5, <1>6, <1>7, WindowsBegin DEF RulesInv, Rules!Judged

LEMMA ScoreKeeps == ASSUME RulesInv, Rules!ScoreFlows PROVE RulesInv'
<1>1. /\ Parsed /\ UNCHANGED <<rows, arps, broke>> /\ stage = "ml" /\ stage' = "correlate"
      /\ Rules!Judged /\ Scored /\ \A f \in findings : Named(f) /\ f.source = "rule"
  BY DEF RulesInv, Rules!ScoreFlows, Rules!Go, Rules!Judged
<1>2. CASE UNCHANGED <<score, findings>>
  <2>1. Scored' /\ Parsed' /\ \A f \in findings' : Named(f)'
    BY <1>1, <1>2, StoredKeep DEF Scored, Parsed, Stored, Named
  <2>2. Rules!WindowsAreTrue'
    <3>1. findings \subseteq findings' /\ \A f \in findings' : f \in findings \/ f.rule \notin Windowed
      BY <1>2
    <3> QED BY <1>1, <3>1, WindowsKeep
  <2> QED BY <1>1, <2>1, <2>2 DEF RulesInv, Rules!Judged, Rules!SeverityCovers
<1>3. CASE /\ score' = [i \in Rules!Ids |-> IF i \in Rules!Sample THEN Rules!Normalized(rows[i].raw) ELSE 0]
           /\ findings' = findings \cup Rules!Anomalies
  <2>1. ASSUME NEW i \in Rules!Active
        PROVE  i \in Rules!Ids /\ Rules!Normalized(rows[i].raw) \in 0 .. 1000
    <3>1. i \in Rules!Ids /\ rows[i].raw \in Int
      BY <1>1, RowFacts
    <3> QED BY <3>1, NormalizedFacts
  <2>2. \A i \in Rules!Sample : i \in Rules!Active
    BY DEF Rules!Sample
  <2>3. Scored'
    <3>1. Rules!Ids' = Rules!Ids /\ Rules!Active' = Rules!Active
      BY <1>1, StoredKeep
    <3>2. ASSUME NEW i \in Rules!Ids
          PROVE  score'[i] \in 0 .. 1000 /\ (i \notin Rules!Active => score'[i] = 0)
      <4>1. CASE i \in Rules!Sample
        <5>1. score'[i] = Rules!Normalized(rows[i].raw)
          BY <1>3, <4>1
        <5> QED BY <2>1, <2>2, <4>1, <5>1
      <4>2. CASE i \notin Rules!Sample
        BY <1>3, <4>2
      <4> QED BY <4>1, <4>2
    <3> QED BY <3>1, <3>2 DEF Scored
  <2>4. ASSUME NEW f \in Rules!Anomalies
        PROVE  Named(f)' /\ f.rule \notin Windowed
    <3>1. PICK i \in Rules!Sample : f = [rule |-> "ML-ANOMALY-001", source |-> "ml", flow |-> i, of |-> {i},
                                         score |-> Rules!Normalized(rows[i].raw)]
      BY <2>4 DEF Rules!Anomalies
    <3>a. /\ f.rule = "ML-ANOMALY-001" /\ f.source = "ml" /\ f.flow = i
          /\ f.score = Rules!Normalized(rows[i].raw)
      BY ONLY <3>1
    <3>b. i \in Rules!Ids /\ i \in Rules!Active /\ Rules!Normalized(rows[i].raw) \in 0 .. 1000
      BY <2>1, <2>2
    <3>2. /\ f.rule = "ML-ANOMALY-001" /\ f.source = "ml" /\ f.flow = i
          /\ f.score = Rules!Normalized(rows[i].raw) /\ f.score \in 0 .. 1000 /\ i \in Rules!Ids /\ i \in Rules!Active
      BY <3>a, <3>b
    <3>3. score'[i] = f.score
      BY <1>3, <3>2
    <3>4. f.score <= score'[f.flow]
      BY <3>2, <3>3
    <3> QED BY <1>1, <3>2, <3>4, StoredKeep DEF Named, Windowed
  <2>5. \A f \in findings' : Named(f)'
    BY <1>1, <1>3, <2>4, StoredKeep DEF Named
  <2>6. Rules!WindowsAreTrue'
    BY <1>1, <1>3, <2>4, WindowsKeep
  <2>7. Parsed'
    BY <1>1 DEF Parsed, Stored
  <2> QED BY <1>1, <2>3, <2>5, <2>6, <2>7 DEF RulesInv, Rules!Judged, Rules!SeverityCovers
<1> QED BY <1>2, <1>3 DEF Rules!ScoreFlows

LEMMA CorrelateKeeps == ASSUME RulesInv, Rules!Correlate PROVE RulesInv'
<1>1. /\ Parsed /\ UNCHANGED <<rows, arps, broke, score>> /\ stage = "correlate" /\ stage' = "severity"
      /\ Rules!Judged /\ Scored /\ \A f \in findings : Named(f)
      /\ findings' = findings \cup Rules!Correlated
  BY DEF RulesInv, Rules!Correlate, Rules!Go, Rules!Judged
<1>2. ASSUME NEW f \in Rules!Correlated
      PROVE  Named(f) /\ f.rule \notin Windowed
  <2>1. PICK g \in findings : f = [rule |-> "TI-CORR-001", source |-> "ti_correlation", flow |-> g.flow,
                                   of |-> {g.flow}, score |-> 900]
    BY <1>2 DEF Rules!Correlated
  <2>2. f.rule = "TI-CORR-001" /\ f.source = "ti_correlation" /\ f.flow = g.flow /\ f.score = 900
    BY <2>1
  <2>3. f.flow = 0 \/ f.flow \in Rules!Active
    BY <1>1, <2>2 DEF Named
  <2> QED BY <2>2, <2>3 DEF Named, Windowed
<1>3. \A f \in findings' : Named(f)'
  BY <1>1, <1>2, StoredKeep DEF Named
<1>4. Rules!WindowsAreTrue'
  BY <1>1, <1>2, WindowsKeep
<1>5. Parsed' /\ Scored'
  BY <1>1, StoredKeep DEF Parsed, Stored, Scored
<1> QED BY <1>1, <1>3, <1>4, <1>5 DEF RulesInv, Rules!Judged, Rules!SeverityCovers

LEMMA SeverityKeeps == ASSUME RulesInv, Rules!ApplySeverity PROVE RulesInv'
<1>1. /\ Parsed /\ UNCHANGED <<rows, arps, broke, score, findings>> /\ stage = "severity" /\ stage' = "scan"
      /\ Rules!Judged /\ Scored /\ \A f \in findings : Named(f)
      /\ severity' = [i \in Rules!Ids |-> IF i \in Rules!Active THEN Rules!Hybrid(i) ELSE 0]
  BY DEF RulesInv, Rules!ApplySeverity, Rules!Go, Rules!Judged
<1>2. ASSUME NEW i \in Rules!Ids
      PROVE  /\ severity'[i] <= 1000 /\ severity'[i] >= score[i]
             /\ \A f \in findings : f.flow = i => severity'[i] >= f.score
  <2>1. CASE i \in Rules!Active
    <3>1. severity'[i] = Rules!Hybrid(i)
      BY <1>1, <2>1
    <3> QED BY <1>1, <2>1, <3>1, HybridFacts
  <2>2. CASE i \notin Rules!Active
    <3>1. severity'[i] = 0 /\ score[i] = 0
      BY <1>1, <2>2 DEF Scored
    <3>2. i # 0
      BY <1>1, RowFacts
    <3>3. \A f \in findings : f.flow # i
      BY <1>1, <2>2, <3>2 DEF Named
    <3> QED BY <3>1, <3>3
  <2> QED BY <2>1, <2>2
<1>3. Rules!SeverityCovers'
  BY <1>1, <1>2, StoredKeep DEF Rules!SeverityCovers
<1>4. Rules!WindowsAreTrue'
  <2>1. findings \subseteq findings' /\ \A f \in findings' : f \in findings \/ f.rule \notin Windowed
    BY <1>1
  <2> QED BY <1>1, <2>1, WindowsKeep
<1>5. Parsed' /\ Scored' /\ \A f \in findings' : Named(f)'
  BY <1>1, StoredKeep DEF Parsed, Stored, Scored, Named
<1> QED BY <1>1, <1>3, <1>4, <1>5 DEF RulesInv, Rules!Judged

LEMMA ScanKeeps == ASSUME RulesInv, Rules!Scan PROVE RulesInv'
<1>1. /\ Parsed /\ UNCHANGED <<rows, arps, broke, score, severity>> /\ stage = "scan" /\ stage' = "done"
      /\ Rules!Judged /\ Scored /\ (\A f \in findings : Named(f)) /\ Rules!SeverityCovers
  BY DEF RulesInv, Rules!Scan, Rules!Go, Rules!Judged
<1>2. PICK replay \in Replays \cup {<<>>} : findings' = findings \cup Rules!Scanned(replay)
  BY DEF Rules!Scan
<1>3. ASSUME NEW f \in Rules!Scanned(replay)
      PROVE  f.flow = 0 /\ f.rule \notin Windowed
  <2> DEFINE last == Rules!Min({AlertLimit, Len(replay)})
  <2>1. PICK k \in 1 .. last : f.rule = replay[k] /\ f.flow = 0
    <3>1. PICK sig \in {replay[k] : k \in 1 .. last} :
            f = [rule |-> sig, source |-> "suricata", flow |-> 0, of |-> {sig}, score |-> 800]
      BY <1>3 DEF Rules!Scanned
    <3>2. f.rule = sig /\ f.flow = 0
      BY <3>1
    <3>3. PICK k \in 1 .. last : sig = replay[k]
      BY <3>1
    <3> QED BY <3>2, <3>3
  <2>2. replay \in Seq(STRING) /\ AlertLimit \in Int
    <3>1. AlertLimit \in Int /\ Replays \subseteq Seq(STRING)
      BY RulesAssumption DEF Rules!Sane
    <3>2. <<>> \in Seq(STRING)
      BY EmptySeq
    <3> QED BY <3>1, <3>2
  <2>3. Len(replay) \in Nat /\ DOMAIN replay = 1 .. Len(replay)
    BY <2>2, LenProperties
  <2>4. last <= Len(replay) /\ last \in Int
    <3>1. PICK n : n = Len(replay)
      OBVIOUS
    <3>2. n \in Int
      BY <2>3, <3>1
    <3>3. Rules!Min({AlertLimit, n}) \in {AlertLimit, n} /\ Rules!Min({AlertLimit, n}) <= n
      BY <2>2, <3>2, MinOfTwo
    <3> QED BY <2>2, <3>1, <3>2, <3>3
  <2> HIDE DEF last
  <2>5. k \in DOMAIN replay
    BY <2>3, <2>4
  <2>6. replay \in Replays
    BY <2>3, <2>5
  <2>7. replay[k] \notin Windowed
    BY <2>5, <2>6, RulesAssumption DEF Rules!Sane, Windowed
  <2> QED BY <2>1, <2>7
<1>4. \A f \in findings' : Named(f)'
  BY <1>1, <1>2, <1>3, StoredKeep DEF Named
<1>5. Rules!WindowsAreTrue'
  BY <1>1, <1>2, <1>3, WindowsKeep
<1>6. Rules!SeverityCovers'
  <2>1. \A i \in Rules!Ids : i # 0
    BY <1>1, RowFacts
  <2> QED BY <1>1, <1>2, <1>3, <2>1, StoredKeep DEF Rules!SeverityCovers
<1>7. Parsed' /\ Scored'
  BY <1>1, StoredKeep DEF Parsed, Stored, Scored
<1> QED BY <1>1, <1>4, <1>5, <1>6, <1>7 DEF RulesInv, Rules!Judged

LEMMA RulesHold == Rules!Spec => []RulesInv
<1>1. Rules!Init => RulesInv
  BY EmptySeq DEF Rules!Init, RulesInv, Parsed, Rules!Judged, Rules!WindowsAreTrue, Rules!SeverityCovers
<1>2. RulesInv /\ UNCHANGED Rules!vars => RulesInv'
  <2> SUFFICES ASSUME RulesInv, UNCHANGED <<rows, arps, stage, broke, findings, score, severity>> PROVE RulesInv'
    BY DEF Rules!vars
  <2>1. Parsed' /\ (Scored <=> Scored') /\ \A f : Named(f) <=> Named(f)'
    BY StoredKeep DEF RulesInv, Parsed, Stored, Scored, Named
  <2>2. (Rules!Judged' <=> Rules!Judged) /\ \A rule : Rules!Reported(rule)' = Rules!Reported(rule)
    BY DEF Rules!Judged, Rules!Reported
  <2>3. Rules!WindowsAreTrue'
    BY <2>2, StoredKeep DEF RulesInv, Rules!WindowsAreTrue
  <2>4. Rules!SeverityCovers'
    BY StoredKeep DEF RulesInv, Rules!SeverityCovers
  <2> QED BY <2>1, <2>2, <2>3, <2>4 DEF RulesInv
<1>3. RulesInv /\ [Rules!Next]_(Rules!vars) => RulesInv'
  BY <1>2, ParseKeeps, EvaluateKeeps, ScoreKeeps, CorrelateKeeps, SeverityKeeps, ScanKeeps DEF Rules!Next
<1> QED BY <1>1, <1>3, PTL DEF Rules!Spec

(* Whatever the capture holds and whichever rule raises: a scan that is     *)
(* reported has its ports, or hosts, within some window, and a storm is     *)
(* reported exactly if some window holds its replies (the port-scan and ARP *)
(* rules of detection/engine.py).                                           *)
THEOREM WindowsAreRight == MCSpec => []WindowsAreTrue
<1>1. RulesInv => WindowsAreTrue
  BY DEF RulesInv, WindowsAreTrue
<1> QED BY <1>1, PartsMove, RulesHold, PTL

(* What an analyst sorts by covers what was found: in a capture no flow has *)
(* a severity below its anomaly or below a finding that names it            *)
(* (scoring.py, engine.py); an investigation that accuses one of the        *)
(* indicators of a finding raises the finding (investigation/service.py).   *)
THEOREM SeverityIsCovering == MCSpec => []SeverityCovers
<1>1. RulesInv /\ Osint!SeverityCovers => SeverityCovers
  BY DEF RulesInv, SeverityCovers
<1> QED BY <1>1, PartsMove, RulesHold, OsintHolds, PTL

-----------------------------------------------------------------------------
(* Flows of packets.  A set of places is a side of a flow; when a packet is *)
(* added to it, what is kept of the side goes on to say what all of them    *)
(* say (LaneAdds).  The packet finds its conversation because no two flows  *)
(* are each other turned (FlowOfFacts); the monitor loses none of it because *)
(* each of its steps moves packets from one place to the next.              *)

LEMMA TablesBounds ==
  /\ \A p \in Packets : p.len \in Nat
  /\ IdleSeconds \in Nat  /\ MaxRows \in Nat  /\ MaxPackets \in Nat  /\ MaxInstant \in Nat
BY TablesAssumption DEF Tables!Sane

LEMMA TablesCount == \A S : Tables!Cardinality(S) = Cardinality(S)
BY DEF Tables!Cardinality, Cardinality

\* As many pairs <<i, 1>>, <<i, 2>>, ... for each i of a set as w says.
Blocks(w, at) == UNION {{i} \X (1 .. w[i]) : i \in at}

LEMMA BlocksAdd ==
  ASSUME NEW w, NEW at, NEW m, m \notin at, w[m] \in Nat, IsFiniteSet(Blocks(w, at))
  PROVE  /\ IsFiniteSet(Blocks(w, at \cup {m}))
         /\ Cardinality(Blocks(w, at \cup {m})) = Cardinality(Blocks(w, at)) + w[m]
<1> DEFINE new == {m} \X (1 .. w[m])
<1>1. Blocks(w, at \cup {m}) = Blocks(w, at) \cup new
  BY DEF Blocks
<1>2. Blocks(w, at) \cap new = {}
  BY DEF Blocks
<1>3. IsFiniteSet(new) /\ Cardinality(new) = w[m]
  <2>1. IsFiniteSet({m}) /\ Cardinality({m}) = 1
    BY FS_Singleton
  <2>2. IsFiniteSet(1 .. w[m]) /\ Cardinality(1 .. w[m]) = w[m]
    <3>1. IsFiniteSet(1 .. w[m]) /\ Cardinality(1 .. w[m]) = IF 1 > w[m] THEN 0 ELSE w[m] - 1 + 1
      BY FS_Interval
    <3> QED BY <3>1
  <2>3. IsFiniteSet(new) /\ Cardinality(new) = 1 * w[m]
    <3>1. IsFiniteSet(new) /\ Cardinality(new) = Cardinality({m}) * Cardinality(1 .. w[m])
      BY <2>1, <2>2, FS_Product
    <3> QED BY <2>1, <2>2, <3>1
  <2> QED BY <2>3
<1>4. IsFiniteSet(Blocks(w, at) \cup new)
      /\ Cardinality(Blocks(w, at) \cup new) = Cardinality(Blocks(w, at)) + Cardinality(new) - Cardinality(Blocks(w, at) \cap new)
  BY <1>3, FS_Union
<1>5. Cardinality({}) = 0 /\ Cardinality(Blocks(w, at)) \in Nat
  BY FS_EmptySet, FS_CardinalityType
<1>6. Cardinality(Blocks(w, at) \cap new) = 0
  BY <1>2, <1>5
<1> HIDE DEF new
<1>7. Cardinality(Blocks(w, at) \cup new) = Cardinality(Blocks(w, at)) + w[m]
  BY <1>3, <1>4, <1>5, <1>6
<1> QED BY <1>1, <1>4, <1>7

-----------------------------------------------------------------------------
(* What is kept of the packets at some places of a sequence.               *)

Sizes(s)      == [i \in DOMAIN s |-> s[i].packet.len]
GapsIn(s, at) == {j \in at : \E i \in at : Tables!Follows(i, j, at) /\ s[i].ts <= s[j].ts}
Ordered(s, at) == \A i, j \in at : i < j => s[i].ts <= s[j].ts
LaneOf(s, lane, at) ==
  /\ lane.n = Cardinality(at)  /\ lane.bytes = Cardinality(Blocks(Sizes(s), at))
  /\ IsFiniteSet(at)  /\ IsFiniteSet(Blocks(Sizes(s), at))
  /\ \A i \in at : s[i].packet.len <= lane.max
  /\ at = {} => lane.last = Tables!None /\ lane.span = 0
  /\ at # {} => /\ \E i \in at : Tables!LastAt(i, at) /\ lane.last = s[i].ts
                /\ \E i \in at : Tables!FirstAt(i, at)
  /\ lane.gaps = Cardinality(GapsIn(s, at))
  /\ Ordered(s, at) => \A i, j \in at : Tables!FirstAt(i, at) /\ Tables!LastAt(j, at) => lane.span = s[j].ts - s[i].ts

\* It is about the packets at these places only.
LEMMA LaneSame ==
  ASSUME NEW s, NEW t, NEW lane, NEW at, at \subseteq DOMAIN s, at \subseteq DOMAIN t, \A i \in at : t[i] = s[i],
         LaneOf(s, lane, at)
  PROVE  LaneOf(t, lane, at)
<1>1. Blocks(Sizes(t), at) = Blocks(Sizes(s), at)
  BY DEF Blocks, Sizes
<1>2. GapsIn(t, at) = GapsIn(s, at)
  BY DEF GapsIn
<1>3. Ordered(t, at) <=> Ordered(s, at)
  BY DEF Ordered
<1> QED BY <1>1, <1>2, <1>3 DEF LaneOf

\* The last place of a set is one.
LEMMA LastIsOne ==
  ASSUME NEW at \in SUBSET Nat, NEW i, NEW j, Tables!LastAt(i, at), Tables!LastAt(j, at)
  PROVE  i = j
BY DEF Tables!LastAt

LEMMA LastAdds ==
  ASSUME NEW at \in SUBSET Nat, NEW m \in Nat, \A i \in at : i < m
  PROVE  /\ Tables!LastAt(m, at \cup {m})
         /\ at = {} => Tables!FirstAt(m, at \cup {m})
         /\ \A i \in at : Tables!FirstAt(i, at) => Tables!FirstAt(i, at \cup {m})
         /\ \A i \in at \cup {m} : /\ Tables!LastAt(i, at \cup {m}) => i = m
                                   /\ Tables!FirstAt(i, at \cup {m}) => IF at = {} THEN i = m ELSE Tables!FirstAt(i, at)
         /\ \A i \in at : Tables!Follows(i, m, at \cup {m}) <=> Tables!LastAt(i, at)
         /\ \A i, j \in at : Tables!Follows(i, j, at \cup {m}) <=> Tables!Follows(i, j, at)
         /\ \A j \in at : ~Tables!Follows(m, j, at \cup {m})
         /\ ~Tables!Follows(m, m, at \cup {m})
<1>1. Tables!LastAt(m, at \cup {m}) /\ (at = {} => Tables!FirstAt(m, at \cup {m}))
  BY DEF Tables!LastAt, Tables!FirstAt
<1>2. \A i \in at : Tables!FirstAt(i, at) => Tables!FirstAt(i, at \cup {m})
  BY DEF Tables!FirstAt
<1>3. \A i \in at \cup {m} : Tables!LastAt(i, at \cup {m}) => i = m
  BY DEF Tables!LastAt
<1>4. \A i \in at \cup {m} : Tables!FirstAt(i, at \cup {m}) => IF at = {} THEN i = m ELSE Tables!FirstAt(i, at)
  BY DEF Tables!FirstAt
<1>5. \A i \in at : Tables!Follows(i, m, at \cup {m}) <=> Tables!LastAt(i, at)
  <2> SUFFICES ASSUME NEW i \in at PROVE Tables!Follows(i, m, at \cup {m}) <=> Tables!LastAt(i, at)
    OBVIOUS
  <2>1. ASSUME Tables!Follows(i, m, at \cup {m}) PROVE Tables!LastAt(i, at)
    BY <2>1 DEF Tables!Follows, Tables!LastAt
  <2>2. ASSUME Tables!LastAt(i, at) PROVE Tables!Follows(i, m, at \cup {m})
    BY <2>2 DEF Tables!Follows, Tables!LastAt
  <2> QED BY <2>1, <2>2
<1>6. \A i, j \in at : Tables!Follows(i, j, at \cup {m}) <=> Tables!Follows(i, j, at)
  BY DEF Tables!Follows
<1>7. (\A j \in at : ~Tables!Follows(m, j, at \cup {m})) /\ ~Tables!Follows(m, m, at \cup {m})
  BY DEF Tables!Follows
<1> QED BY <1>1, <1>2, <1>3, <1>4, <1>5, <1>6, <1>7

\* record_direction: what is kept goes on to be what all packets say.
LEMMA LaneAdds ==
  ASSUME NEW s, NEW at \in SUBSET Nat, NEW m \in Nat, \A i \in at : i < m, at \cup {m} \subseteq DOMAIN s,
         \A i \in at \cup {m} : s[i].ts \in Tables!Times /\ s[i].packet.len \in Nat,
         NEW lane \in Tables!Lanes, LaneOf(s, lane, at)
  PROVE  LaneOf(s, Tables!Record(lane, s[m].packet, s[m].ts), at \cup {m})
<1> DEFINE p == s[m].packet
           ts == s[m].ts
           all == at \cup {m}
           new == Tables!Record(lane, p, ts)
           gap == Tables!IsGap(lane, ts)
<1>1. /\ new.n = lane.n + 1  /\ new.bytes = lane.bytes + p.len  /\ new.max = Tables!Higher(lane.max, p.len)
      /\ new.gaps = lane.gaps + IF gap THEN 1 ELSE 0
      /\ new.span = lane.span + IF gap THEN ts - lane.last ELSE 0
      /\ new.last = ts
  BY DEF Tables!Record
<1>2. /\ lane.n \in Nat  /\ lane.bytes \in Nat  /\ lane.max \in Nat  /\ lane.gaps \in Nat  /\ lane.span \in Nat
      /\ lane.last \in Tables!Times \cup {Tables!None}
  BY DEF Tables!Lanes
<1>3. m \notin at /\ m \in all
  OBVIOUS
<1>4. ts \in Nat /\ p.len \in Nat /\ \A i \in all : s[i].ts \in Nat /\ s[i].packet.len \in Nat
  BY DEF Tables!Times
<1>5. gap <=> lane.last # Tables!None /\ ts >= lane.last
  BY DEF Tables!IsGap
<1> HIDE DEF new, gap, all, p, ts
<1>6. IsFiniteSet(at) /\ IsFiniteSet(all) /\ Cardinality(all) = Cardinality(at) + 1
  <2>1. IsFiniteSet(at)
    BY DEF LaneOf
  <2> QED BY <1>3, <2>1, FS_AddElement DEF all
<1>7. IsFiniteSet(Blocks(Sizes(s), all)) /\ Cardinality(Blocks(Sizes(s), all)) = Cardinality(Blocks(Sizes(s), at)) + p.len
  <2>1. Sizes(s)[m] = p.len /\ IsFiniteSet(Blocks(Sizes(s), at))
    BY DEF Sizes, p, LaneOf
  <2>2. Sizes(s)[m] \in Nat
    BY <1>4, <2>1
  <2>3. /\ IsFiniteSet(Blocks(Sizes(s), at \cup {m}))
        /\ Cardinality(Blocks(Sizes(s), at \cup {m})) = Cardinality(Blocks(Sizes(s), at)) + Sizes(s)[m]
    BY ONLY <1>3, <2>1, <2>2, BlocksAdd
  <2> QED BY <2>1, <2>3 DEF all
<1>places. /\ \A i \in at : Tables!Follows(i, m, all) <=> Tables!LastAt(i, at)
           /\ \A i, j \in at : Tables!Follows(i, j, all) <=> Tables!Follows(i, j, at)
           /\ \A j \in at : ~Tables!Follows(m, j, all)
           /\ ~Tables!Follows(m, m, all)
  BY LastAdds DEF all
<1>8. \A i \in all : s[i].packet.len <= new.max
  <2>1. new.max >= lane.max /\ new.max >= p.len /\ new.max \in Nat
    BY <1>1, <1>2, <1>4 DEF Tables!Higher
  <2>2. \A i \in at : s[i].packet.len <= lane.max /\ s[i].packet.len \in Nat
    BY <1>4 DEF LaneOf, all
  <2>3. \A i \in at : s[i].packet.len <= new.max
    BY <1>2, <2>1, <2>2
  <2> QED BY <2>1, <2>3 DEF all, p
<1>9. all # {} /\ (\E i \in all : Tables!LastAt(i, all) /\ new.last = s[i].ts) /\ \E i \in all : Tables!FirstAt(i, all)
  <2>1. Tables!LastAt(m, all)
    BY LastAdds DEF all
  <2>2. \E i \in all : Tables!FirstAt(i, all)
    <3>1. CASE at = {}
      BY <3>1, LastAdds DEF all
    <3>2. CASE at # {}
      BY <3>2, LastAdds DEF all, LaneOf
    <3> QED BY <3>1, <3>2
  <2> QED BY <1>1, <1>3, <2>1, <2>2 DEF ts
<1>10. CASE at = {}
  <2>1. lane.last = Tables!None /\ lane.span = 0 /\ ~gap
    BY <1>5, <1>10 DEF LaneOf
  <2>2. GapsIn(s, all) = {}
    BY <1>10, <1>places DEF GapsIn, all
  <2>3. GapsIn(s, at) = {} /\ lane.gaps = Cardinality({}) /\ Cardinality({}) = 0
    BY <1>10, FS_EmptySet DEF GapsIn, LaneOf
  <2>4. new.gaps = Cardinality(GapsIn(s, all)) /\ new.span = 0
    BY <1>1, <1>2, <2>1, <2>2, <2>3
  <2>5. \A i, j \in all : new.span = s[j].ts - s[i].ts
    <3>1. all = {m}
      BY <1>10 DEF all
    <3> QED BY <1>4, <2>4, <3>1
  <2>6. new.n = Cardinality(all) /\ new.bytes = Cardinality(Blocks(Sizes(s), all))
    BY <1>1, <1>6, <1>7 DEF LaneOf
  <2> QED BY <1>6, <1>7, <1>8, <1>9, <2>4, <2>5, <2>6 DEF LaneOf, all, new, p, ts
<1>11. CASE at # {}
  <2>1. PICK l \in at : Tables!LastAt(l, at) /\ lane.last = s[l].ts
    BY <1>11 DEF LaneOf
  <2>2. lane.last \in Nat /\ lane.last # Tables!None
    BY <1>4, <2>1 DEF all, Tables!None
  <2>3. gap <=> s[l].ts <= ts
    BY <1>4, <1>5, <2>1, <2>2
  <2>4. GapsIn(s, all) = GapsIn(s, at) \cup IF gap THEN {m} ELSE {}
    <3>1. \A j \in at : j \in GapsIn(s, all) <=> j \in GapsIn(s, at)
      BY <1>places DEF GapsIn, all
    <3>2. m \in GapsIn(s, all) <=> \E i \in at : Tables!LastAt(i, at) /\ s[i].ts <= ts
      BY <1>3, <1>places DEF GapsIn, all, ts
    <3>3. m \in GapsIn(s, all) <=> gap
      BY <2>1, <2>3, <3>2, LastIsOne
    <3>4. GapsIn(s, all) \subseteq at \cup {m} /\ GapsIn(s, at) \subseteq at
      BY DEF GapsIn, all
    <3> QED BY <1>3, <3>1, <3>3, <3>4
  <2>5. IsFiniteSet(GapsIn(s, at)) /\ m \notin GapsIn(s, at)
    <3>1. GapsIn(s, at) \subseteq at
      BY DEF GapsIn
    <3> QED BY <1>3, <1>6, <3>1, FS_Subset
  <2>6. new.gaps = Cardinality(GapsIn(s, all))
    <3>1. lane.gaps = Cardinality(GapsIn(s, at))
      BY DEF LaneOf
    <3>2. CASE gap
      <4>1. Cardinality(GapsIn(s, at) \cup {m}) = Cardinality(GapsIn(s, at)) + 1
        BY <2>5, FS_AddElement
      <4> QED BY <1>1, <2>4, <3>1, <3>2, <4>1
    <3>3. CASE ~gap
      BY <1>1, <1>2, <2>4, <3>1, <3>3
    <3> QED BY <3>2, <3>3
  <2>7. Ordered(s, all) => \A i, j \in all : Tables!FirstAt(i, all) /\ Tables!LastAt(j, all) => new.span = s[j].ts - s[i].ts
    <3> SUFFICES ASSUME Ordered(s, all), NEW i \in all, NEW j \in all, Tables!FirstAt(i, all), Tables!LastAt(j, all)
                 PROVE  new.span = s[j].ts - s[i].ts
      OBVIOUS
    <3>1. j = m /\ Tables!FirstAt(i, at) /\ i \in at
      <4>1. j = m /\ Tables!FirstAt(i, at)
        BY <1>11, LastAdds DEF all
      <4> QED BY <4>1 DEF Tables!FirstAt
    <3>2. Ordered(s, at)
      BY DEF Ordered, all
    <3>3. lane.span = s[l].ts - s[i].ts
      BY <2>1, <3>1, <3>2 DEF LaneOf
    <3>4. s[l].ts <= ts
      <4>1. l < m /\ l \in all
        BY <2>1 DEF all
      <4> QED BY <1>3, <4>1 DEF Ordered, ts
    <3>5. new.span = lane.span + (ts - s[l].ts)
      BY <1>1, <2>1, <2>3, <3>4
    <3>6. s[i].ts \in Nat /\ s[l].ts \in Nat
      BY <1>4, <2>1 DEF all
    <3> QED BY <1>4, <3>1, <3>3, <3>5, <3>6 DEF ts
  <2>8. new.n = Cardinality(all) /\ new.bytes = Cardinality(Blocks(Sizes(s), all))
    BY <1>1, <1>6, <1>7 DEF LaneOf
  <2> QED BY <1>6, <1>7, <1>8, <1>9, <2>6, <2>7, <2>8 DEF LaneOf, all, new, p, ts
<1> QED BY <1>10, <1>11

-----------------------------------------------------------------------------
(* Rows are counted one by one as they are added and taken.                *)

LEMMA RowsFinite ==
  ASSUME NEW S, NEW rws \in Seq(S), NEW k
  PROVE  /\ IsFiniteSet(Tables!RowsOf(rws, k))  /\ Cardinality(Tables!RowsOf(rws, k)) \in Nat
         /\ Tables!RowsOf(rws, k) \subseteq 1 .. Len(rws)
<1>1. Len(rws) \in Nat /\ DOMAIN rws = 1 .. Len(rws)
  BY LenProperties
<1>2. IsFiniteSet(1 .. Len(rws))
  BY <1>1, FS_Interval
<1>3. Tables!RowsOf(rws, k) \subseteq 1 .. Len(rws)
  BY <1>1 DEF Tables!RowsOf
<1>4. IsFiniteSet(Tables!RowsOf(rws, k))
  BY <1>2, <1>3, FS_Subset
<1> QED BY <1>3, <1>4, FS_CardinalityType

LEMMA NoRows == \A k : Cardinality(Tables!RowsOf(<<>>, k)) = 0
<1>1. \A k : Tables!RowsOf(<<>>, k) = {}
  BY DEF Tables!RowsOf
<1> QED BY <1>1, FS_EmptySet

LEMMA RowsAppend ==
  ASSUME NEW S, NEW rws \in Seq(S), NEW row \in S, NEW k
  PROVE  Cardinality(Tables!RowsOf(Append(rws, row), k))
           = Cardinality(Tables!RowsOf(rws, k)) + IF Tables!Key(row.packet) = k THEN 1 ELSE 0
<1> DEFINE m == Len(rws) + 1
           old == Tables!RowsOf(rws, k)
           all == Tables!RowsOf(Append(rws, row), k)
<1>1. Len(rws) \in Nat /\ DOMAIN rws = 1 .. Len(rws)
  BY LenProperties
<1>2. Append(rws, row) \in Seq(S) /\ Len(Append(rws, row)) = m /\ Append(rws, row)[m] = row
      /\ \A i \in 1 .. Len(rws) : Append(rws, row)[i] = rws[i]
  BY AppendProperties
<1>3. DOMAIN Append(rws, row) = 1 .. m
  BY <1>2, LenProperties
<1>4. 1 .. m = (1 .. Len(rws)) \cup {m} /\ m \notin 1 .. Len(rws)
  BY <1>1
<1>5. all = old \cup IF Tables!Key(row.packet) = k THEN {m} ELSE {}
  BY <1>1, <1>2, <1>3, <1>4 DEF Tables!RowsOf
<1>6. IsFiniteSet(old) /\ m \notin old /\ Cardinality(old) \in Nat
  BY <1>4, RowsFinite
<1> HIDE DEF m, old, all
<1>7. CASE Tables!Key(row.packet) = k
  <2>1. Cardinality(old \cup {m}) = Cardinality(old) + 1
    BY <1>6, FS_AddElement
  <2> QED BY <1>5, <1>7, <2>1 DEF all, old
<1>8. CASE Tables!Key(row.packet) # k
  <2>1. all = old
    BY <1>5, <1>8
  <2> QED BY <1>6, <1>8, <2>1 DEF all, old
<1> QED BY <1>7, <1>8

LEMMA RowsTail ==
  ASSUME NEW S, NEW rws \in Seq(S), rws # <<>>, NEW k
  PROVE  Cardinality(Tables!RowsOf(rws, k))
           = Cardinality(Tables!RowsOf(Tail(rws), k)) + IF Tables!Key(Head(rws).packet) = k THEN 1 ELSE 0
<1> DEFINE all == Tables!RowsOf(rws, k)
           rest == Tables!RowsOf(Tail(rws), k)
           later == all \ {1}
<1>1. Len(rws) \in Nat /\ Len(rws) # 0 /\ DOMAIN rws = 1 .. Len(rws)
  <2>1. Len(rws) \in Nat /\ DOMAIN rws = 1 .. Len(rws)
    BY LenProperties
  <2>2. Len(rws) # 0
    BY EmptySeq
  <2> QED BY <2>1, <2>2
<1>2. /\ Tail(rws) \in Seq(S)  /\ Len(Tail(rws)) = Len(rws) - 1
      /\ \A i \in 1 .. Len(Tail(rws)) : Tail(rws)[i] = rws[i + 1]
  BY HeadTailProperties
<1>3. DOMAIN Tail(rws) = 1 .. Len(rws) - 1
  BY <1>2, LenProperties
<1>4. Head(rws) = rws[1]
  BY DEF Head
<1>5. \A i \in 1 .. Len(rws) - 1 : i \in rest <=> i + 1 \in later
  BY <1>1, <1>2, <1>3 DEF Tables!RowsOf
<1>6. rest \subseteq 1 .. Len(rws) - 1 /\ later \subseteq 2 .. Len(rws)
  BY <1>1, <1>3 DEF Tables!RowsOf
<1>7. 1 \in all <=> Tables!Key(Head(rws).packet) = k
  BY <1>1, <1>4 DEF Tables!RowsOf
<1>8. IsFiniteSet(rest) /\ IsFiniteSet(all) /\ Cardinality(rest) \in Nat /\ Cardinality(all) \in Nat
  BY <1>2, RowsFinite
<1> HIDE DEF all, rest
<1>9. Cardinality(later) = Cardinality(rest)
  <2> DEFINE next == [i \in rest |-> i + 1]
  <2>1. next \in [rest -> later]
    BY <1>5, <1>6
  <2>2. \A i, j \in rest : next[i] = next[j] => i = j
    BY <1>6
  <2>3. \A j \in later : \E i \in rest : next[i] = j
    <3> SUFFICES ASSUME NEW j \in later PROVE \E i \in rest : next[i] = j
      OBVIOUS
    <3>1. j - 1 \in 1 .. Len(rws) - 1 /\ j - 1 + 1 = j
      BY <1>1, <1>6
    <3>2. j - 1 \in rest
      BY <1>5, <3>1
    <3> QED BY <3>1, <3>2
  <2> HIDE DEF next
  <2>4. next \in Bijection(rest, later)
    BY ONLY <2>1, <2>2, <2>3 DEF Bijection, Injection, Surjection, IsInjective
  <2>5. ExistsBijection(rest, later)
    BY ONLY <2>4 DEF ExistsBijection
  <2> QED BY ONLY <1>8, <2>5, FS_Bijection
<1>10. Cardinality(later) = IF 1 \in all THEN Cardinality(all) - 1 ELSE Cardinality(all)
  BY <1>8, FS_RemoveElement
<1> HIDE DEF later
<1>11. CASE 1 \in all
  BY <1>7, <1>8, <1>9, <1>10, <1>11 DEF all, rest
<1>12. CASE 1 \notin all
  BY <1>7, <1>8, <1>9, <1>10, <1>12 DEF all, rest
<1> QED BY <1>11, <1>12

\* The packets of the flows of k that were handed on.
Handed(s)     == [i \in DOMAIN s |-> s[i].n]
HandedAt(s, k) == {i \in DOMAIN s : s[i].key = k}
HandedOf(s, k) == Blocks(Handed(s), HandedAt(s, k))

LEMMA HandedIsEmitted == \A k : Tables!EmittedOf(k) = HandedOf(emitted, k)
BY DEF Tables!EmittedOf, HandedOf, HandedAt, Handed, Blocks

LEMMA HandedAppend ==
  ASSUME NEW s \in Seq(Tables!LiveRecords), NEW f \in Tables!LiveRecords, NEW k, IsFiniteSet(HandedOf(s, k))
  PROVE  /\ IsFiniteSet(HandedOf(Append(s, f), k))
         /\ Cardinality(HandedOf(Append(s, f), k)) = Cardinality(HandedOf(s, k)) + IF f.key = k THEN f.n ELSE 0
<1> DEFINE m == Len(s) + 1
           t == Append(s, f)
<1>1. Len(s) \in Nat /\ DOMAIN s = 1 .. Len(s)
  BY LenProperties
<1>2. t \in Seq(Tables!LiveRecords) /\ Len(t) = m /\ t[m] = f /\ \A i \in 1 .. Len(s) : t[i] = s[i]
  BY AppendProperties
<1>3. DOMAIN t = 1 .. m
  BY <1>2, LenProperties
<1>4. 1 .. m = (1 .. Len(s)) \cup {m} /\ m \notin 1 .. Len(s)
  BY <1>1
<1> HIDE DEF t, m
<1>5. HandedAt(t, k) = HandedAt(s, k) \cup IF f.key = k THEN {m} ELSE {}
  BY <1>1, <1>2, <1>3, <1>4 DEF HandedAt
<1>6. HandedAt(s, k) \subseteq 1 .. Len(s)
  BY <1>1 DEF HandedAt
<1>7. \A i \in 1 .. Len(s) : Handed(t)[i] = Handed(s)[i]
  BY <1>1, <1>2, <1>3, <1>4 DEF Handed
<1>8. Blocks(Handed(t), HandedAt(s, k)) = HandedOf(s, k)
  BY <1>6, <1>7 DEF HandedOf, Blocks
<1>9. Handed(t)[m] = f.n /\ f.n \in Nat
  BY <1>2, <1>3, <1>4 DEF Handed, Tables!LiveRecords
<1>10. m \notin HandedAt(s, k) /\ Cardinality(HandedOf(s, k)) \in Nat
  BY <1>4, <1>6, FS_CardinalityType
<1>11. CASE f.key = k
  <2>1. /\ IsFiniteSet(Blocks(Handed(t), HandedAt(s, k) \cup {m}))
        /\ Cardinality(Blocks(Handed(t), HandedAt(s, k) \cup {m})) = Cardinality(Blocks(Handed(t), HandedAt(s, k))) + Handed(t)[m]
    BY <1>8, <1>9, <1>10, BlocksAdd
  <2>2. HandedOf(t, k) = Blocks(Handed(t), HandedAt(s, k) \cup {m})
    BY <1>5, <1>11 DEF HandedOf
  <2> QED BY <1>8, <1>9, <1>11, <2>1, <2>2 DEF t
<1>12. CASE f.key # k
  <2>1. HandedOf(t, k) = HandedOf(s, k)
    BY <1>5, <1>8, <1>12 DEF HandedOf
  <2> QED BY <1>10, <1>12, <2>1 DEF t
<1> QED BY <1>11, <1>12

-----------------------------------------------------------------------------
(* The monitor: a packet of a conversation is handed on, or in an active    *)
(* flow, or still a row, until rows are lost.                               *)

Pending(live, k) == IF k \in DOMAIN live THEN live[k].n ELSE 0
Counted(k) == Cardinality(HandedOf(emitted, k)) + Pending(active, k)
                + Cardinality(Tables!RowsOf(batch, k)) + Cardinality(Tables!RowsOf(queue, k))
MonitorTypes ==
  /\ clock \in Tables!Times  /\ fed \in Seq(Tables!Captured)
  /\ queue \in Seq(Tables!Captured)  /\ Len(queue) <= MaxRows
  /\ DOMAIN active \subseteq Tables!FlowKeys  /\ active \in [DOMAIN active -> Tables!LiveRecords]
  /\ \A k \in DOMAIN active : active[k].key = k
  /\ emitted \in Seq(Tables!LiveRecords)  /\ missed \in Nat
  /\ batch \in Seq(Tables!Captured)  /\ asOf \in Tables!Times \cup {Tables!None}
  /\ batch # <<>> => asOf # Tables!None
MonitorInv ==
  /\ MonitorTypes
  /\ \A k \in Tables!FlowKeys : IsFiniteSet(HandedOf(emitted, k))
  /\ missed = 0 => \A k \in Tables!FlowKeys : Counted(k) = Cardinality(Tables!RowsOf(fed, k))

\* What is stored is there, and the rest stays.
LEMMA StoredFacts ==
  ASSUME NEW table, NEW k, NEW value
  PROVE  /\ DOMAIN Tables!Stored(table, k, value) = DOMAIN table \cup {k}
         /\ Tables!Stored(table, k, value)[k] = value
         /\ \A x \in DOMAIN table : x # k => Tables!Stored(table, k, value)[x] = table[x]
BY DEF Tables!Stored

LEMMA StoredTypes ==
  ASSUME NEW S, NEW table, table \in [DOMAIN table -> S], NEW k, NEW value \in S
  PROVE  Tables!Stored(table, k, value) \in [DOMAIN Tables!Stored(table, k, value) -> S]
BY DEF Tables!Stored

LEMMA LeftFacts ==
  ASSUME NEW table, NEW k
  PROVE  /\ DOMAIN Tables!Left(table, k) = DOMAIN table \ {k}
         /\ \A x \in DOMAIN table : x # k => Tables!Left(table, k)[x] = table[x]
BY DEF Tables!Left, Tables!Restrict

LEMMA LeftTypes ==
  ASSUME NEW S, NEW table, table \in [DOMAIN table -> S], NEW k
  PROVE  Tables!Left(table, k) \in [DOMAIN Tables!Left(table, k) -> S]
BY DEF Tables!Left, Tables!Restrict

LEMMA CountsAreNat ==
  ASSUME MonitorInv, NEW k \in Tables!FlowKeys
  PROVE  /\ Cardinality(HandedOf(emitted, k)) \in Nat  /\ Pending(active, k) \in Nat
         /\ Cardinality(Tables!RowsOf(batch, k)) \in Nat  /\ Cardinality(Tables!RowsOf(queue, k)) \in Nat
         /\ Cardinality(Tables!RowsOf(fed, k)) \in Nat
<1>1. Cardinality(HandedOf(emitted, k)) \in Nat
  BY FS_CardinalityType DEF MonitorInv
<1>2. Pending(active, k) \in Nat
  BY DEF MonitorInv, MonitorTypes, Pending, Tables!LiveRecords
<1>3. /\ Cardinality(Tables!RowsOf(batch, k)) \in Nat  /\ Cardinality(Tables!RowsOf(queue, k)) \in Nat
      /\ Cardinality(Tables!RowsOf(fed, k)) \in Nat
  BY RowsFinite DEF MonitorInv, MonitorTypes
<1> QED BY <1>1, <1>2, <1>3

LEMMA PollCounts ==
  ASSUME MonitorInv, Tables!Poll
  PROVE  MonitorInv'
<1>1. /\ asOf = Tables!None  /\ batch' = queue  /\ queue' = <<>>  /\ asOf' = clock
      /\ UNCHANGED <<clock, fed, active, emitted, missed>>
  BY DEF Tables!Poll
<1>2. batch = <<>>
  BY <1>1 DEF MonitorInv, MonitorTypes
<1>3. MonitorTypes'
  <2>1. clock # Tables!None
    BY TablesBounds DEF MonitorInv, MonitorTypes, Tables!Times, Tables!None
  <2>2. <<>> \in Seq(Tables!Captured) /\ Len(<<>>) = 0
    BY EmptySeq
  <2> QED BY <1>1, <2>1, <2>2, TablesBounds DEF MonitorInv, MonitorTypes
<1>4. ASSUME missed' = 0, NEW k \in Tables!FlowKeys
      PROVE  Counted(k)' = Cardinality(Tables!RowsOf(fed', k))
  <2>1. Counted(k) = Cardinality(Tables!RowsOf(fed, k))
    BY <1>1, <1>4 DEF MonitorInv
  <2>2. Counted(k)' = Cardinality(HandedOf(emitted, k)) + Pending(active, k)
                        + Cardinality(Tables!RowsOf(queue, k)) + Cardinality(Tables!RowsOf(<<>>, k))
    BY <1>1 DEF Counted
  <2> QED BY <1>1, <1>2, <2>1, <2>2, CountsAreNat, NoRows DEF Counted
<1> QED BY <1>1, <1>3, <1>4 DEF MonitorInv

LEMMA IngestCounts ==
  ASSUME MonitorInv, Tables!IngestPacket
  PROVE  MonitorInv'
<1> DEFINE row == Head(batch)
           key == Tables!Key(row.packet)
           old == IF key \in DOMAIN active THEN active[key]
                  ELSE [key |-> key, start |-> row.ts, last |-> row.ts, n |-> 0, bytes |-> 0]
           new == [old EXCEPT !.last = row.ts, !.n = old.n + 1, !.bytes = old.bytes + row.packet.len]
<1>1. /\ batch # <<>>  /\ batch' = Tail(batch)  /\ active' = Tables!Stored(active, key, new)
      /\ UNCHANGED <<clock, fed, queue, emitted, asOf, missed>>
  BY DEF Tables!IngestPacket
<1>2. row \in Tables!Captured /\ Tail(batch) \in Seq(Tables!Captured)
  BY <1>1, HeadTailProperties DEF MonitorInv, MonitorTypes
<1>3. row.ts \in Tables!Times /\ row.packet \in Packets /\ row.packet.len \in Nat /\ key \in Tables!FlowKeys
  BY <1>2, TablesBounds DEF Tables!Captured, Tables!FlowKeys
<1>4. old \in Tables!LiveRecords /\ old.key = key /\ old.n = Pending(active, key)
  BY <1>3 DEF MonitorInv, MonitorTypes, Tables!LiveRecords, Pending
<1> HIDE DEF old, key, row
<1>5. new \in Tables!LiveRecords /\ new.key = key /\ new.n = old.n + 1
  <2>1. old \in [key : Tables!FlowKeys, start : Tables!Times, last : Tables!Times, n : Nat, bytes : Nat]
    BY <1>4 DEF Tables!LiveRecords
  <2>2. old.n + 1 \in Nat /\ old.bytes + row.packet.len \in Nat
    BY <1>3, <2>1
  <2>3. new \in [key : Tables!FlowKeys, start : Tables!Times, last : Tables!Times, n : Nat, bytes : Nat]
    BY <1>3, <2>1, <2>2
  <2>4. new.key = old.key /\ new.n = old.n + 1
    BY <2>1
  <2> QED BY <1>4, <2>3, <2>4 DEF Tables!LiveRecords
<1> HIDE DEF new
<1>6. /\ DOMAIN active' = DOMAIN active \cup {key}  /\ active'[key] = new
      /\ \A x \in DOMAIN active : x # key => active'[x] = active[x]
  <2>1. /\ DOMAIN Tables!Stored(active, key, new) = DOMAIN active \cup {key}
        /\ Tables!Stored(active, key, new)[key] = new
        /\ \A x \in DOMAIN active : x # key => Tables!Stored(active, key, new)[x] = active[x]
    BY ONLY DEF Tables!Stored
  <2> QED BY ONLY <1>1, <2>1
<1>7. active' \in [DOMAIN active' -> Tables!LiveRecords]
  BY <1>1, <1>5, StoredTypes DEF MonitorInv, MonitorTypes
<1>8. MonitorTypes'
  BY <1>1, <1>2, <1>3, <1>5, <1>6, <1>7 DEF MonitorInv, MonitorTypes
<1>9. ASSUME missed' = 0, NEW k \in Tables!FlowKeys
      PROVE  Counted(k)' = Cardinality(Tables!RowsOf(fed', k))
  <2>1. Counted(k) = Cardinality(Tables!RowsOf(fed, k))
    BY <1>1, <1>9 DEF MonitorInv
  <2>2. Cardinality(Tables!RowsOf(batch, k)) = Cardinality(Tables!RowsOf(batch', k)) + IF key = k THEN 1 ELSE 0
    <3>1. batch \in Seq(Tables!Captured)
      BY DEF MonitorInv, MonitorTypes
    <3> QED BY <1>1, <3>1, RowsTail DEF key, row
  <2>3. Pending(active, k)' = Pending(active, k) + IF key = k THEN 1 ELSE 0
    BY <1>4, <1>5, <1>6, CountsAreNat DEF Pending
  <2>4. Cardinality(Tables!RowsOf(batch', k)) \in Nat
    BY <1>1, <1>2, RowsFinite
  <2>5. Counted(k)' = Cardinality(HandedOf(emitted, k)) + Pending(active, k)'
                        + Cardinality(Tables!RowsOf(batch', k)) + Cardinality(Tables!RowsOf(queue, k))
    BY <1>1 DEF Counted
  <2>6. Counted(k)' = Counted(k)
    BY <2>2, <2>3, <2>4, <2>5, CountsAreNat DEF Counted
  <2> QED BY <1>1, <2>1, <2>6
<1> QED BY <1>1, <1>8, <1>9 DEF MonitorInv

LEMMA FlushCounts ==
  ASSUME MonitorInv, Tables!FlushIdle
  PROVE  MonitorInv'
<1>1. /\ asOf # Tables!None  /\ batch = <<>>  /\ UNCHANGED <<clock, fed, queue, batch, missed>>
  BY DEF Tables!FlushIdle
<1>2. CASE asOf' = Tables!None /\ UNCHANGED <<active, emitted>>
  <2>1. MonitorTypes'
    BY <1>1, <1>2 DEF MonitorInv, MonitorTypes
  <2>2. \A k : Counted(k)' = Counted(k)
    BY <1>1, <1>2 DEF Counted
  <2> QED BY <1>1, <1>2, <2>1, <2>2 DEF MonitorInv
<1>3. ASSUME NEW j \in Tables!Idle, emitted' = Append(emitted, active[j]), active' = Tables!Left(active, j), UNCHANGED asOf
      PROVE  MonitorInv'
  <2>1. j \in DOMAIN active /\ active[j] \in Tables!LiveRecords /\ active[j].key = j
    BY <1>3 DEF Tables!Idle, MonitorInv, MonitorTypes
  <2>2. /\ DOMAIN active' = DOMAIN active \ {j}  /\ \A x \in DOMAIN active : x # j => active'[x] = active[x]
        /\ active' \in [DOMAIN active' -> Tables!LiveRecords]
    <3>1. /\ DOMAIN Tables!Left(active, j) = DOMAIN active \ {j}
          /\ \A x \in DOMAIN active : x # j => Tables!Left(active, j)[x] = active[x]
      BY ONLY LeftFacts
    <3>2. Tables!Left(active, j) \in [DOMAIN Tables!Left(active, j) -> Tables!LiveRecords]
      BY LeftTypes DEF MonitorInv, MonitorTypes
    <3> QED BY ONLY <1>3, <3>1, <3>2
  <2>3. emitted' \in Seq(Tables!LiveRecords)
    BY <1>3, <2>1, AppendProperties DEF MonitorInv, MonitorTypes
  <2>4. MonitorTypes'
    BY <1>1, <1>3, <2>2, <2>3 DEF MonitorInv, MonitorTypes
  <2>5. ASSUME NEW k \in Tables!FlowKeys
        PROVE  /\ IsFiniteSet(HandedOf(emitted', k))
               /\ Cardinality(HandedOf(emitted', k)) = Cardinality(HandedOf(emitted, k)) + IF j = k THEN active[j].n ELSE 0
    <3>1. emitted \in Seq(Tables!LiveRecords) /\ IsFiniteSet(HandedOf(emitted, k))
      BY DEF MonitorInv, MonitorTypes
    <3> QED BY <1>3, <2>1, <3>1, HandedAppend
  <2>6. ASSUME missed' = 0, NEW k \in Tables!FlowKeys
        PROVE  Counted(k)' = Cardinality(Tables!RowsOf(fed', k))
    <3>1. Counted(k) = Cardinality(Tables!RowsOf(fed, k))
      BY <1>1, <2>6 DEF MonitorInv
    <3>2. Pending(active, k) = Pending(active, k)' + IF j = k THEN active[j].n ELSE 0
      BY <2>1, <2>2, CountsAreNat DEF Pending
    <3>3. Pending(active, k)' \in Nat /\ active[j].n \in Nat
      BY <2>1, <2>2 DEF Pending, Tables!LiveRecords
    <3>4. Counted(k)' = Cardinality(HandedOf(emitted', k)) + Pending(active, k)'
                          + Cardinality(Tables!RowsOf(batch, k)) + Cardinality(Tables!RowsOf(queue, k))
      BY <1>1 DEF Counted
    <3>5. Counted(k)' = Counted(k)
      BY <2>5, <3>2, <3>3, <3>4, CountsAreNat DEF Counted
    <3> QED BY <1>1, <3>1, <3>5
  <2> QED BY <2>4, <2>5, <2>6 DEF MonitorInv
<1> QED BY <1>2, <1>3 DEF Tables!FlushIdle

\* A row comes in; with a row that leaves before it is polled nothing is said.
LEMMA CaptureCounts ==
  ASSUME MonitorInv, NEW p \in Packets, NEW ts \in Tables!Times, Tables!Capture(p, ts)
  PROVE  MonitorInv'
<1> DEFINE row == [packet |-> p, ts |-> ts]
           more == Append(queue, row)
<1>1. /\ fed' = Append(fed, row)  /\ UNCHANGED <<clock, active, emitted, batch, asOf>>
      /\ IF Len(more) > MaxRows THEN queue' = Tail(more) /\ missed' = missed + 1 ELSE queue' = more /\ UNCHANGED missed
  BY DEF Tables!Capture, Tables!monitor
<1>2. row \in Tables!Captured
  BY DEF Tables!Captured
<1>3. row.packet = p
  OBVIOUS
<1> HIDE DEF row
<1>4. fed' \in Seq(Tables!Captured)
  BY <1>1, <1>2, AppendProperties DEF MonitorInv, MonitorTypes
<1>5. more \in Seq(Tables!Captured) /\ more # <<>> /\ Len(more) = Len(queue) + 1
  BY <1>2, AppendProperties DEF MonitorInv, MonitorTypes
<1>6. Len(queue) \in Nat /\ Len(queue) <= MaxRows /\ MaxRows \in Nat
  BY TablesBounds, LenProperties DEF MonitorInv, MonitorTypes
<1>7. Tail(more) \in Seq(Tables!Captured) /\ Len(Tail(more)) = Len(more) - 1
  BY <1>5, HeadTailProperties
<1>8. queue' \in Seq(Tables!Captured) /\ Len(queue') <= MaxRows /\ missed' \in Nat
  <2>1. missed \in Nat /\ queue \in Seq(Tables!Captured)
    BY DEF MonitorInv, MonitorTypes
  <2>2. CASE Len(more) > MaxRows
    <3>1. queue' = Tail(more) /\ missed' = missed + 1
      BY <1>1, <2>2
    <3>2. Len(Tail(more)) <= MaxRows
      BY <1>5, <1>6, <1>7
    <3> QED BY <1>7, <2>1, <3>1, <3>2
  <2>3. CASE ~(Len(more) > MaxRows)
    <3>1. queue' = more /\ missed' = missed
      BY <1>1, <2>3
    <3> QED BY <1>5, <1>6, <2>1, <2>3, <3>1
  <2> QED BY <2>2, <2>3
<1>9. missed' = 0 => missed = 0 /\ queue' = more
  BY <1>1 DEF MonitorInv, MonitorTypes
<1> HIDE DEF more
<1>10. MonitorTypes'
  BY <1>1, <1>4, <1>8 DEF MonitorInv, MonitorTypes
<1>11. ASSUME missed' = 0, NEW k \in Tables!FlowKeys
       PROVE  Counted(k)' = Cardinality(Tables!RowsOf(fed', k))
  <2>1. Counted(k) = Cardinality(Tables!RowsOf(fed, k))
    BY <1>9, <1>11 DEF MonitorInv
  <2>2. Cardinality(Tables!RowsOf(fed', k)) = Cardinality(Tables!RowsOf(fed, k)) + IF Tables!Key(p) = k THEN 1 ELSE 0
    BY <1>1, <1>2, <1>3, RowsAppend DEF MonitorInv, MonitorTypes
  <2>3. Cardinality(Tables!RowsOf(queue', k)) = Cardinality(Tables!RowsOf(queue, k)) + IF Tables!Key(p) = k THEN 1 ELSE 0
    <3>1. queue' = Append(queue, row) /\ queue \in Seq(Tables!Captured)
      BY <1>9, <1>11 DEF MonitorInv, MonitorTypes, more
    <3>2. Cardinality(Tables!RowsOf(Append(queue, row), k))
            = Cardinality(Tables!RowsOf(queue, k)) + IF Tables!Key(row.packet) = k THEN 1 ELSE 0
      BY ONLY <1>2, <3>1, RowsAppend
    <3> QED BY ONLY <1>3, <3>1, <3>2
  <2>4. Counted(k)' = Cardinality(HandedOf(emitted, k)) + Pending(active, k)
                        + Cardinality(Tables!RowsOf(batch, k)) + Cardinality(Tables!RowsOf(queue', k))
    BY <1>1 DEF Counted
  <2> QED BY <2>1, <2>2, <2>3, <2>4, CountsAreNat DEF Counted
<1> QED BY <1>1, <1>10, <1>11 DEF MonitorInv

LEMMA TickCounts ==
  ASSUME MonitorInv, Tables!Tick
  PROVE  MonitorInv'
<1>1. clock < MaxInstant /\ clock' = clock + 1 /\ UNCHANGED <<fed, queue, active, emitted, batch, asOf, missed>>
  BY DEF Tables!Tick, Tables!monitor
<1>2. clock' \in Tables!Times
  BY <1>1, TablesBounds DEF MonitorInv, MonitorTypes, Tables!Times
<1>3. MonitorTypes'
  BY <1>1, <1>2 DEF MonitorInv, MonitorTypes
<1>4. \A k : Counted(k)' = Counted(k)
  BY <1>1 DEF Counted
<1> QED BY <1>1, <1>3, <1>4 DEF MonitorInv

LEMMA CountsBegin == Tables!Init => MonitorInv
<1> SUFFICES ASSUME Tables!Init PROVE MonitorInv
  OBVIOUS
<1>1. /\ clock = 0  /\ fed = <<>>  /\ queue = <<>>  /\ active = <<>>  /\ emitted = <<>>  /\ missed = 0
      /\ batch = <<>>  /\ asOf = Tables!None
  BY DEF Tables!Init
<1>2. MonitorTypes
  <2>1. \A S : <<>> \in Seq(S) /\ Len(<<>>) = 0 /\ DOMAIN <<>> = {} /\ <<>> \in [{} -> S]
    BY EmptySeq
  <2> QED BY <1>1, <2>1, TablesBounds DEF MonitorTypes, Tables!Times
<1>3. ASSUME NEW k PROVE HandedOf(<<>>, k) = {} /\ Pending(<<>>, k) = 0
  BY DEF HandedOf, HandedAt, Blocks, Pending
<1>4. \A k : Counted(k) = 0
  <2> SUFFICES ASSUME NEW k PROVE Counted(k) = 0
    OBVIOUS
  <2>1. Cardinality(HandedOf(emitted, k)) = 0 /\ Pending(active, k) = 0
    BY <1>1, <1>3, FS_EmptySet
  <2>2. Cardinality(Tables!RowsOf(batch, k)) = 0 /\ Cardinality(Tables!RowsOf(queue, k)) = 0
    BY <1>1, NoRows
  <2> QED BY <2>1, <2>2 DEF Counted
<1> QED BY <1>1, <1>2, <1>3, <1>4, NoRows, FS_EmptySet DEF MonitorInv

-----------------------------------------------------------------------------
(* The parser: the packets of a conversation are all in one flow.          *)

Of(k, p)     == k \in {Tables!Key(p), Tables!Rev(p)}
TalkIn(s, k)  == {i \in DOMAIN s : Of(k, s[i].packet)}
ForthIn(s, k) == {i \in TalkIn(s, k) : Tables!Forward(k, s[i].packet)}
BackIn(s, k)  == {i \in TalkIn(s, k) : ~Tables!Forward(k, s[i].packet)}
FlowIs(s, k, f) ==
  /\ LaneOf(s, f.fwd, ForthIn(s, k))  /\ LaneOf(s, f.bwd, BackIn(s, k))
  /\ \E i \in TalkIn(s, k) : Tables!FirstAt(i, TalkIn(s, k)) /\ f.start = s[i].ts
  /\ \E i \in TalkIn(s, k) : Tables!LastAt(i, TalkIn(s, k)) /\ f.end = s[i].ts
Turned(k) == <<k[2], k[1], k[3]>>
ParserTypes ==
  /\ fed \in Seq(Tables!Captured)
  /\ DOMAIN flows \subseteq Tables!FlowKeys  /\ flows \in [DOMAIN flows -> Tables!FlowRecords]
  /\ tracked \in [Tables!Hosts \cup Tables!Names -> Nat]
ParserInv ==
  /\ ParserTypes
  /\ \A i \in DOMAIN fed : \E k \in DOMAIN flows : Of(k, fed[i].packet)
  /\ \A k, l \in DOMAIN flows : l = Turned(k) => l = k
  /\ \A k \in DOMAIN flows : FlowIs(fed, k, flows[k])

LEMMA TurnedFacts ==
  /\ \A p : Tables!Rev(p) = Turned(Tables!Key(p)) /\ Tables!Key(p) = Turned(Tables!Rev(p))
  /\ \A k \in Tables!FlowKeys : Turned(Turned(k)) = k
<1>1. \A p : Tables!Rev(p) = Turned(Tables!Key(p)) /\ Tables!Key(p) = Turned(Tables!Rev(p))
  BY DEF Tables!Rev, Tables!Key, Turned
<1> QED BY <1>1 DEF Tables!FlowKeys

\* t is s with the row at place m; a conversation k grows by it if it is of k.
Grown(s, t, m, row, k) ==
  /\ m \in Nat  /\ DOMAIN s = 1 .. Len(s)  /\ DOMAIN t = (1 .. Len(s)) \cup {m}  /\ t[m] = row
  /\ \A i \in 1 .. Len(s) : t[i] = s[i] /\ i < m
  /\ TalkIn(s, k) \subseteq 1 .. Len(s)  /\ ForthIn(s, k) \subseteq 1 .. Len(s)  /\ BackIn(s, k) \subseteq 1 .. Len(s)
  /\ TalkIn(t, k) = TalkIn(s, k) \cup (IF Of(k, row.packet) THEN {m} ELSE {})
  /\ ForthIn(t, k) = ForthIn(s, k) \cup (IF Of(k, row.packet) /\ Tables!Forward(k, row.packet) THEN {m} ELSE {})
  /\ BackIn(t, k) = BackIn(s, k) \cup (IF Of(k, row.packet) /\ ~Tables!Forward(k, row.packet) THEN {m} ELSE {})

LEMMA TalkAdds ==
  ASSUME NEW s \in Seq(Tables!Captured), NEW row \in Tables!Captured, NEW k
  PROVE  Grown(s, Append(s, row), Len(s) + 1, row, k)
<1> DEFINE t == Append(s, row)
           m == Len(s) + 1
<1>1. Len(s) \in Nat /\ DOMAIN s = 1 .. Len(s)
  BY LenProperties
<1>2. t \in Seq(Tables!Captured) /\ Len(t) = m /\ t[m] = row /\ \A i \in 1 .. Len(s) : t[i] = s[i]
  BY AppendProperties
<1>3. DOMAIN t = 1 .. m
  BY <1>2, LenProperties
<1>4. m \in Nat /\ 1 .. m = (1 .. Len(s)) \cup {m} /\ \A i \in 1 .. Len(s) : i < m
  BY <1>1
<1> HIDE DEF t, m
<1>5. DOMAIN t = (1 .. Len(s)) \cup {m}
  BY <1>3, <1>4
<1>6. TalkIn(t, k) = TalkIn(s, k) \cup (IF Of(k, row.packet) THEN {m} ELSE {})
  BY <1>1, <1>2, <1>5 DEF TalkIn
<1>7. TalkIn(s, k) \subseteq 1 .. Len(s) /\ m \notin 1 .. Len(s)
  BY <1>1, <1>4 DEF TalkIn
<1>8. ForthIn(t, k) = ForthIn(s, k) \cup (IF Of(k, row.packet) /\ Tables!Forward(k, row.packet) THEN {m} ELSE {})
  BY <1>2, <1>6, <1>7 DEF ForthIn
<1>9. BackIn(t, k) = BackIn(s, k) \cup (IF Of(k, row.packet) /\ ~Tables!Forward(k, row.packet) THEN {m} ELSE {})
  BY <1>2, <1>6, <1>7 DEF BackIn
<1>10. ForthIn(s, k) \subseteq 1 .. Len(s) /\ BackIn(s, k) \subseteq 1 .. Len(s)
  BY <1>7 DEF ForthIn, BackIn
<1> QED BY <1>1, <1>2, <1>4, <1>5, <1>6, <1>7, <1>8, <1>9, <1>10 DEF Grown, t, m

LEMMA EmptyLane == ASSUME NEW s PROVE LaneOf(s, Tables!NoLane, {})
<1>1. Blocks(Sizes(s), {}) = {} /\ GapsIn(s, {}) = {}
  BY DEF Blocks, GapsIn
<1>2. IsFiniteSet({}) /\ Cardinality({}) = 0
  BY FS_EmptySet
<1> QED BY <1>1, <1>2 DEF LaneOf, Tables!NoLane

LEMMA EmptyTalk ==
  ASSUME NEW s, NEW k, TalkIn(s, k) = {}
  PROVE  ForthIn(s, k) = {} /\ BackIn(s, k) = {}
BY DEF ForthIn, BackIn

\* The packet of another conversation changes nothing.
LEMMA FlowSame ==
  ASSUME NEW s \in Seq(Tables!Captured), NEW row \in Tables!Captured, NEW k, ~Of(k, row.packet), NEW f, FlowIs(s, k, f)
  PROVE  FlowIs(Append(s, row), k, f)
<1> DEFINE t == Append(s, row)
           m == Len(s) + 1
<1>grown. Grown(s, t, m, row, k)
  BY TalkAdds
<1> HIDE DEF t, m
<1>1. /\ DOMAIN s = 1 .. Len(s)  /\ DOMAIN t = (1 .. Len(s)) \cup {m}
      /\ \A i \in 1 .. Len(s) : t[i] = s[i]
      /\ TalkIn(s, k) \subseteq 1 .. Len(s)  /\ ForthIn(s, k) \subseteq 1 .. Len(s)  /\ BackIn(s, k) \subseteq 1 .. Len(s)
      /\ TalkIn(t, k) = TalkIn(s, k)  /\ ForthIn(t, k) = ForthIn(s, k)  /\ BackIn(t, k) = BackIn(s, k)
  BY <1>grown DEF Grown
<1>2. LaneOf(t, f.fwd, ForthIn(t, k))
  <2>1. LaneOf(s, f.fwd, ForthIn(s, k))
    BY DEF FlowIs
  <2>2. ForthIn(s, k) \subseteq DOMAIN s /\ ForthIn(s, k) \subseteq DOMAIN t /\ \A i \in ForthIn(s, k) : t[i] = s[i]
    BY <1>1
  <2>3. LaneOf(t, f.fwd, ForthIn(s, k))
    BY ONLY <2>1, <2>2, LaneSame
  <2> QED BY <1>1, <2>3
<1>3. LaneOf(t, f.bwd, BackIn(t, k))
  <2>1. LaneOf(s, f.bwd, BackIn(s, k))
    BY DEF FlowIs
  <2>2. BackIn(s, k) \subseteq DOMAIN s /\ BackIn(s, k) \subseteq DOMAIN t /\ \A i \in BackIn(s, k) : t[i] = s[i]
    BY <1>1
  <2>3. LaneOf(t, f.bwd, BackIn(s, k))
    BY ONLY <2>1, <2>2, LaneSame
  <2> QED BY <1>1, <2>3
<1>4. \E i \in TalkIn(t, k) : Tables!FirstAt(i, TalkIn(t, k)) /\ f.start = t[i].ts
  BY <1>1 DEF FlowIs
<1>5. \E i \in TalkIn(t, k) : Tables!LastAt(i, TalkIn(t, k)) /\ f.end = t[i].ts
  BY <1>1 DEF FlowIs
<1> QED BY <1>2, <1>3, <1>4, <1>5 DEF FlowIs, t

\* One side of a flow, with a packet of its own or of the other side.
LEMMA SideAdds ==
  ASSUME NEW s \in Seq(Tables!Captured), NEW row \in Tables!Captured, NEW lane \in Tables!Lanes,
         NEW at \in SUBSET (1 .. Len(s)), LaneOf(s, lane, at)
  PROVE  /\ LaneOf(Append(s, row), lane, at)
         /\ LaneOf(Append(s, row), Tables!Record(lane, row.packet, row.ts), at \cup {Len(s) + 1})
<1> DEFINE t == Append(s, row)
           m == Len(s) + 1
<1>grown. \A k : Grown(s, t, m, row, k)
  BY TalkAdds
<1>2. t \in Seq(Tables!Captured) /\ Len(s) \in Nat
  BY AppendProperties, LenProperties
<1> HIDE DEF t, m
<1>1. /\ m \in Nat  /\ DOMAIN s = 1 .. Len(s)  /\ DOMAIN t = (1 .. Len(s)) \cup {m}  /\ t[m] = row
      /\ \A i \in 1 .. Len(s) : t[i] = s[i] /\ i < m
  BY <1>grown DEF Grown
<1>3. LaneOf(t, lane, at)
  BY <1>1, LaneSame
<1>4. \A i \in DOMAIN t : t[i].ts \in Tables!Times /\ t[i].packet.len \in Nat
  <2>1. \A i \in DOMAIN t : t[i] \in Tables!Captured
    BY <1>2, ElementOfSeq, LenProperties
  <2> QED BY <2>1, TablesBounds DEF Tables!Captured
<1>5. at \in SUBSET Nat /\ (\A i \in at : i < m) /\ at \cup {m} \subseteq DOMAIN t
  BY <1>1, <1>2
<1>6. \A i \in at \cup {m} : t[i].ts \in Tables!Times /\ t[i].packet.len \in Nat
  BY <1>4, <1>5
<1>7. LaneOf(t, Tables!Record(lane, t[m].packet, t[m].ts), at \cup {m})
  BY ONLY <1>1, <1>3, <1>5, <1>6, LaneAdds, lane \in Tables!Lanes
<1> QED BY <1>1, <1>3, <1>7 DEF t, m

LEMMA FlowAdds ==
  ASSUME NEW s \in Seq(Tables!Captured), NEW row \in Tables!Captured, NEW k, Of(k, row.packet),
         NEW f \in Tables!FlowRecords, IF TalkIn(s, k) = {} THEN f = Tables!NewFlow(row.ts) ELSE FlowIs(s, k, f),
         NEW g, g.start = f.start, g.end = row.ts,
         g.fwd = IF Tables!Forward(k, row.packet) THEN Tables!Record(f.fwd, row.packet, row.ts) ELSE f.fwd,
         g.bwd = IF Tables!Forward(k, row.packet) THEN f.bwd ELSE Tables!Record(f.bwd, row.packet, row.ts)
  PROVE  FlowIs(Append(s, row), k, g)
<1> DEFINE t == Append(s, row)
           m == Len(s) + 1
           talk == TalkIn(s, k)
<1>grown. Grown(s, t, m, row, k)
  BY TalkAdds
<1> HIDE DEF t, m
<1>1. /\ m \in Nat  /\ DOMAIN s = 1 .. Len(s)  /\ DOMAIN t = (1 .. Len(s)) \cup {m}  /\ t[m] = row
      /\ \A i \in 1 .. Len(s) : t[i] = s[i] /\ i < m
      /\ talk \subseteq 1 .. Len(s)  /\ ForthIn(s, k) \subseteq 1 .. Len(s)  /\ BackIn(s, k) \subseteq 1 .. Len(s)
      /\ TalkIn(t, k) = talk \cup {m}
      /\ ForthIn(t, k) = ForthIn(s, k) \cup (IF Tables!Forward(k, row.packet) THEN {m} ELSE {})
      /\ BackIn(t, k) = BackIn(s, k) \cup (IF Tables!Forward(k, row.packet) THEN {} ELSE {m})
  BY <1>grown DEF Grown
<1>2. f.fwd \in Tables!Lanes /\ f.bwd \in Tables!Lanes
  BY DEF Tables!FlowRecords
<1>3. LaneOf(s, f.fwd, ForthIn(s, k)) /\ LaneOf(s, f.bwd, BackIn(s, k))
  <2>1. CASE talk = {}
    <3>1. f = Tables!NewFlow(row.ts)
      BY <2>1
    <3>2. f.fwd = Tables!NoLane /\ f.bwd = Tables!NoLane
      BY ONLY <3>1 DEF Tables!NewFlow
    <3>3. ForthIn(s, k) = {} /\ BackIn(s, k) = {}
      BY <2>1, EmptyTalk
    <3> QED BY <3>2, <3>3, EmptyLane
  <2>2. CASE talk # {}
    BY <2>2 DEF FlowIs
  <2> QED BY <2>1, <2>2
<1>4. talk \in SUBSET Nat /\ Len(s) \in Nat
  <2>1. Len(s) \in Nat
    BY LenProperties
  <2> QED BY <1>1, <2>1
<1>5. /\ LaneOf(t, f.fwd, ForthIn(s, k))  /\ LaneOf(t, Tables!Record(f.fwd, row.packet, row.ts), ForthIn(s, k) \cup {m})
      /\ LaneOf(t, f.bwd, BackIn(s, k))  /\ LaneOf(t, Tables!Record(f.bwd, row.packet, row.ts), BackIn(s, k) \cup {m})
  <2>1. ForthIn(s, k) \in SUBSET (1 .. Len(s)) /\ BackIn(s, k) \in SUBSET (1 .. Len(s))
    BY <1>1
  <2>2. s \in Seq(Tables!Captured) /\ row \in Tables!Captured
    OBVIOUS
  <2> QED BY ONLY <1>2, <1>3, <2>1, <2>2, SideAdds DEF t, m
<1>6. LaneOf(t, g.fwd, ForthIn(t, k)) /\ LaneOf(t, g.bwd, BackIn(t, k))
  <2>1. CASE Tables!Forward(k, row.packet)
    <3>1. ForthIn(t, k) = ForthIn(s, k) \cup {m} /\ BackIn(t, k) = BackIn(s, k)
      BY <1>1, <2>1
    <3>2. g.fwd = Tables!Record(f.fwd, row.packet, row.ts) /\ g.bwd = f.bwd
      BY <2>1
    <3> QED BY ONLY <1>5, <3>1, <3>2
  <2>2. CASE ~Tables!Forward(k, row.packet)
    <3>1. ForthIn(t, k) = ForthIn(s, k) /\ BackIn(t, k) = BackIn(s, k) \cup {m}
      BY <1>1, <2>2
    <3>2. g.fwd = f.fwd /\ g.bwd = Tables!Record(f.bwd, row.packet, row.ts)
      BY <2>2
    <3> QED BY ONLY <1>5, <3>1, <3>2
  <2> QED BY <2>1, <2>2
<1>7. \A i \in talk : i < m /\ t[i] = s[i]
  BY <1>1
<1>8. \E i \in talk \cup {m} : Tables!FirstAt(i, talk \cup {m}) /\ g.start = t[i].ts
  <2>1. CASE talk = {}
    <3>1. f = Tables!NewFlow(row.ts)
      BY <2>1
    <3>2. f.start = row.ts
      BY ONLY <3>1 DEF Tables!NewFlow
    <3>3. Tables!FirstAt(m, talk \cup {m})
      BY <1>1, <1>4, <1>7, <2>1, LastAdds
    <3> QED BY <1>1, <3>2, <3>3
  <2>2. CASE talk # {}
    <3>1. PICK i \in talk : Tables!FirstAt(i, talk) /\ f.start = s[i].ts
      BY <2>2 DEF FlowIs
    <3>2. Tables!FirstAt(i, talk \cup {m})
      BY <1>1, <1>4, <1>7, <3>1, LastAdds
    <3> QED BY <1>7, <3>1, <3>2
  <2> QED BY <2>1, <2>2
<1>9. \E i \in talk \cup {m} : Tables!LastAt(i, talk \cup {m}) /\ g.end = t[i].ts
  <2>1. Tables!LastAt(m, talk \cup {m})
    BY <1>1, <1>4, <1>7, LastAdds
  <2> QED BY <1>1, <2>1
<1>10. TalkIn(t, k) = talk \cup {m}
  BY <1>1
<1> HIDE DEF talk
<1> QED BY <1>6, <1>8, <1>9, <1>10 DEF FlowIs, t

LEMMA LayerTypes ==
  ASSUME NEW k, NEW p, NEW old \in Tables!Layers
  PROVE  Tables!Layer(k, p, old) \in Tables!Layers
<1>1. \A x : x \in Tables!Layers <=> x \in {"", "TLS", "HTTP", "DNS", "ICMP"}
  BY DEF Tables!Layers
<1>2. Tables!Layer(k, p, old) \in {"ICMP", "DNS", "TLS", "HTTP", old}
  BY Zenon DEF Tables!Layer
<1> QED BY <1>1, <1>2

LEMMA RecordTypes ==
  ASSUME NEW lane \in Tables!Lanes, NEW p \in Packets, NEW ts \in Tables!Times
  PROVE  Tables!Record(lane, p, ts) \in Tables!Lanes
<1>1. /\ lane.n \in Nat  /\ lane.bytes \in Nat  /\ lane.max \in Nat  /\ lane.gaps \in Nat  /\ lane.span \in Nat
      /\ lane.last \in Tables!Times \cup {Tables!None}
  BY DEF Tables!Lanes
<1>2. p.len \in Nat /\ ts \in Nat
  BY TablesBounds DEF Tables!Times
<1>3. /\ lane.n + 1 \in Nat  /\ lane.bytes + p.len \in Nat  /\ Tables!Higher(lane.max, p.len) \in Nat
      /\ lane.gaps + (IF Tables!IsGap(lane, ts) THEN 1 ELSE 0) \in Nat
  BY <1>1, <1>2 DEF Tables!Higher
<1>4. lane.span + (IF Tables!IsGap(lane, ts) THEN ts - lane.last ELSE 0) \in Nat
  <2>1. CASE Tables!IsGap(lane, ts)
    <3>1. lane.last \in Nat /\ lane.last <= ts
      BY <1>1, <2>1 DEF Tables!IsGap, Tables!Times
    <3> QED BY <1>1, <1>2, <2>1, <3>1
  <2>2. CASE ~Tables!IsGap(lane, ts)
    BY <1>1, <2>2
  <2> QED BY <2>1, <2>2
<1> QED BY <1>3, <1>4 DEF Tables!Record, Tables!Lanes

LEMMA NewFlowTypes == ASSUME NEW ts \in Tables!Times PROVE Tables!NewFlow(ts) \in Tables!FlowRecords
BY DEF Tables!NewFlow, Tables!FlowRecords, Tables!NoLane, Tables!Lanes, Tables!Layers

LEMMA SeenTypes ==
  /\ \A k, p : Tables!Carries(k, p) \in Nat
  /\ \A p, h : Tables!Mentions(p, h) \in Nat
<1>1. \A k, p : Tables!Carries(k, p) \in Nat
  BY DEF Tables!Carries
<1>2. ASSUME NEW p, NEW h PROVE Tables!Mentions(p, h) \in Nat
  <2> DEFINE at == {i \in {1, 2} : (<<p.from, p.to>>[i])[1] = h}
  <2>1. IsFiniteSet({1, 2})
    <3>1. IsFiniteSet({1}) /\ {1, 2} = {1} \cup {2}
      BY FS_Singleton
    <3> QED BY <3>1, FS_AddElement
  <2>2. IsFiniteSet(at) /\ Cardinality(at) \in Nat
    BY <2>1, FS_Subset, FS_CardinalityType
  <2> QED BY <2>2, TablesCount DEF Tables!Mentions
<1> QED BY <1>1, <1>2

\* The flow that the packet goes to, and it alone, is of the packet's conversation.
LEMMA FlowOfFacts ==
  ASSUME ParserInv, NEW p \in Packets
  PROVE  /\ Of(Tables!FlowOf(p), p)  /\ Tables!FlowOf(p) \in Tables!FlowKeys
         /\ \A x \in DOMAIN flows : Of(x, p) => x = Tables!FlowOf(p)
         /\ Tables!FlowOf(p) \notin DOMAIN flows => /\ Turned(Tables!FlowOf(p)) \notin DOMAIN flows
                                                   /\ Tables!FlowOf(p) = Tables!Key(p)
<1> DEFINE k == Tables!Key(p)
           r == Tables!Rev(p)
<1>1. Tables!FlowOf(p) = IF k \in DOMAIN flows \/ r \notin DOMAIN flows THEN k ELSE r
  BY DEF Tables!FlowOf
<1>2. r = Turned(k) /\ k = Turned(r) /\ \A x : Of(x, p) <=> x \in {k, r}
  BY TurnedFacts DEF Of
<1>3. k \in Tables!FlowKeys /\ DOMAIN flows \subseteq Tables!FlowKeys
  BY DEF Tables!FlowKeys, ParserInv, ParserTypes
<1>4. k \in DOMAIN flows /\ r \in DOMAIN flows => r = k
  BY <1>2 DEF ParserInv
<1> HIDE DEF k, r
<1>5. \A x \in DOMAIN flows : Of(x, p) => x = Tables!FlowOf(p)
  BY ONLY <1>1, <1>2, <1>4
<1>6. Tables!FlowOf(p) \notin DOMAIN flows => Tables!FlowOf(p) = k /\ r \notin DOMAIN flows
  BY ONLY <1>1
<1>7. Of(Tables!FlowOf(p), p) /\ Tables!FlowOf(p) \in Tables!FlowKeys
  BY ONLY <1>1, <1>2, <1>3
<1> QED BY ONLY <1>2, <1>5, <1>6, <1>7 DEF k

LEMMA CaptureKeeps ==
  ASSUME ParserInv, NEW p \in Packets, NEW ts \in Tables!Times, Tables!Capture(p, ts)
  PROVE  ParserInv'
<1> DEFINE row == [packet |-> p, ts |-> ts]
           k == Tables!FlowOf(p)
           f == IF k \in DOMAIN flows THEN flows[k] ELSE Tables!NewFlow(ts)
           g == [f EXCEPT !.end = ts, !.layer = Tables!Layer(k, p, f.layer)]
           h == IF Tables!Forward(k, p) THEN [g EXCEPT !.fwd = Tables!Record(g.fwd, p, ts)]
                ELSE [g EXCEPT !.bwd = Tables!Record(g.bwd, p, ts)]
<1>1. /\ fed' = Append(fed, row)  /\ flows' = Tables!Stored(flows, k, h)
      /\ tracked' = [o \in DOMAIN tracked |-> tracked[o] + IF o \in Tables!Names THEN Tables!Carries(k, p)
                                                          ELSE Tables!Mentions(p, o)]
  BY DEF Tables!Capture, Tables!ProcessPacket
<1>2. row \in Tables!Captured /\ row.packet = p /\ row.ts = ts
  BY DEF Tables!Captured
<1>3. /\ Of(k, p)  /\ k \in Tables!FlowKeys  /\ \A x \in DOMAIN flows : Of(x, p) => x = k
      /\ k \notin DOMAIN flows => Turned(k) \notin DOMAIN flows /\ k = Tables!Key(p)
  BY FlowOfFacts
<1>4. f \in Tables!FlowRecords
  BY NewFlowTypes DEF ParserInv, ParserTypes
<1>5. fed \in Seq(Tables!Captured)
  BY DEF ParserInv, ParserTypes
<1>6. IF TalkIn(fed, k) = {} THEN f = Tables!NewFlow(row.ts) ELSE FlowIs(fed, k, f)
  <2>1. CASE k \in DOMAIN flows
    <3>1. FlowIs(fed, k, f)
      BY <2>1 DEF ParserInv
    <3>2. TalkIn(fed, k) # {}
      BY <3>1 DEF FlowIs
    <3> QED BY <3>1, <3>2
  <2>2. CASE k \notin DOMAIN flows
    <3>1. f = Tables!NewFlow(row.ts)
      BY <1>2, <2>2
    <3>2. ASSUME NEW i \in TalkIn(fed, k) PROVE FALSE
      <4>1. i \in DOMAIN fed /\ Of(k, fed[i].packet)
        BY <3>2 DEF TalkIn
      <4>2. PICK x \in DOMAIN flows : Of(x, fed[i].packet)
        BY <4>1 DEF ParserInv
      <4>3. x = k \/ x = Turned(k)
        BY <4>1, <4>2, TurnedFacts DEF Of
      <4> QED BY <1>3, <2>2, <4>2, <4>3
    <3> QED BY <3>1, <3>2
  <2> QED BY <2>1, <2>2
<1> HIDE DEF f, row, k
<1>7. g \in Tables!FlowRecords /\ g.start = f.start /\ g.end = ts /\ g.fwd = f.fwd /\ g.bwd = f.bwd
  <2>1. f \in [start : Tables!Times, end : Tables!Times, fwd : Tables!Lanes, bwd : Tables!Lanes, layer : Tables!Layers]
    BY <1>4 DEF Tables!FlowRecords
  <2>2. Tables!Layer(k, p, f.layer) \in Tables!Layers
    BY <2>1, LayerTypes
  <2> QED BY <2>1, <2>2 DEF Tables!FlowRecords
<1> HIDE DEF g
<1>8. /\ h \in Tables!FlowRecords  /\ h.start = f.start  /\ h.end = ts
      /\ h.fwd = IF Tables!Forward(k, p) THEN Tables!Record(f.fwd, p, ts) ELSE f.fwd
      /\ h.bwd = IF Tables!Forward(k, p) THEN f.bwd ELSE Tables!Record(f.bwd, p, ts)
  <2>1. g \in [start : Tables!Times, end : Tables!Times, fwd : Tables!Lanes, bwd : Tables!Lanes, layer : Tables!Layers]
    BY <1>7 DEF Tables!FlowRecords
  <2>2. Tables!Record(g.fwd, p, ts) \in Tables!Lanes /\ Tables!Record(g.bwd, p, ts) \in Tables!Lanes
    BY <2>1, RecordTypes
  <2>3. CASE Tables!Forward(k, p)
    <3>1. h = [g EXCEPT !.fwd = Tables!Record(g.fwd, p, ts)]
      BY <2>3
    <3> HIDE DEF h
    <3> QED BY <1>7, <2>1, <2>2, <2>3, <3>1 DEF Tables!FlowRecords
  <2>4. CASE ~Tables!Forward(k, p)
    <3>1. h = [g EXCEPT !.bwd = Tables!Record(g.bwd, p, ts)]
      BY <2>4
    <3> HIDE DEF h
    <3> QED BY <1>7, <2>1, <2>2, <2>4, <3>1 DEF Tables!FlowRecords
  <2> QED BY <2>3, <2>4
<1> HIDE DEF h
<1>9. FlowIs(fed', k, h)
  <2>1. Of(k, row.packet)
    BY <1>2, <1>3
  <2>2. FlowIs(Append(fed, row), k, h)
    BY ONLY <1>2, <1>4, <1>5, <1>6, <1>8, <2>1, FlowAdds
  <2> QED BY <1>1, <2>2
<1>10. /\ DOMAIN flows' = DOMAIN flows \cup {k}  /\ flows'[k] = h
       /\ \A x \in DOMAIN flows : x # k => flows'[x] = flows[x]
  BY <1>1 DEF Tables!Stored
<1>11. \A x \in DOMAIN flows' : FlowIs(fed', x, flows'[x])
  <2>1. ASSUME NEW x \in DOMAIN flows, x # k
        PROVE  FlowIs(fed', x, flows'[x])
    <3>1. ~Of(x, row.packet)
      BY <1>2, <1>3, <2>1
    <3>2. FlowIs(fed, x, flows[x])
      BY DEF ParserInv
    <3>3. FlowIs(Append(fed, row), x, flows[x])
      BY ONLY <1>2, <1>5, <3>1, <3>2, FlowSame
    <3> QED BY <1>1, <1>10, <2>1, <3>3
  <2> QED BY <1>9, <1>10, <2>1
<1>12. \A i \in DOMAIN fed' : \E x \in DOMAIN flows' : Of(x, fed'[i].packet)
  <2>1. Grown(fed, fed', Len(fed) + 1, row, k)
    BY <1>1, <1>2, <1>5, TalkAdds
  <2>2. /\ DOMAIN fed = 1 .. Len(fed)  /\ DOMAIN fed' = (1 .. Len(fed)) \cup {Len(fed) + 1}
        /\ fed'[Len(fed) + 1] = row  /\ \A i \in 1 .. Len(fed) : fed'[i] = fed[i]
    BY <2>1 DEF Grown
  <2>3. \A i \in 1 .. Len(fed) : \E x \in DOMAIN flows' : Of(x, fed'[i].packet)
    BY <1>10, <2>2 DEF ParserInv
  <2>4. \E x \in DOMAIN flows' : Of(x, fed'[Len(fed) + 1].packet)
    BY <1>2, <1>3, <1>10, <2>2
  <2> QED BY <2>2, <2>3, <2>4
<1>13. \A x, y \in DOMAIN flows' : y = Turned(x) => y = x
  <2> SUFFICES ASSUME NEW x \in DOMAIN flows', NEW y \in DOMAIN flows', y = Turned(x) PROVE y = x
    OBVIOUS
  <2>1. CASE k \in DOMAIN flows
    BY <1>10, <2>1 DEF ParserInv
  <2>2. CASE k \notin DOMAIN flows
    <3>1. Turned(k) \notin DOMAIN flows /\ Turned(Turned(k)) = k
      BY <1>3, <2>2, TurnedFacts
    <3>2. CASE x = k
      BY <1>10, <3>1, <3>2
    <3>3. CASE x # k /\ y = k
      <4>1. x \in DOMAIN flows /\ Turned(x) = k
        BY <1>10, <3>3
      <4>2. Turned(Turned(x)) = x
        BY <4>1, TurnedFacts DEF ParserInv, ParserTypes
      <4> QED BY <3>1, <4>1, <4>2
    <3>4. CASE x # k /\ y # k
      BY <1>10, <3>4 DEF ParserInv
    <3> QED BY <3>2, <3>3, <3>4
  <2> QED BY <2>1, <2>2
<1>14. ParserTypes'
  <2>1. fed' \in Seq(Tables!Captured)
    BY <1>1, <1>2, <1>5, AppendProperties
  <2>2. DOMAIN flows' \subseteq Tables!FlowKeys
    BY <1>3, <1>10 DEF ParserInv, ParserTypes
  <2>3. flows' \in [DOMAIN flows' -> Tables!FlowRecords]
    <3>1. flows \in [DOMAIN flows -> Tables!FlowRecords]
      BY DEF ParserInv, ParserTypes
    <3>2. Tables!Stored(flows, k, h) \in [DOMAIN Tables!Stored(flows, k, h) -> Tables!FlowRecords]
      BY ONLY <1>8, <3>1, StoredTypes
    <3> QED BY <1>1, <3>2
  <2>4. tracked' \in [Tables!Hosts \cup Tables!Names -> Nat]
    <3>1. tracked \in [Tables!Hosts \cup Tables!Names -> Nat]
      BY DEF ParserInv, ParserTypes
    <3>2. \A o : (IF o \in Tables!Names THEN Tables!Carries(k, p) ELSE Tables!Mentions(p, o)) \in Nat
      BY SeenTypes
    <3>3. \A o \in DOMAIN tracked : tracked[o] + (IF o \in Tables!Names THEN Tables!Carries(k, p) ELSE Tables!Mentions(p, o)) \in Nat
      BY <3>1, <3>2
    <3> QED BY <1>1, <3>1, <3>3
  <2> QED BY <2>1, <2>2, <2>3, <2>4 DEF ParserTypes
<1> QED BY <1>11, <1>12, <1>13, <1>14 DEF ParserInv

LEMMA ParserBegins == Tables!Init => ParserInv
<1> SUFFICES ASSUME Tables!Init PROVE ParserInv
  OBVIOUS
<1>1. fed = <<>> /\ flows = <<>> /\ tracked = [o \in Tables!Hosts \cup Tables!Names |-> 0]
  BY DEF Tables!Init
<1>2. \A S : <<>> \in Seq(S) /\ DOMAIN <<>> = {} /\ <<>> \in [{} -> S]
  BY EmptySeq
<1>3. ParserTypes
  BY <1>1, <1>2 DEF ParserTypes
<1> QED BY <1>1, <1>2, <1>3 DEF ParserInv

-----------------------------------------------------------------------------
(* What is kept of flows is what the packets say.                           *)

TablesInv == ParserInv /\ MonitorInv

LEMMA TablesStep == TablesInv /\ [Tables!Next]_(Tables!vars) => TablesInv'
<1>1. ASSUME ParserInv, UNCHANGED <<fed, flows, tracked>> PROVE ParserInv'
  <2>1. ParserTypes'
    BY <1>1 DEF ParserInv, ParserTypes
  <2> QED BY <1>1, <2>1 DEF ParserInv
<1>2. ASSUME MonitorInv, UNCHANGED Tables!vars PROVE MonitorInv'
  <2>1. UNCHANGED <<clock, fed, queue, active, emitted, batch, asOf, missed>>
    BY <1>2 DEF Tables!vars, Tables!monitor
  <2>2. MonitorTypes' /\ \A k : Counted(k)' = Counted(k)
    BY <1>2, <2>1 DEF MonitorInv, MonitorTypes, Counted
  <2> QED BY <1>2, <2>1, <2>2 DEF MonitorInv
<1>3. Tables!Poll \/ Tables!IngestPacket \/ Tables!FlushIdle \/ Tables!Tick \/ UNCHANGED Tables!vars
        => UNCHANGED <<fed, flows, tracked>>
  BY DEF Tables!Poll, Tables!IngestPacket, Tables!FlushIdle, Tables!Tick, Tables!vars, Tables!parser
<1> QED BY <1>1, <1>2, <1>3, CaptureKeeps, CaptureCounts, PollCounts, IngestCounts, FlushCounts, TickCounts
    DEF TablesInv, Tables!Next

LEMMA TablesHold == Tables!Spec => []TablesInv
BY CountsBegin, ParserBegins, TablesStep, PTL DEF Tables!Spec, TablesInv

LEMMA SameTalk ==
  \A k : Tables!Talk(k) = TalkIn(fed, k) /\ Tables!Forth(k) = ForthIn(fed, k) /\ Tables!Back(k) = BackIn(fed, k)
<1>1. \A k : Tables!Talk(k) = TalkIn(fed, k)
  BY DEF Tables!Talk, TalkIn, Of
<1> QED BY <1>1 DEF Tables!Forth, Tables!Back, ForthIn, BackIn

LEMMA LaneMeans ==
  ASSUME NEW lane, NEW at \in SUBSET Nat, at \subseteq DOMAIN fed, LaneOf(fed, lane, at)
  PROVE  Tables!LaneIs(lane, at)
<1>1. Tables!BytesAt(at) = Blocks(Sizes(fed), at)
  BY DEF Tables!BytesAt, Blocks, Sizes
<1>2. {j \in at : \E i \in at : Tables!Follows(i, j, at) /\ fed[i].ts <= fed[j].ts} = GapsIn(fed, at)
  BY DEF GapsIn
<1>3. Tables!InOrder(at) <=> Ordered(fed, at)
  BY DEF Tables!InOrder, Ordered
<1>4. lane.n = Tables!Cardinality(at) /\ lane.bytes = Tables!Cardinality(Tables!BytesAt(at))
  BY <1>1, TablesCount DEF LaneOf
<1>5. lane.gaps = Tables!Cardinality({j \in at : \E i \in at : Tables!Follows(i, j, at) /\ fed[i].ts <= fed[j].ts})
  BY <1>2, TablesCount DEF LaneOf
<1>6. \A i \in at : Tables!LastAt(i, at) => lane.last = fed[i].ts
  <2> SUFFICES ASSUME NEW i \in at, Tables!LastAt(i, at) PROVE lane.last = fed[i].ts
    OBVIOUS
  <2>1. PICK l \in at : Tables!LastAt(l, at) /\ lane.last = fed[l].ts
    BY DEF LaneOf
  <2> QED BY <2>1, LastIsOne
<1>7. \A i \in at : fed[i].packet.len <= lane.max
  BY DEF LaneOf
<1>8. Tables!InOrder(at) => \A i, j \in at : Tables!FirstAt(i, at) /\ Tables!LastAt(j, at) => lane.span = fed[j].ts - fed[i].ts
  BY <1>3 DEF LaneOf
<1> QED BY <1>4, <1>5, <1>6, <1>7, <1>8 DEF Tables!LaneIs

LEMMA FlowsMean == ASSUME ParserInv PROVE Tables!FlowsAreExact
<1>1. ASSUME NEW i \in DOMAIN fed
      PROVE  Tables!Cardinality({Tables!Key(fed[i].packet), Tables!Rev(fed[i].packet)} \cap DOMAIN flows) = 1
  <2> DEFINE p == fed[i].packet
             both == {Tables!Key(p), Tables!Rev(p)} \cap DOMAIN flows
  <2>1. PICK k \in DOMAIN flows : Of(k, p)
    BY <1>1 DEF ParserInv
  <2>2. \A x \in both : x = k
    BY <2>1, TurnedFacts DEF ParserInv, Of
  <2>3. both = {k}
    BY <2>1, <2>2 DEF Of
  <2> QED BY <2>3, TablesCount, FS_Singleton
<1>2. ASSUME NEW k \in DOMAIN flows
      PROVE  /\ Tables!LaneIs(flows[k].fwd, Tables!Forth(k))  /\ Tables!LaneIs(flows[k].bwd, Tables!Back(k))
             /\ Tables!Talk(k) # {}
             /\ \A i \in Tables!Talk(k) : /\ Tables!FirstAt(i, Tables!Talk(k)) => flows[k].start = fed[i].ts
                                          /\ Tables!LastAt(i, Tables!Talk(k)) => flows[k].end = fed[i].ts
  <2>1. FlowIs(fed, k, flows[k])
    BY <1>2 DEF ParserInv
  <2>2. DOMAIN fed \subseteq Nat
    <3>1. fed \in Seq(Tables!Captured)
      BY DEF ParserInv, ParserTypes
    <3> QED BY <3>1, LenProperties
  <2>3. TalkIn(fed, k) \subseteq DOMAIN fed /\ ForthIn(fed, k) \subseteq DOMAIN fed /\ BackIn(fed, k) \subseteq DOMAIN fed
    BY DEF TalkIn, ForthIn, BackIn
  <2>4. Tables!LaneIs(flows[k].fwd, ForthIn(fed, k))
    <3>1. LaneOf(fed, flows[k].fwd, ForthIn(fed, k)) /\ ForthIn(fed, k) \in SUBSET Nat
      BY <2>1, <2>2, <2>3 DEF FlowIs
    <3> QED BY <2>3, <3>1, LaneMeans
  <2>5. Tables!LaneIs(flows[k].bwd, BackIn(fed, k))
    <3>1. LaneOf(fed, flows[k].bwd, BackIn(fed, k)) /\ BackIn(fed, k) \in SUBSET Nat
      BY <2>1, <2>2, <2>3 DEF FlowIs
    <3> QED BY <2>3, <3>1, LaneMeans
  <2> DEFINE talk == TalkIn(fed, k)
  <2>6. PICK a \in talk : Tables!FirstAt(a, talk) /\ flows[k].start = fed[a].ts
    BY <2>1 DEF FlowIs
  <2>7. PICK b \in talk : Tables!LastAt(b, talk) /\ flows[k].end = fed[b].ts
    BY <2>1 DEF FlowIs
  <2>8. talk \subseteq Nat
    BY <2>2, <2>3
  <2> HIDE DEF talk
  <2>9. \A i \in talk : (Tables!FirstAt(i, talk) => i = a) /\ (Tables!LastAt(i, talk) => i = b)
    BY <2>6, <2>7, <2>8 DEF Tables!FirstAt, Tables!LastAt
  <2>10. \A i \in talk : /\ Tables!FirstAt(i, talk) => flows[k].start = fed[i].ts
                         /\ Tables!LastAt(i, talk) => flows[k].end = fed[i].ts
    BY <2>6, <2>7, <2>9
  <2> QED BY <2>4, <2>5, <2>6, <2>10, SameTalk DEF talk
<1> QED BY <1>1, <1>2 DEF Tables!FlowsAreExact

LEMMA CountsMean == ASSUME MonitorInv PROVE Tables!LiveCountsAll
<1> SUFFICES ASSUME missed = 0, NEW k \in Tables!FlowKeys
             PROVE  Tables!LiveOf(k) = Tables!Cardinality(Tables!RowsOf(fed, k))
  BY DEF Tables!LiveCountsAll
<1>1. Counted(k) = Cardinality(Tables!RowsOf(fed, k))
  BY DEF MonitorInv
<1>2. Tables!Cardinality(Tables!EmittedOf(k)) = Cardinality(HandedOf(emitted, k))
  BY HandedIsEmitted, TablesCount
<1>3. Tables!LiveOf(k) = Counted(k)
  BY <1>2, TablesCount DEF Tables!LiveOf, Counted, Pending
<1> QED BY <1>1, <1>3, TablesCount

LEMMA TypesMean == ASSUME TablesInv PROVE Tables!TypeOK
BY DEF TablesInv, ParserInv, ParserTypes, MonitorInv, MonitorTypes, Tables!TypeOK

(* Whatever the packets, their order, and however the monitor's polls fall  *)
(* among them: the parser (pcap_parser.py) keeps each conversation in one   *)
(* flow, with the counts, ends and gaps that its packets have; and until a  *)
(* row is lost the live monitor (scapy_flow_monitor.py) counts the packets  *)
(* that the parser counts.                                                  *)
THEOREM FlowsAreKeptExactly == MCSpec => []FlowsAreExact
<1>1. TablesInv => FlowsAreExact
  BY TypesMean, FlowsMean, CountsMean DEF TablesInv, FlowsAreExact
<1> QED BY <1>1, PartsMove, TablesHold, PTL
=============================================================================
