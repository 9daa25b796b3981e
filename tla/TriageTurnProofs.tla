-------------------------- MODULE TriageTurnProofs --------------------------
(***************************************************************************)
(* Proofs about TriageTurn, for every stack of models, whatever they       *)
(* answer, and for every size of a batch: HitsAreRaised and OnceEach.      *)
(*                                                                         *)
(* OnceEach needs to be known that a batch holds the packets up to the     *)
(* cursor in a row, that none of them was processed or lost, and that      *)
(* nothing past the cursor was touched.  HitsAreRaised needs in addition    *)
(* who wrote a row: one that was not there from the start was reported by  *)
(* a packet that was processed, and such packets lie behind the batch.     *)
(***************************************************************************)
EXTENDS TriageTurn, SequenceTheorems, TLAPS

\* The types the proofs need.
Types ==
  /\ feed \in Nat  /\ last \in Nat  /\ last <= feed  /\ feed <= MaxPackets
  /\ batch \in Seq(Nat)
  /\ DOMAIN alert = Packets  /\ DOMAIN hit = Packets
  /\ times \in [Packets -> Nat]  /\ lost \subseteq Packets

InARow == \A i \in 1 .. Len(batch) : batch[i] = last - Len(batch) + i
Fits   == Len(batch) <= last
Fresh  == \A i \in 1 .. Len(batch) : times[batch[i]] = 0 /\ batch[i] \notin lost
Ahead  == \A p \in Packets : p > last => times[p] = 0 /\ p \notin lost
Emptied == at \in {"poll", "rest"} <=> batch = <<>>
Once   == \A p \in Packets : times[p] <= 1 /\ (p \in lost => times[p] = 0)
InBatch(p) == \E i \in 1 .. Len(batch) : batch[i] = p
Skipped == \A p \in 1 .. last : times[p] = 0 /\ p \notin lost /\ ~InBatch(p) => p + BatchSize <= last

IInv == Types /\ InARow /\ Fits /\ Fresh /\ Ahead /\ Emptied /\ Once /\ Skipped

\* What a batch is, and what is known of the packets in it.
LEMMA BatchFacts ==
  ASSUME Sane, IInv
  PROVE  /\ Len(batch) \in Nat  /\ batch = <<>> <=> Len(batch) = 0
         /\ DOMAIN batch = 1 .. Len(batch)  /\ batch \in [1 .. Len(batch) -> Nat]
         /\ \A i \in 1 .. Len(batch) : batch[i] = last - Len(batch) + i /\ batch[i] \in 1 .. last
         /\ \A i \in 1 .. Len(batch) : batch[i] \in Packets /\ times[batch[i]] = 0 /\ batch[i] \notin lost
<1>1. batch \in Seq(Nat)
  BY DEF IInv, Types
<1>2. /\ Len(batch) \in Nat  /\ batch = <<>> <=> Len(batch) = 0
      /\ DOMAIN batch = 1 .. Len(batch)  /\ batch \in [1 .. Len(batch) -> Nat]
  BY <1>1, LenProperties, EmptySeq
<1>3. ASSUME NEW i \in 1 .. Len(batch) PROVE batch[i] = last - Len(batch) + i /\ batch[i] \in 1 .. last
  <2>1. batch[i] = last - Len(batch) + i
    BY <1>3 DEF IInv, InARow
  <2>2. Len(batch) <= last /\ last \in Nat
    BY DEF IInv, Fits, Types
  <2> QED BY <1>2, <1>3, <2>1, <2>2
<1>4. \A q \in 1 .. last : q \in Packets
  BY DEF IInv, Types, Packets, Sane
<1>5. \A i \in 1 .. Len(batch) : times[batch[i]] = 0 /\ batch[i] \notin lost
  BY DEF IInv, Fresh
<1> QED BY <1>2, <1>3, <1>4, <1>5

LEMMA InitInv == ASSUME Sane, Init PROVE IInv
<1>1. MaxPackets \in Nat /\ feed = 0 /\ last = 0 /\ at = "poll" /\ batch = <<>> /\ lost = {}
  BY DEF Sane, Init
<1>2. /\ alert = [p \in Packets |-> 0]
      /\ hit = [p \in Packets |-> 0]  /\ times = [p \in Packets |-> 0]
  BY DEF Init
<1>3. batch \in Seq(Nat) /\ Len(batch) = 0
  BY <1>1, EmptySeq
<1>4. DOMAIN alert = Packets /\ DOMAIN hit = Packets
  BY <1>2
<1>5. times \in [Packets -> Nat]
  BY <1>2
<1>6. feed \in Nat /\ last \in Nat /\ last <= feed /\ feed <= MaxPackets
  BY <1>1
<1>7. lost \subseteq Packets
  BY <1>1
<1>8. Types
  BY <1>3, <1>4, <1>5, <1>6, <1>7 DEF Types
<1>9. InARow /\ Fits /\ Fresh
  BY <1>1, <1>3 DEF InARow, Fits, Fresh
<1>12. \A p \in Packets : times[p] = 0 /\ p \notin lost
  BY <1>1, <1>2
<1>10. Ahead /\ Once
  BY <1>12 DEF Ahead, Once
<1>11. Emptied /\ Skipped
  BY <1>1 DEF Emptied, Skipped
<1> QED BY <1>8, <1>9, <1>10, <1>11 DEF IInv

LEMMA PollInv == ASSUME Sane, IInv, Poll PROVE IInv'
<1> USE DEF IInv, Poll, settings, written, history, Polled, Reached, Newest
<1>1. Polled \in Nat /\ 0 < Polled /\ Polled <= feed - last /\ Polled <= BatchSize /\ batch = <<>>
  BY DEF Sane, Types, Emptied
<1>2. batch' \in Seq(Nat) /\ Len(batch') = Polled /\ \A i \in 1 .. Polled : batch'[i] = feed - Polled + i
  <2>1. batch' = [i \in 1 .. Polled |-> feed - Polled + i] /\ feed \in Nat /\ last \in Nat
    BY DEF Types
  <2> HIDE DEF Polled
  <2>2. \A i \in 1 .. Polled : feed - Polled + i \in Nat
    BY <1>1, <2>1
  <2> QED BY <1>1, <2>1, <2>2
<1>3. Types' /\ InARow' /\ Fits' /\ Emptied'
  BY <1>1, <1>2 DEF Types, InARow, Fits, Emptied, Packets
<1>4. Fresh' /\ Ahead' /\ Once'
  BY <1>1, <1>2 DEF Types, Fresh, Ahead, Once, Packets, Sane
<1>5. Skipped'
  <2> SUFFICES ASSUME NEW p \in 1 .. feed, times[p] = 0, p \notin lost, ~InBatch(p)' PROVE p + BatchSize <= feed
    BY DEF Skipped
  <2>1. p <= feed - Polled
    <3>1. CASE p > feed - Polled
      <4>1. p - (feed - Polled) \in 1 .. Polled /\ batch'[p - (feed - Polled)] = p
        BY <1>1, <1>2, <3>1 DEF Types
      <4> QED BY <1>2, <4>1 DEF InBatch
    <3> QED BY <1>1, <3>1 DEF Types
  <2>2. CASE feed - last < BatchSize
    <3>1. p \in 1 .. last
      BY <2>1, <2>2 DEF Types
    <3>2. ~InBatch(p)
      BY <1>1 DEF InBatch
    <3> QED BY <3>1, <3>2 DEF Skipped, Types, Sane
  <2>3. CASE ~(feed - last < BatchSize)
    BY <2>1, <2>3 DEF Types, Sane
  <2> QED BY <2>2, <2>3
<1> QED BY <1>3, <1>4, <1>5

LEMMA EndTurnInv ==
  ASSUME Sane, IInv, EndTurn, UNCHANGED <<feed, last, times, hit>>, DOMAIN alert' = DOMAIN alert
  PROVE  IInv'
<1>0. Len(batch) \in Nat /\ DOMAIN batch = 1 .. Len(batch)
  BY BatchFacts
<1>2. \A p : InBatch(p) => p \in Packets /\ p <= last /\ times[p] = 0
  BY BatchFacts DEF InBatch, IInv, Types
<1> USE DEF IInv, EndTurn
<1>1. \A p : p \in lost' <=> p \in lost \/ InBatch(p)
  BY <1>0 DEF InBatch, Range
<1>3. Types' /\ InARow' /\ Fits' /\ Fresh' /\ Emptied'
  BY <1>1, <1>2 DEF Types, InARow, Fits, Fresh, Emptied
<1>4. Ahead' /\ Once'
  BY <1>1, <1>2 DEF Ahead, Once, Types, Packets
<1>5. Skipped'
  BY <1>1 DEF Skipped, InBatch, Types
<1> QED BY <1>3, <1>4, <1>5

LEMMA ProcessInv ==
  ASSUME Sane, IInv, batch # <<>>, at \in {"whole", "single"},
         NEW seats, NEW found, NEW names, Process(seats, found, names)
  PROVE IInv'
<1> DEFINE p == Head(batch)
<1>1. /\ p \in Packets /\ p = last - Len(batch) + 1 /\ p = batch[1] /\ times[p] = 0 /\ p \notin lost
      /\ Len(batch) >= 1
  <2>1. Len(batch) >= 1 /\ Head(batch) = batch[1]
    BY BatchFacts DEF IInv, Types
  <2>2. 1 \in 1 .. Len(batch) /\ Len(batch) \in Nat /\ last \in Nat
    BY <2>1, BatchFacts DEF IInv, Types
  <2>3. batch[1] = last - Len(batch) + 1 /\ batch[1] \in Packets /\ times[batch[1]] = 0 /\ batch[1] \notin lost
    BY <2>2, BatchFacts
  <2> QED BY <2>1, <2>3
<1>2. /\ times' = [times EXCEPT ![p] = @ + 1]  /\ batch' = Tail(batch)
      /\ alert' = alert  /\ hit' = [hit EXCEPT ![p] = found]
      /\ at' = (IF Tail(batch) = <<>> THEN "rest" ELSE at)
      /\ feed' = feed /\ last' = last /\ lost' = lost
  BY DEF Process, settings
<1>3. batch' \in Seq(Nat) /\ Len(batch') = Len(batch) - 1 /\ \A i \in 1 .. Len(batch') : batch'[i] = batch[i + 1]
  <2>1. batch \in Seq(Nat) /\ batch # <<>>
    BY DEF IInv, Types
  <2> QED BY <1>2, <2>1, HeadTailProperties
<1>4. \A q \in Packets : times'[q] = IF q = p THEN 1 ELSE times[q]
  BY <1>1, <1>2 DEF IInv, Types
<1>5. DOMAIN alert' = Packets /\ DOMAIN hit' = Packets /\ times' \in [Packets -> Nat]
  BY <1>1, <1>2 DEF IInv, Types
<1>6. Types'
  BY <1>2, <1>3, <1>5 DEF IInv, Types
<1>7. InARow' /\ Fits' /\ Emptied'
  BY <1>1, <1>2, <1>3 DEF IInv, InARow, Fits, Emptied, Types
<1>8. Fresh'
  <2> SUFFICES ASSUME NEW i \in 1 .. Len(batch') PROVE times'[batch'[i]] = 0 /\ batch'[i] \notin lost'
    BY DEF Fresh
  <2>1. i + 1 \in 1 .. Len(batch) /\ batch'[i] = last - Len(batch) + i + 1
    <3>1. Len(batch) \in Nat /\ last \in Nat /\ i \in 1 .. Len(batch) - 1
      BY <1>3, BatchFacts DEF IInv, Types
    <3>2. i + 1 \in 1 .. Len(batch) /\ batch'[i] = batch[i + 1]
      BY <1>3, <3>1
    <3>3. batch[i + 1] = last - Len(batch) + (i + 1)
      BY <3>2, BatchFacts
    <3> HIDE DEF p
    <3> QED BY <3>1, <3>2, <3>3
  <2>2. batch'[i] # p /\ batch'[i] \in Packets /\ times[batch'[i]] = 0 /\ batch'[i] \notin lost
    <3>1. batch'[i] = batch[i + 1] /\ Len(batch) \in Nat /\ last \in Nat
      BY <1>3, BatchFacts DEF IInv, Types
    <3>2. batch[i + 1] \in Packets /\ times[batch[i + 1]] = 0 /\ batch[i + 1] \notin lost
      BY <2>1, BatchFacts
    <3>3. batch'[i] # last - Len(batch) + 1
      BY <2>1, <3>1
    <3> QED BY <1>1, <3>1, <3>2, <3>3
  <2> QED BY <1>2, <1>4, <2>2
<1>9. Ahead' /\ Once'
  BY <1>1, <1>2, <1>4 DEF IInv, Ahead, Once, Types
<1>10. Skipped'
  <2> SUFFICES ASSUME NEW q \in 1 .. last, times'[q] = 0, q \notin lost, ~InBatch(q)' PROVE q + BatchSize <= last
    BY <1>2 DEF Skipped
  <2>1. q \in Packets /\ q # p /\ times[q] = 0
    <3>1. q \in Packets
      BY DEF IInv, Types, Packets, Sane
    <3> HIDE DEF p
    <3>2. q # p
      BY <1>1, <1>4, <3>1
    <3> QED BY <1>4, <3>1, <3>2
  <2>2. ~InBatch(q)
    <3> SUFFICES ASSUME NEW i \in 1 .. Len(batch), batch[i] = q PROVE FALSE
      BY DEF InBatch
    <3>1. i - 1 \in 1 .. Len(batch') /\ batch'[i - 1] = q
      BY <1>1, <1>3, <2>1 DEF IInv, Types
    <3> QED BY <3>1 DEF InBatch
  <2> QED BY <2>1, <2>2 DEF IInv, Skipped
<1> QED BY <1>6, <1>7, <1>8, <1>9, <1>10 DEF IInv

LEMMA DroppedInv == ASSUME Sane, IInv, Dropped PROVE IInv'
BY EndTurnInv DEF Dropped, written

LEMMA QuietInv ==
  ASSUME Sane, IInv, UNCHANGED <<feed, last, batch, times, lost, hit>>, DOMAIN alert' = DOMAIN alert,
         at' \in {"poll", "rest"} <=> at \in {"poll", "rest"}
  PROVE  IInv'
BY DEF IInv, Types, InARow, Fits, Fresh, Ahead, Emptied, Once, Skipped, InBatch

LEMMA NextInv == ASSUME Sane, IInv, [Next]_vars PROVE IInv'
<1>1. CASE Arrive
  BY <1>1 DEF Arrive, IInv, Types, InARow, Fits, Fresh, Ahead, Emptied, Once, Skipped, InBatch, settings, written, history, Sane
<1>2. CASE Poll
  BY <1>2, PollInv
<1>3. CASE Ask
  <2>1. CASE Dropped
    BY <2>1, DroppedInv
  <2>2. CASE at' \in {"whole", "single"} /\ UNCHANGED <<settings, feed, last, batch, conn, written, owed, history>>
    BY <1>3, <2>2, QuietInv DEF Ask, settings, written, history
  <2> QED BY <1>3, <2>1, <2>2 DEF Ask
<1>4. CASE Whole
  <2>1. batch # <<>> /\ at \in {"whole", "single"}
    BY <1>4 DEF Whole, IInv, Emptied
  <2>2. CASE Dropped
    BY <2>2, DroppedInv
  <2>3. CASE \E a \in Answers, found \in {0} \cup Hits :
               Process(<<a, None, None>>, found, IF Suspicious(a) THEN {"batch"} ELSE {})
    BY <2>1, <2>3, ProcessInv
  <2> QED BY <1>4, <2>2, <2>3 DEF Whole
<1>5. CASE Single
  <2>1. batch # <<>> /\ at \in {"whole", "single"}
    BY <1>5 DEF Single, IInv, Emptied
  <2>2. CASE Dropped
    BY <2>2, DroppedInv
  <2>3. CASE \E found \in {0} \cup Hits : \E outputs \in Outputs(found) :
               Process(Seats(outputs), found, Accusers(outputs))
    BY <2>1, <2>3, ProcessInv
  <2> QED BY <1>5, <2>2, <2>3 DEF Single
<1>6. CASE Rest
  BY <1>6, QuietInv DEF Rest, settings, written, history
<1>7. CASE Emit
  BY <1>7, QuietInv DEF Emit, Written, settings, history
<1>8. CASE EmitFails
  <2>1. DOMAIN alert' = DOMAIN alert
    BY <1>8 DEF EmitFails, Written
  <2> QED BY <1>8, <2>1, EndTurnInv DEF EmitFails
<1>9. CASE UNCHANGED vars
  BY <1>9, QuietInv DEF vars, settings, written, history
<1> QED BY <1>1, <1>2, <1>3, <1>4, <1>5, <1>6, <1>7, <1>8, <1>9 DEF Next

LEMMA InvIsOnceEach == ASSUME Sane, IInv PROVE OnceEach
<1>1. \A p : p \in Range(batch) <=> InBatch(p)
  BY DEF IInv, Types, Range, InBatch
<1>2. ASSUME NEW p \in Packets PROVE times[p] + (IF p \in lost \cup Range(batch) THEN 1 ELSE 0) <= 1
  BY <1>1 DEF IInv, Once, Fresh, InBatch, Types
<1>3. ASSUME NEW p \in 1 .. last, times[p] = 0, p \notin lost \cup Range(batch), NEW q \in p + 1 .. p + BatchSize
      PROVE q <= last
  BY <1>1, <1>3 DEF IInv, Skipped, Types, Sane
<1> QED BY <1>2, <1>3 DEF OnceEach

-----------------------------------------------------------------------------
(* What the heuristics found.                                               *)

\* A packet that arrived has its connection, one that was not processed no hit; those that were
\* lie behind the batch, and their connections have a row.
Placed   == \A p \in Packets : p <= feed => conn[p] \in Connections
NoHitYet == \A p \in Packets : times[p] = 0 => hit[p] = 0
Behind   == \A p \in Packets : times[p] # 0 => p <= last - Len(batch)
HaveRows == \A p \in Packets : times[p] # 0 => row[conn[p]] # ""
\* A row was there before, or a packet that was processed reported it.
Reported == \A c \in Connections : row[c] # "" =>
              c \in kept \/ \E p \in Packets : times[p] # 0 /\ conn[p] = c
Founds   == \A p \in Packets : hit[p] = 0 \/ hit[p] > 0
\* The alert to be written is of a packet that was processed.
Owing    == owed = NoAlert \/ (owed.packet \in Packets /\ times[owed.packet] # 0 /\ owed.conf > 0)
Forms    == row = [c \in Connections |-> row[c]] /\ DOMAIN conn = Packets

RInv == Forms /\ Founds /\ Placed /\ NoHitYet /\ Behind /\ HaveRows /\ Reported /\ Owing /\ HitsAreRaised

LEMMA PacketsCount == ASSUME Sane PROVE \A p \in Packets : p \in Nat /\ p > 0
BY DEF Sane, Packets

LEMMA InitRaises == ASSUME Sane, Init PROVE RInv
<1>1. /\ feed = 0  /\ times = [p \in Packets |-> 0]  /\ hit = [p \in Packets |-> 0]  /\ owed = NoAlert
      /\ DOMAIN row = Connections  /\ conn = [p \in Packets |-> NoConnection]
      /\ kept = {c \in Connections : row[c] # ""}
  BY DEF Init
<1>2. \A p \in Packets : p \in Nat /\ p > 0 /\ times[p] = 0 /\ hit[p] = 0
  BY <1>1, PacketsCount
<1>5. row = [c \in Connections |-> row[c]]
  BY DEF Init
<1>6. Placed
  <2> SUFFICES ASSUME NEW p \in Packets, p <= feed PROVE FALSE
    BY DEF Placed
  <2>1. p \in Nat /\ p > 0
    BY PacketsCount
  <2>2. p <= 0
    BY <1>1
  <2> QED BY ONLY <2>1, <2>2
<1>7. DOMAIN conn = Packets
  BY <1>1
<1>3. Forms /\ Founds /\ Placed /\ NoHitYet /\ Behind /\ HaveRows /\ Reported /\ Owing
  BY <1>1, <1>2, <1>5, <1>6, <1>7 DEF Forms, Founds, NoHitYet, Behind, HaveRows, Reported, Owing
<1>4. HitsAreRaised
  BY <1>2 DEF HitsAreRaised
<1> QED BY <1>3, <1>4 DEF RInv

\* A cleared row of a connection of which a packet with a hit was reported goes back to before it.
LEMMA ProcessRaises ==
  ASSUME Sane, IInv, RInv, batch # <<>>,
         NEW seats, NEW found \in {0} \cup Hits, NEW names, Process(seats, found, names)
  PROVE  RInv'
<1> PICK p : p = Head(batch)
  OBVIOUS
<1> DEFINE disp == Disposition(seats[1], found)
           conf == Alerted(Present(seats), found)
<1>1. /\ p \in Packets /\ p = last - Len(batch) + 1 /\ times[p] = 0
      /\ Len(batch) >= 1 /\ Len(batch) \in Nat /\ last \in Nat /\ p <= feed /\ p \in Nat
  <2>1. Len(batch) >= 1 /\ Head(batch) = batch[1]
    BY BatchFacts DEF IInv, Types
  <2>2. 1 \in 1 .. Len(batch) /\ Len(batch) \in Nat /\ last \in Nat /\ feed \in Nat /\ last <= feed
    BY <2>1, BatchFacts DEF IInv, Types
  <2>3. batch[1] = last - Len(batch) + 1 /\ batch[1] \in Packets /\ times[batch[1]] = 0 /\ batch[1] \in 1 .. last
    BY <2>2, BatchFacts
  <2> QED BY <2>1, <2>2, <2>3
<1>2. /\ row' = Upserted(row, conn[p], disp)
      /\ marked' = (IF found > 0 THEN marked \cup {conn[p]} ELSE marked)
      /\ owed' = (IF conf > 0 THEN [packet |-> p, conf |-> conf] ELSE NoAlert)  /\ owed = NoAlert
      /\ times' = [times EXCEPT ![p] = @ + 1]  /\ hit' = [hit EXCEPT ![p] = found]
      /\ batch' = Tail(batch)
      /\ UNCHANGED <<feed, last, conn, alert, cut, kept>>
  BY DEF Process
<1>3. Len(batch') = Len(batch) - 1
  <2>1. batch \in Seq(Nat) /\ batch # <<>>
    BY DEF IInv, Types
  <2> QED BY <1>2, <2>1, HeadTailProperties
<1>4. \A q \in Packets : /\ q \in Nat  /\ times[q] \in Nat
                         /\ times'[q] = (IF q = p THEN 1 ELSE times[q])
                         /\ hit'[q] = (IF q = p THEN found ELSE hit[q])
  <2>1. \A q \in Packets : q \in Nat
    BY PacketsCount
  <2>2. times \in [Packets -> Nat] /\ DOMAIN hit = Packets
    BY DEF IInv, Types
  <2> HIDE DEF disp, conf
  <2>3. \A q \in Packets : times'[q] = (IF q = p THEN times[p] + 1 ELSE times[q])
    BY <1>2, <2>2
  <2>4. \A q \in Packets : hit'[q] = (IF q = p THEN found ELSE hit[q])
    BY <1>2, <2>2
  <2>5. times[p] + 1 = 1
    BY <1>1
  <2> QED BY <2>1, <2>2, <2>3, <2>4, <2>5
<1>5. conn[p] \in Connections
  BY <1>1 DEF RInv, Placed
<1>6. /\ \A c \in Connections : row'[c] = (IF c = conn[p] /\ row[c] = "" THEN disp ELSE row[c])
      /\ DOMAIN row' = Connections
  BY <1>2, <1>5 DEF Upserted, RInv, Forms
<1>7. disp # "" /\ (found > 0 => disp \notin Cleared)
  <2>1. CASE seats[1] = None
    BY <2>1 DEF Disposition, Cleared
  <2>2. CASE seats[1] # None /\ (seats[1].status \notin Statuses \/ (found > 0 /\ seats[1].status \in Cleared))
    <3>1. disp = "open"
      BY <2>2 DEF Disposition
    <3> QED BY <3>1 DEF Cleared
  <2>3. CASE seats[1] # None /\ ~(seats[1].status \notin Statuses \/ (found > 0 /\ seats[1].status \in Cleared))
    <3>1. disp = seats[1].status
      BY <2>3 DEF Disposition
    <3> QED BY <2>3, <3>1 DEF Statuses
  <2> QED BY <2>1, <2>2, <2>3
<1>8. found > 0 => conf > 0
  <2> SUFFICES ASSUME found > 0 PROVE conf > 0
    OBVIOUS
  <2>1. found \in Nat /\ found >= Strong /\ found > 0
    BY DEF Sane
  <2> QED BY <2>1 DEF Alerted
<1> HIDE DEF disp, conf
<1>9. Forms' /\ Founds' /\ Placed' /\ NoHitYet'
  <2>1. found = 0 \/ found > 0
    BY DEF Sane
  <2>2. Founds' /\ NoHitYet'
    BY <1>4, <2>1 DEF RInv, Founds, NoHitYet
  <2>3. Placed'
    BY <1>2 DEF RInv, Placed
  <2>4. DOMAIN conn' = Packets
    BY <1>2 DEF RInv, Forms
  <2>5. row' = [c \in Connections |-> row'[c]]
    BY <1>2 DEF Upserted, RInv, Forms
  <2> QED BY <2>2, <2>3, <2>4, <2>5 DEF Forms
<1>10. Behind'
  BY <1>1, <1>2, <1>3, <1>4 DEF RInv, Behind
<1>11. \A q \in Packets : times[q] # 0 => conn[q] \in Connections /\ q < p /\ row[conn[q]] # ""
  <2> SUFFICES ASSUME NEW q \in Packets, times[q] # 0 PROVE conn[q] \in Connections /\ q < p /\ row[conn[q]] # ""
    OBVIOUS
  <2>1. q <= last - Len(batch)
    BY DEF RInv, Behind
  <2>2. q < p /\ q <= feed
    BY <1>1, <1>4, <2>1 DEF IInv, Types
  <2> QED BY <2>2 DEF RInv, Placed, HaveRows
<1>12. HaveRows'
  <2> SUFFICES ASSUME NEW q \in Packets, times'[q] # 0 PROVE row'[conn[q]] # ""
    BY <1>2 DEF HaveRows
  <2>1. CASE q = p
    BY <1>5, <1>6, <1>7, <2>1
  <2>2. CASE q # p
    <3>1. times[q] # 0
      BY <1>4, <2>2
    <3> QED BY <1>6, <1>7, <1>11, <3>1
  <2> QED BY <2>1, <2>2
<1>13. Reported'
  <2> SUFFICES ASSUME NEW c \in Connections, row'[c] # "" PROVE c \in kept \/ \E q \in Packets : times'[q] # 0 /\ conn[q] = c
    BY <1>2 DEF Reported
  <2>1. CASE c = conn[p]
    <3>1. p \in Packets /\ times'[p] = 1
      BY <1>1, <1>4
    <3>2. times'[p] # 0 /\ conn[p] = c
      BY ONLY <2>1, <3>1
    <3>3. \E q \in Packets : times'[q] # 0 /\ conn[q] = c
      BY ONLY <3>1, <3>2
    <3> QED BY <3>3
  <2>2. CASE c # conn[p]
    <3>1. row[c] # ""
      BY <1>6, <2>2
    <3>2. c \in kept \/ \E q \in Packets : times[q] # 0 /\ conn[q] = c
      BY <3>1 DEF RInv, Reported
    <3>3. ASSUME NEW q \in Packets, times[q] # 0 PROVE times'[q] # 0
      <4>1. CASE q = p
        BY <1>1, <3>3, <4>1
      <4>2. CASE q # p
        <5>1. times'[q] = times[q]
          BY <1>4, <4>2
        <5> QED BY <3>3, <5>1
      <4> QED BY <4>1, <4>2
    <3> QED BY <3>2, <3>3
  <2> QED BY <2>1, <2>2
<1>14. Owing'
  <2>1. times'[p] # 0
    BY <1>1, <1>4
  <2>2. CASE conf > 0
    BY <1>1, <1>2, <2>1, <2>2 DEF Owing
  <2> QED BY <1>2, <2>2 DEF Owing
<1>15. ASSUME NEW q \in Packets, times[q] # 0, ClearedBefore(q) PROVE ClearedBefore(q)'
  <2>1. CASE conn[q] \in kept
    BY <1>2, <2>1 DEF ClearedBefore
  <2>2. CASE \E r \in 1 .. q - 1 : conn[r] = conn[q] /\ times[r] # 0 /\ hit[r] = 0
    <3>1. PICK r \in 1 .. q - 1 : conn[r] = conn[q] /\ times[r] # 0 /\ hit[r] = 0
      BY <2>2
    <3>2. r \in Packets
      BY <3>1, <1>15 DEF Packets, Sane
    <3>3. r # p
      <4>1. r < p /\ r \in Nat
        BY <1>4, <1>11, <3>1, <3>2
      <4> QED BY <1>1, <4>1
    <3>4. times'[r] # 0 /\ hit'[r] = 0 /\ conn'[r] = conn'[q]
      BY <1>2, <1>4, <3>1, <3>2, <3>3
    <3> QED BY <3>1, <3>4 DEF ClearedBefore
  <2> QED BY <1>15, <2>1, <2>2 DEF ClearedBefore
<1>16. SUFFICES ASSUME NEW q \in Packets, hit'[q] > 0
                PROVE  /\ alert[q] > 0 \/ q = owed'.packet \/ q \in cut
                       /\ conn[q] \in marked'
                       /\ row'[conn[q]] \in Cleared => ClearedBefore(q)'
  BY <1>2, <1>9, <1>10, <1>12, <1>13, <1>14 DEF RInv, HitsAreRaised
<1>17. CASE q = p
  <2>1. found > 0 /\ conf > 0
    BY <1>4, <1>8, <1>16, <1>17
  <2>2. q = owed'.packet /\ conn[q] \in marked'
    BY <1>2, <1>17, <2>1
  <2>3. ASSUME row'[conn[p]] \in Cleared PROVE ClearedBefore(p)'
    <3>1. row[conn[p]] # "" /\ row'[conn[p]] = row[conn[p]]
      BY <1>5, <1>6, <1>7, <2>1, <2>3
    <3>2. CASE conn[p] \in kept
      <4>1. conn'[p] \in kept'
        BY <1>2, <3>2
      <4> QED BY <4>1 DEF ClearedBefore
    <3>3. CASE \E r \in Packets : times[r] # 0 /\ conn[r] = conn[p]
      <4>1. PICK r \in Packets : times[r] # 0 /\ conn[r] = conn[p]
        BY <3>3
      <4>2. r < p /\ r # p /\ r \in Nat /\ r > 0
        <5>1. r < p
          BY <1>11, <4>1
        <5>2. r \in Nat /\ r > 0
          BY PacketsCount
        <5> QED BY <1>1, <5>1, <5>2
      <4>3. CASE hit[r] = 0
        <5>1. r \in 1 .. p - 1 /\ conn'[r] = conn'[p] /\ times'[r] # 0 /\ hit'[r] = 0
          <6>1. r \in 1 .. p - 1
            BY <1>1, <4>2
          <6>2. times'[r] = times[r] /\ hit'[r] = hit[r] /\ conn' = conn
            BY <1>2, <1>4, <4>1, <4>2
          <6> QED BY <4>1, <4>3, <6>1, <6>2
        <5> QED BY <5>1 DEF ClearedBefore
      <4>4. CASE hit[r] > 0
        <5>1. ClearedBefore(r)'
          BY <1>15, <2>3, <3>1, <4>1, <4>4 DEF RInv, HitsAreRaised
        <5>2. conn'[r] = conn'[p] /\ r - 1 <= p - 1
          BY <1>1, <1>2, <4>1, <4>2
        <5>3. CASE conn'[r] \in kept'
          <6>1. conn'[p] \in kept'
            BY <5>2, <5>3
          <6> QED BY <6>1 DEF ClearedBefore
        <5>4. CASE \E t \in 1 .. r - 1 : conn'[t] = conn'[r] /\ times'[t] # 0 /\ hit'[t] = 0
          <6>1. PICK t \in 1 .. r - 1 : conn'[t] = conn'[r] /\ times'[t] # 0 /\ hit'[t] = 0
            BY <5>4
          <6>2. t \in 1 .. p - 1
            BY <1>1, <4>2, <6>1
          <6>3. conn'[t] = conn'[p]
            BY <5>2, <6>1
          <6> QED BY <6>1, <6>2, <6>3 DEF ClearedBefore
        <5> QED BY <5>1, <5>3, <5>4 DEF ClearedBefore
      <4>5. hit[r] = 0 \/ hit[r] > 0
        BY <4>1 DEF RInv, Founds
      <4> QED BY <4>3, <4>4, <4>5
    <3>4. conn[p] \in kept \/ \E r \in Packets : times[r] # 0 /\ conn[r] = conn[p]
      BY <1>5, <3>1 DEF RInv, Reported
    <3> QED BY <3>2, <3>3, <3>4
  <2> QED BY <1>17, <2>2, <2>3
<1>18. CASE q # p
  <2>1. hit[q] > 0
    BY <1>4, <1>16, <1>18
  <2>2. /\ alert[q] > 0 \/ q = owed.packet \/ q \in cut
        /\ conn[q] \in marked
        /\ row[conn[q]] \in Cleared => ClearedBefore(q)
    BY <2>1 DEF RInv, HitsAreRaised
  <2>3. times[q] # 0
    BY <1>4, <2>1 DEF RInv, NoHitYet
  <2>4. row'[conn[q]] = row[conn[q]]
    BY <1>6, <1>11, <2>3
  <2>5. q # owed.packet
    BY <1>2 DEF NoAlert, Packets
  <2> QED BY <1>2, <1>15, <2>2, <2>3, <2>4, <2>5
<1> QED BY <1>17, <1>18

\* A step that writes no row, processes nothing and leaves the connections known alone.
LEMMA KeepsRaised ==
  ASSUME Sane, IInv, RInv, UNCHANGED <<row, marked, times, hit, kept>>,
         DOMAIN conn' = Packets, \A p \in Packets : p <= feed => conn'[p] = conn[p],
         Placed', Behind', Owing',
         \A p \in Packets : hit[p] > 0 => alert'[p] > 0 \/ p = owed'.packet \/ p \in cut'
  PROVE  RInv'
<1>1. \A p \in Packets : times[p] # 0 => p <= feed
  <2> SUFFICES ASSUME NEW p \in Packets, times[p] # 0 PROVE p <= feed
    OBVIOUS
  <2>1. p <= last - Len(batch) /\ last <= feed /\ last \in Nat /\ feed \in Nat /\ p \in Nat
    BY DEF RInv, Behind, IInv, Types, Packets
  <2>2. Len(batch) \in Nat
    BY BatchFacts
  <2> QED BY <2>1, <2>2
<1>2. \A p \in Packets : times[p] # 0 => conn'[p] = conn[p]
  BY <1>1
<1>3. Forms' /\ Founds' /\ NoHitYet'
  BY DEF RInv, Forms, Founds, NoHitYet
<1>4. HaveRows' /\ Reported'
  BY <1>2 DEF RInv, HaveRows, Reported
<1>5. ASSUME NEW p \in Packets, times[p] # 0, ClearedBefore(p) PROVE ClearedBefore(p)'
  <2>1. CASE conn[p] \in kept
    BY <1>2, <1>5, <2>1 DEF ClearedBefore
  <2>2. CASE \E q \in 1 .. p - 1 : conn[q] = conn[p] /\ times[q] # 0 /\ hit[q] = 0
    <3>1. PICK q \in 1 .. p - 1 : conn[q] = conn[p] /\ times[q] # 0 /\ hit[q] = 0
      BY <2>2
    <3>2. q \in Packets
      BY <3>1 DEF Packets, Sane
    <3> QED BY <1>2, <1>5, <3>1, <3>2 DEF ClearedBefore
  <2> QED BY <1>5, <2>1, <2>2 DEF ClearedBefore
<1>6. HitsAreRaised'
  <2> SUFFICES ASSUME NEW p \in Packets, hit[p] > 0
               PROVE  /\ alert'[p] > 0 \/ p = owed'.packet \/ p \in cut'
                      /\ conn'[p] \in marked
                      /\ row[conn'[p]] \in Cleared => ClearedBefore(p)'
    BY DEF HitsAreRaised
  <2>1. times[p] \in Nat /\ times[p] # 0
    BY DEF IInv, Types, RInv, NoHitYet
  <2>2. conn'[p] = conn[p] /\ times[p] # 0
    BY <1>2, <2>1
  <2>3. conn[p] \in marked /\ (row[conn[p]] \in Cleared => ClearedBefore(p))
    BY DEF RInv, HitsAreRaised
  <2> QED BY <1>5, <2>2, <2>3
<1> QED BY <1>3, <1>4, <1>6 DEF RInv

\* What was raised stays so in a step that changes neither alerts nor what is owed.
LEMMA StillRaised ==
  ASSUME RInv, UNCHANGED <<alert, owed, cut, times>>
  PROVE  /\ Owing'
         /\ \A p \in Packets : hit[p] > 0 => alert'[p] > 0 \/ p = owed'.packet \/ p \in cut'
BY DEF RInv, Owing, HitsAreRaised

LEMMA TurnEndsBehind ==
  ASSUME Sane, IInv, RInv, EndTurn, UNCHANGED <<last, times>> PROVE Behind'
<1>1. Len(batch') = 0 /\ Len(batch) \in Nat /\ last \in Nat
  BY BatchFacts, EmptySeq DEF EndTurn, IInv, Types
<1>2. \A p \in Packets : p \in Nat
  BY DEF Packets
<1> QED BY <1>1, <1>2 DEF RInv, Behind

LEMMA DroppedRaises == ASSUME Sane, IInv, RInv, Dropped PROVE RInv'
<1>1. Behind'
  BY TurnEndsBehind DEF Dropped
<1>2. UNCHANGED <<row, marked, alert, times, hit, kept, conn, feed, owed, cut>>
  BY DEF Dropped, written
<1>3. Placed' /\ DOMAIN conn' = Packets
  BY <1>2 DEF RInv, Placed, Forms
<1> QED BY <1>1, <1>2, <1>3, StillRaised, KeepsRaised

LEMMA PollRaises == ASSUME Sane, IInv, RInv, Poll PROVE RInv'
<1>1. Polled \in Nat /\ Polled <= feed - last /\ batch = <<>> /\ Len(batch) = 0 /\ last \in Nat /\ feed \in Nat
  BY DEF Poll, Polled, Sane, IInv, Types, Emptied
<1>2. Len(batch') = Polled /\ last' = feed
  <2>1. batch' = [i \in 1 .. Polled |-> feed - Polled + i]
    BY DEF Poll, Newest
  <2> HIDE DEF Polled
  <2> QED BY <1>1, <2>1 DEF Poll, Reached
<1> HIDE DEF Polled
<1>3. UNCHANGED <<row, marked, alert, times, hit, kept, conn, feed, owed, cut>>
  BY DEF Poll, written, history
<1>4. Behind'
  <2> SUFFICES ASSUME NEW p \in Packets, times[p] # 0 PROVE p <= feed - Polled
    BY <1>2, <1>3 DEF Behind
  <2>1. p <= last - Len(batch) /\ p \in Nat
    BY DEF RInv, Behind, Packets
  <2> QED BY <1>1, <2>1
<1>5. Placed' /\ DOMAIN conn' = Packets
  BY <1>3 DEF RInv, Placed, Forms
<1> QED BY <1>3, <1>4, <1>5, StillRaised, KeepsRaised

LEMMA ArriveRaises == ASSUME Sane, IInv, RInv, Arrive PROVE RInv'
<1>1. PICK c \in Connections : conn' = [conn EXCEPT ![feed + 1] = c]
  BY DEF Arrive
<1>2. UNCHANGED <<row, marked, alert, times, hit, kept, last, batch, owed, cut>> /\ feed' = feed + 1 /\ feed \in Nat
  BY DEF Arrive, written, history, IInv, Types
<1>3. DOMAIN conn' = Packets /\ \A p \in Packets : p \in Nat /\ conn'[p] = (IF p = feed + 1 THEN c ELSE conn[p])
  BY <1>1 DEF RInv, Forms, Packets
<1>4. Placed'
  BY <1>2, <1>3 DEF RInv, Placed
<1>5. Behind'
  BY <1>2 DEF RInv, Behind
<1>6. \A p \in Packets : p <= feed => conn'[p] = conn[p]
  BY <1>2, <1>3
<1> QED BY <1>2, <1>3, <1>4, <1>5, <1>6, StillRaised, KeepsRaised

\* The alert is of a packet whose connection has a row, so its report leaves what the row says.
LEMMA EmitRaises == ASSUME Sane, IInv, RInv, Emit \/ EmitFails PROVE RInv'
<1>1. owed.packet \in Packets /\ times[owed.packet] # 0 /\ owed.conf > 0 /\ owed' = NoAlert
  BY DEF Emit, EmitFails, RInv, Owing
<1>2. DOMAIN alert = Packets
  BY DEF IInv, Types
<1>3. \A p \in Packets : Written[p] = (IF p = owed.packet THEN owed.conf ELSE alert[p])
  BY <1>2 DEF Written
<1>4. row' = row
  <2>1. CASE EmitFails
    BY <2>1 DEF EmitFails
  <2>2. CASE Emit
    <3>1. row[conn[owed.packet]] # ""
      BY <1>1 DEF RInv, HaveRows
    <3>2. \A c \in DOMAIN row : row'[c] = row[c]
      BY <2>2, <3>1 DEF Emit, Upserted
    <3>3. row' = [c \in DOMAIN row |-> row'[c]] /\ row = [c \in DOMAIN row |-> row[c]]
      BY <2>2 DEF Emit, Upserted, RInv, Forms
    <3> QED BY <3>2, <3>3
  <2> QED BY <2>1, <2>2
<1>5. UNCHANGED <<row, marked, times, hit, kept, conn, feed, last>>
  BY <1>4 DEF Emit, EmitFails, history
<1>6. Behind'
  <2>1. CASE Emit
    BY <1>5, <2>1 DEF Emit, RInv, Behind
  <2>2. CASE EmitFails
    BY <1>5, <2>2, TurnEndsBehind DEF EmitFails
  <2> QED BY <2>1, <2>2
<1>7. Placed' /\ DOMAIN conn' = Packets /\ Owing'
  BY <1>1, <1>5 DEF RInv, Placed, Forms, Owing
<1>8. ASSUME NEW p \in Packets, hit[p] > 0 PROVE alert'[p] > 0 \/ p \in cut'
  <2>1. alert[p] > 0 \/ p = owed.packet \/ p \in cut
    BY <1>8 DEF RInv, HitsAreRaised
  <2>2. CASE alert' = Written /\ cut' = cut
    BY <1>1, <1>3, <2>1, <2>2
  <2>3. CASE alert' = alert /\ cut' = cut \cup {owed.packet}
    BY <2>1, <2>3
  <2> QED BY <2>2, <2>3 DEF Emit, EmitFails, history
<1>9. \A p \in Packets : hit[p] > 0 => alert'[p] > 0 \/ p = owed'.packet \/ p \in cut'
  BY <1>8
<1> QED BY <1>5, <1>6, <1>7, <1>9, KeepsRaised

LEMMA NextRaises == ASSUME Sane, IInv, RInv, [Next]_vars PROVE RInv'
<1>1. CASE Rest \/ UNCHANGED vars \/ (Ask /\ ~Dropped)
  <2>1. UNCHANGED <<row, marked, alert, times, hit, kept, conn, feed, last, batch, owed, cut>>
    BY <1>1 DEF Rest, Ask, vars, written, history
  <2>2. Placed' /\ Behind' /\ DOMAIN conn' = Packets
    BY <2>1 DEF RInv, Placed, Behind, Forms
  <2> QED BY <2>1, <2>2, StillRaised, KeepsRaised
<1>2. CASE Dropped
  BY <1>2, DroppedRaises
<1>3. CASE Whole /\ ~Dropped
  <2>1. batch # <<>>
    BY <1>3 DEF Whole, IInv, Emptied
  <2>2. PICK a \in Answers, found \in {0} \cup Hits :
          Process(<<a, None, None>>, found, IF Suspicious(a) THEN {"batch"} ELSE {})
    BY <1>3 DEF Whole
  <2> QED BY <2>1, <2>2, ProcessRaises
<1>4. CASE Single /\ ~Dropped
  <2>1. batch # <<>>
    BY <1>4 DEF Single, IInv, Emptied
  <2>2. PICK found \in {0} \cup Hits : \E outputs \in Outputs(found) :
          Process(Seats(outputs), found, Accusers(outputs))
    BY <1>4 DEF Single
  <2> QED BY <2>1, <2>2, ProcessRaises
<1> QED BY <1>1, <1>2, <1>3, <1>4, ArriveRaises, PollRaises, EmitRaises DEF Next

(* For every stack of models and every set of answers: what the heuristics  *)
(* found in a packet is alerted, unless an exception cut the emission off,  *)
(* and the row of its connection is cleared only by what was reported       *)
(* before it (_process_packet and upsert_incident).                         *)
THEOREM HitsRaised == Sane /\ Spec => []HitsAreRaised
<1>1. Sane /\ Init => IInv /\ RInv
  BY InitInv, InitRaises
<1>2. Sane /\ (IInv /\ RInv) /\ [Next]_vars => (IInv /\ RInv)'
  BY NextInv, NextRaises
<1>3. CASE Sane
  <2>1. Init => IInv /\ RInv
    BY <1>1, <1>3
  <2>2. (IInv /\ RInv) /\ [Next]_vars => (IInv /\ RInv)'
    BY <1>2, <1>3
  <2>3. RInv => HitsAreRaised
    BY DEF RInv
  <2> QED BY <2>1, <2>2, <2>3, PTL DEF Spec
<1> QED BY <1>3

-----------------------------------------------------------------------------
(* Whatever the models answer, refuse or raise, and however fast the feed   *)
(* is, a turn judges no packet twice (_analysis_loop), and passes over none *)
(* without a full batch of newer ones.                                      *)
THEOREM PacketsOnce == Sane /\ Spec => []OnceEach
<1>1. Sane /\ Init => IInv
  BY InitInv
<1>2. Sane /\ IInv /\ [Next]_vars => IInv'
  BY NextInv
<1>3. Sane /\ IInv => OnceEach
  BY InvIsOnceEach
<1>4. CASE Sane
  <2>1. Init => IInv
    BY <1>1, <1>4
  <2>2. IInv /\ [Next]_vars => IInv'
    BY <1>2, <1>4
  <2>3. IInv => OnceEach
    BY <1>3, <1>4
  <2> QED BY <2>1, <2>2, <2>3, PTL DEF Spec
<1> QED BY <1>4
=============================================================================
