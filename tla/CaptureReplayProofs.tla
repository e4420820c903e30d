------------------------- MODULE CaptureReplayProofs ------------------------
(***************************************************************************)
(* Proofs about CaptureReplay, for any venues, any number of records,      *)
(* processes and segments: replay gives back whole sessions, every record  *)
(* an fsync covered, in one order.                                         *)
(*                                                                         *)
(* The invariant has two halves.  LogInv says what the segments of a venue *)
(* are at any moment of any number of captures and crashes: records in the *)
(* order captured, no session with a hole, and only fully synced segments  *)
(* before the end of a session.  StreamInv says of a merge under way that  *)
(* what it took from a segment is a beginning of it, up to the synced part *)
(* at least, and that what it yielded comes before what it has yet to.     *)
(***************************************************************************)
EXTENDS CaptureReplay, SequenceTheorems, WellFoundedInduction, TLAPS

Record == [venue : Venues, session : Nat, index : Nat, mono : Nat]
File == [records : Seq(Record), synced : Nat \cup {NoHeader}, zst : {"none", "partial", "done"}]
Cursor == [next : Nat, rest : Seq(Record), ok : BOOLEAN]

\* The order in which a venue's records are captured.
Before(r, s) == r.session < s.session \/ (r.session = s.session /\ r.index < s.index)

Full(f) == f.synced = Len(f.records)

\* Place k of segment i comes before place l of segment j.
Earlier(i, k, j, l) == i < j \/ (i = j /\ k < l)

-----------------------------------------------------------------------------
(* The segments S of a venue. *)

Segments(v, S) ==
  /\ S \in Seq(File) /\ Len(S) > 0
  /\ \A i \in 1 .. Len(S) :
       /\ S[i].synced <= Len(S[i].records)
       /\ S[i].zst # "none" => Full(S[i])
       /\ \A k \in 1 .. Len(S[i].records) : S[i].records[k].venue = v

InOrder(S) ==
  \A i, j \in 1 .. Len(S) : \A k \in 1 .. Len(S[i].records), l \in 1 .. Len(S[j].records) :
    Earlier(i, k, j, l) => Before(S[i].records[k], S[j].records[l])

\* The record of that place in its session is there.
Has(S, session, index) ==
  \E i \in 1 .. Len(S) : \E k \in 1 .. Len(S[i].records) :
    S[i].records[k].session = session /\ S[i].records[k].index = index

NoHole(S) ==
  \A i \in 1 .. Len(S) : \A k \in 1 .. Len(S[i].records) :
    S[i].records[k].index > 0 =>
      Has(S, S[i].records[k].session, S[i].records[k].index - 1)

\* A session goes on in a later segment only if the one before is synced.
Spans(S) ==
  \A i, j \in 1 .. Len(S) : \A k \in 1 .. Len(S[i].records), l \in 1 .. Len(S[j].records) :
    i < j /\ S[i].records[k].session = S[j].records[l].session => Full(S[i])

Rising(S) ==
  \A i, j \in 1 .. Len(S) : \A k \in 1 .. Len(S[i].records), l \in 1 .. Len(S[j].records) :
    Earlier(i, k, j, l) => S[i].records[k].mono <= S[j].records[l].mono

UpTo(S, t) ==
  \A i \in 1 .. Len(S) : \A k \in 1 .. Len(S[i].records) : S[i].records[k].mono <= t

\* No session after n.
Sessions(S, n) ==
  \A i \in 1 .. Len(S) : \A k \in 1 .. Len(S[i].records) : S[i].records[k].session <= n

\* The session of a live connection is the last of S, and ends before l.next.
Attached(S, l) ==
  /\ S[Len(S)].zst = "none"
  /\ l # NoSession =>
       /\ Has(S, l.session, l.next - 1)
       /\ \A i \in 1 .. Len(S) : \A k \in 1 .. Len(S[i].records) :
            /\ Before(S[i].records[k], [session |-> l.session, index |-> l.next])
            /\ i < Len(S) /\ S[i].records[k].session = l.session => Full(S[i])

\* r is in the synced part of a segment.
Synced(S, r) == \E i \in 1 .. Len(S) : \E k \in 1 .. S[i].synced : S[i].records[k] = r

Log(v, S) == Segments(v, S) /\ InOrder(S) /\ NoHole(S) /\ Spans(S)

LogTypeOK ==
  /\ phase \in {"capture", "down", "replaying", "replayed"}
  /\ mono \in Nat /\ runs \in Nat /\ runs >= 1
  /\ files \in [Venues -> Seq(File)]
  /\ live \in [Venues -> [session : Nat, next : Nat]]
  /\ durable \subseteq Record

LogInv ==
  /\ LogTypeOK
  /\ \A v \in Venues : Log(v, files[v])
  /\ \E n \in Nat : \A v \in Venues : Sessions(files[v], n)
  /\ phase = "capture" => \A v \in Venues : Attached(files[v], live[v])
  /\ runs = 1 => \A v \in Venues : Rising(files[v]) /\ UpTo(files[v], mono)
  /\ \A r \in durable : Synced(files[r.venue], r)

-----------------------------------------------------------------------------
(* The merge. *)

\* What was taken of a venue's segments S so far: the yielded o, or ahead in
\* its cursor c.
Taken(o, c) == {o[n] : n \in 1 .. Len(o)} \cup {c.rest[k] : k \in 1 .. Len(c.rest)}

\* What is ahead is from the segment that is open, after its first p records.
IsAhead(S, c, p) ==
  /\ p \in Nat
  /\ p + Len(c.rest) <= Len(S[c.next - 1].records)
  /\ \A k \in 1 .. Len(c.rest) : c.rest[k] = S[c.next - 1].records[p + k]
Ahead(S, c) == c.rest # <<>> => c.next > 1 /\ \E p \in Nat : IsAhead(S, c, p)

\* No synced record of the segments read is missing.
TakesSynced(S, o, c) ==
  (\A i \in 1 .. Len(S) : S[i].zst # "partial") =>
    \A i \in 1 .. c.next - 1 : \A k \in 1 .. S[i].synced : S[i].records[k] \in Taken(o, c)

\* Of a segment a beginning is taken.
TakesBeginning(S, o, c) ==
  \A i \in 1 .. Len(S) : \A k \in 1 .. Len(S[i].records) :
    S[i].records[k] \in Taken(o, c) => \A l \in 1 .. k - 1 : S[i].records[l] \in Taken(o, c)

\* What was yielded was read, and comes before what is ahead.
Yielded(v, S, o, c) ==
  \A n \in 1 .. Len(o) : o[n].venue = v =>
    /\ \E i \in 1 .. c.next - 1 : \E k \in 1 .. Len(S[i].records) : o[n] = S[i].records[k]
    /\ \A k \in 1 .. Len(c.rest) : Before(o[n], c.rest[k])

VenueRead(v, S, o, c) ==
  Ahead(S, c) /\ TakesSynced(S, o, c) /\ TakesBeginning(S, o, c) /\ Yielded(v, S, o, c)

VenuesInOrder ==
  \A m, n \in 1 .. Len(out) : m < n /\ out[m].venue = out[n].venue => Before(out[m], out[n])

\* The order of the merge.
NotAfter(r, s) == r.mono < s.mono \/ (r.mono = s.mono /\ r.venue <= s.venue)

Merges ==
  /\ \A m, n \in 1 .. Len(out) : m < n => NotAfter(out[m], out[n])
  /\ \A n \in 1 .. Len(out), v \in Venues : \A k \in 1 .. Len(cursors[v].rest) :
       NotAfter(out[n], cursors[v].rest[k])

\* A venue without a head has been read to its end.
Headed == \A v \in Venues : cursors[v].rest = <<>> => cursors[v].next = Len(files[v]) + 1

StreamTypeOK ==
  /\ cursors \in [Venues -> Cursor]
  /\ \A v \in Venues : cursors[v].ok /\ cursors[v].next \in 1 .. Len(files[v]) + 1
  /\ out \in Seq(Record)
  /\ refused \in BOOLEAN

StreamInv ==
  /\ StreamTypeOK
  /\ phase \in {"capture", "down"} => out = <<>> /\ cursors = [v \in Venues |-> Unopened]
  /\ \A v \in Venues : VenueRead(v, files[v], out, cursors[v])
  /\ VenuesInOrder
  /\ runs = 1 => Merges
  /\ phase = "replaying" => Headed
  /\ phase = "replayed" /\ ~refused => Headed /\ Heads = {}

-----------------------------------------------------------------------------
(* Changes of the segments of one venue. *)

\* The element types of a list of segments.
LEMMA SegmentTypes ==
  ASSUME NEW v, NEW S, Segments(v, S), NEW i \in 1 .. Len(S)
  PROVE  /\ Len(S) \in Nat \ {0}
         /\ S[i] \in File
         /\ S[i].records \in Seq(Record)
         /\ Len(S[i].records) \in Nat
         /\ S[i].synced \in Nat \cup {-1}
         /\ S[i].synced <= Len(S[i].records)
         /\ \A k \in 1 .. Len(S[i].records) : S[i].records[k] \in Record /\ S[i].records[k].venue = v
<1>1. S \in Seq(File) /\ Len(S) \in Nat /\ Len(S) > 0 /\ S[i] \in File
  BY DEF Segments
<1>2. S[i].records \in Seq(Record) /\ S[i].synced \in Nat \cup {-1}
  BY <1>1 DEF File, NoHeader
<1> QED BY <1>1, <1>2 DEF Segments

\* S may become T by syncing, closing, compressing and opening segments: no
\* record moves and none becomes unsynced.
Grows(S, T) ==
  /\ T \in Seq(File) /\ Len(S) <= Len(T)
  /\ \A i \in 1 .. Len(S) : T[i].records = S[i].records /\ S[i].synced <= T[i].synced
  /\ \A i \in 1 .. Len(T) :
       /\ i > Len(S) => T[i].records = <<>>
       /\ T[i].synced <= Len(T[i].records)
       /\ T[i].zst # "none" => Full(T[i])

LEMMA GrowsPlaces ==
  ASSUME NEW v, NEW S, Segments(v, S), NEW T, Grows(S, T)
  PROVE  /\ Len(S) \in Nat \ {0} /\ Len(T) \in Nat
         /\ \A i \in 1 .. Len(T) : \A k \in 1 .. Len(T[i].records) :
              i \in 1 .. Len(S) /\ T[i].records = S[i].records /\ k \in 1 .. Len(S[i].records)
         /\ \A i \in 1 .. Len(S) : Full(S[i]) => Full(T[i])
<1>1. Len(S) \in Nat /\ Len(S) > 0 /\ Len(T) \in Nat
  BY DEF Segments, Grows
<1>2. ASSUME NEW i \in 1 .. Len(T), NEW k \in 1 .. Len(T[i].records)
      PROVE  i \in 1 .. Len(S) /\ T[i].records = S[i].records /\ k \in 1 .. Len(S[i].records)
  <2>1. i <= Len(S)
    <3> SUFFICES ASSUME i > Len(S) PROVE FALSE
      BY <1>1
    <3>1. T[i].records = <<>>
      BY DEF Grows
    <3>2. k \in 1 .. 0
      BY <3>1
    <3> QED BY <3>2
  <2> QED BY <1>1, <2>1 DEF Grows
<1>3. ASSUME NEW i \in 1 .. Len(S), Full(S[i]) PROVE Full(T[i])
  <2>1. i \in 1 .. Len(T) /\ T[i] \in File
    BY <1>1 DEF Grows
  <2>2. T[i].synced \in Nat \cup {-1} /\ T[i].records = S[i].records
    BY <2>1 DEF Grows, File, NoHeader
  <2>3. T[i].synced <= Len(S[i].records) /\ S[i].synced <= T[i].synced
    BY <2>1, <2>2 DEF Grows
  <2>4. S[i].synced = Len(S[i].records) /\ Len(S[i].records) \in Nat
    BY <1>3, SegmentTypes DEF Full
  <2> QED BY <2>2, <2>3, <2>4 DEF Full
<1> QED BY <1>1, <1>2, <1>3

LEMMA GrowsKeepsLog ==
  ASSUME NEW v, NEW S, Log(v, S), NEW T, Grows(S, T)
  PROVE  Log(v, T)
<1>1. Segments(v, S) /\ InOrder(S) /\ NoHole(S) /\ Spans(S)
  BY DEF Log
<1>2. Len(S) \in Nat /\ Len(S) > 0 /\ Len(T) \in Nat /\ T \in Seq(File) /\ Len(S) <= Len(T)
  BY <1>1, GrowsPlaces DEF Grows
<1>3. /\ \A i \in 1 .. Len(T) : \A k \in 1 .. Len(T[i].records) :
           i \in 1 .. Len(S) /\ T[i].records = S[i].records /\ k \in 1 .. Len(S[i].records)
      /\ \A i \in 1 .. Len(S) : Full(S[i]) => Full(T[i])
      /\ \A i \in 1 .. Len(S) : T[i].records = S[i].records
      /\ \A i \in 1 .. Len(T) : T[i].synced <= Len(T[i].records) /\ (T[i].zst # "none" => Full(T[i]))
  BY <1>1, GrowsPlaces DEF Grows
<1>4. Segments(v, T)
  BY <1>1, <1>2, <1>3 DEF Segments
<1>5. InOrder(T)
  BY <1>1, <1>3 DEF InOrder
<1>6. NoHole(T)
  <2>1. ASSUME NEW session, NEW index, Has(S, session, index) PROVE Has(T, session, index)
    <3>1. PICK i \in 1 .. Len(S) : \E k \in 1 .. Len(S[i].records) :
            S[i].records[k].session = session /\ S[i].records[k].index = index
      BY <2>1 DEF Has
    <3>2. i \in 1 .. Len(T) /\ T[i].records = S[i].records
      BY <1>2, <1>3
    <3> QED BY <3>1, <3>2 DEF Has
  <2> QED BY <1>1, <1>3, <2>1 DEF NoHole
<1>7. Spans(T)
  <2> SUFFICES ASSUME NEW i \in 1 .. Len(T), NEW j \in 1 .. Len(T),
                      NEW k \in 1 .. Len(T[i].records), NEW l \in 1 .. Len(T[j].records),
                      i < j, T[i].records[k].session = T[j].records[l].session
               PROVE  Full(T[i])
    BY DEF Spans
  <2>1. Full(S[i])
    BY <1>1, <1>3 DEF Spans
  <2> QED BY <1>3, <2>1
<1> QED BY <1>4, <1>5, <1>6, <1>7 DEF Log

AppendLast(S, r) == [S EXCEPT ![Len(S)].records = Append(@, r)]

\* What an append changes.
LEMMA AppendLastShape ==
  ASSUME NEW v, NEW S, Segments(v, S), NEW r \in Record
  PROVE  LET T == AppendLast(S, r)
             n == Len(S)
         IN  /\ T \in Seq(File) /\ Len(T) = n
             /\ \A i \in 1 .. n : i # n => T[i] = S[i]
             /\ T[n].records = Append(S[n].records, r)
             /\ T[n].synced = S[n].synced /\ T[n].zst = S[n].zst
             /\ Len(T[n].records) = Len(S[n].records) + 1
             /\ T[n].records[Len(S[n].records) + 1] = r
             /\ \A k \in 1 .. Len(S[n].records) : T[n].records[k] = S[n].records[k]
<1> DEFINE n == Len(S)
           f == [S[n] EXCEPT !.records = Append(@, r)]
           T == [S EXCEPT ![n] = f]
<1>1. n \in Nat \ {0} /\ n \in 1 .. Len(S) /\ S \in Seq(File) /\ S[n] \in File
  BY SegmentTypes DEF Segments
<1>2. S[n].records \in Seq(Record) /\ Append(S[n].records, r) \in Seq(Record)
  BY <1>1 DEF File
<1>3. f \in File /\ f.records = Append(S[n].records, r) /\ f.synced = S[n].synced /\ f.zst = S[n].zst
  BY <1>1, <1>2 DEF File
<1>4. T \in Seq(File) /\ Len(T) = n /\ T[n] = f /\ \A i \in 1 .. n : i # n => T[i] = S[i]
  <2> HIDE DEF f
  <2> QED BY <1>1, <1>3
<1>5. AppendLast(S, r) = T
  BY DEF AppendLast
<1> QED BY <1>2, <1>3, <1>4, <1>5

\* A record comes last in the log if all that is there comes before it.
LEMMA AppendLastKeeps ==
  ASSUME NEW v, NEW S, Log(v, S), NEW r \in Record, r.venue = v,
         S[Len(S)].zst = "none",
         \A i \in 1 .. Len(S) : \A k \in 1 .. Len(S[i].records) :
           /\ Before(S[i].records[k], r)
           /\ i < Len(S) /\ S[i].records[k].session = r.session => Full(S[i]),
         r.index > 0 => Has(S, r.session, r.index - 1)
  PROVE  Log(v, AppendLast(S, r))
<1> DEFINE n == Len(S)
           m == Len(S[n].records)
           T == AppendLast(S, r)
<1>1. Segments(v, S) /\ InOrder(S) /\ NoHole(S) /\ Spans(S)
  BY DEF Log
<1>2. n \in Nat \ {0} /\ n \in 1 .. n /\ m \in Nat
  BY <1>1, SegmentTypes DEF Segments
<1>3. /\ T \in Seq(File) /\ Len(T) = n
      /\ \A i \in 1 .. n : i # n => T[i] = S[i]
      /\ T[n].synced = S[n].synced /\ T[n].zst = "none"
      /\ Len(T[n].records) = m + 1 /\ T[n].records[m + 1] = r
      /\ \A k \in 1 .. m : T[n].records[k] = S[n].records[k]
  BY <1>1, AppendLastShape
<1> HIDE DEF T
<1>4. ASSUME NEW i \in 1 .. n, NEW k \in 1 .. Len(T[i].records), ~(i = n /\ k = m + 1)
      PROVE  k \in 1 .. Len(S[i].records) /\ T[i].records[k] = S[i].records[k]
  <2>1. CASE i = n
    BY <1>2, <1>3, <1>4, <2>1
  <2>2. CASE i # n
    BY <1>3, <2>2
  <2> QED BY <2>1, <2>2
<1>5. ASSUME NEW i \in 1 .. n, NEW k \in 1 .. Len(S[i].records)
      PROVE  k \in 1 .. Len(T[i].records) /\ T[i].records[k] = S[i].records[k]
  <2>1. CASE i = n
    BY <1>2, <1>3, <2>1
  <2>2. CASE i # n
    BY <1>3, <2>2
  <2> QED BY <2>1, <2>2
<1>6. Segments(v, T)
  <2>1. ASSUME NEW i \in 1 .. n
        PROVE  /\ T[i].synced <= Len(T[i].records)
               /\ T[i].zst # "none" => Full(T[i])
               /\ \A k \in 1 .. Len(T[i].records) : T[i].records[k].venue = v
    <3>1. CASE i = n
      <4>1. S[n].synced \in Nat \cup {-1} /\ S[n].synced <= m
        BY <1>1, <1>2, SegmentTypes
      <4>2. \A k \in 1 .. m + 1 : T[n].records[k].venue = v
        <5> SUFFICES ASSUME NEW k \in 1 .. m + 1 PROVE T[n].records[k].venue = v
          OBVIOUS
        <5>1. CASE k = m + 1
          BY <1>3, <5>1
        <5>2. CASE k # m + 1
          <6>1. k \in 1 .. m
            BY <1>2, <5>2
          <6>2. S[n].records[k].venue = v
            BY <1>1, <1>2, <6>1, SegmentTypes
          <6> QED BY <1>3, <6>1, <6>2
        <5> QED BY <5>1, <5>2
      <4> QED BY <1>2, <1>3, <3>1, <4>1, <4>2
    <3>2. CASE i # n
      BY <1>1, <1>3, <3>2 DEF Segments
    <3> QED BY <3>1, <3>2
  <2> QED BY <1>2, <1>3, <2>1 DEF Segments
<1>7. InOrder(T)
  <2> SUFFICES ASSUME NEW i \in 1 .. n, NEW j \in 1 .. n,
                      NEW k \in 1 .. Len(T[i].records), NEW l \in 1 .. Len(T[j].records),
                      Earlier(i, k, j, l)
               PROVE  Before(T[i].records[k], T[j].records[l])
    BY <1>3 DEF InOrder
  <2>1. ~(i = n /\ k = m + 1)
    BY <1>2, <1>3 DEF Earlier
  <2>2. k \in 1 .. Len(S[i].records) /\ T[i].records[k] = S[i].records[k]
    BY <1>4, <2>1
  <2>3. CASE j = n /\ l = m + 1
    BY <1>3, <2>2, <2>3
  <2>4. CASE ~(j = n /\ l = m + 1)
    <3>1. l \in 1 .. Len(S[j].records) /\ T[j].records[l] = S[j].records[l]
      BY <1>4, <2>4
    <3> QED BY <1>1, <2>2, <3>1 DEF InOrder
  <2> QED BY <2>3, <2>4
<1>8. NoHole(T)
  <2>1. ASSUME NEW session, NEW index, Has(S, session, index) PROVE Has(T, session, index)
    <3>1. PICK i \in 1 .. n : \E k \in 1 .. Len(S[i].records) :
            S[i].records[k].session = session /\ S[i].records[k].index = index
      BY <2>1 DEF Has
    <3>2. PICK k \in 1 .. Len(S[i].records) :
            S[i].records[k].session = session /\ S[i].records[k].index = index
      BY <3>1
    <3>3. k \in 1 .. Len(T[i].records) /\ T[i].records[k] = S[i].records[k]
      BY <1>5
    <3> QED BY <1>3, <3>2, <3>3 DEF Has
  <2>2. ASSUME NEW j \in 1 .. n, NEW l \in 1 .. Len(T[j].records), T[j].records[l].index > 0
        PROVE  Has(S, T[j].records[l].session, T[j].records[l].index - 1)
    <3>1. CASE j = n /\ l = m + 1
      BY <1>3, <2>2, <3>1
    <3>2. CASE ~(j = n /\ l = m + 1)
      <4>1. l \in 1 .. Len(S[j].records) /\ T[j].records[l] = S[j].records[l]
        BY <1>4, <3>2
      <4> QED BY <1>1, <2>2, <4>1 DEF NoHole
    <3> QED BY <3>1, <3>2
  <2> QED BY <1>3, <2>1, <2>2 DEF NoHole
<1>9. Spans(T)
  <2> SUFFICES ASSUME NEW i \in 1 .. n, NEW j \in 1 .. n,
                      NEW k \in 1 .. Len(T[i].records), NEW l \in 1 .. Len(T[j].records),
                      i < j, T[i].records[k].session = T[j].records[l].session
               PROVE  Full(T[i])
    BY <1>3 DEF Spans
  <2>1. i # n
    BY <1>2
  <2>2. k \in 1 .. Len(S[i].records) /\ T[i].records[k] = S[i].records[k] /\ T[i] = S[i]
    BY <1>3, <2>1
  <2>3. CASE j = n /\ l = m + 1
    BY <1>2, <1>3, <2>1, <2>2, <2>3
  <2>4. CASE ~(j = n /\ l = m + 1)
    <3>1. l \in 1 .. Len(S[j].records) /\ T[j].records[l] = S[j].records[l]
      BY <1>4, <2>4
    <3> QED BY <1>1, <2>2, <3>1 DEF Spans
  <2> QED BY <2>3, <2>4
<1> QED BY <1>6, <1>7, <1>8, <1>9 DEF Log, T

LEMMA GrowsKeepsMore ==
  ASSUME NEW v, NEW S, Segments(v, S), NEW T, Grows(S, T)
  PROVE  /\ \A session, index : Has(S, session, index) => Has(T, session, index)
         /\ Rising(S) => Rising(T)
         /\ \A t : UpTo(S, t) => UpTo(T, t)
         /\ \A n : Sessions(S, n) => Sessions(T, n)
         /\ \A r : Synced(S, r) => Synced(T, r)
<1>1. Len(S) \in Nat /\ Len(S) > 0 /\ Len(T) \in Nat /\ Len(S) <= Len(T) /\ T \in Seq(File)
  BY GrowsPlaces DEF Grows
<1>2. \A i \in 1 .. Len(T) : \A k \in 1 .. Len(T[i].records) :
        i \in 1 .. Len(S) /\ T[i].records = S[i].records /\ k \in 1 .. Len(S[i].records)
  BY GrowsPlaces
<1>3. ASSUME NEW i \in 1 .. Len(S)
      PROVE  i \in 1 .. Len(T) /\ T[i].records = S[i].records /\ S[i].synced <= T[i].synced
  BY <1>1 DEF Grows
<1>4. ASSUME NEW session, NEW index, Has(S, session, index) PROVE Has(T, session, index)
  <2>1. PICK i \in 1 .. Len(S) : \E k \in 1 .. Len(S[i].records) :
          S[i].records[k].session = session /\ S[i].records[k].index = index
    BY <1>4 DEF Has
  <2> QED BY <1>3, <2>1 DEF Has
<1>5. Rising(S) => Rising(T)
  BY <1>2 DEF Rising
<1>6. ASSUME NEW t, UpTo(S, t) PROVE UpTo(T, t)
  BY <1>2, <1>6 DEF UpTo
<1>7. ASSUME NEW n, Sessions(S, n) PROVE Sessions(T, n)
  BY <1>2, <1>7 DEF Sessions
<1>8. ASSUME NEW r, Synced(S, r) PROVE Synced(T, r)
  <2>1. PICK i \in 1 .. Len(S) : \E k \in 1 .. S[i].synced : S[i].records[k] = r
    BY <1>8 DEF Synced
  <2>2. PICK k \in 1 .. S[i].synced : S[i].records[k] = r
    BY <2>1
  <2>3. S[i].synced \in Nat \cup {-1} /\ T[i].synced \in Nat \cup {-1}
    <3>1. T[i] \in File
      BY <1>1, <1>3
    <3> QED BY <3>1, SegmentTypes DEF File, NoHeader
  <2>4. k \in 1 .. T[i].synced
    BY <1>3, <2>3
  <2> QED BY <1>3, <2>2, <2>4 DEF Synced
<1> QED BY <1>4, <1>5, <1>6, <1>7, <1>8

\* A live connection goes on in the new segment when the last is synced.
LEMMA GrowsKeepsAttached ==
  ASSUME NEW v, NEW S, Segments(v, S), NEW T, Grows(S, T), NEW l, Attached(S, l),
         T[Len(T)].zst = "none", Len(S) < Len(T) => Full(T[Len(S)])
  PROVE  Attached(T, l)
<1>1. Len(S) \in Nat \ {0} /\ Len(T) \in Nat /\ Len(S) <= Len(T)
  BY GrowsPlaces DEF Grows
<1>2. /\ \A i \in 1 .. Len(T) : \A k \in 1 .. Len(T[i].records) :
           i \in 1 .. Len(S) /\ T[i].records = S[i].records /\ k \in 1 .. Len(S[i].records)
      /\ \A i \in 1 .. Len(S) : Full(S[i]) => Full(T[i])
  BY GrowsPlaces
<1> SUFFICES ASSUME l # NoSession
             PROVE  /\ Has(T, l.session, l.next - 1)
                    /\ \A i \in 1 .. Len(T) : \A k \in 1 .. Len(T[i].records) :
                         /\ Before(T[i].records[k], [session |-> l.session, index |-> l.next])
                         /\ i < Len(T) /\ T[i].records[k].session = l.session => Full(T[i])
  BY DEF Attached
<1>3. Has(T, l.session, l.next - 1)
  BY GrowsKeepsMore DEF Attached
<1>4. ASSUME NEW i \in 1 .. Len(T), NEW k \in 1 .. Len(T[i].records)
      PROVE  /\ Before(T[i].records[k], [session |-> l.session, index |-> l.next])
             /\ i < Len(T) /\ T[i].records[k].session = l.session => Full(T[i])
  <2>1. i \in 1 .. Len(S) /\ T[i].records = S[i].records /\ k \in 1 .. Len(S[i].records)
    BY <1>2
  <2>2. Before(T[i].records[k], [session |-> l.session, index |-> l.next])
    BY <2>1 DEF Attached
  <2>3. ASSUME i < Len(T), T[i].records[k].session = l.session PROVE Full(T[i])
    <3>1. CASE i < Len(S)
      <4>1. Full(S[i])
        BY <2>1, <2>3, <3>1 DEF Attached
      <4> QED BY <1>2, <2>1, <4>1
    <3>2. CASE i = Len(S)
      BY <2>3, <3>2
    <3> QED BY <1>1, <2>1, <3>1, <3>2
  <2> QED BY <2>2, <2>3
<1> QED BY <1>3, <1>4

-----------------------------------------------------------------------------
(* The steps of the writer, one venue at a time. *)

LEMMA NewFileType == NewFile \in File /\ NewFile.records = <<>> /\ NewFile.synced = -1 /\ NewFile.zst = "none"
BY DEF NewFile, File, NoHeader

\* A segment with the records it had, and no less synced.
LEMMA ReplaceGrows ==
  ASSUME NEW v, NEW S, Segments(v, S), NEW i \in 1 .. Len(S), NEW f \in File,
         f.records = S[i].records, S[i].synced <= f.synced, f.synced <= Len(f.records),
         f.zst # "none" => Full(f)
  PROVE  Grows(S, [S EXCEPT ![i] = f])
<1> DEFINE T == [S EXCEPT ![i] = f]
<1>1. S \in Seq(File) /\ Len(S) \in Nat
  BY DEF Segments
<1>2. T \in Seq(File) /\ Len(T) = Len(S) /\ T[i] = f /\ \A j \in 1 .. Len(S) : j # i => T[j] = S[j]
  BY <1>1
<1> HIDE DEF T
<1>3. ASSUME NEW j \in 1 .. Len(S)
      PROVE  /\ T[j].records = S[j].records /\ S[j].synced <= T[j].synced
             /\ T[j].synced <= Len(T[j].records)
             /\ T[j].zst # "none" => Full(T[j])
  <2>1. CASE j = i
    BY <1>2, <2>1
  <2>2. CASE j # i
    <3>1. T[j] = S[j] /\ S[j].synced \in Nat \cup {-1}
      BY <1>2, <2>2, SegmentTypes
    <3> QED BY <3>1 DEF Segments
  <2> QED BY <2>1, <2>2
<1>4. Grows(S, T)
  BY <1>1, <1>2, <1>3 DEF Grows
<1> QED BY <1>4 DEF T

LEMMA SyncedFileType ==
  ASSUME NEW f \in File
  PROVE  /\ SyncedFile(f) \in File /\ SyncedFile(f).records = f.records
         /\ SyncedFile(f).zst = f.zst /\ Full(SyncedFile(f))
<1>1. f.records \in Seq(Record) /\ Len(f.records) \in Nat
  BY DEF File
<1> QED BY <1>1 DEF SyncedFile, File, Full

\* w put in place of the last element of S.
IsReplaced(A, S, w, T) ==
  /\ T \in Seq(A) /\ Len(T) = Len(S) - 1 + Len(w)
  /\ \A i \in 1 .. Len(S) - 1 : T[i] = S[i]
  /\ T[Len(S)] = w[1]
  /\ Len(w) = 2 => T[Len(S) + 1] = w[2]

LEMMA LastReplacedShape ==
  ASSUME NEW A, NEW S \in Seq(A), Len(S) >= 1, NEW w \in Seq(A), Len(w) >= 1
  PROVE  IsReplaced(A, S, w, Front(S) \o w)
<1> DEFINE T == Front(S) \o w
           n == Len(S)
           x == Front(S)
<1>1. n \in Nat /\ n >= 1 /\ Len(w) \in Nat /\ Len(w) >= 1
  OBVIOUS
<1>2. x \in Seq(A) /\ Len(x) = n - 1 /\ \A i \in 1 .. n - 1 : x[i] = S[i]
  <2>1. \A i \in 1 .. n - 1 : S[i] \in A
    OBVIOUS
  <2> HIDE DEF n
  <2>2. x = SubSeq(S, 1, n - 1)
    BY DEF Front, n
  <2>3. /\ x \in Seq(A) /\ Len(x) = (IF 1 <= n - 1 THEN n - 1 - 1 + 1 ELSE 0)
        /\ \A i \in 1 .. n - 1 - 1 + 1 : x[i] = S[1 + i - 1]
    <3> HIDE DEF x
    <3>1. 1 \in Int /\ n - 1 \in Int
      BY <1>1
    <3> QED BY <2>1, <2>2, <3>1, SubSeqProperties
  <2> HIDE DEF x
  <2>4. Len(x) = n - 1
    BY <1>1, <2>3
  <2>5. ASSUME NEW i \in 1 .. n - 1 PROVE x[i] = S[i]
    <3>1. i \in 1 .. n - 1 - 1 + 1 /\ 1 + i - 1 = i
      BY <1>1
    <3> QED BY <2>3, <3>1
  <2> QED BY <2>3, <2>4, <2>5
<1> HIDE DEF x, n, T
<1>3. /\ x \o w \in Seq(A) /\ Len(x \o w) = Len(x) + Len(w)
      /\ \A i \in 1 .. Len(x) + Len(w) : (x \o w)[i] = IF i <= Len(x) THEN x[i] ELSE w[i - Len(x)]
  BY <1>2, ConcatProperties
<1>4. /\ T \in Seq(A) /\ Len(T) = Len(x) + Len(w)
      /\ \A i \in 1 .. Len(x) + Len(w) : T[i] = IF i <= Len(x) THEN x[i] ELSE w[i - Len(x)]
  <2>1. T = x \o w
    BY DEF x, T
  <2> QED BY <1>3, <2>1
<1>5. Len(x) = n - 1
  BY <1>2
<1>6. Len(T) = n - 1 + Len(w)
  BY <1>4, <1>5
<1>7. ASSUME NEW i \in 1 .. n - 1 PROVE T[i] = S[i]
  <2>1. i \in 1 .. Len(x) + Len(w) /\ i <= Len(x)
    BY <1>1, <1>5
  <2> QED BY <1>2, <1>4, <2>1
<1>8. T[n] = w[1]
  <2>2. n \in 1 .. Len(x) + Len(w) /\ ~ (n <= Len(x)) /\ n - Len(x) = 1
    BY <1>1, <1>5
  <2> QED BY <1>4, <2>2
<1>9. ASSUME Len(w) = 2 PROVE T[n + 1] = w[2]
  <2>1. n + 1 \in 1 .. Len(x) + Len(w) /\ ~ (n + 1 <= Len(x)) /\ (n + 1) - Len(x) = 2
    BY <1>1, <1>5, <1>9
  <2> QED BY <1>4, <2>1
<1> QED BY <1>4, <1>6, <1>7, <1>8, <1>9 DEF IsReplaced, n, T

\* The last segment with f in its place, and another opened after it.
Closes(S, f, T) ==
  /\ Grows(S, T) /\ T[Len(S)] = f
  /\ T = Front(S) \o <<f>> => Len(T) = Len(S)
  /\ T = Front(S) \o <<f, NewFile>> => Len(T) = Len(S) + 1 /\ T[Len(T)] = NewFile

LEMMA CloseGrows ==
  ASSUME NEW v, NEW S, Segments(v, S), NEW f \in File, NEW T,
         f.records = Last(S).records, Last(S).synced <= f.synced, f.synced <= Len(f.records),
         f.zst # "none" => Full(f),
         T = Front(S) \o <<f>> \/ T = Front(S) \o <<f, NewFile>>
  PROVE  Closes(S, f, T)
<1> DEFINE n == Len(S)
<1>1. S \in Seq(File) /\ n \in Nat \ {0} /\ Last(S) = S[n]
  BY SegmentTypes DEF Segments, Last
<1>2. Len(S) >= 1
  BY <1>1
<1> HIDE DEF n
<1>3. <<f>> \in Seq(File) /\ Len(<<f>>) = 1 /\ <<f>>[1] = f
  OBVIOUS
<1>4. /\ <<f, NewFile>> \in Seq(File) /\ Len(<<f, NewFile>>) = 2
      /\ <<f, NewFile>>[1] = f /\ <<f, NewFile>>[2] = NewFile
  BY NewFileType
<1>5. /\ T \in Seq(File) /\ T[n] = f
      /\ \A i \in 1 .. n - 1 : T[i] = S[i]
      /\ Len(T) = n \/ (Len(T) = n + 1 /\ T[n + 1] = NewFile)
      /\ T = Front(S) \o <<f>> => Len(T) = n
      /\ T = Front(S) \o <<f, NewFile>> => Len(T) = n + 1 /\ T[n + 1] = NewFile
  <2>1. LET U == Front(S) \o <<f>>
        IN  /\ U \in Seq(File) /\ Len(U) = n /\ U[n] = f
            /\ \A i \in 1 .. n - 1 : U[i] = S[i]
    <3> DEFINE w == <<f>>
           U == Front(S) \o w
    <3>1. S \in Seq(File) /\ Len(S) >= 1 /\ w \in Seq(File) /\ Len(w) >= 1
      BY <1>1, <1>2, <1>3
    <3> HIDE DEF w
    <3>2. IsReplaced(File, S, w, U)
      BY <3>1, LastReplacedShape
    <3> HIDE DEF U
    <3>3. Len(U) = n
      BY <1>1, <1>3, <3>2 DEF IsReplaced, n, w
    <3> USE DEF U
    <3> QED BY <1>3, <3>2, <3>3 DEF IsReplaced, n, w
  <2>2. LET U == Front(S) \o <<f, NewFile>>
        IN  /\ U \in Seq(File) /\ Len(U) = n + 1 /\ U[n] = f
            /\ \A i \in 1 .. n - 1 : U[i] = S[i]
            /\ U[n + 1] = NewFile
    <3> DEFINE w == <<f, NewFile>>
           U == Front(S) \o w
    <3>1. S \in Seq(File) /\ Len(S) >= 1 /\ w \in Seq(File) /\ Len(w) >= 1
      BY <1>1, <1>2, <1>4
    <3> HIDE DEF w
    <3>2. IsReplaced(File, S, w, U)
      BY <3>1, LastReplacedShape
    <3> HIDE DEF U
    <3>3. Len(U) = n + 1
      BY <1>1, <1>4, <3>2 DEF IsReplaced, n, w
    <3> USE DEF U
    <3> QED BY <1>4, <3>2, <3>3 DEF IsReplaced, n, w
  <2> QED BY <2>1, <2>2
<1>6. ASSUME NEW i \in 1 .. n
      PROVE  /\ T[i].records = S[i].records /\ S[i].synced <= T[i].synced
             /\ T[i].synced <= Len(T[i].records)
             /\ T[i].zst # "none" => Full(T[i])
  <2>1. CASE i = n
    BY <1>1, <1>5, <2>1
  <2>2. CASE i # n
    <3>1. T[i] = S[i] /\ i \in 1 .. Len(S)
      BY <1>1, <1>5, <2>2 DEF n
    <3>2. S[i].synced \in Nat \cup {-1}
      BY <3>1, SegmentTypes
    <3> QED BY <3>1, <3>2 DEF Segments
  <2> QED BY <2>1, <2>2
<1>7. NewFile.records = <<>> /\ NewFile.synced <= Len(NewFile.records) /\ NewFile.zst = "none"
  BY NewFileType
<1>8. ASSUME NEW i \in 1 .. Len(T), i > n
      PROVE  T[i] = NewFile
  BY <1>1, <1>5, <1>8
<1>9. Grows(S, T)
  <2>1. T \in Seq(File) /\ n <= Len(T) /\ Len(T) \in Nat /\ n \in Nat
    BY <1>1, <1>5 DEF n
  <2>2. \A i \in 1 .. n : T[i].records = S[i].records /\ S[i].synced <= T[i].synced
    BY <1>6
  <2>3. ASSUME NEW i \in 1 .. Len(T)
        PROVE  /\ i > n => T[i].records = <<>>
               /\ T[i].synced <= Len(T[i].records)
               /\ T[i].zst # "none" => Full(T[i])
    <3>1. CASE i \in 1 .. n
      <4>1. ~(i > n)
        BY <2>1, <3>1
      <4> QED BY <1>6, <3>1, <4>1
    <3>2. CASE i \notin 1 .. n
      <4>1. i > n
        BY <2>1, <3>2
      <4> QED BY <1>7, <1>8, <4>1
    <3> QED BY <3>1, <3>2
  <2> QED BY <2>1, <2>2, <2>3 DEF Grows, n
<1> QED BY <1>1, <1>5, <1>9 DEF Closes, n

\* maybe_rotate closes a synced segment.
LEMMA RotatedGrows ==
  ASSUME NEW v, NEW S, Segments(v, S), NEW zst \in {"none", "partial"}
  PROVE  /\ Grows(S, Rotated(S, zst))
         /\ Len(Rotated(S, zst)) = Len(S) + 1
         /\ Rotated(S, zst)[Len(S) + 1] = NewFile
         /\ Full(Rotated(S, zst)[Len(S)])
<1> DEFINE closed == [SyncedFile(Last(S)) EXCEPT !.zst = zst]
<1>1. Last(S) \in File /\ Last(S).synced <= Len(Last(S).records) /\ Last(S) = S[Len(S)]
  BY SegmentTypes DEF Segments, Last
<1>2. closed \in File /\ closed.records = Last(S).records /\ Full(closed)
  <2>1. SyncedFile(Last(S)) \in File /\ SyncedFile(Last(S)).records = Last(S).records /\ Full(SyncedFile(Last(S)))
    BY <1>1, SyncedFileType
  <2> QED BY <2>1 DEF File, Full
<1>3. closed.synced = Len(closed.records)
  BY <1>2 DEF Full
<1>4. Len(closed.records) \in Nat
  BY <1>2 DEF File
<1>5. Rotated(S, zst) = Front(S) \o <<closed, NewFile>>
  BY DEF Rotated
<1> HIDE DEF closed
<1>6. Last(S).synced <= closed.synced /\ closed.synced <= Len(closed.records)
  BY <1>1, <1>2, <1>3, <1>4
<1> DEFINE T == Rotated(S, zst)
<1>7. closed.zst # "none" => Full(closed)
  BY <1>2
<1>8. T = Front(S) \o <<closed>> \/ T = Front(S) \o <<closed, NewFile>>
  BY <1>5
<1> HIDE DEF T
<1>9. Closes(S, closed, T)
  BY <1>2, <1>6, <1>7, <1>8, CloseGrows
<1>10. Grows(S, T) /\ T[Len(S)] = closed /\ Len(T) = Len(S) + 1 /\ T[Len(T)] = NewFile
  BY <1>5, <1>9 DEF Closes, T
<1> QED BY <1>2, <1>10 DEF T

\* A new segment.
LEMMA NewFileGrows ==
  ASSUME NEW v, NEW S, Segments(v, S)
  PROVE  Grows(S, Append(S, NewFile)) /\ Len(Append(S, NewFile)) = Len(S) + 1
         /\ Append(S, NewFile)[Len(S) + 1] = NewFile
<1> DEFINE T == Append(S, NewFile)
<1>1. S \in Seq(File) /\ Len(S) \in Nat /\ NewFile \in File
  BY NewFileType DEF Segments
<1>2. T \in Seq(File) /\ Len(T) = Len(S) + 1 /\ T[Len(S) + 1] = NewFile /\ \A i \in 1 .. Len(S) : T[i] = S[i]
  BY <1>1
<1> HIDE DEF T
<1>3. ASSUME NEW i \in 1 .. Len(S)
      PROVE  /\ T[i].records = S[i].records /\ S[i].synced <= T[i].synced
             /\ T[i].synced <= Len(T[i].records)
             /\ T[i].zst # "none" => Full(T[i])
  <2>1. S[i].synced \in Nat \cup {-1} /\ T[i] = S[i]
    BY <1>2, SegmentTypes
  <2> QED BY <2>1 DEF Segments
<1>4. ASSUME NEW i \in 1 .. Len(T), i > Len(S) PROVE T[i] = NewFile
  BY <1>1, <1>2, <1>4
<1>5. NewFile.records = <<>> /\ NewFile.synced <= Len(NewFile.records) /\ NewFile.zst = "none"
  BY NewFileType
<1>6. Grows(S, T)
  BY <1>1, <1>2, <1>3, <1>4, <1>5 DEF Grows
<1> QED BY <1>2, <1>6 DEF T

LEMMA GrowsItself ==
  ASSUME NEW v, NEW S, Segments(v, S)
  PROVE  Grows(S, S)
<1>1. S \in Seq(File) /\ Len(S) \in Nat
  BY DEF Segments
<1>2. ASSUME NEW i \in 1 .. Len(S) PROVE S[i].synced <= S[i].synced
  BY SegmentTypes
<1> QED BY <1>1, <1>2 DEF Grows, Segments

\* Where the records are after an append.
AppendPlaces(S, r, T) ==
  LET n == Len(S)
      m == Len(S[n].records)
  IN  /\ n \in Nat /\ n >= 1 /\ m \in Nat
      /\ T \in Seq(File) /\ Len(T) = n
      /\ m + 1 \in 1 .. Len(T[n].records) /\ T[n].records[m + 1] = r
      /\ T[n].zst = S[n].zst
      /\ \A i \in 1 .. n :
           /\ Full(T[i]) = Full(S[i]) \/ i = n
           /\ T[i].synced = S[i].synced
           /\ \A k \in 1 .. Len(T[i].records) :
                (i = n /\ k = m + 1) \/ (k \in 1 .. Len(S[i].records) /\ T[i].records[k] = S[i].records[k])
           /\ \A k \in 1 .. Len(S[i].records) :
                k \in 1 .. Len(T[i].records) /\ T[i].records[k] = S[i].records[k]

LEMMA AppendLastPlaces ==
  ASSUME NEW v, NEW S, Segments(v, S), NEW r \in Record
  PROVE  AppendPlaces(S, r, AppendLast(S, r))
<1> DEFINE n == Len(S)
           m == Len(S[n].records)
           T == AppendLast(S, r)
<1>1. n \in Nat /\ n >= 1 /\ n \in 1 .. n /\ m \in Nat
  BY SegmentTypes DEF Segments
<1>2. /\ T \in Seq(File) /\ Len(T) = n
      /\ \A i \in 1 .. n : i # n => T[i] = S[i]
      /\ T[n].synced = S[n].synced /\ T[n].zst = S[n].zst
      /\ Len(T[n].records) = m + 1 /\ T[n].records[m + 1] = r
      /\ \A k \in 1 .. m : T[n].records[k] = S[n].records[k]
  BY AppendLastShape
<1> HIDE DEF T
<1>3. ASSUME NEW i \in 1 .. n
      PROVE  /\ Full(T[i]) = Full(S[i]) \/ i = n
             /\ T[i].synced = S[i].synced
             /\ \A k \in 1 .. Len(T[i].records) :
                  (i = n /\ k = m + 1) \/ (k \in 1 .. Len(S[i].records) /\ T[i].records[k] = S[i].records[k])
             /\ \A k \in 1 .. Len(S[i].records) :
                  k \in 1 .. Len(T[i].records) /\ T[i].records[k] = S[i].records[k]
  <2>1. CASE i = n
    BY <1>1, <1>2, <2>1
  <2>2. CASE i # n
    BY <1>2, <2>2
  <2> QED BY <2>1, <2>2
<1>4. m + 1 \in 1 .. Len(T[n].records)
  BY <1>1, <1>2
<1>5. AppendPlaces(S, r, T)
  BY <1>1, <1>2, <1>3, <1>4 DEF AppendPlaces
<1> QED BY <1>5 DEF T

LEMMA AppendLastKeepsMore ==
  ASSUME NEW v, NEW S, Segments(v, S), NEW r \in Record, NEW T, AppendPlaces(S, r, T)
  PROVE  /\ \A session, index : Has(S, session, index) => Has(T, session, index)
         /\ \A x : Synced(S, x) => Synced(T, x)
         /\ \A m \in Nat, n \in Nat : Sessions(S, n) /\ n <= m /\ r.session <= m => Sessions(T, m)
         /\ \A t \in Nat : Rising(S) /\ UpTo(S, t) /\ t <= r.mono => Rising(T) /\ UpTo(T, r.mono)
<1> DEFINE n == Len(S)
           m == Len(S[n].records)
<1>1. /\ n \in Nat /\ n >= 1 /\ m \in Nat
      /\ T \in Seq(File) /\ Len(T) = n
      /\ T[n].records[m + 1] = r
  BY DEF AppendPlaces
<1>2. ASSUME NEW i \in 1 .. n
      PROVE  /\ T[i].synced = S[i].synced
             /\ \A k \in 1 .. Len(T[i].records) :
                  (i = n /\ k = m + 1) \/ (k \in 1 .. Len(S[i].records) /\ T[i].records[k] = S[i].records[k])
             /\ \A k \in 1 .. Len(S[i].records) :
                  k \in 1 .. Len(T[i].records) /\ T[i].records[k] = S[i].records[k]
  BY DEF AppendPlaces
<1>3. ASSUME NEW i \in 1 .. n, NEW k \in 1 .. Len(S[i].records)
      PROVE  S[i].records[k] \in Record
  BY SegmentTypes
<1> HIDE DEF m
<1>4. ASSUME NEW session, NEW index, Has(S, session, index) PROVE Has(T, session, index)
  <2>1. PICK i \in 1 .. n : \E k \in 1 .. Len(S[i].records) :
          S[i].records[k].session = session /\ S[i].records[k].index = index
    BY <1>4 DEF Has
  <2> QED BY <1>1, <1>2, <2>1 DEF Has
<1>5. ASSUME NEW x, Synced(S, x) PROVE Synced(T, x)
  <2>1. PICK i \in 1 .. n : \E k \in 1 .. S[i].synced : S[i].records[k] = x
    BY <1>5 DEF Synced
  <2>2. PICK k \in 1 .. S[i].synced : S[i].records[k] = x
    BY <2>1
  <2>3. k \in 1 .. Len(S[i].records)
    BY SegmentTypes
  <2> QED BY <1>1, <1>2, <2>2, <2>3 DEF Synced
<1>6. ASSUME NEW l \in Nat, NEW j \in Nat, Sessions(S, j), j <= l, r.session <= l
      PROVE  Sessions(T, l)
  <2> SUFFICES ASSUME NEW i \in 1 .. n, NEW k \in 1 .. Len(T[i].records)
               PROVE  T[i].records[k].session <= l
    BY <1>1 DEF Sessions
  <2>1. CASE i = n /\ k = m + 1
    BY <1>1, <1>6, <2>1
  <2>2. CASE k \in 1 .. Len(S[i].records) /\ T[i].records[k] = S[i].records[k]
    <3>1. S[i].records[k].session <= j /\ S[i].records[k].session \in Nat
      BY <1>3, <1>6, <2>2 DEF Sessions, Record
    <3> QED BY <1>6, <2>2, <3>1
  <2> QED BY <1>2, <2>1, <2>2
<1>7. ASSUME NEW t \in Nat, Rising(S), UpTo(S, t), t <= r.mono
      PROVE  Rising(T) /\ UpTo(T, r.mono)
  <2>1. ASSUME NEW i \in 1 .. n, NEW k \in 1 .. Len(T[i].records)
        PROVE  T[i].records[k].mono <= r.mono
    <3>1. CASE i = n /\ k = m + 1
      BY <1>1, <3>1 DEF Record
    <3>2. CASE k \in 1 .. Len(S[i].records) /\ T[i].records[k] = S[i].records[k]
      <4>1. S[i].records[k].mono <= t /\ S[i].records[k].mono \in Nat
        BY <1>3, <1>7, <3>2 DEF UpTo, Record
      <4>2. r.mono \in Nat
        BY DEF Record
      <4> QED BY <1>7, <3>2, <4>1, <4>2
    <3> QED BY <1>2, <3>1, <3>2
  <2>2. UpTo(T, r.mono)
    BY <1>1, <2>1 DEF UpTo
  <2>3. Rising(T)
    <3> SUFFICES ASSUME NEW i \in 1 .. n, NEW j \in 1 .. n,
                        NEW k \in 1 .. Len(T[i].records), NEW l \in 1 .. Len(T[j].records),
                        Earlier(i, k, j, l)
                 PROVE  T[i].records[k].mono <= T[j].records[l].mono
      BY <1>1 DEF Rising
    <3>1. CASE j = n /\ l = m + 1
      BY <1>1, <2>1, <3>1
    <3>2. CASE l \in 1 .. Len(S[j].records) /\ T[j].records[l] = S[j].records[l]
      <4>1. ~ (i = n /\ k = m + 1)
        <5> SUFFICES ASSUME i = n, k = m + 1 PROVE FALSE
          OBVIOUS
        <5>1. j = n /\ m + 1 < l
          BY <1>1 DEF Earlier
        <5>2. l \in 1 .. m
          BY <3>2, <5>1 DEF m
        <5> QED BY <1>1, <5>1, <5>2
      <4>2. k \in 1 .. Len(S[i].records) /\ T[i].records[k] = S[i].records[k]
        BY <1>2, <4>1
      <4> QED BY <1>7, <3>2, <4>2 DEF Rising
    <3> QED BY <1>2, <3>1, <3>2
  <2> QED BY <2>2, <2>3
<1> QED BY <1>4, <1>5, <1>6, <1>7

\* The session of the last record goes on after it.
LEMMA AppendLastAttaches ==
  ASSUME NEW v, NEW S, Segments(v, S), NEW r \in Record, NEW T, AppendPlaces(S, r, T),
         S[Len(S)].zst = "none",
         \A i \in 1 .. Len(S) : \A k \in 1 .. Len(S[i].records) :
           /\ Before(S[i].records[k], r)
           /\ i < Len(S) /\ S[i].records[k].session = r.session => Full(S[i])
  PROVE  Attached(T, [session |-> r.session, next |-> r.index + 1])
<1> DEFINE n == Len(S)
           m == Len(S[n].records)
           next == [session |-> r.session, index |-> r.index + 1]
<1>1. /\ n \in Nat /\ n >= 1 /\ m \in Nat
      /\ T \in Seq(File) /\ Len(T) = n
      /\ m + 1 \in 1 .. Len(T[n].records) /\ T[n].records[m + 1] = r
      /\ T[n].zst = "none"
  BY DEF AppendPlaces
<1>2. ASSUME NEW i \in 1 .. n
      PROVE  /\ Full(T[i]) = Full(S[i]) \/ i = n
             /\ \A k \in 1 .. Len(T[i].records) :
                  (i = n /\ k = m + 1) \/ (k \in 1 .. Len(S[i].records) /\ T[i].records[k] = S[i].records[k])
  BY DEF AppendPlaces
<1>3. r.session \in Nat /\ r.index \in Nat
  BY DEF Record
<1> HIDE DEF m
<1>4. Has(T, r.session, r.index)
  <2>1. n \in 1 .. Len(T)
    BY <1>1
  <2> QED BY <1>1, <2>1 DEF Has
<1>5. ASSUME NEW i \in 1 .. n, NEW k \in 1 .. Len(T[i].records)
      PROVE  /\ Before(T[i].records[k], next)
             /\ i < n /\ T[i].records[k].session = r.session => Full(T[i])
  <2>1. CASE i = n /\ k = m + 1
    BY <1>1, <1>3, <2>1 DEF Before
  <2>2. CASE k \in 1 .. Len(S[i].records) /\ T[i].records[k] = S[i].records[k]
    <3>1. S[i].records[k] \in Record
      BY <2>2, SegmentTypes
    <3>2. Before(S[i].records[k], r)
      BY <2>2
    <3>3. Before(S[i].records[k], next)
      BY <1>3, <3>1, <3>2 DEF Before, Record
    <3>4. ASSUME i < n, T[i].records[k].session = r.session PROVE Full(T[i])
      <4>1. Full(S[i])
        BY <2>2, <3>4
      <4>2. i # n
        BY <1>1, <3>4
      <4> QED BY <1>2, <4>1, <4>2
    <3> QED BY <2>2, <3>3, <3>4
  <2> QED BY <1>2, <2>1, <2>2
<1> DEFINE l == [session |-> r.session, next |-> r.index + 1]
<1>6. l.session = r.session /\ l.next - 1 = r.index
  BY <1>3
<1>7. Has(T, l.session, l.next - 1)
  <2> HIDE DEF l
  <2> QED BY <1>4, <1>6, Zenon
<1>8. next = [session |-> l.session, index |-> l.next] /\ l.session = r.session
  OBVIOUS
<1> HIDE DEF l
<1>9. Attached(T, l)
  BY <1>1, <1>5, <1>7, <1>8 DEF Attached
<1> QED BY <1>9 DEF l

LEMMA GrowsFurther ==
  ASSUME NEW v, NEW S, Segments(v, S), NEW T, Grows(S, T), NEW U, Grows(T, U)
  PROVE  Grows(S, U)
<1>1. /\ S \in Seq(File) /\ T \in Seq(File) /\ U \in Seq(File)
      /\ Len(S) \in Nat /\ Len(T) \in Nat /\ Len(U) \in Nat
      /\ Len(S) <= Len(T) /\ Len(T) <= Len(U)
  BY DEF Segments, Grows
<1>2. ASSUME NEW i \in 1 .. Len(S)
      PROVE  U[i].records = S[i].records /\ S[i].synced <= U[i].synced
  <2>1. i \in 1 .. Len(T) /\ i \in 1 .. Len(U)
    BY <1>1
  <2>a. S[i] \in File /\ T[i] \in File /\ U[i] \in File
    BY <1>1, <2>1
  <2>2. S[i].synced \in Nat \cup {-1} /\ T[i].synced \in Nat \cup {-1} /\ U[i].synced \in Nat \cup {-1}
    BY <2>a DEF File, NoHeader
  <2>3. S[i].synced <= T[i].synced /\ T[i].synced <= U[i].synced
    BY <2>1 DEF Grows
  <2>4. U[i].records = T[i].records /\ T[i].records = S[i].records
    BY <2>1 DEF Grows
  <2> QED BY <2>2, <2>3, <2>4
<1>3. ASSUME NEW i \in 1 .. Len(U)
      PROVE  /\ i > Len(S) => U[i].records = <<>>
             /\ U[i].synced <= Len(U[i].records)
             /\ U[i].zst # "none" => Full(U[i])
  <2>1. ASSUME i > Len(S) PROVE U[i].records = <<>>
    <3>1. CASE i > Len(T)
      BY <3>1 DEF Grows
    <3>2. CASE i <= Len(T)
      <4>1. i \in 1 .. Len(T)
        BY <3>2
      <4>2. U[i].records = T[i].records /\ T[i].records = <<>>
        BY <2>1, <4>1 DEF Grows
      <4> QED BY <4>2
    <3> QED BY <1>1, <3>1, <3>2
  <2> QED BY <2>1 DEF Grows
<1> QED BY <1>1, <1>2, <1>3 DEF Grows

LEMMA LastType ==
  ASSUME NEW v, NEW S, Segments(v, S)
  PROVE  /\ Len(S) \in Nat /\ Len(S) >= 1 /\ Len(S) \in 1 .. Len(S) /\ S \in Seq(File)
         /\ Last(S) = S[Len(S)] /\ S[Len(S)] \in File
         /\ Len(S[Len(S)].records) \in Nat /\ S[Len(S)].synced <= Len(S[Len(S)].records)
<1>1. Len(S) \in Nat /\ Len(S) >= 1 /\ S \in Seq(File)
  BY DEF Segments
<1>2. Len(S) \in 1 .. Len(S)
  BY <1>1
<1>3. /\ S[Len(S)] \in File
      /\ Len(S[Len(S)].records) \in Nat /\ S[Len(S)].synced <= Len(S[Len(S)].records)
  BY <1>2, SegmentTypes
<1> QED BY <1>1, <1>2, <1>3 DEF Last

LEMMA ToSetHas ==
  ASSUME NEW A, NEW s \in Seq(A)
  PROVE  \A k \in 1 .. Len(s) : s[k] \in ToSet(s)
BY DEF ToSet

\* An fsync of the last segment covers its records.
LEMMA LastSynced ==
  ASSUME NEW v, NEW S, Segments(v, S), NEW T, Grows(S, T), Full(T[Len(S)]),
         NEW r \in ToSet(Last(S).records)
  PROVE  r \in Record /\ r.venue = v /\ Synced(T, r)
<1> DEFINE n == Len(S)
<1>1. n \in Nat /\ n >= 1 /\ n \in 1 .. n /\ Last(S) = S[n]
  BY SegmentTypes DEF Segments, Last
<1>2. PICK k \in 1 .. Len(S[n].records) : r = S[n].records[k]
  BY <1>1, SegmentTypes DEF ToSet
<1>3. r \in Record /\ r.venue = v
  BY <1>1, <1>2, SegmentTypes
<1>4. n \in 1 .. Len(T) /\ T[n].records = S[n].records /\ T[n].synced = Len(S[n].records)
  BY <1>1 DEF Grows, Full
<1>5. Synced(T, r)
  BY <1>2, <1>4 DEF Synced
<1> QED BY <1>3, <1>5

LEMMA LeastElement ==
  ASSUME NEW T, T \subseteq Nat, T # {}
  PROVE  \E m \in T : \A k \in T : m <= k
<1>1. PICK m \in T : \A k \in T : ~ (<<k, m>> \in OpToRel(<, Nat))
  BY WFMin, NatLessThanWellFounded, Zenon
<1>2. \A k \in T : ~ (k < m)
  BY <1>1, Zenon DEF OpToRel
<1> QED BY <1>2

\* A bounded set of numbers has a greatest.
LEMMA MaxIsGreatest ==
  ASSUME NEW X, X \subseteq Nat, 0 \in X, NEW n \in Nat, \A x \in X : x <= n
  PROVE  Max(X) \in X /\ \A x \in X : x <= Max(X)
<1> DEFINE B == {m \in Nat : \A x \in X : x <= m}
<1>1. PICK m \in B : \A k \in B : m <= k
  <2>1. n \in B /\ B \subseteq Nat
    OBVIOUS
  <2> HIDE DEF B
  <2> QED BY <2>1, LeastElement
<1>2. m \in Nat /\ \A x \in X : x <= m
  BY <1>1
<1>3. m \in X
  <2> SUFFICES ASSUME m \notin X PROVE FALSE
    OBVIOUS
  <2>1. \A x \in X : x < m
    BY <1>2
  <2>2. m - 1 \in Nat /\ \A x \in X : x <= m - 1
    BY <1>2, <2>1
  <2>3. m - 1 \in B
    BY <2>2
  <2>4. m <= m - 1
    BY <1>1, <2>3
  <2> QED BY <1>2, <2>4
<1>4. \E x \in X : \A y \in X : x >= y
  BY <1>2, <1>3
<1> QED BY <1>4 DEF Max

\* Steps that move no record.
LEMMA GrowthKeepsLogInv ==
  ASSUME LogInv, LogTypeOK',
         \A v \in Venues : Grows(files[v], files'[v]),
         runs' = 1 => runs = 1 /\ mono' = mono,
         phase' = "capture" => \A v \in Venues : Attached(files'[v], live'[v]),
         \A r \in durable' : r \in durable \/ Synced(files'[r.venue], r)
  PROVE  LogInv'
<1>1. \A v \in Venues : Segments(v, files[v]) /\ Log(v, files[v])
  BY DEF LogInv, Log
<1>2. \A v \in Venues : Log(v, files'[v])
  BY <1>1, GrowsKeepsLog
<1>3. \E n \in Nat : \A v \in Venues : Sessions(files'[v], n)
  <2>1. PICK n \in Nat : \A v \in Venues : Sessions(files[v], n)
    BY DEF LogInv
  <2> QED BY <1>1, <2>1, GrowsKeepsMore
<1>4. ASSUME runs' = 1, NEW v \in Venues PROVE Rising(files'[v]) /\ UpTo(files'[v], mono')
  <2>1. Rising(files[v]) /\ UpTo(files[v], mono) /\ mono' = mono
    BY <1>4 DEF LogInv
  <2> QED BY <1>1, <2>1, GrowsKeepsMore
<1>5. ASSUME NEW r \in durable' PROVE Synced(files'[r.venue], r)
  <2>1. CASE r \in durable
    <3>1. Synced(files[r.venue], r) /\ r.venue \in Venues
      BY <2>1 DEF LogInv, LogTypeOK, Record
    <3> QED BY <1>1, <3>1, GrowsKeepsMore
  <2> QED BY <2>1
<1> QED BY <1>2, <1>3, <1>4, <1>5 DEF LogInv

\* The segments a record is appended to.
LEMMA MaybeRotateKeeps ==
  ASSUME LogInv, phase = "capture", NEW v \in Venues, NEW S \in MaybeRotate(v)
  PROVE  /\ Grows(files[v], S) /\ Log(v, S) /\ Attached(S, live[v])
         /\ S # files[v] => Full(S[Len(files[v])])
<1>1. Log(v, files[v]) /\ Segments(v, files[v]) /\ Attached(files[v], live[v])
  BY DEF LogInv, Log
<1>2. CASE S = files[v]
  BY <1>1, <1>2, GrowsItself
<1>3. CASE S # files[v]
  <2>1. PICK zst \in {"none", "partial"} : S = Rotated(files[v], zst)
    BY <1>3 DEF MaybeRotate
  <2>2. /\ Grows(files[v], S) /\ Len(S) = Len(files[v]) + 1
        /\ S[Len(files[v]) + 1] = NewFile /\ Full(S[Len(files[v])])
    BY <1>1, <2>1, RotatedGrows
  <2>3. Log(v, S)
    BY <1>1, <2>2, GrowsKeepsLog
  <2>4. S[Len(S)].zst = "none"
    BY <2>2, NewFileType
  <2>5. Attached(S, live[v])
    BY <1>1, <2>2, <2>4, GrowsKeepsAttached
  <2> QED BY <2>2, <2>3, <2>5
<1> QED BY <1>2, <1>3

\* An append keeps the invariant if the record comes after all of its venue.
LEMMA AppendKeepsLogInv ==
  ASSUME LogInv, phase = "capture", NEW v \in Venues, NEW S \in MaybeRotate(v),
         NEW r \in Record, r.venue = v, mono <= r.mono,
         \A i \in 1 .. Len(S) : \A k \in 1 .. Len(S[i].records) :
           /\ Before(S[i].records[k], r)
           /\ i < Len(S) /\ S[i].records[k].session = r.session => Full(S[i]),
         r.index > 0 => Has(S, r.session, r.index - 1),
         mono' = r.mono, phase' = phase, runs' = runs,
         files' = [files EXCEPT ![v] = AppendLast(S, r)],
         durable' = IF S = files[v] THEN durable ELSE durable \cup ToSet(Last(files[v]).records),
         live' = [live EXCEPT ![v] = [session |-> r.session, next |-> r.index + 1]]
  PROVE  LogInv'
<1> DEFINE T == AppendLast(S, r)
<1>1. /\ LogTypeOK /\ Segments(v, files[v])
      /\ \A w \in Venues : Log(w, files[w]) /\ Attached(files[w], live[w])
  BY DEF LogInv, Log
<1>2. /\ Grows(files[v], S) /\ Log(v, S) /\ Segments(v, S) /\ Attached(S, live[v])
      /\ S # files[v] => Full(S[Len(files[v])])
  BY MaybeRotateKeeps DEF Log
<1>3. AppendPlaces(S, r, T)
  BY <1>2, AppendLastPlaces
<1>4. Log(v, T)
  BY <1>2, AppendLastKeeps DEF Attached
<1>5. Attached(T, [session |-> r.session, next |-> r.index + 1])
  BY <1>2, <1>3, AppendLastAttaches DEF Attached
<1> HIDE DEF T
<1>6. T \in Seq(File)
  BY <1>4 DEF Log, Segments
<1>7. /\ files'[v] = T /\ \A w \in Venues : w # v => files'[w] = files[w]
      /\ files' \in [Venues -> Seq(File)]
  BY <1>1, <1>6 DEF LogTypeOK, T
<1>8. /\ live'[v] = [session |-> r.session, next |-> r.index + 1]
      /\ \A w \in Venues : w # v => live'[w] = live[w]
      /\ live' \in [Venues -> [session : Nat, next : Nat]]
  BY <1>1 DEF LogTypeOK, Record
<1>9. ASSUME NEW x \in ToSet(Last(files[v]).records), S # files[v]
      PROVE  x \in Record /\ Synced(T, x) /\ x.venue = v
  <2>1. x \in Record /\ x.venue = v /\ Synced(S, x)
    BY <1>1, <1>2, <1>9, LastSynced
  <2> QED BY <1>2, <1>3, <2>1, AppendLastKeepsMore
<1>10. LogTypeOK'
  <2>1. durable' \subseteq Record
    BY <1>1, <1>9 DEF LogTypeOK
  <2>2. mono' \in Nat
    BY DEF Record
  <2> QED BY <1>1, <1>7, <1>8, <2>1, <2>2 DEF LogTypeOK
<1>11. ASSUME NEW w \in Venues PROVE Log(w, files'[w]) /\ Attached(files'[w], live'[w])
  BY <1>1, <1>4, <1>5, <1>7, <1>8
<1>12. \E n \in Nat : \A w \in Venues : Sessions(files'[w], n)
  <2>1. PICK n \in Nat : \A w \in Venues : Sessions(files[w], n)
    BY DEF LogInv
  <2>2. PICK m \in Nat : n <= m /\ r.session <= m
    <3>1. r.session \in Nat
      BY DEF Record
    <3>2. CASE n <= r.session
      BY <3>1, <3>2
    <3>3. CASE r.session <= n
      BY <3>3
    <3> QED BY <3>1, <3>2, <3>3
  <2>3. Sessions(S, n)
    BY <1>1, <1>2, <2>1, GrowsKeepsMore
  <2>4. Sessions(T, m)
    BY <1>2, <1>3, <2>2, <2>3, AppendLastKeepsMore
  <2>5. ASSUME NEW w \in Venues, w # v PROVE Sessions(files[w], m)
    <3> SUFFICES ASSUME NEW i \in 1 .. Len(files[w]), NEW k \in 1 .. Len(files[w][i].records)
                 PROVE  files[w][i].records[k].session <= m
      BY DEF Sessions
    <3>1. files[w][i].records[k].session <= n
      BY <2>1 DEF Sessions
    <3>2. files[w][i].records[k] \in Record
      BY <1>1, SegmentTypes DEF Log
    <3> QED BY <2>2, <3>1, <3>2 DEF Record
  <2> QED BY <1>7, <2>4, <2>5
<1>13. ASSUME runs' = 1, NEW w \in Venues PROVE Rising(files'[w]) /\ UpTo(files'[w], mono')
  <2>1. Rising(files[w]) /\ UpTo(files[w], mono) /\ Rising(files[v]) /\ UpTo(files[v], mono) /\ mono \in Nat
    BY <1>13 DEF LogInv, LogTypeOK
  <2>2. CASE w = v
    <3>1. Rising(S) /\ UpTo(S, mono)
      BY <1>1, <1>2, <2>1, GrowsKeepsMore
    <3>2. Rising(T) /\ UpTo(T, r.mono)
      BY <1>2, <1>3, <2>1, <3>1, AppendLastKeepsMore
    <3> QED BY <1>7, <2>2, <3>2
  <2>3. CASE w # v
    <3> SUFFICES ASSUME NEW i \in 1 .. Len(files[w]), NEW k \in 1 .. Len(files[w][i].records)
                 PROVE  files[w][i].records[k].mono <= r.mono
      BY <1>7, <2>1, <2>3 DEF UpTo
    <3>1. files[w][i].records[k].mono <= mono
      BY <2>1 DEF UpTo
    <3>2. files[w][i].records[k] \in Record
      BY <1>1, SegmentTypes DEF Log
    <3> QED BY <2>1, <3>1, <3>2 DEF Record
  <2> QED BY <2>2, <2>3
<1>14. ASSUME NEW x \in durable' PROVE Synced(files'[x.venue], x)
  <2>1. CASE x \in durable
    <3>1. x \in Record /\ Synced(files[x.venue], x)
      BY <2>1 DEF LogInv, LogTypeOK
    <3>2. CASE x.venue = v
      <4>1. Synced(S, x)
        BY <1>1, <1>2, <3>1, <3>2, GrowsKeepsMore
      <4>2. Synced(T, x)
        BY <1>2, <1>3, <4>1, AppendLastKeepsMore
      <4> QED BY <1>7, <3>2, <4>2
    <3>3. CASE x.venue # v
      BY <1>7, <3>1, <3>3 DEF Record
    <3> QED BY <3>2, <3>3
  <2>2. CASE x \notin durable
    BY <1>7, <1>9, <2>2
  <2> QED BY <2>1, <2>2
<1> QED BY <1>10, <1>11, <1>12, <1>13, <1>14 DEF LogInv

-----------------------------------------------------------------------------
(* The steps of the capture keep LogInv. *)

LEMMA ConnectKeepsLogInv ==
  ASSUME LogInv, NEW v \in Venues, Connect(v)
  PROVE  LogInv'
<1> DEFINE X == {0} \cup {r.session : r \in AllRecords}
           session == 1 + Max(X)
<1>1. PICK t \in {mono, mono + 1} :
        AppendRecord(v, [venue |-> v, session |-> session, index |-> 0, mono |-> t])
  BY DEF Connect, Ticks
<1> DEFINE r == [venue |-> v, session |-> session, index |-> 0, mono |-> t]
<1>2. /\ LogTypeOK /\ phase = "capture" /\ phase' = phase /\ runs' = runs
      /\ live' = [live EXCEPT ![v] = [session |-> session, next |-> 1]]
      /\ \A w \in Venues : Segments(w, files[w])
  BY DEF Connect, LogInv, Log
<1>3. PICK S \in MaybeRotate(v) :
        /\ files' = [files EXCEPT ![v] = AppendLast(S, r)]
        /\ durable' = IF S = files[v] THEN durable ELSE durable \cup ToSet(Last(files[v]).records)
  BY <1>1 DEF AppendRecord, AppendLast
<1>4. /\ Grows(files[v], S) /\ Log(v, S) /\ Segments(v, S) /\ Attached(S, live[v])
  BY <1>2, MaybeRotateKeeps DEF Log
<1>5. Max(X) \in X /\ \A x \in X : x <= Max(X)
  <2>1. PICK n \in Nat : \A w \in Venues : Sessions(files[w], n)
    BY DEF LogInv
  <2>2. ASSUME NEW x \in AllRecords PROVE x.session \in Nat /\ x.session <= n
    <3>1. PICK w \in Venues : \E f \in ToSet(files[w]) : x \in ToSet(f.records)
      BY DEF AllRecords
    <3>2. PICK i \in 1 .. Len(files[w]) : x \in ToSet(files[w][i].records)
      BY <1>2, <3>1 DEF ToSet, Segments
    <3>3. PICK k \in 1 .. Len(files[w][i].records) : x = files[w][i].records[k]
      BY <1>2, <3>2, SegmentTypes DEF ToSet
    <3>4. x \in Record
      BY <1>2, <3>3, SegmentTypes
    <3> QED BY <2>1, <3>3, <3>4 DEF Sessions, Record
  <2>3. X \subseteq Nat /\ 0 \in X /\ \A x \in X : x <= n
    BY <2>2
  <2> HIDE DEF X
  <2> QED BY <2>3, MaxIsGreatest
<1>6. ASSUME NEW i \in 1 .. Len(files[v]), NEW k \in 1 .. Len(files[v][i].records)
      PROVE  files[v][i].records[k].session \in X
  <2>1. files[v] \in Seq(File) /\ files[v][i].records \in Seq(Record)
    BY <1>2, SegmentTypes DEF Segments
  <2>2. files[v][i] \in ToSet(files[v]) /\ files[v][i].records[k] \in ToSet(files[v][i].records)
    BY <2>1, ToSetHas
  <2> QED BY <2>2 DEF AllRecords
<1>7. Max(X) \in Nat
  <2>1. ASSUME NEW x \in AllRecords PROVE x.session \in Nat
    <3>1. PICK w \in Venues : \E f \in ToSet(files[w]) : x \in ToSet(f.records)
      BY DEF AllRecords
    <3>2. PICK i \in 1 .. Len(files[w]) : x \in ToSet(files[w][i].records)
      BY <1>2, <3>1 DEF ToSet, Segments
    <3>3. PICK k \in 1 .. Len(files[w][i].records) : x = files[w][i].records[k]
      BY <1>2, <3>2, SegmentTypes DEF ToSet
    <3> QED BY <1>2, <3>3, SegmentTypes DEF Record
  <2> QED BY <1>5, <2>1
<1> HIDE DEF X
<1>8. ASSUME NEW i \in 1 .. Len(S), NEW k \in 1 .. Len(S[i].records)
      PROVE  S[i].records[k].session \in Nat /\ S[i].records[k].session < session
  <2>1. i \in 1 .. Len(files[v]) /\ S[i].records = files[v][i].records /\ k \in 1 .. Len(files[v][i].records)
    BY <1>2, <1>4, GrowsPlaces
  <2>2. S[i].records[k].session <= Max(X)
    BY <1>5, <1>6, <2>1
  <2>3. S[i].records[k].session \in Nat
    BY <1>4, SegmentTypes DEF Record
  <2> QED BY <1>7, <2>2, <2>3
<1>9. session \in Nat /\ t \in Nat /\ mono <= t
  BY <1>2, <1>7 DEF LogTypeOK
<1> HIDE DEF session
<1>10. r \in Record /\ r.venue = v /\ r.session = session /\ r.index = 0 /\ r.mono = t
  BY <1>9 DEF Record
<1>11. live' = [live EXCEPT ![v] = [session |-> r.session, next |-> r.index + 1]]
  BY <1>2, <1>10
<1>12. mono' = r.mono
  BY <1>1 DEF AppendRecord
<1> HIDE DEF r
<1>13. ASSUME NEW i \in 1 .. Len(S), NEW k \in 1 .. Len(S[i].records)
       PROVE  /\ Before(S[i].records[k], r)
              /\ i < Len(S) /\ S[i].records[k].session = r.session => Full(S[i])
  BY <1>8, <1>9, <1>10 DEF Before
<1>14. mono <= r.mono /\ ~ (r.index > 0)
  BY <1>9, <1>10
<1> QED BY <1>2, <1>3, <1>10, <1>11, <1>12, <1>13, <1>14, AppendKeepsLogInv

LEMMA CaptureKeepsLogInv ==
  ASSUME LogInv, NEW v \in Venues, Capture(v)
  PROVE  LogInv'
<1>1. PICK t \in {mono, mono + 1} :
        AppendRecord(v, [venue |-> v, session |-> live[v].session, index |-> live[v].next, mono |-> t])
  BY DEF Capture, Ticks
<1> DEFINE r == [venue |-> v, session |-> live[v].session, index |-> live[v].next, mono |-> t]
<1>2. /\ LogTypeOK /\ phase = "capture" /\ phase' = phase /\ runs' = runs /\ live[v] # NoSession
      /\ live' = [live EXCEPT ![v].next = @ + 1]
  BY DEF Capture, LogInv
<1>3. PICK S \in MaybeRotate(v) :
        /\ files' = [files EXCEPT ![v] = AppendLast(S, r)]
        /\ durable' = IF S = files[v] THEN durable ELSE durable \cup ToSet(Last(files[v]).records)
  BY <1>1 DEF AppendRecord, AppendLast
<1>4. Attached(S, live[v])
  BY <1>2, MaybeRotateKeeps
<1>5. live \in [Venues -> [session : Nat, next : Nat]] /\ mono \in Nat /\ t \in Nat /\ mono <= t
  BY <1>2 DEF LogTypeOK
<1>6. /\ r \in Record /\ r.venue = v /\ r.session = live[v].session /\ r.index = live[v].next
      /\ r.mono = t
  BY <1>5 DEF Record
<1>7. live' = [live EXCEPT ![v] = [session |-> r.session, next |-> r.index + 1]]
  <2>1. live[v] \in [session : Nat, next : Nat]
    BY <1>5
  <2>2. [live[v] EXCEPT !.next = @ + 1] = [session |-> r.session, next |-> r.index + 1]
    BY <2>1
  <2>3. live' = [live EXCEPT ![v] = [live[v] EXCEPT !.next = @ + 1]]
    BY <1>2
  <2> QED BY <2>2, <2>3
<1>8. mono' = r.mono
  BY <1>1 DEF AppendRecord
<1> HIDE DEF r
<1>9. ASSUME NEW i \in 1 .. Len(S), NEW k \in 1 .. Len(S[i].records)
      PROVE  /\ Before(S[i].records[k], r)
             /\ i < Len(S) /\ S[i].records[k].session = r.session => Full(S[i])
  <2>1. /\ Before(S[i].records[k], [session |-> live[v].session, index |-> live[v].next])
        /\ i < Len(S) /\ S[i].records[k].session = live[v].session => Full(S[i])
    BY <1>2, <1>4 DEF Attached
  <2> QED BY <1>6, <2>1 DEF Before
<1>10. Has(S, r.session, r.index - 1)
  <2>1. Has(S, live[v].session, live[v].next - 1)
    BY <1>2, <1>4 DEF Attached
  <2> QED BY <1>6, <2>1
<1>11. mono <= r.mono
  BY <1>5, <1>6
<1> QED BY <1>2, <1>3, <1>6, <1>7, <1>8, <1>9, <1>10, <1>11, AppendKeepsLogInv

LEMMA SyncTickKeepsLogInv ==
  ASSUME LogInv, NEW v \in Venues, SyncTick(v)
  PROVE  LogInv'
<1> DEFINE S == files[v]
           n == Len(S)
           synced == [S EXCEPT ![n] = SyncedFile(@)]
<1>1. /\ LogTypeOK /\ phase = "capture" /\ phase' = phase /\ runs' = runs /\ mono' = mono /\ live' = live
      /\ durable' = durable \cup SyncedOf(Last(synced))
      /\ \A w \in Venues : Log(w, files[w]) /\ Segments(w, files[w]) /\ Attached(files[w], live[w])
  BY DEF SyncTick, LogInv, Log
<1>2. n \in Nat /\ n >= 1 /\ n \in 1 .. n /\ S \in Seq(File) /\ S[n] \in File /\ S[n].synced <= Len(S[n].records)
      /\ S[n].zst = "none"
  BY <1>1, LastType DEF Attached
<1>3. /\ SyncedFile(S[n]) \in File /\ SyncedFile(S[n]).records = S[n].records
      /\ SyncedFile(S[n]).zst = "none" /\ Full(SyncedFile(S[n]))
  BY <1>2, SyncedFileType
<1>4. synced = [S EXCEPT ![n] = SyncedFile(S[n])]
  OBVIOUS
<1>5. /\ synced \in Seq(File) /\ Len(synced) = n /\ synced[n] = SyncedFile(S[n])
      /\ Last(synced) = SyncedFile(S[n])
  BY <1>2, <1>3, <1>4 DEF Last
<1>6. Grows(S, synced)
  <2>1. /\ Segments(v, S) /\ n \in 1 .. Len(S) /\ SyncedFile(S[n]) \in File
        /\ SyncedFile(S[n]).records = S[n].records
        /\ SyncedFile(S[n]).zst # "none" => Full(SyncedFile(S[n]))
    BY <1>1, <1>2, <1>3
  <2>2. Len(S[n].records) \in Nat /\ SyncedFile(S[n]).synced = Len(S[n].records)
    BY <1>1, <1>2, <1>3, SegmentTypes DEF Full
  <2>3. S[n].synced <= SyncedFile(S[n]).synced /\ SyncedFile(S[n]).synced <= Len(SyncedFile(S[n]).records)
    BY <1>2, <1>3, <2>2
  <2> HIDE DEF S, n, synced
  <2>4. Grows(S, [S EXCEPT ![n] = SyncedFile(S[n])])
    BY <2>1, <2>3, ReplaceGrows
  <2> QED BY <1>4, <2>4
<1>7. Segments(v, synced)
  BY <1>1, <1>6, GrowsKeepsLog DEF Log
<1>8. PICK T : /\ files' = [files EXCEPT ![v] = T]
               /\ T = synced \/ \E zst \in {"none", "partial"} : T = Rotated(synced, zst)
  BY <1>1 DEF SyncTick
<1>9. /\ Grows(S, T) /\ T \in Seq(File) /\ Full(T[n]) /\ T[Len(T)].zst = "none"
  <2>1. CASE T = synced
    BY <1>3, <1>5, <1>6, <2>1
  <2>2. CASE T # synced
    <3>1. PICK zst \in {"none", "partial"} : T = Rotated(synced, zst)
      BY <1>8, <2>2
    <3> HIDE DEF synced
    <3>2. /\ Grows(synced, T) /\ Len(T) = n + 1 /\ T[n + 1] = NewFile /\ Full(T[n])
      BY <1>5, <1>7, <3>1, RotatedGrows
    <3>3. Grows(S, T)
      BY <1>1, <1>6, <3>2, GrowsFurther
    <3>4. T[Len(T)].zst = "none"
      BY <3>2, NewFileType
    <3> QED BY <3>2, <3>3, <3>4 DEF Grows
  <2> QED BY <2>1, <2>2
<1>10. Attached(T, live[v])
  BY <1>1, <1>9, GrowsKeepsAttached
<1>11. ASSUME NEW r \in SyncedOf(Last(synced)) PROVE r \in Record /\ r.venue = v /\ Synced(T, r)
  <2>1. PICK k \in 1 .. Len(S[n].records) : r = S[n].records[k]
    BY <1>3, <1>5, <1>11 DEF SyncedOf, Full
  <2>2. Last(S) = S[n] /\ S[n].records \in Seq(Record)
    BY <1>1, <1>2, SegmentTypes DEF Last
  <2>3. r \in ToSet(Last(S).records)
    BY <2>1, <2>2, ToSetHas
  <2> QED BY <1>1, <1>9, <2>3, LastSynced
<1> HIDE DEF synced
<1>12. /\ files'[v] = T /\ \A w \in Venues : w # v => files'[w] = files[w]
       /\ files' \in [Venues -> Seq(File)]
  BY <1>1, <1>8, <1>9 DEF LogTypeOK
<1>13. LogTypeOK'
  <2>1. durable' \subseteq Record
    BY <1>1, <1>11 DEF LogTypeOK
  <2> QED BY <1>1, <1>12, <2>1 DEF LogTypeOK
<1>14. \A w \in Venues : Grows(files[w], files'[w])
  BY <1>1, <1>9, <1>12, GrowsItself
<1>15. \A w \in Venues : Attached(files'[w], live'[w])
  BY <1>1, <1>10, <1>12
<1>16. \A r \in durable' : r \in durable \/ Synced(files'[r.venue], r)
  BY <1>1, <1>11, <1>12
<1> QED BY <1>1, <1>13, <1>14, <1>15, <1>16, GrowthKeepsLogInv

LEMMA CompressDoneKeepsLogInv ==
  ASSUME LogInv, NEW v \in Venues, NEW i, CompressDone(v, i)
  PROVE  LogInv'
<1> DEFINE S == files[v]
           f == [S[i] EXCEPT !.zst = "done"]
           T == [S EXCEPT ![i] = f]
<1>1. /\ LogTypeOK /\ phase = "down" /\ phase' = phase /\ runs' = runs /\ mono' = mono
      /\ live' = live /\ durable' = durable
      /\ i \in DOMAIN S /\ S[i].zst = "partial"
      /\ \A w \in Venues : Log(w, files[w]) /\ Segments(w, files[w])
  BY DEF CompressDone, LogInv, Log
<1>2. files' = [files EXCEPT ![v] = T]
  BY DEF CompressDone
<1>3. i \in 1 .. Len(S) /\ S[i] \in File /\ S \in Seq(File)
  BY <1>1 DEF Segments
<1>4. /\ f \in File /\ f.records = S[i].records /\ f.synced = S[i].synced /\ Full(f)
  <2>1. Full(S[i])
    BY <1>1, <1>3 DEF Segments
  <2> QED BY <1>3, <2>1 DEF File, Full
<1>5. S[i].synced <= f.synced /\ f.synced <= Len(f.records)
  BY <1>1, <1>3, <1>4, SegmentTypes
<1> HIDE DEF f
<1>6. Grows(S, T)
  BY <1>1, <1>3, <1>4, <1>5, ReplaceGrows
<1>7. T \in Seq(File)
  BY <1>6 DEF Grows
<1> HIDE DEF T
<1>8. /\ files'[v] = T /\ \A w \in Venues : w # v => files'[w] = files[w]
      /\ files' \in [Venues -> Seq(File)]
  BY <1>1, <1>2, <1>7 DEF LogTypeOK
<1>9. LogTypeOK'
  BY <1>1, <1>8 DEF LogTypeOK
<1>10. \A w \in Venues : Grows(files[w], files'[w])
  BY <1>1, <1>6, <1>8, GrowsItself
<1> QED BY <1>1, <1>9, <1>10, GrowthKeepsLogInv

LEMMA FinishKeepsLogInv ==
  ASSUME LogInv, Finish
  PROVE  LogInv'
<1>1. /\ LogTypeOK /\ phase' = "down" /\ runs' = runs /\ mono' = mono /\ live' = live
      /\ files' = [v \in Venues |-> Front(files[v]) \o <<SyncedFile(Last(files[v]))>>]
      /\ durable' = durable \cup UNION {ToSet(Last(files[v]).records) : v \in Venues}
      /\ \A w \in Venues : Log(w, files[w]) /\ Segments(w, files[w])
  BY DEF Finish, LogInv, Log
<1>2. ASSUME NEW v \in Venues
      PROVE  Grows(files[v], files'[v]) /\ Full(files'[v][Len(files[v])])
  <2> DEFINE S == files[v]
             f == SyncedFile(Last(S))
             T == Front(S) \o <<f>>
  <2>1. files'[v] = T
    BY <1>1
  <2>2. Last(S) = S[Len(S)] /\ Last(S) \in File /\ Last(S).synced <= Len(Last(S).records) /\ Segments(v, S)
        /\ Len(Last(S).records) \in Nat
    BY <1>1, LastType
  <2>3. f \in File /\ f.records = Last(S).records /\ Full(f)
    BY <2>2, SyncedFileType
  <2> HIDE DEF f
  <2>4. f.synced = Len(f.records)
    BY <2>3 DEF Full
  <2>5. Last(S).synced <= f.synced /\ f.synced <= Len(f.records) /\ (f.zst # "none" => Full(f))
    BY <2>2, <2>3, <2>4
  <2>6. T = Front(S) \o <<f>> \/ T = Front(S) \o <<f, NewFile>>
    OBVIOUS
  <2> HIDE DEF T, S
  <2>7. Closes(S, f, T)
    BY <2>2, <2>3, <2>5, <2>6, CloseGrows
  <2>8. Grows(S, T) /\ Full(T[Len(S)])
    BY <2>3, <2>7 DEF Closes
  <2> QED BY <2>1, <2>8 DEF S
<1>3. ASSUME NEW v \in Venues, NEW r \in ToSet(Last(files[v]).records)
      PROVE  r \in Record /\ r.venue = v /\ Synced(files'[v], r)
  BY <1>1, <1>2, <1>3, LastSynced
<1>4. LogTypeOK'
  <2>1. durable' \subseteq Record
    BY <1>1, <1>3 DEF LogTypeOK
  <2>2. files' \in [Venues -> Seq(File)]
    BY <1>1, <1>2 DEF Grows
  <2> QED BY <1>1, <2>1, <2>2 DEF LogTypeOK
<1>5. \A r \in durable' : r \in durable \/ Synced(files'[r.venue], r)
  BY <1>1, <1>3
<1> QED BY <1>1, <1>2, <1>4, <1>5, GrowthKeepsLogInv

LEMMA RestartKeepsLogInv ==
  ASSUME LogInv, Restart
  PROVE  LogInv'
<1>1. /\ LogTypeOK /\ phase' = "capture" /\ runs' = runs + 1 /\ mono' = 0 /\ durable' = durable
      /\ files' = [v \in Venues |-> Append(files[v], NewFile)]
      /\ live' = [v \in Venues |-> NoSession]
      /\ \A w \in Venues : Log(w, files[w]) /\ Segments(w, files[w])
  BY DEF Restart, LogInv, Log
<1>2. ASSUME NEW v \in Venues
      PROVE  Grows(files[v], files'[v]) /\ Attached(files'[v], live'[v])
  <2> DEFINE T == Append(files[v], NewFile)
  <2>1. files'[v] = T /\ live'[v] = NoSession
    BY <1>1
  <2>2. Grows(files[v], T) /\ Len(T) = Len(files[v]) + 1 /\ T[Len(files[v]) + 1] = NewFile
    BY <1>1, NewFileGrows
  <2> HIDE DEF T
  <2>3. T[Len(T)].zst = "none"
    BY <2>2, NewFileType
  <2> QED BY <2>1, <2>2, <2>3 DEF Attached
<1>3. LogTypeOK'
  <2>1. files' \in [Venues -> Seq(File)]
    BY <1>1, <1>2 DEF Grows
  <2>2. NoSession \in [session : Nat, next : Nat]
    BY DEF NoSession
  <2>3. live' \in [Venues -> [session : Nat, next : Nat]]
    BY <1>1, <2>2
  <2>4. mono' \in Nat /\ runs' \in Nat /\ runs' >= 1
    BY <1>1 DEF LogTypeOK
  <2> QED BY <1>1, <2>1, <2>3, <2>4 DEF LogTypeOK
<1>4. runs' # 1
  BY <1>1 DEF LogTypeOK
<1> QED BY <1>1, <1>2, <1>3, <1>4, GrowthKeepsLogInv

LEMMA LogInvFirst == Init => LogInv
<1> SUFFICES ASSUME Init PROVE LogInv
  OBVIOUS
<1>1. /\ phase = "capture" /\ mono = 0 /\ runs = 1 /\ durable = {}
      /\ files = [v \in Venues |-> <<NewFile>>] /\ live = [v \in Venues |-> NoSession]
  BY DEF Init
<1>2. NoSession \in [session : Nat, next : Nat]
  BY DEF NoSession
<1>3. LogTypeOK
  <2>1. <<NewFile>> \in Seq(File)
    BY NewFileType
  <2> QED BY <1>1, <1>2, <2>1 DEF LogTypeOK
<1> DEFINE S == <<NewFile>>
<1>4. /\ S \in Seq(File) /\ Len(S) = 1 /\ \A i \in 1 .. Len(S) : S[i] = NewFile
  BY NewFileType
<1>5. /\ S[Len(S)].zst = "none"
      /\ \A i \in 1 .. Len(S) : /\ Len(S[i].records) = 0 /\ S[i].synced = -1 /\ S[i].zst = "none"
                                /\ \A k \in 1 .. Len(S[i].records) : FALSE
  BY <1>4, NewFileType
<1>6. \A v \in Venues : files[v] = S /\ live[v] = NoSession
  BY <1>1
<1> HIDE DEF S
<1>7. \A v \in Venues : Segments(v, S)
  BY <1>4, <1>5 DEF Segments
<1>8. InOrder(S) /\ NoHole(S) /\ Spans(S) /\ Rising(S) /\ UpTo(S, mono) /\ Sessions(S, 0)
  BY <1>5 DEF InOrder, NoHole, Spans, Rising, UpTo, Sessions
<1>9. Attached(S, NoSession)
  BY <1>5 DEF Attached
<1> QED BY <1>1, <1>3, <1>6, <1>7, <1>8, <1>9 DEF LogInv, Log

LEMMA LogInvStep == LogInv /\ [Next]_vars => LogInv'
<1> SUFFICES ASSUME LogInv, [Next]_vars PROVE LogInv'
  OBVIOUS
<1>1. ASSUME phase' # "capture" \/ phase' = phase, phase' \in {"capture", "down", "replaying", "replayed"},
             captureVars' = captureVars
      PROVE  LogInv'
  <2>1. files' = files /\ mono' = mono /\ live' = live /\ runs' = runs /\ durable' = durable
    BY <1>1 DEF captureVars
  <2>2. LogTypeOK'
    BY <1>1, <2>1 DEF LogInv, LogTypeOK
  <2> QED BY <1>1, <2>1, <2>2 DEF LogInv
<1>2. CASE UNCHANGED vars
  BY <1>1, <1>2 DEF vars, LogInv, LogTypeOK
<1>3. CASE \E v \in Venues : Connect(v)
  BY <1>3, ConnectKeepsLogInv
<1>4. CASE \E v \in Venues : Capture(v)
  BY <1>4, CaptureKeepsLogInv
<1>5. CASE \E v \in Venues : SyncTick(v)
  BY <1>5, SyncTickKeepsLogInv
<1>6. CASE \E v \in Venues : \E i \in 1 .. MaxFiles : CompressDone(v, i)
  BY <1>6, CompressDoneKeepsLogInv
<1>7. CASE Crash
  BY <1>1, <1>7 DEF Crash
<1>8. CASE Finish
  BY <1>8, FinishKeepsLogInv
<1>9. CASE Restart
  BY <1>9, RestartKeepsLogInv
<1>10. CASE OpenStream
  BY <1>1, <1>10 DEF OpenStream, Refuse
<1>11. CASE NextMerged
  BY <1>1, <1>11 DEF NextMerged, Refuse
<1>12. CASE EndStream
  BY <1>1, <1>12 DEF EndStream
<1> QED BY <1>2, <1>3, <1>4, <1>5, <1>6, <1>7, <1>8, <1>9, <1>10, <1>11, <1>12 DEF Next

-----------------------------------------------------------------------------
(* Reading a segment. *)

LEMMA MinIsLeast ==
  ASSUME NEW X, X \subseteq Nat, X # {}
  PROVE  Min(X) \in X /\ \A x \in X : Min(X) <= x
<1>1. \E m \in X : \A x \in X : m <= x
  BY LeastElement
<1> QED BY <1>1 DEF Min

\* The torn record is none of the program's.
LEMMA TornIsNone ==
  /\ LogHeader # TornRecord
  /\ \A r \in Record : r # TornRecord
<1>1. DOMAIN LogHeader = {"header"} /\ DOMAIN TornRecord = {"torn"}
  BY DEF LogHeader, TornRecord
<1>2. ASSUME NEW r \in Record PROVE DOMAIN r = {"venue", "session", "index", "mono"}
  BY DEF Record
<1>3. "header" \in DOMAIN LogHeader /\ "header" \notin DOMAIN TornRecord
  BY <1>1
<1>4. ASSUME NEW r \in Record PROVE "venue" \in DOMAIN r /\ "venue" \notin DOMAIN TornRecord
  BY <1>1, <1>2
<1> QED BY <1>3, <1>4

\* A segment whose files the capture may have left.
Sound(f) ==
  f \in File /\ f.synced <= Len(f.records) /\ (f.zst # "none" => Full(f))

LEMMA ContentsShape ==
  ASSUME NEW f \in File
  PROVE  /\ Len(f.records) \in Nat /\ Len(Contents(f)) = Len(f.records) + 1
         /\ Contents(f)[1] = LogHeader
         /\ \A k \in 1 .. Len(f.records) : Contents(f)[k + 1] = f.records[k] /\ f.records[k] \in Record
         /\ \A k \in 1 .. Len(f.records) + 1 : Contents(f)[k] # TornRecord
<1> DEFINE s == f.records
<1>1. s \in Seq(Record) /\ Len(s) \in Nat
  BY DEF File
<1> DEFINE A == {LogHeader} \cup Record
           u == <<LogHeader>>
<1>2. u \in Seq(A) /\ Len(u) = 1 /\ u[1] = LogHeader /\ s \in Seq(A)
  BY <1>1
<1> HIDE DEF s, u
<1>3. /\ Len(u \o s) = Len(u) + Len(s)
      /\ \A i \in 1 .. Len(u) + Len(s) : (u \o s)[i] = IF i <= Len(u) THEN u[i] ELSE s[i - Len(u)]
  BY <1>2, ConcatProperties
<1>4. Contents(f) = u \o s
  BY DEF Contents, u, s
<1>5. Len(Contents(f)) = Len(s) + 1
  BY <1>1, <1>2, <1>3, <1>4
<1>6. Contents(f)[1] = LogHeader
  <2>1. 1 \in 1 .. Len(u) + Len(s) /\ 1 <= Len(u)
    BY <1>1, <1>2
  <2> QED BY <1>2, <1>3, <1>4, <2>1
<1>7. ASSUME NEW k \in 1 .. Len(s) PROVE Contents(f)[k + 1] = s[k] /\ s[k] \in Record
  <2>1. k + 1 \in 1 .. Len(u) + Len(s) /\ ~ (k + 1 <= Len(u)) /\ (k + 1) - Len(u) = k
    BY <1>1, <1>2
  <2> QED BY <1>1, <1>3, <1>4, <2>1
<1>8. ASSUME NEW k \in 1 .. Len(s) + 1 PROVE Contents(f)[k] # TornRecord
  <2>1. CASE k = 1
    BY <1>6, <2>1, TornIsNone
  <2>2. CASE k # 1
    <3>1. k - 1 \in 1 .. Len(s) /\ (k - 1) + 1 = k
      BY <1>1, <2>2
    <3>2. Contents(f)[k] = s[k - 1] /\ s[k - 1] \in Record
      BY <1>7, <3>1
    <3> QED BY <3>2, TornIsNone
  <2> QED BY <2>1, <2>2
<1> QED BY <1>1, <1>5, <1>6, <1>7, <1>8 DEF s

\* What is left is a cut, in its synced part whole unless half compressed.
IsCut(f, left, n, torn) ==
  /\ n \in 0 .. Len(f.records) + 1 /\ torn \subseteq 1 .. n
  /\ left = Cut(f, n, torn)
  /\ f.zst # "partial" => f.synced + 1 <= n /\ \A i \in torn : f.synced + 1 < i

LEMMA LeftShape ==
  ASSUME NEW f, Sound(f), NEW left \in Left(f)
  PROVE  \E n, torn : IsCut(f, left, n, torn)
<1> DEFINE size == Len(Contents(f))
<1>1. f \in File /\ f.synced \in Nat \cup {-1} /\ f.zst \in {"none", "partial", "done"}
  BY DEF Sound, File, NoHeader
<1>2. size = Len(f.records) + 1 /\ Len(f.records) \in Nat /\ f.synced <= Len(f.records)
  BY <1>1, ContentsShape DEF Sound
<1>3. CASE f.zst = "none"
  <2>1. PICK n \in f.synced + 1 .. size : \E torn \in SUBSET (f.synced + 1 + 1 .. n) : left = Cut(f, n, torn)
    BY <1>3 DEF Left
  <2>2. PICK torn \in SUBSET (f.synced + 1 + 1 .. n) : left = Cut(f, n, torn)
    BY <2>1
  <2>3. n \in 0 .. Len(f.records) + 1 /\ f.synced + 1 <= n
    BY <1>1, <1>2, <2>1
  <2>4. ASSUME NEW i \in torn PROVE i \in 1 .. n /\ f.synced + 1 < i
    <3>1. i \in f.synced + 1 + 1 .. n
      BY <2>2
    <3> QED BY <1>1, <2>3, <3>1
  <2>5. IsCut(f, left, n, torn)
    BY <2>2, <2>3, <2>4 DEF IsCut
  <2> QED BY <2>5
<1>4. CASE f.zst = "partial"
  <2>1. PICK n \in 0 .. size : left = Cut(f, n, {})
    BY <1>4 DEF Left
  <2>2. IsCut(f, left, n, {})
    BY <1>2, <1>4, <2>1 DEF IsCut
  <2> QED BY <2>2
<1>5. CASE f.zst = "done"
  <2>1. left = Contents(f)
    BY <1>5 DEF Left
  <2>2. Contents(f) = Cut(f, size, {})
    <3>1. Contents(f) \in Seq({LogHeader} \cup Record)
      <4>1. f.records \in Seq({LogHeader} \cup Record) /\ <<LogHeader>> \in Seq({LogHeader} \cup Record)
        BY <1>1 DEF File
      <4> QED BY <4>1 DEF Contents
    <3>2. Contents(f) = [i \in 1 .. size |-> Contents(f)[i]]
      BY <3>1
    <3> QED BY <3>2 DEF Cut
  <2>3. f.synced = Len(f.records)
    BY <1>5 DEF Sound, Full
  <2>4. IsCut(f, left, size, {})
    BY <1>2, <2>1, <2>2, <2>3 DEF IsCut
  <2> QED BY <2>4
<1> QED BY <1>1, <1>3, <1>4, <1>5

\* A read is a beginning of the segment, its synced part at least.
IsRead(f, read) ==
  /\ read \in [records : Seq(Record), ok : BOOLEAN]
  /\ Len(read.records) <= Len(f.records)
  /\ \A k \in 1 .. Len(read.records) : read.records[k] = f.records[k]
  /\ read.ok /\ f.zst # "partial" => f.synced <= Len(read.records)

LEMMA ReadLogShape ==
  ASSUME NEW f, Sound(f), NEW left, NEW n, NEW torn, IsCut(f, left, n, torn), OpensLog(left)
  PROVE  IsRead(f, [records |-> ReadLog(left), ok |-> TRUE])
<1> DEFINE size == Len(f.records)
           X == {i \in DOMAIN left : left[i] = TornRecord} \cup {Len(left) + 1}
           m == Min(X)
           s == ReadLog(left)
           A == {LogHeader, TornRecord} \cup Record
<1>1. f \in File /\ f.synced \in Nat \cup {-1} /\ size \in Nat
  BY ContentsShape DEF Sound, File, NoHeader
<1>2. n \in 0 .. size + 1 /\ torn \subseteq 1 .. n /\ n \in Nat
  BY <1>1 DEF IsCut
<1>3. left = [i \in 1 .. n |-> IF i \in torn THEN TornRecord ELSE Contents(f)[i]]
  BY DEF IsCut, Cut
<1>4. ASSUME NEW i \in 1 .. n PROVE Contents(f)[i] \in A /\ Contents(f)[i] # TornRecord
  <2>1. i \in 1 .. size + 1
    BY <1>1, <1>2
  <2>2. CASE i = 1
    BY <1>1, <2>1, <2>2, ContentsShape
  <2>3. CASE i # 1
    <3>1. i - 1 \in 1 .. size /\ (i - 1) + 1 = i
      BY <1>1, <2>1, <2>3
    <3>2. Contents(f)[i] = f.records[i - 1] /\ f.records[i - 1] \in Record
      BY <1>1, <3>1, ContentsShape
    <3> QED BY <1>1, <2>1, <3>2, ContentsShape
  <2> QED BY <2>2, <2>3
<1> HIDE DEF A
<1>5. left \in Seq(A) /\ Len(left) = n /\ DOMAIN left = 1 .. n
  <2>1. left \in [1 .. n -> A]
    BY <1>3, <1>4 DEF A
  <2> QED BY <1>2, <2>1
<1>6. ASSUME NEW i \in 1 .. n PROVE (left[i] = TornRecord) <=> i \in torn
  BY <1>3, <1>4
<1>7. X = torn \cup {n + 1}
  BY <1>2, <1>5, <1>6
<1> HIDE DEF X
<1>8. m \in X /\ \A x \in X : m <= x
  <2>1. X \subseteq Nat /\ X # {}
    BY <1>2, <1>7
  <2> QED BY <2>1, MinIsLeast
<1> HIDE DEF m
<1>9. n >= 1 /\ 1 \notin torn
  <2>1. left # <<>> /\ left[1] = LogHeader
    BY DEF OpensLog
  <2>2. n # 0
    <3> SUFFICES ASSUME n = 0 PROVE FALSE
      OBVIOUS
    <3>1. left = <<>>
      BY <1>5
    <3> QED BY <2>1, <3>1
  <2> QED BY <1>2, <1>6, <2>1, <2>2, TornIsNone
<1>10. m \in 2 .. n + 1
  BY <1>2, <1>7, <1>8, <1>9
<1>11. s = SubSeq(left, 2, m - 1)
  BY DEF ReadLog, m, X
<1> HIDE DEF s
<1>12. Len(s) = m - 2 /\ s \in Seq(A) /\ \A k \in 1 .. m - 2 : s[k] = left[k + 1]
  <2>1. \A i \in 2 .. m - 1 : left[i] \in A
    BY <1>2, <1>5, <1>10
  <2>2. m - 1 \in Int /\ 2 \in Int
    BY <1>10
  <2>3. /\ s \in Seq(A) /\ Len(s) = (IF 2 <= m - 1 THEN m - 1 - 2 + 1 ELSE 0)
        /\ \A i \in 1 .. m - 1 - 2 + 1 : s[i] = left[2 + i - 1]
    BY <1>11, <2>1, <2>2, SubSeqProperties
  <2>4. Len(s) = m - 2
    BY <1>10, <2>3
  <2>5. ASSUME NEW k \in 1 .. m - 2 PROVE s[k] = left[k + 1]
    <3>1. k \in 1 .. m - 1 - 2 + 1 /\ 2 + k - 1 = k + 1
      BY <1>10
    <3> QED BY <2>3, <3>1
  <2> QED BY <2>3, <2>4, <2>5
<1>13. ASSUME NEW k \in 1 .. m - 2 PROVE s[k] = f.records[k] /\ k \in 1 .. size
  <2>1. k + 1 \in 1 .. n /\ k \in 1 .. size /\ k + 1 < m
    BY <1>1, <1>2, <1>10
  <2>2. k + 1 \notin torn
    BY <1>7, <1>8, <1>10, <2>1
  <2>3. left[k + 1] = Contents(f)[k + 1]
    BY <1>3, <2>1, <2>2
  <2>4. Contents(f)[k + 1] = f.records[k]
    BY <1>1, <2>1, ContentsShape
  <2> QED BY <1>12, <2>1, <2>3, <2>4
<1>14. s \in Seq(Record)
  <2>1. \A k \in 1 .. Len(s) : s[k] \in Record
    BY <1>1, <1>12, <1>13, ContentsShape
  <2>2. s \in [1 .. Len(s) -> Record] /\ Len(s) \in Nat
    BY <1>12, <2>1
  <2> QED BY <2>2
<1>15. Len(s) <= size
  BY <1>1, <1>2, <1>10, <1>12
<1>16. ASSUME f.zst # "partial" PROVE f.synced <= Len(s)
  <2>1. f.synced + 1 <= n /\ \A i \in torn : f.synced + 1 < i
    BY <1>16 DEF IsCut
  <2>2. f.synced + 1 < m
    BY <1>1, <1>2, <1>7, <1>8, <2>1
  <2> QED BY <1>1, <1>10, <1>12, <2>2
<1>17. IsRead(f, [records |-> s, ok |-> TRUE])
  BY <1>12, <1>13, <1>14, <1>15, <1>16 DEF IsRead
<1> QED BY <1>17 DEF s

LEMMA ReadsShape ==
  ASSUME NEW f, Sound(f), NEW read \in Reads(f)
  PROVE  IsRead(f, read)
<1>1. PICK left \in Left(f) :
        read = IF OpensLog(left) THEN [records |-> ReadLog(left), ok |-> TRUE] ELSE SegmentError
  BY DEF Reads
<1>2. CASE OpensLog(left)
  <2>1. PICK n, torn : IsCut(f, left, n, torn)
    BY LeftShape
  <2> QED BY <1>1, <1>2, <2>1, ReadLogShape
<1>3. CASE ~OpensLog(left)
  <2>1. read = SegmentError
    BY <1>1, <1>3
  <2>2. Len(f.records) \in Nat
    BY ContentsShape DEF Sound
  <2> QED BY <2>1, <2>2 DEF IsRead, SegmentError
<1> QED BY <1>2, <1>3

-----------------------------------------------------------------------------
(* The next record of a venue. *)

\* d holds the beginning of segment i, from which a new head was taken, and
\* nothing synced was passed over.
Refilled(S, c, d) ==
  /\ c.rest = <<>>
  /\ d.rest # <<>> =>
       /\ c.next <= d.next - 1
       /\ Len(d.rest) <= Len(S[d.next - 1].records)
       /\ \A k \in 1 .. Len(d.rest) : d.rest[k] = S[d.next - 1].records[k]
  /\ \A i \in c.next .. d.next - 1 : S[i].zst # "partial" =>
       \A k \in 1 .. S[i].synced : k \in 1 .. Len(d.rest) /\ i = d.next - 1

Follows(S, c, d) ==
  /\ d \in Cursor /\ d.next \in c.next .. Len(S) + 1
  /\ d.rest = <<>> => d.next = Len(S) + 1
  /\ (c.rest # <<>> /\ d = c) \/ Refilled(S, c, d)

LEMMA NextRecordFollows ==
  ASSUME NEW v, Segments(v, files[v]), NEW c \in Cursor, c.next \in 1 .. Len(files[v]) + 1,
         NEW d \in NextRecord(v, c), d.ok
  PROVE  Follows(files[v], c, d)
<1> DEFINE S == files[v]
           ahead == c.next .. Len(S)
           reached == {i \in ahead : \A j \in ahead : j < i => NoRecords \in Reads(S[j])}
           atEnd == [c EXCEPT !.next = Len(S) + 1]
<1>1. Len(S) \in Nat /\ c.next \in Nat /\ c.next >= 1 /\ c.next <= Len(S) + 1
  BY DEF Segments
<1>2. CASE c.rest # <<>>
  <2>1. d = c
    BY <1>2 DEF NextRecord
  <2>2. d.next \in c.next .. Len(S) + 1
    BY <1>1, <2>1
  <2> QED BY <1>2, <2>1, <2>2 DEF Follows
<1>3. ASSUME c.rest = <<>>
      PROVE  \/ \E i \in reached : \E read \in Reads(S[i]) \ {NoRecords} : d = Opened(v, i, read)
             \/ d = atEnd /\ \A j \in ahead : NoRecords \in Reads(S[j])
  <2> DEFINE openings == {{Opened(v, i, read) : read \in Reads(S[i]) \ {NoRecords}} : i \in reached}
             ends == {x \in {atEnd} : \A j \in ahead : NoRecords \in Reads(S[j])}
  <2>1. d \in (UNION openings) \cup ends
    BY <1>3 DEF NextRecord
  <2>2. CASE d \in UNION openings
    <3> HIDE DEF reached, S
    <3>1. PICK i \in reached : d \in {Opened(v, i, read) : read \in Reads(S[i]) \ {NoRecords}}
      BY <2>2
    <3>2. PICK read \in Reads(S[i]) \ {NoRecords} : d = Opened(v, i, read)
      BY <3>1
    <3> QED BY <3>2
  <2>3. CASE d \in ends
    BY <2>3
  <2> QED BY <2>1, <2>2, <2>3
<1>4. ASSUME NEW j \in ahead PROVE j \in 1 .. Len(S) /\ Sound(S[j]) /\ S[j].synced \in Nat \cup {-1}
  <2>1. j \in 1 .. Len(S)
    BY <1>1
  <2>2. S[j] \in File /\ S[j].synced \in Nat \cup {-1}
    BY <2>1, SegmentTypes
  <2> QED BY <2>1, <2>2 DEF Sound, Segments
<1>5. ASSUME NEW j \in ahead, NoRecords \in Reads(S[j]), S[j].zst # "partial" PROVE S[j].synced <= 0
  <2>1. IsRead(S[j], NoRecords)
    BY <1>4, <1>5, ReadsShape
  <2>2. NoRecords.ok /\ Len(NoRecords.records) = 0
    BY DEF NoRecords
  <2> QED BY <1>5, <2>1, <2>2 DEF IsRead
<1> HIDE DEF S
<1>6. ASSUME c.rest = <<>>, NEW i \in reached, NEW read \in Reads(S[i]) \ {NoRecords}, d = Opened(v, i, read)
      PROVE  Follows(S, c, d)
  <2>1. i \in ahead /\ \A j \in ahead : j < i => NoRecords \in Reads(S[j])
    OBVIOUS
  <2>2. IsRead(S[i], read)
    BY <1>4, <2>1, ReadsShape
  <2>3. d = [next |-> i + 1, rest |-> read.records, ok |-> read.ok]
    BY <1>6 DEF Opened
  <2>a. read \in [records : Seq(Record), ok : BOOLEAN]
    BY <2>2 DEF IsRead
  <2>b. read.records \in Seq(Record) /\ read.ok \in BOOLEAN /\ read = [records |-> read.records, ok |-> read.ok]
    BY <2>a
  <2>4. read.records \in Seq(Record) /\ read.ok = TRUE /\ read = [records |-> read.records, ok |-> read.ok]
    BY <2>b, <2>3
  <2>5. read.records # <<>>
    <3> SUFFICES ASSUME read.records = <<>> PROVE FALSE
      OBVIOUS
    <3>1. read = NoRecords
      BY <2>4 DEF NoRecords
    <3> QED BY <3>1
  <2>6. d.next = i + 1 /\ d.rest = read.records /\ d.next - 1 = i /\ i \in Nat /\ c.next <= i /\ i <= Len(S)
    BY <1>1, <2>1, <2>3
  <2>7. d \in Cursor
    <3>1. i + 1 \in Nat /\ read.records \in Seq(Record) /\ read.ok \in BOOLEAN
      BY <2>b, <2>6
    <3> QED BY <2>3, <3>1 DEF Cursor
  <2>8. ASSUME NEW j \in c.next .. i, S[j].zst # "partial", NEW k \in 1 .. S[j].synced
        PROVE  k \in 1 .. Len(d.rest) /\ j = i
    <3>1. j \in ahead
      BY <1>1, <2>6
    <3>2. S[j].synced \in Nat \cup {-1} /\ k >= 1 /\ k <= S[j].synced /\ k \in Int
      BY <1>4, <3>1
    <3>3. j = i
      <4> SUFFICES ASSUME j < i PROVE FALSE
        BY <1>1, <2>6
      <4>1. S[j].synced <= 0
        BY <1>5, <2>1, <2>8, <3>1
      <4> QED BY <3>2, <4>1
    <3>4. S[i].synced <= Len(d.rest)
      BY <2>2, <2>4, <2>6, <2>8, <3>3 DEF IsRead
    <3>5. Len(d.rest) \in Nat
      BY <2>4, <2>6
    <3> QED BY <3>2, <3>3, <3>4, <3>5
  <2>9. Refilled(S, c, d)
    <3>1. /\ Len(d.rest) <= Len(S[i].records)
          /\ \A k \in 1 .. Len(d.rest) : d.rest[k] = S[i].records[k]
      BY <2>2, <2>6 DEF IsRead
    <3> QED BY <1>6, <2>6, <2>8, <3>1 DEF Refilled
  <2>10. d.next \in c.next .. Len(S) + 1
    BY <1>1, <2>6
  <2> QED BY <2>5, <2>6, <2>7, <2>9, <2>10 DEF Follows
<1>7. ASSUME c.rest = <<>>, d = atEnd, \A j \in ahead : NoRecords \in Reads(S[j])
      PROVE  Follows(S, c, d)
  <2>1. d \in Cursor /\ d.next = Len(S) + 1 /\ d.rest = <<>> /\ d.next - 1 = Len(S)
    BY <1>1, <1>7 DEF Cursor
  <2>2. ASSUME NEW j \in c.next .. Len(S), S[j].zst # "partial", NEW k \in 1 .. S[j].synced PROVE FALSE
    <3>1. S[j].synced \in Nat \cup {-1} /\ S[j].synced <= 0
      BY <1>4, <1>5, <1>7, <2>2
    <3> QED BY <3>1
  <2>3. Refilled(S, c, d)
    BY <1>7, <2>1, <2>2 DEF Refilled
  <2>4. d.next \in c.next .. Len(S) + 1
    BY <1>1, <2>1
  <2> QED BY <2>1, <2>3, <2>4 DEF Follows
<1>8. CASE c.rest = <<>>
  BY <1>3, <1>6, <1>7, <1>8 DEF S
<1> QED BY <1>2, <1>8 DEF S

\* First is one of the heads, before every other.
LEMMA FirstIsLeast ==
  ASSUME Heads # {},
         \A v \in Heads : Head(cursors[v].rest).mono \in Nat
  PROVE  /\ First \in Heads
         /\ \A w \in Heads :
              \/ Head(cursors[First].rest).mono < Head(cursors[w].rest).mono
              \/ Head(cursors[First].rest).mono = Head(cursors[w].rest).mono /\ First <= w
<1> DEFINE time(v) == Head(cursors[v].rest).mono
           Times == {time(v) : v \in Heads}
<1>1. Heads \subseteq Nat
  BY CaptureAssumption DEF Heads, CaptureAssumption
<1>2. PICK t \in Times : \A u \in Times : t <= u
  <2>1. Times \subseteq Nat /\ Times # {}
    OBVIOUS
  <2> HIDE DEF Times
  <2> QED BY <2>1, LeastElement
<1>3. t \in Nat /\ \A w \in Heads : time(w) \in Nat /\ t <= time(w)
  BY <1>2
<1> DEFINE Soonest == {v \in Heads : time(v) = t}
<1>4. PICK v \in Soonest : \A w \in Soonest : v <= w
  <2>1. Soonest \subseteq Nat /\ Soonest # {}
    BY <1>1, <1>2
  <2> HIDE DEF Soonest
  <2> QED BY <2>1, LeastElement
<1>5. v \in Heads /\ \A w \in Heads : time(v) < time(w) \/ (time(v) = time(w) /\ v <= w)
  BY <1>3, <1>4
<1>6. \E x \in Heads : \A w \in Heads : time(x) < time(w) \/ (time(x) = time(w) /\ x <= w)
  BY <1>5
<1> HIDE DEF time
<1>7. First = CHOOSE x \in Heads : \A w \in Heads : time(x) < time(w) \/ (time(x) = time(w) /\ x <= w)
  BY DEF First, time
<1>8. First \in Heads /\ \A w \in Heads : time(First) < time(w) \/ (time(First) = time(w) /\ First <= w)
  BY <1>6, <1>7
<1> QED BY <1>8 DEF time

-----------------------------------------------------------------------------
(* What a step of the merge does to what was read of a venue. *)

\* No record is there twice.
LEMMA SamePlace ==
  ASSUME NEW v, NEW S, Segments(v, S), InOrder(S),
         NEW i \in 1 .. Len(S), NEW k \in 1 .. Len(S[i].records),
         NEW j \in 1 .. Len(S), NEW l \in 1 .. Len(S[j].records),
         S[i].records[k] = S[j].records[l]
  PROVE  i = j /\ k = l
<1>1. S[i].records[k] \in Record
  BY SegmentTypes
<1>2. ~Before(S[i].records[k], S[i].records[k])
  BY <1>1 DEF Before, Record
<1>3. ~Earlier(i, k, j, l) /\ ~Earlier(j, l, i, k)
  BY <1>2 DEF InOrder
<1>4. i \in Int /\ j \in Int /\ k \in Int /\ l \in Int
  OBVIOUS
<1> QED BY <1>3, <1>4 DEF Earlier

\* The first records of the merge.
LEMMA OpenedRead ==
  ASSUME NEW v, NEW S, Log(v, S), NEW d, Follows(S, Unopened, d)
  PROVE  VenueRead(v, S, <<>>, d)
<1>1. /\ Segments(v, S) /\ InOrder(S) /\ Len(S) \in Nat
      /\ d \in Cursor /\ d.next \in 1 .. Len(S) + 1 /\ Refilled(S, Unopened, d)
      /\ Unopened.rest = <<>> /\ Unopened.next = 1
  BY DEF Log, Segments, Follows, Unopened
<1>2. d.rest \in Seq(Record) /\ Len(d.rest) \in Nat /\ d.next \in Nat
  BY <1>1 DEF Cursor
<1>3. d.rest # <<>> =>
        /\ 1 <= d.next - 1
        /\ Len(d.rest) <= Len(S[d.next - 1].records)
        /\ \A k \in 1 .. Len(d.rest) : d.rest[k] = S[d.next - 1].records[k]
  BY <1>1 DEF Refilled
<1>4. \A i \in 1 .. d.next - 1 : S[i].zst # "partial" =>
        \A k \in 1 .. S[i].synced : k \in 1 .. Len(d.rest) /\ i = d.next - 1
  BY <1>1 DEF Refilled
<1>5. Taken(<<>>, d) = {d.rest[k] : k \in 1 .. Len(d.rest)}
  BY DEF Taken
<1>6. ASSUME NEW k \in 1 .. Len(d.rest)
      PROVE  /\ d.rest # <<>> /\ d.next - 1 \in 1 .. Len(S)
             /\ k \in 1 .. Len(S[d.next - 1].records) /\ d.rest[k] = S[d.next - 1].records[k]
  <2>1. d.rest # <<>>
    BY <1>2, <1>6
  <2>2. d.next - 1 \in 1 .. Len(S)
    BY <1>1, <1>2, <1>3, <2>1
  <2>3. Len(S[d.next - 1].records) \in Nat
    BY <1>1, <2>2, SegmentTypes
  <2> QED BY <1>2, <1>3, <2>1, <2>2, <2>3
<1>7. Ahead(S, d)
  <2> SUFFICES ASSUME d.rest # <<>> PROVE d.next > 1 /\ IsAhead(S, d, 0)
    BY DEF Ahead
  <2> QED BY <1>2, <1>3 DEF IsAhead
<1>8. TakesSynced(S, <<>>, d)
  <2> SUFFICES ASSUME \A i \in 1 .. Len(S) : S[i].zst # "partial",
                      NEW i \in 1 .. d.next - 1, NEW k \in 1 .. S[i].synced
               PROVE  S[i].records[k] \in Taken(<<>>, d)
    BY DEF TakesSynced
  <2>1. i \in 1 .. Len(S)
    BY <1>1, <1>2
  <2>2. k \in 1 .. Len(d.rest) /\ i = d.next - 1
    BY <1>4, <2>1
  <2> QED BY <1>5, <1>6, <2>2
<1>9. TakesBeginning(S, <<>>, d)
  <2> SUFFICES ASSUME NEW i \in 1 .. Len(S), NEW k \in 1 .. Len(S[i].records),
                      S[i].records[k] \in Taken(<<>>, d), NEW l \in 1 .. k - 1
               PROVE  S[i].records[l] \in Taken(<<>>, d)
    BY DEF TakesBeginning
  <2>1. PICK m \in 1 .. Len(d.rest) : S[i].records[k] = d.rest[m]
    BY <1>5
  <2>a. /\ d.next - 1 \in 1 .. Len(S) /\ m \in 1 .. Len(S[d.next - 1].records)
        /\ S[i].records[k] = S[d.next - 1].records[m]
    BY <1>6, <2>1
  <2>b. Segments(v, S) /\ InOrder(S)
    BY <1>1
  <2>2. i = d.next - 1 /\ k = m
    BY <2>a, <2>b, SamePlace
  <2>3. l \in 1 .. Len(d.rest)
    BY <1>2, <2>2
  <2> QED BY <1>5, <1>6, <2>2, <2>3
<1>10. Yielded(v, S, <<>>, d)
  BY DEF Yielded
<1> QED BY <1>7, <1>8, <1>9, <1>10 DEF VenueRead

\* A record of another venue is yielded.
LEMMA OtherRead ==
  ASSUME NEW v, NEW S, Log(v, S), NEW o \in Seq(Record), NEW c, VenueRead(v, S, o, c),
         NEW h \in Record, h.venue # v
  PROVE  VenueRead(v, S, Append(o, h), c)
<1> DEFINE q == Append(o, h)
<1>1. Len(o) \in Nat /\ Len(q) = Len(o) + 1 /\ q[Len(o) + 1] = h /\ \A n \in 1 .. Len(o) : q[n] = o[n]
  OBVIOUS
<1>2. Segments(v, S) /\ Ahead(S, c) /\ TakesSynced(S, o, c) /\ TakesBeginning(S, o, c) /\ Yielded(v, S, o, c)
  BY DEF Log, VenueRead
<1> HIDE DEF q
<1>3. ASSUME NEW n \in 1 .. Len(q) PROVE n \in 1 .. Len(o) \/ n = Len(o) + 1
  BY <1>1
<1>4. Taken(o, c) \subseteq Taken(q, c)
  BY <1>1 DEF Taken
<1>5. ASSUME NEW x \in Taken(q, c), x # h PROVE x \in Taken(o, c)
  BY <1>1, <1>3, <1>5 DEF Taken
<1>6. TakesSynced(S, q, c)
  BY <1>2, <1>4 DEF TakesSynced
<1>7. TakesBeginning(S, q, c)
  <2> SUFFICES ASSUME NEW i \in 1 .. Len(S), NEW k \in 1 .. Len(S[i].records),
                      S[i].records[k] \in Taken(q, c), NEW l \in 1 .. k - 1
               PROVE  S[i].records[l] \in Taken(q, c)
    BY DEF TakesBeginning
  <2>1. S[i].records[k] # h
    BY <1>2, SegmentTypes
  <2>2. S[i].records[l] \in Taken(o, c)
    BY <1>2, <1>5, <2>1 DEF TakesBeginning
  <2> QED BY <1>4, <2>2
<1>8. Yielded(v, S, q, c)
  <2> SUFFICES ASSUME NEW n \in 1 .. Len(q), q[n].venue = v
               PROVE  /\ \E i \in 1 .. c.next - 1 : \E k \in 1 .. Len(S[i].records) : q[n] = S[i].records[k]
                      /\ \A k \in 1 .. Len(c.rest) : Before(q[n], c.rest[k])
    BY DEF Yielded
  <2>1. n \in 1 .. Len(o)
    BY <1>1, <1>3
  <2>2. q[n] = o[n]
    BY <1>1, <2>1
  <2> QED BY <1>2, <2>1, <2>2 DEF Yielded
<1>9. VenueRead(v, S, q, c)
  BY <1>2, <1>6, <1>7, <1>8 DEF VenueRead
<1> QED BY <1>9 DEF q

\* Where the head of c is, and what is ahead once it is yielded: later.
Later(S, c, d, k) ==
  /\ k \in 1 .. Len(S[c.next - 1].records)
  /\ Head(c.rest) = S[c.next - 1].records[k]
  /\ \A m \in 1 .. Len(d.rest) :
       /\ d.next - 1 \in 1 .. Len(S)
       /\ \E l \in 1 .. Len(S[d.next - 1].records) :
            d.rest[m] = S[d.next - 1].records[l] /\ Earlier(c.next - 1, k, d.next - 1, l)

LEMMA HeadThenLater ==
  ASSUME NEW v, NEW S, Segments(v, S), NEW c \in Cursor, c.next \in 1 .. Len(S) + 1, c.rest # <<>>,
         Ahead(S, c), NEW d, Follows(S, [c EXCEPT !.rest = Tail(@)], d)
  PROVE  /\ c.next - 1 \in 1 .. Len(S) /\ \E k \in Nat : Later(S, c, d, k)
         /\ Ahead(S, d)
<1> DEFINE e == [c EXCEPT !.rest = Tail(@)]
           i == c.next - 1
<1>1. /\ c.rest \in Seq(Record) /\ c.next \in Nat /\ Len(c.rest) \in Nat /\ Len(c.rest) >= 1
      /\ Head(c.rest) = c.rest[1] /\ Len(S) \in Nat
  BY DEF Cursor, Segments
<1>2. /\ Tail(c.rest) \in Seq(Record) /\ Len(Tail(c.rest)) = Len(c.rest) - 1
      /\ \A k \in 1 .. Len(c.rest) - 1 : Tail(c.rest)[k] = c.rest[k + 1]
  BY <1>1
<1>3. e.rest = Tail(c.rest) /\ e.next = c.next
  BY DEF Cursor
<1> HIDE DEF e
<1>4. PICK p \in Nat : IsAhead(S, c, p)
  BY DEF Ahead
<1>5. c.next > 1 /\ i \in 1 .. Len(S)
  BY <1>1 DEF Ahead
<1>6. /\ p + Len(c.rest) <= Len(S[i].records) /\ Len(S[i].records) \in Nat
      /\ \A k \in 1 .. Len(c.rest) : c.rest[k] = S[i].records[p + k]
  BY <1>4, <1>5, SegmentTypes DEF IsAhead
<1>a. p + Len(c.rest) <= Len(S[i].records) /\ Len(S[i].records) \in Nat /\ p \in Nat
  BY <1>6
<1>b. Len(c.rest) \in Nat /\ Len(c.rest) >= 1 /\ Head(c.rest) = c.rest[1]
  BY <1>1
<1>7. p + 1 \in 1 .. Len(S[i].records) /\ Head(c.rest) = S[i].records[p + 1]
  <2>1. p + 1 \in 1 .. Len(S[i].records) /\ 1 \in 1 .. Len(c.rest)
    BY <1>a, <1>b
  <2>2. c.rest[1] = S[i].records[p + 1]
    BY <1>6, <2>1
  <2> QED BY <1>b, <2>1, <2>2
<1>8. /\ d \in Cursor /\ d.next \in c.next .. Len(S) + 1
      /\ (e.rest # <<>> /\ d = e) \/ Refilled(S, e, d)
  BY <1>3 DEF Follows, e
<1>9. d.rest \in Seq(Record) /\ Len(d.rest) \in Nat /\ d.next \in Nat
  BY <1>8 DEF Cursor
<1>10. CASE e.rest # <<>> /\ d = e
  <2>1. d.next = c.next /\ d.rest = Tail(c.rest)
    BY <1>3, <1>10
  <2>2. ASSUME NEW m \in 1 .. Len(d.rest)
        PROVE  /\ p + 1 + m \in 1 .. Len(S[i].records)
               /\ d.rest[m] = S[i].records[p + 1 + m]
               /\ Earlier(i, p + 1, i, p + 1 + m)
    <3>a. Len(d.rest) = Len(c.rest) - 1 /\ m \in 1 .. Len(d.rest)
      BY <1>2, <2>1
    <3>b. m \in Nat /\ m >= 1 /\ m <= Len(c.rest) - 1
      BY <1>b, <3>a
    <3>c. m \in 1 .. Len(c.rest) - 1 /\ m + 1 \in 1 .. Len(c.rest)
      BY <1>b, <3>b
    <3>d. p + (m + 1) = p + 1 + m
      BY <1>a, <3>b
    <3>1. m \in 1 .. Len(c.rest) - 1 /\ m + 1 \in 1 .. Len(c.rest) /\ p + (m + 1) = p + 1 + m
      BY <3>c, <3>d
    <3>2. d.rest[m] = c.rest[m + 1]
      BY <1>2, <2>1, <3>1
    <3>3. c.rest[m + 1] = S[i].records[p + (m + 1)]
      BY <1>6, <3>1
    <3>e. p + 1 + m <= Len(S[i].records)
      BY <1>a, <1>b, <3>b
    <3>4. p + 1 + m \in 1 .. Len(S[i].records) /\ p + 1 < p + 1 + m
      BY <1>a, <3>b, <3>e
    <3> QED BY <3>1, <3>2, <3>3, <3>4 DEF Earlier
  <2>3. Later(S, c, d, p + 1)
    BY <1>5, <1>7, <2>1, <2>2 DEF Later
  <2>4. IsAhead(S, d, p + 1)
    <3>1. p + 1 + Len(d.rest) <= Len(S[i].records) /\ p + 1 \in Nat
      BY <1>1, <1>2, <1>6, <2>1
    <3> QED BY <2>1, <2>2, <3>1 DEF IsAhead
  <2>5. Ahead(S, d)
    BY <1>5, <2>1, <2>4 DEF Ahead, IsAhead
  <2>6. p + 1 \in Nat
    OBVIOUS
  <2> QED BY <1>5, <2>3, <2>5, <2>6
<1>11. CASE Refilled(S, e, d)
  <2> DEFINE j == d.next - 1
  <2>1. d.rest # <<>> =>
          /\ c.next <= j /\ Len(d.rest) <= Len(S[j].records)
          /\ \A k \in 1 .. Len(d.rest) : d.rest[k] = S[j].records[k]
    BY <1>3, <1>11 DEF Refilled
  <2>2. ASSUME NEW m \in 1 .. Len(d.rest)
        PROVE  /\ j \in 1 .. Len(S) /\ m \in 1 .. Len(S[j].records)
               /\ d.rest[m] = S[j].records[m] /\ Earlier(i, p + 1, j, m)
    <3>1. d.rest # <<>>
      BY <1>9, <2>2
    <3>2. j \in 1 .. Len(S) /\ i < j
      BY <1>1, <1>8, <1>9, <2>1, <3>1
    <3>3. Len(S[j].records) \in Nat
      BY <3>2, SegmentTypes
    <3> QED BY <1>9, <2>1, <3>1, <3>2, <3>3 DEF Earlier
  <2>3. Later(S, c, d, p + 1)
    BY <1>7, <2>2 DEF Later
  <2>4. Ahead(S, d)
    <3> SUFFICES ASSUME d.rest # <<>> PROVE d.next > 1 /\ IsAhead(S, d, 0)
      BY DEF Ahead
    <3> QED BY <1>1, <1>5, <1>9, <2>1 DEF IsAhead
  <2>5. p + 1 \in Nat
    OBVIOUS
  <2> QED BY <1>5, <2>3, <2>4, <2>5
<1> QED BY <1>8, <1>10, <1>11

\* The head of the venue is yielded.
LEMMA HeadYielded ==
  ASSUME NEW v, NEW S, Log(v, S), NEW o \in Seq(Record),
         NEW c \in Cursor, c.next \in 1 .. Len(S) + 1, c.rest # <<>>, VenueRead(v, S, o, c),
         NEW d, Follows(S, [c EXCEPT !.rest = Tail(@)], d)
  PROVE  VenueRead(v, S, Append(o, Head(c.rest)), d)
<1> DEFINE e == [c EXCEPT !.rest = Tail(@)]
           h == Head(c.rest)
           q == Append(o, h)
<1>1. /\ c.rest \in Seq(Record) /\ c.next \in Nat /\ Len(c.rest) \in Nat /\ Len(c.rest) >= 1
      /\ Head(c.rest) = c.rest[1] /\ Len(S) \in Nat /\ h \in Record
  BY DEF Cursor, Log, Segments
<1>2. /\ Tail(c.rest) \in Seq(Record) /\ Len(Tail(c.rest)) = Len(c.rest) - 1
      /\ \A k \in 1 .. Len(c.rest) - 1 : Tail(c.rest)[k] = c.rest[k + 1]
  BY <1>1
<1>3. e.rest = Tail(c.rest) /\ e.next = c.next
  BY DEF Cursor
<1>4. Len(o) \in Nat /\ Len(q) = Len(o) + 1 /\ q[Len(o) + 1] = h /\ \A n \in 1 .. Len(o) : q[n] = o[n]
  BY <1>1
<1>5. /\ Segments(v, S) /\ InOrder(S)
      /\ Ahead(S, c) /\ TakesSynced(S, o, c) /\ TakesBeginning(S, o, c) /\ Yielded(v, S, o, c)
  BY DEF Log, VenueRead
<1>6. /\ d \in Cursor /\ d.next \in c.next .. Len(S) + 1
      /\ (e.rest # <<>> /\ d = e) \/ Refilled(S, e, d)
  BY <1>3 DEF Follows
<1>7. d.rest \in Seq(Record) /\ Len(d.rest) \in Nat /\ d.next \in Nat
  BY <1>6 DEF Cursor
<1>8. c.next - 1 \in 1 .. Len(S) /\ Ahead(S, d)
  BY <1>5, HeadThenLater
<1>9. PICK p \in Nat : Later(S, c, d, p)
  BY <1>5, HeadThenLater
<1> HIDE DEF e, q
<1>10. ASSUME NEW n \in 1 .. Len(q) PROVE n \in 1 .. Len(o) \/ n = Len(o) + 1
  BY <1>4
<1>11. ASSUME d = e
       PROVE  /\ d.next = c.next
              /\ Len(d.rest) = Len(c.rest) - 1
              /\ \A k \in 1 .. Len(d.rest) : k + 1 \in 1 .. Len(c.rest) /\ d.rest[k] = c.rest[k + 1]
  <2>1. d.next = c.next /\ d.rest = Tail(c.rest) /\ Len(d.rest) = Len(c.rest) - 1
    BY <1>2, <1>3, <1>11
  <2>2. ASSUME NEW k \in 1 .. Len(d.rest)
        PROVE  k + 1 \in 1 .. Len(c.rest) /\ d.rest[k] = c.rest[k + 1]
    <3>1. k \in 1 .. Len(c.rest) - 1
      BY <2>1
    <3>2. k + 1 \in 1 .. Len(c.rest)
      BY <1>1, <3>1
    <3> QED BY <1>2, <2>1, <3>1, <3>2
  <2> QED BY <2>1, <2>2
<1>12. ASSUME Refilled(S, e, d)
       PROVE  /\ Len(c.rest) = 1
              /\ \A m \in 1 .. Len(d.rest) :
                   /\ c.next <= d.next - 1 /\ d.next - 1 \in 1 .. Len(S)
                   /\ m \in 1 .. Len(S[d.next - 1].records) /\ d.rest[m] = S[d.next - 1].records[m]
              /\ \A i \in c.next .. d.next - 1 : S[i].zst # "partial" =>
                   \A k \in 1 .. S[i].synced : k \in 1 .. Len(d.rest) /\ i = d.next - 1
  <2>1. Tail(c.rest) = <<>>
    BY <1>3, <1>12 DEF Refilled
  <2>a. Len(Tail(c.rest)) = 0 /\ Len(Tail(c.rest)) = Len(c.rest) - 1 /\ Len(c.rest) \in Nat
    BY <1>1, <1>2, <2>1
  <2>2. Len(c.rest) = 1
    BY <2>a
  <2>3. d.rest # <<>> =>
          /\ c.next <= d.next - 1 /\ Len(d.rest) <= Len(S[d.next - 1].records)
          /\ \A k \in 1 .. Len(d.rest) : d.rest[k] = S[d.next - 1].records[k]
    BY <1>3, <1>12 DEF Refilled
  <2>4. ASSUME NEW m \in 1 .. Len(d.rest)
        PROVE  /\ c.next <= d.next - 1 /\ d.next - 1 \in 1 .. Len(S)
               /\ m \in 1 .. Len(S[d.next - 1].records) /\ d.rest[m] = S[d.next - 1].records[m]
    <3>1. d.rest # <<>>
      BY <1>7, <2>4
    <3>2. c.next <= d.next - 1 /\ d.next - 1 \in 1 .. Len(S)
      BY <1>1, <1>6, <1>7, <1>8, <2>3, <3>1
    <3>3. Len(S[d.next - 1].records) \in Nat
      BY <1>5, <3>2, SegmentTypes
    <3> QED BY <1>7, <2>3, <3>1, <3>2, <3>3
  <2>5. \A i \in c.next .. d.next - 1 : S[i].zst # "partial" =>
          \A k \in 1 .. S[i].synced : k \in 1 .. Len(d.rest) /\ i = d.next - 1
    BY <1>3, <1>12 DEF Refilled
  <2> QED BY <2>2, <2>4, <2>5
<1>13. ASSUME NEW x \in Taken(o, c) PROVE x \in Taken(q, d)
  <2>1. CASE \E n \in 1 .. Len(o) : x = o[n]
    <3>1. PICK n \in 1 .. Len(o) : x = o[n]
      BY <2>1
    <3>2. n \in 1 .. Len(q) /\ x = q[n]
      BY <1>4, <3>1
    <3> QED BY <3>2 DEF Taken
  <2>2. ASSUME NEW k \in 1 .. Len(c.rest), x = c.rest[k] PROVE x \in Taken(q, d)
    <3>1. CASE k = 1
      <4>1. Len(o) + 1 \in 1 .. Len(q) /\ x = q[Len(o) + 1]
        BY <1>1, <1>4, <2>2, <3>1
      <4> QED BY <4>1 DEF Taken
    <3>2. CASE k # 1
      <4>a. Len(c.rest) \in Nat /\ k \in Nat /\ k >= 2 /\ k <= Len(c.rest)
        BY <1>1, <3>2
      <4>b. k - 1 \in 1 .. Len(c.rest) - 1
        BY <4>a
      <4>c. (k - 1) + 1 = k
        BY <4>a
      <4>d. Len(c.rest) # 1
        <5>1. ~ (Len(c.rest) < 2)
          BY <4>a
        <5>2. Len(c.rest) = 1 => Len(c.rest) < 2
          OBVIOUS
        <5> QED BY <5>1, <5>2, Zenon
      <4>1. k - 1 \in 1 .. Len(c.rest) - 1 /\ (k - 1) + 1 = k /\ Len(c.rest) # 1
        BY <4>b, <4>c, <4>d
      <4>2. d = e
        BY <1>6, <1>12, <4>1
      <4>3. Len(d.rest) = Len(c.rest) - 1
            /\ \A l \in 1 .. Len(d.rest) : d.rest[l] = c.rest[l + 1]
        BY <1>11, <4>2
      <4>4. k - 1 \in 1 .. Len(d.rest) /\ d.rest[k - 1] = x
        BY <2>2, <4>1, <4>3
      <4> QED BY <4>4 DEF Taken
    <3> QED BY <3>1, <3>2
  <2> QED BY <2>1, <2>2 DEF Taken
<1>14. ASSUME NEW x \in Taken(q, d), x \notin Taken(o, c)
       PROVE  Refilled(S, e, d) /\ \E m \in 1 .. Len(d.rest) : x = d.rest[m]
  <2>1. h \in Taken(o, c)
    <3>1. 1 \in 1 .. Len(c.rest) /\ h = c.rest[1]
      BY <1>1
    <3> QED BY <3>1 DEF Taken
  <2>2. ASSUME NEW n \in 1 .. Len(q), x = q[n] PROVE FALSE
    BY <1>4, <1>10, <1>14, <2>1, <2>2 DEF Taken
  <2>3. PICK m \in 1 .. Len(d.rest) : x = d.rest[m]
    BY <1>14, <2>2 DEF Taken
  <2>4. d # e
    <3> SUFFICES ASSUME d = e PROVE FALSE
      OBVIOUS
    <3>1. m + 1 \in 1 .. Len(c.rest) /\ x = c.rest[m + 1]
      BY <1>11, <2>3
    <3> QED BY <1>14, <3>1 DEF Taken
  <2> QED BY <1>6, <2>3, <2>4
<1>15. TakesSynced(S, q, d)
  <2> SUFFICES ASSUME \A i \in 1 .. Len(S) : S[i].zst # "partial",
                      NEW i \in 1 .. d.next - 1, NEW k \in 1 .. S[i].synced
               PROVE  S[i].records[k] \in Taken(q, d)
    BY DEF TakesSynced
  <2>1. CASE i <= c.next - 1
    <3>1. i \in 1 .. c.next - 1
      BY <1>1, <2>1
    <3>2. S[i].records[k] \in Taken(o, c)
      BY <1>5, <3>1 DEF TakesSynced
    <3> QED BY <1>13, <3>2
  <2>2. CASE ~ (i <= c.next - 1)
    <3>1. i \in c.next .. d.next - 1 /\ i \in 1 .. Len(S) /\ d.next # c.next
      BY <1>1, <1>6, <1>7, <2>2
    <3>2. Refilled(S, e, d)
      BY <1>6, <1>11, <3>1
    <3>3. k \in 1 .. Len(d.rest) /\ i = d.next - 1
      BY <1>12, <3>1, <3>2
    <3>4. d.rest[k] = S[i].records[k]
      BY <1>12, <3>2, <3>3
    <3> QED BY <3>3, <3>4 DEF Taken
  <2> QED BY <2>1, <2>2
<1>16. TakesBeginning(S, q, d)
  <2> SUFFICES ASSUME NEW i \in 1 .. Len(S), NEW k \in 1 .. Len(S[i].records),
                      S[i].records[k] \in Taken(q, d), NEW l \in 1 .. k - 1
               PROVE  S[i].records[l] \in Taken(q, d)
    BY DEF TakesBeginning
  <2>1. CASE S[i].records[k] \in Taken(o, c)
    <3>1. S[i].records[l] \in Taken(o, c)
      BY <1>5, <2>1 DEF TakesBeginning
    <3> QED BY <1>13, <3>1
  <2>2. CASE S[i].records[k] \notin Taken(o, c)
    <3>1. Refilled(S, e, d)
      BY <1>14, <2>2
    <3>2. PICK m \in 1 .. Len(d.rest) : S[i].records[k] = d.rest[m]
      BY <1>14, <2>2
    <3>3. /\ d.next - 1 \in 1 .. Len(S) /\ m \in 1 .. Len(S[d.next - 1].records)
          /\ S[i].records[k] = S[d.next - 1].records[m]
      BY <1>12, <3>1, <3>2
    <3>a. PICK j \in 1 .. Len(S) :
            j = d.next - 1 /\ m \in 1 .. Len(S[j].records) /\ S[i].records[k] = S[j].records[m]
      BY <3>3
    <3>4. Segments(v, S) /\ InOrder(S)
      BY <1>5
    <3>b. i = j /\ k = m
      <4>1. \A x \in 1 .. Len(S[i].records), y \in 1 .. Len(S[j].records) :
              S[i].records[x] = S[j].records[y] => i = j /\ x = y
        BY <3>4, SamePlace
      <4> QED BY <3>a, <4>1
    <3>5. i = d.next - 1 /\ k = m
      BY <3>a, <3>b
    <3>6. l \in 1 .. Len(d.rest)
      BY <1>7, <3>5
    <3>7. d.rest[l] = S[i].records[l]
      BY <1>12, <3>1, <3>5, <3>6
    <3> QED BY <3>6, <3>7 DEF Taken
  <2> QED BY <2>1, <2>2
<1>17. Yielded(v, S, q, d)
  <2> SUFFICES ASSUME NEW n \in 1 .. Len(q), q[n].venue = v
               PROVE  /\ \E i \in 1 .. d.next - 1 : \E k \in 1 .. Len(S[i].records) : q[n] = S[i].records[k]
                      /\ \A m \in 1 .. Len(d.rest) : Before(q[n], d.rest[m])
    BY DEF Yielded
  <2>1. CASE n \in 1 .. Len(o)
    <3>1. q[n] = o[n]
      BY <1>4, <2>1
    <3>2. /\ \E i \in 1 .. c.next - 1 : \E k \in 1 .. Len(S[i].records) : q[n] = S[i].records[k]
          /\ \A k \in 1 .. Len(c.rest) : Before(q[n], c.rest[k])
      BY <1>5, <2>1, <3>1 DEF Yielded
    <3>3. PICK i \in 1 .. c.next - 1 : \E k \in 1 .. Len(S[i].records) : q[n] = S[i].records[k]
      BY <3>2
    <3>4. PICK k \in 1 .. Len(S[i].records) : q[n] = S[i].records[k]
      BY <3>3
    <3>5. i \in 1 .. d.next - 1 /\ i \in 1 .. Len(S)
      BY <1>1, <1>6, <1>7
    <3>6. ASSUME NEW m \in 1 .. Len(d.rest) PROVE Before(q[n], d.rest[m])
      <4>1. CASE d = e
        BY <1>11, <3>2, <4>1
      <4>2. CASE Refilled(S, e, d)
        <5>1. /\ c.next <= d.next - 1 /\ d.next - 1 \in 1 .. Len(S)
              /\ m \in 1 .. Len(S[d.next - 1].records) /\ d.rest[m] = S[d.next - 1].records[m]
          BY <1>12, <4>2
        <5>a. c.next \in Nat /\ d.next \in Nat /\ c.next <= d.next - 1 /\ i \in 1 .. c.next - 1
          BY <1>1, <1>7, <5>1
        <5>b. i < d.next - 1
          BY <5>a
        <5>2. Earlier(i, k, d.next - 1, m)
          BY <5>b DEF Earlier
        <5> QED BY <1>5, <3>4, <3>5, <5>1, <5>2 DEF InOrder
      <4> QED BY <1>6, <4>1, <4>2
    <3> QED BY <3>4, <3>5, <3>6
  <2>2. CASE n = Len(o) + 1
    <3>1. q[n] = h /\ p \in 1 .. Len(S[c.next - 1].records) /\ h = S[c.next - 1].records[p]
      BY <1>4, <1>9, <2>2 DEF Later
    <3>2. c.next - 1 \in 1 .. d.next - 1
      BY <1>1, <1>6, <1>7, <1>8
    <3>3. ASSUME NEW m \in 1 .. Len(d.rest) PROVE Before(h, d.rest[m])
      <4>1. d.next - 1 \in 1 .. Len(S)
        BY <1>9 DEF Later
      <4>2. PICK l \in 1 .. Len(S[d.next - 1].records) :
              d.rest[m] = S[d.next - 1].records[l] /\ Earlier(c.next - 1, p, d.next - 1, l)
        BY <1>9 DEF Later
      <4> QED BY <1>5, <1>8, <3>1, <4>1, <4>2 DEF InOrder
    <3> QED BY <3>1, <3>2, <3>3
  <2> QED BY <1>10, <2>1, <2>2
<1>18. VenueRead(v, S, q, d)
  BY <1>8, <1>15, <1>16, <1>17 DEF VenueRead
<1> QED BY <1>18 DEF q

-----------------------------------------------------------------------------
(* The steps of the merge keep StreamInv. *)

LEMMA NothingRead ==
  ASSUME NEW v, NEW S
  PROVE  VenueRead(v, S, <<>>, Unopened)
<1>1. Unopened.rest = <<>> /\ Unopened.next = 1 /\ Unopened \in Cursor /\ Unopened.ok
  BY DEF Unopened, Cursor
<1>2. Taken(<<>>, Unopened) = {}
  BY <1>1 DEF Taken
<1>3. Ahead(S, Unopened) /\ TakesBeginning(S, <<>>, Unopened) /\ Yielded(v, S, <<>>, Unopened)
  BY <1>1, <1>2 DEF Ahead, TakesBeginning, Yielded
<1>4. TakesSynced(S, <<>>, Unopened)
  BY <1>1 DEF TakesSynced
<1> QED BY <1>3, <1>4 DEF VenueRead

LEMMA UnopenedType == Unopened \in Cursor /\ Unopened.ok /\ Unopened.next = 1 /\ Unopened.rest = <<>>
BY DEF Unopened, Cursor

LEMMA StreamInvFirst == Init => StreamInv
<1> SUFFICES ASSUME Init PROVE StreamInv
  OBVIOUS
<1>1. /\ phase = "capture" /\ out = <<>> /\ cursors = [v \in Venues |-> Unopened] /\ refused = FALSE
      /\ \A v \in Venues : Len(files[v]) \in Nat
  BY LogInvFirst DEF Init, LogInv, Log, Segments
<1>2. StreamTypeOK
  <2>1. cursors \in [Venues -> Cursor]
    BY <1>1, UnopenedType
  <2>2. \A v \in Venues : cursors[v].ok /\ cursors[v].next \in 1 .. Len(files[v]) + 1
    BY <1>1, UnopenedType
  <2>3. refused \in BOOLEAN
    BY <1>1
  <2>4. out \in Seq(Record)
    BY <1>1
  <2> QED BY <2>1, <2>2, <2>3, <2>4 DEF StreamTypeOK
<1>3. \A v \in Venues : VenueRead(v, files[v], out, cursors[v])
  BY <1>1, NothingRead
<1>4. VenuesInOrder /\ Merges
  BY <1>1 DEF VenuesInOrder, Merges
<1> QED BY <1>1, <1>2, <1>3, <1>4 DEF StreamInv

\* Nothing of the replay changes while it has not begun.
LEMMA NotBegunKeeps ==
  ASSUME StreamInv, LogInv', replayVars' = replayVars,
         phase \in {"capture", "down"}, phase' \in {"capture", "down"}
  PROVE  StreamInv'
<1>1. /\ out' = <<>> /\ cursors' = [v \in Venues |-> Unopened] /\ refused' = refused /\ refused \in BOOLEAN
      /\ \A v \in Venues : Len(files'[v]) \in Nat
  BY DEF StreamInv, StreamTypeOK, replayVars, LogInv, Log, Segments
<1>2. StreamTypeOK'
  <2>1. cursors' \in [Venues -> Cursor]
    BY <1>1, UnopenedType
  <2>2. \A v \in Venues : cursors'[v].ok /\ cursors'[v].next \in 1 .. Len(files'[v]) + 1
    BY <1>1, UnopenedType
  <2> QED BY <1>1, <2>1, <2>2 DEF StreamTypeOK
<1>3. \A v \in Venues : VenueRead(v, files'[v], out', cursors'[v])
  BY <1>1, NothingRead
<1>4. VenuesInOrder' /\ Merges'
  BY <1>1 DEF VenuesInOrder, Merges
<1> QED BY <1>1, <1>2, <1>3, <1>4 DEF StreamInv

LEMMA RefuseKeeps ==
  ASSUME StreamInv, Refuse, captureVars' = captureVars
  PROVE  StreamInv'
<1>1. /\ phase' = "replayed" /\ refused' = TRUE /\ out' = out /\ cursors' = cursors
      /\ files' = files /\ runs' = runs
  BY DEF Refuse, captureVars
<1>2. StreamTypeOK' /\ VenuesInOrder' /\ (runs' = 1 => Merges')
  BY <1>1 DEF StreamInv, StreamTypeOK, VenuesInOrder, Merges
<1> QED BY <1>1, <1>2 DEF StreamInv

LEMMA OpenStreamKeeps ==
  ASSUME LogInv, StreamInv, OpenStream
  PROVE  StreamInv'
<1>1. PICK opened \in [Venues -> UNION {NextRecord(v, Unopened) : v \in Venues}] :
        /\ \A v \in Venues : opened[v] \in NextRecord(v, Unopened)
        /\ \/ /\ \A v \in Venues : opened[v].ok
              /\ phase' = "replaying"
              /\ cursors' = opened
              /\ UNCHANGED <<out, refused>>
           \/ (\E v \in Venues : ~opened[v].ok) /\ Refuse
  BY DEF OpenStream
<1>2. /\ captureVars' = captureVars /\ phase = "down"
      /\ files' = files /\ runs' = runs
  BY DEF OpenStream, captureVars
<1>3. CASE Refuse
  BY <1>2, <1>3, RefuseKeeps
<1>4. CASE ~Refuse
  <2>1. /\ \A v \in Venues : opened[v] \in NextRecord(v, Unopened) /\ opened[v].ok
        /\ phase' = "replaying" /\ cursors' = opened /\ out' = out /\ refused' = refused
    BY <1>1, <1>4
  <2>2. out' = <<>> /\ refused' \in BOOLEAN
    BY <1>2, <2>1 DEF StreamInv, StreamTypeOK
  <2>3. ASSUME NEW v \in Venues
        PROVE  Log(v, files[v]) /\ Follows(files[v], Unopened, opened[v])
    <3>1. Log(v, files[v]) /\ Segments(v, files[v])
      BY DEF LogInv, Log
    <3>2. Unopened.next \in 1 .. Len(files[v]) + 1 /\ Unopened \in Cursor
      BY <3>1, UnopenedType DEF Segments
    <3> QED BY <2>1, <3>1, <3>2, NextRecordFollows
  <2>4. \A v \in Venues : /\ opened[v] \in Cursor /\ opened[v].next \in 1 .. Len(files[v]) + 1
                          /\ opened[v].rest = <<>> => opened[v].next = Len(files[v]) + 1
    BY <2>3, UnopenedType DEF Follows
  <2>5. StreamTypeOK'
    BY <1>2, <2>1, <2>2, <2>4 DEF StreamTypeOK
  <2>6. \A v \in Venues : VenueRead(v, files'[v], out', cursors'[v])
    BY <1>2, <2>1, <2>2, <2>3, OpenedRead
  <2>7. VenuesInOrder' /\ Merges'
    BY <2>2 DEF VenuesInOrder, Merges
  <2>8. Headed'
    BY <1>2, <2>1, <2>4 DEF Headed
  <2> QED BY <2>1, <2>5, <2>6, <2>7, <2>8 DEF StreamInv
<1> QED BY <1>3, <1>4

LEMMA NotAfterTransitive ==
  ASSUME NEW r \in Record, NEW s \in Record, NEW t \in Record, NotAfter(r, s), NotAfter(s, t)
  PROVE  NotAfter(r, t)
<1>1. /\ r.mono \in Nat /\ s.mono \in Nat /\ t.mono \in Nat
      /\ r.venue \in Nat /\ s.venue \in Nat /\ t.venue \in Nat
  BY CaptureAssumption DEF CaptureAssumption, Record
<1> QED BY <1>1 DEF NotAfter

\* What is ahead of a venue's head is not before it.
LEMMA HeadIsFirst ==
  ASSUME NEW v \in Venues, NEW S, Segments(v, S), Rising(S), NEW c \in Cursor, c.next \in 1 .. Len(S) + 1,
         c.rest # <<>>, Ahead(S, c), NEW m \in 1 .. Len(c.rest)
  PROVE  NotAfter(Head(c.rest), c.rest[m])
<1>1. c.rest \in Seq(Record) /\ Len(c.rest) \in Nat /\ Len(c.rest) >= 1 /\ Head(c.rest) = c.rest[1]
      /\ c.next \in Nat
  BY DEF Cursor
<1>2. c.next > 1 /\ \E p \in Nat : IsAhead(S, c, p)
  BY DEF Ahead
<1> DEFINE i == c.next - 1
<1>3. i \in 1 .. Len(S)
  BY <1>1, <1>2 DEF Segments
<1>4. PICK p \in Nat : IsAhead(S, c, p)
  BY <1>2
<1>5. p + Len(c.rest) <= Len(S[i].records) /\ Len(S[i].records) \in Nat
  BY <1>3, <1>4, SegmentTypes DEF IsAhead
<1>6. \A k \in 1 .. Len(c.rest) : c.rest[k] = S[i].records[p + k]
  BY <1>4 DEF IsAhead
<1>7. m \in Nat /\ m >= 1 /\ m <= Len(c.rest) /\ 1 \in 1 .. Len(c.rest)
  BY <1>1
<1>8. c.rest[1] = S[i].records[p + 1] /\ c.rest[m] = S[i].records[p + m]
  BY <1>6, <1>7
<1>9. p + m \in 1 .. Len(S[i].records) /\ p + 1 \in 1 .. Len(S[i].records)
  BY <1>1, <1>5, <1>7
<1>10. c.rest[1].venue = v /\ c.rest[m].venue = v /\ c.rest[1] \in Record
  BY <1>3, <1>8, <1>9, SegmentTypes
<1>11. c.rest[1].mono <= c.rest[m].mono
  <2>1. CASE m = 1
    BY <1>10, <2>1 DEF Record
  <2>2. CASE m # 1
    <3>1. p + 1 < p + m
      BY <1>7, <2>2
    <3>2. Earlier(i, p + 1, i, p + m)
      BY <3>1 DEF Earlier
    <3> QED BY <1>3, <1>8, <1>9, <3>2 DEF Rising
  <2> QED BY <2>1, <2>2
<1>12. c.rest[m] \in Record /\ v \in Nat
  BY <1>1, CaptureAssumption DEF CaptureAssumption
<1> QED BY <1>1, <1>10, <1>11, <1>12 DEF NotAfter, Record

\* Nor is what follows it.
LEMMA HeadBeforeNext ==
  ASSUME NEW v \in Venues, NEW S, Segments(v, S), Rising(S), NEW c, NEW d, NEW k, Later(S, c, d, k),
         c.next - 1 \in 1 .. Len(S), NEW m \in 1 .. Len(d.rest)
  PROVE  NotAfter(Head(c.rest), d.rest[m])
<1>1. /\ k \in 1 .. Len(S[c.next - 1].records)
      /\ Head(c.rest) = S[c.next - 1].records[k]
      /\ d.next - 1 \in 1 .. Len(S)
  BY DEF Later
<1>2. PICK l \in 1 .. Len(S[d.next - 1].records) :
        d.rest[m] = S[d.next - 1].records[l] /\ Earlier(c.next - 1, k, d.next - 1, l)
  BY DEF Later
<1>3. Head(c.rest).mono <= d.rest[m].mono
  BY <1>1, <1>2 DEF Rising
<1>4. /\ Head(c.rest) \in Record /\ Head(c.rest).venue = v
      /\ d.rest[m] \in Record /\ d.rest[m].venue = v
  <2>1. Head(c.rest) \in Record /\ Head(c.rest).venue = v
    BY <1>1, SegmentTypes
  <2>2. d.rest[m] \in Record /\ d.rest[m].venue = v
    BY <1>1, <1>2, SegmentTypes
  <2> QED BY <2>1, <2>2
<1>5. v \in Nat /\ Head(c.rest).mono \in Nat /\ d.rest[m].mono \in Nat
  BY <1>4, CaptureAssumption DEF CaptureAssumption, Record
<1> QED BY <1>3, <1>4, <1>5 DEF NotAfter

LEMMA NextMergedKeeps ==
  ASSUME LogInv, StreamInv, NextMerged
  PROVE  StreamInv'
<1> DEFINE v == First
           S == files[v]
           c == cursors[v]
           h == Head(c.rest)
           e == [c EXCEPT !.rest = Tail(@)]
<1>1. PICK d \in NextRecord(v, e) :
        \/ /\ d.ok
           /\ out' = Append(out, h)
           /\ cursors' = [cursors EXCEPT ![v] = d]
           /\ UNCHANGED <<phase, refused>>
        \/ ~d.ok /\ Refuse
  BY DEF NextMerged
<1>2. /\ captureVars' = captureVars /\ phase = "replaying" /\ Heads # {}
      /\ files' = files /\ runs' = runs
  BY DEF NextMerged, captureVars
<1>3. CASE ~d.ok
  BY <1>1, <1>2, <1>3, RefuseKeeps
<1>4. /\ cursors \in [Venues -> Cursor] /\ out \in Seq(Record) /\ refused \in BOOLEAN
      /\ \A w \in Venues : cursors[w].ok /\ cursors[w].next \in 1 .. Len(files[w]) + 1
      /\ \A w \in Venues : VenueRead(w, files[w], out, cursors[w])
      /\ VenuesInOrder /\ (runs = 1 => Merges) /\ Headed
  BY <1>2 DEF StreamInv, StreamTypeOK
<1>5. /\ \A w \in Venues : Log(w, files[w]) /\ Segments(w, files[w]) /\ InOrder(files[w])
      /\ runs = 1 => \A w \in Venues : Rising(files[w])
  BY DEF LogInv, Log
<1>6. ASSUME NEW w \in Heads
      PROVE  /\ w \in Venues /\ cursors[w].rest # <<>> /\ cursors[w].rest \in Seq(Record)
             /\ Len(cursors[w].rest) \in Nat /\ 1 \in 1 .. Len(cursors[w].rest)
             /\ Head(cursors[w].rest) = cursors[w].rest[1] /\ Head(cursors[w].rest) \in Record
             /\ Head(cursors[w].rest).venue = w
  <2>1. w \in Venues /\ cursors[w].rest # <<>> /\ cursors[w] \in Cursor
    BY <1>4 DEF Heads
  <2>2. cursors[w].rest \in Seq(Record) /\ Len(cursors[w].rest) \in Nat /\ Len(cursors[w].rest) >= 1
    BY <2>1 DEF Cursor
  <2>3. Head(cursors[w].rest) = cursors[w].rest[1] /\ 1 \in 1 .. Len(cursors[w].rest)
    BY <2>2
  <2>4. PICK x \in Venues : x = w
    BY <2>1
  <2>5. \E k \in 1 .. Len(files[w][cursors[w].next - 1].records) :
          /\ cursors[w].next - 1 \in 1 .. Len(files[w])
          /\ Head(cursors[w].rest) = files[w][cursors[w].next - 1].records[k]
    <3>1. Ahead(files[w], cursors[w])
      BY <1>4, <2>1 DEF VenueRead
    <3>2. PICK p \in Nat : IsAhead(files[w], cursors[w], p)
      BY <2>1, <3>1 DEF Ahead
    <3>3. cursors[w].next - 1 \in 1 .. Len(files[w])
      <4>1. cursors[w].next > 1 /\ cursors[w].next \in 1 .. Len(files[w]) + 1 /\ Len(files[w]) \in Nat
        BY <1>4, <1>5, <2>1, <3>1 DEF Ahead, Segments
      <4> QED BY <4>1
    <3>4. p + Len(cursors[w].rest) <= Len(files[w][cursors[w].next - 1].records)
      BY <3>2 DEF IsAhead
    <3>5. Len(files[w][cursors[w].next - 1].records) \in Nat
      BY <1>5, <2>1, <3>3, SegmentTypes
    <3>6. p + 1 \in 1 .. Len(files[w][cursors[w].next - 1].records)
      <4> DEFINE size == Len(files[w][cursors[w].next - 1].records)
                 ahead == Len(cursors[w].rest)
      <4>1. size \in Nat /\ ahead \in Nat /\ ahead >= 1 /\ p + ahead <= size
        BY <2>2, <3>4, <3>5
      <4> HIDE DEF size, ahead
      <4>2. p + 1 \in 1 .. size
        BY <4>1
      <4> QED BY <4>2 DEF size
    <3>7. cursors[w].rest[1] = files[w][cursors[w].next - 1].records[p + 1]
      BY <2>3, <3>2 DEF IsAhead
    <3> QED BY <2>3, <3>3, <3>6, <3>7
  <2>6. Head(cursors[w].rest) \in Record /\ Head(cursors[w].rest).venue = w
    BY <1>5, <2>1, <2>5, SegmentTypes
  <2> QED BY <2>1, <2>2, <2>3, <2>6
<1>7. /\ v \in Heads
      /\ \A w \in Heads : NotAfter(h, Head(cursors[w].rest))
  <2>1. \A w \in Heads : Head(cursors[w].rest).mono \in Nat
    BY <1>6 DEF Record
  <2>2. /\ First \in Heads
        /\ \A w \in Heads :
             \/ Head(cursors[First].rest).mono < Head(cursors[w].rest).mono
             \/ Head(cursors[First].rest).mono = Head(cursors[w].rest).mono /\ First <= w
    BY <1>2, <2>1, FirstIsLeast
  <2> HIDE DEF v
  <2>3. v = First
    BY DEF v
  <2> QED BY <1>6, <2>2, <2>3 DEF NotAfter
<1> HIDE DEF v
<1>8. /\ v \in Venues /\ c \in Cursor /\ c.rest # <<>> /\ c.next \in 1 .. Len(S) + 1 /\ c.ok
      /\ Log(v, S) /\ Segments(v, S) /\ VenueRead(v, S, out, c) /\ Ahead(S, c)
      /\ h \in Record /\ h.venue = v /\ c.rest \in Seq(Record) /\ 1 \in 1 .. Len(c.rest) /\ h = c.rest[1]
  BY <1>4, <1>5, <1>6, <1>7 DEF VenueRead
<1>9. CASE d.ok
  <2>1. /\ out' = Append(out, h) /\ cursors' = [cursors EXCEPT ![v] = d]
        /\ phase' = "replaying" /\ refused' = refused
    BY <1>1, <1>2, <1>9 DEF Refuse
  <2>2. Follows(S, e, d)
    <3>1. e \in Cursor /\ e.next = c.next
      <4> HIDE DEF c
      <4>1. c \in Cursor /\ Tail(c.rest) \in Seq(Record)
        BY <1>8
      <4> QED BY <4>1 DEF Cursor
    <3>2. Segments(v, files[v]) /\ e.next \in 1 .. Len(files[v]) + 1
      BY <1>8, <3>1
    <3> HIDE DEF e
    <3> QED BY <1>9, <3>1, <3>2, NextRecordFollows
  <2>3. c.next - 1 \in 1 .. Len(S) /\ \E k \in Nat : Later(S, c, d, k)
    BY <1>8, <2>2, HeadThenLater
  <2>4. VenueRead(v, S, Append(out, h), d)
    BY <1>4, <1>8, <2>2, HeadYielded
  <2>5. d \in Cursor /\ d.next \in 1 .. Len(S) + 1 /\ (d.rest = <<>> => d.next = Len(S) + 1)
    <3>1. d \in Cursor /\ d.next \in e.next .. Len(S) + 1 /\ (d.rest = <<>> => d.next = Len(S) + 1)
      BY <2>2 DEF Follows
    <3>2. e.next = c.next
      BY <1>8 DEF Cursor
    <3> QED BY <1>8, <3>1, <3>2
  <2>6. cursors'[v] = d /\ \A w \in Venues : w # v => cursors'[w] = cursors[w]
    BY <1>4, <1>8, <2>1
  <2> HIDE DEF e, h, c, S
  <2>7. /\ Len(out) \in Nat /\ Len(out') = Len(out) + 1 /\ out' \in Seq(Record)
        /\ out'[Len(out) + 1] = h /\ \A n \in 1 .. Len(out) : out'[n] = out[n] /\ out[n] \in Record
    BY <1>4, <1>8, <2>1
  <2>8. ASSUME NEW n \in 1 .. Len(out') PROVE n \in 1 .. Len(out) \/ n = Len(out) + 1
    BY <2>7
  <2>9. StreamTypeOK'
    <3>1. \A w \in Venues : cursors'[w].ok /\ cursors'[w].next \in 1 .. Len(files'[w]) + 1
      BY <1>2, <1>4, <1>9, <2>5, <2>6 DEF S
    <3>2. cursors' \in [Venues -> Cursor]
      BY <1>4, <2>1, <2>5
    <3> QED BY <1>4, <2>1, <2>7, <3>1, <3>2 DEF StreamTypeOK
  <2>10. ASSUME NEW w \in Venues PROVE VenueRead(w, files'[w], out', cursors'[w])
    <3>1. CASE w = v
      BY <1>2, <2>1, <2>4, <2>6, <3>1 DEF S
    <3>2. CASE w # v
      <4>1. Log(w, files[w]) /\ VenueRead(w, files[w], out, cursors[w]) /\ out \in Seq(Record)
        BY <1>4, <1>5
      <4>2. h \in Record /\ h.venue # w
        BY <1>8, <3>2
      <4>3. VenueRead(w, files[w], Append(out, h), cursors[w])
        BY <4>1, <4>2, OtherRead
      <4> QED BY <1>2, <2>1, <2>6, <3>2, <4>3
    <3> QED BY <3>1, <3>2
  <2>11. VenuesInOrder'
    <3> SUFFICES ASSUME NEW m \in 1 .. Len(out'), NEW n \in 1 .. Len(out'),
                        m < n, out'[m].venue = out'[n].venue
                 PROVE  Before(out'[m], out'[n])
      BY DEF VenuesInOrder
    <3>1. m \in 1 .. Len(out)
      BY <2>7
    <3>2. CASE n \in 1 .. Len(out)
      BY <1>4, <2>7, <3>1, <3>2 DEF VenuesInOrder
    <3>3. CASE n = Len(out) + 1
      <4>1. out'[m] = out[m] /\ out'[n] = h /\ out[m].venue = v
        BY <1>8, <2>7, <3>1, <3>3
      <4>2. Before(out[m], c.rest[1])
        BY <1>8, <3>1, <4>1 DEF VenueRead, Yielded
      <4> QED BY <1>8, <4>1, <4>2
    <3> QED BY <2>8, <3>2, <3>3
  <2>12. ASSUME runs' = 1 PROVE Merges'
    <3>1. Merges /\ \A w \in Venues : Rising(files[w])
      BY <1>2, <1>4, <1>5, <2>12
    <3>2. ASSUME NEW n \in 1 .. Len(out) PROVE NotAfter(out[n], h)
      BY <1>8, <3>1 DEF Merges, c
    <3>3. ASSUME NEW w \in Venues, NEW k \in 1 .. Len(cursors'[w].rest)
          PROVE  NotAfter(h, cursors'[w].rest[k]) /\ cursors'[w].rest[k] \in Record
      <4>1. cursors'[w].rest[k] \in Record
        <5>1. cursors'[w] \in Cursor
          BY <2>9 DEF StreamTypeOK
        <5> QED BY <5>1 DEF Cursor
      <4>2. CASE w = v
        <5>1. PICK p \in Nat : Later(S, c, d, p)
          BY <2>3
        <5>2. k \in 1 .. Len(d.rest) /\ cursors'[w].rest[k] = d.rest[k]
          BY <2>6, <4>2
        <5>3. Rising(S) /\ Segments(v, S) /\ c.next - 1 \in 1 .. Len(S) /\ v \in Venues
          BY <1>8, <2>3, <3>1 DEF S
        <5>4. NotAfter(Head(c.rest), d.rest[k])
          BY <5>1, <5>2, <5>3, HeadBeforeNext
        <5> QED BY <4>1, <5>2, <5>4 DEF h
      <4>3. CASE w # v
        <5>1. cursors'[w] = cursors[w] /\ k \in 1 .. Len(cursors[w].rest) /\ cursors[w] \in Cursor
          BY <1>4, <2>6, <4>3
        <5>2. cursors[w].rest # <<>> /\ w \in Heads
          BY <5>1 DEF Heads
        <5>3. /\ Segments(w, files[w]) /\ Rising(files[w]) /\ cursors[w].next \in 1 .. Len(files[w]) + 1
              /\ Ahead(files[w], cursors[w])
          BY <1>4, <1>5, <3>1 DEF VenueRead
        <5>4. NotAfter(Head(cursors[w].rest), cursors[w].rest[k])
          BY <5>1, <5>2, <5>3, HeadIsFirst
        <5>5. NotAfter(h, Head(cursors[w].rest)) /\ Head(cursors[w].rest) \in Record
          BY <1>6, <1>7, <5>2 DEF h, c
        <5>6. cursors[w].rest[k] \in Record /\ h \in Record
          BY <1>8, <4>1, <5>1
        <5>7. NotAfter(h, cursors[w].rest[k])
          BY <5>4, <5>5, <5>6, NotAfterTransitive
        <5> QED BY <4>1, <5>1, <5>7
      <4> QED BY <4>2, <4>3
    <3>4. ASSUME NEW m \in 1 .. Len(out'), NEW n \in 1 .. Len(out'), m < n
          PROVE  NotAfter(out'[m], out'[n])
      <4>1. m \in 1 .. Len(out)
        BY <2>7, <3>4
      <4>2. CASE n \in 1 .. Len(out)
        BY <2>7, <3>1, <3>4, <4>1, <4>2 DEF Merges
      <4>3. CASE n = Len(out) + 1
        BY <2>7, <3>2, <4>1, <4>3
      <4> QED BY <2>8, <4>2, <4>3
    <3>5. ASSUME NEW n \in 1 .. Len(out'), NEW w \in Venues, NEW k \in 1 .. Len(cursors'[w].rest)
          PROVE  NotAfter(out'[n], cursors'[w].rest[k])
      <4>1. NotAfter(h, cursors'[w].rest[k]) /\ cursors'[w].rest[k] \in Record
        BY <3>3
      <4>2. CASE n \in 1 .. Len(out)
        <5>1. out'[n] = out[n] /\ out[n] \in Record /\ NotAfter(out[n], h) /\ h \in Record
          BY <1>8, <2>7, <3>2, <4>2
        <5>2. NotAfter(out[n], cursors'[w].rest[k])
          BY <4>1, <5>1, NotAfterTransitive
        <5> QED BY <5>1, <5>2
      <4>3. CASE n = Len(out) + 1
        BY <2>7, <4>1, <4>3
      <4> QED BY <2>8, <4>2, <4>3
    <3> QED BY <3>4, <3>5 DEF Merges
  <2>13. Headed'
    <3> SUFFICES ASSUME NEW w \in Venues, cursors'[w].rest = <<>>
                 PROVE  cursors'[w].next = Len(files'[w]) + 1
      BY DEF Headed
    <3>1. CASE w = v
      BY <1>2, <2>5, <2>6, <3>1 DEF S
    <3>2. CASE w # v
      BY <1>2, <1>4, <2>6, <3>2 DEF Headed
    <3> QED BY <3>1, <3>2
  <2> QED BY <1>2, <2>1, <2>9, <2>10, <2>11, <2>12, <2>13 DEF StreamInv
<1> QED BY <1>3, <1>9

LEMMA EndStreamKeeps ==
  ASSUME StreamInv, EndStream
  PROVE  StreamInv'
<1>1. /\ phase = "replaying" /\ Heads = {} /\ phase' = "replayed" /\ files' = files /\ runs' = runs
      /\ cursors' = cursors /\ out' = out /\ refused' = refused
  BY DEF EndStream, captureVars, replayVars
<1>2. /\ StreamTypeOK' /\ VenuesInOrder' /\ (runs' = 1 => Merges') /\ Headed' /\ Heads' = {}
      /\ \A v \in Venues : VenueRead(v, files'[v], out', cursors'[v])
  BY <1>1 DEF StreamInv, StreamTypeOK, VenuesInOrder, Merges, Headed, Heads
<1> QED BY <1>1, <1>2 DEF StreamInv

LEMMA StreamInvStep == LogInv /\ LogInv' /\ StreamInv /\ [Next]_vars => StreamInv'
<1> SUFFICES ASSUME LogInv, LogInv', StreamInv, [Next]_vars PROVE StreamInv'
  OBVIOUS
<1>1. CASE UNCHANGED vars
  BY <1>1 DEF vars, captureVars, replayVars, StreamInv, StreamTypeOK, VenuesInOrder, Merges, Headed, Heads
<1>2. CASE \E v \in Venues : Connect(v)
  BY <1>2, NotBegunKeeps DEF Connect
<1>3. CASE \E v \in Venues : Capture(v)
  BY <1>3, NotBegunKeeps DEF Capture
<1>4. CASE \E v \in Venues : SyncTick(v)
  BY <1>4, NotBegunKeeps DEF SyncTick
<1>5. CASE \E v \in Venues : \E i \in 1 .. MaxFiles : CompressDone(v, i)
  BY <1>5, NotBegunKeeps DEF CompressDone
<1>6. CASE Crash
  BY <1>6, NotBegunKeeps DEF Crash
<1>7. CASE Finish
  BY <1>7, NotBegunKeeps DEF Finish
<1>8. CASE Restart
  BY <1>8, NotBegunKeeps DEF Restart
<1>9. CASE OpenStream
  BY <1>9, OpenStreamKeeps
<1>10. CASE NextMerged
  BY <1>10, NextMergedKeeps
<1>11. CASE EndStream
  BY <1>11, EndStreamKeeps
<1> QED BY <1>1, <1>2, <1>3, <1>4, <1>5, <1>6, <1>7, <1>8, <1>9, <1>10, <1>11 DEF Next

-----------------------------------------------------------------------------
(* Theorems. *)

\* The segments hold whole sessions in the order captured, and the merge takes
\* beginnings of them, in one order.
THEOREM ReplayInvariant == Spec => [](LogInv /\ StreamInv)
<1>1. Init => LogInv /\ StreamInv
  BY LogInvFirst, StreamInvFirst
<1>2. LogInv /\ StreamInv /\ [Next]_vars => (LogInv /\ StreamInv)'
  BY LogInvStep, StreamInvStep
<1> QED BY <1>1, <1>2, PTL DEF Spec

\* Where an earlier record of the session is, if the merge has a later one.
LEMMA EarlierTaken ==
  ASSUME NEW v, NEW S, Log(v, S), NEW o, NEW c, TakesSynced(S, o, c), TakesBeginning(S, o, c),
         \A i \in 1 .. Len(S) : S[i].zst # "partial",
         c.next \in 1 .. Len(S) + 1,
         NEW i \in 1 .. c.next - 1, NEW k \in 1 .. Len(S[i].records), S[i].records[k] \in Taken(o, c),
         NEW j \in 1 .. Len(S), NEW l \in 1 .. Len(S[j].records), i \in 1 .. Len(S),
         S[j].records[l].session = S[i].records[k].session,
         S[j].records[l].index = S[i].records[k].index - 1
  PROVE  /\ S[j].records[l] \in Taken(o, c) /\ Before(S[j].records[l], S[i].records[k])
         /\ S[j].records[l].venue = v
<1> DEFINE r == S[i].records[k]
           q == S[j].records[l]
<1>1. Segments(v, S) /\ InOrder(S) /\ Spans(S)
  BY DEF Log
<1>2. r \in Record /\ q \in Record /\ q.venue = v /\ Len(S[j].records) \in Nat /\ Len(S) \in Nat
  BY <1>1, SegmentTypes DEF Segments
<1>3. Before(q, r) /\ ~Before(r, q)
  <2>1. {q.session, q.index, r.session, r.index} \subseteq Nat
    BY <1>2 DEF Record
  <2>2. q.session = r.session /\ q.index = r.index - 1
    OBVIOUS
  <2> HIDE DEF q, r
  <2> QED BY <2>1, <2>2 DEF Before
<1>4. Earlier(j, l, i, k)
  <2>1. ~Earlier(i, k, j, l)
    BY <1>1, <1>3 DEF InOrder
  <2>2. ~ (i = j /\ k = l)
    <3> SUFFICES ASSUME i = j, k = l PROVE FALSE
      OBVIOUS
    <3>1. Before(r, r)
      BY <1>3
    <3> QED BY <1>2, <3>1 DEF Before, Record
  <2>3. i \in Int /\ j \in Int /\ k \in Int /\ l \in Int
    OBVIOUS
  <2> QED BY <2>1, <2>2, <2>3 DEF Earlier
<1>5. CASE i = j
  <2>1. l \in 1 .. k - 1
    BY <1>4, <1>5 DEF Earlier
  <2> QED BY <1>2, <1>3, <1>5, <2>1 DEF TakesBeginning
<1>6. CASE i # j
  <2>1. j < i
    BY <1>4, <1>6 DEF Earlier
  <2>2. Full(S[j])
    BY <1>1, <2>1 DEF Spans
  <2>3. l \in 1 .. S[j].synced
    BY <2>2 DEF Full
  <2>4. j \in 1 .. c.next - 1
    BY <1>2, <2>1
  <2>5. q \in Taken(o, c)
    BY <2>3, <2>4 DEF TakesSynced
  <2> QED BY <1>2, <1>3, <2>5
<1> QED BY <1>5, <1>6

LEMMA InvGivesSessions == LogInv /\ StreamInv => SessionsReplayedWhole
<1> SUFFICES ASSUME LogInv, StreamInv, NEW n \in DOMAIN out, Settled(out[n].venue), out[n].index > 0
             PROVE  \E m \in 1 .. n - 1 : /\ out[m].session = out[n].session
                                          /\ out[m].index = out[n].index - 1
  BY DEF SessionsReplayedWhole
<1> DEFINE v == out[n].venue
           S == files[v]
           c == cursors[v]
<1>1. /\ out \in Seq(Record) /\ n \in 1 .. Len(out) /\ Len(out) \in Nat /\ out[n] \in Record /\ v \in Venues
  <2>1. out \in Seq(Record)
    BY DEF StreamInv, StreamTypeOK
  <2>2. n \in 1 .. Len(out) /\ Len(out) \in Nat
    BY <2>1
  <2>3. out[n] \in Record
    BY <2>1, <2>2
  <2> QED BY <2>1, <2>2, <2>3 DEF Record
<1>2. /\ Log(v, S) /\ Segments(v, S) /\ NoHole(S) /\ Len(S) \in Nat
      /\ Ahead(S, c) /\ TakesSynced(S, out, c) /\ TakesBeginning(S, out, c) /\ Yielded(v, S, out, c)
      /\ c.next \in 1 .. Len(S) + 1 /\ VenuesInOrder
  <2>1. Log(v, S)
    BY <1>1 DEF LogInv
  <2>2. VenueRead(v, S, out, c) /\ c.next \in 1 .. Len(S) + 1 /\ VenuesInOrder
    BY <1>1 DEF StreamInv, StreamTypeOK
  <2> HIDE DEF S, c, v
  <2> QED BY <2>1, <2>2 DEF Log, Segments, VenueRead
<1>3. \A i \in 1 .. Len(S) : S[i].zst # "partial"
  BY <1>2 DEF Settled, Segments
<1>4. PICK i \in 1 .. c.next - 1 : \E k \in 1 .. Len(S[i].records) : out[n] = S[i].records[k]
  BY <1>1, <1>2 DEF Yielded
<1>5. PICK k \in 1 .. Len(S[i].records) : out[n] = S[i].records[k]
  BY <1>4
<1>6. i \in 1 .. Len(S) /\ out[n] \in Taken(out, c)
  BY <1>1, <1>2 DEF Taken
<1>7. Has(S, out[n].session, out[n].index - 1)
  BY <1>2, <1>5, <1>6 DEF NoHole
<1>8. PICK j \in 1 .. Len(S) : \E l \in 1 .. Len(S[j].records) :
        S[j].records[l].session = out[n].session /\ S[j].records[l].index = out[n].index - 1
  BY <1>7 DEF Has
<1>9. PICK l \in 1 .. Len(S[j].records) :
        S[j].records[l].session = out[n].session /\ S[j].records[l].index = out[n].index - 1
  BY <1>8
<1> DEFINE q == S[j].records[l]
<1> HIDE DEF v, S, c
<1>10. q \in Taken(out, c) /\ Before(q, out[n]) /\ q.venue = v
  <2>1. S[i].records[k] \in Taken(out, c)
    BY <1>5, <1>6
  <2>2. q.session = S[i].records[k].session /\ q.index = S[i].records[k].index - 1
    BY <1>5, <1>9
  <2>3. q \in Taken(out, c) /\ Before(q, S[i].records[k]) /\ q.venue = v
    BY <1>2, <1>3, <1>6, <2>1, <2>2, EarlierTaken
  <2> QED BY <1>5, <2>3
<1>11. q \in Record
  BY <1>2, SegmentTypes
<1>12. ~Before(out[n], q) /\ out[n] # q
  <2>1. q.session \in Nat /\ q.index \in Nat /\ out[n].session \in Nat /\ out[n].index \in Nat
    BY <1>1, <1>11 DEF Record
  <2>2. q.session = out[n].session /\ q.index = out[n].index - 1
    BY <1>9
  <2> HIDE DEF q
  <2>3. q.index < out[n].index
    BY <2>1, <2>2
  <2>4. ~Before(out[n], q)
    BY <2>1, <2>2, <2>3 DEF Before
  <2>5. out[n] # q
    BY <2>1, <2>3
  <2> QED BY <2>4, <2>5
<1>13. PICK m \in 1 .. Len(out) : q = out[m]
  <2>1. ASSUME NEW x \in 1 .. Len(c.rest), q = c.rest[x] PROVE FALSE
    <3>1. Before(out[n], c.rest[x])
      BY <1>1, <1>2 DEF Yielded, v
    <3> QED BY <1>12, <2>1, <3>1
  <2> QED BY <1>10, <2>1 DEF Taken
<1>14. m < n
  <2>1. ~ (n < m)
    BY <1>1, <1>2, <1>10, <1>12, <1>13 DEF VenuesInOrder, v
  <2>2. n # m
    BY <1>12, <1>13
  <2> QED BY <1>1, <2>1, <2>2
<1>15. m \in 1 .. n - 1
  BY <1>1, <1>14
<1> QED BY <1>9, <1>13, <1>15

LEMMA MergedAscends ==
  ASSUME StreamInv, runs = 1
  PROVE  Ascends
<1> SUFFICES ASSUME NEW n \in 2 .. Len(out) PROVE out[n - 1].mono <= out[n].mono
  BY DEF Ascends
<1>1. out \in Seq(Record) /\ Len(out) \in Nat /\ Merges
  BY DEF StreamInv, StreamTypeOK
<1>2. n - 1 \in 1 .. Len(out) /\ n \in 1 .. Len(out) /\ n - 1 < n
  BY <1>1
<1>3. NotAfter(out[n - 1], out[n])
  BY <1>1, <1>2 DEF Merges
<1>4. out[n - 1].mono \in Nat /\ out[n].mono \in Nat
  <2>1. out[n - 1] \in Record /\ out[n] \in Record
    BY <1>1, <1>2
  <2> QED BY <2>1 DEF Record
<1> QED BY <1>3, <1>4 DEF NotAfter

LEMMA InvGivesDurable == LogInv /\ StreamInv => DurableIsReplayed
<1> SUFFICES ASSUME LogInv, StreamInv, Replayed, NEW r \in durable, Settled(r.venue)
             PROVE  r \in ToSet(out) /\ (runs = 1 => r \in ToSet(Ingested))
  BY DEF DurableIsReplayed
<1> DEFINE v == r.venue
           S == files[v]
           c == cursors[v]
<1>1. v \in Venues /\ Synced(S, r)
  BY DEF LogInv, LogTypeOK, Record
<1>2. /\ Segments(v, S) /\ Len(S) \in Nat /\ TakesSynced(S, out, c) /\ out \in Seq(Record)
      /\ Headed /\ Heads = {}
  <2>1. Segments(v, S)
    BY <1>1 DEF LogInv, Log
  <2>2. VenueRead(v, S, out, c) /\ out \in Seq(Record)
    BY <1>1 DEF StreamInv, StreamTypeOK
  <2>3. Headed /\ Heads = {}
    BY DEF StreamInv, Replayed
  <2> QED BY <2>1, <2>2, <2>3 DEF Segments, VenueRead
<1>3. c.rest = <<>> /\ c.next = Len(S) + 1
  BY <1>1, <1>2 DEF Heads, Headed
<1>4. \A i \in 1 .. Len(S) : S[i].zst # "partial"
  BY <1>2 DEF Settled, Segments
<1>5. PICK i \in 1 .. Len(S) : \E k \in 1 .. S[i].synced : S[i].records[k] = r
  BY <1>1 DEF Synced
<1>6. i \in 1 .. c.next - 1
  BY <1>2, <1>3
<1>7. r \in Taken(out, c)
  BY <1>2, <1>4, <1>5, <1>6 DEF TakesSynced
<1>8. PICK n \in 1 .. Len(out) : r = out[n]
  BY <1>3, <1>7 DEF Taken
<1>9. r \in ToSet(out)
  BY <1>2, <1>8, ToSetHas
<1>10. runs = 1 => r \in ToSet(Ingested)
  BY <1>9, MergedAscends DEF Ingested
<1> QED BY <1>9, <1>10

LEMMA InvGivesMerge == LogInv /\ StreamInv => MergeAscends
<1> SUFFICES ASSUME StreamInv, runs = 1, NEW m \in DOMAIN out, NEW n \in DOMAIN out, m < n
             PROVE  \/ out[m].mono < out[n].mono
                    \/ out[m].mono = out[n].mono /\ out[m].venue < out[n].venue
                    \/ /\ out[m].mono = out[n].mono /\ out[m].venue = out[n].venue
                       /\ \/ out[m].session < out[n].session
                          \/ out[m].session = out[n].session /\ out[m].index < out[n].index
  BY DEF MergeAscends
<1>1. out \in Seq(Record) /\ Merges /\ VenuesInOrder
  BY DEF StreamInv, StreamTypeOK
<1>2. m \in 1 .. Len(out) /\ n \in 1 .. Len(out) /\ out[m] \in Record /\ out[n] \in Record
  BY <1>1
<1>3. NotAfter(out[m], out[n])
  BY <1>1, <1>2 DEF Merges
<1>4. out[m].venue = out[n].venue => Before(out[m], out[n])
  BY <1>1, <1>2 DEF VenuesInOrder
<1>5. out[m].venue \in Nat /\ out[n].venue \in Nat
  BY <1>2, CaptureAssumption DEF CaptureAssumption, Record
<1> QED BY <1>3, <1>4, <1>5 DEF NotAfter, Before

\* The codec of a session sees at replay what capture's saw, from the NOTE on
\* and without a hole, over any crash and rotation.
THEOREM SessionsAreReplayedWhole == Spec => []SessionsReplayedWhole
BY ReplayInvariant, InvGivesSessions, PTL

\* What an fsync covered is replayed, over any number of crashes and restarts.
THEOREM WhatIsDurableIsReplayed == Spec => []DurableIsReplayed
BY ReplayInvariant, InvGivesDurable, PTL

\* The records of one capture come out in the order of time, venue, capture.
THEOREM MergeIsAscending == Spec => []MergeAscends
BY ReplayInvariant, InvGivesMerge, PTL
=============================================================================
