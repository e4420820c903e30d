--------------------------- MODULE DepthSyncProofs --------------------------
(***************************************************************************)
(* The safety of DepthSync, for any set of levels and any bounds: the      *)
(* types, and that a synced book is the venue's book at the codec's last_u.*)
(***************************************************************************)
EXTENDS DepthSync, TLAPS

-----------------------------------------------------------------------------
(* Type correctness. *)

\* The initial state is well typed.
LEMMA InitTypes == Init => TypeOK
<1> SUFFICES ASSUME Init PROVE TypeOK
  OBVIOUS
<1>1. Empty \in [Levels -> Nat]
  BY DEF Empty
<1>2. books \in Seq([Levels -> Nat]) /\ touched \in Seq(Levels)
      /\ Len(books) = 1 /\ Len(touched) = 0
  BY <1>1 DEF Init
<1>3. wire \in Seq(Frames)
  BY DEF Init
<1>4. Made = 0 /\ 0 \in 0 .. Made
  BY <1>2 DEF Made
<1>5. codec \in [state : {"Unsynced", "Synced"}, high : Nat, last : Nat, trade : Nat]
  BY DEF Init, FreshCodec, NoId
<1>6. book \in [sync : SyncStates, levels : [Levels -> Nat]]
  BY <1>1 DEF Init, SyncStates
<1>7. rest \in [state : {"none", "asked", "failed", "answered"}, id : 0 .. Made]
  BY <1>4 DEF Init, NoFetch, NoId
<1>8. /\ sent \in 0 .. Made /\ traded \in Nat
      /\ up \in BOOLEAN /\ anchored \in BOOLEAN /\ due \in {"none", "refresh", "soon"}
      /\ sessions \in Nat /\ failures \in Nat
  BY <1>4 DEF Init
<1> QED
  BY <1>2, <1>3, <1>5, <1>6, <1>7, <1>8 DEF TypeOK

\* The book stays a book whatever batch of levels it is given.
LEMMA ApplyType ==
  ASSUME NEW b \in [sync : SyncStates, levels : [Levels -> Nat]],
         NEW kind \in Kinds,
         NEW S, NEW new \in [S -> Nat]
  PROVE  Apply(b, kind, new) \in [sync : SyncStates, levels : [Levels -> Nat]]
<1>1. Overlay(b.levels, new) \in [Levels -> Nat]
  BY DEF Overlay
<1>2. Empty \in [Levels -> Nat]
  BY DEF Empty
<1>3. {"Unsynced", "Filling", "Synced"} = SyncStates
  BY DEF SyncStates
<1>4. [b EXCEPT !.levels = Overlay(b.levels, new)]
        \in [sync : SyncStates, levels : [Levels -> Nat]]
  BY <1>1
<1>5. [sync |-> "Filling", levels |-> Empty]
        \in [sync : SyncStates, levels : [Levels -> Nat]]
  BY <1>2, <1>3
<1>6. [sync |-> "Unsynced", levels |-> Empty]
        \in [sync : SyncStates, levels : [Levels -> Nat]]
  BY <1>2, <1>3
<1>7. /\ [b EXCEPT !.sync = "Synced"] \in [sync : SyncStates, levels : [Levels -> Nat]]
      /\ [b EXCEPT !.sync = "Unsynced"] \in [sync : SyncStates, levels : [Levels -> Nat]]
  BY <1>3
<1> QED
  BY <1>4, <1>5, <1>6, <1>7 DEF Apply, ApplyCommon, Kinds

\* The first frame on the wire is a frame, and the rest of them are frames.
LEMMA WireType ==
  ASSUME TypeOK, wire # <<>>
  PROVE  wire[1] \in Frames /\ Tail(wire) \in Seq(Frames)
BY DEF TypeOK

\* What the client's steps give the book is a book.
LEMMA BatchTypes ==
  ASSUME TypeOK
  PROVE  /\ ApplyGap(book) \in [sync : SyncStates, levels : [Levels -> Nat]]
         /\ \A S : \A new \in [S -> Nat] :
              /\ ApplySets(book, new) \in [sync : SyncStates, levels : [Levels -> Nat]]
              /\ ApplySnapshot(book, new) \in [sync : SyncStates, levels : [Levels -> Nat]]
<1> DEFINE BookType == [sync : SyncStates, levels : [Levels -> Nat]]
<1>1. book \in BookType
  BY DEF TypeOK
<1>2. Nothing \in [{} -> Nat]
  BY DEF Nothing
<1>3. ApplyGap(book) \in BookType
  BY <1>1, <1>2, ApplyType DEF ApplyGap, Kinds
<1>4. ASSUME NEW S, NEW new \in [S -> Nat]
      PROVE  ApplySets(book, new) \in BookType /\ ApplySnapshot(book, new) \in BookType
  <2>1. ApplySets(book, new) \in BookType
    BY <1>1, ApplyType DEF ApplySets, Kinds
  <2> DEFINE cleared == Apply(book, "Clear", Nothing)
             begun == Apply(cleared, "SnapBegin", Nothing)
             filled == Apply(begun, "SnapLevel", new)
  <2>2. cleared \in BookType
    BY <1>1, <1>2, ApplyType DEF Kinds
  <2> HIDE DEF cleared
  <2>3. begun \in BookType
    BY <2>2, <1>2, ApplyType DEF Kinds
  <2> HIDE DEF begun
  <2>4. filled \in BookType
    BY <2>3, ApplyType DEF Kinds
  <2> HIDE DEF filled
  <2>5. Apply(filled, "SnapEnd", Nothing) \in BookType
    BY <2>4, <1>2, ApplyType DEF Kinds
  <2> QED
    BY <2>1, <2>5 DEF ApplySnapshot, cleared, begun, filled
<1> QED
  BY <1>3, <1>4

\* A past book of the venue has a natural number at every level.
LEMMA VenueBookType ==
  ASSUME TypeOK, NEW n \in 0 .. Made
  PROVE  VenueBook(n) \in [Levels -> Nat]
<1>1. Made \in Nat /\ n + 1 \in 1 .. Len(books)
  BY DEF TypeOK, Made
<1> QED
  BY <1>1 DEF TypeOK, VenueBook

\* The levels of a range of past updates are levels.
LEMMA TouchedLevels ==
  ASSUME TypeOK, NEW U \in Nat, NEW u \in Nat, 1 <= U, u <= Made
  PROVE  Touched(U, u) \subseteq Levels
<1>1. \A k \in U .. u : k \in 1 .. Len(touched)
  BY DEF Made, TypeOK
<1>2. \A k \in 1 .. Len(touched) : touched[k] \in Levels
  BY DEF TypeOK
<1> QED
  BY <1>1, <1>2 DEF Touched

\* A depth frame on the wire covers updates the venue has made.
FrameKnown(f, made) ==
  f.type = "depth" => 1 <= f.first /\ f.first <= f.final /\ f.final <= made
WireKnown == \A i \in 1 .. Len(wire) : FrameKnown(wire[i], Made)

\* The steps of the venue keep the types.
LEMMA VenueTypes == TypeOK /\ Venue => TypeOK'
<1> SUFFICES ASSUME TypeOK, Venue PROVE TypeOK'
  OBVIOUS
<1>1. Made \in Nat
  BY DEF TypeOK, Made
<1>2. ASSUME NEW l \in Levels, VenueUpdate(l) PROVE TypeOK'
  <2>1. PICK q \in {Made + 1} \cup (IF VenueBook(Made)[l] = 0 THEN {} ELSE {0}) :
          books' = Append(books, [VenueBook(Made) EXCEPT ![l] = q])
    BY <1>2 DEF VenueUpdate
  <2>2. q \in Nat /\ [VenueBook(Made) EXCEPT ![l] = q] \in [Levels -> Nat]
    BY <1>1, VenueBookType
  <2>3. books' \in Seq([Levels -> Nat]) /\ Len(books') = Len(books) + 1
    BY <2>1, <2>2 DEF TypeOK
  <2>4. touched' \in Seq(Levels) /\ Len(touched') = Len(touched) + 1
    BY <1>2 DEF VenueUpdate, TypeOK
  <2>5. Made' = Made + 1
    BY <2>4 DEF Made
  <2>6. 0 .. Made \subseteq 0 .. Made'
    BY <2>5, <1>1
  <2> QED
    BY <1>2, <2>3, <2>4, <2>6 DEF VenueUpdate, clientVars, TypeOK
<1>3. CASE VenueSend \/ VenueOmit
  <2>1. Made' = Made
    BY <1>3 DEF VenueSend, VenueOmit, Made
  <2>2. CASE VenueSend
    <3>1. [type |-> "depth", first |-> sent + 1, final |-> Made] \in Frames
      BY <1>1 DEF TypeOK, Frames
    <3>2. wire' \in Seq(Frames)
      BY <2>2, <3>1 DEF VenueSend, TypeOK
    <3> QED
      BY <2>1, <2>2, <3>2, <1>1 DEF VenueSend, TypeOK, clientVars
  <2>3. CASE VenueOmit
    BY <2>1, <2>3, <1>1 DEF VenueOmit, TypeOK, clientVars
  <2> QED
    BY <1>3, <2>2, <2>3
<1>4. CASE VenueTrade
  <2>1. PICK id \in {traded + 1, traded + 2} :
          /\ traded' = id
          /\ wire' = Append(wire, [type |-> "trade", first |-> id, final |-> id])
    BY <1>4 DEF VenueTrade
  <2>2. id \in Nat /\ [type |-> "trade", first |-> id, final |-> id] \in Frames
    BY DEF TypeOK, Frames
  <2>3. wire' \in Seq(Frames) /\ traded' \in Nat
    BY <2>1, <2>2 DEF TypeOK
  <2> QED
    BY <1>4, <2>3 DEF VenueTrade, TypeOK, Made, clientVars
<1>5. ASSUME NEW n \in 0 .. MaxUpdates, RestAnswer(n) PROVE TypeOK'
  BY <1>5 DEF RestAnswer, TypeOK, Made, venueVars
<1>6. CASE RestFail
  <2>1. rest' \in [state : {"none", "asked", "failed", "answered"}, id : 0 .. Made]
    <3>1. rest' = [rest EXCEPT !.state = "failed"]
      BY <1>6 DEF RestFail
    <3>2. rest \in [state : {"none", "asked", "failed", "answered"}, id : 0 .. Made]
      BY DEF TypeOK
    <3> QED
      BY <3>1, <3>2
  <2>2. Made' = Made /\ failures' \in Nat
    BY <1>6 DEF RestFail, venueVars, Made, TypeOK
  <2> QED
    BY <1>6, <2>1, <2>2 DEF RestFail, TypeOK, venueVars
<1> QED
  BY <1>2, <1>3, <1>4, <1>5, <1>6 DEF Venue

\* The steps of the client keep the types.
LEMMA ClientTypes == TypeOK /\ WireKnown /\ Client => TypeOK'
<1> SUFFICES ASSUME TypeOK, WireKnown, Client PROVE TypeOK'
  OBVIOUS
<1> DEFINE CodecType == [state : {"Unsynced", "Synced"}, high : Nat, last : Nat, trade : Nat]
           BookType == [sync : SyncStates, levels : [Levels -> Nat]]
           RestType == [state : {"none", "asked", "failed", "answered"}, id : 0 .. Made]
<1>1. /\ Made \in Nat /\ codec \in CodecType /\ book \in BookType
      /\ rest \in RestType
  BY DEF TypeOK, Made
<1>2. NoFetch \in RestType /\ NoId \in Nat
  BY <1>1 DEF NoFetch, NoId
<1>0. <<>> \in Seq(Frames)
  OBVIOUS
<1>3. CASE Connect
  <2>1. codec' \in CodecType
    BY <1>3 DEF Connect, FreshCodec, NoId
  <2>2. Made' = Made /\ sent' \in 0 .. Made /\ wire' \in Seq(Frames)
    BY <1>0, <1>1, <1>3 DEF Connect, Made
  <2>3. /\ books' = books /\ touched' = touched /\ traded' = traded
        /\ up' = TRUE /\ anchored' = FALSE /\ due' = "soon" /\ book' = book
        /\ rest' = rest /\ sessions' \in Nat /\ failures' = failures
    BY <1>3 DEF Connect, TypeOK
  <2> QED
    BY <2>1, <2>2, <2>3 DEF TypeOK
<1>4. CASE Disconnect
  BY <1>0, <1>4 DEF Disconnect, TypeOK, Made, venueVars, clientVars
\* Reading a frame changes the wire, the codec, the book and the deadline.
<1>5. ASSUME Reading, wire # <<>>, wire' = Tail(wire), codec' \in CodecType,
             book' \in BookType, due' \in {"none", "refresh", "soon"},
             UNCHANGED <<venueVars, up, anchored, rest, sessions, failures>>
      PROVE  TypeOK'
  BY <1>5, WireType DEF TypeOK, Made, venueVars
<1>6. CASE ReadFrame
  <2>1. wire # <<>> /\ Reading
    BY <1>6 DEF ReadFrame, DepthUnsynced, DepthStale, DepthGap, DepthApply,
       TradeFrame, Frame
  <2>2. wire[1].first \in Nat /\ wire[1].final \in Nat
    BY <2>1, WireType DEF Frames
  <2>3. CASE DepthUnsynced
    <3>1. codec' \in CodecType
      BY <1>1, <2>2, <2>3 DEF DepthUnsynced
    <3> QED
      BY <1>1, <1>5, <2>1, <2>3, <3>1 DEF DepthUnsynced, TypeOK
  <2>4. CASE DepthStale
    BY <1>1, <1>5, <2>1, <2>4 DEF DepthStale, TypeOK, clientVars
  <2>5. CASE DepthGap
    <3>1. codec' \in CodecType
      BY <1>1, <1>2, <2>2, <2>5 DEF DepthGap
    <3> QED
      BY <1>5, <2>1, <2>5, <3>1, BatchTypes DEF DepthGap
  <2>6. CASE DepthApply
    <3>1. codec' \in CodecType
      BY <1>1, <2>2, <2>6 DEF DepthApply
    <3>2. book' \in BookType
      <4> DEFINE U == wire[1].first
                 u == wire[1].final
                 new == [l \in Touched(U, u) |-> VenueBook(u)[l]]
      <4>1. 1 <= U /\ U <= u /\ u <= Made
        BY <2>1, <2>6, WireType DEF DepthApply, Frame, WireKnown, FrameKnown
      <4>2. Touched(U, u) \subseteq Levels /\ VenueBook(u) \in [Levels -> Nat]
        BY <2>2, <4>1, VenueBookType, TouchedLevels
      <4>3. new \in [Touched(U, u) -> Nat]
        BY <4>2
      <4>4. book' = ApplySets(book, new)
        BY <2>6 DEF DepthApply
      <4> HIDE DEF new
      <4> QED
        BY <4>3, <4>4, BatchTypes
    <3> QED
      BY <1>5, <2>1, <2>6, <3>1, <3>2 DEF DepthApply, TypeOK
  <2>7. CASE TradeFrame
    <3>1. codec' \in CodecType
      BY <1>1, <2>2, <2>7 DEF TradeFrame
    <3>2. book' \in BookType
      BY <1>1, <2>7, BatchTypes DEF TradeFrame
    <3> QED
      BY <1>5, <2>1, <2>7, <3>1, <3>2 DEF TradeFrame, TypeOK
  <2> QED
    BY <1>6, <2>3, <2>4, <2>5, <2>6, <2>7 DEF ReadFrame
<1>7. CASE FetchRest
  <2>1. rest' \in RestType
    BY <1>1, <1>7 DEF FetchRest
  <2> QED
    BY <1>7, <2>1 DEF FetchRest, TypeOK, Made, venueVars
<1>8. CASE FetchFailed \/ SnapshotRefused
  BY <1>2, <1>8 DEF FetchFailed, SnapshotRefused, TypeOK, Made, venueVars
<1>9. CASE SnapshotAnchors
  <2>1. codec' \in CodecType
    <3>1. rest.id \in Nat
      BY <1>1
    <3> QED
      BY <1>1, <1>2, <1>9, <3>1 DEF SnapshotAnchors
  <2>2. book' \in BookType
    <3> DEFINE S == {m \in Levels : VenueBook(rest.id)[m] # 0}
               new == [l \in S |-> VenueBook(rest.id)[l]]
    <3>1. VenueBook(rest.id) \in [Levels -> Nat]
      BY <1>1, VenueBookType
    <3>2. new \in [S -> Nat]
      BY <3>1
    <3>3. book' = ApplySnapshot(book, new)
      BY <1>9 DEF SnapshotAnchors
    <3> HIDE DEF S, new
    <3> QED
      BY <3>2, <3>3, BatchTypes
  <2> QED
    BY <1>2, <1>9, <2>1, <2>2 DEF SnapshotAnchors, TypeOK, Made, venueVars
<1> QED
  BY <1>3, <1>4, <1>6, <1>7, <1>8, <1>9 DEF Client, FinishFetch

\* The frames on the wire stay known to the venue.
LEMMA NextWireKnown == TypeOK /\ WireKnown /\ [Next]_vars => WireKnown'
<1> SUFFICES ASSUME TypeOK, WireKnown, [Next]_vars PROVE WireKnown'
  OBVIOUS
<1>1. Made \in Nat /\ sent \in 0 .. Made /\ wire \in Seq(Frames)
  BY DEF TypeOK, Made
<1>2. Made' \in Nat /\ Made <= Made'
  <2>1. CASE \E l \in Levels : VenueUpdate(l)
    BY <1>1, <2>1 DEF VenueUpdate, Made, TypeOK
  <2>2. CASE touched' = touched
    BY <1>1, <2>2 DEF Made
  <2> QED
    BY <2>1, <2>2 DEF Next, Venue, Client, ReadFrame, FinishFetch, VenueSend,
       VenueOmit, VenueTrade, RestAnswer, RestFail, Connect, Disconnect,
       DepthUnsynced, DepthStale, DepthGap, DepthApply, TradeFrame, FetchRest,
       FetchFailed, SnapshotRefused, SnapshotAnchors, venueVars, vars
<1>3. \A i \in 1 .. Len(wire) : FrameKnown(wire[i], Made')
  <2> TAKE i \in 1 .. Len(wire)
  <2>1. wire[i] \in Frames /\ FrameKnown(wire[i], Made)
    BY <1>1 DEF WireKnown
  <2>2. wire[i].first \in Nat /\ wire[i].final \in Nat
    BY <2>1 DEF Frames
  <2> QED
    BY <1>1, <1>2, <2>1, <2>2 DEF FrameKnown
<1>4. ASSUME NEW f \in Frames, FrameKnown(f, Made'), wire' = Append(wire, f)
      PROVE  WireKnown'
  <2>1. \A i \in 1 .. Len(wire') :
          \/ wire'[i] = f
          \/ i \in 1 .. Len(wire) /\ wire'[i] = wire[i]
    BY <1>1, <1>4
  <2> QED
    BY <1>3, <1>4, <2>1 DEF WireKnown
<1>5. CASE wire' = wire \/ wire' = <<>>
  BY <1>3, <1>5 DEF WireKnown
<1>6. CASE wire # <<>> /\ wire' = Tail(wire)
  <2>1. \A i \in 1 .. Len(wire') : i + 1 \in 1 .. Len(wire) /\ wire'[i] = wire[i + 1]
    BY <1>1, <1>6
  <2> QED
    BY <1>3, <2>1 DEF WireKnown
<1>7. CASE VenueSend
  <2> DEFINE f == [type |-> "depth", first |-> sent + 1, final |-> Made]
  <2>1. f \in Frames
    BY <1>1 DEF Frames
  <2>2. FrameKnown(f, Made')
    BY <1>1, <1>2, <1>7 DEF VenueSend, FrameKnown
  <2>3. wire' = Append(wire, f)
    BY <1>7 DEF VenueSend
  <2> HIDE DEF f
  <2> QED
    BY <1>4, <2>1, <2>2, <2>3
<1>8. CASE VenueTrade
  <2>1. PICK id \in {traded + 1, traded + 2} :
          wire' = Append(wire, [type |-> "trade", first |-> id, final |-> id])
    BY <1>8 DEF VenueTrade
  <2> DEFINE f == [type |-> "trade", first |-> id, final |-> id]
  <2>2. f \in Frames /\ FrameKnown(f, Made')
    BY DEF Frames, TypeOK, FrameKnown
  <2>3. wire' = Append(wire, f)
    BY <2>1
  <2> HIDE DEF f
  <2> QED
    BY <1>4, <2>2, <2>3
<1> QED
  BY <1>5, <1>6, <1>7, <1>8 DEF Next, Venue, Client, ReadFrame,
     FinishFetch, VenueUpdate, VenueOmit, RestAnswer, RestFail, Connect,
     Disconnect, Frame, DepthUnsynced, DepthStale, DepthGap, DepthApply,
     TradeFrame, FetchRest, FetchFailed, SnapshotRefused, SnapshotAnchors,
     clientVars, vars

\* Types and wire, together inductive.
LEMMA KnownTypes == Spec => [](TypeOK /\ WireKnown)
<1>1. Init => TypeOK /\ WireKnown
  BY InitTypes DEF Init, WireKnown
<1>2. TypeOK /\ WireKnown /\ [Next]_vars => (TypeOK /\ WireKnown)'
  <2>1. TypeOK /\ UNCHANGED vars => TypeOK'
    BY DEF vars, TypeOK, Made
  <2> QED
    BY <2>1, VenueTypes, ClientTypes, NextWireKnown DEF Next
<1> QED
  BY <1>1, <1>2, PTL DEF Spec

\* Every variable keeps its type.
THEOREM DepthTypeCorrect == Spec => []TypeOK
  BY KnownTypes, PTL

-----------------------------------------------------------------------------
(* What a batch does to a book. *)

\* A Gap takes the book out of service.
LEMMA GapBook == TypeOK => ApplyGap(book).sync = "Unsynced"
  BY DEF TypeOK, ApplyGap, Apply, ApplyCommon

\* Sets reach a synced book and no other.
LEMMA SetsBook ==
  ASSUME TypeOK, NEW new
  PROVE  /\ ApplySets(book, new).sync = book.sync
         /\ book.sync = "Synced" =>
              ApplySets(book, new).levels = Overlay(book.levels, new)
<1>1. book \in [sync : SyncStates, levels : [Levels -> Nat]]
  BY DEF TypeOK
<1>2. CASE book.sync = "Synced"
  <2>1. ApplySets(book, new) = [book EXCEPT !.levels = Overlay(book.levels, new)]
    BY <1>2 DEF ApplySets, Apply, ApplyCommon
  <2> QED
    BY <1>1, <2>1
<1>3. CASE book.sync # "Synced"
  BY <1>3 DEF ApplySets, Apply, ApplyCommon
<1> QED
  BY <1>2, <1>3

\* A snapshot replaces the book, whatever it was, and puts it in service.
LEMMA SnapshotBook ==
  ASSUME NEW b, NEW new
  PROVE  ApplySnapshot(b, new) = [sync |-> "Synced", levels |-> Overlay(Empty, new)]
<1> DEFINE cleared == Apply(b, "Clear", Nothing)
           begun == Apply(cleared, "SnapBegin", Nothing)
           filled == Apply(begun, "SnapLevel", new)
<1>1. begun = [sync |-> "Filling", levels |-> Empty]
  BY DEF Apply, ApplyCommon
<1>2. filled = [sync |-> "Filling", levels |-> Overlay(Empty, new)]
  BY <1>1 DEF Apply, ApplyCommon
<1>3. Apply(filled, "SnapEnd", Nothing)
        = [sync |-> "Synced", levels |-> Overlay(Empty, new)]
  BY <1>2 DEF Apply, ApplyCommon
<1> QED
  BY <1>3 DEF ApplySnapshot

-----------------------------------------------------------------------------
(* The venue's history. *)

\* A level that no update of a range touched is the same at both its ends.
Untouched ==
  \A m \in 0 .. Made : \A n \in m .. Made : \A l \in Levels :
    (\A k \in m + 1 .. n : touched[k] # l) => VenueBook(n)[l] = VenueBook(m)[l]

\* The past does not change.
LEMMA PastIsKept ==
  ASSUME TypeOK, [Next]_vars
  PROVE  /\ Made' \in Nat /\ Made <= Made'
         /\ \A n \in 0 .. Made : books'[n + 1] = books[n + 1]
<1>1. Made \in Nat /\ Len(books) = Made + 1
  BY DEF TypeOK, Made
<1>2. CASE \E l \in Levels : VenueUpdate(l)
  BY <1>1, <1>2 DEF VenueUpdate, Made, TypeOK
<1>3. CASE books' = books /\ touched' = touched
  BY <1>1, <1>3 DEF Made
<1> QED
  BY <1>2, <1>3 DEF Next, Venue, Client, ReadFrame, FinishFetch, VenueSend,
     VenueOmit, VenueTrade, RestAnswer, RestFail, Connect, Disconnect,
     DepthUnsynced, DepthStale, DepthGap, DepthApply, TradeFrame, FetchRest,
     FetchFailed, SnapshotRefused, SnapshotAnchors, venueVars, vars

\* A new update changes the level it touches and no other.
LEMMA NextUntouched == TypeOK /\ Untouched /\ [Next]_vars => Untouched'
<1> SUFFICES ASSUME TypeOK, Untouched, [Next]_vars PROVE Untouched'
  OBVIOUS
<1>1. Made \in Nat /\ Len(books) = Made + 1 /\ Len(touched) = Made
  BY DEF TypeOK, Made
<1>2. CASE books' = books /\ touched' = touched
  BY <1>2 DEF Untouched, VenueBook, Made
<1>3. ASSUME NEW l \in Levels, VenueUpdate(l) PROVE Untouched'
  <2>1. PICK q \in Nat : books' = Append(books, [VenueBook(Made) EXCEPT ![l] = q])
    <3> DEFINE Grown(q) == Append(books, [VenueBook(Made) EXCEPT ![l] = q])
               Chosen == {Made + 1} \cup (IF VenueBook(Made)[l] = 0 THEN {} ELSE {0})
    <3>1. \E q \in Chosen : books' = Grown(q)
      BY <1>3 DEF VenueUpdate
    <3>2. Chosen \subseteq Nat
      BY <1>1
    <3> HIDE DEF Grown, Chosen
    <3>3. \E q \in Nat : books' = Grown(q)
      BY <3>1, <3>2
    <3> QED BY <3>3 DEF Grown
  <2>2. Made' = Made + 1 /\ touched' = Append(touched, l)
    BY <1>1, <1>3 DEF VenueUpdate, Made, TypeOK
  <2>3. touched'[Made + 1] = l /\ \A k \in 1 .. Made : touched'[k] = touched[k]
    BY <1>1, <2>2 DEF TypeOK
  <2>4. \A n \in 0 .. Made : books'[n + 1] = books[n + 1]
    BY PastIsKept
  <2>5. VenueBook(Made) \in [Levels -> Nat]
    BY <1>1, VenueBookType
  <2> DEFINE b == [VenueBook(Made) EXCEPT ![l] = q]
  <2>6. \A x \in Levels : x # l => books'[Made + 2][x] = books[Made + 1][x]
    <3>1. b \in [Levels -> Nat] /\ \A x \in Levels : x # l => b[x] = VenueBook(Made)[x]
      BY <2>5
    <3>2. books' = Append(books, b)
      BY <2>1
    <3> HIDE DEF b
    <3>3. books'[Made + 2] = b
      BY <1>1, <3>1, <3>2 DEF TypeOK
    <3> QED
      BY <3>1, <3>3 DEF VenueBook
  <2>7. ASSUME NEW m \in 0 .. Made', NEW n \in m .. Made', NEW x \in Levels,
               \A k \in m + 1 .. n : touched'[k] # x
        PROVE  books'[n + 1][x] = books'[m + 1][x]
    <3>1. CASE n \in 0 .. Made
      <4>1. m \in 0 .. Made /\ n \in m .. Made
        BY <2>2, <2>7, <1>1, <3>1
      <4>2. \A k \in m + 1 .. n : touched[k] # x
        BY <2>3, <2>7, <4>1, <1>1
      <4>3. books[n + 1][x] = books[m + 1][x]
        BY <4>1, <4>2 DEF Untouched, VenueBook
      <4> QED
        BY <2>4, <3>1, <4>1, <4>3
    <3>2. CASE n = Made + 1 /\ m = Made + 1
      BY <3>2
    <3>3. CASE n = Made + 1 /\ m \in 0 .. Made
      <4>1. Made \in m .. Made /\ Made + 1 \in m + 1 .. n
        BY <1>1, <3>3
      <4>2. x # l /\ \A k \in m + 1 .. Made : touched[k] # x
        BY <1>1, <2>3, <2>7, <3>3, <4>1
      <4>3. books[Made + 1][x] = books[m + 1][x]
        BY <3>3, <4>1, <4>2 DEF Untouched, VenueBook
      <4>4. books'[n + 1][x] = books[Made + 1][x]
        BY <1>1, <2>6, <3>3, <4>2
      <4> QED
        BY <2>4, <3>3, <4>3, <4>4
    <3> QED
      BY <1>1, <2>2, <3>1, <3>2, <3>3
  <2> QED
    BY <2>7 DEF Untouched, VenueBook
<1> QED
  BY <1>2, <1>3 DEF Next, Venue, Client, ReadFrame, FinishFetch, VenueSend,
     VenueOmit, VenueTrade, RestAnswer, RestFail, Connect, Disconnect,
     DepthUnsynced, DepthStale, DepthGap, DepthApply, TradeFrame, FetchRest,
     FetchFailed, SnapshotRefused, SnapshotAnchors, venueVars, vars

-----------------------------------------------------------------------------
(* The inductive invariant. *)

DepthInv ==
  /\ TypeOK /\ WireKnown /\ Untouched
  /\ codec.last <= Made
  /\ BookIsVenueBook /\ GapUnsyncsBook /\ ResyncIsPending

\* A diff that starts at or before last_u + 1 takes the venue's book at
\* last_u to the venue's book at u.
LEMMA DiffBridges ==
  ASSUME TypeOK, Untouched, NEW U \in Nat, NEW u \in Nat, NEW last \in Nat,
         1 <= U, U <= last + 1, last < u, u <= Made
  PROVE  Overlay(VenueBook(last), [l \in Touched(U, u) |-> VenueBook(u)[l]])
           = VenueBook(u)
<1> DEFINE new == [l \in Touched(U, u) |-> VenueBook(u)[l]]
<1>1. Made \in Nat /\ u \in 0 .. Made
  BY DEF TypeOK, Made
<1>0. VenueBook(u) \in [Levels -> Nat]
  BY <1>1, VenueBookType
<1>2. ASSUME NEW l \in Levels, l \notin Touched(U, u)
      PROVE  VenueBook(last)[l] = VenueBook(u)[l]
  <2>1. \A k \in last + 1 .. u : touched[k] # l
    BY <1>2 DEF Touched
  <2>2. last \in 0 .. Made /\ u \in last .. Made
    BY <1>1
  <2> QED
    BY <2>1, <2>2 DEF Untouched
<1>3. \A l \in Levels :
        (IF l \in DOMAIN new THEN new[l] ELSE VenueBook(last)[l]) = VenueBook(u)[l]
  BY <1>2
<1> HIDE DEF new
<1>4. Overlay(VenueBook(last), new) = VenueBook(u)
  BY <1>0, <1>3 DEF Overlay
<1> QED
  BY <1>4 DEF new

\* A snapshot's non-empty levels, on an empty book, are the venue's book.
LEMMA SnapshotFills ==
  ASSUME TypeOK, NEW n \in 0 .. Made
  PROVE  Overlay(Empty, [l \in {m \in Levels : VenueBook(n)[m] # 0} |-> VenueBook(n)[l]])
           = VenueBook(n)
<1>1. VenueBook(n) \in [Levels -> Nat]
  BY VenueBookType
<1> DEFINE new == [l \in {m \in Levels : VenueBook(n)[m] # 0} |-> VenueBook(n)[l]]
<1>2. \A l \in Levels :
        (IF l \in DOMAIN new THEN new[l] ELSE Empty[l]) = VenueBook(n)[l]
  BY DEF Empty
<1> HIDE DEF new
<1>3. Overlay(Empty, new) = VenueBook(n)
  BY <1>1, <1>2 DEF Overlay
<1> QED
  BY <1>3 DEF new

\* The parts of the invariant that relate the codec, the book and the fetch.
SyncInv ==
  /\ codec.last <= Made
  /\ BookIsVenueBook /\ GapUnsyncsBook /\ ResyncIsPending

\* Initially nothing is synced.
LEMMA InitDepthInv == Init => DepthInv
<1> SUFFICES ASSUME Init PROVE DepthInv
  OBVIOUS
<1>1. Made = 0 /\ TypeOK
  BY InitTypes DEF Init, Made
<1>2. WireKnown
  BY DEF Init, WireKnown
<1>3. Untouched
  <2>1. \A m \in 0 .. Made : \A n \in m .. Made : m = n
    BY <1>1
  <2> QED
    BY <2>1 DEF Untouched
<1>4. codec.last <= Made /\ BookIsVenueBook /\ GapUnsyncsBook /\ ResyncIsPending
  BY <1>1 DEF Init, FreshCodec, NoId, BookIsVenueBook, GapUnsyncsBook, ResyncIsPending
<1> QED
  BY <1>1, <1>2, <1>3, <1>4 DEF DepthInv

\* The venue moves on: the client's state and what it refers to stay.
LEMMA VenueSync == DepthInv /\ Venue => SyncInv'
<1> SUFFICES ASSUME DepthInv, Venue PROVE SyncInv'
  OBVIOUS
<1>1. /\ codec' = codec /\ anchored' = anchored /\ book' = book /\ due' = due
      /\ up' = up
  BY DEF Venue, VenueUpdate, VenueSend, VenueOmit, VenueTrade, RestAnswer,
     RestFail, clientVars
<1>5. rest'.state # "none" \/ rest' = rest
  <2>1. CASE RestFail
    <3>1. rest \in [state : {"none", "asked", "failed", "answered"}, id : 0 .. Made]
      BY DEF DepthInv, TypeOK
    <3> QED
      BY <2>1, <3>1 DEF RestFail
  <2> QED
    BY <2>1 DEF Venue, VenueUpdate, VenueSend, VenueOmit, VenueTrade,
       RestAnswer, clientVars
<1>2. codec.last \in 0 .. Made
  BY DEF DepthInv, TypeOK, Made
<1>3. [Next]_vars
  BY DEF Next
<1>4. /\ books'[codec'.last + 1] = books[codec.last + 1]
      /\ codec'.last <= Made'
  <2>1. TypeOK /\ Made \in Nat
    BY DEF DepthInv, TypeOK, Made
  <2> QED
    BY <1>1, <1>2, <1>3, <2>1, PastIsKept
<1> QED
  BY <1>1, <1>4, <1>5 DEF VenueBook, SyncInv, DepthInv, BookIsVenueBook, GapUnsyncsBook,
     ResyncIsPending

\* Every step of the client keeps the codec, the book and the fetch in step.
LEMMA ClientSync == DepthInv /\ Client => SyncInv'
<1> SUFFICES ASSUME DepthInv, Client PROVE SyncInv'
  OBVIOUS
<1> USE DEF SyncInv, BookIsVenueBook, GapUnsyncsBook, ResyncIsPending
<1>1. /\ TypeOK /\ Made \in Nat /\ codec.last \in 0 .. Made
      /\ codec \in [state : {"Unsynced", "Synced"}, high : Nat, last : Nat, trade : Nat]
      /\ book \in [sync : SyncStates, levels : [Levels -> Nat]]
      /\ SyncInv
  BY DEF DepthInv, TypeOK, Made
<1>2. books' = books /\ touched' = touched /\ Made' = Made
  BY DEF Client, ReadFrame, FinishFetch, Connect, Disconnect, DepthUnsynced,
     DepthStale, DepthGap, DepthApply, TradeFrame, FetchRest, FetchFailed,
     SnapshotRefused, SnapshotAnchors, venueVars, Made
<1>3. \A n : VenueBook(n)' = VenueBook(n)
  BY <1>2 DEF VenueBook
<1>4. CASE Connect
  BY <1>1, <1>2, <1>4 DEF Connect, FreshCodec, NoId
<1>5. CASE Disconnect
  BY <1>1, <1>2, <1>5 DEF Disconnect, clientVars, VenueBook
<1>6. CASE DepthUnsynced
  <2>1. codec'.state = "Unsynced" /\ codec'.last = codec.last
    BY <1>1, <1>6 DEF DepthUnsynced
  <2> QED
    BY <1>1, <1>2, <1>6, <2>1 DEF DepthUnsynced
<1>7. CASE DepthStale
  BY <1>1, <1>2, <1>7 DEF DepthStale, clientVars, VenueBook
<1>8. CASE DepthGap
  <2>1. codec'.state = "Unsynced" /\ codec'.last = 0
    BY <1>1, <1>8 DEF DepthGap, NoId
  <2> QED
    BY <1>1, <1>2, <1>8, <2>1, GapBook DEF DepthGap
<1>9. CASE DepthApply
  <2> DEFINE U == wire[1].first
             u == wire[1].final
             new == [l \in Touched(U, u) |-> VenueBook(u)[l]]
  <2>1. /\ codec.state = "Synced" /\ codec.last < u /\ U <= codec.last + 1
        /\ wire # <<>> /\ wire[1].type = "depth"
        /\ codec' = [codec EXCEPT !.last = u] /\ book' = ApplySets(book, new)
    BY <1>9 DEF DepthApply, Frame
  <2>2. U \in Nat /\ u \in Nat
    BY <1>1, <2>1, WireType DEF Frames
  <2>3. 1 <= U /\ u <= Made
    <3>1. 1 \in 1 .. Len(wire)
      BY <1>1, <2>1 DEF TypeOK
    <3>2. FrameKnown(wire[1], Made)
      BY <3>1 DEF DepthInv, WireKnown
    <3> QED
      BY <2>1, <3>2 DEF FrameKnown
  <2>4. codec'.state = "Synced" /\ codec'.last = u
    BY <1>1, <2>1
  <2>5. Overlay(VenueBook(codec.last), new) = VenueBook(u)
    BY <1>1, <2>1, <2>2, <2>3, DiffBridges DEF DepthInv
  <2> HIDE DEF U, u, new
  <2>6. /\ book'.sync = book.sync
        /\ book.sync = "Synced" => book'.levels = VenueBook(u)
    BY <1>1, <2>1, <2>5, SetsBook
  <2> QED
    BY <1>2, <1>3, <2>3, <2>4, <2>6
<1>10. CASE TradeFrame
  <2>1. codec'.state = codec.state /\ codec'.last = codec.last
    BY <1>1, <1>10 DEF TradeFrame
  <2>2. book' = book \/ book'.sync = "Unsynced"
    BY <1>1, <1>10, GapBook DEF TradeFrame
  <2> QED
    BY <1>1, <1>2, <1>3, <1>10, <2>1, <2>2 DEF TradeFrame
<1>11. CASE FetchRest
  <2>1. rest'.state = "asked"
    BY <1>1, <1>11 DEF FetchRest, TypeOK
  <2> QED
    BY <1>1, <1>2, <1>3, <1>11, <2>1 DEF FetchRest
<1>12. CASE FetchFailed \/ SnapshotRefused
  BY <1>1, <1>2, <1>3, <1>12 DEF FetchFailed, SnapshotRefused
<1>13. CASE SnapshotAnchors
  <2>1. rest.id \in 0 .. Made
    BY <1>1 DEF TypeOK
  <2>2. codec'.state = "Synced" /\ codec'.last = rest.id
    BY <1>1, <1>13 DEF SnapshotAnchors
  <2>3. book' = [sync |-> "Synced", levels |-> VenueBook(rest.id)]
    BY <1>1, <1>13, <2>1, SnapshotBook, SnapshotFills DEF SnapshotAnchors
  <2> QED
    BY <1>1, <1>2, <1>3, <1>13, <2>1, <2>2, <2>3
<1> QED
  BY <1>4, <1>5, <1>6, <1>7, <1>8, <1>9, <1>10, <1>11, <1>12, <1>13
     DEF Client, ReadFrame, FinishFetch

\* The invariant holds of every reachable state.
LEMMA DepthInvariant == Spec => []DepthInv
<1>1. DepthInv /\ [Next]_vars => DepthInv'
  <2> SUFFICES ASSUME DepthInv, [Next]_vars PROVE DepthInv'
    OBVIOUS
  <2>1. TypeOK' /\ WireKnown'
    <3>1. TypeOK /\ UNCHANGED vars => TypeOK'
      BY DEF vars, TypeOK, Made
    <3> QED
      BY <3>1, VenueTypes, ClientTypes, NextWireKnown DEF Next, DepthInv
  <2>2. Untouched'
    BY NextUntouched DEF DepthInv
  <2>3. SyncInv'
    <3>1. CASE UNCHANGED vars
      BY <3>1 DEF vars, DepthInv, SyncInv, Made, VenueBook, BookIsVenueBook,
         GapUnsyncsBook, ResyncIsPending
    <3> QED
      BY <3>1, VenueSync, ClientSync DEF Next
  <2> QED
    BY <2>1, <2>2, <2>3 DEF DepthInv, SyncInv
<1> QED
  BY <1>1, InitDepthInv, PTL DEF Spec

\* A synced book is the venue's book at the codec's last_u.
THEOREM BookIsVenueBookTheorem == Spec => []BookIsVenueBook
<1>1. DepthInv => BookIsVenueBook
  BY DEF DepthInv
<1> QED
  BY <1>1, DepthInvariant, PTL

\* Once anchored, the book is never in service without its codec.
THEOREM GapUnsyncsBookTheorem == Spec => []GapUnsyncsBook
<1>1. DepthInv => GapUnsyncsBook
  BY DEF DepthInv
<1> QED
  BY <1>1, DepthInvariant, PTL

\* No event of the loop loses the request for a resync.
THEOREM ResyncIsPendingTheorem == Spec => []ResyncIsPending
<1>1. DepthInv => ResyncIsPending
  BY DEF DepthInv
<1> QED
  BY <1>1, DepthInvariant, PTL

\* The snapshot that ends an unsynced period covers the frames dropped in it.
THEOREM AnchorCoversDroppedTheorem == Spec => AnchorCoversDropped
<1>1. TypeOK /\ [Next]_vars =>
        [codec.state = "Unsynced" /\ codec'.state = "Synced" =>
           codec'.last >= codec.high]_vars
  <2> SUFFICES ASSUME TypeOK, [Next]_vars, codec.state = "Unsynced",
                      codec'.state = "Synced"
               PROVE  codec'.last >= codec.high
    OBVIOUS
  <2>1. codec \in [state : {"Unsynced", "Synced"}, high : Nat, last : Nat, trade : Nat]
    BY DEF TypeOK
  <2>2. CASE SnapshotAnchors
    <3>1. rest.id \in Nat /\ rest.id >= codec.high
      BY <2>1, <2>2 DEF SnapshotAnchors, Predates, TypeOK, Made
    <3>2. codec'.last = rest.id
      BY <2>1, <2>2 DEF SnapshotAnchors
    <3> QED
      BY <3>1, <3>2
  <2>3. CASE DepthUnsynced
    BY <2>1, <2>3 DEF DepthUnsynced
  <2>4. CASE TradeFrame
    BY <2>1, <2>4 DEF TradeFrame
  <2>5. CASE codec' = codec
    BY <2>5
  <2>6. CASE Connect
    BY <2>6 DEF Connect, FreshCodec
  <2> QED
    BY <2>2, <2>3, <2>4, <2>5, <2>6 DEF Next, Venue, Client, ReadFrame,
       FinishFetch, VenueUpdate, VenueSend, VenueOmit, VenueTrade, RestAnswer,
       RestFail, Disconnect, DepthStale, DepthGap, DepthApply, FetchRest,
       FetchFailed, SnapshotRefused, clientVars, vars
<1> QED
  BY <1>1, KnownTypes, PTL DEF Spec, AnchorCoversDropped
=============================================================================
