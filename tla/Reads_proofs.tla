---------------------------- MODULE Reads_proofs ----------------------------
(***************************************************************************)
(* Proofs about what the readers and the index walks leave behind, for any *)
(* number of reader threads, callers, pages and chunks, and for any events *)
(* and stops: the read accounts are exact and a walk over pages returns    *)
(* what was there (ReadQueue), and an index with its marker has an entry   *)
(* of every stored event (IndexRebuild).                                   *)
(***************************************************************************)
EXTENDS ReadQueue, IndexRebuild, Sums_proofs, SequenceTheorems, TLAPS

-----------------------------------------------------------------------------
(* The read queue *)

\* What a call, the channels and the accounts hold.
CallState == {"idle", "count", "bytes", "over", "send", "wait", "answered"}
CallRecord == [at : CallState, msg : Message \cup {Missing}, chan : Nat, done : BOOLEAN, walked : SUBSET Nat, after : Nat,
               first : SUBSET Nat, ok : BOOLEAN \cup {Missing, "default"}]
ReadTypeOK ==
    /\ rmenu \in ReadMenus
    /\ pendingReads \in [reads : Int, bytes : Int, api : Int, apibytes : Int]
    /\ inbox \in [1..ApiChannel -> Seq(QueuedCall)]
    /\ busy \in [1..ApiChannel -> QueuedCall \cup {Missing}]
    /\ open \subseteq 1..ApiChannel /\ rr \in 0..(Readers - 1) /\ keys \subseteq Keys
    /\ call \in [Callers -> CallRecord] /\ made \in [Callers -> Nat] /\ gone \in [reads : Nat, api : Nat]

\* A call in a channel is the n-th of its caller, and the channel is the one of its form.
Placed(b, ch) ==
    /\ b.who \in Callers /\ b.msg = rmenu.calls[b.who][b.n] /\ (Api(b.msg) <=> ch = ApiChannel)
QueueInv ==
    /\ \A ch \in 1..ApiChannel : /\ \A i \in 1..Len(inbox[ch]) : Placed(inbox[ch][i], ch)
                                 /\ busy[ch] # Missing => Placed(busy[ch], ch)
    /\ \A c \in Callers : ~On(c, "idle") => made[c] \in 1..Len(rmenu.calls[c]) /\ Msg(c) = rmenu.calls[c][made[c]]
    /\ \A c \in Callers : call[c].at \in {"bytes", "send", "over"} => call[c].chan \in 1..ApiChannel /\ (Api(Msg(c)) <=> call[c].chan = ApiChannel)

\* A walk in hand has seen every key up to its cursor, and no key goes away.
WalkInv ==
    \A c \in Callers : call[c].at \in {"count", "bytes", "over", "send", "wait"} /\ Msg(c).what = "page"
        => call[c].first \subseteq keys /\ \A k \in call[c].first : k <= call[c].after => k \in call[c].walked
ReadInv == ReadTypeOK /\ QueueInv /\ WalkInv /\ ReadsWhole

-----------------------------------------------------------------------------
(* Shapes *)

\* A caller's calls are messages, and there are finitely many callers.
LEMMA CallersKnown ==
  ASSUME ReadTypeOK
  PROVE  /\ IsFiniteSet(Callers) /\ rmenu \in ReadMenus /\ rmenu.late \subseteq Keys
         /\ \A c \in Callers : rmenu.calls[c] \in Seq(Message) /\ c \in UNION {DOMAIN m.calls : m \in ReadMenus}
         /\ ApiChannel \in Nat /\ ApiChannel = Readers + 1 /\ Readers \in Nat
  BY MenuType, ReadLimits DEF ReadTypeOK, Callers, ApiChannel

\* The channel of a message is one of the channels, and the last one is the API's.
LEMMA ChannelOf ==
  ASSUME ReadTypeOK, NEW m
  PROVE  /\ ReadChannel(m) \in 1..ApiChannel /\ ReadChannel(m) \in Nat
         /\ Api(m) <=> ReadChannel(m) = ApiChannel
  BY ReadLimits DEF ReadTypeOK, ReadChannel, ApiChannel

\* Adding to and taking from the counters keeps them numbers.
LEMMA CountersKept ==
  ASSUME NEW p \in [reads : Int, bytes : Int, api : Int, apibytes : Int], NEW m \in Message
  PROVE  /\ Count(m, p, 1) \in [reads : Int, bytes : Int, api : Int, apibytes : Int]
         /\ AddBytes(m, p) \in [reads : Int, bytes : Int, api : Int, apibytes : Int]
         /\ ReleaseRead(m, p) \in [reads : Int, bytes : Int, api : Int, apibytes : Int]
         /\ Count(m, p, 1).reads = p.reads + (IF Api(m) THEN 0 ELSE 1)
         /\ Count(m, p, 1).api = p.api + (IF Api(m) THEN 1 ELSE 0)
         /\ AddBytes(m, p).reads = p.reads /\ AddBytes(m, p).api = p.api
         /\ ReleaseRead(m, p).reads = p.reads - (IF Api(m) THEN 0 ELSE 1)
         /\ ReleaseRead(m, p).api = p.api - (IF Api(m) THEN 1 ELSE 0)
  <1> DEFINE Counters == [reads : Int, bytes : Int, api : Int, apibytes : Int]
             u == Uncount(m, p)
  <1>0. m.bytes \in Nat
    BY DEF Message
  <1>1. /\ Count(m, p, 1) \in Counters
        /\ Count(m, p, 1).reads = p.reads + (IF Api(m) THEN 0 ELSE 1)
        /\ Count(m, p, 1).api = p.api + (IF Api(m) THEN 1 ELSE 0)
    BY DEF Count
  <1>2. AddBytes(m, p) \in Counters /\ AddBytes(m, p).reads = p.reads /\ AddBytes(m, p).api = p.api
    BY <1>0 DEF AddBytes
  <1>3. /\ u \in Counters
        /\ u.reads = p.reads - (IF Api(m) THEN 0 ELSE 1) /\ u.api = p.api - (IF Api(m) THEN 1 ELSE 0)
    BY DEF Uncount
  <1> HIDE DEF u
  <1>4. SubBytes(m, u) \in Counters /\ SubBytes(m, u).reads = u.reads /\ SubBytes(m, u).api = u.api
    BY <1>0, <1>3 DEF SubBytes
  <1>5. ReleaseRead(m, p) = SubBytes(m, u)
    BY DEF ReleaseRead, u
  <1> QED BY <1>1, <1>2, <1>3, <1>4, <1>5

\* What a step that changes one caller's record leaves of the invariant: the
\* record fits, its message is the caller's, its channel is the message's, and
\* its walk has seen what it passed.
GoodCall(c, r) ==
    /\ r \in CallRecord
    /\ r.at # "idle" => made'[c] \in 1..Len(rmenu.calls[c]) /\ r.msg = rmenu.calls[c][made'[c]]
    /\ r.at \in {"bytes", "send", "over"} => r.chan \in 1..ApiChannel /\ (Api(r.msg) <=> r.chan = ApiChannel)
    /\ r.at \in {"count", "bytes", "over", "send", "wait"} /\ r.msg.what = "page"
         => r.first \subseteq keys /\ \A k \in r.first : k <= r.after => k \in r.walked
    /\ r.at = "answered" /\ r.msg.what = "page" /\ r.ok = TRUE => r.first \subseteq r.walked


ChannelsGood ==
    \A ch \in 1..ApiChannel : /\ \A i \in 1..Len(inbox[ch]) : Placed(inbox[ch][i], ch)
                              /\ busy[ch] # Missing => Placed(busy[ch], ch)

\* The parts of the invariant that the records of the calls make up.
LEMMA CallParts ==
  ASSUME ReadInv, UNCHANGED <<rmenu, keys>>, call' \in [Callers -> CallRecord],
         \A c \in Callers : GoodCall(c, call'[c]), ChannelsGood'
  PROVE  QueueInv' /\ WalkInv' /\ WalkWhole'
  BY DEF ReadInv, GoodCall, ChannelsGood, QueueInv, WalkInv, WalkWhole, On, Msg, Callers, Placed

\* A record that a step leaves alone stays good.
LEMMA CallKept ==
  ASSUME ReadInv, NEW c \in Callers, made'[c] = made[c]
  PROVE  GoodCall(c, call[c])
  BY DEF ReadInv, ReadTypeOK, ReadsWhole, GoodCall, QueueInv, WalkInv, WalkWhole, On, Msg

-----------------------------------------------------------------------------
(* Places *)

\* A caller that comes to hold a place, or gives one up, changes the count by one.
LEMMA ReservingChange ==
  ASSUME ReadTypeOK, NEW c \in Callers, NEW q, UNCHANGED rmenu,
         \A d \in Callers : d # c => (d \in Reserving(q) <=> d \in Reserving(q)')
  PROVE  /\ Cardinality(Reserving(q)) \in Nat /\ Cardinality(Reserving(q)') \in Nat
         /\ Cardinality(Reserving(q)') = Cardinality(Reserving(q)) - (IF c \in Reserving(q) THEN 1 ELSE 0)
                                             + (IF c \in Reserving(q)' THEN 1 ELSE 0)
  <1> DEFINE A == Reserving(q)
             B == Reserving(q)'
  <1>1. A \subseteq Callers /\ B \subseteq Callers
    BY DEF Reserving, Callers
  <1>2. IsFiniteSet(A) /\ IsFiniteSet(B)
    BY <1>1, CallersKnown, FS_Subset
  <1>3. Cardinality(A) \in Nat /\ Cardinality(B) \in Nat
    BY <1>2, FS_CardinalityType
  <1>4. \A d : d # c => (d \in A <=> d \in B)
    BY <1>1
  <1> HIDE DEF A, B
  <1>5. CASE c \in A /\ c \in B
    <2>1. A = B
      BY <1>4, <1>5
    <2> QED BY <2>1, <1>3, <1>5 DEF A, B
  <1>6. CASE c \in A /\ c \notin B
    <2>1. B = A \ {c}
      BY <1>4, <1>6
    <2>2. Cardinality(B) = Cardinality(A) - 1
      BY <2>1, <1>2, <1>6, FS_RemoveElement
    <2> QED BY <2>2, <1>3, <1>6 DEF A, B
  <1>7. CASE c \notin A /\ c \in B
    <2>1. B = A \cup {c}
      BY <1>4, <1>7
    <2>2. Cardinality(B) = Cardinality(A) + 1
      BY <2>1, <1>2, <1>7, FS_AddElement
    <2> QED BY <2>2, <1>3, <1>7 DEF A, B
  <1>8. CASE c \notin A /\ c \notin B
    <2>1. A = B
      BY <1>4, <1>8
    <2> QED BY <2>1, <1>3, <1>8 DEF A, B
  <1> QED BY <1>5, <1>6, <1>7, <1>8

\* The load of a channel is a number.
LEMMA LoadNat ==
  ASSUME ReadTypeOK
  PROVE  \A ch \in 1..ApiChannel : /\ Load[ch] \in Nat
                                   /\ Load[ch] = Len(inbox[ch]) + (IF busy[ch] = Missing THEN 0 ELSE 1)
  <1> SUFFICES ASSUME NEW ch \in 1..ApiChannel
               PROVE  Load[ch] \in Nat /\ Load[ch] = Len(inbox[ch]) + (IF busy[ch] = Missing THEN 0 ELSE 1)
    OBVIOUS
  <1>1. inbox[ch] \in Seq(QueuedCall)
    BY DEF ReadTypeOK
  <1>2. Len(inbox[ch]) \in Nat
    BY <1>1, LenProperties
  <1>3. Load[ch] = Len(inbox[ch]) + (IF busy[ch] = Missing THEN 0 ELSE 1)
    BY DEF Load
  <1>4. CASE busy[ch] = Missing
    BY <1>2, <1>3, <1>4
  <1>5. CASE busy[ch] # Missing
    BY <1>2, <1>3, <1>5
  <1> QED BY <1>4, <1>5

\* The channels of a queue are finitely many, and every channel is of one queue.
LEMMA ChannelSets ==
  ASSUME ReadTypeOK
  PROVE  /\ IsFiniteSet({ApiChannel}) /\ IsFiniteSet(1..Readers)
         /\ {ApiChannel} \subseteq 1..ApiChannel /\ 1..Readers \subseteq 1..ApiChannel
         /\ \A ch \in 1..ApiChannel : (ch \in {ApiChannel} <=> ch = ApiChannel) /\ (ch \in 1..Readers <=> ch # ApiChannel)
  <1>1. Readers \in Nat /\ Readers > 0 /\ ApiChannel = Readers + 1
    BY ReadLimits DEF ApiChannel
  <1>2. IsFiniteSet({ApiChannel}) /\ IsFiniteSet(1..Readers)
    <2>1. IsFiniteSet({ApiChannel})
      BY FS_Singleton
    <2>2. IsFiniteSet(1..Readers)
      BY <1>1, FS_Interval
    <2> QED BY <2>1, <2>2
  <1> QED BY <1>1, <1>2

\* A channel whose load changes changes the number of the calls sent by as much.
LEMMA SentChange ==
  ASSUME ReadTypeOK, ReadTypeOK', NEW ch \in 1..ApiChannel, NEW q \in {"reads", "api"},
         \A d \in 1..ApiChannel : d # ch => Load'[d] = Load[d]
  PROVE  /\ Sent(q) \in Nat /\ Load[ch] \in Nat /\ Load'[ch] \in Nat
         /\ Sent(q)' = Sent(q) + (IF ch = ApiChannel <=> q = "api" THEN Load'[ch] - Load[ch] ELSE 0)
  <1>1. \A d \in 1..ApiChannel : Load[d] \in Nat /\ Load'[d] \in Nat
    <2>1. \A d \in 1..ApiChannel : Load[d] \in Nat
      BY LoadNat
    <2>2. \A d \in 1..ApiChannel : Load'[d] \in Nat
      <3> SUFFICES ASSUME NEW d \in 1..ApiChannel PROVE Load'[d] \in Nat
        OBVIOUS
      <3>1. inbox'[d] \in Seq(QueuedCall)
        BY DEF ReadTypeOK, ApiChannel
      <3>2. Len(inbox'[d]) \in Nat
        BY <3>1, LenProperties
      <3>3. Load'[d] = Len(inbox'[d]) + (IF busy'[d] = Missing THEN 0 ELSE 1)
        BY DEF Load, ApiChannel
      <3>4. CASE busy'[d] = Missing
        BY <3>2, <3>3, <3>4
      <3>5. CASE busy'[d] # Missing
        BY <3>2, <3>3, <3>5
      <3> QED BY <3>4, <3>5
    <2> QED BY <2>1, <2>2
  <1>2. PICK S : S = IF q = "api" THEN {ApiChannel} ELSE 1..Readers
    OBVIOUS
  <1>3. IsFiniteSet(S) /\ S \subseteq 1..ApiChannel /\ (ch \in S <=> (ch = ApiChannel <=> q = "api"))
    <2>1. CASE q = "api"
      BY <1>2, <2>1, ChannelSets
    <2>2. CASE q = "reads"
      BY <1>2, <2>2, ChannelSets
    <2> QED BY <2>1, <2>2
  <1>4. PICK f, g : f = Load /\ g = Load'
    OBVIOUS
  <1>5. Sent(q) = SumOver(f, S) /\ Sent(q)' = SumOver(g, S)
    BY <1>2, <1>4 DEF Sent, ApiChannel
  <1>6. /\ \A d \in S : f[d] \in Nat /\ g[d] \in Nat /\ (d # ch => g[d] = f[d])
        /\ f[ch] \in Nat /\ g[ch] \in Nat /\ Load[ch] = f[ch] /\ Load'[ch] = g[ch]
    BY <1>1, <1>3, <1>4
  <1>7. SumOver(f, S) \in Nat
    BY <1>3, <1>6, SumNat
  <1>8. CASE ch \in S
    <2>1. SumOver(g, S) = SumOver(f, S) - f[ch] + g[ch]
      <3>1. ASSUME NEW x \in S, \A y \in S : f[y] \in Nat /\ g[y] \in Nat, \A y \in S : y # x => g[y] = f[y]
            PROVE  SumOver(g, S) = SumOver(f, S) - f[x] + g[x]
        <4>1. IsFiniteSet(S)
          BY <1>3
        <4> QED BY <3>1, <4>1, SumChange
      <3> QED BY <3>1, <1>6, <1>8
    <2> QED BY <1>3, <1>5, <1>6, <1>7, <1>8, <2>1
  <1>9. CASE ch \notin S
    <2>1. SumOver(g, S) = SumOver(f, S)
      BY <1>3, <1>6, <1>9, SumSame
    <2> QED BY <1>3, <1>5, <1>6, <1>7, <1>9, <2>1
  <1> QED BY <1>8, <1>9

\* Nothing sent and nothing handled: the calls sent stay as many.
LEMMA SentSame ==
  ASSUME ReadTypeOK, UNCHANGED <<inbox, busy>>, NEW q \in {"reads", "api"}
  PROVE  Sent(q)' = Sent(q) /\ Sent(q) \in Nat
  <1>1. Load' = Load
    BY DEF Load, ApiChannel
  <1>2. PICK S : S = IF q = "api" THEN {ApiChannel} ELSE 1..Readers
    OBVIOUS
  <1>3. IsFiniteSet(S) /\ S \subseteq 1..ApiChannel
    BY <1>2, ChannelSets
  <1>4. PICK f : f = Load
    OBVIOUS
  <1>5. Sent(q) = SumOver(f, S) /\ Sent(q)' = SumOver(f, S)
    BY <1>1, <1>2, <1>4 DEF Sent, ApiChannel
  <1>6. SumOver(f, S) \in Nat
    BY <1>3, <1>4, LoadNat, SumNat
  <1> QED BY <1>5, <1>6

-----------------------------------------------------------------------------
(* The steps of a caller *)

\* The invariant from its parts, after a step that leaves the menu and the keys alone.
LEMMA InvParts ==
  ASSUME ReadInv, UNCHANGED <<rmenu, keys>>, ReadTypeOK', \A c \in Callers : GoodCall(c, call'[c]), ChannelsGood', PlacesExact'
  PROVE  ReadInv'
  <1>1. call' \in [Callers -> CallRecord]
    BY DEF ReadTypeOK, Callers
  <1> QED BY <1>1, CallParts DEF ReadInv, ReadsWhole

\* A step that leaves the channels alone.
LEMMA ChannelsSame ==
  ASSUME ReadInv, UNCHANGED <<rmenu, inbox, busy>>
  PROVE  ChannelsGood'
  BY DEF ReadInv, QueueInv, ChannelsGood, Placed, Callers, ApiChannel

\* A caller's step that leaves the channels and the places of the dropped alone keeps the places exact when the counters move
\* with the place of the caller.
LEMMA PlacesByCaller ==
  ASSUME ReadInv, NEW c \in Callers, NEW r, UNCHANGED <<rmenu, inbox, busy, gone>>,
         call' = [call EXCEPT ![c] = r],
         \A q \in {"reads", "api"} :
            pendingReads'[q] = pendingReads[q] - (IF c \in Reserving(q) THEN 1 ELSE 0)
                                 + (IF r.at \in {"bytes", "send", "over"} /\ Queue(r.msg) = q THEN 1 ELSE 0)
  PROVE  PlacesExact'
  <1> SUFFICES ASSUME NEW q \in {"reads", "api"}
               PROVE  pendingReads'[q] = Cardinality(Reserving(q)') + Sent(q)' + gone'[q]
    BY DEF PlacesExact
  <1>0. ReadTypeOK /\ call \in [Callers -> CallRecord] /\ gone[q] \in Nat
    BY DEF ReadInv, ReadTypeOK
  <1>1. \A d \in Callers : d \in Reserving(q)' <=> call'[d].at \in {"bytes", "send", "over"} /\ Queue(call'[d].msg) = q
    BY DEF Reserving, Msg, Callers, Queue, Api
  <1>2. \A d \in Callers : d # c => (d \in Reserving(q) <=> d \in Reserving(q)')
    BY <1>0, <1>1 DEF Reserving, Msg
  <1>3. c \in Reserving(q)' <=> r.at \in {"bytes", "send", "over"} /\ Queue(r.msg) = q
    BY <1>0, <1>1
  <1>4. /\ Cardinality(Reserving(q)) \in Nat /\ Cardinality(Reserving(q)') \in Nat
        /\ Cardinality(Reserving(q)') = Cardinality(Reserving(q)) - (IF c \in Reserving(q) THEN 1 ELSE 0)
                                          + (IF c \in Reserving(q)' THEN 1 ELSE 0)
    BY <1>0, <1>2, ReservingChange
  <1>5. Sent(q)' = Sent(q) /\ Sent(q) \in Nat
    BY <1>0, SentSame
  <1>6. pendingReads[q] = Cardinality(Reserving(q)) + Sent(q) + gone[q]
    BY DEF ReadInv, ReadsWhole, PlacesExact
  <1> QED BY <1>0, <1>3, <1>4, <1>5, <1>6

\* The next call of a caller begins.
LEMMA StartKeeps ==
  ASSUME ReadInv, NEW c \in Callers, Start(c)
  PROVE  ReadInv'
  <1> DEFINE r == [at |-> "count", msg |-> rmenu.calls[c][made[c] + 1], chan |-> 0, done |-> FALSE,
                   walked |-> {}, after |-> 0, first |-> keys, ok |-> Missing]
  <1>0. /\ call' = [call EXCEPT ![c] = r] /\ made' = [made EXCEPT ![c] = @ + 1] /\ call[c].at = "idle"
        /\ UNCHANGED <<pendingReads, inbox, busy, open, rr, keys, gone, rmenu>>
    BY DEF Start, On
  <1>1. /\ rmenu.calls[c] \in Seq(Message) /\ made[c] \in Nat /\ made[c] < Len(rmenu.calls[c]) /\ keys \subseteq Nat \ {0}
    BY CallersKnown, KeysInOrder DEF ReadInv, ReadTypeOK, Start
  <1>2. rmenu.calls[c][made[c] + 1] \in Message /\ made[c] + 1 \in 1..Len(rmenu.calls[c])
    BY <1>1, ElementOfSeq, LenProperties
  <1>3. r \in CallRecord
    BY <1>1, <1>2 DEF CallRecord, CallState
  <1>4. ReadTypeOK'
    BY <1>0, <1>1, <1>3 DEF ReadInv, ReadTypeOK, Callers, ApiChannel
  <1>5. \A d \in Callers : GoodCall(d, call'[d])
    <2> SUFFICES ASSUME NEW d \in Callers PROVE GoodCall(d, call'[d])
      OBVIOUS
    <2>1. CASE d = c
      <3>1. call'[d] = r /\ made'[d] = made[c] + 1
        BY <1>0, <2>1 DEF ReadInv, ReadTypeOK
      <3>2. \A k \in keys : ~(k <= 0)
        BY <1>1
      <3>3. r.first = keys /\ r.after = 0 /\ r.at = "count" /\ r.msg = rmenu.calls[c][made[c] + 1]
        OBVIOUS
      <3> HIDE DEF r
      <3> QED BY <1>2, <1>3, <3>1, <3>2, <3>3, <2>1 DEF GoodCall
    <2>2. CASE d # c
      <3>1. call'[d] = call[d] /\ made'[d] = made[d]
        BY <1>0, <2>2 DEF ReadInv, ReadTypeOK
      <3> QED BY <3>1, CallKept
    <2> QED BY <2>1, <2>2
  <1>6. PlacesExact'
    <2>1. \A q \in {"reads", "api"} : c \notin Reserving(q) /\ pendingReads[q] \in Int
      BY <1>0 DEF Reserving, ReadInv, ReadTypeOK
    <2>2. \A q \in {"reads", "api"} :
            pendingReads'[q] = pendingReads[q] - (IF c \in Reserving(q) THEN 1 ELSE 0)
                                 + (IF r.at \in {"bytes", "send", "over"} /\ Queue(r.msg) = q THEN 1 ELSE 0)
      BY <1>0, <2>1
    <2> HIDE DEF r
    <2> QED BY <1>0, <2>2, PlacesByCaller
  <1> QED BY <1>0, <1>4, <1>5, <1>6, ChannelsSame, InvParts

\* A step of a caller that changes its record and moves the counters with its place.
LEMMA CallerStep ==
  ASSUME ReadInv, NEW c \in Callers, NEW r, call' = [call EXCEPT ![c] = r],
         UNCHANGED <<inbox, busy, open, keys, made, gone, rmenu>>, rr' \in 0..(Readers - 1),
         pendingReads' \in [reads : Int, bytes : Int, api : Int, apibytes : Int], GoodCall(c, r),
         \A q \in {"reads", "api"} :
            pendingReads'[q] = pendingReads[q] - (IF c \in Reserving(q) THEN 1 ELSE 0)
                                 + (IF r.at \in {"bytes", "send", "over"} /\ Queue(r.msg) = q THEN 1 ELSE 0)
  PROVE  ReadInv'
  <1>1. ReadTypeOK'
    <2>1. r \in CallRecord
      BY DEF GoodCall
    <2> QED BY <2>1 DEF ReadInv, ReadTypeOK, Callers, ApiChannel
  <1>2. \A d \in Callers : GoodCall(d, call'[d])
    <2> SUFFICES ASSUME NEW d \in Callers PROVE GoodCall(d, call'[d])
      OBVIOUS
    <2>1. CASE d = c
      <3>1. call'[d] = r
        BY <2>1 DEF ReadInv, ReadTypeOK
      <3> QED BY <3>1, <2>1
    <2>2. CASE d # c
      <3>1. call'[d] = call[d] /\ made'[d] = made[d]
        BY <2>2 DEF ReadInv, ReadTypeOK
      <3> QED BY <3>1, CallKept
    <2> QED BY <2>1, <2>2
  <1>3. PlacesExact'
    BY PlacesByCaller
  <1> QED BY <1>1, <1>2, <1>3, ChannelsSame, InvParts

\* What is known of a caller in a call.
LEMMA InCall ==
  ASSUME ReadInv, NEW c \in Callers, call[c].at # "idle"
  PROVE  /\ call[c] \in CallRecord /\ Msg(c) \in Message /\ Msg(c) = call[c].msg
         /\ made[c] \in 1..Len(rmenu.calls[c]) /\ Msg(c) = rmenu.calls[c][made[c]]
         /\ \A q : c \in Reserving(q) <=> call[c].at \in {"bytes", "send", "over"} /\ Queue(Msg(c)) = q
  <1>1. call[c] \in CallRecord /\ Msg(c) = call[c].msg
    BY DEF ReadInv, ReadTypeOK, Msg
  <1>2. made[c] \in 1..Len(rmenu.calls[c]) /\ Msg(c) = rmenu.calls[c][made[c]]
    BY DEF ReadInv, QueueInv, On
  <1>3. rmenu.calls[c] \in Seq(Message)
    BY CallersKnown DEF ReadInv
  <1>4. Msg(c) \in Message
    BY <1>2, <1>3, ElementOfSeq
  <1> QED BY <1>1, <1>2, <1>4 DEF Reserving

\* A record that keeps the caller's message, channel and walk is good wherever the caller goes, unless it goes to a success.
LEMMA MovedGood ==
  ASSUME ReadInv, NEW c \in Callers, UNCHANGED made, NEW r \in CallRecord,
         r.msg = call[c].msg, r.walked = call[c].walked, r.after = call[c].after, r.first = call[c].first,
         call[c].at \in {"count", "bytes", "over", "send", "wait", "answered"},
         r.at \in {"bytes", "send", "over"} => r.chan \in 1..ApiChannel /\ (Api(r.msg) <=> r.chan = ApiChannel),
         \/ r.at = "answered" /\ (r.msg.what = "page" => r.ok # TRUE)
         \/ r.at \in {"bytes", "over", "send", "wait"} /\ call[c].at # "answered"
         \/ r.at = "idle"
  PROVE  GoodCall(c, r)
  <1>1. call[c].at # "idle"
    OBVIOUS
  <1>2. made[c] \in 1..Len(rmenu.calls[c]) /\ r.msg = rmenu.calls[c][made[c]] /\ Msg(c) = r.msg
    BY <1>1, InCall
  <1>3. call[c].at # "answered" /\ r.msg.what = "page"
          => r.first \subseteq keys /\ \A k \in r.first : k <= r.after => k \in r.walked
    BY <1>2 DEF ReadInv, WalkInv
  <1> QED BY <1>2, <1>3 DEF GoodCall

\* The count is reserved.
LEMMA ReserveCountKeeps ==
  ASSUME ReadInv, NEW c \in Callers, ReserveCount(c)
  PROVE  ReadInv'
  <1> DEFINE m == Msg(c)
             r == [call[c] EXCEPT !.at = "bytes", !.chan = ReadChannel(m), !.done = OverCount(m, Count(m, pendingReads, 1))]
  <1>0. /\ call[c].at = "count" /\ call' = [call EXCEPT ![c] = r] /\ pendingReads' = Count(m, pendingReads, 1)
        /\ rr' = (IF Api(m) THEN rr ELSE (rr + 1) % Readers)
        /\ UNCHANGED <<inbox, busy, open, keys, made, gone, rmenu>>
    BY DEF ReserveCount, On, ReadInv, ReadTypeOK
  <1>1. /\ call[c] \in CallRecord /\ m \in Message /\ m = call[c].msg
        /\ \A q : c \notin Reserving(q)
    BY <1>0, InCall
  <1>2. ReadTypeOK
    BY DEF ReadInv
  <1>3. ReadChannel(m) \in 1..ApiChannel /\ ReadChannel(m) \in Nat /\ (Api(m) <=> ReadChannel(m) = ApiChannel)
    BY <1>2, ChannelOf
  <1>4. pendingReads \in [reads : Int, bytes : Int, api : Int, apibytes : Int] /\ rr \in 0..(Readers - 1)
    BY <1>2 DEF ReadTypeOK
  <1>5. /\ pendingReads' \in [reads : Int, bytes : Int, api : Int, apibytes : Int]
        /\ pendingReads'.reads = pendingReads.reads + (IF Api(m) THEN 0 ELSE 1)
        /\ pendingReads'.api = pendingReads.api + (IF Api(m) THEN 1 ELSE 0)
    BY <1>0, <1>1, <1>4, CountersKept
  <1>6. rr' \in 0..(Readers - 1)
    BY <1>0, <1>4, ReadLimits
  <1>7. OverCount(m, Count(m, pendingReads, 1)) \in BOOLEAN
    <2> DEFINE p == Count(m, pendingReads, 1)
    <2>1. p.api \in Int /\ p.reads \in Int /\ MaxApi \in Nat /\ MaxReads \in Nat
      BY <1>0, <1>5, ReadLimits
    <2> HIDE DEF p
    <2>2. (p.api > MaxApi) \in BOOLEAN /\ (p.reads > MaxReads) \in BOOLEAN
      BY <2>1
    <2>3. OverCount(m, p) = IF Api(m) THEN p.api > MaxApi ELSE p.reads > MaxReads
      BY DEF OverCount
    <2>4. OverCount(m, p) \in BOOLEAN
      BY <2>2, <2>3, Zenon
    <2> QED BY <2>4 DEF p
  <1>8. r \in CallRecord
    BY <1>1, <1>3, <1>7 DEF CallRecord, CallState
  <1>9. /\ r.at = "bytes" /\ r.chan = ReadChannel(m) /\ r.msg = m /\ r.walked = call[c].walked
        /\ r.after = call[c].after /\ r.first = call[c].first
    BY <1>1 DEF CallRecord
  <1> HIDE DEF m, r
  <1>10. GoodCall(c, r)
    BY <1>0, <1>1, <1>3, <1>8, <1>9, MovedGood
  <1>11. \A q \in {"reads", "api"} :
            pendingReads'[q] = pendingReads[q] - (IF c \in Reserving(q) THEN 1 ELSE 0)
                                 + (IF r.at \in {"bytes", "send", "over"} /\ Queue(r.msg) = q THEN 1 ELSE 0)
    BY <1>1, <1>4, <1>5, <1>9 DEF Queue
  <1> QED BY <1>0, <1>5, <1>6, <1>10, <1>11, CallerStep

\* The bytes are reserved, and the limits looked at.
LEMMA ReserveBytesKeeps ==
  ASSUME ReadInv, NEW c \in Callers, ReserveBytes(c)
  PROVE  ReadInv'
  <1> DEFINE m == Msg(c)
             to == IF ~Forced(m) /\ (call[c].done \/ OverBytes(m, AddBytes(m, pendingReads))) THEN "over" ELSE "send"
             r == [call[c] EXCEPT !.at = to, !.done = FALSE]
  <1>0. /\ call[c].at = "bytes" /\ call' = [call EXCEPT ![c] = r] /\ pendingReads' = AddBytes(m, pendingReads)
        /\ UNCHANGED <<inbox, busy, open, rr, keys, made, gone, rmenu>>
    BY DEF ReserveBytes, On, ReadInv, ReadTypeOK
  <1>1. /\ call[c] \in CallRecord /\ m \in Message /\ m = call[c].msg
        /\ \A q : c \in Reserving(q) <=> Queue(m) = q
    BY <1>0, InCall
  <1>2. pendingReads \in [reads : Int, bytes : Int, api : Int, apibytes : Int] /\ rr \in 0..(Readers - 1)
    BY DEF ReadInv, ReadTypeOK
  <1>3. /\ pendingReads' \in [reads : Int, bytes : Int, api : Int, apibytes : Int]
        /\ pendingReads'.reads = pendingReads.reads /\ pendingReads'.api = pendingReads.api
    BY <1>0, <1>1, <1>2, CountersKept
  <1>4. to \in {"over", "send"}
    OBVIOUS
  <1> HIDE DEF to
  <1>5. r \in CallRecord
    BY <1>1, <1>4 DEF CallRecord, CallState
  <1>6. /\ r.at = to /\ r.chan = call[c].chan /\ r.msg = m /\ r.walked = call[c].walked
        /\ r.after = call[c].after /\ r.first = call[c].first
    BY <1>1 DEF CallRecord
  <1>7. call[c].chan \in 1..ApiChannel /\ (Api(m) <=> call[c].chan = ApiChannel)
    BY <1>0 DEF ReadInv, QueueInv
  <1> HIDE DEF m, r
  <1>8. GoodCall(c, r)
    BY <1>0, <1>1, <1>4, <1>5, <1>6, <1>7, MovedGood
  <1>9. \A q \in {"reads", "api"} :
            pendingReads'[q] = pendingReads[q] - (IF c \in Reserving(q) THEN 1 ELSE 0)
                                 + (IF r.at \in {"bytes", "send", "over"} /\ Queue(r.msg) = q THEN 1 ELSE 0)
    BY <1>1, <1>2, <1>3, <1>4, <1>6
  <1> QED BY <1>0, <1>2, <1>3, <1>8, <1>9, CallerStep

\* A caller that ends its call without an answer gives its place back.
LEMMA GiveUpKeeps ==
  ASSUME ReadInv, NEW c \in Callers, call[c].at \in {"over", "send"},
         pendingReads' = ReleaseRead(Msg(c), pendingReads),
         call' = [call EXCEPT ![c].at = "answered", ![c].ok = FALSE],
         UNCHANGED <<inbox, busy, open, rr, keys, made, gone, rmenu>>
  PROVE  ReadInv'
  <1> DEFINE m == Msg(c)
             r == [call[c] EXCEPT !.at = "answered", !.ok = FALSE]
  <1>0. call' = [call EXCEPT ![c] = r]
    BY DEF ReadInv, ReadTypeOK
  <1>1. /\ call[c] \in CallRecord /\ m \in Message /\ m = call[c].msg
        /\ \A q : c \in Reserving(q) <=> Queue(m) = q
    BY InCall
  <1>2. pendingReads \in [reads : Int, bytes : Int, api : Int, apibytes : Int] /\ rr \in 0..(Readers - 1)
    BY DEF ReadInv, ReadTypeOK
  <1>3. /\ pendingReads' \in [reads : Int, bytes : Int, api : Int, apibytes : Int]
        /\ pendingReads'.reads = pendingReads.reads - (IF Api(m) THEN 0 ELSE 1)
        /\ pendingReads'.api = pendingReads.api - (IF Api(m) THEN 1 ELSE 0)
    BY <1>1, <1>2, CountersKept
  <1>5. r \in CallRecord
    BY <1>1 DEF CallRecord, CallState
  <1>6. /\ r.at = "answered" /\ r.ok = FALSE /\ r.msg = m /\ r.walked = call[c].walked
        /\ r.after = call[c].after /\ r.first = call[c].first
    BY <1>1 DEF CallRecord
  <1> HIDE DEF m, r
  <1>8. GoodCall(c, r)
    BY <1>1, <1>5, <1>6, MovedGood
  <1>9. \A q \in {"reads", "api"} :
            pendingReads'[q] = pendingReads[q] - (IF c \in Reserving(q) THEN 1 ELSE 0)
                                 + (IF r.at \in {"bytes", "send", "over"} /\ Queue(r.msg) = q THEN 1 ELSE 0)
    BY <1>1, <1>2, <1>3, <1>6 DEF Queue
  <1> QED BY <1>0, <1>2, <1>3, <1>8, <1>9, CallerStep

\* A caller that holds no place of its own moves on: a timeout, or the end of a call.
LEMMA MoveOnKeeps ==
  ASSUME ReadInv, NEW c \in Callers, call[c].at \in {"wait", "answered"}, NEW r \in CallRecord,
         call' = [call EXCEPT ![c] = r], r.msg = call[c].msg, r.walked = call[c].walked,
         r.after = call[c].after, r.first = call[c].first,
         r.at = "idle" \/ (r.at = "answered" /\ r.ok = FALSE),
         UNCHANGED <<pendingReads, inbox, busy, open, rr, keys, made, gone, rmenu>>
  PROVE  ReadInv'
  <1>1. \A q : c \notin Reserving(q)
    BY InCall
  <1>2. pendingReads \in [reads : Int, bytes : Int, api : Int, apibytes : Int] /\ rr \in 0..(Readers - 1)
    BY DEF ReadInv, ReadTypeOK
  <1>3. GoodCall(c, r)
    BY MovedGood
  <1>4. \A q \in {"reads", "api"} :
            pendingReads'[q] = pendingReads[q] - (IF c \in Reserving(q) THEN 1 ELSE 0)
                                 + (IF r.at \in {"bytes", "send", "over"} /\ Queue(r.msg) = q THEN 1 ELSE 0)
    BY <1>1, <1>2
  <1> QED BY <1>2, <1>3, <1>4, CallerStep

\* The timeout of a waiting caller, and the end of a call.
LEMMA LeaveKeeps ==
  ASSUME ReadInv, NEW c \in Callers, Timeout(c) \/ Finish(c)
  PROVE  ReadInv'
  <1>1. call[c] \in CallRecord /\ call \in [Callers -> CallRecord]
    BY DEF ReadInv, ReadTypeOK
  <1>2. CASE Timeout(c)
    <2> DEFINE r == [call[c] EXCEPT !.at = "answered", !.ok = FALSE]
    <2>1. /\ call' = [call EXCEPT ![c] = r] /\ call[c].at = "wait"
          /\ UNCHANGED <<pendingReads, inbox, busy, open, rr, keys, made, gone, rmenu>>
      BY <1>1, <1>2 DEF Timeout, On
    <2>2. /\ r \in CallRecord /\ r.msg = call[c].msg /\ r.walked = call[c].walked /\ r.at = "answered" /\ r.ok = FALSE
          /\ r.after = call[c].after /\ r.first = call[c].first
      BY <1>1 DEF CallRecord, CallState
    <2> HIDE DEF r
    <2> QED BY <2>1, <2>2, MoveOnKeeps
  <1>3. CASE Finish(c)
    <2> DEFINE r == [call[c] EXCEPT !.at = "idle"]
    <2>1. /\ call' = [call EXCEPT ![c] = r] /\ call[c].at = "answered"
          /\ UNCHANGED <<pendingReads, inbox, busy, open, rr, keys, made, gone, rmenu>>
      BY <1>1, <1>3 DEF Finish, On, Move
    <2>2. /\ r \in CallRecord /\ r.msg = call[c].msg /\ r.walked = call[c].walked /\ r.at = "idle"
          /\ r.after = call[c].after /\ r.first = call[c].first
      BY <1>1 DEF CallRecord, CallState
    <2> HIDE DEF r
    <2> QED BY <2>1, <2>2, MoveOnKeeps
  <1> QED BY <1>2, <1>3

-----------------------------------------------------------------------------
(* The channels *)

\* A record that is not being reserved, before and after.
Apart(at) == at \notin {"bytes", "send", "over"}

\* A step on one channel keeps the places exact when the counters and the places of the dropped move with the channel's load
\* and no place that is being reserved changes.
LEMMA PlacesByChannel ==
  ASSUME ReadInv, ReadTypeOK', UNCHANGED rmenu, NEW ch \in 1..ApiChannel,
         \A d \in 1..ApiChannel : d # ch => Load'[d] = Load[d],
         \A d \in Callers : call'[d] = call[d] \/ (Apart(call[d].at) /\ Apart(call'[d].at)),
         \A q \in {"reads", "api"} :
            pendingReads'[q] - gone'[q] = pendingReads[q] - gone[q]
                                            + (IF ch = ApiChannel <=> q = "api" THEN Load'[ch] - Load[ch] ELSE 0)
  PROVE  PlacesExact'
  <1> SUFFICES ASSUME NEW q \in {"reads", "api"}
               PROVE  pendingReads'[q] = Cardinality(Reserving(q)') + Sent(q)' + gone'[q]
    BY DEF PlacesExact
  <1>0. ReadTypeOK /\ gone[q] \in Nat /\ gone'[q] \in Nat /\ pendingReads'[q] \in Int /\ pendingReads[q] \in Int
    BY DEF ReadInv, ReadTypeOK
  <1>1. Reserving(q)' = Reserving(q)
    BY DEF Reserving, Msg, Callers, Queue, Api, Apart
  <1>2. Cardinality(Reserving(q)) \in Nat
    <2>1. Reserving(q) \subseteq Callers
      BY DEF Reserving
    <2>2. IsFiniteSet(Reserving(q))
      BY <1>0, <2>1, CallersKnown, FS_Subset
    <2> QED BY <2>2, FS_CardinalityType
  <1>3. /\ Sent(q) \in Nat /\ Load[ch] \in Nat /\ Load'[ch] \in Nat
        /\ Sent(q)' = Sent(q) + (IF ch = ApiChannel <=> q = "api" THEN Load'[ch] - Load[ch] ELSE 0)
    BY <1>0, SentChange
  <1>4. pendingReads[q] = Cardinality(Reserving(q)) + Sent(q) + gone[q]
    BY DEF ReadInv, ReadsWhole, PlacesExact
  <1>5. Cardinality(Reserving(q)') = Cardinality(Reserving(q))
    BY <1>1
  <1>6. pendingReads'[q] - gone'[q] = pendingReads[q] - gone[q]
                                        + (IF ch = ApiChannel <=> q = "api" THEN Load'[ch] - Load[ch] ELSE 0)
    OBVIOUS
  <1> QED BY <1>0, <1>2, <1>3, <1>4, <1>5, <1>6

\* The load of a channel from what is in it.
LEMMA LoadIs ==
  ASSUME NEW ch \in 1..ApiChannel
  PROVE  /\ Load[ch] = Len(inbox[ch]) + (IF busy[ch] = Missing THEN 0 ELSE 1)
         /\ Load'[ch] = Len(inbox'[ch]) + (IF busy'[ch] = Missing THEN 0 ELSE 1)
  BY DEF Load, ApiChannel

\* The channels after a step that leaves the menu alone.
LEMMA ChannelsAfter ==
  ASSUME UNCHANGED rmenu,
         \A d \in 1..ApiChannel : /\ \A i \in 1..Len(inbox'[d]) : Placed(inbox'[d][i], d)
                                  /\ busy'[d] # Missing => Placed(busy'[d], d)
  PROVE  ChannelsGood'
  BY DEF ChannelsGood, ApiChannel, Placed, Callers, Api

\* A call is sent.
LEMMA SendKeeps ==
  ASSUME ReadInv, NEW c \in Callers, SendRead(c)
  PROVE  ReadInv'
  <1> DEFINE ch == call[c].chan
             b == [who |-> c, msg |-> Msg(c), n |-> made[c]]
             r == [call[c] EXCEPT !.at = "wait"]
  <1>0. call[c].at = "send" /\ ReadTypeOK
    BY DEF SendRead, On, ReadInv
  <1>1. /\ call[c] \in CallRecord /\ Msg(c) \in Message /\ Msg(c) = call[c].msg
        /\ made[c] \in 1..Len(rmenu.calls[c]) /\ Msg(c) = rmenu.calls[c][made[c]]
        /\ \A q : c \in Reserving(q) <=> Queue(Msg(c)) = q
    BY <1>0, InCall
  <1>2. ch \in 1..ApiChannel /\ (Api(Msg(c)) <=> ch = ApiChannel)
    BY <1>0 DEF ReadInv, QueueInv
  <1>3. CASE ch \notin open
    <2>1. /\ pendingReads' = ReleaseRead(Msg(c), pendingReads) /\ call' = [call EXCEPT ![c].at = "answered", ![c].ok = FALSE]
          /\ UNCHANGED <<inbox, busy, open, rr, keys, made, gone, rmenu>>
      BY <1>3 DEF SendRead
    <2> QED BY <1>0, <2>1, GiveUpKeeps
  <1>4. CASE ch \in open
    <2>1. /\ inbox' = [inbox EXCEPT ![ch] = Append(inbox[ch], b)] /\ call' = [call EXCEPT ![c] = r]
          /\ UNCHANGED <<pendingReads, busy, open, rr, keys, made, gone, rmenu>>
      BY <1>0, <1>4 DEF SendRead, Move, ReadTypeOK
    <2>2. b \in QueuedCall
      <3>1. c \in UNION {DOMAIN m.calls : m \in ReadMenus} /\ rmenu.calls[c] \in Seq(Message)
        BY <1>0, CallersKnown
      <3>2. made[c] \in Nat
        BY <1>0 DEF ReadTypeOK
      <3> QED BY <1>1, <3>1, <3>2 DEF QueuedCall
    <2>3. /\ r \in CallRecord /\ r.at = "wait" /\ r.msg = call[c].msg /\ r.walked = call[c].walked
          /\ r.after = call[c].after /\ r.first = call[c].first
      BY <1>1 DEF CallRecord, CallState
    <2>4. inbox[ch] \in Seq(QueuedCall) /\ Placed(b, ch)
      BY <1>0, <1>1, <1>2 DEF ReadTypeOK, Placed
    <2>5. b.who = c /\ b.n = made[c] /\ b.msg = Msg(c)
      OBVIOUS
    <2> HIDE DEF r, b
    <2>6. /\ Append(inbox[ch], b) \in Seq(QueuedCall) /\ Len(Append(inbox[ch], b)) = Len(inbox[ch]) + 1
          /\ Len(inbox[ch]) \in Nat
          /\ \A i \in 1..(Len(inbox[ch]) + 1) : Append(inbox[ch], b)[i] = IF i <= Len(inbox[ch]) THEN inbox[ch][i] ELSE b
      BY <2>2, <2>4, AppendProperties, LenProperties
    <2>7. ReadTypeOK'
      BY <1>0, <1>2, <2>1, <2>3, <2>6 DEF ReadTypeOK, Callers, ApiChannel
    <2>8. \A d \in Callers : GoodCall(d, call'[d])
      <3> SUFFICES ASSUME NEW d \in Callers PROVE GoodCall(d, call'[d])
        OBVIOUS
      <3>1. CASE d = c
        <4>1. call'[d] = r
          BY <3>1, <1>0, <2>1 DEF ReadTypeOK
        <4> QED BY <4>1, <3>1, <1>0, <1>1, <2>1, <2>3, MovedGood
      <3>2. CASE d # c
        <4>1. call'[d] = call[d] /\ made'[d] = made[d]
          BY <3>2, <1>0, <2>1 DEF ReadTypeOK
        <4> QED BY <4>1, CallKept
      <3> QED BY <3>1, <3>2
    <2>9. \A d \in 1..ApiChannel : inbox'[d] = IF d = ch THEN Append(inbox[ch], b) ELSE inbox[d]
      BY <1>0, <2>1 DEF ReadTypeOK
    <2>10. ChannelsGood'
      <3> SUFFICES ASSUME NEW d \in 1..ApiChannel
                   PROVE  /\ \A i \in 1..Len(inbox'[d]) : Placed(inbox'[d][i], d)
                          /\ busy'[d] # Missing => Placed(busy'[d], d)
        BY <2>1, ChannelsAfter
      <3>1. /\ \A i \in 1..Len(inbox[d]) : Placed(inbox[d][i], d)
            /\ busy[d] # Missing => Placed(busy[d], d)
        BY DEF ReadInv, QueueInv
      <3>2. \A i \in 1..Len(inbox'[d]) : Placed(inbox'[d][i], d)
        <4>1. CASE d = ch
          <5>1. inbox'[d] = Append(inbox[ch], b)
            BY <2>9, <4>1
          <5> SUFFICES ASSUME NEW i \in 1..(Len(inbox[ch]) + 1) PROVE Placed(Append(inbox[ch], b)[i], d)
            BY <5>1, <2>6
          <5>2. CASE i <= Len(inbox[ch])
            BY <5>2, <2>6, <3>1, <4>1
          <5>3. CASE ~(i <= Len(inbox[ch]))
            BY <5>3, <2>4, <2>6, <4>1
          <5> QED BY <5>2, <5>3
        <4>2. CASE d # ch
          BY <2>9, <3>1, <4>2
        <4> QED BY <4>1, <4>2
      <3> QED BY <2>1, <3>1, <3>2
    <2>11. PlacesExact'
      <3> SUFFICES ASSUME NEW q \in {"reads", "api"}
                   PROVE  pendingReads'[q] = Cardinality(Reserving(q)') + Sent(q)' + gone'[q]
        BY DEF PlacesExact
      <3>1. \A d \in Callers : d \in Reserving(q)' <=> call'[d].at \in {"bytes", "send", "over"} /\ Queue(call'[d].msg) = q
        BY <2>1 DEF Reserving, Msg, Callers, Queue, Api
      <3>2. \A d \in Callers : d # c => (d \in Reserving(q) <=> d \in Reserving(q)')
        BY <1>0, <2>1, <3>1 DEF Reserving, Msg, ReadTypeOK
      <3>3. c \notin Reserving(q)'
        BY <1>0, <2>1, <2>3, <3>1 DEF ReadTypeOK
      <3>4. /\ Cardinality(Reserving(q)) \in Nat /\ Cardinality(Reserving(q)') \in Nat
            /\ Cardinality(Reserving(q)') = Cardinality(Reserving(q)) - (IF c \in Reserving(q) THEN 1 ELSE 0)
                                              + (IF c \in Reserving(q)' THEN 1 ELSE 0)
        BY <1>0, <2>1, <3>2, ReservingChange
      <3>5. /\ \A d \in 1..ApiChannel : d # ch => Load'[d] = Load[d]
            /\ Load'[ch] = Load[ch] + 1
        <4>1. Len(inbox'[ch]) = Len(inbox[ch]) + 1 /\ busy'[ch] = busy[ch]
          BY <1>2, <2>1, <2>6, <2>9
        <4>2. \A d \in 1..ApiChannel : d # ch => inbox'[d] = inbox[d] /\ busy'[d] = busy[d]
          BY <2>1, <2>9
        <4>3. \A d \in 1..ApiChannel : d # ch => Load'[d] = Load[d]
          BY <4>2, LoadIs
        <4>4. /\ Load[ch] = Len(inbox[ch]) + (IF busy[ch] = Missing THEN 0 ELSE 1)
              /\ Load'[ch] = Len(inbox[ch]) + 1 + (IF busy[ch] = Missing THEN 0 ELSE 1)
          BY <1>2, <4>1, LoadIs
        <4>5. CASE busy[ch] = Missing
          BY <4>3, <4>4, <4>5, <2>6
        <4>6. CASE busy[ch] # Missing
          BY <4>3, <4>4, <4>6, <2>6
        <4> QED BY <4>5, <4>6
      <3>6. /\ Sent(q) \in Nat /\ Load[ch] \in Nat /\ Load'[ch] \in Nat
            /\ Sent(q)' = Sent(q) + (IF ch = ApiChannel <=> q = "api" THEN Load'[ch] - Load[ch] ELSE 0)
        BY <1>0, <1>2, <2>7, <3>5, SentChange
      <3>7. pendingReads[q] = Cardinality(Reserving(q)) + Sent(q) + gone[q] /\ gone[q] \in Nat
        BY DEF ReadInv, ReadTypeOK, ReadsWhole, PlacesExact
      <3>8. (ch = ApiChannel <=> q = "api") <=> c \in Reserving(q)
        BY <1>1, <1>2 DEF Queue
      <3> QED BY <2>1, <3>3, <3>4, <3>5, <3>6, <3>7, <3>8
    <2> QED BY <2>1, <2>7, <2>8, <2>10, <2>11, InvParts
  <1> QED BY <1>3, <1>4

-----------------------------------------------------------------------------
(* The steps of a reader *)

\* A reader takes the next call of its channel.
LEMMA TakeKeeps ==
  ASSUME ReadInv, NEW ch \in 1..ApiChannel, Take(ch)
  PROVE  ReadInv'
  <1> DEFINE s == inbox[ch]
  <1>0. ReadTypeOK
    BY DEF ReadInv
  <1>1. /\ busy[ch] = Missing /\ s # <<>> /\ busy' = [busy EXCEPT ![ch] = Head(s)] /\ inbox' = [inbox EXCEPT ![ch] = Tail(s)]
        /\ UNCHANGED <<pendingReads, open, rr, keys, call, made, gone, rmenu>>
    BY DEF Take
  <1>2. s \in Seq(QueuedCall)
    BY <1>0 DEF ReadTypeOK
  <1>3. /\ Head(s) \in QueuedCall /\ Tail(s) \in Seq(QueuedCall) /\ Len(Tail(s)) = Len(s) - 1 /\ Len(s) \in Nat
        /\ Head(s) = s[1] /\ 1 \in 1..Len(s)
        /\ \A i \in 1..Len(Tail(s)) : Tail(s)[i] = s[i + 1] /\ i + 1 \in 1..Len(s)
    BY <1>1, <1>2, HeadTailProperties, LenProperties, EmptySeq
  <1>4. /\ \A d \in 1..ApiChannel : d # ch => inbox'[d] = inbox[d] /\ busy'[d] = busy[d]
        /\ inbox'[ch] = Tail(s) /\ busy'[ch] = Head(s)
    BY <1>0, <1>1 DEF ReadTypeOK
  <1>5. ReadTypeOK'
    BY <1>0, <1>1, <1>3 DEF ReadTypeOK, Callers, ApiChannel
  <1>6. \A d \in 1..ApiChannel : /\ \A i \in 1..Len(inbox[d]) : Placed(inbox[d][i], d)
                                 /\ busy[d] # Missing => Placed(busy[d], d)
    BY DEF ReadInv, QueueInv
  <1> HIDE DEF s
  <1>7. ChannelsGood'
    <2> SUFFICES ASSUME NEW d \in 1..ApiChannel
                 PROVE  /\ \A i \in 1..Len(inbox'[d]) : Placed(inbox'[d][i], d)
                        /\ busy'[d] # Missing => Placed(busy'[d], d)
      BY <1>1, ChannelsAfter
    <2>1. CASE d = ch
      <3>1. \A i \in 1..Len(s) : Placed(s[i], ch)
        BY <1>6 DEF s
      <3>2. \A i \in 1..Len(Tail(s)) : Placed(Tail(s)[i], ch)
        BY <1>3, <3>1
      <3>3. Placed(Head(s), ch)
        BY <1>3, <3>1
      <3> QED BY <1>4, <2>1, <3>2, <3>3
    <2>2. CASE d # ch
      BY <1>4, <1>6, <2>2
    <2> QED BY <2>1, <2>2
  <1>8. /\ \A d \in 1..ApiChannel : d # ch => Load'[d] = Load[d]
        /\ Load'[ch] = Load[ch] /\ Load[ch] \in Nat
    <2>1. \A d \in 1..ApiChannel : d # ch => Load'[d] = Load[d]
      BY <1>4, LoadIs
    <2>2. Head(s) # Missing
      BY <1>3, MissingType
    <2>3. Load[ch] = Len(s) /\ Load'[ch] = Len(s) - 1 + 1
      <3>1. /\ Load[ch] = Len(inbox[ch]) + (IF busy[ch] = Missing THEN 0 ELSE 1)
            /\ Load'[ch] = Len(inbox'[ch]) + (IF busy'[ch] = Missing THEN 0 ELSE 1)
        BY LoadIs
      <3>2. Load[ch] = Len(s) + 0
        BY <1>1, <3>1 DEF s
      <3>3. Load'[ch] = Len(Tail(s)) + 1
        BY <1>4, <2>2, <3>1
      <3> QED BY <1>3, <3>2, <3>3
    <2> QED BY <1>3, <2>1, <2>3
  <1>9. PlacesExact'
    <2>1. \A q \in {"reads", "api"} :
            pendingReads'[q] - gone'[q] = pendingReads[q] - gone[q]
                                            + (IF ch = ApiChannel <=> q = "api" THEN Load'[ch] - Load[ch] ELSE 0)
      <3>1. \A q \in {"reads", "api"} : pendingReads[q] \in Int /\ gone[q] \in Nat
        BY <1>0 DEF ReadTypeOK
      <3> QED BY <1>1, <1>8, <3>1
    <2> QED BY <1>1, <1>5, <1>8, <2>1, PlacesByChannel
  <1>10. \A d \in Callers : GoodCall(d, call'[d])
    BY <1>1, CallKept
  <1> QED BY <1>1, <1>5, <1>7, <1>9, <1>10, InvParts

\* What is known of the call a reader handles: its caller, and that a caller who still waits for it asked for just that.
LEMMA HandledCall ==
  ASSUME ReadInv, NEW ch \in 1..ApiChannel, busy[ch] # Missing
  PROVE  /\ busy[ch] \in QueuedCall /\ busy[ch].who \in Callers /\ busy[ch].msg \in Message
         /\ Api(busy[ch].msg) <=> ch = ApiChannel
         /\ ReadWaiting(busy[ch]) => /\ call[busy[ch].who].at = "wait" /\ call[busy[ch].who] \in CallRecord
                                     /\ call[busy[ch].who].msg = busy[ch].msg
  <1>1. busy[ch] \in QueuedCall /\ Placed(busy[ch], ch)
    BY DEF ReadInv, ReadTypeOK, QueueInv
  <1>2. ASSUME ReadWaiting(busy[ch])
        PROVE  /\ call[busy[ch].who].at = "wait" /\ call[busy[ch].who] \in CallRecord
               /\ call[busy[ch].who].msg = busy[ch].msg
    <2>1. call[busy[ch].who].at = "wait" /\ made[busy[ch].who] = busy[ch].n
      BY <1>2 DEF ReadWaiting, On
    <2>2. /\ call[busy[ch].who] \in CallRecord
          /\ Msg(busy[ch].who) = rmenu.calls[busy[ch].who][made[busy[ch].who]] /\ Msg(busy[ch].who) = call[busy[ch].who].msg
      BY <1>1, <2>1, InCall DEF Placed
    <2> QED BY <1>1, <2>1, <2>2 DEF Placed
  <1> QED BY <1>1, <1>2 DEF QueuedCall, Placed

\* A reader answers: the caller's new record is good, the channel is free and the place given back.
LEMMA ReplyKeeps ==
  ASSUME ReadInv, NEW ch \in 1..ApiChannel, busy[ch] # Missing, NEW r, Reply(busy[ch], r),
         ReadWaiting(busy[ch]) => GoodCall(busy[ch].who, r) /\ r.at \in {"answered", "count"},
         pendingReads' = ReleaseRead(busy[ch].msg, pendingReads), busy' = [busy EXCEPT ![ch] = Missing],
         UNCHANGED <<inbox, open, rr, keys, made, gone, rmenu>>
  PROVE  ReadInv'
  <1> DEFINE b == busy[ch]
  <1>0. ReadTypeOK
    BY DEF ReadInv
  <1>1. b \in QueuedCall /\ b.who \in Callers /\ b.msg \in Message /\ (Api(b.msg) <=> ch = ApiChannel)
    BY HandledCall
  <1>2. pendingReads \in [reads : Int, bytes : Int, api : Int, apibytes : Int]
    BY <1>0 DEF ReadTypeOK
  <1>3. /\ pendingReads' \in [reads : Int, bytes : Int, api : Int, apibytes : Int]
        /\ pendingReads'.reads = pendingReads.reads - (IF Api(b.msg) THEN 0 ELSE 1)
        /\ pendingReads'.api = pendingReads.api - (IF Api(b.msg) THEN 1 ELSE 0)
    BY <1>1, <1>2, CountersKept
  <1>4. /\ call' \in [Callers -> CallRecord]
        /\ \A d \in Callers : \/ call'[d] = call[d]
                              \/ /\ d = b.who /\ call'[d] = r /\ ReadWaiting(b)
    BY <1>0, <1>1 DEF Reply, ReadTypeOK, GoodCall
  <1>5. ReadTypeOK'
    BY <1>0, <1>3, <1>4 DEF ReadTypeOK, Callers, ApiChannel
  <1>6. \A d \in Callers : GoodCall(d, call'[d])
    BY <1>4, CallKept
  <1>7. ChannelsGood'
    <2>1. \A d \in 1..ApiChannel : busy'[d] = IF d = ch THEN Missing ELSE busy[d]
      BY <1>0 DEF ReadTypeOK
    <2>2. \A d \in 1..ApiChannel : /\ \A i \in 1..Len(inbox[d]) : Placed(inbox[d][i], d)
                                   /\ busy[d] # Missing => Placed(busy[d], d)
      BY DEF ReadInv, QueueInv
    <2> QED BY <2>1, <2>2, ChannelsAfter
  <1>8. /\ \A d \in 1..ApiChannel : d # ch => Load'[d] = Load[d]
        /\ Load'[ch] = Load[ch] - 1 /\ Load[ch] \in Nat
    <2>1. /\ \A d \in 1..ApiChannel : d # ch => busy'[d] = busy[d] /\ inbox'[d] = inbox[d]
          /\ busy'[ch] = Missing /\ inbox'[ch] = inbox[ch]
      BY <1>0 DEF ReadTypeOK
    <2>2. \A d \in 1..ApiChannel : d # ch => Load'[d] = Load[d]
      BY <2>1, LoadIs
    <2>3. Load[ch] \in Nat
      BY <1>0, LoadNat
    <2>4. inbox[ch] \in Seq(QueuedCall)
      BY <1>0 DEF ReadTypeOK
    <2>5. Len(inbox[ch]) \in Nat
      BY <2>4, LenProperties
    <2>6. /\ Load[ch] = Len(inbox[ch]) + (IF busy[ch] = Missing THEN 0 ELSE 1)
          /\ Load'[ch] = Len(inbox'[ch]) + (IF busy'[ch] = Missing THEN 0 ELSE 1)
      BY LoadIs
    <2>7. Load[ch] = Len(inbox[ch]) + 1 /\ Load'[ch] = Len(inbox[ch]) + 0
      BY <2>1, <2>6
    <2> QED BY <2>2, <2>3, <2>5, <2>7
  <1>9. PlacesExact'
    <2>1. \A q \in {"reads", "api"} :
            pendingReads'[q] - gone'[q] = pendingReads[q] - gone[q]
                                            + (IF ch = ApiChannel <=> q = "api" THEN Load'[ch] - Load[ch] ELSE 0)
      <3>1. \A q \in {"reads", "api"} : pendingReads[q] \in Int /\ gone[q] \in Nat
        BY <1>0 DEF ReadTypeOK
      <3> QED BY <1>1, <1>3, <1>8, <3>1
    <2>2. \A d \in Callers : call'[d] = call[d] \/ (Apart(call[d].at) /\ Apart(call'[d].at))
      <3>1. ReadWaiting(b) => call[b.who].at = "wait"
        BY HandledCall
      <3> QED BY <1>4, <3>1 DEF Apart
    <2> QED BY <1>5, <1>8, <2>1, <2>2, PlacesByChannel
  <1> QED BY <1>5, <1>6, <1>7, <1>9, InvParts

\* A caller that waits is answered without the success of a walk.
LEMMA AnswerGood ==
  ASSUME ReadInv, NEW c \in Callers, call[c].at = "wait", UNCHANGED made, NEW ok \in BOOLEAN \cup {Missing, "default"},
         call[c].msg.what = "page" => ok # TRUE
  PROVE  LET r == [call[c] EXCEPT !.at = "answered", !.ok = ok] IN GoodCall(c, r) /\ r.at = "answered"
  <1> DEFINE r == [call[c] EXCEPT !.at = "answered", !.ok = ok]
  <1>1. call[c] \in CallRecord
    BY DEF ReadInv, ReadTypeOK
  <1>2. /\ r \in CallRecord /\ r.at = "answered" /\ r.ok = ok /\ r.msg = call[c].msg
        /\ r.walked = call[c].walked /\ r.after = call[c].after /\ r.first = call[c].first
    BY <1>1 DEF CallRecord, CallState
  <1> HIDE DEF r
  <1>3. GoodCall(c, r)
    BY <1>2, MovedGood
  <1> QED BY <1>2, <1>3 DEF r

\* A caller that waits for a page gets it: a full page moves the cursor to its last key, any other page was the last one.
LEMMA PageGood ==
  ASSUME ReadInv, NEW c \in Callers, call[c].at = "wait", UNCHANGED made, call[c].msg.what = "page"
  PROVE  LET r == GotPage(c, PageOf(call[c].after)) IN GoodCall(c, r) /\ r.at \in {"answered", "count"}
  <1> DEFINE after == call[c].after
             ahead == AheadOf(keys, after)
             page == FirstOf(Page, ahead)
             r == GotPage(c, page)
             w == [call[c] EXCEPT !.walked = @ \union page]
  <1>1. call[c] \in CallRecord /\ keys \subseteq Nat \ {0} /\ IsFiniteSet(keys) /\ Page \in Nat /\ Page > 0
    <2>1. call[c] \in CallRecord /\ keys \subseteq Keys
      BY DEF ReadInv, ReadTypeOK
    <2>2. IsFiniteSet(keys)
      BY <2>1, FS_Subset, KeysInOrder
    <2> QED BY <2>1, <2>2, KeysInOrder, ReadLimits
  <1>2. /\ made[c] \in 1..Len(rmenu.calls[c]) /\ call[c].msg = rmenu.calls[c][made[c]] /\ Msg(c) = call[c].msg
    BY InCall
  <1>3. call[c].first \subseteq keys /\ \A k \in call[c].first : k <= after => k \in call[c].walked
    BY <1>2 DEF ReadInv, WalkInv
  <1>4. after \in Nat /\ \A k \in keys : k \in Nat
    BY <1>1 DEF CallRecord
  <1>5. ahead \subseteq keys /\ ahead \subseteq Nat /\ (\A k \in keys : k \in ahead <=> ~(k <= after))
    BY <1>4 DEF AheadOf
  <1>6. IsFiniteSet(ahead)
    BY <1>1, <1>5, FS_Subset
  <1>7. page \subseteq ahead
    BY DEF FirstOf
  <1>8. PageOf(call[c].after) = page
    BY DEF PageOf
  <1> HIDE DEF ahead, page
  <1>9. /\ w \in CallRecord /\ w.walked = call[c].walked \cup page /\ w.first = call[c].first /\ w.msg = call[c].msg
    <2>1. page \subseteq Nat
      BY <1>5, <1>7
    <2> QED BY <1>1, <2>1 DEF CallRecord
  <1>10. CASE Cardinality(page) = Page
    <2>1. page # {} /\ IsFiniteSet(page) /\ page \subseteq Nat
      <3>1. IsFiniteSet(page)
        BY <1>6, <1>7, FS_Subset
      <3>2. page # {}
        BY <1>1, <1>10, FS_EmptySet
      <3> QED BY <3>1, <3>2, <1>5, <1>7
    <2>2. Max(page) \in page
      BY <2>1, GreatestNumber
    <2>3. Max(page) \in Nat
      BY <2>1, <2>2
    <2>4. \A k \in ahead : k <= Max(page) => k \in page
      <3>1. ASSUME NEW p \in FirstOf(Page, ahead), NEW k \in ahead, k <= p
            PROVE  k \in FirstOf(Page, ahead)
        BY <3>1, <1>1, <1>5, <1>6, FirstClosed
      <3> QED BY <2>2, <3>1 DEF page
    <2>5. r = [w EXCEPT !.at = "count", !.after = Max(page)]
      BY <1>10 DEF GotPage
    <2> DEFINE x == Max(page)
    <2> HIDE DEF x, w
    <2>6. /\ r \in CallRecord /\ r.at = "count" /\ r.after = x /\ r.walked = call[c].walked \cup page
          /\ r.first = call[c].first /\ r.msg = call[c].msg
      BY <1>9, <2>3, <2>5 DEF CallRecord, CallState, x
    <2> HIDE DEF r
    <2>7. \A k \in r.first : k <= r.after => k \in r.walked
      <3> SUFFICES ASSUME NEW k \in call[c].first, k <= x PROVE k \in call[c].walked \/ k \in page
        BY <2>6
      <3>1. CASE k <= after
        BY <3>1, <1>3
      <3>2. CASE ~(k <= after)
        <4>1. k \in ahead
          BY <3>2, <1>3, <1>5
        <4> QED BY <4>1, <2>4 DEF x
      <3> QED BY <3>1, <3>2
    <2>8. GoodCall(c, r)
      BY <1>2, <1>3, <2>6, <2>7 DEF GoodCall
    <2> QED BY <1>8, <2>6, <2>8 DEF r
  <1>11. CASE Cardinality(page) # Page
    <2>1. page = ahead
      BY <1>1, <1>5, <1>6, <1>11, FirstFull DEF page
    <2>2. r = [w EXCEPT !.at = "answered", !.ok = TRUE]
      BY <1>11 DEF GotPage
    <2> HIDE DEF w
    <2>3. /\ r \in CallRecord /\ r.at = "answered" /\ r.walked = call[c].walked \cup page
          /\ r.first = call[c].first /\ r.msg = call[c].msg
      BY <1>9, <2>2 DEF CallRecord, CallState
    <2> HIDE DEF r
    <2>4. r.first \subseteq r.walked
      <3> SUFFICES ASSUME NEW k \in call[c].first PROVE k \in call[c].walked \/ k \in page
        BY <2>3
      <3>1. CASE k <= after
        BY <3>1, <1>3
      <3>2. CASE ~(k <= after)
        BY <3>2, <1>3, <1>5, <2>1
      <3> QED BY <3>1, <3>2
    <2>5. GoodCall(c, r)
      BY <1>2, <2>3, <2>4 DEF GoodCall
    <2> QED BY <1>8, <2>3, <2>5 DEF r
  <1> QED BY <1>10, <1>11

\* A reader handles a call: it answers, refuses, fails or panics.
LEMMA HandledKeeps ==
  ASSUME ReadInv, NEW ch \in 1..ApiChannel, Handled(ch)
  PROVE  ReadInv'
  <1> DEFINE b == busy[ch]
             m == b.msg
             c == b.who
             refused == Answer(b, FALSE)
             good == Answer(b, TRUE)
             unsure == Answer(b, "default")
             page == GotPage(c, PageOf(call[c].after))
  <1>1. /\ busy[ch] # Missing /\ pendingReads' = ReleaseRead(m, pendingReads) /\ busy' = [busy EXCEPT ![ch] = Missing]
        /\ UNCHANGED <<inbox, open, rr, keys, made, gone, rmenu>>
    BY DEF Handled
  <1>2. /\ c \in Callers
        /\ ReadWaiting(b) => call[c].at = "wait" /\ call[c] \in CallRecord /\ call[c].msg = m
    BY <1>1, HandledCall
  <1>3. WalkFailed(c) = refused
    BY DEF WalkFailed, Answer
  <1> HIDE DEF refused, good, unsure, page
  <1>4. \/ Reply(b, refused)
        \/ Reply(b, page) /\ m.what = "page"
        \/ Reply(b, good) /\ m.what # "page"
        \/ Reply(b, unsure) /\ m.what # "page"
    <2>1. \/ Reply(b, IF ReadRefused(m) THEN refused ELSE IF m.what = "page" THEN page ELSE good)
          \/ /\ ~ReadRefused(m)
             /\ Reply(b, IF m.what = "page" THEN WalkFailed(c) ELSE Answer(b, IF OnError(m) = "default" THEN "default" ELSE FALSE))
          \/ Reply(b, IF m.what = "page" THEN WalkFailed(c) ELSE refused)
      BY DEF Handled, refused, good, page
    <2>2. Answer(b, IF OnError(m) = "default" THEN "default" ELSE FALSE) \in {unsure, refused}
      BY Zenon DEF unsure, refused
    <2>3. CASE Reply(b, IF ReadRefused(m) THEN refused ELSE IF m.what = "page" THEN page ELSE good)
      <3>1. CASE ReadRefused(m)
        BY <2>3, <3>1
      <3>2. CASE ~ReadRefused(m) /\ m.what = "page"
        BY <2>3, <3>2
      <3>3. CASE ~ReadRefused(m) /\ m.what # "page"
        BY <2>3, <3>3
      <3> QED BY <3>1, <3>2, <3>3
    <2>4. CASE Reply(b, IF m.what = "page" THEN WalkFailed(c)
                        ELSE Answer(b, IF OnError(m) = "default" THEN "default" ELSE FALSE))
      <3>1. CASE m.what = "page"
        BY <1>3, <2>4, <3>1
      <3>2. CASE m.what # "page"
        BY <2>2, <2>4, <3>2
      <3> QED BY <3>1, <3>2
    <2>5. CASE Reply(b, IF m.what = "page" THEN WalkFailed(c) ELSE refused)
      BY <1>3, <2>5
    <2> QED BY <2>1, <2>3, <2>4, <2>5
  <1>5. CASE Reply(b, refused)
    <2>1. ReadWaiting(b) => GoodCall(c, refused) /\ refused.at = "answered"
      BY <1>1, <1>2, AnswerGood DEF Answer, refused
    <2> QED BY <1>1, <1>5, <2>1, ReplyKeeps
  <1>6. CASE Reply(b, page) /\ m.what = "page"
    <2>1. ReadWaiting(b) => GoodCall(c, page) /\ page.at \in {"answered", "count"}
      BY <1>1, <1>2, <1>6, PageGood DEF page
    <2> QED BY <1>1, <1>6, <2>1, ReplyKeeps
  <1>7. CASE Reply(b, good) /\ m.what # "page"
    <2>1. ReadWaiting(b) => GoodCall(c, good) /\ good.at = "answered"
      BY <1>1, <1>2, <1>7, AnswerGood DEF Answer, good
    <2> QED BY <1>1, <1>7, <2>1, ReplyKeeps
  <1>8. CASE Reply(b, unsure) /\ m.what # "page"
    <2>1. ReadWaiting(b) => GoodCall(c, unsure) /\ unsure.at = "answered"
      BY <1>1, <1>2, <1>8, AnswerGood DEF Answer, unsure
    <2> QED BY <1>1, <1>8, <2>1, ReplyKeeps
  <1> QED BY <1>4, <1>5, <1>6, <1>7, <1>8

\* A reader ends: its channel is dropped with the calls in it.
LEMMA ShutdownKeeps ==
  ASSUME ReadInv, NEW ch \in 1..ApiChannel, Shutdown(ch)
  PROVE  ReadInv'
  <1> DEFINE s == inbox[ch]
             dropped(c) == [call[c] EXCEPT !.at = "answered", !.ok = FALSE]
  <1>0. ReadTypeOK
    BY DEF ReadInv
  <1>1. /\ busy[ch] = Missing /\ open' = open \ {ch} /\ inbox' = [inbox EXCEPT ![ch] = <<>>]
        /\ gone' = IF ch = ApiChannel THEN [gone EXCEPT !.api = @ + Len(s)] ELSE [gone EXCEPT !.reads = @ + Len(s)]
        /\ UNCHANGED <<pendingReads, busy, rr, keys, made, rmenu>>
    BY DEF Shutdown
  <1>2. s \in Seq(QueuedCall) /\ Len(s) \in Nat /\ gone \in [reads : Nat, api : Nat]
    BY <1>0, LenProperties DEF ReadTypeOK
  <1>3. /\ call' = [c \in Callers |-> call'[c]]
        /\ \A c \in Callers : call'[c] = call[c] \/ (call[c].at = "wait" /\ call'[c] = dropped(c))
    <2>1. call' = [c \in Callers |-> IF \E b \in ToSet(inbox[ch]) : b.who = c /\ ReadWaiting(b)
                                     THEN [call[c] EXCEPT !.at = "answered", !.ok = FALSE] ELSE call[c]]
      BY DEF Shutdown
    <2> QED BY <2>1 DEF ReadWaiting, On
  <1>4. \A c \in Callers : call[c].at = "wait" => GoodCall(c, dropped(c)) /\ dropped(c).at = "answered"
    BY <1>1, AnswerGood
  <1> HIDE DEF s, dropped
  <1>5. \A c \in Callers : GoodCall(c, call'[c])
    BY <1>1, <1>3, <1>4, CallKept
  <1>6. call' \in [Callers -> CallRecord]
    BY <1>3, <1>5 DEF GoodCall
  <1>7. /\ gone' \in [reads : Nat, api : Nat]
        /\ gone'.reads = gone.reads + (IF ch = ApiChannel THEN 0 ELSE Len(s))
        /\ gone'.api = gone.api + (IF ch = ApiChannel THEN Len(s) ELSE 0)
    BY <1>1, <1>2
  <1>8. ReadTypeOK'
    <2>1. inbox' \in [1..ApiChannel -> Seq(QueuedCall)]
      BY <1>0, <1>1 DEF ReadTypeOK
    <2> QED BY <1>0, <1>1, <1>6, <1>7, <2>1 DEF ReadTypeOK, Callers, ApiChannel
  <1>9. \A d \in 1..ApiChannel : inbox'[d] = IF d = ch THEN <<>> ELSE inbox[d]
    BY <1>0, <1>1 DEF ReadTypeOK
  <1>10. ChannelsGood'
    <2> SUFFICES ASSUME NEW d \in 1..ApiChannel
                 PROVE  /\ \A i \in 1..Len(inbox'[d]) : Placed(inbox'[d][i], d)
                        /\ busy'[d] # Missing => Placed(busy'[d], d)
      BY <1>1, ChannelsAfter
    <2>1. /\ \A i \in 1..Len(inbox[d]) : Placed(inbox[d][i], d)
          /\ busy[d] # Missing => Placed(busy[d], d)
      BY DEF ReadInv, QueueInv
    <2>2. CASE d = ch
      BY <1>1, <1>9, <2>1, <2>2
    <2>3. CASE d # ch
      BY <1>1, <1>9, <2>1, <2>3
    <2> QED BY <2>2, <2>3
  <1>11. /\ \A d \in 1..ApiChannel : d # ch => Load'[d] = Load[d]
         /\ Load[ch] = Len(s) /\ Load'[ch] = 0
    <2>1. \A d \in 1..ApiChannel : d # ch => Load'[d] = Load[d]
      <3>1. \A d \in 1..ApiChannel : d # ch => inbox'[d] = inbox[d] /\ busy'[d] = busy[d]
        BY <1>1, <1>9
      <3> QED BY <3>1, LoadIs
    <2>2. /\ Load[ch] = Len(s) + (IF busy[ch] = Missing THEN 0 ELSE 1)
          /\ Load'[ch] = Len(inbox'[ch]) + (IF busy'[ch] = Missing THEN 0 ELSE 1)
      BY LoadIs DEF s
    <2>3. Len(inbox'[ch]) = 0
      BY <1>9
    <2> QED BY <1>1, <1>2, <2>1, <2>2, <2>3
  <1>12. PlacesExact'
    <2>1. \A q \in {"reads", "api"} :
            pendingReads'[q] - gone'[q] = pendingReads[q] - gone[q]
                                            + (IF ch = ApiChannel <=> q = "api" THEN Load'[ch] - Load[ch] ELSE 0)
      <3>1. \A q \in {"reads", "api"} : pendingReads[q] \in Int /\ gone[q] \in Nat
        BY <1>0 DEF ReadTypeOK
      <3>2. CASE ch = ApiChannel
        BY <1>1, <1>2, <1>7, <1>11, <3>1, <3>2
      <3>3. CASE ch # ApiChannel
        BY <1>1, <1>2, <1>7, <1>11, <3>1, <3>3
      <3> QED BY <3>2, <3>3
    <2>2. \A d \in Callers : call'[d] = call[d] \/ (Apart(call[d].at) /\ Apart(call'[d].at))
      BY <1>3, <1>4 DEF Apart
    <2> QED BY <1>1, <1>8, <1>11, <2>1, <2>2, PlacesByChannel
  <1> QED BY <1>1, <1>5, <1>8, <1>10, <1>12, InvParts

\* A key that is added meanwhile takes nothing from a walk.
LEMMA VanishKeeps ==
  ASSUME ReadInv, Vanish
  PROVE  ReadInv'
  <1>0. ReadTypeOK /\ QueueInv /\ WalkInv /\ PlacesExact /\ WalkWhole
    BY DEF ReadInv, ReadsWhole
  <1>1. /\ keys \subseteq keys' /\ keys' \subseteq Keys
        /\ UNCHANGED <<pendingReads, inbox, busy, open, rr, call, made, gone, rmenu>>
    BY <1>0, CallersKnown DEF Vanish, ReadTypeOK
  <1>2. ReadTypeOK'
    BY <1>0, <1>1 DEF ReadTypeOK, Callers, ApiChannel
  <1>3. QueueInv' /\ WalkWhole'
    BY <1>0, <1>1 DEF QueueInv, WalkWhole, Placed, On, Msg, Callers, ApiChannel, Api
  <1>4. WalkInv'
    BY <1>0, <1>1 DEF WalkInv, Msg, Callers
  <1>5. PlacesExact'
    <2>1. \A q \in {"reads", "api"} : Sent(q)' = Sent(q)
      BY <1>0, <1>1, SentSame
    <2>2. \A q : Reserving(q)' = Reserving(q)
      BY <1>1 DEF Reserving, Callers, Msg, Queue, Api
    <2> QED BY <1>0, <1>1, <2>1, <2>2 DEF PlacesExact
  <1> QED BY <1>2, <1>3, <1>4, <1>5 DEF ReadInv, ReadsWhole

\* A fresh client: no call, no place.
LEMMA ReadInitInv == ReadInit => ReadInv
  <1> SUFFICES ASSUME ReadInit PROVE ReadInv
    OBVIOUS
  <1>1. ReadTypeOK
    <2>1. /\ rmenu \in ReadMenus /\ pendingReads \in [reads : Int, bytes : Int, api : Int, apibytes : Int]
          /\ open \subseteq 1..ApiChannel /\ keys \subseteq Keys /\ made \in [Callers -> Nat] /\ gone \in [reads : Nat, api : Nat]
      BY DEF ReadInit
    <2>2. inbox \in [1..ApiChannel -> Seq(QueuedCall)] /\ busy \in [1..ApiChannel -> QueuedCall \cup {Missing}]
      BY DEF ReadInit
    <2>3. rr \in 0..(Readers - 1)
      BY ReadLimits DEF ReadInit
    <2>4. call \in [Callers -> CallRecord]
      BY DEF ReadInit, CallRecord, CallState
    <2> QED BY <2>1, <2>2, <2>3, <2>4 DEF ReadTypeOK
  <1>2. \A c \in Callers : call[c].at = "idle"
    BY DEF ReadInit
  <1>3. QueueInv
    BY <1>2 DEF QueueInv, ReadInit, On
  <1>4. WalkInv /\ WalkWhole
    BY <1>2 DEF WalkInv, WalkWhole, On
  <1>5. PlacesExact
    <2> SUFFICES ASSUME NEW q \in {"reads", "api"}
                 PROVE  pendingReads[q] = Cardinality(Reserving(q)) + Sent(q) + gone[q]
      BY DEF PlacesExact
    <2>1. Reserving(q) = {}
      BY <1>2 DEF Reserving
    <2>2. Cardinality(Reserving(q)) = 0
      BY <2>1, FS_EmptySet
    <2>3. \A ch \in 1..ApiChannel : Load[ch] = 0
      <3> SUFFICES ASSUME NEW ch \in 1..ApiChannel PROVE Load[ch] = 0
        OBVIOUS
      <3>1. inbox[ch] = <<>> /\ busy[ch] = Missing
        BY DEF ReadInit
      <3>2. Len(inbox[ch]) = 0
        BY <3>1
      <3>3. Load[ch] = Len(inbox[ch]) + (IF busy[ch] = Missing THEN 0 ELSE 1)
        BY DEF Load
      <3> QED BY <3>1, <3>2, <3>3
    <2>4. PICK S : S = IF q = "api" THEN {ApiChannel} ELSE 1..Readers
      OBVIOUS
    <2>5. S \subseteq 1..ApiChannel
      BY <1>1, <2>4, ChannelSets
    <2>6. PICK f : f = Load
      OBVIOUS
    <2>7. \A x \in S : f[x] = 0
      BY <2>3, <2>5, <2>6
    <2>8. SumOver(f, S) = 0
      BY <2>7, SumZero
    <2>9. Sent(q) = 0
      BY <2>4, <2>6, <2>8 DEF Sent
    <2>10. pendingReads[q] = 0 /\ gone[q] = 0
      BY DEF ReadInit
    <2> QED BY <2>2, <2>9, <2>10
  <1> QED BY <1>1, <1>3, <1>4, <1>5 DEF ReadInv, ReadsWhole

\* A step that changes nothing.
LEMMA ReadStutter ==
  ASSUME ReadInv, UNCHANGED rvars
  PROVE  ReadInv'
  <1>0. ReadTypeOK /\ QueueInv /\ WalkInv /\ PlacesExact /\ WalkWhole
    BY DEF ReadInv, ReadsWhole
  <1>1. UNCHANGED <<pendingReads, inbox, busy, open, rr, keys, call, made, gone, rmenu>>
    BY DEF rvars
  <1>2. ReadTypeOK'
    BY <1>0, <1>1 DEF ReadTypeOK, Callers, ApiChannel
  <1>3. QueueInv' /\ WalkWhole' /\ WalkInv'
    BY <1>0, <1>1 DEF QueueInv, WalkInv, WalkWhole, Placed, On, Msg, Callers, ApiChannel, Api
  <1>4. PlacesExact'
    <2>1. \A q \in {"reads", "api"} : Sent(q)' = Sent(q)
      BY <1>0, <1>1, SentSame
    <2>2. \A q : Reserving(q)' = Reserving(q)
      BY <1>1 DEF Reserving, Callers, Msg, Queue, Api
    <2> QED BY <1>0, <1>1, <2>1, <2>2 DEF PlacesExact
  <1> QED BY <1>2, <1>3, <1>4 DEF ReadInv, ReadsWhole

\* Every step of the read side keeps the invariant.
LEMMA ReadStep == ReadInv /\ [ReadNext]_rvars => ReadInv'
  <1> SUFFICES ASSUME ReadInv, [ReadNext]_rvars PROVE ReadInv'
    OBVIOUS
  <1>1. ASSUME NEW c \in Callers, Overloaded(c) PROVE ReadInv'
    <2>1. /\ call[c].at = "over" /\ pendingReads' = ReleaseRead(Msg(c), pendingReads)
          /\ call' = [call EXCEPT ![c].at = "answered", ![c].ok = FALSE]
          /\ UNCHANGED <<inbox, busy, open, rr, keys, made, gone, rmenu>>
      BY <1>1 DEF Overloaded, On
    <2> QED BY <2>1, GiveUpKeeps
  <1>2. ASSUME NEW c \in Callers, Start(c) \/ ReserveCount(c) \/ ReserveBytes(c) \/ SendRead(c) \/ Timeout(c) \/ Finish(c)
        PROVE  ReadInv'
    BY <1>2, StartKeeps, ReserveCountKeeps, ReserveBytesKeeps, SendKeeps, LeaveKeeps
  <1>3. ASSUME NEW ch \in 1..ApiChannel, Take(ch) \/ Handled(ch) \/ Shutdown(ch)
        PROVE  ReadInv'
    BY <1>3, TakeKeeps, HandledKeeps, ShutdownKeeps
  <1> QED BY <1>1, <1>2, <1>3, VanishKeeps, ReadStutter DEF ReadNext

\* Every place is held by one call, counted once and given back once, and a walk that reports success is whole.
THEOREM ReadsCorrect == ReadSpec => []ReadsWhole
  <1>1. ReadInv => ReadsWhole
    BY DEF ReadInv
  <1> QED BY <1>1, ReadInitInv, ReadStep, PTL DEF ReadSpec

-----------------------------------------------------------------------------
(* The index walks *)

\* What the index metadata and the writer thread hold.
Place == {Steps[n] : n \in 1..Len(Steps)} \cup {"down"}
IndexTypeOK ==
    /\ imenu \in IndexMenus /\ starts \in 0..Len(imenu.confs) /\ (writer.at # "down" => starts # 0)
    /\ stored \subseteq DOMAIN imenu.ev /\ written \in Nat
    /\ entries = [i \in Rebuilt |-> entries[i]] /\ \A k \in entries["word"] : k[2] \in DOMAIN imenu.ev
    /\ imeta \in [ready : SUBSET Rebuilt, cursor : [Rebuilt -> Nat], phase : {"clear", "fill", Nobody},
                  state : Nat, words : Nat, schema : BOOLEAN]
    /\ writer \in [at : Place, walk : BOOLEAN, cursor : Nat, cancel : BOOLEAN, errors : BOOLEAN, words : Nat]

\* A walk in the thread is where its committed cursor says.
WalkLink == writer.walk /\ writer.at \in Rebuilt => writer.cursor = imeta.cursor[writer.at]

\* A started word walk has taken the marker away, and what it passed is found by its words; a start without the search index
\* leaves neither a marker nor a walk behind.
Found(id) == \A w \in ToSet(Ev(id).words) : Finds(w, id)
WordInv ==
    /\ "word" \in imeta.ready => \A id \in stored : Found(id)
    /\ imeta.phase = "fill" => \A id \in stored : id <= imeta.cursor["word"] => Found(id)
    /\ imeta.phase # Nobody => "word" \notin imeta.ready
    /\ writer.at # "down" => Conf.search \/ ("word" \notin imeta.ready /\ imeta.phase = Nobody)

\* What the walk over the wraps passed has the entries of its recipients.
Passed(i, id) == i \in imeta.ready \/ id <= imeta.cursor[i]
GiftInv == \A id \in stored : Passed("gift", id) => GiftWrapRecipients(id) \subseteq entries["gift"]

\* What the recheck passed has the entry of its delegator or none, and an entry is of a stored event.
DelegationInv ==
    /\ \A k \in entries["delegation"] : k = <<k[1], k[2]>> /\ k[2] \in stored
    /\ \A id \in stored : Passed("delegation", id) => {k \in entries["delegation"] : k[2] = id} = DelegationEntry(id)

IndexInv == IndexTypeOK /\ WalkLink /\ WordInv /\ GiftInv /\ DelegationInv /\ VanishedWrapsGone

-----------------------------------------------------------------------------
(* Shapes *)

\* What the types say of the stored events and of the configuration.
LEMMA StoreKnown ==
  ASSUME IndexTypeOK
  PROVE  /\ IsFiniteSet(DOMAIN imenu.ev) /\ DOMAIN imenu.ev \subseteq Nat \ {0}
         /\ IsFiniteSet(stored) /\ stored \subseteq Nat /\ \A id \in stored : id \in Nat /\ id > 0
         /\ \A id \in DOMAIN imenu.ev : Ev(id).words \in Seq(STRING)
         /\ Rebuilt = DOMAIN entries
         /\ writer.at # "down" => Conf \in [search : BOOLEAN, words : Nat, meta : BOOLEAN]
  <1>1. /\ imenu \in IndexMenus /\ stored \subseteq DOMAIN imenu.ev /\ Rebuilt = DOMAIN entries
        /\ starts \in 0..Len(imenu.confs) /\ (writer.at # "down" => starts # 0)
    BY DEF IndexTypeOK
  <1>2. /\ IsFiniteSet(DOMAIN imenu.ev) /\ DOMAIN imenu.ev \subseteq Nat \ {0}
        /\ \A id \in DOMAIN imenu.ev : imenu.ev[id].words \in Seq(STRING)
        /\ Len(imenu.confs) \in Nat
        /\ \A n \in 1..Len(imenu.confs) : imenu.confs[n] \in [search : BOOLEAN, words : Nat, meta : BOOLEAN]
    BY <1>1, IndexMenuType
  <1>3. IsFiniteSet(stored)
    BY <1>1, <1>2, FS_Subset
  <1>4. \A id \in stored : id \in Nat /\ id > 0
    BY <1>1, <1>2
  <1>5. writer.at # "down" => starts \in 1..Len(imenu.confs)
    BY <1>1, <1>2
  <1> QED BY <1>1, <1>2, <1>3, <1>4, <1>5 DEF Ev, Conf

\* The step after a rebuild is one of the thread's steps.
LEMMA AfterPlace ==
  ASSUME NEW s \in Rebuilt
  PROVE  After(s) \in Place
  <1>1. \E n \in 1..Len(Steps) : Steps[n] = s
    <2>1. /\ 1 \in 1..Len(Steps) /\ 3 \in 1..Len(Steps) /\ 4 \in 1..Len(Steps)
          /\ 5 \in 1..Len(Steps) /\ 6 \in 1..Len(Steps)
          /\ Steps[1] = "gift" /\ Steps[3] = "meta" /\ Steps[4] = "delegation" /\ Steps[5] = "blossom" /\ Steps[6] = "word"
      BY DEF Steps
    <2> HIDE DEF Steps
    <2> QED BY <2>1 DEF Rebuilt
  <1>2. PICK n \in 1..Len(Steps) : Steps[n] = s /\ After(s) = Steps[1 + n]
    BY <1>1 DEF After
  <1>3. n # 8 /\ Len(Steps) = 8
    BY <1>2 DEF Steps, Rebuilt
  <1>4. 1 + n \in 1..Len(Steps)
    BY <1>3
  <1> QED BY <1>2, <1>4 DEF Place

\* Places the code names.
LEMMA Places ==
  /\ Rebuilt \subseteq Place /\ {"down", "serve", "schema", "meta", "gift", "vanish"} \subseteq Place
  /\ "down" \notin Rebuilt /\ "schema" \notin Rebuilt /\ "serve" \notin Rebuilt /\ "vanish" \notin Rebuilt
  <1>1. /\ \A n \in 1..8 : n \in 1..Len(Steps)
        /\ Steps[1] = "gift" /\ Steps[2] = "vanish" /\ Steps[3] = "meta" /\ Steps[4] = "delegation" /\ Steps[5] = "blossom"
        /\ Steps[6] = "word" /\ Steps[7] = "schema" /\ Steps[8] = "serve"
    BY DEF Steps
  <1>2. {"gift", "vanish", "meta", "delegation", "blossom", "word", "schema", "serve"} \subseteq Place
    BY <1>1 DEF Place
  <1>3. "down" \in Place
    BY DEF Place
  <1> QED BY <1>2, <1>3 DEF Rebuilt

-----------------------------------------------------------------------------
(* What a step leaves alone *)

\* A search finds what it found, where the keys of the events that stay are kept.
LEMMA FoundKept ==
  ASSUME NEW id, UNCHANGED imenu, Found(id), \A k \in entries["word"] : k[2] = id => k \in entries'["word"]
  PROVE  Found(id)'
  <1>1. \A w : <<w, id>>[2] = id
    OBVIOUS
  <1> QED BY <1>1 DEF Found, Finds, Ev

\* The word index where a step keeps the keys of the events that stay, the marker and the walk.
LEMMA WordFrame ==
  ASSUME WordInv, UNCHANGED <<imenu, starts>>, stored' \subseteq stored,
         \A k \in entries["word"] : k[2] \in stored' => k \in entries'["word"],
         imeta'.phase = imeta.phase, "word" \in imeta'.ready <=> "word" \in imeta.ready,
         imeta'.cursor["word"] = imeta.cursor["word"], writer'.at # "down" => writer.at # "down"
  PROVE  WordInv'
  <1>1. ASSUME NEW id \in stored', Found(id)
        PROVE  Found(id)'
    BY <1>1, FoundKept
  <1> QED BY <1>1 DEF WordInv, Conf

\* The wraps where a step keeps the entries of the wraps that stay, the marker and the cursor.
LEMMA GiftFrame ==
  ASSUME GiftInv, UNCHANGED imenu, stored' \subseteq stored,
         \A k \in entries["gift"] : k[2] \in stored' => k \in entries'["gift"],
         "gift" \in imeta'.ready <=> "gift" \in imeta.ready, imeta'.cursor["gift"] = imeta.cursor["gift"]
  PROVE  GiftInv'
  <1> SUFFICES ASSUME NEW id \in stored', Passed("gift", id)' PROVE GiftWrapRecipients(id)' \subseteq entries'["gift"]
    BY DEF GiftInv
  <1>1. GiftWrapRecipients(id) \subseteq entries["gift"] /\ GiftWrapRecipients(id)' = GiftWrapRecipients(id)
    BY DEF GiftInv, Passed, GiftWrapRecipients, Ev
  <1>2. \A k \in GiftWrapRecipients(id) : k[2] = id
    BY DEF GiftWrapRecipients
  <1> QED BY <1>1, <1>2

\* An entry of a delegation names its event.
LEMMA DelegationPairs ==
  ASSUME NEW id
  PROVE  \A k \in DelegationEntry(id) : k = <<k[1], k[2]>> /\ k[2] = id /\ k[1] = Ev(id).delegator /\ ~VanishedOrPending(k[1])
  BY DEF DelegationEntry

\* The delegations where a step keeps the entries of the events that stay and no other, the marker and the cursor.
LEMMA DelegationFrame ==
  ASSUME DelegationInv, UNCHANGED imenu, stored' \subseteq stored,
         entries'["delegation"] = {k \in entries["delegation"] : k[2] \in stored'},
         "delegation" \in imeta'.ready <=> "delegation" \in imeta.ready,
         imeta'.cursor["delegation"] = imeta.cursor["delegation"],
         vanish'.pending \cup vanish'.done = vanish.pending \cup vanish.done
  PROVE  DelegationInv'
  <1>1. \A id : DelegationEntry(id)' = DelegationEntry(id)
    BY DEF DelegationEntry, VanishedOrPending, Delegates, Ev
  <1>2. \A k \in entries'["delegation"] : k = <<k[1], k[2]>> /\ k[2] \in stored'
    BY DEF DelegationInv
  <1>3. ASSUME NEW id \in stored', Passed("delegation", id)'
        PROVE  {k \in entries'["delegation"] : k[2] = id} = DelegationEntry(id)'
    <2>1. {k \in entries["delegation"] : k[2] = id} = DelegationEntry(id)
      BY <1>3 DEF DelegationInv, Passed
    <2>2. {k \in entries'["delegation"] : k[2] = id} = {k \in entries["delegation"] : k[2] = id}
      BY <1>3
    <2> QED BY <1>1, <2>1, <2>2
  <1> QED BY <1>2, <1>3 DEF DelegationInv

\* What vanished stays gone while nothing is stored and nobody else vanishes.
LEMMA VanishedFrame ==
  ASSUME VanishedWrapsGone, UNCHANGED imenu, stored' \subseteq stored, vanish'.done = vanish.done
  PROVE  VanishedWrapsGone'
  BY DEF VanishedWrapsGone, Ev

\* A step that touches neither the events nor the indexes, nor what the metadata promises.
LEMMA QuietKeeps ==
  ASSUME IndexInv, UNCHANGED <<stored, entries, vanish, imenu, starts>>, IndexTypeOK', WalkLink',
         imeta'.ready = imeta.ready, imeta'.cursor = imeta.cursor, imeta'.phase = imeta.phase,
         writer'.at # "down" => writer.at # "down"
  PROVE  IndexInv'
  <1>1. \A i : entries'[i] = entries[i]
    OBVIOUS
  <1>2. entries'["delegation"] = {k \in entries["delegation"] : k[2] \in stored'}
    BY <1>1 DEF IndexInv, DelegationInv
  <1>3. WordInv' /\ GiftInv' /\ VanishedWrapsGone'
    BY <1>1, WordFrame, GiftFrame, VanishedFrame DEF IndexInv
  <1>4. DelegationInv'
    BY <1>2, DelegationFrame DEF IndexInv
  <1> QED BY <1>3, <1>4 DEF IndexInv

WriterType == [at : Place, walk : BOOLEAN, cursor : Nat, cancel : BOOLEAN, errors : BOOLEAN, words : Nat]

\* A step of the thread alone.
LEMMA ThreadStep ==
  ASSUME IndexInv, UNCHANGED <<stored, entries, imeta, vanish, starts, written, imenu>>, writer' \in WriterType,
         WalkLink', writer'.at # "down" => writer.at # "down"
  PROVE  IndexInv'
  <1>1. IndexTypeOK'
    BY DEF IndexInv, IndexTypeOK, WriterType
  <1> QED BY <1>1, QuietKeeps

\* A step that fails, or is cancelled, goes on with the next one.
LEMMA FailedKeeps ==
  ASSUME IndexInv, writer.at \in Rebuilt, Failed, UNCHANGED <<stored, entries, imeta, vanish, starts, written, imenu>>
  PROVE  IndexInv'
  <1>1. PICK e : e = (writer.errors \/ ~writer.cancel)
    OBVIOUS
  <1>2. e \in BOOLEAN
    BY <1>1, Zenon
  <1>3. writer \in WriterType /\ writer.at # "down"
    BY Places DEF IndexInv, IndexTypeOK, WriterType
  <1>4. writer' = [[writer EXCEPT !.at = After(writer.at), !.walk = FALSE] EXCEPT !.errors = e]
    BY <1>1, <1>3 DEF Failed, Goto, WriterType
  <1>5. writer' \in WriterType /\ writer'.walk = FALSE
    BY <1>2, <1>3, <1>4, AfterPlace DEF WriterType
  <1>6. WalkLink'
    BY <1>5 DEF WalkLink
  <1> QED BY <1>3, <1>5, <1>6, ThreadStep

-----------------------------------------------------------------------------
(* The steps of a start *)

MetaType == [ready : SUBSET Rebuilt, cursor : [Rebuilt -> Nat], phase : {"clear", "fill", Nobody},
             state : Nat, words : Nat, schema : BOOLEAN]

\* The steps of the thread that touch no index.
LEMMA ThreadKeeps ==
  ASSUME IndexInv, Skip \/ Begin \/ CancelWork \/ Down
  PROVE  IndexInv'
  <1>0. writer \in WriterType /\ imeta \in MetaType
    BY DEF IndexInv, IndexTypeOK, WriterType, MetaType
  <1>1. CASE Skip
    <2>1. /\ writer.at \in Rebuilt /\ writer' = [writer EXCEPT !.at = After(writer.at), !.walk = FALSE]
          /\ UNCHANGED <<stored, entries, imeta, vanish, starts, written, imenu>>
      BY <1>1 DEF Skip, Goto
    <2>2. writer' \in WriterType /\ ~writer'.walk
      BY <1>0, <2>1, AfterPlace DEF WriterType
    <2>3. WalkLink' /\ writer.at # "down"
      BY <2>1, <2>2, Places DEF WalkLink
    <2> QED BY <2>1, <2>2, <2>3, ThreadStep
  <1>2. CASE Begin
    <2>1. /\ writer.at \in Rebuilt /\ writer' = [writer EXCEPT !.walk = TRUE, !.cursor = imeta.cursor[writer.at]]
          /\ UNCHANGED <<stored, entries, imeta, vanish, starts, written, imenu>>
      BY <1>2 DEF Begin
    <2>2. writer' \in WriterType /\ writer'.at = writer.at /\ writer'.cursor = imeta.cursor[writer.at]
      BY <1>0, <2>1 DEF WriterType, MetaType
    <2>3. WalkLink'
      BY <2>1, <2>2 DEF WalkLink
    <2> QED BY <2>1, <2>2, <2>3, ThreadStep
  <1>3. CASE CancelWork
    <2>1. /\ writer' = [writer EXCEPT !.cancel = TRUE] /\ UNCHANGED <<stored, entries, imeta, vanish, starts, written, imenu>>
      BY <1>3 DEF CancelWork
    <2>2. writer' \in WriterType /\ writer'.at = writer.at /\ writer'.cursor = writer.cursor /\ writer'.walk = writer.walk
      BY <1>0, <2>1 DEF WriterType
    <2>3. WalkLink'
      BY <2>1, <2>2 DEF WalkLink, IndexInv
    <2> QED BY <2>1, <2>2, <2>3, ThreadStep
  <1>4. CASE Down
    <2>1. /\ writer' = [writer EXCEPT !.at = "down"] /\ UNCHANGED <<stored, entries, imeta, vanish, starts, written, imenu>>
      BY <1>4 DEF Down
    <2>2. writer' \in WriterType /\ writer'.at = "down"
      BY <1>0, <2>1, Places DEF WriterType
    <2>3. WalkLink'
      BY <2>2, Places DEF WalkLink
    <2> QED BY <2>1, <2>2, <2>3, ThreadStep
  <1> QED BY <1>1, <1>2, <1>3, <1>4

\* The schema is marked, and the thread serves or ends.
LEMMA MarkSchemaKeeps ==
  ASSUME IndexInv, MarkSchema
  PROVE  IndexInv'
  <1>0. writer \in WriterType /\ imeta \in MetaType /\ writer.at = "schema"
    BY DEF IndexInv, IndexTypeOK, WriterType, MetaType, MarkSchema
  <1>1. PICK x : x = (imeta.schema \/ (~writer.cancel /\ ~writer.errors))
    OBVIOUS
  <1>2. x \in BOOLEAN
    BY <1>1, Zenon
  <1>3. imeta' = [imeta EXCEPT !.schema = x] /\ UNCHANGED <<stored, entries, vanish, starts, written, imenu>>
    BY <1>0, <1>1 DEF MarkSchema
  <1>4. /\ imeta' \in MetaType /\ imeta'.ready = imeta.ready /\ imeta'.cursor = imeta.cursor /\ imeta'.phase = imeta.phase
    BY <1>0, <1>2, <1>3 DEF MetaType
  <1>5. writer' \in WriterType /\ writer'.at \notin Rebuilt
    <2>1. writer' = [writer EXCEPT !.at = IF writer.cancel THEN "down" ELSE "serve"]
      BY DEF MarkSchema
    <2>2. CASE writer.cancel
      BY <1>0, <2>1, <2>2, Places DEF WriterType
    <2>3. CASE ~writer.cancel
      BY <1>0, <2>1, <2>3, Places DEF WriterType
    <2> QED BY <2>2, <2>3
  <1>6. IndexTypeOK' /\ WalkLink'
    BY <1>0, <1>3, <1>4, <1>5 DEF IndexInv, IndexTypeOK, WriterType, MetaType, WalkLink
  <1> QED BY <1>0, <1>3, <1>4, <1>6, QuietKeeps

\* The store opens: with the search index off, the marker and the state of a walk go.
LEMMA OpenKeeps ==
  ASSUME IndexInv, Open
  PROVE  IndexInv'
  <1> DEFINE c == imenu.confs[starts + 1]
  <1>0. writer \in WriterType /\ imeta \in MetaType /\ imenu \in IndexMenus /\ starts \in 0..Len(imenu.confs)
    BY DEF IndexInv, IndexTypeOK, WriterType, MetaType
  <1>1. /\ starts < Len(imenu.confs) /\ starts' = starts + 1 /\ imeta' = OpenMeta(c)
        /\ UNCHANGED <<stored, entries, vanish, written, imenu>>
    BY DEF Open
  <1>2. starts' \in 1..Len(imenu.confs) /\ c \in [search : BOOLEAN, words : Nat, meta : BOOLEAN]
    BY <1>0, <1>1, IndexMenuType
  <1>3. Conf' = c
    BY <1>1 DEF Conf
  <1> HIDE DEF c
  <1>4. /\ imeta' \in MetaType /\ \A i \in Rebuilt \ {"word"} : imeta'.cursor[i] = imeta.cursor[i]
        /\ \A i \in Rebuilt \ {"word"} : i \in imeta'.ready <=> i \in imeta.ready
        /\ c.search => imeta'.ready = imeta.ready /\ imeta'.phase = imeta.phase /\ imeta'.cursor = imeta.cursor
        /\ ~c.search => "word" \notin imeta'.ready /\ imeta'.phase = Nobody
    <2>1. CASE c.search
      <3>1. imeta' = [imeta EXCEPT !.words = IF imeta.words = 0 THEN c.words ELSE imeta.words]
        BY <1>0, <1>1, <2>1 DEF OpenMeta, MetaType
      <3>2. (IF imeta.words = 0 THEN c.words ELSE imeta.words) \in Nat
        BY <1>0, <1>2 DEF MetaType
      <3> QED BY <1>0, <2>1, <3>1, <3>2 DEF MetaType
    <2>2. CASE ~c.search
      <3>1. imeta' = [imeta EXCEPT !.ready = imeta.ready \ {"word"}, !.phase = Nobody, !.cursor = [imeta.cursor EXCEPT !["word"] = 0]]
        BY <1>0, <1>1, <2>2 DEF OpenMeta, MetaType
      <3> QED BY <1>0, <2>2, <3>1 DEF MetaType
    <2> QED BY <2>1, <2>2
  <1>5. writer' \in WriterType /\ ~writer'.walk
    <2>1. writer' = [at |-> "gift", walk |-> FALSE, cursor |-> 0, cancel |-> FALSE, errors |-> FALSE,
                     words |-> IF c.search THEN imeta'.words ELSE c.words]
      BY DEF Open, c
    <2>2. (IF c.search THEN imeta'.words ELSE c.words) \in Nat
      BY <1>2, <1>4 DEF MetaType
    <2> QED BY <2>1, <2>2, Places DEF WriterType
  <1>6. IndexTypeOK' /\ WalkLink'
    <2>1. starts' # 0 /\ starts' \in 0..Len(imenu'.confs)
      BY <1>0, <1>1, <1>2, IndexMenuType
    <2>2. \A k \in entries'["word"] : k[2] \in DOMAIN imenu'.ev
      BY <1>1 DEF IndexInv, IndexTypeOK
    <2>3. IndexTypeOK'
      BY <1>0, <1>1, <1>4, <1>5, <2>1, <2>2 DEF IndexInv, IndexTypeOK, WriterType, MetaType
    <2> QED BY <1>5, <2>3 DEF WalkLink
  <1>7. WordInv'
    <2>1. \A id : Found(id) => Found(id)'
      BY <1>1, FoundKept
    <2>2. CASE c.search
      BY <1>1, <1>3, <1>4, <2>1, <2>2 DEF IndexInv, WordInv
    <2>3. CASE ~c.search
      <3>1. imeta'.phase # "fill"
        BY <1>4, <2>3, PhaseType
      <3> QED BY <1>4, <2>3, <3>1 DEF WordInv
    <2> QED BY <2>2, <2>3
  <1>8. GiftInv' /\ VanishedWrapsGone'
    <2>1. "gift" \in Rebuilt \ {"word"}
      BY DEF Rebuilt
    <2> QED BY <1>1, <1>4, <2>1, GiftFrame, VanishedFrame DEF IndexInv
  <1>9. DelegationInv'
    <2>1. "delegation" \in Rebuilt \ {"word"}
      BY DEF Rebuilt
    <2>2. entries'["delegation"] = {k \in entries["delegation"] : k[2] \in stored'}
      BY <1>1 DEF IndexInv, DelegationInv
    <2> QED BY <1>1, <1>4, <2>1, <2>2, DelegationFrame DEF IndexInv
  <1> QED BY <1>6, <1>7, <1>8, <1>9 DEF IndexInv

-----------------------------------------------------------------------------
(* Chunks of a rebuild *)

\* The next chunk of a walk: what is not after its last item was behind the cursor or is in it.
LEMMA NextChunkIs ==
  ASSUME IndexInv, NEW items, items \subseteq DOMAIN imenu.ev, NEW ids, ids = NextChunk(items, writer.cursor)
  PROVE  /\ ids \subseteq items
         /\ AheadOf(items, writer.cursor) # {} => ids # {}
         /\ ids # {} => /\ Max(ids) \in Nat
                        /\ \A k \in items : k <= Max(ids) => k <= writer.cursor \/ k \in ids
  <1>1. writer.cursor \in Nat
    BY DEF IndexInv, IndexTypeOK
  <1>2. IsFiniteSet(DOMAIN imenu.ev) /\ DOMAIN imenu.ev \subseteq Nat \ {0}
    BY StoreKnown DEF IndexInv
  <1>3. IsFiniteSet(items) /\ items \subseteq Nat
    BY <1>2, FS_Subset
  <1>4. Chunk \in Nat \ {0} /\ ids = FirstOf(Chunk, AheadOf(items, writer.cursor))
    BY ChunkType DEF NextChunk
  <1> QED BY <1>1, <1>3, <1>4, ChunkWalk

\* A commit of a rebuild: the entries of one index, its cursor and the thread's.
Committed(i, x, X) ==
    /\ imeta' \in MetaType /\ imeta'.cursor[i] = x /\ \A j \in Rebuilt \ {i} : imeta'.cursor[j] = imeta.cursor[j]
    /\ writer' \in WriterType /\ writer'.at = i /\ writer'.cursor = x
    /\ entries' = [j \in Rebuilt |-> entries'[j]] /\ entries'[i] = X /\ \A j \in Rebuilt \ {i} : entries'[j] = entries[j]

\* A commit of a rebuild changes that much and no more.
LEMMA CommitIs ==
  ASSUME IndexInv, NEW i \in Rebuilt, writer.at = i, NEW x \in Nat, NEW X,
         entries' = [entries EXCEPT ![i] = X], imeta' = [imeta EXCEPT !.cursor[i] = x], writer' = [writer EXCEPT !.cursor = x]
  PROVE  Committed(i, x, X) /\ imeta'.ready = imeta.ready /\ imeta'.phase = imeta.phase
  <1>0. writer \in WriterType /\ imeta \in MetaType /\ entries = [j \in Rebuilt |-> entries[j]]
    BY DEF IndexInv, IndexTypeOK, WriterType, MetaType
  <1>1. imeta' = [imeta EXCEPT !.cursor = [imeta.cursor EXCEPT ![i] = x]]
    BY <1>0 DEF MetaType
  <1>2. /\ imeta' \in MetaType /\ imeta'.ready = imeta.ready /\ imeta'.phase = imeta.phase /\ imeta'.cursor[i] = x
        /\ \A j \in Rebuilt \ {i} : imeta'.cursor[j] = imeta.cursor[j]
    BY <1>0, <1>1 DEF MetaType
  <1>3. /\ writer' \in WriterType /\ writer'.at = i /\ writer'.cursor = x
    BY <1>0 DEF WriterType
  <1>4. /\ entries' = [j \in Rebuilt |-> entries'[j]] /\ entries'[i] = X
        /\ \A j \in Rebuilt \ {i} : entries'[j] = entries[j]
    BY <1>0
  <1> QED BY <1>2, <1>3, <1>4 DEF Committed

\* What such a commit leaves alone.
LEMMA CommitParts ==
  ASSUME IndexInv, NEW i \in Rebuilt, writer.at = i, NEW x, NEW X, i = "word" => \A k \in X : k[2] \in DOMAIN imenu.ev,
         Committed(i, x, X), UNCHANGED <<stored, vanish, starts, written, imenu>>
  PROVE  IndexTypeOK' /\ WalkLink' /\ VanishedWrapsGone'
  <1>1. \A k \in entries'["word"] : k[2] \in DOMAIN imenu.ev
    BY DEF Committed, IndexInv, IndexTypeOK, Rebuilt
  <1>2. IndexTypeOK' /\ WalkLink'
    BY <1>1 DEF IndexInv, IndexTypeOK, WriterType, MetaType, WalkLink, Committed
  <1> QED BY <1>2, VanishedFrame DEF IndexInv

\* One chunk of the rebuild of an index other than the word index.
LEMMA RebuildChunkKeeps ==
  ASSUME IndexInv, NEW i \in Rebuilt, RebuildChunk(i)
  PROVE  IndexInv'
  <1>0. writer.at = i /\ i # "word" /\ writer.walk /\ UNCHANGED <<stored, vanish, starts, written, imenu>>
    BY DEF RebuildChunk
  <1>1. CASE Failed /\ UNCHANGED <<entries, imeta>>
    BY <1>0, <1>1, FailedKeeps
  <1>2. CASE ~(Failed /\ UNCHANGED <<entries, imeta>>)
    <2> DEFINE ids == NextChunk(Items(i), writer.cursor)
               base == IF i = "delegation" THEN Without(i, ids) ELSE entries[i]
               X == base \union UNION {EntriesOf(i, id, 0) : id \in ids}
    <2>1. /\ ids # {} /\ entries' = [entries EXCEPT ![i] = X] /\ imeta' = [imeta EXCEPT !.cursor[i] = Max(ids)]
          /\ writer' = [writer EXCEPT !.cursor = Max(ids)]
      BY <1>2 DEF RebuildChunk, Interrupted
    <2>2. Items(i) \subseteq DOMAIN imenu.ev /\ (i \in {"gift", "delegation"} => Items(i) = stored)
      BY DEF Items, IndexInv, IndexTypeOK
    <2>3. writer.cursor = imeta.cursor[i]
      BY <1>0 DEF IndexInv, WalkLink
    <2>4. /\ ids \subseteq Items(i) /\ Max(ids) \in Nat
          /\ \A k \in Items(i) : k <= Max(ids) => k <= imeta.cursor[i] \/ k \in ids
      BY <2>1, <2>2, <2>3, NextChunkIs
    <2>5. /\ IndexTypeOK' /\ WalkLink' /\ VanishedWrapsGone'
          /\ imeta'.ready = imeta.ready /\ imeta'.phase = imeta.phase /\ imeta'.cursor[i] = Max(ids) /\ entries'[i] = X
          /\ \A j \in Rebuilt \ {i} : entries'[j] = entries[j] /\ imeta'.cursor[j] = imeta.cursor[j]
          /\ writer'.at = writer.at
      <3>1. PICK x, Y : x = Max(ids) /\ Y = X
        OBVIOUS
      <3>2. Committed(i, x, Y) /\ imeta'.ready = imeta.ready /\ imeta'.phase = imeta.phase
        <4>1. /\ entries' = [entries EXCEPT ![i] = Y] /\ imeta' = [imeta EXCEPT !.cursor[i] = x]
              /\ writer' = [writer EXCEPT !.cursor = x]
          BY <2>1, <3>1
        <4>2. x \in Nat
          BY <2>4, <3>1
        <4> QED BY <1>0, <4>1, <4>2, CommitIs
      <3>3. IndexTypeOK' /\ WalkLink' /\ VanishedWrapsGone'
        BY <1>0, <3>2, CommitParts
      <3> QED BY <1>0, <3>1, <3>2, <3>3 DEF Committed
    <2> HIDE DEF ids
    <2>6. WordInv'
      BY <1>0, <2>5, WordFrame DEF IndexInv, Rebuilt
    <2>7. GiftInv'
      <3>1. CASE i # "gift"
        BY <1>0, <2>5, <3>1, GiftFrame DEF IndexInv, Rebuilt
      <3>2. CASE i = "gift"
        <4> SUFFICES ASSUME NEW id \in stored, Passed("gift", id)'
                     PROVE  GiftWrapRecipients(id)' \subseteq entries'["gift"]
          BY <1>0 DEF GiftInv
        <4>1. GiftWrapRecipients(id)' = GiftWrapRecipients(id)
          BY <1>0 DEF GiftWrapRecipients, Ev
        <4>2. \A x \in ids : EntriesOf(i, x, 0) = GiftWrapRecipients(x)
          BY <3>2 DEF EntriesOf
        <4>3. entries["gift"] \subseteq entries'["gift"] /\ \A x \in ids : GiftWrapRecipients(x) \subseteq entries'["gift"]
          BY <2>5, <3>2, <4>2
        <4>4. Passed("gift", id) \/ id \in ids
          BY <2>2, <2>4, <2>5, <3>2 DEF Passed
        <4> QED BY <4>1, <4>3, <4>4 DEF IndexInv, GiftInv
      <3> QED BY <3>1, <3>2
    <2>8. DelegationInv'
      <3>1. CASE i # "delegation"
        <4>1. "delegation" \in Rebuilt \ {i}
          BY <3>1 DEF Rebuilt
        <4>2. entries'["delegation"] = {k \in entries["delegation"] : k[2] \in stored'}
          BY <1>0, <2>5, <4>1 DEF IndexInv, DelegationInv
        <4> QED BY <1>0, <2>5, <4>1, <4>2, DelegationFrame DEF IndexInv
      <3>2. CASE i = "delegation"
        <4>1. \A x : DelegationEntry(x)' = DelegationEntry(x)
          BY <1>0 DEF DelegationEntry, VanishedOrPending, Delegates, Ev
        <4>2. \A x \in ids : EntriesOf(i, x, 0) = DelegationEntry(x)
          BY <3>2 DEF EntriesOf
        <4>3. \A k : k \in entries'["delegation"] <=>
                       (k \in entries["delegation"] /\ k[2] \notin ids) \/ \E x \in ids : k \in DelegationEntry(x)
          BY <2>5, <3>2, <4>2 DEF Without
        <4>4. \A x \in ids : \A k \in DelegationEntry(x) : k = <<k[1], k[2]>> /\ k[2] = x
          BY DelegationPairs
        <4>5. \A k \in entries'["delegation"] : k = <<k[1], k[2]>> /\ k[2] \in stored
          BY <2>2, <2>4, <3>2, <4>3, <4>4 DEF IndexInv, DelegationInv
        <4>6. ASSUME NEW id \in stored, Passed("delegation", id)'
              PROVE  {k \in entries'["delegation"] : k[2] = id} = DelegationEntry(id)
          <5>1. Passed("delegation", id) \/ id \in ids
            BY <2>2, <2>4, <2>5, <3>2, <4>6 DEF Passed
          <5>2. CASE id \in ids
            BY <4>3, <4>4, <5>2
          <5>3. CASE id \notin ids
            <6>1. {k \in entries["delegation"] : k[2] = id} = DelegationEntry(id)
              BY <5>1, <5>3 DEF IndexInv, DelegationInv
            <6> QED BY <4>3, <4>4, <5>3, <6>1
          <5> QED BY <5>2, <5>3
        <4> QED BY <1>0, <4>1, <4>5, <4>6 DEF DelegationInv
      <3> QED BY <3>1, <3>2
    <2> QED BY <2>5, <2>6, <2>7, <2>8 DEF IndexInv
  <1> QED BY <1>1, <1>2

\* Metadata with one cursor moved and the marker of that index set, taken away or left.
MetaSet(i, x) ==
    /\ imeta' \in MetaType /\ imeta'.cursor[i] = x /\ \A j \in Rebuilt \ {i} : imeta'.cursor[j] = imeta.cursor[j]
    /\ \A j \in Rebuilt \ {i} : j \in imeta'.ready <=> j \in imeta.ready

\* A step at an index that moves only the metadata: what it leaves of the other indexes.
LEMMA MetaParts ==
  ASSUME IndexInv, NEW i \in Rebuilt, NEW x, MetaSet(i, x), writer' \in WriterType, writer.at = i,
         ~writer'.walk \/ (writer'.at = i /\ writer'.cursor = x),
         UNCHANGED <<stored, entries, vanish, starts, written, imenu>>
  PROVE  /\ IndexTypeOK' /\ WalkLink' /\ VanishedWrapsGone'
         /\ i # "gift" => GiftInv'
         /\ i # "delegation" => DelegationInv'
         /\ i # "word" /\ imeta'.phase = imeta.phase => WordInv'
  <1>0. writer.at # "down"
    BY Places
  <1>1. IndexTypeOK' /\ WalkLink'
    BY <1>0 DEF IndexInv, IndexTypeOK, WriterType, MetaType, WalkLink, MetaSet
  <1>2. VanishedWrapsGone'
    BY VanishedFrame DEF IndexInv
  <1>3. i # "gift" => GiftInv'
    BY GiftFrame DEF IndexInv, MetaSet, Rebuilt
  <1>4. i # "delegation" => DelegationInv'
    <2>1. entries'["delegation"] = {k \in entries["delegation"] : k[2] \in stored'}
      BY DEF IndexInv, DelegationInv
    <2> QED BY <2>1, DelegationFrame DEF IndexInv, MetaSet, Rebuilt
  <1>5. i # "word" /\ imeta'.phase = imeta.phase => WordInv'
    BY <1>0, WordFrame DEF IndexInv, MetaSet, Rebuilt
  <1> QED BY <1>1, <1>2, <1>3, <1>4, <1>5

\* The marker of an index other than the word index: nothing was ahead of the walk.
LEMMA MarkReadyKeeps ==
  ASSUME IndexInv, NEW i \in Rebuilt, MarkReady(i)
  PROVE  IndexInv'
  <1>0. /\ writer.at = i /\ i # "word" /\ writer.walk /\ AheadOf(Items(i), writer.cursor) = {}
        /\ UNCHANGED <<stored, vanish, starts, written, imenu>>
    BY DEF MarkReady
  <1>1. CASE Failed /\ UNCHANGED <<entries, imeta>>
    BY <1>0, <1>1, FailedKeeps
  <1>2. CASE ~(Failed /\ UNCHANGED <<entries, imeta>>)
    <2>0. writer \in WriterType /\ imeta \in MetaType
      BY DEF IndexInv, IndexTypeOK, WriterType, MetaType
    <2>1. /\ imeta' = [imeta EXCEPT !.ready = IF i = "meta" THEN @ ELSE @ \union {i}, !.cursor[i] = 0]
          /\ writer' = [writer EXCEPT !.at = After(i), !.walk = FALSE] /\ UNCHANGED entries
      BY <1>2 DEF MarkReady, Interrupted, Goto
    <2>2. imeta' = [imeta EXCEPT !.ready = IF i = "meta" THEN imeta.ready ELSE imeta.ready \union {i},
                                 !.cursor = [imeta.cursor EXCEPT ![i] = 0]]
      BY <2>0, <2>1 DEF MetaType
    <2>3. MetaSet(i, 0) /\ imeta'.phase = imeta.phase
      BY <2>0, <2>2 DEF MetaType, MetaSet
    <2>4. writer' \in WriterType /\ ~writer'.walk
      BY <2>0, <2>1, AfterPlace DEF WriterType
    <2>5. /\ IndexTypeOK' /\ WalkLink' /\ VanishedWrapsGone' /\ WordInv'
          /\ i # "gift" => GiftInv'
          /\ i # "delegation" => DelegationInv'
      BY <1>0, <2>1, <2>3, <2>4, MetaParts
    <2>6. ASSUME i \in {"gift", "delegation"}
          PROVE  \A id \in stored : Passed(i, id)
      <3>1. Items(i) = stored /\ writer.cursor = imeta.cursor[i] /\ writer.cursor \in Nat
        BY <1>0, <2>0, <2>6 DEF Items, IndexInv, WalkLink, WriterType
      <3>2. \A id \in stored : id \in Nat /\ ~(id > writer.cursor)
        BY <1>0, <3>1, StoreKnown DEF AheadOf, IndexInv
      <3> QED BY <3>1, <3>2 DEF Passed
    <2>7. GiftInv'
      <3>1. CASE i = "gift"
        <4>1. \A id \in stored : GiftWrapRecipients(id) \subseteq entries["gift"]
          BY <2>6, <3>1 DEF IndexInv, GiftInv
        <4> QED BY <1>0, <2>1, <4>1 DEF GiftInv, GiftWrapRecipients, Ev
      <3> QED BY <2>5, <3>1
    <2>8. DelegationInv'
      <3>1. CASE i = "delegation"
        <4>1. /\ \A k \in entries["delegation"] : k = <<k[1], k[2]>> /\ k[2] \in stored
              /\ \A id \in stored : {k \in entries["delegation"] : k[2] = id} = DelegationEntry(id)
          BY <2>6, <3>1 DEF IndexInv, DelegationInv
        <4>2. \A x : DelegationEntry(x)' = DelegationEntry(x)
          BY <1>0 DEF DelegationEntry, VanishedOrPending, Delegates, Ev
        <4> QED BY <1>0, <2>1, <4>1, <4>2 DEF DelegationInv
      <3> QED BY <2>5, <3>1
    <2> QED BY <2>5, <2>7, <2>8 DEF IndexInv
  <1> QED BY <1>1, <1>2

-----------------------------------------------------------------------------
(* The word index *)

\* Whatever the limit, an event is found by each of its words: a word left out leaves the overflow key.
LEMMA WordsCovered ==
  ASSUME NEW id, NEW limit, Ev(id).words \in Seq(STRING), NEW W, IndexEventWords(id, limit) \subseteq W
  PROVE  \A w \in ToSet(Ev(id).words) : <<w, id>> \in W \/ <<"overflow", id>> \in W
  <1> DEFINE words == Ev(id).words
             fits == {n \in 1..Len(words) : n <= limit /\ words[n] # "long"}
  <1>1. Len(words) \in Nat /\ ToSet(words) = {words[n] : n \in 1..Len(words)}
    BY LenProperties DEF ToSet
  <1> SUFFICES ASSUME NEW n \in 1..Len(words)
               PROVE  <<words[n], id>> \in W \/ <<"overflow", id>> \in W
    BY <1>1
  <1>3. CASE n \in fits
    <2>1. <<words[n], id>> \in IndexEventWords(id, limit)
      BY <1>3 DEF IndexEventWords
    <2> QED BY <2>1
  <1>4. CASE n \notin fits
    <2>1. IsFiniteSet(1..Len(words)) /\ Cardinality(1..Len(words)) = Len(words)
      <3>1. PICK m \in Nat : m = Len(words)
        BY <1>1
      <3>2. IsFiniteSet(1..m) /\ Cardinality(1..m) = m
        BY FS_Interval
      <3> QED BY <3>1, <3>2
    <2>2. fits \subseteq 1..Len(words) /\ fits # 1..Len(words)
      BY <1>4
    <2> HIDE DEF fits
    <2>3. Cardinality(fits) <= Len(words) /\ Cardinality(fits) # Len(words) /\ Cardinality(fits) \in Nat
      BY <2>1, <2>2, FS_Subset, FS_CardinalityType
    <2>4. Cardinality(fits) < Len(words)
      BY <1>1, <2>3
    <2>5. <<"overflow", id>> \in IndexEventWords(id, limit)
      BY <2>4 DEF IndexEventWords, fits
    <2> QED BY <2>5
  <1> QED BY <1>3, <1>4

\* So the events whose words were written are found.
LEMMA WordsFound ==
  ASSUME NEW id, NEW limit, Ev(id).words \in Seq(STRING), IndexEventWords(id, limit) \subseteq entries'["word"], UNCHANGED imenu
  PROVE  Found(id)'
  <1>1. PICK W : W = entries'["word"]
    OBVIOUS
  <1>2. \A w \in ToSet(Ev(id).words) : <<w, id>> \in W \/ <<"overflow", id>> \in W
    BY <1>1, WordsCovered
  <1> QED BY <1>1, <1>2 DEF Found, Finds, Ev

\* The same of the entries as they are, for what a step leaves alone.
LEMMA WordsFoundNow ==
  ASSUME NEW id, NEW limit, Ev(id).words \in Seq(STRING), IndexEventWords(id, limit) \subseteq entries["word"]
  PROVE  Found(id)
  <1>1. PICK W : W = entries["word"]
    OBVIOUS
  <1>2. \A w \in ToSet(Ev(id).words) : <<w, id>> \in W \/ <<"overflow", id>> \in W
    BY <1>1, WordsCovered
  <1> QED BY <1>1, <1>2 DEF Found, Finds

\* The keys of an event in the word index name it.
LEMMA WordPairs ==
  ASSUME NEW id, NEW limit
  PROVE  \A k \in IndexEventWords(id, limit) : k[2] = id
  BY DEF IndexEventWords

\* The word walk begins, or goes on where it stopped; the marker goes first.
LEMMA WordBeginKeeps ==
  ASSUME IndexInv, WordBegin
  PROVE  IndexInv'
  <1>0. writer.at = "word" /\ NeedsRebuild("word") /\ UNCHANGED <<stored, vanish, starts, written, imenu>> /\ "word" \in Rebuilt
    BY DEF WordBegin, Rebuilt
  <1>1. CASE Failed /\ UNCHANGED <<entries, imeta>>
    BY <1>0, <1>1, FailedKeeps
  <1>2. CASE ~(Failed /\ UNCHANGED <<entries, imeta>>)
    <2> DEFINE ph == ResumePhase[1]
               x == ResumePhase[2]
    <2>0. writer \in WriterType /\ imeta \in MetaType /\ Conf.words \in Nat /\ Conf.search
      BY <1>0, StoreKnown, Places DEF IndexInv, IndexTypeOK, WriterType, MetaType, NeedsRebuild
    <2>1. /\ imeta' = [imeta EXCEPT !.ready = @ \ {"word"}, !.phase = ph, !.state = Conf.words, !.cursor["word"] = x]
          /\ writer' = [writer EXCEPT !.walk = TRUE, !.cursor = x] /\ UNCHANGED entries
      BY <1>2 DEF WordBegin, Interrupted
    <2>2. /\ ph \in {"clear", "fill"} /\ x \in Nat
          /\ ph = "fill" => x = 0 \/ (imeta.phase = "fill" /\ x = imeta.cursor["word"])
      <3>1. imeta.phase \in {"clear", "fill", Nobody} /\ imeta.cursor["word"] \in Nat
        BY <1>0, <2>0 DEF MetaType
      <3>2. CASE imeta.phase = "fill" /\ imeta.state # Conf.words
        BY <3>2 DEF ResumePhase
      <3>3. CASE imeta.phase # Nobody /\ ~(imeta.phase = "fill" /\ imeta.state # Conf.words)
        <4>1. ResumePhase = <<imeta.phase, imeta.cursor["word"]>>
          BY <3>3 DEF ResumePhase
        <4> QED BY <3>1, <3>3, <4>1
      <3>4. CASE imeta.phase = Nobody
        <4>1. ResumePhase \in {<<"fill", 0>>, <<"clear", 0>>}
          BY <3>4, PhaseType DEF ResumePhase
        <4> QED BY <4>1
      <3> QED BY <3>1, <3>2, <3>3, <3>4
    <2> HIDE DEF ph, x
    <2>3. imeta' = [imeta EXCEPT !.ready = imeta.ready \ {"word"}, !.phase = ph, !.state = Conf.words,
                                 !.cursor = [imeta.cursor EXCEPT !["word"] = x]]
      BY <2>0, <2>1 DEF MetaType
    <2>4. MetaSet("word", x) /\ imeta'.phase = ph /\ "word" \notin imeta'.ready
      BY <1>0, <2>0, <2>2, <2>3 DEF MetaType, MetaSet
    <2>5. writer' \in WriterType /\ writer'.at = "word" /\ writer'.cursor = x
      BY <1>0, <2>0, <2>1, <2>2 DEF WriterType
    <2>6. IndexTypeOK' /\ WalkLink' /\ VanishedWrapsGone' /\ GiftInv' /\ DelegationInv'
      BY <1>0, <2>1, <2>4, <2>5, MetaParts
    <2>7. WordInv'
      <3>1. ASSUME ph = "fill", NEW id \in stored, id <= x PROVE Found(id)'
        <4>1. id \in Nat /\ id > 0
          BY StoreKnown DEF IndexInv
        <4>2. imeta.phase = "fill" /\ x = imeta.cursor["word"]
          BY <2>2, <3>1, <4>1
        <4>3. Found(id)
          BY <3>1, <4>2 DEF IndexInv, WordInv
        <4> QED BY <1>0, <2>1, <4>3, FoundKept
      <3>2. Conf' = Conf
        BY <1>0 DEF Conf
      <3>3. imeta'.cursor["word"] = x
        BY <2>4 DEF MetaSet
      <3> QED BY <1>0, <2>0, <2>4, <3>1, <3>2, <3>3 DEF WordInv
    <2> QED BY <2>6, <2>7 DEF IndexInv
  <1> QED BY <1>1, <1>2

\* A search index is on while a word walk is under way.
LEMMA WalkingSearch ==
  ASSUME IndexInv, NEW phase \in {"clear", "fill"}, Walking(phase)
  PROVE  /\ Conf.search /\ "word" \notin imeta.ready /\ imeta.phase = phase /\ writer.at = "word" /\ "word" \in Rebuilt
         /\ writer.cursor = imeta.cursor["word"]
  <1>1. writer.at = "word" /\ writer.walk /\ imeta.phase = phase /\ "word" \in Rebuilt /\ phase # Nobody
    BY PhaseType DEF Walking, Rebuilt
  <1> QED BY <1>1 DEF IndexInv, WordInv, WalkLink

\* The index is cleared, chunk by chunk.
LEMMA WordClearKeeps ==
  ASSUME IndexInv, WordClear
  PROVE  IndexInv'
  <1>0. /\ Conf.search /\ "word" \notin imeta.ready /\ imeta.phase = "clear" /\ writer.at = "word" /\ "word" \in Rebuilt
        /\ UNCHANGED <<stored, vanish, starts, written, imenu>>
    BY WalkingSearch DEF WordClear
  <1>1. CASE Failed /\ UNCHANGED <<entries, imeta>>
    BY <1>0, <1>1, FailedKeeps
  <1>2. CASE ~(Failed /\ UNCHANGED <<entries, imeta>>)
    <2> DEFINE items == {k[2] : k \in entries["word"]}
               chunk == NextChunk(items, writer.cursor)
               x == IF chunk = {} THEN 0 ELSE Max(chunk)
               X == Without("word", chunk)
    <2>0. writer \in WriterType /\ imeta \in MetaType /\ entries = [j \in Rebuilt |-> entries[j]]
      BY DEF IndexInv, IndexTypeOK, WriterType, MetaType
    <2>1. /\ entries' = [entries EXCEPT !["word"] = X]
          /\ \/ chunk = {} /\ imeta' = [imeta EXCEPT !.phase = "fill", !.cursor["word"] = 0]
             \/ chunk # {} /\ imeta' = [imeta EXCEPT !.cursor["word"] = x]
          /\ writer' = [writer EXCEPT !.cursor = x]
      BY <1>2 DEF WordClear, Interrupted
    <2>2. x \in Nat
      <3>1. items \subseteq DOMAIN imenu.ev
        <4>1. \A k \in entries["word"] : k[2] \in DOMAIN imenu.ev
          BY DEF IndexInv, IndexTypeOK
        <4> QED BY <4>1
      <3> HIDE DEF items
      <3>2. chunk # {} => Max(chunk) \in Nat
        BY <3>1, NextChunkIs
      <3> QED BY <3>2
    <2>3. \A k \in X : k[2] \in DOMAIN imenu.ev
      BY DEF IndexInv, IndexTypeOK, Without
    <2>4. X \subseteq entries["word"] /\ (chunk = {} => x = 0)
      BY DEF Without
    <2> HIDE DEF X, x, chunk
    <2>5. /\ imeta' \in MetaType /\ imeta'.cursor["word"] = x /\ imeta'.ready = imeta.ready
          /\ imeta'.phase \in {"clear", "fill"} /\ (imeta'.phase = "fill" => x = 0)
          /\ \A j \in Rebuilt \ {"word"} : imeta'.cursor[j] = imeta.cursor[j]
      <3>1. CASE chunk = {}
        <4>1. imeta' = [imeta EXCEPT !.phase = "fill", !.cursor = [imeta.cursor EXCEPT !["word"] = 0]]
          BY <2>0, <2>1, <3>1 DEF MetaType
        <4> QED BY <1>0, <2>0, <2>4, <3>1, <4>1 DEF MetaType
      <3>2. CASE chunk # {}
        <4>1. imeta' = [imeta EXCEPT !.cursor = [imeta.cursor EXCEPT !["word"] = x]]
          BY <2>0, <2>1, <3>2 DEF MetaType
        <4> QED BY <1>0, <2>0, <2>2, <4>1 DEF MetaType
      <3> QED BY <3>1, <3>2
    <2>6. Committed("word", x, X)
      <3>1. /\ writer' \in WriterType /\ writer'.at = "word" /\ writer'.cursor = x
        BY <1>0, <2>0, <2>1, <2>2 DEF WriterType
      <3>2. /\ entries' = [j \in Rebuilt |-> entries'[j]] /\ entries'["word"] = X
            /\ \A j \in Rebuilt \ {"word"} : entries'[j] = entries[j]
        BY <1>0, <2>0, <2>1
      <3> QED BY <2>5, <3>1, <3>2 DEF Committed
    <2>7. IndexTypeOK' /\ WalkLink' /\ VanishedWrapsGone'
      BY <1>0, <2>3, <2>6, CommitParts
    <2>8. GiftInv' /\ DelegationInv'
      <3>1. "gift" \in Rebuilt \ {"word"} /\ "delegation" \in Rebuilt \ {"word"}
        BY DEF Rebuilt
      <3>2. entries'["delegation"] = {k \in entries["delegation"] : k[2] \in stored'}
        BY <1>0, <2>6, <3>1 DEF IndexInv, DelegationInv, Committed
      <3>3. DelegationInv'
        BY <1>0, <2>5, <3>1, <3>2, DelegationFrame DEF IndexInv
      <3>4. GiftInv'
        BY <1>0, <2>5, <2>6, <3>1, GiftFrame DEF IndexInv, Committed
      <3> QED BY <3>3, <3>4
    <2>9. WordInv'
      <3>1. \A id \in stored : ~(id <= 0)
        BY StoreKnown DEF IndexInv
      <3>2. Conf' = Conf
        BY <1>0 DEF Conf
      <3> QED BY <1>0, <2>5, <3>1, <3>2 DEF WordInv
    <2> QED BY <2>7, <2>8, <2>9 DEF IndexInv
  <1> QED BY <1>1, <1>2

\* The words of a chunk of stored events are added.
LEMMA WordFillKeeps ==
  ASSUME IndexInv, WordFill
  PROVE  IndexInv'
  <1>0. /\ Conf.search /\ "word" \notin imeta.ready /\ imeta.phase = "fill" /\ writer.at = "word" /\ "word" \in Rebuilt
        /\ writer.cursor = imeta.cursor["word"] /\ AheadOf(stored, writer.cursor) # {}
        /\ UNCHANGED <<stored, vanish, starts, written, imenu>>
    BY WalkingSearch DEF WordFill
  <1>1. CASE Failed /\ UNCHANGED <<entries, imeta>>
    BY <1>0, <1>1, FailedKeeps
  <1>2. CASE ~(Failed /\ UNCHANGED <<entries, imeta>>)
    <2>1. PICK chunk, x, X : /\ chunk = NextChunk(stored, writer.cursor) /\ x = Max(chunk)
                             /\ X = entries["word"] \union UNION {IndexEventWords(id, Conf.words) : id \in chunk}
      OBVIOUS
    <2>2. /\ entries' = [entries EXCEPT !["word"] = X] /\ imeta' = [imeta EXCEPT !.cursor["word"] = x]
          /\ writer' = [writer EXCEPT !.cursor = x]
      BY <1>2, <2>1 DEF WordFill, Interrupted
    <2>3. stored \subseteq DOMAIN imenu.ev
      BY DEF IndexInv, IndexTypeOK
    <2>4. /\ chunk \subseteq stored /\ x \in Nat
          /\ \A k \in stored : k <= x => k <= imeta.cursor["word"] \/ k \in chunk
      BY <1>0, <2>1, <2>3, NextChunkIs
    <2>5. Committed("word", x, X) /\ imeta'.ready = imeta.ready /\ imeta'.phase = imeta.phase
      BY <1>0, <2>2, <2>4, CommitIs
    <2>6. \A k \in X : k[2] \in DOMAIN imenu.ev
      <3>1. \A k \in entries["word"] : k[2] \in DOMAIN imenu.ev
        BY DEF IndexInv, IndexTypeOK
      <3>2. \A id \in chunk : \A k \in IndexEventWords(id, Conf.words) : k[2] = id /\ id \in DOMAIN imenu.ev
        BY <2>3, <2>4, WordPairs
      <3> QED BY <2>1, <3>1, <3>2
    <2>7. IndexTypeOK' /\ WalkLink' /\ VanishedWrapsGone'
      BY <1>0, <2>5, <2>6, CommitParts
    <2>8. GiftInv' /\ DelegationInv'
      <3>1. "gift" \in Rebuilt \ {"word"} /\ "delegation" \in Rebuilt \ {"word"}
        BY DEF Rebuilt
      <3>2. entries'["delegation"] = {k \in entries["delegation"] : k[2] \in stored'}
        BY <1>0, <2>5, <3>1 DEF IndexInv, DelegationInv, Committed
      <3>3. DelegationInv'
        BY <1>0, <2>5, <3>1, <3>2, DelegationFrame DEF IndexInv, Committed
      <3>4. GiftInv'
        BY <1>0, <2>5, <3>1, GiftFrame DEF IndexInv, Committed
      <3> QED BY <3>3, <3>4
    <2>9. WordInv'
      <3>1. ASSUME NEW id \in stored, id <= x PROVE Found(id)'
        <4>1. CASE id \in chunk
          <5>1. IndexEventWords(id, Conf.words) \subseteq entries'["word"]
            BY <2>1, <2>5, <4>1 DEF Committed
          <5>2. Ev(id).words \in Seq(STRING)
            BY <2>3, StoreKnown DEF IndexInv
          <5> QED BY <1>0, <5>1, <5>2, WordsFound
        <4>2. CASE id <= imeta.cursor["word"]
          <5>1. Found(id)
            BY <1>0, <4>2 DEF IndexInv, WordInv
          <5>2. entries["word"] \subseteq entries'["word"]
            BY <2>1, <2>5 DEF Committed
          <5> QED BY <1>0, <5>1, <5>2, FoundKept
        <4> QED BY <2>4, <3>1, <4>1, <4>2
      <3>2. Conf' = Conf
        BY <1>0 DEF Conf
      <3>3. imeta'.cursor["word"] = x
        BY <2>5 DEF Committed
      <3> QED BY <1>0, <2>5, <3>1, <3>2, <3>3 DEF WordInv
    <2> QED BY <2>7, <2>8, <2>9 DEF IndexInv
  <1> QED BY <1>1, <1>2

\* The marker of the word index: nothing was ahead of the walk.
LEMMA WordReadyKeeps ==
  ASSUME IndexInv, WordReady
  PROVE  IndexInv'
  <1>0. /\ Conf.search /\ "word" \notin imeta.ready /\ imeta.phase = "fill" /\ writer.at = "word" /\ "word" \in Rebuilt
        /\ writer.cursor = imeta.cursor["word"] /\ AheadOf(stored, writer.cursor) = {}
        /\ UNCHANGED <<stored, vanish, starts, written, imenu>>
    BY WalkingSearch DEF WordReady
  <1>1. CASE Failed /\ UNCHANGED <<entries, imeta>>
    BY <1>0, <1>1, FailedKeeps
  <1>2. CASE ~(Failed /\ UNCHANGED <<entries, imeta>>)
    <2>0. writer \in WriterType /\ imeta \in MetaType /\ Conf.words \in Nat
      BY <1>0, StoreKnown, Places DEF IndexInv, IndexTypeOK, WriterType, MetaType
    <2>1. /\ imeta' = [imeta EXCEPT !.ready = @ \union {"word"}, !.words = Conf.words, !.phase = Nobody, !.cursor["word"] = 0]
          /\ writer' = [[writer EXCEPT !.at = "schema", !.walk = FALSE] EXCEPT !.words = Conf.words] /\ UNCHANGED entries
      BY <1>2 DEF WordReady, Interrupted, Goto
    <2>2. imeta' = [imeta EXCEPT !.ready = imeta.ready \union {"word"}, !.words = Conf.words, !.phase = Nobody,
                                 !.cursor = [imeta.cursor EXCEPT !["word"] = 0]]
      BY <2>0, <2>1 DEF MetaType
    <2>3. MetaSet("word", 0) /\ imeta'.phase = Nobody
      BY <1>0, <2>0, <2>2 DEF MetaType, MetaSet
    <2>4. writer' \in WriterType /\ ~writer'.walk
      BY <2>0, <2>1, Places DEF WriterType
    <2>5. IndexTypeOK' /\ WalkLink' /\ VanishedWrapsGone' /\ GiftInv' /\ DelegationInv'
      BY <1>0, <2>1, <2>3, <2>4, MetaParts
    <2>6. WordInv'
      <3>1. \A id \in stored : id \in Nat /\ writer.cursor \in Nat /\ ~(id > writer.cursor)
        BY <1>0, <2>0, StoreKnown DEF AheadOf, IndexInv, WriterType
      <3>2. \A id \in stored : Found(id)
        BY <1>0, <3>1 DEF IndexInv, WordInv
      <3>3. \A id \in stored : Found(id)'
        BY <1>0, <2>1, <3>2, FoundKept
      <3>4. Conf' = Conf
        BY <1>0 DEF Conf
      <3> QED BY <1>0, <2>3, <3>3, <3>4, PhaseType DEF WordInv
    <2> QED BY <2>5, <2>6 DEF IndexInv
  <1> QED BY <1>1, <1>2

-----------------------------------------------------------------------------
(* The vanishes and the writes *)

\* A vanish of an earlier run goes on, or its walk fails.
LEMMA ResumeVanishKeeps ==
  ASSUME IndexInv, ResumeVanish
  PROVE  IndexInv'
  <1>0. writer \in WriterType /\ imeta \in MetaType /\ writer.at = "vanish" /\ UNCHANGED <<starts, written, imenu>>
    BY DEF IndexInv, IndexTypeOK, WriterType, MetaType, ResumeVanish
  <1>1. CASE UNCHANGED <<stored, entries, imeta, vanish>> /\ ~(UNCHANGED writer)
    <2>1. PICK e : e = (writer.errors \/ (vanish.pending # {} /\ ~writer.cancel))
      OBVIOUS
    <2>2. e \in BOOLEAN
      BY <2>1, Zenon
    <2>3. writer' = [[writer EXCEPT !.at = "meta", !.walk = FALSE] EXCEPT !.errors = e]
      BY <1>0, <1>1, <2>1 DEF ResumeVanish, Goto, WriterType
    <2>4. writer' \in WriterType /\ writer'.walk = FALSE
      BY <1>0, <2>2, <2>3, Places DEF WriterType
    <2>5. WalkLink'
      BY <2>4 DEF WalkLink
    <2> QED BY <1>0, <1>1, <2>4, <2>5, ThreadStep
  <1>2. ASSUME NEW p \in vanish.pending, NEW removed, removed = {id \in stored : Ev(id).author = p \/ <<p, id>> \in GiftIndex},
               stored' = stored \ removed,
               entries' = [i \in Rebuilt |-> IF i = "gift" THEN {k \in GiftIndex : k[2] \notin removed}
                                             ELSE IF i = "word" /\ ~Conf.search THEN entries[i]
                                             ELSE {k \in Without(i, removed) : i # "delegation" \/ k[1] # p}],
               imeta' = [imeta EXCEPT !.ready = @ \union {"gift"}, !.cursor["gift"] = 0],
               vanish' = [pending |-> vanish.pending \ {p}, done |-> vanish.done \union {p}], UNCHANGED writer
        PROVE  IndexInv'
    <2>1. imeta' = [imeta EXCEPT !.ready = imeta.ready \union {"gift"}, !.cursor = [imeta.cursor EXCEPT !["gift"] = 0]]
      BY <1>0, <1>2 DEF MetaType
    <2>2. /\ imeta' \in MetaType /\ imeta'.phase = imeta.phase /\ "gift" \in imeta'.ready
          /\ \A j \in Rebuilt \ {"gift"} : (j \in imeta'.ready <=> j \in imeta.ready) /\ imeta'.cursor[j] = imeta.cursor[j]
      <3>1. "gift" \in Rebuilt
        BY DEF Rebuilt
      <3> QED BY <1>0, <2>1, <3>1 DEF MetaType
    <2>3. /\ entries'["gift"] = {k \in GiftIndex : k[2] \notin removed}
          /\ entries'["delegation"] = {k \in entries["delegation"] : k[2] \notin removed /\ k[1] # p}
          /\ \A k \in entries["word"] : k[2] \notin removed => k \in entries'["word"]
          /\ entries'["word"] \subseteq entries["word"]
          /\ entries' = [j \in Rebuilt |-> entries'[j]]
      <3>1. {"gift", "delegation", "word"} \subseteq Rebuilt
        BY DEF Rebuilt
      <3>2. /\ entries'["gift"] = {k \in GiftIndex : k[2] \notin removed}
            /\ entries'["delegation"] = {k \in entries["delegation"] : k[2] \notin removed /\ k[1] # p}
        BY <1>2, <3>1 DEF Without
      <3>3. /\ \A k \in entries["word"] : k[2] \notin removed => k \in entries'["word"]
            /\ entries'["word"] \subseteq entries["word"]
        BY <1>2, <3>1 DEF Without
      <3>4. entries' = [j \in Rebuilt |-> entries'[j]]
        BY <1>2
      <3> QED BY <3>2, <3>3, <3>4
    <2>4. stored' \subseteq stored /\ \A id \in stored' : id \in stored /\ id \notin removed
      BY <1>2
    <2>5. IndexTypeOK' /\ WalkLink'
      BY <1>0, <1>2, <2>2, <2>3, <2>4, Places DEF IndexInv, IndexTypeOK, WriterType, MetaType, WalkLink
    <2>6. WordInv'
      <3>1. "word" \in Rebuilt \ {"gift"}
        BY DEF Rebuilt
      <3> QED BY <1>0, <1>2, <2>2, <2>3, <2>4, <3>1, WordFrame DEF IndexInv
    <2>7. \A id \in stored : GiftWrapRecipients(id) \subseteq GiftIndex
      <3> SUFFICES ASSUME NEW id \in stored PROVE GiftWrapRecipients(id) \subseteq GiftIndex
        OBVIOUS
      <3>1. CASE Passed("gift", id)
        BY <3>1 DEF IndexInv, GiftInv, GiftIndex
      <3>2. CASE ~Passed("gift", id)
        <4>1. id \in Nat /\ imeta.cursor["gift"] \in Nat
          BY <1>0, StoreKnown DEF IndexInv, MetaType, Rebuilt
        <4>2. id \in AheadOf(stored, imeta.cursor["gift"]) /\ "gift" \notin imeta.ready
          BY <3>2, <4>1 DEF Passed, AheadOf
        <4> QED BY <4>2 DEF GiftIndex
      <3> QED BY <3>1, <3>2
    <2>8. GiftInv'
      <3>1. ASSUME NEW id \in stored' PROVE GiftWrapRecipients(id) \subseteq entries'["gift"]
        <4>1. \A k \in GiftWrapRecipients(id) : k[2] = id
          BY DEF GiftWrapRecipients
        <4> QED BY <2>3, <2>4, <2>7, <4>1
      <3> QED BY <1>0, <3>1 DEF GiftInv, GiftWrapRecipients, Ev
    <2>9. VanishedWrapsGone'
      <3> SUFFICES ASSUME NEW q \in vanish.done \cup {p}, NEW id \in stored' PROVE q \notin Ev(id).to /\ q # Ev(id).author
        BY <1>0, <1>2 DEF VanishedWrapsGone, Ev
      <3>1. CASE q \in vanish.done
        BY <2>4, <3>1 DEF IndexInv, VanishedWrapsGone
      <3>2. CASE q = p
        <4>1. Ev(id).author # p /\ <<p, id>> \notin GiftIndex
          BY <1>2, <2>4
        <4>2. p \in Ev(id).to => <<p, id>> \in GiftWrapRecipients(id)
          BY DEF GiftWrapRecipients
        <4> QED BY <2>4, <2>7, <3>2, <4>1, <4>2
      <3> QED BY <3>1, <3>2
    <2>10. DelegationInv'
      <3>1. vanish'.pending \cup vanish'.done = vanish.pending \cup vanish.done
        BY <1>2
      <3>2. \A x : DelegationEntry(x)' = DelegationEntry(x)
        BY <1>0, <3>1 DEF DelegationEntry, VanishedOrPending, Delegates, Ev
      <3>3. \A k \in entries'["delegation"] : k = <<k[1], k[2]>> /\ k[2] \in stored'
        BY <1>2, <2>3 DEF IndexInv, DelegationInv
      <3>4. ASSUME NEW id \in stored', Passed("delegation", id)'
            PROVE  {k \in entries'["delegation"] : k[2] = id} = DelegationEntry(id)
        <4>1. "delegation" \in Rebuilt \ {"gift"}
          BY DEF Rebuilt
        <4>2. {k \in entries["delegation"] : k[2] = id} = DelegationEntry(id)
          BY <2>2, <2>4, <3>4, <4>1 DEF IndexInv, DelegationInv, Passed
        <4>3. \A k \in DelegationEntry(id) : k[1] # p
          BY <1>2, DelegationPairs DEF VanishedOrPending
        <4> QED BY <2>3, <2>4, <4>2, <4>3
      <3> QED BY <3>2, <3>3, <3>4 DEF DelegationInv
    <2> QED BY <2>5, <2>6, <2>8, <2>9, <2>10 DEF IndexInv
  <1>3. CASE UNCHANGED <<stored, entries, imeta, vanish>> /\ UNCHANGED writer
    <2>1. WalkLink'
      BY <1>3 DEF IndexInv, WalkLink
    <2> QED BY <1>0, <1>3, <2>1, ThreadStep
  <1>4. ASSUME NEW p \in vanish.pending, FinishVanish(p), UNCHANGED writer
        PROVE  IndexInv'
    <2>1. PICK removed : removed = {id \in stored : Ev(id).author = p \/ <<p, id>> \in GiftIndex}
      OBVIOUS
    <2> QED BY <1>2, <1>4, <2>1 DEF FinishVanish
  <1> QED BY <1>1, <1>3, <1>4 DEF ResumeVanish

\* An event is stored with its entries, or stored events are removed with theirs.
LEMMA WriteKeeps ==
  ASSUME IndexInv, Write
  PROVE  IndexInv'
  <1>0. /\ writer \in WriterType /\ imeta \in MetaType /\ writer.at = "serve" /\ imenu \in IndexMenus /\ written \in Nat
        /\ UNCHANGED <<imeta, vanish, writer, starts, imenu>> /\ written' = written + 1 /\ written < Len(imenu.writes)
        /\ {"gift", "delegation", "word"} \subseteq Rebuilt
    BY DEF IndexInv, IndexTypeOK, WriterType, MetaType, Write, Rebuilt
  <1>1. PICK w : w = imenu.writes[written + 1]
    OBVIOUS
  <1>2. w.id \in DOMAIN imenu.ev
    <2>1. Len(imenu.writes) \in Nat /\ \A n \in 1..Len(imenu.writes) : imenu.writes[n].id \in DOMAIN imenu.ev
      BY <1>0, IndexMenuType
    <2>2. written + 1 \in 1..Len(imenu.writes)
      BY <1>0, <2>1
    <2> QED BY <1>1, <2>1, <2>2
  <1>3. ASSUME stored' \subseteq DOMAIN imenu.ev, entries' = [j \in Rebuilt |-> entries'[j]],
               \A k \in entries'["word"] : k[2] \in DOMAIN imenu.ev
        PROVE  IndexTypeOK' /\ WalkLink'
    BY <1>0, <1>3 DEF IndexInv, IndexTypeOK, WalkLink
  <1>4. Conf' = Conf /\ \A x : DelegationEntry(x)' = DelegationEntry(x) /\ GiftWrapRecipients(x)' = GiftWrapRecipients(x)
    BY <1>0 DEF DelegationEntry, VanishedOrPending, Delegates, GiftWrapRecipients, Ev, Conf
  <1>5. ASSUME w.put, \A p \in {Ev(w.id).author, Ev(w.id).delegator} \union Ev(w.id).to : ~VanishedOrPending(p),
               stored' = stored \union {w.id}, entries' = PutIndexes(w.id)
        PROVE  IndexInv'
    <2>1. /\ entries' = [j \in Rebuilt |-> entries'[j]]
          /\ entries'["gift"] = entries["gift"] \cup GiftWrapRecipients(w.id)
          /\ entries'["delegation"] = entries["delegation"] \cup DelegationEntry(w.id)
          /\ entries'["word"] = entries["word"] \cup (IF Conf.search THEN IndexEventWords(w.id, writer.words) ELSE {})
      <3>1. \A j \in Rebuilt : entries'[j] = entries[j] \cup EntriesOf(j, w.id, writer.words)
        BY <1>5 DEF PutIndexes
      <3>2. entries' = [j \in Rebuilt |-> entries'[j]]
        BY <1>5 DEF PutIndexes
      <3> QED BY <1>0, <3>1, <3>2 DEF EntriesOf
    <2>2. IndexTypeOK' /\ WalkLink'
      <3>1. stored' \subseteq DOMAIN imenu.ev
        BY <1>2, <1>5 DEF IndexInv, IndexTypeOK
      <3>2. \A k \in entries["word"] : k[2] \in DOMAIN imenu.ev
        BY DEF IndexInv, IndexTypeOK
      <3>3. \A k \in IndexEventWords(w.id, writer.words) : k[2] \in DOMAIN imenu.ev
        BY <1>2, WordPairs
      <3>4. \A k \in entries'["word"] : k[2] \in DOMAIN imenu.ev
        BY <2>1, <3>2, <3>3
      <3> QED BY <1>3, <2>1, <3>1, <3>4
    <2>3. VanishedWrapsGone'
      <3>1. \A p \in vanish.done : p \notin Ev(w.id).to /\ p # Ev(w.id).author
        BY <1>5 DEF VanishedOrPending
      <3> QED BY <1>0, <1>5, <3>1 DEF IndexInv, VanishedWrapsGone, Ev
    <2>4. GiftInv'
      BY <1>0, <1>4, <1>5, <2>1 DEF IndexInv, GiftInv, Passed
    <2>5. WordInv'
      <3>1. CASE Conf.search
        <4>1. Found(w.id)'
          <5>1. Ev(w.id).words \in Seq(STRING)
            BY <1>2, StoreKnown DEF IndexInv
          <5>2. IndexEventWords(w.id, writer.words) \subseteq entries'["word"]
            BY <2>1, <3>1
          <5> QED BY <1>0, <5>1, <5>2, WordsFound
        <4>2. \A id : Found(id) => Found(id)'
          BY <1>0, <2>1, FoundKept
        <4> QED BY <1>0, <1>4, <1>5, <3>1, <4>1, <4>2 DEF IndexInv, WordInv
      <3>2. CASE ~Conf.search
        <4>1. "word" \notin imeta.ready /\ imeta.phase = Nobody
          BY <1>0, <3>2 DEF IndexInv, WordInv
        <4> QED BY <1>0, <4>1, PhaseType DEF WordInv
      <3> QED BY <3>1, <3>2
    <2>6. DelegationInv'
      <3>1. \A k \in DelegationEntry(w.id) : k = <<k[1], k[2]>> /\ k[2] = w.id
        BY DelegationPairs
      <3>2. \A k \in entries'["delegation"] : k = <<k[1], k[2]>> /\ k[2] \in stored'
        BY <1>5, <2>1, <3>1 DEF IndexInv, DelegationInv
      <3>3. ASSUME NEW id \in stored', Passed("delegation", id)'
            PROVE  {k \in entries'["delegation"] : k[2] = id} = DelegationEntry(id)
        <4>1. Passed("delegation", id)
          BY <1>0, <3>3 DEF Passed
        <4>2. CASE id # w.id
          <5>1. {k \in entries["delegation"] : k[2] = id} = DelegationEntry(id)
            BY <1>5, <4>1, <4>2 DEF IndexInv, DelegationInv
          <5> QED BY <2>1, <3>1, <4>2, <5>1
        <4>3. CASE id = w.id /\ id \in stored
          <5>1. {k \in entries["delegation"] : k[2] = id} = DelegationEntry(id)
            BY <4>1, <4>3 DEF IndexInv, DelegationInv
          <5> QED BY <2>1, <3>1, <4>3, <5>1
        <4>4. CASE id = w.id /\ id \notin stored
          <5>1. \A k \in entries["delegation"] : k[2] # id
            BY <4>4 DEF IndexInv, DelegationInv
          <5> QED BY <2>1, <3>1, <4>4, <5>1
        <4> QED BY <4>2, <4>3, <4>4
      <3> QED BY <1>4, <3>2, <3>3 DEF DelegationInv
    <2> QED BY <2>2, <2>3, <2>4, <2>5, <2>6 DEF IndexInv
  <1>6. ASSUME NEW ids, ids \subseteq stored, stored' = stored \ ids,
               entries' = [i \in Rebuilt |-> IF i = "word" /\ ~Conf.search THEN entries[i] ELSE Without(i, ids)]
        PROVE  IndexInv'
    <2>1. /\ entries' = [j \in Rebuilt |-> entries'[j]]
          /\ \A i \in {"gift", "delegation"} : entries'[i] = {k \in entries[i] : k[2] \notin ids}
          /\ entries'["word"] \subseteq entries["word"] /\ \A k \in entries["word"] : k[2] \notin ids => k \in entries'["word"]
      BY <1>0, <1>6 DEF Without
    <2>2. stored' \subseteq stored /\ \A id \in stored' : id \notin ids
      BY <1>6
    <2>3. IndexTypeOK' /\ WalkLink'
      BY <1>3, <2>1, <2>2 DEF IndexInv, IndexTypeOK
    <2>4. GiftInv' /\ VanishedWrapsGone'
      BY <1>0, <2>1, <2>2, GiftFrame, VanishedFrame DEF IndexInv
    <2>5. WordInv'
      BY <1>0, <2>1, <2>2, WordFrame DEF IndexInv
    <2>6. DelegationInv'
      <3>1. entries'["delegation"] = {k \in entries["delegation"] : k[2] \in stored'}
        BY <1>6, <2>1 DEF IndexInv, DelegationInv
      <3> QED BY <1>0, <2>2, <3>1, DelegationFrame DEF IndexInv
    <2> QED BY <2>3, <2>4, <2>5, <2>6 DEF IndexInv
  <1>7. CASE UNCHANGED <<stored, entries>>
    <2>1. IndexTypeOK' /\ WalkLink'
      BY <1>3, <1>7 DEF IndexInv, IndexTypeOK
    <2> QED BY <1>0, <1>7, <2>1, QuietKeeps
  <1>8. \/ /\ w.put /\ \A p \in {Ev(w.id).author, Ev(w.id).delegator} \union Ev(w.id).to : ~VanishedOrPending(p)
           /\ stored' = stored \union {w.id} /\ entries' = PutIndexes(w.id)
        \/ UNCHANGED <<stored, entries>>
        \/ RemoveEvents({w.id} \intersect stored)
    BY <1>1 DEF Write
  <1>9. CASE RemoveEvents({w.id} \intersect stored)
    <2>1. PICK ids : ids = {w.id} \intersect stored
      OBVIOUS
    <2> QED BY <1>6, <1>9, <2>1 DEF RemoveEvents
  <1> QED BY <1>5, <1>7, <1>8, <1>9

-----------------------------------------------------------------------------
(* The theorem *)

\* A database of an older build, or one that was brought up to date.
LEMMA IndexInitInv == IndexInit => IndexInv
  <1> SUFFICES ASSUME IndexInit PROVE IndexInv
    OBVIOUS
  <1>0. /\ imenu \in IndexMenus /\ stored = imenu.old /\ vanish = [pending |-> imenu.vanishing, done |-> {}] /\ written = 0
        /\ starts = IF imenu.built THEN 1 ELSE 0
        /\ entries = [i \in Rebuilt |-> IF imenu.built THEN UNION {EntriesOf(i, id, Conf.words) : id \in imenu.old}
                                        ELSE IF i = "delegation"
                                             THEN {<<Ev(id).delegator, id>> : id \in {x \in imenu.old : Delegates(x)}} ELSE {}]
        /\ {"gift", "delegation", "word"} \subseteq Rebuilt
    BY DEF IndexInit, Rebuilt
  <1>1. /\ stored \subseteq DOMAIN imenu.ev /\ DOMAIN imenu.ev \subseteq Nat \ {0} /\ imenu.built \in BOOLEAN
        /\ \A id \in DOMAIN imenu.ev : Ev(id).words \in Seq(STRING)
        /\ Len(imenu.confs) \in Nat
        /\ \A n \in 1..Len(imenu.confs) : imenu.confs[n] \in [search : BOOLEAN, words : Nat, meta : BOOLEAN]
        /\ imenu.built => Len(imenu.confs) > 0 /\ imenu.confs[1].search
    BY <1>0, IndexMenuType DEF Ev
  <1>2. /\ starts \in 0..Len(imenu.confs) /\ (imenu.built => starts # 0 /\ Conf.search /\ Conf.words \in Nat)
    BY <1>0, <1>1 DEF Conf
  <1>3. /\ imeta \in MetaType /\ imeta.phase = Nobody /\ \A i \in Rebuilt : imeta.cursor[i] = 0
        /\ ~imenu.built => imeta.ready = {}
    BY <1>1, <1>2 DEF IndexInit, MetaType
  <1>4. writer \in WriterType /\ ~writer.walk /\ (~imenu.built => writer.at = "down")
    <2>1. imeta.words \in Nat
      BY <1>3 DEF MetaType
    <2>2. (IF imenu.built THEN "serve" ELSE "down") \in Place
      BY Places
    <2> QED BY <2>1, <2>2 DEF IndexInit, WriterType
  <1>5. ASSUME imenu.built
        PROVE  /\ entries["word"] = UNION {IndexEventWords(id, Conf.words) : id \in stored}
               /\ entries["gift"] = UNION {GiftWrapRecipients(id) : id \in stored}
               /\ entries["delegation"] = UNION {DelegationEntry(id) : id \in stored}
    BY <1>0, <1>2, <1>5 DEF EntriesOf
  <1>6. ASSUME ~imenu.built
        PROVE  /\ entries["word"] = {} /\ entries["gift"] = {}
               /\ entries["delegation"] = {<<Ev(id).delegator, id>> : id \in {x \in stored : Delegates(x)}}
    BY <1>0, <1>6
  <1>7. IndexTypeOK
    <2>1. \A k \in entries["word"] : k[2] \in DOMAIN imenu.ev
      <3>1. CASE imenu.built
        <4>1. \A id \in stored : \A k \in IndexEventWords(id, Conf.words) : k[2] = id
          BY WordPairs
        <4> QED BY <1>1, <1>5, <3>1, <4>1
      <3>2. CASE ~imenu.built
        BY <1>6, <3>2
      <3> QED BY <3>1, <3>2
    <2>2. entries = [i \in Rebuilt |-> entries[i]]
      BY <1>0
    <2> QED BY <1>0, <1>1, <1>2, <1>3, <1>4, <2>1, <2>2 DEF IndexTypeOK, MetaType, WriterType
  <1>8. WalkLink /\ VanishedWrapsGone
    BY <1>0, <1>4 DEF WalkLink, VanishedWrapsGone
  <1>9. WordInv
    <2>1. imeta.phase # "fill"
      BY <1>3, PhaseType
    <2>2. CASE imenu.built
      <3>1. ASSUME NEW id \in stored PROVE Found(id)
        <4>1. IndexEventWords(id, Conf.words) \subseteq entries["word"]
          BY <1>5, <2>2
        <4> QED BY <1>1, <4>1, WordsFoundNow
      <3> QED BY <1>2, <1>3, <2>1, <2>2, <3>1 DEF WordInv
    <2>3. CASE ~imenu.built
      BY <1>3, <1>4, <2>1, <2>3 DEF WordInv
    <2> QED BY <2>2, <2>3
  <1>10. GiftInv
    <2>1. CASE imenu.built
      BY <1>5, <2>1 DEF GiftInv
    <2>2. CASE ~imenu.built
      <3>1. \A id \in stored : ~Passed("gift", id)
        BY <1>0, <1>1, <1>3, <2>2 DEF Passed
      <3> QED BY <3>1 DEF GiftInv
    <2> QED BY <2>1, <2>2
  <1>11. DelegationInv
    <2>1. CASE imenu.built
      <3>1. \A id \in stored : \A k \in DelegationEntry(id) : k = <<k[1], k[2]>> /\ k[2] = id
        BY DelegationPairs
      <3> QED BY <1>5, <2>1, <3>1 DEF DelegationInv
    <2>2. CASE ~imenu.built
      <3>1. \A id \in stored : ~Passed("delegation", id)
        BY <1>0, <1>1, <1>3, <2>2 DEF Passed
      <3>2. \A k \in entries["delegation"] : k = <<k[1], k[2]>> /\ k[2] \in stored
        BY <1>6, <2>2
      <3> QED BY <3>1, <3>2 DEF DelegationInv
    <2> QED BY <2>1, <2>2
  <1> QED BY <1>7, <1>8, <1>9, <1>10, <1>11 DEF IndexInv

\* What the invariant says of an index whose marker is set.
LEMMA IndexInvSays == IndexInv => IndexesWhole
  <1> SUFFICES ASSUME IndexInv PROVE IndexesWhole
    OBVIOUS
  <1>1. "word" \in imeta.ready => \A id \in stored : \A w \in ToSet(Ev(id).words) : Finds(w, id)
    BY DEF IndexInv, WordInv, Found
  <1>2. "gift" \in imeta.ready => \A id \in stored : GiftWrapRecipients(id) \subseteq entries["gift"]
    BY DEF IndexInv, GiftInv, Passed
  <1>3. "delegation" \in imeta.ready => entries["delegation"] = UNION {DelegationEntry(id) : id \in stored}
    <2> SUFFICES ASSUME "delegation" \in imeta.ready PROVE entries["delegation"] = UNION {DelegationEntry(id) : id \in stored}
      OBVIOUS
    <2>1. /\ \A k \in entries["delegation"] : k[2] \in stored
          /\ \A id \in stored : {k \in entries["delegation"] : k[2] = id} = DelegationEntry(id)
      BY DEF IndexInv, DelegationInv, Passed
    <2>2. \A k \in entries["delegation"] : k \in DelegationEntry(k[2])
      BY <2>1
    <2>3. \A id \in stored : DelegationEntry(id) \subseteq entries["delegation"]
      BY <2>1
    <2> QED BY <2>1, <2>2, <2>3
  <1> QED BY <1>1, <1>2, <1>3 DEF IndexesWhole, IndexedWhenReady, IndexInv

\* Every step of the thread keeps the invariant.
LEMMA IndexStep == IndexInv /\ [IndexNext]_ivars => IndexInv'
  <1> SUFFICES ASSUME IndexInv, [IndexNext]_ivars PROVE IndexInv'
    OBVIOUS
  <1>1. CASE UNCHANGED ivars
    <2>1. UNCHANGED <<stored, entries, imeta, vanish, writer, starts, written, imenu>>
      BY <1>1 DEF ivars
    <2>2. IndexTypeOK' /\ WalkLink'
      BY <2>1 DEF IndexInv, IndexTypeOK, WalkLink
    <2> QED BY <2>1, <2>2, QuietKeeps
  <1>2. CASE Open \/ Skip \/ Begin \/ MarkSchema \/ CancelWork \/ Down
    BY <1>2, OpenKeeps, ThreadKeeps, MarkSchemaKeeps
  <1>3. ASSUME NEW i \in Rebuilt, RebuildChunk(i) \/ MarkReady(i) PROVE IndexInv'
    BY <1>3, RebuildChunkKeeps, MarkReadyKeeps
  <1>4. CASE WordBegin \/ WordClear \/ WordFill \/ WordReady
    BY <1>4, WordBeginKeeps, WordClearKeeps, WordFillKeeps, WordReadyKeeps
  <1>5. CASE ResumeVanish \/ Write
    BY <1>5, ResumeVanishKeeps, WriteKeeps
  <1> QED BY <1>1, <1>2, <1>3, <1>4, <1>5 DEF IndexNext

\* A marker is never a promise the index does not keep, and a vanish takes the wraps along.
THEOREM IndexesCorrect == IndexSpec => []IndexesWhole
  BY IndexInitInv, IndexStep, IndexInvSays, PTL DEF IndexSpec

=============================================================================
