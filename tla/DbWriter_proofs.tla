--------------------------- MODULE DbWriter_proofs ---------------------------
(***************************************************************************)
(* Theorems about DbWriter, for every set of callers, every kind and share *)
(* of their requests, every cap, drain size and number of panics: the      *)
(* counters of the queue, the truth of the replies, the order of commits.  *)
(***************************************************************************)
EXTENDS DbWriter, Sums_proofs, SequenceTheorems, TLAPS

\* The types that do not depend on the accounting.
ShapeOK ==
    /\ caller \in [Request -> CallerState]
    /\ sent \in Seq(Request \cup {Stop})
    /\ taken \in 0..Len(sent) /\ at \in 1..taken + 1
    /\ pc \in {"recv", "handle", "release", "flush", "stopped"}
    /\ puts \in Seq(1..taken) /\ batches \in Seq(1..taken) /\ applied \in Seq(1..taken)
    /\ waiting \subseteq 1..taken /\ guard \subseteq 1..taken
    /\ reply \in [Request -> {"none", "ok", "failed", "lost"}]
    /\ panics \in 0..MaxPanics

\* The type in two parts: the shapes, and the counters, which need the accounts.
LEMMA TypeSplit == WriterTypeOK <=> ShapeOK /\ pending \in [CounterKey -> Nat]
  BY DEF WriterTypeOK, ShapeOK

-----------------------------------------------------------------------------
(* Shares and caller states.                                               *)

\* A share is a natural number.
LEMMA ShareNat == \A r \in Request, k \in CounterKey : Share(r)[k] \in Nat
  BY ShareType, KindType DEF Share, CounterKey

\* The order in which the counters are charged.
LEMMA CounterKeys == /\ Counter[1] = "msgs" /\ Counter[2] = "events" /\ Counter[3] = "bytes"
                     /\ \A i \in 1..3 : Counter[i] \in CounterKey
  BY DEF Counter, CounterKey

\* Where a caller stands.
LEMMA CallerFields ==
  \A c \in CallerState : /\ c.op \in {"send", "wait", "refused", "add", "undo"}
                         /\ c.op \in {"add", "undo"} => c.i \in 1..3
                         /\ c.over \in BOOLEAN
  <1> SUFFICES ASSUME NEW c \in CallerState
               PROVE  /\ c.op \in {"send", "wait", "refused", "add", "undo"}
                      /\ c.op \in {"add", "undo"} => c.i \in 1..3
                      /\ c.over \in BOOLEAN
    OBVIOUS
  <1>1. CASE c \in {Sending, Waiting, Refused}
    <2>1. CASE c = Sending BY <2>1 DEF Sending
    <2>2. CASE c = Waiting BY <2>2 DEF Waiting
    <2>3. CASE c = Refused BY <2>3 DEF Refused
    <2> QED BY <1>1, <2>1, <2>2, <2>3
  <1>2. CASE \E i \in 1..3, b \in BOOLEAN : c = Adding(i, b)
    <2> PICK i \in 1..3, b \in BOOLEAN : c = Adding(i, b)
      BY <1>2
    <2> QED BY DEF Adding
  <1>3. CASE \E i \in 1..3 : c = Undoing(i)
    <2> PICK i \in 1..3 : c = Undoing(i)
      BY <1>3
    <2> QED BY DEF Undoing
  <1>4. \/ c \in {Sending, Waiting, Refused}
        \/ \E i \in 1..3, b \in BOOLEAN : c = Adding(i, b)
        \/ \E i \in 1..3 : c = Undoing(i)
    BY DEF CallerState
  <1> QED BY <1>1, <1>2, <1>3, <1>4

\* A sequence over a set is one over any larger set.
LEMMA SeqWiden ==
  ASSUME NEW A, NEW B, A \subseteq B, NEW s \in Seq(A)
  PROVE  s \in Seq(B)
  OBVIOUS

\* A message that is not Stop is a request.
LEMMA SentRequest ==
  ASSUME ShapeOK
  PROVE  \A p \in DOMAIN sent : sent[p] # Stop => sent[p] \in Request
  BY DEF ShapeOK

-----------------------------------------------------------------------------
(* Types.                                                                  *)

\* The shapes at the start,
LEMMA ShapeInit == WriterInit => ShapeOK
  <1> SUFFICES ASSUME WriterInit PROVE ShapeOK
    OBVIOUS
  <1>0. \A i \in 1..3, b \in BOOLEAN : Adding(i, b) \in CallerState
    BY DEF CallerState
  <1>00. 1 \in 1..3 /\ FALSE \in BOOLEAN
    OBVIOUS
  <1>1. Adding(1, FALSE) \in CallerState
    BY <1>0, <1>00, Zenon
  <1>2. caller \in [Request -> CallerState]
    BY <1>1 DEF WriterInit
  <1>3. /\ sent \in Seq(Request \cup {Stop}) /\ Len(sent) = 0
        /\ puts \in Seq(1..taken) /\ batches \in Seq(1..taken) /\ applied \in Seq(1..taken)
    BY EmptySeq DEF WriterInit
  <1>4. taken \in 0..Len(sent) /\ at \in 1..taken + 1 /\ panics \in 0..MaxPanics
    BY <1>3, LimitType DEF WriterInit
  <1>5. waiting \subseteq 1..taken /\ guard \subseteq 1..taken /\ pc = "recv"
        /\ reply \in [Request -> {"none", "ok", "failed", "lost"}]
    BY DEF WriterInit
  <1> QED BY <1>2, <1>3, <1>4, <1>5 DEF ShapeOK

\* under the steps of a caller,
LEMMA ShapeCallers ==
  ASSUME ShapeOK, NEW r \in Request, Caller(r)
  PROVE  ShapeOK'
  <1> USE DEF ShapeOK
  <1>1. CASE Reserve(r)
    <2>1. caller[r] \in CallerState /\ caller[r].i \in 1..3 /\ caller[r].over \in BOOLEAN
      BY <1>1, CallerFields DEF Reserve
    <2> DEFINE k == Counter[caller[r].i]
               over == caller[r].over \/ OverCap(k, pending[k] + Share(r)[k])
    <2>2. over \in BOOLEAN
      BY <2>1
    <2>3. \A i \in 1..3, b \in BOOLEAN : Adding(i, b) \in CallerState
      BY DEF CallerState
    <2>4. Undoing(1) \in CallerState /\ Sending \in CallerState
      BY DEF CallerState
    <2>5. caller' = [caller EXCEPT ![r] = IF caller[r].i < 3 THEN Adding(caller[r].i + 1, over)
                                          ELSE IF over THEN Undoing(1) ELSE Sending]
      BY <1>1 DEF Reserve
    <2>6. caller[r].i < 3 => caller[r].i + 1 \in 1..3
      BY <2>1
    <2>7. caller' \in [Request -> CallerState]
      <3> HIDE DEF over
      <3> QED BY <2>2, <2>3, <2>4, <2>5, <2>6
    <2> QED BY <1>1, <2>7 DEF Reserve, writerVars
  <1>2. CASE Rollback(r)
    <2>1. caller[r] \in CallerState /\ caller[r].i \in 1..3
      BY <1>2, CallerFields DEF Rollback
    <2>2. \A i \in 1..3 : Undoing(i) \in CallerState
      BY DEF CallerState
    <2>3. Refused \in CallerState
      BY DEF CallerState
    <2>4. caller' \in [Request -> CallerState]
      BY <1>2, <2>1, <2>2, <2>3 DEF Rollback
    <2> QED BY <1>2, <2>4 DEF Rollback, writerVars
  <1>3. CASE Send(r)
    <2>1. Undoing(1) \in CallerState /\ Waiting \in CallerState
      BY DEF CallerState
    <2>2. caller' \in [Request -> CallerState]
      BY <1>3, <2>1 DEF Send
    <2>3. sent' \in Seq(Request \cup {Stop}) /\ Len(sent') \in Nat /\ Len(sent') >= Len(sent)
      <3>1. r \in Request \cup {Stop} /\ Len(sent) \in Nat
        BY LenProperties
      <3>2. Append(sent, r) \in Seq(Request \cup {Stop}) /\ Len(Append(sent, r)) = Len(sent) + 1
        BY <3>1, AppendProperties
      <3>3. sent' = sent \/ sent' = Append(sent, r)
        BY <1>3 DEF Send
      <3>4. CASE sent' = sent
        BY <3>1, <3>4
      <3>5. CASE sent' = Append(sent, r)
        BY <3>1, <3>2, <3>5
      <3> QED BY <3>3, <3>4, <3>5
    <2> QED BY <1>3, <2>2, <2>3 DEF Send, writerVars
  <1> QED BY <1>1, <1>2, <1>3 DEF Caller

\* An answer is one of the three.
LEMMA ToldType ==
  ASSUME ShapeOK, NEW P, NEW answer \in {"ok", "failed", "lost"}, Told(P, answer)
  PROVE  reply' \in [Request -> {"none", "ok", "failed", "lost"}]
  BY DEF Told, ShapeOK

\* A flush empties the batch and appends messages the writer received.
LEMMA FlushType ==
  ASSUME ShapeOK, Flush, UNCHANGED taken
  PROVE  /\ applied' \in Seq(1..taken')
         /\ puts' = <<>> /\ batches' = <<>>
         /\ reply' \in [Request -> {"none", "ok", "failed", "lost"}]
  <1>0. Merged \in Seq(1..taken) /\ applied \o Merged \in Seq(1..taken)
    BY ConcatProperties DEF Merged, ShapeOK
  <1>1. applied' \in Seq(1..taken')
    BY <1>0 DEF Flush, ShapeOK
  <1>2. reply' \in [Request -> {"none", "ok", "failed", "lost"}]
    BY ToldType DEF Flush
  <1> QED BY <1>1, <1>2 DEF Flush

\* and under the steps of the writer thread.
LEMMA ShapeWriter ==
  ASSUME ShapeOK, pc = "release" => at <= taken, Writer
  PROVE  ShapeOK'
  <1> USE DEF ShapeOK
  <1>1. CASE Drain
    <2>1. taken' \in 0..Len(sent) /\ taken' >= taken + 1 /\ at' = taken + 1
      BY <1>1, LimitType DEF Drain, MinOf
    <2>2. 1..taken \subseteq 1..taken'
      BY <2>1
    <2>3. /\ puts' \in Seq(1..taken') /\ batches' \in Seq(1..taken')
          /\ applied' \in Seq(1..taken')
      BY <1>1, <2>2, SeqWiden DEF Drain
    <2>4. guard' \subseteq 1..taken' /\ waiting' \subseteq 1..taken'
      BY <1>1, <2>1, <2>2 DEF Drain
    <2> QED BY <1>1, <2>1, <2>3, <2>4 DEF Drain, queueVars
  <1>2. CASE HandlePut
    <2>1. Told({at}, "failed") => reply' \in [Request -> {"none", "ok", "failed", "lost"}]
      BY ToldType
    <2>2. Append(puts, at) \in Seq(1..taken)
      BY <1>2, AppendProperties DEF HandlePut
    <2>3. puts' \in Seq(1..taken) /\ reply' \in [Request -> {"none", "ok", "failed", "lost"}]
      BY <1>2, <2>1, <2>2 DEF HandlePut
    <2>4. at' \in 1..taken + 1
      BY <1>2 DEF HandlePut
    <2> QED BY <1>2, <2>3, <2>4 DEF HandlePut, queueVars
  <1>3. CASE HandleBatch
    BY <1>3, AppendProperties DEF HandleBatch, queueVars
  <1>4. CASE FlushFirst
    <2>1. /\ applied' \in Seq(1..taken') /\ puts' = <<>> /\ batches' = <<>>
          /\ reply' \in [Request -> {"none", "ok", "failed", "lost"}]
      BY <1>4, FlushType DEF FlushFirst
    <2> QED BY <1>4, <2>1, EmptySeq DEF FlushFirst, queueVars
  <1>5. CASE HandleInline
    <2>1. reply' \in [Request -> {"none", "ok", "failed", "lost"}]
      BY <1>5, ToldType DEF HandleInline
    <2>2. applied' \in Seq(1..taken)
      <3>1. at \in 1..taken
        BY <1>5 DEF HandleInline, Ready
      <3>2. Append(applied, at) \in Seq(1..taken)
        BY <3>1, AppendProperties
      <3> QED BY <1>5, <3>2 DEF HandleInline
    <2>3. at' \in 1..taken + 1 /\ pc' \in {"handle", "release"}
      BY <1>5 DEF HandleInline, Ready
    <2> QED BY <1>5, <2>1, <2>2, <2>3 DEF HandleInline, queueVars
  <1>6. CASE Coalesce
    BY <1>6 DEF Coalesce, Ready, queueVars
  <1>7. CASE HandleSave
    <2>1. reply' \in [Request -> {"none", "ok", "failed", "lost"}]
      BY <1>7, ToldType DEF HandleSave
    <2>2. applied' \in Seq(1..taken)
      <3>1. at \in 1..taken
        BY <1>7 DEF HandleSave, Ready
      <3>2. Append(applied, at) \in Seq(1..taken)
        BY <3>1, AppendProperties
      <3> QED BY <1>7, <3>2 DEF HandleSave
    <2>3. waiting' \subseteq 1..taken /\ pc' = "release"
      BY <1>7 DEF HandleSave
    <2> QED BY <1>7, <2>1, <2>2, <2>3 DEF HandleSave, queueVars
  <1>8. CASE ReleaseOne
    BY <1>8 DEF ReleaseOne
  <1>9. CASE DropGuard
    BY <1>9 DEF DropGuard
  <1>10. CASE FlushLast
    <2>1. /\ applied' \in Seq(1..taken) /\ puts' \in Seq(1..taken) /\ batches' \in Seq(1..taken)
          /\ reply' \in [Request -> {"none", "ok", "failed", "lost"}]
      BY <1>10, FlushType, EmptySeq DEF FlushLast
    <2> QED BY <1>10, <2>1 DEF FlushLast, queueVars
  <1>11. CASE HandleStop
    BY <1>11, ToldType DEF HandleStop
  <1>12. CASE Panic
    <2>1. reply' \in [Request -> {"none", "ok", "failed", "lost"}]
      BY <1>12 DEF Panic
    <2>2. applied' \in Seq(1..taken)
      <3>1. at \in 1..taken
        BY <1>12 DEF Panic
      <3>2. Append(applied, at) \in Seq(1..taken)
        BY <3>1, AppendProperties
      <3> QED BY <1>12, <3>2 DEF Panic
    <2>3. pc' \in {"recv", "stopped"} /\ panics' \in 0..MaxPanics
      BY <1>12, LimitType DEF Panic
    <2>4. puts' = <<>> /\ batches' = <<>> /\ guard' = {} /\ waiting' = {} /\ at' = taken + 1
      BY <1>12 DEF Panic
    <2> QED BY <1>12, <2>1, <2>2, <2>3, <2>4 DEF Panic
  <1> QED BY <1>1, <1>2, <1>3, <1>4, <1>5, <1>6, <1>7, <1>8, <1>9, <1>10, <1>11, <1>12 DEF Writer

-----------------------------------------------------------------------------
(* Totals of shares.                                                       *)

ShareFn(k) == [r \in Request |-> Share(r)[k]]

\* The total of a set of callers is a sum over it.
LEMMA TotalIsSum ==
  ASSUME NEW S \in SUBSET Request, NEW k
  PROVE  Total(S, k) = SumOver(ShareFn(k), S)
  <1>1. \A r \in S : [x \in S |-> Share(x)[k]][r] = ShareFn(k)[r]
    BY DEF ShareFn
  <1> QED BY <1>1, SumSame DEF Total

\* One caller more.
LEMMA TotalAdd ==
  ASSUME NEW S \in SUBSET Request, NEW r \in Request, r \notin S, NEW k \in CounterKey
  PROVE  Total(S \cup {r}, k) = Total(S, k) + Share(r)[k]
  <1>1. IsFiniteSet(S)
    BY RequestType, FS_Subset
  <1>2. \A x \in Request : ShareFn(k)[x] \in Nat /\ ShareFn(k)[x] = Share(x)[k]
    BY ShareNat DEF ShareFn
  <1>3. SumOver(ShareFn(k), S \cup {r}) = SumOver(ShareFn(k), S) + ShareFn(k)[r]
    BY <1>1, <1>2, SumAdd
  <1>4. S \cup {r} \in SUBSET Request
    OBVIOUS
  <1> QED BY <1>2, <1>3, <1>4, TotalIsSum

\* Some callers fewer.
LEMMA TotalSubset ==
  ASSUME NEW S \in SUBSET Request, NEW R \in SUBSET S, NEW k \in CounterKey
  PROVE  /\ Total(R, k) \in Nat /\ Total(S, k) \in Nat /\ Total(R, k) <= Total(S, k)
         /\ Total(S \ R, k) = Total(S, k) - Total(R, k)
  <1>1. IsFiniteSet(S)
    BY RequestType, FS_Subset
  <1>2. \A x \in S : ShareFn(k)[x] \in Nat
    BY ShareNat DEF ShareFn
  <1>3. R \in SUBSET Request /\ S \ R \in SUBSET Request
    OBVIOUS
  <1>4. /\ SumOver(ShareFn(k), R) <= SumOver(ShareFn(k), S)
        /\ SumOver(ShareFn(k), S \ R) = SumOver(ShareFn(k), S) - SumOver(ShareFn(k), R)
        /\ SumOver(ShareFn(k), R) \in Nat /\ SumOver(ShareFn(k), S) \in Nat
    BY <1>1, <1>2, SumSubset
  <1>5. /\ Total(R, k) = SumOver(ShareFn(k), R) /\ Total(S, k) = SumOver(ShareFn(k), S)
        /\ Total(S \ R, k) = SumOver(ShareFn(k), S \ R)
    BY <1>3, TotalIsSum
  <1> QED BY <1>4, <1>5

\* What fits under a cap still fits when there is less.
LEMMA CapMonotonic ==
  ASSUME NEW k \in CounterKey, NEW m \in Nat, NEW n \in Nat, m <= n, ~OverCap(k, n)
  PROVE  ~OverCap(k, m)
  BY LimitType DEF OverCap, CounterKey

\* A guard's messages weigh what their callers reserved.
LEMMA GuardTotal ==
  ASSUME ShapeOK, SentOnce, NEW P \in SUBSET guard, GuardShape, NEW k \in CounterKey
  PROVE  SumOver([p \in P |-> Share(sent[p])[k]], P) = Total({sent[p] : p \in P}, k)
  <1> DEFINE T == {sent[p] : p \in P}
             f == [p \in P |-> Share(sent[p])[k]]
             g == [r \in T |-> Share(r)[k]]
             b == [p \in P |-> sent[p]]
  <1>1. P \subseteq 1..taken /\ taken \in Nat /\ P \subseteq DOMAIN sent
    BY LenProperties DEF ShapeOK
  <1>2. IsFiniteSet(P)
    <2>1. IsFiniteSet(1..taken)
      BY <1>1, FS_Interval
    <2> QED BY <1>1, <2>1, FS_Subset
  <1>3. \A p, q \in P : sent[p] = sent[q] => p = q
    BY <1>1 DEF SentOnce
  <1>4. b \in Bijection(P, T)
    BY <1>3 DEF Bijection, Injection, Surjection, IsInjective
  <1>5. \A p \in P : sent[p] \in Request
    BY <1>1, SentRequest DEF GuardShape
  <1>6. \A p \in P : f[p] \in Nat /\ g[b[p]] = f[p]
    BY <1>5, ShareNat
  <1>7. SumOver(g, T) = SumOver(f, P)
    <2> HIDE DEF f, g, b, T
    <2> QED BY <1>2, <1>4, <1>6, SumRename
  <1> QED BY <1>7 DEF Total

-----------------------------------------------------------------------------
(* The accounting.                                                         *)

Reserving(i) == {r \in Request : Reserves(r, i)}
\* What the accounting needs of the writer.
Accounting == ShapeOK /\ pending \in [CounterKey -> Nat] /\ AccountInv

\* The invariant follows from what a step does to the sets of callers.
LEMMA AccountsFromSets ==
  ASSUME Accounting, pending' \in [CounterKey -> Nat],
         SentOnce', GuardShape', ShapeOK',
         NEW j \in 1..3, NEW r \in Request,
         \A i \in 1..3 : i # j => /\ Reserving(i)' = Reserving(i)
                                  /\ pending'[Counter[i]] = pending[Counter[i]]
                                  /\ Passed(i)' \subseteq Passed(i),
         \/ /\ r \notin Reserving(j) /\ Reserving(j)' = Reserving(j) \cup {r}
            /\ pending'[Counter[j]] = pending[Counter[j]] + Share(r)[Counter[j]]
            /\ \/ ~OverCap(Counter[j], pending'[Counter[j]])
               \/ Passed(j)' \subseteq Passed(j)
         \/ /\ r \in Reserving(j) /\ Reserving(j)' = Reserving(j) \ {r}
            /\ pending'[Counter[j]] = pending[Counter[j]] - Share(r)[Counter[j]]
            /\ Passed(j)' \subseteq Passed(j)
         \/ /\ Reserving(j)' = Reserving(j) /\ pending'[Counter[j]] = pending[Counter[j]]
            /\ Passed(j)' \subseteq Passed(j)
  PROVE  AccountInv'
  <1> DEFINE k == Counter[j]
  <1>0. \A i \in 1..3 : Counter[i] \in CounterKey
    BY CounterKeys
  <1>1. \A i \in 1..3 : /\ Reserving(i) \in SUBSET Request /\ Reserving(i)' \in SUBSET Request
                        /\ Passed(i) \in SUBSET Request /\ Passed(i)' \in SUBSET Request
    BY DEF Reserving, Passed
  <1>2. \A i \in 1..3 : pending[Counter[i]] = Total(Reserving(i), Counter[i])
    BY DEF Accounting, AccountInv, CountersExact, Reserving
  <1>3. \A i \in 1..3 : pending'[Counter[i]] = Total(Reserving(i)', Counter[i])
    <2> SUFFICES ASSUME NEW i \in 1..3 PROVE pending'[Counter[i]] = Total(Reserving(i)', Counter[i])
      OBVIOUS
    <2>1. CASE i # j
      BY <2>1, <1>2
    <2>2. CASE i = j /\ r \notin Reserving(j) /\ Reserving(j)' = Reserving(j) \cup {r}
               /\ pending'[k] = pending[k] + Share(r)[k]
      <3>1. Total(Reserving(j) \cup {r}, k) = Total(Reserving(j), k) + Share(r)[k]
        BY <2>2, <1>0, <1>1, TotalAdd
      <3> QED BY <2>2, <3>1, <1>2
    <2>3. CASE i = j /\ r \in Reserving(j) /\ Reserving(j)' = Reserving(j) \ {r}
               /\ pending'[k] = pending[k] - Share(r)[k]
      <3>1. {r} \in SUBSET Reserving(j)
        BY <2>3
      <3>2. Total(Reserving(j) \ {r}, k) = Total(Reserving(j), k) - Total({r}, k)
        BY <3>1, <1>0, <1>1, TotalSubset
      <3>3. Total({r}, k) = Share(r)[k]
        <4>1. {} \cup {r} = {r} /\ {} \in SUBSET Request
          OBVIOUS
        <4>2. Total({} \cup {r}, k) = Total({}, k) + Share(r)[k]
          BY <4>1, <1>0, TotalAdd
        <4>3. Total({}, k) = 0
          BY SumEmpty DEF Total
        <4>4. Share(r)[k] \in Nat
          BY <1>0, ShareNat
        <4>5. Total({} \cup {r}, k) = Total({r}, k)
          BY <4>1
        <4> QED BY <4>2, <4>3, <4>4, <4>5
      <3> QED BY <2>3, <3>2, <3>3, <1>2
    <2>4. CASE i = j /\ Reserving(j)' = Reserving(j) /\ pending'[k] = pending[k]
      BY <2>4, <1>2
    <2> QED BY <2>1, <2>2, <2>3, <2>4
  <1>4. \A i \in 1..3 : ~OverCap(Counter[i], Total(Passed(i)', Counter[i]))
    <2> SUFFICES ASSUME NEW i \in 1..3 PROVE ~OverCap(Counter[i], Total(Passed(i)', Counter[i]))
      OBVIOUS
    <2>0. Counter[i] \in CounterKey
      BY <1>0
    <2>1. CASE Passed(i)' \subseteq Passed(i)
      <3>1. ~OverCap(Counter[i], Total(Passed(i), Counter[i]))
        BY DEF Accounting, AccountInv, PassedCapped
      <3>2. /\ Total(Passed(i)', Counter[i]) \in Nat /\ Total(Passed(i), Counter[i]) \in Nat
            /\ Total(Passed(i)', Counter[i]) <= Total(Passed(i), Counter[i])
        BY <2>0, <2>1, <1>1, TotalSubset
      <3> QED BY <2>0, <3>1, <3>2, CapMonotonic
    <2>2. CASE i = j /\ ~OverCap(k, pending'[k])
      <3>1. Passed(i)' \subseteq Reserving(i)'
        BY DEF Passed, Reserving, Reserves
      <3>2. /\ Total(Passed(i)', Counter[i]) \in Nat /\ Total(Reserving(i)', Counter[i]) \in Nat
            /\ Total(Passed(i)', Counter[i]) <= Total(Reserving(i)', Counter[i])
        BY <2>0, <3>1, <1>1, TotalSubset
      <3>3. ~OverCap(Counter[i], Total(Reserving(i)', Counter[i]))
        BY <2>2, <1>3
      <3> QED BY <2>0, <3>2, <3>3, CapMonotonic
    <2> QED BY <2>1, <2>2
  <1>5. CountersExact'
    BY <1>3 DEF CountersExact, Reserving
  <1>6. PassedCapped'
    BY <1>4 DEF PassedCapped
  <1> QED BY <1>5, <1>6 DEF AccountInv

\* What a caller's fields are once it is one of the caller states.
LEMMA CallerShape ==
  /\ \A i, b : Adding(i, b).op = "add" /\ Adding(i, b).i = i /\ Adding(i, b).over = b
  /\ \A i : Undoing(i).op = "undo" /\ Undoing(i).i = i
  /\ Sending.op = "send" /\ Waiting.op = "wait" /\ Refused.op = "refused"
  BY DEF Adding, Undoing, Sending, Waiting, Refused

\* try_reserve_queued: one counter is charged.
LEMMA AccountReserve ==
  ASSUME Accounting, NEW r \in Request, Reserve(r), ShapeOK'
  PROVE  pending' \in [CounterKey -> Nat] /\ AccountInv'
  <1>0. caller \in [Request -> CallerState] /\ caller[r].op = "add" /\ caller[r].i \in 1..3
    BY CallerFields DEF Accounting, ShapeOK, Reserve
  <1> PICK j \in 1..3 : j = caller[r].i
    BY <1>0
  <1> DEFINE k == Counter[j]
             over == caller[r].over \/ OverCap(k, pending[k] + Share(r)[k])
  <1>1. caller \in [Request -> CallerState] /\ caller[r].op = "add" /\ j \in 1..3
    BY <1>0
  <1>2. k \in CounterKey /\ Share(r)[k] \in Nat /\ pending \in [CounterKey -> Nat]
    BY <1>1, CounterKeys, ShareNat DEF Accounting
  <1>3. /\ pending' = [pending EXCEPT ![k] = pending[k] + Share(r)[k]]
        /\ caller' = [caller EXCEPT ![r] = IF j < 3 THEN Adding(j + 1, over)
                                           ELSE IF over THEN Undoing(1) ELSE Sending]
        /\ UNCHANGED <<sent, taken, guard, pc>>
    BY DEF Reserve, writerVars
  <1>4. pending' \in [CounterKey -> Nat]
    BY <1>2, <1>3
  <1>5. SentOnce' /\ GuardShape'
    <2>1. \A p \in DOMAIN sent : sent[p] # Stop => sent[p] # r /\ caller'[sent[p]] = caller[sent[p]]
      BY <1>1, <1>3, SentRequest DEF Accounting, AccountInv, SentOnce
    <2> QED BY <1>3, <2>1 DEF Accounting, AccountInv, SentOnce, GuardShape
  <1>6. \A q : Queued(q)' = Queued(q)
    BY <1>3 DEF Queued, Positions, Counted
  <1>7. \A q \in Request : q # r => caller'[q] = caller[q]
    BY <1>1, <1>3
  <1>8. \A i \in 1..3, q \in Request : q # r => /\ Reserves(q, i)' = Reserves(q, i)
                                                /\ (q \in Passed(i)') = (q \in Passed(i))
    BY <1>6, <1>7 DEF Reserves, Passed
  <1>9. caller'[r] = IF j < 3 THEN Adding(j + 1, over) ELSE IF over THEN Undoing(1) ELSE Sending
    BY <1>1, <1>3
  <1>10. \A i \in 1..3 : Reserves(r, i)' <=> i <= j
    <2>1. CASE j < 3
      BY <1>1, <1>9, <2>1, CallerShape DEF Reserves
    <2>2. CASE j = 3 /\ over
      BY <1>1, <1>9, <2>2, CallerShape DEF Reserves
    <2>3. CASE j = 3 /\ ~over
      BY <1>1, <1>9, <2>3, CallerShape DEF Reserves
    <2> QED BY <1>1, <2>1, <2>2, <2>3
  <1>11. \A i \in 1..3 : Reserves(r, i) <=> i < j
    BY <1>1 DEF Reserves
  <1>12. \A i \in 1..3 : r \in Passed(i)' => i <= j /\ ~over
    <2>1. CASE j < 3
      <3>1. caller'[r].op = "add" /\ caller'[r].i = j + 1 /\ caller'[r].over = over
        <4> HIDE DEF over
        <4> QED BY <1>1, <1>9, <2>1, CallerShape
      <3>2. \A i \in 1..3 : r \in Passed(i)' => i < j + 1 /\ ~over
        <4> HIDE DEF over
        <4> QED BY <3>1 DEF Passed
      <3> QED BY <1>1, <3>2
    <2>2. CASE j = 3 /\ over
      BY <1>1, <1>9, <2>2, CallerShape DEF Passed
    <2>3. CASE j = 3 /\ ~over
      BY <1>1, <2>3
    <2> QED BY <1>1, <2>1, <2>2, <2>3
  <1>13. \A i \in 1..3 : i < j /\ ~over => r \in Passed(i)
    BY <1>1 DEF Passed
  <1>14. \A i \in 1..3 : i # j => /\ Reserving(i)' = Reserving(i)
                                  /\ pending'[Counter[i]] = pending[Counter[i]]
                                  /\ Passed(i)' \subseteq Passed(i)
    <2> SUFFICES ASSUME NEW i \in 1..3, i # j
                 PROVE  /\ Reserving(i)' = Reserving(i)
                        /\ pending'[Counter[i]] = pending[Counter[i]]
                        /\ Passed(i)' \subseteq Passed(i)
      OBVIOUS
    <2>1. Reserves(r, i)' <=> Reserves(r, i)
      BY <1>1, <1>10, <1>11
    <2>2. Reserving(i)' = Reserving(i)
      BY <2>1, <1>8 DEF Reserving
    <2>3. Counter[i] # k /\ Counter[i] \in CounterKey
      BY <1>1, CounterKeys
    <2>4. pending'[Counter[i]] = pending[Counter[i]]
      BY <1>2, <1>3, <2>3
    <2>5. r \in Passed(i)' => r \in Passed(i)
      BY <1>1, <1>12, <1>13
    <2>6. Passed(i)' \subseteq Passed(i)
      BY <2>5, <1>8 DEF Passed
    <2> QED BY <2>2, <2>4, <2>6
  <1>15. r \notin Reserving(j) /\ Reserving(j)' = Reserving(j) \cup {r}
    <2>1. Reserves(r, j)' /\ ~Reserves(r, j)
      BY <1>1, <1>10, <1>11
    <2>2. \A q \in Request : q # r => Reserves(q, j)' = Reserves(q, j)
      BY <1>1, <1>8
    <2> QED BY <2>1, <2>2 DEF Reserving
  <1>16. pending'[k] = pending[k] + Share(r)[k]
    BY <1>2, <1>3
  <1>17. ~OverCap(k, pending'[k]) \/ Passed(j)' \subseteq Passed(j)
    <2>1. CASE OverCap(k, pending[k] + Share(r)[k])
      <3>1. over
        BY <2>1
      <3>2. r \notin Passed(j)'
        BY <3>1, <1>1, <1>12
      <3>3. \A q \in Request : q # r => (q \in Passed(j)') = (q \in Passed(j))
        BY <1>1, <1>8
      <3>4. Passed(j)' \subseteq Request
        BY DEF Passed
      <3> QED BY <3>2, <3>3, <3>4
    <2>2. CASE ~OverCap(k, pending[k] + Share(r)[k])
      BY <2>2, <1>16
    <2> QED BY <2>1, <2>2
  <1>18. AccountInv'
    <2> HIDE DEF over
    <2> QED BY <1>1, <1>4, <1>5, <1>14, <1>15, <1>16, <1>17, AccountsFromSets
  <1> QED BY <1>4, <1>18

\* A refused reservation gives back what it charged.
LEMMA AccountRollback ==
  ASSUME Accounting, NEW r \in Request, Rollback(r), ShapeOK'
  PROVE  pending' \in [CounterKey -> Nat] /\ AccountInv'
  <1>0. caller \in [Request -> CallerState] /\ caller[r].op = "undo" /\ caller[r].i \in 1..3
    BY CallerFields DEF Accounting, ShapeOK, Rollback
  <1> PICK j \in 1..3 : j = caller[r].i
    BY <1>0
  <1> DEFINE k == Counter[j]
  <1>1. caller \in [Request -> CallerState] /\ caller[r].op = "undo" /\ j \in 1..3
    BY <1>0
  <1>2. k \in CounterKey /\ Share(r)[k] \in Nat /\ pending \in [CounterKey -> Nat]
    BY <1>1, CounterKeys, ShareNat DEF Accounting
  <1>3. /\ pending' = [pending EXCEPT ![k] = pending[k] - Share(r)[k]]
        /\ caller' = [caller EXCEPT ![r] = IF j < 3 THEN Undoing(j + 1) ELSE Refused]
        /\ UNCHANGED <<sent, taken, guard, pc>>
    BY DEF Rollback, writerVars
  <1>4. r \in Reserving(j) /\ pending[k] = Total(Reserving(j), k)
    <2>1. Reserves(r, j)
      BY <1>1 DEF Reserves
    <2>2. \A i \in 1..3 : pending[Counter[i]] = Total(Reserving(i), Counter[i])
      BY DEF Reserving, Accounting, AccountInv, CountersExact
    <2> QED BY <1>1, <2>1, <2>2 DEF Reserving
  <1>5. Share(r)[k] <= pending[k]
    <2>1. Reserving(j) \in SUBSET Request
      BY DEF Reserving
    <2>2. Reserving(j) = (Reserving(j) \ {r}) \cup {r} /\ Reserving(j) \ {r} \in SUBSET Request
      BY <1>4, <2>1
    <2>3. Total((Reserving(j) \ {r}) \cup {r}, k) = Total(Reserving(j) \ {r}, k) + Share(r)[k]
      BY <2>2, <1>2, TotalAdd
    <2>4. Total(Reserving(j), k) = Total(Reserving(j) \ {r}, k) + Share(r)[k]
      BY <2>2, <2>3
    <2>5. Total(Reserving(j) \ {r}, k) \in Nat
      BY <2>2, <1>2, TotalSubset
    <2> QED BY <2>4, <2>5, <1>2, <1>4
  <1>6. pending' \in [CounterKey -> Nat]
    BY <1>2, <1>3, <1>5
  <1>7. SentOnce' /\ GuardShape'
    <2>1. \A p \in DOMAIN sent : sent[p] # Stop => sent[p] # r /\ caller'[sent[p]] = caller[sent[p]]
      BY <1>1, <1>3, SentRequest DEF Accounting, AccountInv, SentOnce
    <2> QED BY <1>3, <2>1 DEF Accounting, AccountInv, SentOnce, GuardShape
  <1>8. \A q : Queued(q)' = Queued(q)
    BY <1>3 DEF Queued, Positions, Counted
  <1>9. \A q \in Request : q # r => caller'[q] = caller[q]
    BY <1>1, <1>3
  <1>10. \A i \in 1..3, q \in Request : q # r => /\ Reserves(q, i)' = Reserves(q, i)
                                                 /\ (q \in Passed(i)') = (q \in Passed(i))
    BY <1>8, <1>9 DEF Reserves, Passed
  <1>11. caller'[r] = IF j < 3 THEN Undoing(j + 1) ELSE Refused
    BY <1>1, <1>3
  <1>12. \A i \in 1..3 : (Reserves(r, i)' <=> i > j) /\ r \notin Passed(i)'
    <2>1. CASE j < 3
      BY <1>1, <1>11, <2>1, CallerShape DEF Reserves, Passed
    <2>2. CASE j = 3
      BY <1>1, <1>11, <2>2, CallerShape DEF Reserves, Passed
    <2> QED BY <1>1, <2>1, <2>2
  <1>13. \A i \in 1..3 : Reserves(r, i) <=> i >= j
    BY <1>1 DEF Reserves
  <1>14. \A i \in 1..3 : Passed(i)' \subseteq Passed(i)
    BY <1>10, <1>12 DEF Passed
  <1>15. \A i \in 1..3 : i # j => /\ Reserving(i)' = Reserving(i)
                                  /\ pending'[Counter[i]] = pending[Counter[i]]
    <2> SUFFICES ASSUME NEW i \in 1..3, i # j
                 PROVE  Reserving(i)' = Reserving(i) /\ pending'[Counter[i]] = pending[Counter[i]]
      OBVIOUS
    <2>1. Reserves(r, i)' <=> Reserves(r, i)
      BY <1>1, <1>12, <1>13
    <2>2. Reserving(i)' = Reserving(i)
      BY <2>1, <1>10 DEF Reserving
    <2>3. Counter[i] # k /\ Counter[i] \in CounterKey
      BY <1>1, CounterKeys
    <2> QED BY <1>2, <1>3, <2>2, <2>3
  <1>16. Reserving(j)' = Reserving(j) \ {r}
    <2>1. ~Reserves(r, j)'
      BY <1>1, <1>12
    <2>2. \A q \in Request : q # r => Reserves(q, j)' = Reserves(q, j)
      BY <1>1, <1>10
    <2> QED BY <2>1, <2>2 DEF Reserving
  <1>17. pending'[k] = pending[k] - Share(r)[k]
    BY <1>2, <1>3
  <1>18. AccountInv'
    BY <1>1, <1>4, <1>6, <1>7, <1>14, <1>15, <1>16, <1>17, AccountsFromSets
  <1> QED BY <1>6, <1>18

\* A step that leaves the counters and the sets of callers alone.
LEMMA AccountSame ==
  ASSUME Accounting, ShapeOK', SentOnce', GuardShape', pending' = pending,
         \A i \in 1..3 : Reserving(i)' = Reserving(i) /\ Passed(i)' \subseteq Passed(i)
  PROVE  pending' \in [CounterKey -> Nat] /\ AccountInv'
  <1>1. CountersExact'
    <2>1. \A i \in 1..3 : pending'[Counter[i]] = Total(Reserving(i)', Counter[i])
      BY DEF Accounting, AccountInv, CountersExact, Reserving
    <2> QED BY <2>1 DEF CountersExact, Reserving
  <1>2. PassedCapped'
    <2>1. ASSUME NEW i \in 1..3 PROVE ~OverCap(Counter[i], Total(Passed(i)', Counter[i]))
      <3>1. Counter[i] \in CounterKey /\ Passed(i) \in SUBSET Request /\ Passed(i)' \in SUBSET Passed(i)
        BY CounterKeys DEF Passed
      <3>2. /\ Total(Passed(i)', Counter[i]) \in Nat /\ Total(Passed(i), Counter[i]) \in Nat
            /\ Total(Passed(i)', Counter[i]) <= Total(Passed(i), Counter[i])
        BY <3>1, TotalSubset
      <3>3. ~OverCap(Counter[i], Total(Passed(i), Counter[i]))
        BY DEF Accounting, AccountInv, PassedCapped
      <3> QED BY <3>1, <3>2, <3>3, CapMonotonic
    <2> QED BY <2>1 DEF PassedCapped
  <1> QED BY <1>1, <1>2 DEF Accounting, AccountInv

\* The sets of callers are the same when the callers and what is queued are.
LEMMA SetsSame ==
  ASSUME caller' = caller, \A q \in Request : Queued(q)' = Queued(q)
  PROVE  \A i \in 1..3 : Reserving(i)' = Reserving(i) /\ Passed(i)' \subseteq Passed(i)
  BY DEF Reserving, Reserves, Passed

\* A reserved message enters the channel.
LEMMA AccountSend ==
  ASSUME Accounting, NEW r \in Request, Send(r), ShapeOK'
  PROVE  pending' \in [CounterKey -> Nat] /\ AccountInv'
  <1>1. /\ caller \in [Request -> CallerState] /\ sent \in Seq(Request \cup {Stop})
        /\ taken \in 0..Len(sent) /\ Len(sent) \in Nat /\ guard \subseteq 1..taken
    BY LenProperties DEF Accounting, ShapeOK
  <1>2. caller[r].op = "send" /\ UNCHANGED <<pending, taken, guard, pc>>
    BY DEF Send, writerVars
  <1>3. \A p \in DOMAIN sent : sent[p] # r
    BY <1>2, RequestType DEF Accounting, AccountInv, SentOnce
  <1>4. CASE pc = "stopped"
    <2>1. caller' = [caller EXCEPT ![r] = Undoing(1)] /\ sent' = sent
      BY <1>4 DEF Send
    <2>2. \A q \in Request : q # r => caller'[q] = caller[q]
      BY <1>1, <2>1
    <2>3. caller'[r].op = "undo" /\ caller'[r].i = 1
      BY <1>1, <2>1, CallerShape
    <2>4. \A q : Queued(q)' = Queued(q)
      BY <1>2, <2>1 DEF Queued, Positions, Counted
    <2>5. \A i \in 1..3 : Reserves(r, i)' /\ Reserves(r, i) /\ r \notin Passed(i)'
      BY <1>2, <2>3 DEF Reserves, Passed
    <2>6. \A i \in 1..3, q \in Request : q # r => /\ Reserves(q, i)' = Reserves(q, i)
                                                  /\ (q \in Passed(i)') = (q \in Passed(i))
      BY <2>2, <2>4 DEF Reserves, Passed
    <2>7. \A i \in 1..3 : Reserving(i)' = Reserving(i)
      BY <2>5, <2>6 DEF Reserving
    <2>8. \A i \in 1..3 : Passed(i)' \subseteq Passed(i)
      BY <2>5, <2>6 DEF Passed
    <2>9. SentOnce' /\ GuardShape'
      BY <1>2, <1>3, <2>1, <2>2, SentRequest DEF Accounting, AccountInv, SentOnce, GuardShape
    <2> QED BY <1>2, <2>7, <2>8, <2>9, AccountSame
  <1>5. CASE pc # "stopped"
    <2>1. caller' = [caller EXCEPT ![r] = Waiting] /\ sent' = Append(sent, r)
      BY <1>5 DEF Send
    <2>2. /\ Len(sent') = Len(sent) + 1 /\ DOMAIN sent' = 1..Len(sent) + 1
          /\ DOMAIN sent = 1..Len(sent)
          /\ \A p \in 1..Len(sent) : sent'[p] = sent[p]
          /\ sent'[Len(sent) + 1] = r
      <3>1. r \in Request \cup {Stop}
        OBVIOUS
      <3>2. /\ Append(sent, r) \in Seq(Request \cup {Stop})
            /\ Len(Append(sent, r)) = Len(sent) + 1
            /\ \A p \in 1..Len(sent) : Append(sent, r)[p] = sent[p]
            /\ Append(sent, r)[Len(sent) + 1] = r
        BY <1>1, <3>1, AppendProperties
      <3> QED BY <1>1, <2>1, <3>2, LenProperties
    <2>3. \A q \in Request : q # r => caller'[q] = caller[q]
      BY <1>1, <2>1
    <2>4. caller'[r].op = "wait"
      BY <1>1, <2>1, CallerShape
    <2>5. Queued(r)'
      <3>1. Len(sent) + 1 \in 1..Len(sent') /\ Len(sent) + 1 > taken
        BY <1>1, <2>2
      <3> QED BY <1>2, <2>2, <3>1 DEF Queued, Positions, Counted
    <2>6. \A q \in Request : q # r => Queued(q)' = Queued(q)
      <3> SUFFICES ASSUME NEW q \in Request, q # r PROVE Queued(q)' = Queued(q)
        OBVIOUS
      <3>1. \A p : p \in Positions({q})' <=> p \in Positions({q})
        BY <1>1, <2>2 DEF Positions
      <3> QED BY <1>2, <3>1 DEF Queued, Counted
    <2>7. \A i \in 1..3 : Reserves(r, i)' /\ Reserves(r, i) /\ r \in Passed(i)
      BY <1>2, <2>4, <2>5 DEF Reserves, Passed
    <2>8. \A i \in 1..3, q \in Request : q # r => /\ Reserves(q, i)' = Reserves(q, i)
                                                  /\ (q \in Passed(i)') = (q \in Passed(i))
      BY <2>3, <2>6 DEF Reserves, Passed
    <2>9. \A i \in 1..3 : Reserving(i)' = Reserving(i)
      BY <2>7, <2>8 DEF Reserving
    <2>10. \A i \in 1..3 : Passed(i)' \subseteq Passed(i)
      BY <2>7, <2>8 DEF Passed
    <2>11. SentOnce'
      <3>1. \A p, q \in DOMAIN sent' : sent'[p] = sent'[q] => p = q
        BY <1>1, <1>3, <2>2 DEF Accounting, AccountInv, SentOnce
      <3>2. \A p \in DOMAIN sent' : sent'[p] # Stop => caller'[sent'[p]].op = "wait"
        <4> SUFFICES ASSUME NEW p \in DOMAIN sent', sent'[p] # Stop
                     PROVE  caller'[sent'[p]].op = "wait"
          OBVIOUS
        <4>1. CASE p = Len(sent) + 1
          BY <4>1, <2>2, <2>4
        <4>2. CASE p \in 1..Len(sent)
          <5>1. sent'[p] = sent[p] /\ sent[p] # r /\ sent[p] \in Request /\ caller[sent[p]].op = "wait"
            BY <4>2, <1>3, <2>2, SentRequest DEF Accounting, AccountInv, SentOnce
          <5> QED BY <5>1, <2>3
        <4> QED BY <4>1, <4>2, <1>1, <2>2
      <3> QED BY <3>1, <3>2 DEF SentOnce
    <2>12. GuardShape'
      BY <1>1, <1>2, <2>2 DEF Accounting, AccountInv, GuardShape
    <2> QED BY <1>2, <2>9, <2>10, <2>11, <2>12, AccountSame
  <1> QED BY <1>4, <1>5

\* So does the stop message, which reserves nothing.
LEMMA AccountShutdown ==
  ASSUME Accounting, SendShutdown
  PROVE  ShapeOK' /\ pending' \in [CounterKey -> Nat] /\ AccountInv'
  <1>1. /\ sent \in Seq(Request \cup {Stop}) /\ Stop \in Request \cup {Stop}
        /\ taken \in 0..Len(sent) /\ Len(sent) \in Nat /\ guard \subseteq 1..taken
        /\ DOMAIN sent = 1..Len(sent)
    BY LenProperties DEF Accounting, ShapeOK
  <1>2. /\ UNCHANGED <<pending, caller, taken, at, pc, puts, batches, waiting, guard, applied, reply, panics>>
        /\ sent' = Append(sent, Stop)
        /\ \A p \in DOMAIN sent : sent[p] # Stop
    BY <1>1 DEF SendShutdown, writerVars, Positions
  <1>3. /\ sent' \in Seq(Request \cup {Stop}) /\ Len(sent') = Len(sent) + 1
        /\ \A p \in 1..Len(sent) : sent'[p] = sent[p]
        /\ sent'[Len(sent) + 1] = Stop
    <2>1. /\ Append(sent, Stop) \in Seq(Request \cup {Stop})
          /\ Len(Append(sent, Stop)) = Len(sent) + 1
          /\ \A p \in 1..Len(sent) : Append(sent, Stop)[p] = sent[p]
          /\ Append(sent, Stop)[Len(sent) + 1] = Stop
      BY <1>1, AppendProperties
    <2> QED BY <1>2, <2>1
  <1>4. DOMAIN sent' = 1..Len(sent) + 1
    BY <1>3, LenProperties
  <1>5. ShapeOK'
    <2>1. taken' \in 0..Len(sent')
      BY <1>1, <1>2, <1>3
    <2> QED BY <1>2, <1>3, <2>1 DEF Accounting, ShapeOK
  <1>6. \A q \in Request : Queued(q)' = Queued(q)
    <2> SUFFICES ASSUME NEW q \in Request PROVE Queued(q)' = Queued(q)
      OBVIOUS
    <2>1. \A p : p \in Positions({q})' <=> p \in Positions({q})
      BY <1>1, <1>3, RequestType DEF Positions
    <2> QED BY <1>2, <2>1 DEF Queued, Counted
  <1>7. SentOnce' /\ GuardShape'
    BY <1>1, <1>2, <1>3, <1>4 DEF Accounting, AccountInv, SentOnce, GuardShape
  <1>8. \A i \in 1..3 : Reserving(i)' = Reserving(i) /\ Passed(i)' \subseteq Passed(i)
    BY <1>2, <1>6, SetsSame
  <1> QED BY <1>2, <1>5, <1>7, <1>8, AccountSame

\* Releasing messages of the guard gives back what their callers reserved.
LEMMA AccountRelease ==
  ASSUME Accounting, ShapeOK', NEW P \in SUBSET guard, Released(P), guard' = guard \ P,
         UNCHANGED <<caller, sent, taken>>, GuardShape'
  PROVE  pending' \in [CounterKey -> Nat] /\ AccountInv'
  <1> DEFINE Q == {sent[p] : p \in P}
  <1>1. /\ guard \subseteq 1..taken /\ taken \in 0..Len(sent) /\ Len(sent) \in Nat
        /\ DOMAIN sent = 1..Len(sent) /\ pending \in [CounterKey -> Nat]
        /\ SentOnce /\ GuardShape /\ ShapeOK
    BY LenProperties DEF Accounting, ShapeOK, AccountInv
  <1>2. Q \in SUBSET Request
    BY <1>1, SentRequest DEF GuardShape
  <1>3. SentOnce'
    BY <1>1 DEF SentOnce
  <1>4. \A q \in Q : caller[q].op = "wait" /\ Queued(q) /\ ~Queued(q)'
    <2> SUFFICES ASSUME NEW p \in P
                 PROVE  caller[sent[p]].op = "wait" /\ Queued(sent[p]) /\ ~(\E x \in 1..Len(sent) : sent[x] = sent[p] /\ (x > taken \/ x \in guard'))
      BY DEF Queued, Positions, Counted
    <2>1. p \in guard /\ p \in DOMAIN sent /\ sent[p] # Stop /\ p <= taken
      BY <1>1 DEF GuardShape
    <2>2. caller[sent[p]].op = "wait"
      BY <2>1, <1>1 DEF SentOnce
    <2>3. Queued(sent[p])
      BY <2>1, <1>1 DEF Queued, Positions, Counted
    <2>4. \A x \in 1..Len(sent) : sent[x] = sent[p] => x = p
      BY <2>1, <1>1 DEF SentOnce
    <2> QED BY <2>1, <2>2, <2>3, <2>4, <1>1
  <1>5. \A q \in Request \ Q : Queued(q)' = Queued(q)
    <2> SUFFICES ASSUME NEW q \in Request \ Q PROVE Queued(q)' = Queued(q)
      OBVIOUS
    <2>1. \A x \in 1..Len(sent) : sent[x] = q => (x \in guard <=> x \in guard')
      OBVIOUS
    <2> QED BY <2>1 DEF Queued, Positions, Counted
  <1>6. \A i \in 1..3 : Q \subseteq Reserving(i) /\ Reserving(i)' = Reserving(i) \ Q
                        /\ Passed(i)' \subseteq Passed(i)
    BY <1>2, <1>4, <1>5 DEF Reserving, Reserves, Passed
  <1>7. ASSUME NEW i \in 1..3
        PROVE  /\ pending'[Counter[i]] \in Nat
               /\ pending'[Counter[i]] = Total(Reserving(i)', Counter[i])
    <2> DEFINE k == Counter[i]
               n == SumOver([p \in P |-> Share(sent[p])[k]], P)
    <2>1. k \in CounterKey
      BY CounterKeys
    <2>2. n = Total(Q, k)
      BY <2>1, <1>1, GuardTotal
    <2>3. Reserving(i) \in SUBSET Request /\ Q \in SUBSET Reserving(i)
      BY <1>6 DEF Reserving
    <2>4. /\ Total(Q, k) \in Nat /\ Total(Reserving(i), k) \in Nat /\ Total(Q, k) <= Total(Reserving(i), k)
          /\ Total(Reserving(i) \ Q, k) = Total(Reserving(i), k) - Total(Q, k)
      BY <2>1, <2>3, TotalSubset
    <2>5. pending[k] = Total(Reserving(i), k)
      BY DEF Accounting, AccountInv, CountersExact, Reserving
    <2>6. pending'[k] = IF pending[k] > n THEN pending[k] - n ELSE 0
      BY <2>1, <1>1 DEF Released
    <2>7. pending'[k] = pending[k] - n
      <3> HIDE DEF n, k, Q
      <3> QED BY <2>2, <2>4, <2>5, <2>6
    <2>8. Total(Reserving(i)', k) = Total(Reserving(i) \ Q, k)
      BY <1>6
    <2> HIDE DEF n, k, Q
    <2>9. pending'[k] \in Nat /\ pending'[k] = Total(Reserving(i)', k)
      BY <2>2, <2>4, <2>5, <2>7, <2>8
    <2> QED BY <2>9 DEF k
  <1>8. pending' \in [CounterKey -> Nat]
    <2>1. pending' = [k \in CounterKey |-> pending'[k]]
      BY <1>1 DEF Released
    <2>2. \A k \in CounterKey : \E i \in 1..3 : k = Counter[i]
      BY CounterKeys DEF CounterKey
    <2>3. \A k \in CounterKey : pending'[k] \in Nat
      BY <1>7, <2>2
    <2> QED BY <2>1, <2>3
  <1>9. CountersExact'
    BY <1>7 DEF CountersExact, Reserving
  <1>10. PassedCapped'
    <2>1. ASSUME NEW i \in 1..3 PROVE ~OverCap(Counter[i], Total(Passed(i)', Counter[i]))
      <3>1. Counter[i] \in CounterKey /\ Passed(i) \in SUBSET Request /\ Passed(i)' \in SUBSET Passed(i)
        BY <1>6, CounterKeys DEF Passed
      <3>2. /\ Total(Passed(i)', Counter[i]) \in Nat /\ Total(Passed(i), Counter[i]) \in Nat
            /\ Total(Passed(i)', Counter[i]) <= Total(Passed(i), Counter[i])
        BY <3>1, TotalSubset
      <3>3. ~OverCap(Counter[i], Total(Passed(i), Counter[i]))
        BY DEF Accounting, AccountInv, PassedCapped
      <3> QED BY <3>1, <3>2, <3>3, CapMonotonic
    <2> QED BY <2>1 DEF PassedCapped
  <1> QED BY <1>3, <1>8, <1>9, <1>10 DEF AccountInv

\* The handler steps that touch no counter, message or guard.
LEMMA AccountQuiet ==
  ASSUME Accounting, ShapeOK', UNCHANGED <<pending, caller, sent, taken, guard>>, GuardShape'
  PROVE  pending' \in [CounterKey -> Nat] /\ AccountInv'
  <1>1. \A q \in Request : Queued(q)' = Queued(q)
    BY DEF Queued, Positions, Counted
  <1>2. SentOnce'
    BY DEF Accounting, AccountInv, SentOnce
  <1>3. \A i \in 1..3 : Reserving(i)' = Reserving(i) /\ Passed(i)' \subseteq Passed(i)
    BY <1>1, SetsSame
  <1> QED BY <1>2, <1>3, AccountSame

\* The writer thread releases each message it took once.
LEMMA AccountWriter ==
  ASSUME Accounting, ShapeOK', Writer
  PROVE  pending' \in [CounterKey -> Nat] /\ AccountInv'
  <1>0. GuardShape
    BY DEF Accounting, AccountInv
  <1>1. CASE Drain
    <2>1. /\ taken' \in 0..Len(sent) /\ taken' > taken /\ Len(sent) \in Nat /\ taken \in Nat
          /\ guard' = {p \in taken + 1 .. taken' : sent[p] # Stop}
          /\ guard = {} /\ UNCHANGED <<pending, caller, sent>> /\ pc' = "handle"
      BY <1>0, <1>1, LimitType, LenProperties DEF Drain, MinOf, queueVars, GuardShape, Accounting,
         ShapeOK
    <2>2. \A q \in Request : Queued(q)' = Queued(q)
      <3> SUFFICES ASSUME NEW q \in Request PROVE Queued(q)' = Queued(q)
        OBVIOUS
      <3>1. \A p \in 1..Len(sent) : sent[p] = q => (Counted(p)' <=> Counted(p))
        BY <2>1, RequestType DEF Counted
      <3> QED BY <2>1, <3>1 DEF Queued, Positions
    <2>3. SentOnce' /\ GuardShape'
      BY <2>1 DEF Accounting, AccountInv, SentOnce, GuardShape
    <2>4. \A i \in 1..3 : Reserving(i)' = Reserving(i) /\ Passed(i)' \subseteq Passed(i)
      BY <2>1, <2>2, SetsSame
    <2> QED BY <2>1, <2>3, <2>4, AccountSame
  <1>2. CASE HandlePut \/ HandleBatch \/ FlushFirst \/ HandleInline \/ Coalesce \/ HandleSave
    <2>1. UNCHANGED <<pending, caller, sent, taken, guard>> /\ pc' \in {"handle", "release"}
      BY <1>2 DEF HandlePut, HandleBatch, FlushFirst, HandleInline, Coalesce, HandleSave, Ready,
         queueVars
    <2>2. GuardShape'
      BY <1>0, <2>1 DEF GuardShape
    <2> QED BY <2>1, <2>2, AccountQuiet
  <1>3. CASE ReleaseOne
    <2>1. /\ {at} \cap guard \in SUBSET guard /\ guard' = guard \ ({at} \cap guard)
          /\ Released({at} \cap guard) /\ UNCHANGED <<caller, sent, taken>> /\ pc' = "handle"
      BY <1>3 DEF ReleaseOne
    <2>2. GuardShape'
      BY <1>0, <2>1 DEF GuardShape
    <2> QED BY <2>1, <2>2, AccountRelease
  <1>4. CASE DropGuard \/ HandleStop \/ Panic
    <2>1. /\ guard \in SUBSET guard /\ guard' = guard \ guard
          /\ Released(guard) /\ UNCHANGED <<caller, sent, taken>>
      BY <1>4 DEF DropGuard, HandleStop, Panic
    <2>2. GuardShape'
      BY <2>1 DEF GuardShape
    <2> QED BY <2>1, <2>2, AccountRelease
  <1>5. CASE FlushLast
    <2>1. UNCHANGED <<pending, caller, sent, taken, guard>> /\ pc = "flush"
      BY <1>5 DEF FlushLast, queueVars
    <2>2. GuardShape'
      BY <1>0, <2>1 DEF GuardShape
    <2> QED BY <2>1, <2>2, AccountQuiet
  <1> QED BY <1>1, <1>2, <1>3, <1>4, <1>5 DEF Writer

Released1 == pc = "release" => at <= taken

\* The accounts hold at the start,
LEMMA AccountStart == WriterInit => Accounting /\ Released1
  <1> SUFFICES ASSUME WriterInit PROVE Accounting /\ Released1
    OBVIOUS
  <1>1. ShapeOK
    BY ShapeInit
  <1>2. pending \in [CounterKey -> Nat] /\ SentOnce /\ GuardShape /\ Released1
    BY DEF WriterInit, SentOnce, GuardShape, Released1
  <1>3. \A r \in Request : caller[r].op = "add" /\ caller[r].i = 1
    BY CallerShape DEF WriterInit
  <1>4. \A i \in 1..3 : {r \in Request : Reserves(r, i)} = {} /\ Passed(i) = {}
    BY <1>3 DEF Reserves, Passed
  <1>5. \A k : Total({}, k) = 0
    BY SumEmpty DEF Total
  <1>6. CountersExact
    BY <1>4, <1>5, CounterKeys DEF CountersExact, WriterInit
  <1>7. \A i \in 1..3 : ~OverCap(Counter[i], 0)
    BY LimitType DEF OverCap
  <1>8. PassedCapped
    BY <1>4, <1>5, <1>7 DEF PassedCapped
  <1> QED BY <1>1, <1>2, <1>6, <1>8 DEF Accounting, AccountInv

\* every step keeps them,
LEMMA AccountStep == Accounting /\ Released1 /\ [WriterNext]_wvars => Accounting' /\ Released1'
  <1> SUFFICES ASSUME Accounting, Released1, [WriterNext]_wvars PROVE Accounting' /\ Released1'
    OBVIOUS
  <1>0. ShapeOK
    BY DEF Accounting
  <1>1. CASE Writer
    <2>1. ShapeOK'
      BY <1>0, <1>1, ShapeWriter DEF Released1
    <2>2. pending' \in [CounterKey -> Nat] /\ AccountInv'
      BY <1>1, <2>1, AccountWriter
    <2>3. Released1'
      BY <1>1 DEF Writer, Released1, Drain, HandlePut, HandleBatch, FlushFirst, HandleInline,
         Coalesce,
                  HandleSave, ReleaseOne, DropGuard, FlushLast, HandleStop, Panic, Ready
    <2> QED BY <2>1, <2>2, <2>3 DEF Accounting
  <1>2. CASE SendShutdown
    <2>1. Released1'
      BY <1>2 DEF SendShutdown, Released1, writerVars
    <2> QED BY <1>2, <2>1, AccountShutdown DEF Accounting
  <1>3. ASSUME NEW r \in Request, Caller(r) PROVE Accounting' /\ Released1'
    <2>1. ShapeOK'
      BY <1>0, <1>3, ShapeCallers
    <2>2. pending' \in [CounterKey -> Nat] /\ AccountInv'
      BY <1>3, <2>1, AccountReserve, AccountRollback, AccountSend DEF Caller
    <2>3. Released1'
      BY <1>3 DEF Caller, Reserve, Rollback, Send, Released1, writerVars
    <2> QED BY <2>1, <2>2, <2>3 DEF Accounting
  <1>4. CASE UNCHANGED wvars
    <2>1. ShapeOK' /\ Released1' /\ GuardShape'
      BY <1>0, <1>4 DEF wvars, queueVars, writerVars, ShapeOK, Released1, Accounting, AccountInv,
         GuardShape
    <2>2. UNCHANGED <<pending, caller, sent, taken, guard>>
      BY <1>4 DEF wvars, queueVars, writerVars
    <2> QED BY <2>1, <2>2, AccountQuiet DEF Accounting
  <1> QED BY <1>1, <1>2, <1>3, <1>4 DEF WriterNext

\* so they always hold.
LEMMA AccountAlways == WriterSpec => [](Accounting /\ Released1)
  BY AccountStart, AccountStep, PTL DEF WriterSpec

\* The state of the queue and of the writer has its type: no counter of
\* send_request_checked or PendingGuard ever wraps below zero.
THEOREM TypeCorrect == WriterSpec => []WriterTypeOK
  <1>1. Accounting => WriterTypeOK
    BY TypeSplit DEF Accounting
  <1> QED BY <1>1, AccountAlways, PTL

\* send_request_checked and PendingGuard: every counter is the sum of the
\* shares that are reserved, and what is queued stays under the caps.
THEOREM QueueCorrect == WriterSpec => []QueueAccounted
  <1>1. Accounting => QueueAccounted
    <2> SUFFICES ASSUME Accounting PROVE QueueAccounted
      OBVIOUS
    <2> DEFINE Held == {r \in Request : caller[r].op = "send" \/ (caller[r].op = "wait" /\ Queued(r))}
    <2>1. ASSUME NEW i \in 1..3 PROVE ~OverCap(Counter[i], Total(Held, Counter[i]))
      <3>1. Counter[i] \in CounterKey /\ Passed(i) \in SUBSET Request /\ Held \in SUBSET Passed(i)
        BY CounterKeys DEF Passed
      <3>2. /\ Total(Held, Counter[i]) \in Nat /\ Total(Passed(i), Counter[i]) \in Nat
            /\ Total(Held, Counter[i]) <= Total(Passed(i), Counter[i])
        <4> HIDE DEF Held
        <4> QED BY <3>1, TotalSubset
      <3>3. ~OverCap(Counter[i], Total(Passed(i), Counter[i]))
        BY DEF Accounting, AccountInv, PassedCapped
      <3> HIDE DEF Held
      <3> QED BY <3>1, <3>2, <3>3, CapMonotonic
    <2>2. \A k \in CounterKey : \E i \in 1..3 : k = Counter[i]
      BY CounterKeys DEF CounterKey
    <2>3. QueueCapped
      BY <2>1, <2>2 DEF QueueCapped
    <2> QED BY <2>3 DEF QueueAccounted, Accounting, AccountInv
  <1> QED BY <1>1, AccountAlways, PTL

-----------------------------------------------------------------------------
(* The commits: their order, and the truth of the replies.                 *)

Committing == ShapeOK /\ CommitInv

\* What the sequences of the writer range over.
LEMMA SeqFacts ==
  ASSUME ShapeOK
  PROVE  /\ taken \in Nat /\ at \in Nat /\ Len(sent) \in Nat /\ taken <= Len(sent)
         /\ DOMAIN sent = 1..Len(sent)
         /\ DOMAIN puts = 1..Len(puts) /\ Len(puts) \in Nat /\ \A i \in DOMAIN puts : puts[i] \in 1..taken
         /\ DOMAIN batches = 1..Len(batches) /\ Len(batches) \in Nat /\ \A i \in DOMAIN batches : batches[i] \in 1..taken
         /\ DOMAIN applied = 1..Len(applied) /\ Len(applied) \in Nat /\ \A i \in DOMAIN applied : applied[i] \in 1..taken
  BY LenProperties, ElementOfSeq DEF ShapeOK

\* The merged batch is empty when both its parts are.
LEMMA MergedEmpty ==
  ASSUME ShapeOK, Merged = <<>>
  PROVE  puts = <<>> /\ batches = <<>>
  BY ConcatEqualIffEmpty DEF Merged, ShapeOK

\* The merged transaction holds the puts and the batches of the drain.
LEMMA MergedRange ==
  ASSUME ShapeOK
  PROVE  Range(Merged) = Range(puts) \cup Range(batches)
  <1>1. /\ Merged \in Seq(1..taken) /\ Len(Merged) = Len(puts) + Len(batches)
        /\ \A i \in 1..Len(puts) + Len(batches) :
             Merged[i] = IF i <= Len(puts) THEN puts[i] ELSE batches[i - Len(puts)]
    BY ConcatProperties DEF Merged, ShapeOK
  <1>2. DOMAIN Merged = 1..Len(puts) + Len(batches)
    BY <1>1, LenProperties
  <1>3. \A x \in Range(Merged) : x \in Range(puts) \cup Range(batches)
    <2> SUFFICES ASSUME NEW i \in DOMAIN Merged PROVE Merged[i] \in Range(puts) \cup Range(batches)
      BY DEF Range
    <2>1. CASE i <= Len(puts)
      BY <2>1, <1>1, <1>2, SeqFacts DEF Range
    <2>2. CASE i > Len(puts)
      <3>1. i - Len(puts) \in DOMAIN batches /\ Merged[i] = batches[i - Len(puts)]
        BY <2>2, <1>1, <1>2, SeqFacts
      <3> QED BY <3>1 DEF Range
    <2> QED BY <2>1, <2>2, <1>2, SeqFacts
  <1>4. \A i \in DOMAIN puts : puts[i] \in Range(Merged)
    <2> SUFFICES ASSUME NEW i \in DOMAIN puts PROVE puts[i] \in Range(Merged)
      OBVIOUS
    <2>1. i \in DOMAIN Merged /\ Merged[i] = puts[i]
      BY <1>1, <1>2, SeqFacts
    <2> QED BY <2>1 DEF Range
  <1>5. \A i \in DOMAIN batches : batches[i] \in Range(Merged)
    <2> SUFFICES ASSUME NEW i \in DOMAIN batches PROVE batches[i] \in Range(Merged)
      OBVIOUS
    <2>1. PICK m \in Nat : m = i + Len(puts)
      BY SeqFacts
    <2>2. m \in 1..Len(puts) + Len(batches) /\ ~(m <= Len(puts)) /\ m - Len(puts) = i
      BY <2>1, SeqFacts
    <2>3. m \in DOMAIN Merged /\ Merged[m] = batches[i]
      BY <2>2, <1>1, <1>2
    <2> QED BY <2>3 DEF Range
  <1> QED BY <1>3, <1>4, <1>5 DEF Range

\* A reply goes to the message it is for and to no other.
LEMMA ToldAt ==
  ASSUME ShapeOK, SentOnce, NEW P \in SUBSET DOMAIN sent, NEW answer, Told(P, answer)
  PROVE  /\ \A p \in DOMAIN sent : sent[p] # Stop =>
              reply'[sent[p]] = IF p \in P THEN answer ELSE reply[sent[p]]
         /\ \A r \in Request : reply'[r] # reply[r] => \E p \in P : sent[p] = r
  <1>1. ASSUME NEW p \in DOMAIN sent, sent[p] # Stop
        PROVE  reply'[sent[p]] = IF p \in P THEN answer ELSE reply[sent[p]]
    <2>1. sent[p] \in Request
      BY <1>1, SentRequest
    <2>2. (\E q \in P : sent[q] = sent[p]) <=> p \in P
      BY <1>1 DEF SentOnce
    <2> QED BY <2>1, <2>2 DEF Told
  <1>2. ASSUME NEW r \in Request, reply'[r] # reply[r]
        PROVE  \E p \in P : sent[p] = r
    BY <1>2 DEF Told
  <1> QED BY <1>1, <1>2

\* Once covered, a message stays covered.
LEMMA CoverKept ==
  ASSUME NEW p, sent' = sent, Range(applied) \subseteq Range(applied'), Covered(p)
  PROVE  Covered(p)'
  BY DEF Covered, IsKind

\* Replies after a step that tells P the same answer and commits the messages N.
LEMMA AnswersStep ==
  ASSUME ShapeOK, SentOnce, AnswersTrue, sent' = sent,
         NEW P \in SUBSET DOMAIN sent, NEW N,
         Range(applied') = Range(applied) \cup N,
         \/ Told(P, "ok") /\ N \subseteq P /\ \A p \in P : Covered(p)'
         \/ Told(P, "failed") /\ N = {} /\ P \cap Range(applied) = {}
         \/ Told(P, "lost") /\ N = {}
         \/ UNCHANGED reply /\ N = {}
  PROVE  AnswersTrue'
  <1> SUFFICES ASSUME NEW p \in DOMAIN sent, sent[p] # Stop
               PROVE  /\ reply'[sent[p]] = "ok" => Covered(p)'
                      /\ reply'[sent[p]] = "failed" => p \notin Range(applied')
    BY DEF AnswersTrue
  <1>0. /\ reply[sent[p]] = "ok" => Covered(p)
        /\ reply[sent[p]] = "failed" => p \notin Range(applied)
    BY DEF AnswersTrue
  <1>00. Covered(p) => Covered(p)'
    BY CoverKept
  <1>1. CASE Told(P, "ok") /\ N \subseteq P /\ \A q \in P : Covered(q)'
    <2>1. reply'[sent[p]] = IF p \in P THEN "ok" ELSE reply[sent[p]]
      BY <1>1, ToldAt
    <2> QED BY <1>0, <1>00, <1>1, <2>1
  <1>2. CASE Told(P, "failed") /\ N = {} /\ P \cap Range(applied) = {}
    <2>1. reply'[sent[p]] = IF p \in P THEN "failed" ELSE reply[sent[p]]
      BY <1>2, ToldAt
    <2> QED BY <1>0, <1>00, <1>2, <2>1
  <1>3. CASE Told(P, "lost") /\ N = {}
    <2>1. reply'[sent[p]] = IF p \in P THEN "lost" ELSE reply[sent[p]]
      BY <1>3, ToldAt
    <2> QED BY <1>0, <1>00, <1>3, <2>1
  <1>4. CASE UNCHANGED reply /\ N = {}
    BY <1>0, <1>00, <1>4
  <1> QED BY <1>1, <1>2, <1>3, <1>4

\* The same for the bookkeeping of who is answered.
LEMMA RepliesStep ==
  ASSUME ShapeOK, SentOnce, RepliesShape, sent' = sent, NEW P \in SUBSET DOMAIN sent,
         (\E answer : Told(P, answer)) \/ UNCHANGED reply,
         \A p \in P : p < Frontier' \/ pc' = "stopped",
         Frontier <= Frontier' \/ pc' = "stopped", Frontier \in Nat, Frontier' \in Nat, pc # "stopped"
  PROVE  RepliesShape'
  <1> SUFFICES ASSUME NEW r \in Request, reply'[r] # "none"
               PROVE  \E p \in DOMAIN sent : sent[p] = r /\ (p < Frontier' \/ pc' = "stopped")
    BY DEF RepliesShape
  <1>1. CASE reply'[r] = reply[r]
    <2>1. PICK p \in DOMAIN sent : sent[p] = r /\ p < Frontier
      BY <1>1 DEF RepliesShape
    <2>2. p \in Nat
      BY SeqFacts
    <2> QED BY <2>1, <2>2
  <1>2. CASE reply'[r] # reply[r]
    <2>1. PICK answer : Told(P, answer)
      BY <1>2
    <2>2. PICK p \in P : sent[p] = r
      BY <1>2, <2>1, ToldAt
    <2> QED BY <2>2
  <1> QED BY <1>1, <1>2

\* What an append to the committed messages adds.
LEMMA AppendApplied ==
  ASSUME ShapeOK, NEW x \in 1..taken, applied' = Append(applied, x)
  PROVE  /\ Len(applied') = Len(applied) + 1 /\ DOMAIN applied' = 1..Len(applied) + 1
         /\ \A i \in 1..Len(applied) : applied'[i] = applied[i]
         /\ applied'[Len(applied) + 1] = x
         /\ Range(applied') = Range(applied) \cup {x}
  <1>1. applied \in Seq(1..taken)
    BY DEF ShapeOK
  <1>2. /\ Append(applied, x) \in Seq(1..taken)
        /\ Len(Append(applied, x)) = Len(applied) + 1
        /\ \A i \in 1..Len(applied) : Append(applied, x)[i] = applied[i]
        /\ Append(applied, x)[Len(applied) + 1] = x
    BY <1>1, AppendProperties
  <1>3. DOMAIN applied' = 1..Len(applied) + 1
    BY <1>2, LenProperties
  <1>4. Range(applied') = Range(applied) \cup {x}
    <2>1. \A i \in DOMAIN applied' : applied'[i] \in Range(applied) \cup {x}
      BY <1>2, <1>3, SeqFacts DEF Range
    <2>2. \A i \in DOMAIN applied : applied[i] \in Range(applied')
      <3> SUFFICES ASSUME NEW i \in DOMAIN applied PROVE applied[i] \in Range(applied')
        OBVIOUS
      <3>1. i \in DOMAIN applied' /\ applied'[i] = applied[i]
        BY <1>2, <1>3, SeqFacts
      <3> QED BY <3>1 DEF Range
    <2>3. x \in Range(applied')
      <3>1. Len(applied) + 1 \in DOMAIN applied'
        BY <1>3, SeqFacts
      <3> QED BY <1>2, <3>1 DEF Range
    <2> QED BY <2>1, <2>2, <2>3 DEF Range
  <1> QED BY <1>2, <1>3, <1>4

\* A message committed by itself, behind everything committed before.
LEMMA OneCommitted ==
  ASSUME Committing, pc = "handle", at <= taken, sent[at] # Stop, Merged = <<>>,
         applied' = Append(applied, at), UNCHANGED <<sent, taken>>
  PROVE  /\ OrderKept'
         /\ \A i \in DOMAIN applied' : sent'[applied'[i]] # Stop /\ applied'[i] <= at
         /\ at \notin Range(applied) /\ Range(applied') = Range(applied) \cup {at}
  <1>1. at \in 1..taken /\ ShapeOK /\ BatchShape /\ OrderKept
    BY DEF Committing, ShapeOK, CommitInv
  <1>2. /\ DOMAIN applied' = 1..Len(applied) + 1
        /\ \A i \in 1..Len(applied) : applied'[i] = applied[i]
        /\ applied'[Len(applied) + 1] = at
        /\ Range(applied') = Range(applied) \cup {at}
    BY <1>1, AppendApplied
  <1>3. \A i \in 1..Len(applied) : applied[i] < at /\ sent[applied[i]] # Stop /\ applied[i] \in Nat
    BY <1>1, SeqFacts DEF BatchShape, Frontier
  <1>4. at \notin Range(applied)
    BY <1>1, <1>3, SeqFacts DEF Range
  <1>5. \A i, j \in DOMAIN applied' : i < j /\ Ordered(applied[i], applied[j])' => applied'[i] < applied'[j]
    <2> SUFFICES ASSUME NEW i \in DOMAIN applied', NEW j \in DOMAIN applied', i < j,
                        Ordered(applied[i], applied[j])'
                 PROVE  applied'[i] < applied'[j]
      OBVIOUS
    <2>1. CASE j = Len(applied) + 1
      <3>1. i \in 1..Len(applied)
        BY <2>1, <1>2, SeqFacts, <1>1
      <3> QED BY <2>1, <3>1, <1>2, <1>3
    <2>2. CASE j \in 1..Len(applied)
      <3>1. i \in DOMAIN applied /\ j \in DOMAIN applied /\ applied'[i] = applied[i] /\ applied'[j] = applied[j]
        BY <2>2, <1>1, <1>2, SeqFacts
      <3>2. Ordered(applied[i], applied[j])
        BY <3>1 DEF Ordered, IsKind
      <3> QED BY <3>1, <3>2, <1>1 DEF OrderKept
    <2> QED BY <2>1, <2>2, <1>1, <1>2, SeqFacts
  <1>6. OrderKept'
    BY <1>5 DEF OrderKept
  <1> QED BY <1>1, <1>2, <1>3, <1>4, <1>6, SeqFacts

\* The committed messages and their order do not change.
LEMMA SameCommits ==
  ASSUME Committing, UNCHANGED <<sent, applied>>
  PROVE  OrderKept' /\ Range(applied') = Range(applied) \cup {}
  BY DEF Committing, CommitInv, OrderKept, Ordered, IsKind

\* A flush commits the batch behind everything committed before, puts ahead of
\* batches, and tells all of it the same.
LEMMA FlushCommits ==
  ASSUME Committing, Flush, UNCHANGED <<sent, taken>>, pc \in {"handle", "flush"}
  PROVE  /\ OrderKept' /\ AnswersTrue'
         /\ \A i \in DOMAIN applied' : sent'[applied'[i]] # Stop /\ applied'[i] < at
         /\ \A p \in waiting : p \notin Range(applied')
         /\ Range(Merged) \in SUBSET DOMAIN sent /\ \A p \in Range(Merged) : p < at
         /\ \E answer : Told(Range(Merged), answer)
  <1>1. ShapeOK /\ SentOnce /\ BatchShape /\ OrderKept /\ AnswersTrue /\ WaitingShape
    BY DEF Committing, CommitInv
  <1>2. /\ Merged \in Seq(1..taken) /\ Len(Merged) = Len(puts) + Len(batches)
        /\ \A i \in 1..Len(puts) + Len(batches) :
             Merged[i] = IF i <= Len(puts) THEN puts[i] ELSE batches[i - Len(puts)]
    BY <1>1, ConcatProperties DEF Merged, ShapeOK
  <1>3. DOMAIN Merged = 1..Len(Merged) /\ Len(Merged) \in Nat
    BY <1>2, LenProperties
  <1>4. \A i \in DOMAIN Merged : /\ Merged[i] \in 1..taken /\ Merged[i] < at
                                 /\ IsKind(Merged[i], {"put", "batch"})
                                 /\ i <= Len(puts) => IsKind(Merged[i], {"put"})
                                 /\ i > Len(puts) => IsKind(Merged[i], {"batch"})
    <2> SUFFICES ASSUME NEW i \in DOMAIN Merged
                 PROVE  /\ Merged[i] \in 1..taken /\ Merged[i] < at
                        /\ IsKind(Merged[i], {"put", "batch"})
                        /\ i <= Len(puts) => IsKind(Merged[i], {"put"})
                        /\ i > Len(puts) => IsKind(Merged[i], {"batch"})
      OBVIOUS
    <2>1. CASE i <= Len(puts)
      <3>1. i \in DOMAIN puts /\ Merged[i] = puts[i]
        BY <2>1, <1>1, <1>2, <1>3, SeqFacts
      <3> QED BY <2>1, <3>1, <1>1, <1>3, SeqFacts DEF BatchShape, IsKind
    <2>2. CASE i > Len(puts)
      <3>1. i - Len(puts) \in DOMAIN batches /\ Merged[i] = batches[i - Len(puts)]
        BY <2>2, <1>1, <1>2, <1>3, SeqFacts
      <3> QED BY <2>2, <3>1, <1>1, <1>3, SeqFacts DEF BatchShape, IsKind
    <2> QED BY <2>1, <2>2, <1>1, <1>3, SeqFacts
  <1>5. \A i, j \in DOMAIN Merged : i < j /\ (i > Len(puts) \/ j <= Len(puts)) => Merged[i] < Merged[j]
    <2> SUFFICES ASSUME NEW i \in DOMAIN Merged, NEW j \in DOMAIN Merged, i < j,
                        i > Len(puts) \/ j <= Len(puts)
                 PROVE  Merged[i] < Merged[j]
      OBVIOUS
    <2>1. CASE j <= Len(puts)
      <3>1. i \in DOMAIN puts /\ j \in DOMAIN puts /\ Merged[i] = puts[i] /\ Merged[j] = puts[j]
        BY <2>1, <1>1, <1>2, <1>3, SeqFacts
      <3> QED BY <3>1, <1>1 DEF BatchShape
    <2>2. CASE i > Len(puts)
      <3>1. /\ i - Len(puts) \in DOMAIN batches /\ j - Len(puts) \in DOMAIN batches
            /\ i - Len(puts) < j - Len(puts)
        <4>1. /\ i \in 1..Len(puts) + Len(batches) /\ j \in 1..Len(puts) + Len(batches)
              /\ Len(puts) \in Nat /\ Len(batches) \in Nat /\ DOMAIN batches = 1..Len(batches)
          BY <1>1, <1>2, <1>3, SeqFacts
        <4> QED BY <2>2, <4>1
      <3>2. /\ i \in 1..Len(puts) + Len(batches) /\ ~(i <= Len(puts))
            /\ j \in 1..Len(puts) + Len(batches) /\ ~(j <= Len(puts))
        BY <2>2, <1>1, <1>2, <1>3, SeqFacts
      <3>3. Merged[i] = batches[i - Len(puts)] /\ Merged[j] = batches[j - Len(puts)]
        BY <1>2, <3>2
      <3> QED BY <3>1, <3>3, <1>1 DEF BatchShape
    <2> QED BY <2>1, <2>2
  <1>6. \A i \in DOMAIN applied, j \in DOMAIN Merged : applied[i] < Merged[j]
    <2> SUFFICES ASSUME NEW i \in DOMAIN applied, NEW j \in DOMAIN Merged PROVE applied[i] < Merged[j]
      OBVIOUS
    <2>1. CASE j <= Len(puts)
      <3>1. j \in DOMAIN puts /\ Merged[j] = puts[j]
        BY <2>1, <1>1, <1>2, <1>3, SeqFacts
      <3> QED BY <3>1, <1>1 DEF BatchShape
    <2>2. CASE j > Len(puts)
      <3>1. j - Len(puts) \in DOMAIN batches /\ Merged[j] = batches[j - Len(puts)]
        BY <2>2, <1>1, <1>2, <1>3, SeqFacts
      <3> QED BY <3>1, <1>1 DEF BatchShape
    <2> QED BY <2>1, <2>2, <1>1, <1>3, SeqFacts
  <1>7. /\ Range(Merged) \in SUBSET DOMAIN sent /\ Range(Merged) \cap Range(applied) = {}
        /\ \A p \in Range(Merged) : p < at /\ IsKind(p, {"put", "batch"})
    <2>1. Range(Merged) \in SUBSET DOMAIN sent
      BY <1>1, <1>4, SeqFacts DEF Range
    <2>2. \A p \in Range(Merged), q \in Range(applied) : q < p /\ p \in Nat
      BY <1>1, <1>4, <1>6, SeqFacts DEF Range
    <2>3. \A p \in Range(Merged) : p < at /\ IsKind(p, {"put", "batch"})
      BY <1>4 DEF Range
    <2> QED BY <2>1, <2>2, <2>3
  <1>8. \A p \in waiting : p \notin Range(Merged) /\ p \notin Range(applied)
    BY <1>1, <1>7 DEF WaitingShape, IsKind
  <1>9. \A i \in DOMAIN applied : sent[applied[i]] # Stop /\ applied[i] < at
    BY <1>1 DEF BatchShape, Frontier
  <1>10. CASE applied' = applied \o Merged /\ Told(Range(Merged), "ok")
    <2>1. applied \in Seq(1..taken)
      BY <1>1 DEF ShapeOK
    <2>a. Merged \in Seq(1..taken)
      BY <1>2
    <2>2. /\ applied \o Merged \in Seq(1..taken)
          /\ Len(applied \o Merged) = Len(applied) + Len(Merged)
          /\ \A i \in 1..Len(applied) + Len(Merged) :
               (applied \o Merged)[i] = IF i <= Len(applied) THEN applied[i] ELSE Merged[i - Len(applied)]
      BY ONLY <2>1, <2>a, ConcatProperties
    <2>3. DOMAIN applied' = 1..Len(applied) + Len(Merged)
      BY <1>10, <2>2, LenProperties
    <2>4. \A i \in DOMAIN applied' :
            \/ i \in DOMAIN applied /\ applied'[i] = applied[i]
            \/ i - Len(applied) \in DOMAIN Merged /\ applied'[i] = Merged[i - Len(applied)] /\ i > Len(applied)
      BY <1>1, <1>3, <1>10, <2>2, <2>3, SeqFacts
    <2>5. Range(applied') = Range(applied) \cup Range(Merged)
      <3>1. \A i \in DOMAIN applied' : applied'[i] \in Range(applied) \cup Range(Merged)
        BY <2>4 DEF Range
      <3>2. \A i \in DOMAIN applied : applied[i] \in Range(applied')
        <4> SUFFICES ASSUME NEW i \in DOMAIN applied PROVE applied[i] \in Range(applied')
          OBVIOUS
        <4>1. i \in DOMAIN applied' /\ applied'[i] = applied[i]
          BY <1>1, <1>3, <1>10, <2>2, <2>3, SeqFacts
        <4> QED BY <4>1 DEF Range
      <3>3. \A i \in DOMAIN Merged : Merged[i] \in Range(applied')
        <4> SUFFICES ASSUME NEW i \in DOMAIN Merged PROVE Merged[i] \in Range(applied')
          OBVIOUS
        <4>1. PICK m \in Nat : m = i + Len(applied)
          BY <1>1, <1>3, SeqFacts
        <4>2. m \in 1..Len(applied) + Len(Merged) /\ ~(m <= Len(applied)) /\ m - Len(applied) = i
          BY <4>1, <1>1, <1>3, SeqFacts
        <4>3. m \in DOMAIN applied' /\ applied'[m] = Merged[i]
          BY <4>2, <1>10, <2>2, <2>3
        <4> QED BY <4>3 DEF Range
      <3> QED BY <3>1, <3>2, <3>3 DEF Range
    <2>6. OrderKept'
      <3> SUFFICES ASSUME NEW i \in DOMAIN applied', NEW j \in DOMAIN applied', i < j,
                          Ordered(applied[i], applied[j])'
                   PROVE  applied'[i] < applied'[j]
        BY DEF OrderKept
      <3>1. CASE i \in DOMAIN applied /\ j \in DOMAIN applied
        <4>1. applied'[i] = applied[i] /\ applied'[j] = applied[j]
          BY <3>1, <1>1, <2>4, SeqFacts
        <4>2. Ordered(applied[i], applied[j])
          BY <4>1 DEF Ordered, IsKind
        <4> QED BY <3>1, <4>1, <4>2, <1>1 DEF OrderKept
      <3>2. CASE i \in DOMAIN applied /\ j > Len(applied)
        <4>1. applied'[i] = applied[i] /\ applied'[j] = Merged[j - Len(applied)] /\ j - Len(applied) \in DOMAIN Merged
          BY <3>2, <1>1, <2>4, SeqFacts
        <4> QED BY <3>2, <4>1, <1>6
      <3>3. CASE i > Len(applied) /\ j > Len(applied)
        <4> DEFINE x == i - Len(applied)
                   y == j - Len(applied)
        <4>1. /\ applied'[i] = Merged[x] /\ x \in DOMAIN Merged
              /\ applied'[j] = Merged[y] /\ y \in DOMAIN Merged /\ x < y
          BY <3>3, <1>1, <2>3, <2>4, SeqFacts
        <4>2. Ordered(Merged[x], Merged[y])
          BY <4>1 DEF Ordered, IsKind
        <4>3. ~(x <= Len(puts) /\ y > Len(puts))
          <5> SUFFICES ASSUME x <= Len(puts), y > Len(puts) PROVE FALSE
            OBVIOUS
          <5>1. IsKind(Merged[x], {"put"}) /\ IsKind(Merged[y], {"batch"})
            BY <4>1, <1>4
          <5> QED BY <4>2, <5>1 DEF Ordered, IsKind
        <4>4. x > Len(puts) \/ y <= Len(puts)
          BY <4>1, <4>3, <1>1, <1>3, SeqFacts
        <4> QED BY <4>1, <4>4, <1>5
      <3> QED BY <3>1, <3>2, <3>3, <1>1, <2>3, SeqFacts
    <2>7. \A i \in DOMAIN applied' : sent'[applied'[i]] # Stop /\ applied'[i] < at
      BY <1>4, <1>9, <2>4 DEF IsKind
    <2>8. \A p \in Range(Merged) : Covered(p)'
      BY <2>5 DEF Covered
    <2>9. AnswersTrue'
      <3> DEFINE N == Range(Merged)
      <3>1. N \in SUBSET DOMAIN sent /\ N \subseteq N /\ Told(N, "ok") /\ (\A p \in N : Covered(p)')
            /\ Range(applied') = Range(applied) \cup N
        BY <1>7, <1>10, <2>5, <2>8
      <3> HIDE DEF N
      <3> QED BY <1>1, <3>1, AnswersStep
    <2> QED BY <1>7, <1>8, <1>10, <2>5, <2>6, <2>7, <2>9
  <1>11. CASE Told(Range(Merged), "failed") /\ UNCHANGED applied
    <2>1. OrderKept' /\ Range(applied') = Range(applied) \cup {}
      BY <1>11, SameCommits
    <2>2. AnswersTrue'
      BY <1>1, <1>7, <1>11, <2>1, AnswersStep
    <2> QED BY <1>7, <1>8, <1>9, <1>11, <2>1, <2>2
  <1> QED BY <1>10, <1>11 DEF Flush

CommitRest == BatchShape /\ WaitingShape /\ RepliesShape /\ AnswersTrue /\ OrderKept

\* Neither the channel nor the writer changes.
LEMMA CommitQuiet ==
  ASSUME Committing, UNCHANGED <<sent, writerVars>>
  PROVE  CommitRest'
  BY DEF Committing, CommitInv, CommitRest, BatchShape, WaitingShape, RepliesShape, AnswersTrue,
         OrderKept, Ordered, IsKind, Covered, Frontier, writerVars, Range

\* One more message in the channel: it has no reply yet, and the others keep
\* their positions.
LEMMA CommitSend ==
  ASSUME Committing, SentOnce', NEW x \in Request \cup {Stop}, sent' = Append(sent, x),
         UNCHANGED writerVars
  PROVE  CommitRest'
  <1>1. ShapeOK /\ BatchShape /\ WaitingShape /\ RepliesShape /\ AnswersTrue /\ OrderKept
    BY DEF Committing, CommitInv
  <1>2. /\ DOMAIN sent' = 1..Len(sent) + 1 /\ sent'[Len(sent) + 1] = x
        /\ \A p \in DOMAIN sent : sent'[p] = sent[p] /\ p \in DOMAIN sent'
    <2>1. sent \in Seq(Request \cup {Stop})
      BY <1>1 DEF ShapeOK
    <2>2. /\ sent' \in Seq(Request \cup {Stop}) /\ Len(sent') = Len(sent) + 1
          /\ \A p \in 1..Len(sent) : sent'[p] = sent[p]
          /\ sent'[Len(sent) + 1] = x
      BY <2>1, AppendProperties
    <2>3. DOMAIN sent' = 1..Len(sent) + 1
      BY <2>2, LenProperties
    <2> QED BY <1>1, <2>2, <2>3, SeqFacts
  <1>3. \A p \in 1..taken : p \in DOMAIN sent /\ sent'[p] = sent[p]
    BY <1>1, <1>2, SeqFacts
  <1>4. UNCHANGED <<taken, at, pc, puts, batches, waiting, applied, reply, Frontier>>
    BY DEF writerVars, Frontier
  <1>5. /\ \A i \in DOMAIN puts : puts[i] \in 1..taken
        /\ \A i \in DOMAIN batches : batches[i] \in 1..taken
        /\ \A i \in DOMAIN applied : applied[i] \in 1..taken
        /\ waiting \subseteq 1..taken
    BY <1>1, SeqFacts DEF ShapeOK
  <1>6. BatchShape'
    BY <1>1, <1>3, <1>4, <1>5 DEF BatchShape, IsKind
  <1>7. WaitingShape'
    BY <1>1, <1>3, <1>4, <1>5 DEF WaitingShape, IsKind, Range
  <1>8. RepliesShape'
    BY <1>1, <1>2, <1>4 DEF RepliesShape
  <1>9. OrderKept'
    BY <1>1, <1>3, <1>4, <1>5 DEF OrderKept, Ordered, IsKind
  <1>10. AnswersTrue'
    <2> SUFFICES ASSUME NEW p \in DOMAIN sent', sent'[p] # Stop
                 PROVE  /\ reply[sent'[p]] = "ok" => Covered(p)'
                        /\ reply[sent'[p]] = "failed" => p \notin Range(applied)
      BY <1>4 DEF AnswersTrue
    <2>1. CASE p \in DOMAIN sent
      <3>1. Covered(p) => Covered(p)'
        BY <2>1, <1>2, <1>3, <1>4, <1>5 DEF Covered, IsKind, Range
      <3> QED BY <2>1, <3>1, <1>1, <1>2 DEF AnswersTrue
    <2>2. CASE p = Len(sent) + 1
      <3>1. x \in Request /\ sent'[p] = x
        BY <2>2, <1>2
      <3>2. reply[x] = "none"
        <4> SUFFICES ASSUME reply[x] # "none" PROVE FALSE
          OBVIOUS
        <4>1. PICK q \in DOMAIN sent : sent[q] = x
          BY <3>1, <1>1 DEF RepliesShape
        <4>2. q = p
          BY <4>1, <3>1, <1>2 DEF SentOnce
        <4> QED BY <4>2, <2>2, <1>1, SeqFacts
      <3> QED BY <3>1, <3>2
    <2> QED BY <2>1, <2>2, <1>1, <1>2, SeqFacts
  <1> QED BY <1>6, <1>7, <1>8, <1>9, <1>10 DEF CommitRest

\* The shape of an empty batch.
LEMMA EmptyBatch ==
  ASSUME puts' = <<>>, batches' = <<>>,
         \A i \in DOMAIN applied' : sent'[applied'[i]] # Stop /\ applied'[i] < Frontier',
         pc' \in {"recv", "flush"} => at' = taken' + 1, pc' = "release" => at' <= taken'
  PROVE  BatchShape'
  <1>1. DOMAIN puts' = {} /\ DOMAIN batches' = {}
    OBVIOUS
  <1> QED BY <1>1 DEF BatchShape

\* Both may only move on: the frontier, and the waiting snapshots out.
LEMMA WaitingKept ==
  ASSUME ShapeOK, WaitingShape, sent' = sent, waiting' \subseteq waiting,
         Frontier <= Frontier', Frontier \in Nat, Frontier' \in Nat,
         \A p \in waiting' : p \notin Range(applied')
  PROVE  WaitingShape'
  <1>1. \A p \in waiting : p \in Nat
    BY SeqFacts DEF ShapeOK
  <1> QED BY <1>1 DEF WaitingShape, IsKind

\* The commit frontier does not lie behind the message being handled.
LEMMA FrontierNat == ShapeOK => Frontier \in Nat /\ at <= Frontier
  BY SeqFacts DEF Frontier

\* Steps that move the writer and change neither a reply nor a commit.
LEMMA CommitMove ==
  ASSUME Committing, ShapeOK', UNCHANGED <<sent, waiting, applied, reply, puts, batches>>,
         pc # "stopped", Frontier' = Frontier, at <= at',
         pc' \in {"recv", "release", "stopped"} => puts = <<>> /\ batches = <<>>,
         pc' \in {"recv", "flush"} => at' = taken' + 1, pc' = "release" => at' <= taken'
  PROVE  CommitRest'
  <1>1. ShapeOK /\ SentOnce /\ BatchShape /\ WaitingShape /\ RepliesShape /\ AnswersTrue /\ OrderKept
    BY DEF Committing, CommitInv
  <1>2. Frontier \in Nat /\ Frontier' \in Nat /\ at \in Nat /\ at' \in Nat
    BY <1>1, FrontierNat, SeqFacts DEF ShapeOK
  <1>3. BatchShape'
    <2>1. /\ \A i \in DOMAIN puts : puts[i] \in Nat
          /\ \A i \in DOMAIN batches : batches[i] \in Nat
      BY <1>1, SeqFacts
    <2> QED BY <1>1, <1>2, <2>1 DEF BatchShape, IsKind
  <1>4. OrderKept' /\ Range(applied') = Range(applied)
    BY <1>1 DEF OrderKept, Ordered, IsKind
  <1>5. WaitingShape'
    BY <1>1, <1>2, <1>4, WaitingKept DEF WaitingShape
  <1>6. RepliesShape'
    BY <1>1 DEF RepliesShape
  <1>7. AnswersTrue'
    BY <1>1, <1>4 DEF AnswersTrue, Covered, IsKind
  <1> QED BY <1>3, <1>4, <1>5, <1>6, <1>7 DEF CommitRest

\* A drain and the release of its reservations answer nobody.
LEMMA CommitDrain ==
  ASSUME Committing, ShapeOK', Drain \/ ReleaseOne \/ DropGuard
  PROVE  CommitRest'
  <1>1. ShapeOK /\ BatchShape
    BY DEF Committing, CommitInv
  <1>2. taken \in Nat /\ at \in Nat /\ at <= taken + 1
    BY <1>1, SeqFacts DEF ShapeOK
  <1>3. CASE Drain
    BY <1>1, <1>2, <1>3, CommitMove DEF Drain, BatchShape, Frontier, queueVars
  <1>4. CASE ReleaseOne
    BY <1>1, <1>2, <1>4, CommitMove DEF ReleaseOne, BatchShape, Frontier
  <1>5. CASE DropGuard
    BY <1>1, <1>2, <1>5, CommitMove DEF DropGuard, BatchShape, Frontier
  <1> QED BY <1>3, <1>4, <1>5

\* A put or a batch joins the writer's batch at its end.
LEMMA AppendLater ==
  ASSUME NEW s \in Seq(Nat), NEW x \in Nat, \A i \in DOMAIN s : s[i] < x,
         \A i, j \in DOMAIN s : i < j => s[i] < s[j]
  PROVE  /\ \A i \in DOMAIN Append(s, x) : Append(s, x)[i] = x \/ \E j \in DOMAIN s : Append(s, x)[i] = s[j]
         /\ \A i, j \in DOMAIN Append(s, x) : i < j => Append(s, x)[i] < Append(s, x)[j]
  <1>1. /\ Append(s, x) \in Seq(Nat) /\ Len(Append(s, x)) = Len(s) + 1
        /\ \A i \in 1..Len(s) : Append(s, x)[i] = s[i]
        /\ Append(s, x)[Len(s) + 1] = x
    BY AppendProperties
  <1>2. DOMAIN s = 1..Len(s) /\ Len(s) \in Nat /\ DOMAIN Append(s, x) = 1..Len(s) + 1
    BY <1>1, LenProperties
  <1>3. \A i \in 1..Len(s) + 1 : i \in 1..Len(s) \/ i = Len(s) + 1
    BY <1>2
  <1> QED BY <1>1, <1>2, <1>3

\* A put or a batch joins the merged transaction, or ends it first.
LEMMA CommitJoin ==
  ASSUME Committing, ShapeOK', HandlePut \/ HandleBatch
  PROVE  CommitRest'
  <1>1. ShapeOK /\ SentOnce /\ BatchShape /\ WaitingShape /\ RepliesShape /\ AnswersTrue /\ OrderKept
    BY DEF Committing, CommitInv
  <1>2. taken \in Nat /\ at \in Nat /\ at <= taken /\ pc = "handle" /\ pc' = "handle" /\ at' = at + 1
        /\ sent' = sent /\ applied' = applied /\ waiting' = waiting /\ taken' = taken
    BY <1>1, SeqFacts DEF HandlePut, HandleBatch, queueVars
  <1>3. Frontier = at /\ Frontier' = at + 1
    BY <1>2 DEF Frontier
  <1>4. OrderKept' /\ Range(applied') = Range(applied)
    BY <1>1, <1>2 DEF OrderKept, Ordered, IsKind
  <1>5. WaitingShape'
    <2>1. \A p \in waiting' : p \notin Range(applied')
      BY <1>1, <1>2, <1>4 DEF WaitingShape
    <2> QED BY <1>1, <1>2, <1>3, <2>1, WaitingKept
  <1>6. /\ puts \in Seq(Nat) /\ batches \in Seq(Nat)
        /\ \A i \in DOMAIN applied : applied[i] \in Nat
        /\ \A i \in DOMAIN puts : puts[i] \in Nat
        /\ \A i \in DOMAIN batches : batches[i] \in Nat
        /\ at \in 1..taken /\ at \in DOMAIN sent
    BY <1>1, <1>2, SeqWiden, SeqFacts DEF ShapeOK
  <1>7. /\ \A i \in DOMAIN puts : puts[i] < at
        /\ \A i \in DOMAIN batches : batches[i] < at
        /\ \A i \in DOMAIN applied : applied[i] < at /\ sent[applied[i]] # Stop
    BY <1>1, <1>3 DEF BatchShape
  <1>8. CASE puts' = Append(puts, at) /\ IsKind(at, {"put"}) /\ UNCHANGED <<reply, batches>>
    <2>1. /\ \A i \in DOMAIN puts' : puts'[i] = at \/ \E j \in DOMAIN puts : puts'[i] = puts[j]
          /\ \A i, j \in DOMAIN puts' : i < j => puts'[i] < puts'[j]
      BY <1>1, <1>6, <1>7, <1>8, AppendLater DEF BatchShape
    <2>2. BatchShape'
      BY <1>1, <1>2, <1>3, <1>6, <1>7, <1>8, <2>1 DEF BatchShape, IsKind
    <2>3. AnswersTrue'
      BY <1>1, <1>2, <1>4, <1>8 DEF AnswersTrue, Covered, IsKind
    <2>4. RepliesShape'
      <3>1. \A p \in DOMAIN sent : p < Frontier => p < Frontier'
        BY <1>1, <1>2, <1>3, SeqFacts
      <3> QED BY <1>1, <1>2, <1>8, <3>1 DEF RepliesShape
    <2> QED BY <1>4, <1>5, <2>2, <2>3, <2>4 DEF CommitRest
  <1>9. CASE batches' = Append(batches, at) /\ IsKind(at, {"batch"}) /\ UNCHANGED <<reply, puts>>
    <2>1. /\ \A i \in DOMAIN batches' : batches'[i] = at \/ \E j \in DOMAIN batches : batches'[i] = batches[j]
          /\ \A i, j \in DOMAIN batches' : i < j => batches'[i] < batches'[j]
      BY <1>1, <1>6, <1>7, <1>9, AppendLater DEF BatchShape
    <2>2. BatchShape'
      BY <1>1, <1>2, <1>3, <1>6, <1>7, <1>9, <2>1 DEF BatchShape, IsKind
    <2>3. AnswersTrue'
      BY <1>1, <1>2, <1>4, <1>9 DEF AnswersTrue, Covered, IsKind
    <2>4. RepliesShape'
      <3>1. \A p \in DOMAIN sent : p < Frontier => p < Frontier'
        BY <1>1, <1>2, <1>3, SeqFacts
      <3> QED BY <1>1, <1>2, <1>9, <3>1 DEF RepliesShape
    <2> QED BY <1>4, <1>5, <2>2, <2>3, <2>4 DEF CommitRest
  <1>10. CASE Told({at}, "failed") /\ UNCHANGED <<puts, batches>>
    <2>1. BatchShape'
      BY <1>1, <1>2, <1>3, <1>6, <1>7, <1>10 DEF BatchShape, IsKind
    <2>2. {at} \in SUBSET DOMAIN sent /\ {at} \cap Range(applied) = {} /\ Range(applied') = Range(applied) \cup {}
      <3>1. at \notin Range(applied)
        BY <1>2, <1>6, <1>7 DEF Range
      <3> QED BY <1>4, <1>6, <3>1
    <2>3. AnswersTrue'
      BY <1>1, <1>2, <1>10, <2>2, AnswersStep
    <2>4. RepliesShape'
      <3>1. \A p \in {at} : p < Frontier'
        BY <1>2, <1>3
      <3> QED BY <1>1, <1>2, <1>3, <1>10, <2>2, <3>1, RepliesStep
    <2> QED BY <1>4, <1>5, <2>1, <2>3, <2>4 DEF CommitRest
  <1> QED BY <1>8, <1>9, <1>10 DEF HandlePut, HandleBatch, queueVars

\* The writer's batch is committed ahead of another message or at the end.
LEMMA CommitFlush ==
  ASSUME Committing, ShapeOK', FlushFirst \/ (FlushLast /\ Flush)
  PROVE  CommitRest'
  <1>1. ShapeOK /\ SentOnce /\ BatchShape /\ WaitingShape /\ RepliesShape
    BY DEF Committing, CommitInv
  <1>2. /\ Flush /\ UNCHANGED <<sent, taken, at, waiting>> /\ pc \in {"handle", "flush"}
        /\ pc' \in {"handle", "recv"} /\ (pc' = "recv" => pc = "flush")
        /\ puts' = <<>> /\ batches' = <<>>
    BY DEF FlushFirst, FlushLast, Flush, queueVars
  <1>3. /\ Frontier = at /\ Frontier' = at /\ at \in Nat
    BY <1>1, <1>2, SeqFacts DEF Frontier
  <1>4. /\ OrderKept' /\ AnswersTrue'
        /\ \A i \in DOMAIN applied' : sent'[applied'[i]] # Stop /\ applied'[i] < at
        /\ \A p \in waiting : p \notin Range(applied')
        /\ Range(Merged) \in SUBSET DOMAIN sent /\ \A p \in Range(Merged) : p < at
        /\ \E answer : Told(Range(Merged), answer)
    BY <1>2, FlushCommits
  <1>5. BatchShape'
    <2>1. pc' = "recv" => at' = taken' + 1
      BY <1>1, <1>2 DEF BatchShape
    <2> QED BY <1>2, <1>3, <1>4, <2>1, EmptyBatch
  <1>6. WaitingShape'
    BY <1>1, <1>2, <1>3, <1>4, WaitingKept
  <1>7. RepliesShape'
    <2> DEFINE P == Range(Merged)
    <2>1. P \in SUBSET DOMAIN sent /\ (\A p \in P : p < Frontier') /\ \E answer : Told(P, answer)
      BY <1>3, <1>4
    <2> HIDE DEF P
    <2> QED BY <1>1, <1>2, <1>3, <2>1, RepliesStep
  <1> QED BY <1>4, <1>5, <1>6, <1>7 DEF CommitRest

\* A message that runs by itself: an answer, and a commit of its own or none.
LEMMA CommitAlone ==
  ASSUME Committing, ShapeOK', UNCHANGED <<sent, taken, puts, batches>>,
         pc = "handle", at <= taken, sent[at] # Stop, Merged = <<>>,
         (pc' = "release" /\ at' = at) \/ (pc' = "handle" /\ at' = at + 1),
         waiting' \subseteq waiting,
         NEW P \in SUBSET 1..at, at \in P,
         \/ /\ applied' = Append(applied, at) /\ Told(P, "ok")
            /\ \A p \in P \ {at} : IsKind(p, {"groups", "roles"}) /\ IsKind(at, {Kind[sent[p]]})
         \/ Told(P, "failed") /\ UNCHANGED applied /\ P \cap Range(applied) = {}
  PROVE  CommitRest'
  <1>1. ShapeOK /\ SentOnce /\ BatchShape /\ WaitingShape /\ RepliesShape /\ AnswersTrue /\ OrderKept
    BY DEF Committing, CommitInv
  <1>2. /\ taken \in Nat /\ at \in 1..taken /\ Frontier = at /\ Frontier' = at + 1
        /\ P \in SUBSET DOMAIN sent /\ puts' = <<>> /\ batches' = <<>>
        /\ \A p \in P : p < Frontier' /\ p \in Nat
    <2>1. taken \in Nat /\ at \in 1..taken /\ DOMAIN sent = 1..Len(sent) /\ taken <= Len(sent) /\ Len(sent) \in Nat
      BY <1>1, SeqFacts DEF ShapeOK
    <2>2. Frontier = at /\ Frontier' = at + 1
      BY <2>1 DEF Frontier
    <2>3. puts' = <<>> /\ batches' = <<>>
      BY <1>1, MergedEmpty
    <2>4. \A p \in P : p \in 1..at
      OBVIOUS
    <2> QED BY <2>1, <2>2, <2>3, <2>4
  <1>3. RepliesShape'
    <2>1. /\ \E answer : Told(P, answer)
          /\ Frontier <= Frontier' /\ Frontier \in Nat /\ Frontier' \in Nat /\ pc # "stopped"
      BY <1>2
    <2> QED BY <1>1, <1>2, <2>1, RepliesStep
  <1>4. /\ OrderKept' /\ AnswersTrue'
        /\ \A i \in DOMAIN applied' : sent'[applied'[i]] # Stop /\ applied'[i] < Frontier'
        /\ \A p \in waiting : p \notin Range(applied')
    <2>1. CASE /\ applied' = Append(applied, at) /\ Told(P, "ok")
               /\ \A p \in P \ {at} : IsKind(p, {"groups", "roles"}) /\ IsKind(at, {Kind[sent[p]]})
      <3>1. /\ OrderKept'
            /\ \A i \in DOMAIN applied' : sent'[applied'[i]] # Stop /\ applied'[i] <= at
            /\ Range(applied') = Range(applied) \cup {at}
        BY <2>1, OneCommitted
      <3>2. \A i \in DOMAIN applied' : applied'[i] \in Nat
        <4>1. applied' \in Seq(1..taken') /\ taken' \in Nat
          BY <1>2 DEF ShapeOK
        <4> QED BY <4>1, ElementOfSeq, LenProperties
      <3>3. \A p \in P : Covered(p)'
        <4> SUFFICES ASSUME NEW p \in P PROVE Covered(p)'
          OBVIOUS
        <4>1. at \in Range(applied')
          BY <3>1
        <4>2. p = at \/ (at > p /\ IsKind(p, {"groups", "roles"}) /\ IsKind(at, {Kind[sent[p]]}))
          BY <1>2, <2>1
        <4> QED BY <4>1, <4>2 DEF Covered, IsKind
      <3>4. AnswersTrue'
        BY <1>1, <1>2, <2>1, <3>1, <3>3, AnswersStep
      <3>5. \A p \in waiting : p \notin Range(applied')
        BY <1>1, <1>2, <3>1 DEF WaitingShape
      <3> QED BY <1>2, <3>1, <3>2, <3>4, <3>5
    <2>2. CASE Told(P, "failed") /\ UNCHANGED applied /\ P \cap Range(applied) = {}
      <3>1. OrderKept' /\ Range(applied') = Range(applied) \cup {}
        BY <2>2, SameCommits
      <3>2. AnswersTrue'
        BY <1>1, <1>2, <2>2, <3>1, AnswersStep
      <3>3. \A i \in DOMAIN applied : applied[i] < at /\ sent[applied[i]] # Stop /\ applied[i] \in Nat
        BY <1>1, <1>2, SeqFacts DEF BatchShape
      <3> QED BY <1>1, <1>2, <2>2, <3>1, <3>2, <3>3 DEF WaitingShape
    <2> QED BY <2>1, <2>2
  <1>5. BatchShape'
    BY <1>2, <1>4, EmptyBatch
  <1>6. WaitingShape'
    BY <1>1, <1>2, <1>4, WaitingKept
  <1> QED BY <1>3, <1>4, <1>5, <1>6 DEF CommitRest

\* A message with a transaction of its own.
LEMMA CommitInline ==
  ASSUME Committing, ShapeOK', HandleInline
  PROVE  CommitRest'
  <1>1. ShapeOK /\ BatchShape
    BY DEF Committing, CommitInv
  <1>2. /\ UNCHANGED <<sent, taken, puts, batches, waiting>>
        /\ pc = "handle" /\ at <= taken /\ sent[at] # Stop /\ Merged = <<>>
        /\ (pc' = "release" /\ at' = at) \/ (pc' = "handle" /\ at' = at + 1)
        /\ \/ applied' = Append(applied, at) /\ Told({at}, "ok")
           \/ Told({at}, "failed") /\ UNCHANGED applied
    <2>1. Ready({"inline"}) /\ UNCHANGED <<sent, taken, puts, batches, waiting>>
      BY DEF HandleInline, queueVars
    <2>2. pc = "handle" /\ at <= taken /\ sent[at] # Stop /\ Merged = <<>>
      BY <2>1 DEF Ready, IsKind
    <2>3. CASE applied' = Append(applied, at) /\ Told({at}, "ok") /\ pc' = "release" /\ UNCHANGED at
      BY <2>1, <2>2, <2>3
    <2>4. CASE /\ Told({at}, "failed") /\ UNCHANGED applied
               /\ (pc' = "release" /\ UNCHANGED at) \/ (at' = at + 1 /\ UNCHANGED pc)
      BY <2>1, <2>2, <2>4
    <2> QED BY <2>3, <2>4 DEF HandleInline
  <1>3. at \in 1..at /\ at \notin Range(applied)
    <2>1. \A i \in DOMAIN applied : applied[i] < at /\ applied[i] \in Nat
      BY <1>1, <1>2, SeqFacts DEF BatchShape, Frontier
    <2>2. at \in Nat /\ at >= 1
      BY <1>1, SeqFacts DEF ShapeOK
    <2> QED BY <2>1, <2>2 DEF Range
  <1> DEFINE P == {at}
  <1>4. P \in SUBSET 1..at /\ at \in P /\ P \cap Range(applied) = {} /\ P \ {at} = {}
        /\ (Told({at}, "ok") => Told(P, "ok")) /\ (Told({at}, "failed") => Told(P, "failed"))
    BY <1>3
  <1> HIDE DEF P
  <1> QED BY <1>2, <1>4, CommitAlone

\* A snapshot waits to be coalesced.
LEMMA CommitSave ==
  ASSUME Committing, ShapeOK', HandleSave
  PROVE  CommitRest'
  <1>1. ShapeOK /\ BatchShape /\ WaitingShape
    BY DEF Committing, CommitInv
  <1> DEFINE P == {p \in waiting : Kind[sent[p]] = Kind[sent[at]]} \cup {at}
  <1>2. /\ UNCHANGED <<sent, taken, puts, batches>> /\ waiting' \subseteq waiting
        /\ pc = "handle" /\ at <= taken /\ sent[at] # Stop /\ Merged = <<>>
        /\ pc' = "release" /\ at' = at
        /\ \/ applied' = Append(applied, at) /\ Told(P, "ok")
           \/ Told(P, "failed") /\ UNCHANGED applied
    BY DEF HandleSave, Ready, IsKind, queueVars
  <1>3. at \in 1..at /\ at \notin Range(applied)
    <2>1. \A i \in DOMAIN applied : applied[i] < at /\ applied[i] \in Nat
      BY <1>1, <1>2, SeqFacts DEF BatchShape, Frontier
    <2>2. at \in Nat /\ at >= 1
      BY <1>1, SeqFacts DEF ShapeOK
    <2> QED BY <2>1, <2>2 DEF Range
  <1>4. \A p \in waiting : p \in 1..at /\ p \notin Range(applied) /\ IsKind(p, {"groups", "roles"})
    <2>1. waiting \subseteq 1..taken /\ taken \in Nat /\ at \in Nat /\ Frontier = at
      BY <1>1, <1>2, SeqFacts DEF ShapeOK, Frontier
    <2> QED BY <1>1, <2>1 DEF WaitingShape
  <1>5. \A p \in P \ {at} : IsKind(p, {"groups", "roles"}) /\ IsKind(at, {Kind[sent[p]]})
    BY <1>2, <1>4 DEF IsKind
  <1>6. P \in SUBSET 1..at /\ at \in P /\ P \cap Range(applied) = {}
    BY <1>3, <1>4
  <1> HIDE DEF P
  <1>7. CASE applied' = Append(applied, at) /\ Told(P, "ok")
    BY <1>2, <1>5, <1>6, <1>7, CommitAlone
  <1>8. CASE Told(P, "failed") /\ UNCHANGED applied
    BY <1>2, <1>5, <1>6, <1>8, CommitAlone
  <1> QED BY <1>2, <1>7, <1>8

\* A newer snapshot takes the place of the waiting one.
LEMMA CommitCoalesce ==
  ASSUME Committing, ShapeOK', Coalesce
  PROVE  CommitRest'
  <1>1. ShapeOK /\ BatchShape /\ WaitingShape /\ RepliesShape /\ AnswersTrue /\ OrderKept
    BY DEF Committing, CommitInv
  <1>2. /\ UNCHANGED <<sent, taken, at, puts, batches, applied, reply>> /\ waiting' = waiting \cup {at}
        /\ pc = "handle" /\ at <= taken /\ IsKind(at, {"groups", "roles"}) /\ pc' = "release"
        /\ Merged = <<>>
    BY DEF Coalesce, Ready, queueVars
  <1>3. /\ puts' = <<>> /\ batches' = <<>> /\ at \in Nat /\ Frontier = at /\ Frontier' = at + 1
        /\ \A i \in DOMAIN applied : applied[i] < at /\ applied[i] \in Nat /\ sent[applied[i]] # Stop
        /\ \A p \in DOMAIN sent : p \in Nat
        /\ \A p \in waiting : p \in Nat
    BY <1>1, <1>2, SeqFacts, MergedEmpty DEF BatchShape, Frontier, ShapeOK
  <1>4. at \notin Range(applied) /\ Range(applied') = Range(applied)
    BY <1>2, <1>3 DEF Range
  <1>5. BatchShape'
    BY <1>2, <1>3, EmptyBatch
  <1>6. WaitingShape'
    BY <1>1, <1>2, <1>3, <1>4 DEF WaitingShape, IsKind
  <1>7. RepliesShape'
    BY <1>1, <1>2, <1>3 DEF RepliesShape
  <1>8. AnswersTrue' /\ OrderKept'
    BY <1>1, <1>2, <1>4 DEF AnswersTrue, Covered, OrderKept, Ordered, IsKind
  <1> QED BY <1>5, <1>6, <1>7, <1>8 DEF CommitRest

\* The stop message flushes what is open and answers the rest.
LEMMA CommitStop ==
  ASSUME Committing, ShapeOK', HandleStop
  PROVE  CommitRest'
  <1>1. ShapeOK /\ SentOnce /\ BatchShape /\ WaitingShape /\ RepliesShape /\ AnswersTrue /\ OrderKept
    BY DEF Committing, CommitInv
  <1> DEFINE P == Unanswered(DOMAIN sent)
  <1>2. /\ UNCHANGED <<sent, taken, at, puts, batches, applied>> /\ waiting' = {}
        /\ pc = "handle" /\ pc' = "stopped" /\ Merged = <<>> /\ Told(P, "lost")
    BY DEF HandleStop
  <1>3. puts' = <<>> /\ batches' = <<>> /\ Frontier' = Frontier /\ Frontier \in Nat
    BY <1>1, <1>2, MergedEmpty, FrontierNat DEF Frontier
  <1>4. P \in SUBSET DOMAIN sent
    BY DEF Unanswered
  <1> HIDE DEF P
  <1>5. OrderKept' /\ Range(applied') = Range(applied) \cup {}
    BY <1>2, SameCommits
  <1>6. AnswersTrue'
    BY <1>1, <1>2, <1>4, <1>5, AnswersStep
  <1>7. RepliesShape'
    BY <1>1, <1>2, <1>3, <1>4, RepliesStep
  <1>8. BatchShape'
    <2>1. \A i \in DOMAIN applied' : sent'[applied'[i]] # Stop /\ applied'[i] < Frontier'
      BY <1>1, <1>2, <1>3 DEF BatchShape
    <2> QED BY <1>2, <1>3, <2>1, EmptyBatch
  <1>9. WaitingShape'
    BY <1>2 DEF WaitingShape
  <1> QED BY <1>5, <1>6, <1>7, <1>8, <1>9 DEF CommitRest

\* A panic revokes the open batch, drops the rest, and leaves the commit of a
\* handler with a transaction of its own, whose caller is told nothing.
LEMMA CommitPanic ==
  ASSUME Committing, ShapeOK', Panic
  PROVE  CommitRest'
  <1>1. ShapeOK /\ SentOnce /\ BatchShape /\ WaitingShape /\ RepliesShape /\ AnswersTrue /\ OrderKept
    BY DEF Committing, CommitInv
  <1> DEFINE stop == \E p \in at..taken : sent[p] = Stop
             R == Range(Merged)
             D == Unanswered((IF stop THEN DOMAIN sent ELSE 1..taken) \ R)
  <1>2. /\ UNCHANGED <<sent, taken>> /\ waiting' = {} /\ puts' = <<>> /\ batches' = <<>>
        /\ at' = taken + 1 /\ pc = "handle" /\ at <= taken
        /\ pc' = IF stop THEN "stopped" ELSE "recv"
        /\ UNCHANGED applied \/ (Ready({"inline"}) /\ applied' = Append(applied, at))
        /\ reply' = [r \in Request |->
                          IF \E p \in R : sent[p] = r THEN "failed"
                          ELSE IF \E p \in D : sent[p] = r THEN "lost"
                          ELSE reply[r]]
    BY DEF Panic
  <1>3. /\ taken \in Nat /\ at \in Nat /\ Frontier = at /\ Frontier' = taken + 1
        /\ DOMAIN sent = 1..Len(sent) /\ Len(sent) \in Nat /\ taken <= Len(sent)
    BY <1>1, <1>2, SeqFacts DEF Frontier
  <1>4. R \in SUBSET (1..taken) /\ R \cap Range(applied) = {}
    <2>1. R = Range(puts) \cup Range(batches)
      BY <1>1, MergedRange
    <2>2. \A i \in DOMAIN puts : puts[i] \in 1..taken /\ puts[i] \notin Range(applied)
      BY <1>1, SeqFacts DEF BatchShape, Range
    <2>3. \A i \in DOMAIN batches : batches[i] \in 1..taken /\ batches[i] \notin Range(applied)
      BY <1>1, SeqFacts DEF BatchShape, Range
    <2> QED BY <2>1, <2>2, <2>3 DEF Range
  <1>5. /\ D \in SUBSET DOMAIN sent
        /\ \A p \in D : p \in 1..taken \/ pc' = "stopped"
        /\ \A p \in 1..taken : p \notin R /\ sent[p] # Stop /\ reply[sent[p]] = "none" => p \in D
    BY <1>2, <1>3 DEF Unanswered
  <1>6. \A i \in DOMAIN applied : applied[i] < at /\ applied[i] \in Nat /\ sent[applied[i]] # Stop
    BY <1>1, <1>3, SeqFacts DEF BatchShape
  <1>7. /\ OrderKept' /\ \A i \in DOMAIN applied' : sent'[applied'[i]] # Stop /\ applied'[i] < Frontier'
        /\ Range(applied) \subseteq Range(applied')
        /\ Range(applied') \subseteq Range(applied) \cup {at}
        /\ at \in Range(applied') => Ready({"inline"}) /\ sent[at] # Stop
    <2>1. CASE UNCHANGED applied
      <3>1. OrderKept' /\ Range(applied') = Range(applied)
        BY <1>1, <1>2, <2>1 DEF OrderKept, Ordered, IsKind
      <3>2. at \notin Range(applied)
        BY <1>3, <1>6 DEF Range
      <3> QED BY <1>2, <1>3, <1>6, <2>1, <3>1, <3>2
    <2>2. CASE Ready({"inline"}) /\ applied' = Append(applied, at)
      <3>1. sent[at] # Stop /\ Merged = <<>>
        BY <2>2 DEF Ready, IsKind
      <3>2. /\ OrderKept'
            /\ \A i \in DOMAIN applied' : sent'[applied'[i]] # Stop /\ applied'[i] <= at
            /\ Range(applied') = Range(applied) \cup {at}
        BY <1>2, <2>2, <3>1, OneCommitted
      <3>3. \A i \in DOMAIN applied' : applied'[i] \in Nat
        <4>1. applied' \in Seq(1..taken') /\ taken' \in Nat
          BY <1>2, <1>3 DEF ShapeOK
        <4> QED BY <4>1, ElementOfSeq, LenProperties
      <3> QED BY <1>2, <1>3, <2>2, <3>1, <3>2, <3>3
    <2> QED BY <1>2, <2>1, <2>2
  <1>8. BatchShape'
    BY <1>2, <1>7, EmptyBatch
  <1>9. WaitingShape'
    BY <1>2 DEF WaitingShape
  <1>10. \A p \in DOMAIN sent : sent[p] # Stop =>
           reply'[sent[p]] = IF p \in R THEN "failed" ELSE IF p \in D THEN "lost" ELSE reply[sent[p]]
    <2> SUFFICES ASSUME NEW p \in DOMAIN sent, sent[p] # Stop
                 PROVE  reply'[sent[p]] = IF p \in R THEN "failed" ELSE IF p \in D THEN "lost" ELSE reply[sent[p]]
      OBVIOUS
    <2>1. R \in SUBSET DOMAIN sent
      BY <1>3, <1>4
    <2> HIDE DEF R, D
    <2>2. sent[p] \in Request
      BY <1>1, SentRequest
    <2>3. /\ (\E q \in R : sent[q] = sent[p]) <=> p \in R
          /\ (\E q \in D : sent[q] = sent[p]) <=> p \in D
      BY <1>1, <1>5, <2>1 DEF SentOnce
    <2> QED BY <1>2, <2>2, <2>3
  <1> HIDE DEF R, D, stop
  <1>11. AnswersTrue'
    <2> SUFFICES ASSUME NEW p \in DOMAIN sent, sent[p] # Stop
                 PROVE  /\ reply'[sent[p]] = "ok" => Covered(p)'
                        /\ reply'[sent[p]] = "failed" => p \notin Range(applied')
      BY <1>2 DEF AnswersTrue
    <2>1. /\ reply[sent[p]] = "ok" => Covered(p)
          /\ reply[sent[p]] = "failed" => p \notin Range(applied)
      BY <1>1 DEF AnswersTrue
    <2>2. Covered(p) => Covered(p)'
      BY <1>2, <1>7, CoverKept
    <2>3. reply'[sent[p]] = "ok" => Covered(p)'
      BY <1>10, <2>1, <2>2
    <2>4. CASE p = at /\ at \in Range(applied')
      \* Its caller had no reply: the drain had not passed it.
      <3>1. Merged = <<>>
        BY <1>7, <2>4 DEF Ready
      <3>2. p \notin R
        <4>1. puts = <<>> /\ batches = <<>>
          BY <1>1, <3>1, MergedEmpty
        <4>2. Range(puts) = {} /\ Range(batches) = {}
          BY <4>1 DEF Range
        <4>3. R = {}
          BY <1>1, <4>2, MergedRange DEF R
        <4> QED BY <4>3
      <3>3. reply[sent[p]] = "none"
        <4> SUFFICES ASSUME reply[sent[p]] # "none" PROVE FALSE
          OBVIOUS
        <4>1. sent[p] \in Request
          BY <1>1, SentRequest
        <4>2. PICK q \in DOMAIN sent : sent[q] = sent[p] /\ q < Frontier
          BY <1>1, <1>2, <4>1 DEF RepliesShape
        <4>3. q = p
          BY <1>1, <4>2 DEF SentOnce
        <4> QED BY <4>2, <4>3, <2>4, <1>3
      <3>4. p \in 1..taken
        BY <1>2, <1>3, <2>4
      <3>5. p \in D
        BY <1>5, <3>2, <3>3, <3>4
      <3> QED BY <1>10, <2>3, <3>2, <3>5
    <2>5. CASE ~(p = at /\ at \in Range(applied'))
      <3>1. p \in Range(applied') => p \in Range(applied)
        BY <1>7, <2>5
      <3>2. p \in R => p \notin Range(applied)
        BY <1>4
      <3> QED BY <1>10, <2>1, <2>3, <3>1, <3>2
    <2> QED BY <2>4, <2>5
  <1>12. RepliesShape'
    <2> SUFFICES ASSUME NEW r \in Request, reply'[r] # "none"
                 PROVE  \E p \in DOMAIN sent : sent[p] = r /\ (p < Frontier' \/ pc' = "stopped")
      BY <1>2 DEF RepliesShape
    <2>1. CASE \E p \in R : sent[p] = r
      <3>1. PICK p \in R : sent[p] = r
        BY <2>1
      <3>2. p \in 1..taken
        BY <1>4
      <3> QED BY <1>3, <3>1, <3>2
    <2>2. CASE \E p \in D : sent[p] = r
      <3>1. PICK p \in D : sent[p] = r
        BY <2>2
      <3>2. p \in DOMAIN sent /\ (p \in 1..taken \/ pc' = "stopped")
        BY <1>5
      <3> QED BY <1>3, <3>1, <3>2
    <2>3. CASE reply'[r] = reply[r]
      <3>1. PICK p \in DOMAIN sent : sent[p] = r /\ p < Frontier
        BY <1>1, <1>2, <2>3 DEF RepliesShape
      <3> QED BY <1>2, <1>3, <3>1
    <2> QED BY <1>2, <2>1, <2>2, <2>3
  <1> QED BY <1>7, <1>8, <1>9, <1>11, <1>12 DEF CommitRest

\* The message at hand has no answer: the drain has not passed it.
LEMMA AtOpen ==
  ASSUME Committing, pc = "handle", at <= taken, sent[at] # Stop
  PROVE  reply[sent[at]] = "none" /\ at \in DOMAIN sent /\ at \in Nat
  <1>1. ShapeOK /\ SentOnce /\ RepliesShape
    BY DEF Committing, CommitInv
  <1>2. at \in DOMAIN sent /\ at \in Nat /\ Frontier = at
    BY <1>1, SeqFacts DEF ShapeOK, Frontier
  <1>3. sent[at] \in Request
    BY <1>1, <1>2, SentRequest
  <1>4. ASSUME reply[sent[at]] # "none" PROVE FALSE
    <2>1. PICK q \in DOMAIN sent : sent[q] = sent[at] /\ q < Frontier
      BY <1>1, <1>3, <1>4 DEF RepliesShape
    <2>2. q = at
      BY <1>1, <1>2, <2>1 DEF SentOnce
    <2> QED BY <1>2, <2>1, <2>2
  <1> QED BY <1>2, <1>4

\* What the writer holds open lies before the message at hand.
LEMMA OpenBefore ==
  ASSUME Committing
  PROVE  /\ \A i \in DOMAIN puts : puts[i] \in DOMAIN sent /\ puts[i] < at /\ sent[puts[i]] # Stop
         /\ \A i \in DOMAIN batches : batches[i] \in DOMAIN sent /\ batches[i] < at /\ sent[batches[i]] # Stop
         /\ \A p \in waiting : p \in DOMAIN sent /\ p < Frontier /\ sent[p] # Stop
         /\ Range(Merged) \in SUBSET DOMAIN sent /\ Range(Merged) \cap waiting = {}
         /\ \A p \in Range(Merged) : reply[sent[p]] = "none" /\ p < at
  <1>1. ShapeOK /\ BatchShape /\ WaitingShape /\ OpenShape
    BY DEF Committing, CommitInv
  <1>2. \A i \in DOMAIN puts : puts[i] \in DOMAIN sent /\ puts[i] < at /\ IsKind(puts[i], {"put"})
    BY <1>1, SeqFacts DEF BatchShape
  <1>3. \A i \in DOMAIN batches : batches[i] \in DOMAIN sent /\ batches[i] < at /\ IsKind(batches[i], {"batch"})
    BY <1>1, SeqFacts DEF BatchShape
  <1>4. \A p \in waiting : p \in DOMAIN sent /\ p < Frontier /\ IsKind(p, {"groups", "roles"})
    BY <1>1, SeqFacts DEF WaitingShape, ShapeOK
  <1>5. Range(Merged) = Range(puts) \cup Range(batches)
    BY <1>1, MergedRange
  <1>6. \A p \in Range(Merged) : /\ p \in DOMAIN sent /\ p < at /\ reply[sent[p]] = "none"
                                 /\ IsKind(p, {"put", "batch"})
    BY <1>1, <1>2, <1>3, <1>5 DEF Range, OpenShape, IsKind
  <1> QED BY <1>2, <1>3, <1>4, <1>6 DEF IsKind

\* A step that tells P something leaves the others open.
LEMMA OpenTold ==
  ASSUME Committing, sent' = sent, NEW P \in SUBSET DOMAIN sent, NEW answer, Told(P, answer),
         (puts' = puts /\ batches' = batches) \/ (puts' = <<>> /\ batches' = <<>>),
         waiting' \subseteq waiting, waiting' \cap P = {},
         puts' = puts => \A p \in P : p >= at /\ p \in Nat
  PROVE  OpenShape'
  <1>1. ShapeOK /\ SentOnce /\ OpenShape
    BY DEF Committing, CommitInv
  <1>2. \A p \in DOMAIN sent : sent[p] # Stop => reply'[sent[p]] = IF p \in P THEN answer ELSE reply[sent[p]]
    BY <1>1, ToldAt
  <1>3. \A p \in waiting' : reply'[sent[p]] = "none"
    BY <1>1, <1>2, OpenBefore DEF OpenShape
  <1>4. CASE puts' = <<>> /\ batches' = <<>>
    <2>1. DOMAIN puts' = {} /\ DOMAIN batches' = {}
      BY <1>4
    <2> QED BY <1>3, <2>1 DEF OpenShape
  <1>5. CASE puts' = puts /\ batches' = batches
    <2>1. \A i \in DOMAIN puts : puts[i] \notin P
      BY <1>1, <1>5, OpenBefore, SeqFacts
    <2>2. \A i \in DOMAIN batches : batches[i] \notin P
      BY <1>1, <1>5, OpenBefore, SeqFacts
    <2> QED BY <1>1, <1>2, <1>3, <1>5, <2>1, <2>2, OpenBefore DEF OpenShape
  <1> QED BY <1>4, <1>5

\* An answer is given once, and only to a message that was sent.
Final == /\ \A p \in DOMAIN sent : sent[p] # Stop /\ reply'[sent[p]] # reply[sent[p]] => reply[sent[p]] = "none"
         /\ \A r \in Request : reply'[r] # reply[r] => \E p \in DOMAIN sent : sent[p] = r

\* An answer is given once.
LEMMA FinalTold ==
  ASSUME ShapeOK, SentOnce, NEW P \in SUBSET DOMAIN sent, NEW answer, Told(P, answer),
         \A p \in P : sent[p] # Stop => reply[sent[p]] = "none"
  PROVE  Final
  BY ToldAt DEF Final

\* The log of commits only grows at its end.
Longer == /\ Len(applied) <= Len(applied') /\ \A i \in DOMAIN applied : applied'[i] = applied[i]

\* The log grows by one message.
LEMMA LongerOne ==
  ASSUME ShapeOK, NEW x \in 1..taken, applied' = applied \/ applied' = Append(applied, x)
  PROVE  Longer
  BY AppendApplied, SeqFacts DEF Longer

\* Every step of the writer answers once, extends the log and leaves open what it holds open.
LEMMA WriterSettles ==
  ASSUME Committing, Writer
  PROVE  sent' = sent /\ Final /\ Longer /\ OpenShape'
  <1>1. ShapeOK /\ SentOnce /\ BatchShape /\ WaitingShape /\ OpenShape
    BY DEF Committing, CommitInv
  <1>2. sent' = sent
    BY DEF Writer, Drain, HandlePut, HandleBatch, FlushFirst, HandleInline, Coalesce, HandleSave,
       ReleaseOne,
           DropGuard, FlushLast, HandleStop, Panic, queueVars
  <1>3. /\ UNCHANGED reply => Final
        /\ UNCHANGED applied => Longer
    BY <1>1, SeqFacts DEF Final, Longer
  <1>4. CASE UNCHANGED <<reply, applied, puts, batches, waiting>>
    BY <1>1, <1>2, <1>3, <1>4 DEF OpenShape
  <1>5. CASE HandlePut
    <2>1. /\ pc = "handle" /\ at <= taken /\ sent[at] # Stop /\ UNCHANGED <<applied, batches, waiting>>
      BY <1>5 DEF HandlePut, IsKind
    <2>2. reply[sent[at]] = "none" /\ at \in DOMAIN sent /\ at \in Nat /\ Frontier = at
      BY <2>1, AtOpen DEF Frontier
    <2>3. CASE puts' = Append(puts, at) /\ UNCHANGED reply
      <3>1. puts \in Seq(Nat) /\ (\A i \in DOMAIN puts : puts[i] < at)
            /\ \A i, j \in DOMAIN puts : i < j => puts[i] < puts[j]
        <4>1. puts \in Seq(Nat)
          BY <1>1, SeqWiden, SeqFacts DEF ShapeOK
        <4> QED BY <1>1, <4>1 DEF BatchShape
      <3>2. \A i \in DOMAIN puts' : puts'[i] = at \/ \E j \in DOMAIN puts : puts'[i] = puts[j]
        BY <2>2, <2>3, <3>1, AppendLater
      <3> QED BY <1>1, <1>2, <1>3, <2>1, <2>2, <2>3, <3>2 DEF OpenShape
    <2>4. CASE Told({at}, "failed") /\ UNCHANGED puts
      <3>1. {at} \in SUBSET DOMAIN sent /\ waiting' \cap {at} = {} /\ waiting' \subseteq waiting
        BY <2>1, <2>2, OpenBefore
      <3>2. OpenShape'
        BY <1>2, <2>1, <2>2, <2>4, <3>1, OpenTold
      <3> QED BY <1>1, <1>2, <1>3, <2>1, <2>2, <2>4, <3>1, <3>2, FinalTold
    <2> QED BY <1>5, <2>3, <2>4 DEF HandlePut
  <1>6. CASE HandleBatch
    <2>1. /\ pc = "handle" /\ at <= taken /\ sent[at] # Stop /\ UNCHANGED <<applied, puts, waiting, reply>>
          /\ batches' = Append(batches, at)
      BY <1>6 DEF HandleBatch, IsKind
    <2>2. reply[sent[at]] = "none" /\ at \in DOMAIN sent /\ at \in Nat
      BY <2>1, AtOpen
    <2>3. batches \in Seq(Nat) /\ (\A i \in DOMAIN batches : batches[i] < at)
          /\ \A i, j \in DOMAIN batches : i < j => batches[i] < batches[j]
      <3>1. batches \in Seq(Nat)
        BY <1>1, SeqWiden, SeqFacts DEF ShapeOK
      <3> QED BY <1>1, <3>1 DEF BatchShape
    <2>4. \A i \in DOMAIN batches' : batches'[i] = at \/ \E j \in DOMAIN batches : batches'[i] = batches[j]
      BY <2>1, <2>2, <2>3, AppendLater
    <2> QED BY <1>1, <1>2, <1>3, <2>1, <2>2, <2>4 DEF OpenShape
  <1>7. CASE (FlushFirst \/ FlushLast) /\ Flush
    <2> DEFINE P == Range(Merged)
    <2>1. /\ puts' = <<>> /\ batches' = <<>> /\ waiting' = waiting
          /\ \E answer : Told(P, answer)
          /\ applied' = applied \/ applied' = applied \o Merged
      BY <1>7 DEF Flush, FlushFirst, FlushLast
    <2>2. P \in SUBSET DOMAIN sent /\ waiting \cap P = {} /\ \A p \in P : reply[sent[p]] = "none"
      BY OpenBefore
    <2> HIDE DEF P
    <2>3. PICK answer : Told(P, answer)
      BY <2>1
    <2>4. Final
      BY <1>1, <2>2, <2>3, FinalTold
    <2>5. OpenShape'
      <3>1. CASE puts' = puts
        <4>1. puts = <<>> /\ DOMAIN puts' = {} /\ DOMAIN batches' = {}
          BY <2>1, <3>1
        <4>2. \A p \in waiting : p \in DOMAIN sent /\ p \notin P /\ sent[p] # Stop /\ reply[sent[p]] = "none"
          BY <1>1, <2>2, OpenBefore DEF OpenShape
        <4>3. \A p \in DOMAIN sent : sent[p] # Stop =>
                 reply'[sent[p]] = IF p \in P THEN answer ELSE reply[sent[p]]
          BY <1>1, <2>2, <2>3, ToldAt
        <4>4. \A p \in waiting' : reply'[sent[p]] = "none"
          BY <2>1, <4>2, <4>3
        <4> QED BY <1>2, <4>1, <4>4 DEF OpenShape
      <3>2. CASE puts' # puts
        BY <1>2, <2>1, <2>2, <2>3, <3>2, OpenTold
      <3> QED BY <3>1, <3>2
    <2>6. Longer
      <3>1. CASE applied' = applied \o Merged
        <4>1. applied \in Seq(1..taken) /\ Merged \in Seq(1..taken)
          BY <1>1, ConcatProperties DEF ShapeOK, Merged
        <4>2. /\ Len(applied \o Merged) = Len(applied) + Len(Merged)
              /\ \A i \in 1..Len(applied) + Len(Merged) :
                   (applied \o Merged)[i] = IF i <= Len(applied) THEN applied[i] ELSE Merged[i - Len(applied)]
          BY ONLY <4>1, ConcatProperties
        <4>3. Len(Merged) \in Nat
          BY <4>1, LenProperties
        <4> QED BY <1>1, <3>1, <4>2, <4>3, SeqFacts DEF Longer
      <3> QED BY <1>3, <2>1, <3>1
    <2> QED BY <1>2, <2>4, <2>5, <2>6
  <1>8. CASE HandleInline
    <2>1. /\ Ready({"inline"}) /\ UNCHANGED <<puts, batches, waiting>>
          /\ \E answer : Told({at}, answer)
          /\ applied' = applied \/ applied' = Append(applied, at)
      BY <1>8 DEF HandleInline
    <2>2. pc = "handle" /\ at <= taken /\ sent[at] # Stop
      BY <2>1 DEF Ready, IsKind
    <2>3. reply[sent[at]] = "none" /\ at \in DOMAIN sent /\ at \in Nat /\ Frontier = at /\ at \in 1..taken
      BY <1>1, <2>2, AtOpen, SeqFacts DEF Frontier, ShapeOK
    <2>4. PICK answer : Told({at}, answer)
      BY <2>1
    <2>5. {at} \in SUBSET DOMAIN sent /\ waiting' \cap {at} = {} /\ waiting' \subseteq waiting
      BY <2>1, <2>3, OpenBefore
    <2>6. OpenShape'
      BY <1>2, <2>1, <2>3, <2>4, <2>5, OpenTold
    <2>7. Longer
      BY <1>1, <2>1, <2>3, LongerOne
    <2>8. Final
      BY <1>1, <2>3, <2>4, <2>5, FinalTold
    <2> QED BY <1>2, <2>6, <2>7, <2>8
  <1>9. CASE Coalesce
    <2>1. /\ Ready({"groups", "roles"}) /\ UNCHANGED <<puts, batches, applied, reply>>
          /\ waiting' = waiting \cup {at}
      BY <1>9 DEF Coalesce
    <2>2. pc = "handle" /\ at <= taken /\ sent[at] # Stop
      BY <2>1 DEF Ready, IsKind
    <2>3. reply[sent[at]] = "none"
      BY <2>2, AtOpen
    <2> QED BY <1>1, <1>2, <1>3, <2>1, <2>3 DEF OpenShape
  <1>10. CASE HandleSave
    <2> DEFINE P == {p \in waiting : Kind[sent[p]] = Kind[sent[at]]} \cup {at}
    <2>1. /\ Ready({"groups", "roles"}) /\ UNCHANGED <<puts, batches>> /\ waiting' = waiting \ P
          /\ \E answer : Told(P, answer)
          /\ applied' = applied \/ applied' = Append(applied, at)
      BY <1>10 DEF HandleSave
    <2>2. pc = "handle" /\ at <= taken /\ sent[at] # Stop /\ puts = <<>> /\ batches = <<>>
      BY <1>1, <2>1, MergedEmpty DEF Ready, IsKind
    <2>3. reply[sent[at]] = "none" /\ at \in DOMAIN sent /\ at \in 1..taken
      BY <1>1, <2>2, AtOpen, SeqFacts DEF ShapeOK
    <2>4. PICK answer : Told(P, answer)
      BY <2>1
    <2>5. P \in SUBSET DOMAIN sent /\ \A p \in P : reply[sent[p]] = "none"
      BY <1>1, <2>3, OpenBefore DEF OpenShape
    <2>6. waiting' \cap P = {} /\ waiting' \subseteq waiting
      BY <2>1
    <2> HIDE DEF P
    <2>7. OpenShape'
      <3>1. DOMAIN puts' = {} /\ DOMAIN batches' = {}
        BY <2>1, <2>2
      <3>2. \A p \in waiting' : reply'[sent[p]] = "none"
        BY <1>1, <2>4, <2>5, <2>6, ToldAt, OpenBefore DEF OpenShape
      <3> QED BY <1>2, <3>1, <3>2 DEF OpenShape
    <2>8. Longer
      BY <1>1, <2>1, <2>3, LongerOne
    <2>9. Final
      BY <1>1, <2>4, <2>5, FinalTold
    <2> QED BY <1>2, <2>7, <2>8, <2>9
  <1>11. CASE HandleStop
    <2> DEFINE P == Unanswered(DOMAIN sent)
    <2>1. /\ UNCHANGED <<puts, batches, applied>> /\ waiting' = {} /\ Merged = <<>> /\ Told(P, "lost")
      BY <1>11 DEF HandleStop
    <2>2. P \in SUBSET DOMAIN sent /\ \A p \in P : reply[sent[p]] = "none"
      BY DEF Unanswered
    <2> HIDE DEF P
    <2>3. DOMAIN puts' = {} /\ DOMAIN batches' = {}
      BY <1>1, <2>1, MergedEmpty
    <2>4. OpenShape'
      BY <2>1, <2>3 DEF OpenShape
    <2> QED BY <1>1, <1>2, <1>3, <2>1, <2>2, <2>4, FinalTold
  <1>12. CASE Panic
    <2>1. puts' = <<>> /\ batches' = <<>> /\ waiting' = {}
      BY <1>12 DEF Panic
    <2>2. DOMAIN puts' = {} /\ DOMAIN batches' = {}
      BY <2>1
    <2>3. OpenShape'
      BY <2>1, <2>2 DEF OpenShape
    <2>4. PICK D : /\ D \in SUBSET DOMAIN sent /\ \A p \in D : reply[sent[p]] = "none"
                   /\ reply' = [r \in Request |-> IF \E p \in Range(Merged) : sent[p] = r THEN "failed"
                                                 ELSE IF \E p \in D : sent[p] = r THEN "lost" ELSE reply[r]]
      <3> DEFINE D == Unanswered((IF \E p \in at..taken : sent[p] = Stop THEN DOMAIN sent ELSE 1..taken) \ Range(Merged))
      <3>1. D \in SUBSET DOMAIN sent /\ \A p \in D : reply[sent[p]] = "none"
        BY <1>1, SeqFacts DEF Unanswered
      <3>2. reply' = [r \in Request |-> IF \E p \in Range(Merged) : sent[p] = r THEN "failed"
                                       ELSE IF \E p \in D : sent[p] = r THEN "lost" ELSE reply[r]]
        BY <1>12 DEF Panic
      <3> QED BY <3>1, <3>2
    <2>5. Range(Merged) \in SUBSET DOMAIN sent /\ \A p \in Range(Merged) : reply[sent[p]] = "none"
      BY OpenBefore
    <2>6. \A r \in Request : reply'[r] # reply[r] => \E p \in Range(Merged) \cup D : sent[p] = r
      BY <2>4
    <2>7. Final
      <3>1. \A p \in DOMAIN sent : sent[p] # Stop => sent[p] \in Request
        BY <1>1, SentRequest
      <3> QED BY <2>4, <2>5, <2>6, <3>1 DEF Final
    <2>8. Longer
      <3>1. applied' = applied \/ (applied' = Append(applied, at) /\ at <= taken)
        BY <1>12 DEF Panic
      <3>2. at <= taken => at \in 1..taken
        BY <1>1, SeqFacts DEF ShapeOK
      <3> QED BY <1>1, <1>3, <3>1, <3>2, LongerOne
    <2> QED BY <1>2, <2>3, <2>7, <2>8
  <1> QED BY <1>4, <1>5, <1>6, <1>7, <1>8, <1>9, <1>10, <1>11, <1>12
          DEF Writer, Drain, ReleaseOne, DropGuard, FlushFirst, FlushLast

\* The callers leave the writer's messages open.
LEMMA CallersOpen ==
  ASSUME Committing, UNCHANGED writerVars,
         sent' = sent \/ \E x \in Request \cup {Stop} : sent' = Append(sent, x)
  PROVE  OpenShape'
  <1>1. ShapeOK /\ OpenShape
    BY DEF Committing, CommitInv
  <1>2. \A p \in DOMAIN sent : sent'[p] = sent[p]
    <2>1. sent \in Seq(Request \cup {Stop})
      BY <1>1 DEF ShapeOK
    <2> QED BY <1>1, <2>1, AppendProperties, SeqFacts
  <1> QED BY <1>1, <1>2, OpenBefore DEF OpenShape, writerVars

\* The answers are true at the start,
LEMMA CommitStart == WriterInit => CommitInv
  <1> SUFFICES ASSUME WriterInit PROVE CommitInv
    OBVIOUS
  <1>1. /\ sent = <<>> /\ puts = <<>> /\ batches = <<>> /\ applied = <<>> /\ waiting = {}
        /\ taken = 0 /\ at = 1 /\ pc = "recv" /\ \A r \in Request : reply[r] = "none"
    BY DEF WriterInit
  <1>2. DOMAIN sent = {} /\ DOMAIN puts = {} /\ DOMAIN batches = {} /\ DOMAIN applied = {}
    BY <1>1
  <1> QED BY <1>1, <1>2 DEF CommitInv, SentOnce, BatchShape, WaitingShape, RepliesShape, OpenShape,
             AnswersTrue, OrderKept

\* and every step keeps them so.
LEMMA CommitStep ==
  ASSUME Committing, ShapeOK', SentOnce', [WriterNext]_wvars
  PROVE  CommitInv'
  <1> SUFFICES CommitRest' /\ OpenShape'
    BY DEF CommitRest, CommitInv
  <1>1. CASE \E r \in Request : Caller(r)
    <2>1. PICK r \in Request : Caller(r)
      BY <1>1
    <2>2. CASE sent' = Append(sent, r) /\ UNCHANGED writerVars
      BY <2>2, CommitSend, CallersOpen
    <2>3. CASE UNCHANGED <<sent, writerVars>>
      BY <2>3, CommitQuiet, CallersOpen
    <2> QED BY <2>1, <2>2, <2>3 DEF Caller, Reserve, Rollback, Send
  <1>2. CASE SendShutdown
    <2>1. sent' = Append(sent, Stop) /\ UNCHANGED writerVars
      BY <1>2 DEF SendShutdown
    <2> QED BY <2>1, CommitSend, CallersOpen
  <1>3. CASE UNCHANGED wvars
    BY <1>3, CommitQuiet, CallersOpen DEF wvars, queueVars
  <1>4. CASE Writer
    <2>1. CASE FlushLast /\ ~Flush
      <3>1. /\ UNCHANGED <<sent, taken, at, waiting, applied, reply, puts, batches>>
            /\ pc = "flush" /\ pc' = "recv" /\ Merged = <<>>
        BY <2>1 DEF FlushLast, queueVars
      <3>2. ShapeOK /\ BatchShape /\ puts = <<>> /\ batches = <<>>
        BY <3>1, MergedEmpty DEF Committing, CommitInv
      <3>3. Frontier' = Frontier /\ at <= at' /\ at' = taken' + 1
        BY <3>1, <3>2, SeqFacts DEF Frontier, BatchShape
      <3> QED BY <1>4, <3>1, <3>2, <3>3, CommitMove, WriterSettles
    <2>2. CommitRest'
      BY <1>4, <2>1, CommitDrain, CommitJoin, CommitFlush, CommitInline, CommitCoalesce, CommitSave,
         CommitStop, CommitPanic DEF Writer
    <2> QED BY <1>4, <2>2, WriterSettles
  <1> QED BY <1>1, <1>2, <1>3, <1>4 DEF WriterNext

\* The replies are true and the commits in order in every reachable state.
LEMMA CommitAlways == WriterSpec => []CommitInv
  <1>1. WriterInit => CommitInv
    BY CommitStart
  <1>2. (Accounting /\ Released1) /\ CommitInv /\ [WriterNext]_wvars /\ (Accounting /\ Released1)' => CommitInv'
    <2> SUFFICES ASSUME Accounting, CommitInv, [WriterNext]_wvars, Accounting'
                 PROVE  CommitInv'
      OBVIOUS
    <2>1. ShapeOK /\ ShapeOK' /\ SentOnce'
      BY DEF Accounting, AccountInv
    <2> QED BY <2>1, CommitStep DEF Committing
  <1> QED BY <1>1, <1>2, AccountAlways, PTL DEF WriterSpec

\* flush_everything, the coalesced replies, the panics: an answer of OK is a
\* commit, and what was reported failed is not in the database, in every
\* interleaving of the callers and whatever the transactions do.
THEOREM AnswersCorrect == WriterSpec => []AnswersTrue
  <1>1. CommitInv => AnswersTrue
    BY DEF CommitInv
  <1> QED BY <1>1, CommitAlways, PTL

\* The writer commits in the order of the channel whatever may depend on it.
THEOREM OrderCorrect == WriterSpec => []OrderKept
  <1>1. CommitInv => OrderKept
    BY DEF CommitInv
  <1> QED BY <1>1, CommitAlways, PTL

-----------------------------------------------------------------------------
(* The refinement of WriteService.                                         *)

\* The abstract specification and this one name the members of a sequence alike.
LEMMA InIsRange == \A s : Service!In(s) = Range(s)
  BY DEF Service!In, Range

\* A step of the writer settles messages.
LEMMA WriterImplements ==
  ASSUME Committing, ShapeOK', CommitInv', Writer
  PROVE  Service!Settle
  <1>1. ShapeOK /\ AnswersTrue' /\ OrderKept' /\ BatchShape'
    BY DEF Committing, CommitInv
  <1>2. sent' = sent /\ Final /\ Longer
    BY WriterSettles
  <1>3. /\ DOMAIN applied' = 1..Len(applied') /\ Len(applied') \in Nat
        /\ \A j \in DOMAIN applied' : applied'[j] \in DOMAIN sent /\ applied'[j] \in Nat /\ sent[applied'[j]] # Stop
    <2>1. /\ applied' \in Seq(1..taken') /\ taken' \in 0..Len(sent')
      BY DEF ShapeOK
    <2>2. \A j \in DOMAIN applied' : applied'[j] \in 1..taken'
      BY <2>1, ElementOfSeq, LenProperties
    <2>3. taken' \in Nat /\ taken' <= Len(sent) /\ DOMAIN sent = 1..Len(sent) /\ Len(sent) \in Nat
      BY <1>1, <1>2, <2>1, SeqFacts
    <2> QED BY <1>1, <1>2, <2>1, <2>2, <2>3, LenProperties DEF BatchShape
  <1>4. \A p \in DOMAIN sent : sent[p] # Stop =>
          /\ reply'[sent[p]] = "ok" => Covered(p)'
          /\ reply'[sent[p]] = "failed" => p \notin Range(applied')
    BY <1>1, <1>2 DEF AnswersTrue
  <1>5. Service!Extends(applied')
    <2>1. \A j \in DOMAIN applied' \ DOMAIN applied : reply[sent[applied'[j]]] # "failed"
      <3> SUFFICES ASSUME NEW j \in DOMAIN applied', reply[sent[applied'[j]]] = "failed" PROVE FALSE
        OBVIOUS
      <3>1. applied'[j] \in DOMAIN sent /\ sent[applied'[j]] # Stop
        BY <1>3
      <3>2. reply'[sent[applied'[j]]] = "failed"
        BY <1>2, <3>1 DEF Final
      <3>3. applied'[j] \in Range(applied')
        BY DEF Range
      <3> QED BY <1>4, <3>1, <3>2, <3>3
    <2>2. \A j \in DOMAIN applied' : \A i \in 1..j - 1 :
            /\ applied'[i] # applied'[j]
            /\ ~MayPass(sent[applied'[i]], sent[applied'[j]]) => applied'[i] < applied'[j]
      <3> SUFFICES ASSUME NEW j \in DOMAIN applied', NEW i \in 1..j - 1
                   PROVE  /\ applied'[i] # applied'[j]
                          /\ ~MayPass(sent[applied'[i]], sent[applied'[j]]) => applied'[i] < applied'[j]
        OBVIOUS
      <3>1. i \in DOMAIN applied' /\ i < j
        BY <1>3
      <3>2. Ordered(applied[i], applied[j])' => applied'[i] < applied'[j]
        BY <1>1, <3>1 DEF OrderKept
      <3>3. ~MayPass(sent[applied'[i]], sent[applied'[j]]) => applied'[i] < applied'[j]
        BY <1>2, <3>2 DEF MayPass, Ordered, IsKind
      <3>4. applied'[i] # applied'[j]
        <4> SUFFICES ASSUME applied'[i] = applied'[j] PROVE FALSE
          OBVIOUS
        <4>1. Ordered(applied[i], applied[j])'
          BY DEF Ordered
        <4> QED BY <3>1, <3>2, <4>1, <1>3
      <3> QED BY <3>3, <3>4
    <2> QED BY <1>2, <1>3, <2>1, <2>2 DEF Service!Extends, Longer
  <1>6. \A p \in DOMAIN sent : sent[p] # Stop => Service!Tells(p, reply'[sent[p]], applied')
    <2> SUFFICES ASSUME NEW p \in DOMAIN sent, sent[p] # Stop, reply[sent[p]] # reply'[sent[p]]
                 PROVE  /\ reply[sent[p]] = "none"
                        /\ reply'[sent[p]] = "ok" => Service!Durable(p, applied')
                        /\ reply'[sent[p]] = "failed" => p \notin Service!In(applied')
      BY DEF Service!Tells
    <2>1. Covered(p)' => Service!Durable(p, applied')
      BY <1>2, InIsRange DEF Service!Durable, Covered, StandsFor, IsKind
    <2> QED BY <1>2, <1>4, <2>1, InIsRange DEF Final
  <1>7. \A r \in Request \ Service!In(sent) : reply'[r] = reply[r]
    BY <1>2 DEF Final, Service!In
  <1> QED BY <1>2, <1>5, <1>6, <1>7 DEF Service!Settle

\* A message enters the channel once.
LEMMA SendImplements ==
  ASSUME Committing, SentOnce', NEW x \in Request \cup {Stop}, sent' = Append(sent, x), UNCHANGED <<applied, reply>>
  PROVE  Service!Next
  <1>1. sent \in Seq(Request \cup {Stop})
    BY DEF Committing, ShapeOK
  <1>2. /\ sent' \in Seq(Request \cup {Stop}) /\ Len(sent') = Len(sent) + 1
        /\ \A p \in 1..Len(sent) : sent'[p] = sent[p]
        /\ sent'[Len(sent) + 1] = x
    BY <1>1, AppendProperties
  <1>3. DOMAIN sent' = 1..Len(sent) + 1 /\ DOMAIN sent = 1..Len(sent) /\ Len(sent) \in Nat
    BY <1>1, <1>2, LenProperties
  <1>4. x \notin Service!In(sent)
    <2> SUFFICES ASSUME NEW p \in DOMAIN sent, sent[p] = x PROVE FALSE
      BY DEF Service!In
    <2>1. p \in DOMAIN sent' /\ Len(sent) + 1 \in DOMAIN sent' /\ sent'[p] = sent'[Len(sent) + 1]
      BY <1>2, <1>3
    <2>2. p = Len(sent) + 1
      BY <2>1 DEF SentOnce
    <2> QED BY <1>3, <2>2
  <1> QED BY <1>4 DEF Service!Next, Service!Ask

\* Every step of the queue is a step of the service or invisible to it.
LEMMA ServiceStep ==
  ASSUME Committing, ShapeOK', CommitInv', [WriterNext]_wvars
  PROVE  [Service!Next]_<<sent, applied, reply>>
  <1>1. CASE \E r \in Request : Caller(r)
    <2>1. PICK r \in Request : Caller(r)
      BY <1>1
    <2>2. CASE sent' = Append(sent, r) /\ UNCHANGED writerVars
      BY <2>2, SendImplements DEF CommitInv, writerVars
    <2>3. CASE UNCHANGED <<sent, writerVars>>
      BY <2>3 DEF writerVars
    <2> QED BY <2>1, <2>2, <2>3 DEF Caller, Reserve, Rollback, Send
  <1>2. CASE SendShutdown
    <2>1. sent' = Append(sent, Stop) /\ UNCHANGED writerVars
      BY <1>2 DEF SendShutdown
    <2> QED BY <2>1, SendImplements DEF CommitInv, writerVars
  <1>3. CASE UNCHANGED wvars
    BY <1>3 DEF wvars, queueVars, writerVars
  <1>4. CASE Writer
    BY <1>4, WriterImplements DEF Service!Next
  <1> QED BY <1>1, <1>2, <1>3, <1>4 DEF WriterNext

\* The write queue implements WriteService: through drains, merged transactions, coalesced snapshots, refusals, panics
\* and the shutdown, a message is committed at most once, in order, and its caller is told one answer the log bears out.
THEOREM ServiceCorrect == WriterSpec => ServiceKept
  <1>1. WriterInit => Service!Init
    BY DEF WriterInit, Service!Init
  <1>2. /\ Accounting /\ Released1 /\ (Accounting /\ Released1)' /\ CommitInv /\ CommitInv'
        /\ [WriterNext]_wvars
        => [Service!Next]_<<sent, applied, reply>>
    <2> SUFFICES ASSUME Accounting, Accounting', CommitInv, CommitInv', [WriterNext]_wvars
                 PROVE  [Service!Next]_<<sent, applied, reply>>
      OBVIOUS
    <2>1. ShapeOK /\ ShapeOK'
      BY DEF Accounting
    <2> QED BY <2>1, ServiceStep DEF Committing
  <1> QED BY <1>1, <1>2, AccountAlways, CommitAlways, PTL DEF WriterSpec, ServiceKept, Service!Spec
=============================================================================
