------------------------------ MODULE Negentropy ------------------------------
(***************************************************************************)
(* The reconciliation of NIP-77 (nips/nip77/mod.rs and codec.rs) as        *)
(* operators: what the relay answers to one message over its item set.     *)
(*                                                                         *)
(* Items are points of one total order, 1..Points; a bound is the point it *)
(* excludes from the range below it, and Infinity lies above all of them.  *)
(* A fingerprint is the set it was taken of: SHA-256 is taken as           *)
(* collision free.                                                         *)
(***************************************************************************)
EXTENDS Naturals, Sequences, FiniteSets

CONSTANTS
    Points,          \* bound: the number of (timestamp, id) records
    IdListThreshold, \* ID_LIST_THRESHOLD
    MaxRangesIn,     \* MAX_NEG_RANGES_PER_MSG
    MaxRangesOut     \* MAX_NEG_RESPONSE_RANGES

Infinity == Points + 1

\* A range ends below `up`; `set` is what the fingerprint was taken of, or the listed ids.
SkipTo(up) == [up |-> up, mode |-> "skip", set |-> {}]
Fingerprint(up, S) == [up |-> up, mode |-> "fp", set |-> S]
IdList(up, S) == [up |-> up, mode |-> "ids", set |-> S]

\* ids_in: the items from `lo`, up to and without `up`.
IdsIn(S, lo, up) == {i \in S : lo <= i /\ i < up}

\* The bound in front of the median item: it excludes the item before, includes the median.
SplitBound(S) == CHOOSE i \in S : Cardinality({j \in S : j < i}) = Cardinality(S) \div 2

\* A fingerprint range: in sync, listed, or split at the median until one of the two.
AnswerFingerprint(S, from, up, fp) ==
    LET answer[lo \in 0..Infinity] ==
          LET slice == IdsIn(S, lo, up)
              mid   == SplitBound(slice)
          IN  IF slice = fp THEN <<SkipTo(up)>>
              ELSE IF Cardinality(slice) <= IdListThreshold THEN <<IdList(up, slice)>>
              ELSE <<Fingerprint(mid, IdsIn(S, lo, mid))>> \o answer[mid]
    IN  answer[from]

AnswerRange(S, lo, r) ==
    CASE r.mode = "skip" -> <<SkipTo(r.up)>>
      [] r.mode = "ids"  -> <<IdList(r.up, IdsIn(S, lo, r.up))>>
      [] r.mode = "fp"   -> AnswerFingerprint(S, lo, r.up, r.set)

\* A message that stops short of infinity skips the rest.
Complete(ranges) ==
    IF ranges # <<>> /\ ranges[Len(ranges)].up = Infinity THEN ranges
    ELSE Append(ranges, SkipTo(Infinity))

\* What respond returns: an error, the bare version byte, or ranges.
AnswerTo(kind, ranges) == [kind |-> kind, ranges |-> ranges]

\* The walk of respond: an error, or the response collapsed at the cap, ends it.
WalkAll(S, ranges) ==
    LET at(k) == IF k = 1 THEN 0 ELSE ranges[k-1].up
        walk[k \in 0..Len(ranges)] ==
          IF k = 0 THEN AnswerTo("ranges", <<>>)
          ELSE LET before == walk[k-1]
                   out == before.ranges \o AnswerRange(S, at(k), ranges[k])
               IN  IF before.kind # "ranges" THEN before
                   ELSE IF at(k) = Infinity \/ at(k) > ranges[k].up THEN AnswerTo("error", <<>>)
                   ELSE IF Len(out) > MaxRangesOut THEN AnswerTo("all", <<IdList(Infinity, S)>>)
                   ELSE AnswerTo("ranges", out)
    IN  walk[Len(ranges)]

\* respond.  A message is [version, ranges]; one that does not parse has more ranges than allowed.
Respond(S, msg) ==
    IF ~msg.version THEN AnswerTo("version", <<>>)
    ELSE IF Len(msg.ranges) > MaxRangesIn THEN AnswerTo("error", <<>>)
    ELSE WalkAll(S, Complete(msg.ranges))

\* The size of an answer: each range and each id weighs one.
WireSize(ans) ==
    LET size[k \in 0..Len(ans.ranges)] ==
          IF k = 0 THEN 1
          ELSE size[k-1] + 1 + IF ans.ranges[k].mode = "ids" THEN Cardinality(ans.ranges[k].set) ELSE 0
    IN  size[Len(ans.ranges)]
=============================================================================
