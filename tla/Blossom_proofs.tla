--------------------------- MODULE Blossom_proofs ---------------------------
(***************************************************************************)
(* Proofs about the Blossom server, for any number of clients, owners,     *)
(* blobs and requests, on the file system and on S3, with every fault and  *)
(* restart of the model: an acknowledged upload stays stored and mapped, no *)
(* miss is remembered of an owner whose upload is acknowledged, and uploads *)
(* keep the floor of free space.                                           *)
(***************************************************************************)
EXTENDS Blossom, Sums_proofs, SequenceTheorems

-----------------------------------------------------------------------------
(* Sequences of owners *)

\* What a sequence holds at an index is an element of it.
LEMMA InToSet ==
  ASSUME NEW S, NEW seq \in Seq(S), NEW k \in 1..Len(seq)
  PROVE  seq[k] \in ToSet(seq)
  BY LenProperties DEF ToSet

\* An element of a sequence stands at an index of it.
LEMMA FromToSet ==
  ASSUME NEW S, NEW seq \in Seq(S), NEW x \in ToSet(seq)
  PROVE  x \in S /\ \E k \in 1..Len(seq) : seq[k] = x
  BY LenProperties DEF ToSet

\* add_blossom_mapping keeps every owner the blob has.
LEMMA OwnerAdded ==
  ASSUME NEW seq \in Seq(Owners), NEW o \in Owners
  PROVE  /\ WithOwner(seq, o) \in Seq(Owners)
         /\ ToSet(seq) \subseteq ToSet(WithOwner(seq, o))
  <1>1. ToSet(seq) \subseteq ToSet(Append(seq, o))
    BY DEF ToSet
  <1> QED BY <1>1 DEF WithOwner

\* remove_blossom_owner keeps every other owner.
LEMMA OwnerRemoved ==
  ASSUME NEW seq \in Seq(Owners), NEW o
  PROVE  /\ WithoutOwner(seq, o) \in Seq(Owners)
         /\ ToSet(seq) \ {o} \subseteq ToSet(WithoutOwner(seq, o))
  <1>1. CASE o \notin ToSet(seq)
    BY <1>1 DEF WithoutOwner
  <1>2. CASE o \in ToSet(seq)
    <2> DEFINE i == CHOOSE i \in DOMAIN seq : seq[i] = o
    <2>1. i \in 1..Len(seq) /\ seq[i] = o
      BY <1>2 DEF ToSet
    <2>2. WithoutOwner(seq, o) = SubSeq(seq, 1, i - 1) \o SubSeq(seq, i + 1, Len(seq))
      BY <1>2 DEF WithoutOwner, RemoveAt
    <2> HIDE DEF i
    <2> DEFINE a == SubSeq(seq, 1, i - 1)
               b == SubSeq(seq, i + 1, Len(seq))
    <2>3. /\ a \in Seq(Owners) /\ Len(a) = i - 1 /\ \A k \in 1..i - 1 : a[k] = seq[k]
          /\ b \in Seq(Owners) /\ Len(b) = Len(seq) - i /\ \A k \in 1..Len(seq) - i : b[k] = seq[i + k]
      BY <2>1
    <2>4. WithoutOwner(seq, o) = a \o b
      BY <2>2
    <2> HIDE DEF a, b
    <2>5. /\ a \o b \in Seq(Owners) /\ Len(a \o b) = Len(a) + Len(b)
          /\ \A k \in 1..Len(a) + Len(b) : (a \o b)[k] = IF k <= Len(a) THEN a[k] ELSE b[k - Len(a)]
      BY <2>3, ConcatProperties
    <2>6. ASSUME NEW x \in ToSet(seq), x # o PROVE x \in ToSet(a \o b)
      <3>1. PICK k \in 1..Len(seq) : seq[k] = x
        BY FromToSet
      <3>2. CASE k < i
        <4>1. (a \o b)[k] = x /\ k \in 1..Len(a \o b)
          BY <3>1, <3>2, <2>1, <2>3, <2>5
        <4> QED BY <4>1, <2>5, InToSet
      <3>3. CASE k > i
        <4>1. k - i \in 1..Len(b) /\ b[k - i] = x
          BY <3>1, <3>3, <2>1, <2>3
        <4>2. (a \o b)[k - 1] = x /\ k - 1 \in 1..Len(a \o b)
          BY <4>1, <3>1, <3>3, <2>1, <2>3, <2>5
        <4> QED BY <4>2, <2>5, InToSet
      <3> QED BY <3>1, <3>2, <3>3, <2>1, <2>6
    <2> QED BY <2>4, <2>5, <2>6
  <1> QED BY <1>1, <1>2

\* The owners of a list that is not empty: the first one and the others.
LEMMA FirstAndRest ==
  ASSUME NEW S, NEW seq \in Seq(S), seq # <<>>
  PROVE  /\ Head(seq) \in S /\ Tail(seq) \in Seq(S)
         /\ \A x \in ToSet(seq) : x = Head(seq) \/ x \in ToSet(Tail(seq))
         /\ Tail(seq) = <<>> => \A x \in ToSet(seq) : x = Head(seq)
  <1>1. /\ Head(seq) \in S /\ Tail(seq) \in Seq(S) /\ Len(Tail(seq)) = Len(seq) - 1
        /\ \A i \in 1..Len(Tail(seq)) : Tail(seq)[i] = seq[i + 1]
        /\ Len(seq) \in Nat \ {0} /\ Head(seq) = seq[1]
    BY HeadTailProperties, EmptySeq
  <1>2. ASSUME NEW x \in ToSet(seq), x # Head(seq) PROVE x \in ToSet(Tail(seq))
    <2>1. PICK k \in 1..Len(seq) : seq[k] = x
      BY FromToSet
    <2>2. k - 1 \in 1..Len(Tail(seq)) /\ Tail(seq)[k - 1] = x
      BY <2>1, <1>2, <1>1
    <2> QED BY <2>2, <1>1, InToSet
  <1>3. ToSet(<<>>) = {}
    BY DEF ToSet
  <1> QED BY <1>1, <1>2, <1>3

-----------------------------------------------------------------------------
(* The requests and what they have reserved *)

\* What the step of a request says about its record.
LEMMA ReqShape ==
  ASSUME ReqsOK, NEW c \in BlobClients
  PROVE  /\ InStep(c, {"spool", "check", "publish", "forget", "commit"}) => req[c] \in PutReqs
         /\ InStep(c, {"resolved", "open", "remember"}) => req[c] \in GetReqs
         /\ At(c, "list") => req[c] \in ListReqs
         /\ InStep(c, {"unlink", "unmap", "reserved"}) => req[c] \in OtherReqs
         /\ req[c] # None => req[c].o \in BlobOps
  BY DEF ReqsOK, InStep, At, PutReqs, GetReqs, ListReqs, OtherReqs

\* What a request names.
LEMMA OpShape ==
  ASSUME NEW o \in BlobOps
  PROVE  o.who \in Owners /\ o.sha \in Shas /\ o.size \in Nat /\ BlobOf(o) \in Owners \X Shas
  BY DEF BlobOps, BlobOf

\* A request in the menu.
LEMMA AskedShape ==
  ASSUME BmenuOK, NEW c \in BlobClients, NEW t, Idle(c, t)
  PROVE  Asked(c) \in BlobOps
  <1>1. taken[c] + 1 \in 1..Len(bmenu.ops[c]) /\ bmenu.ops[c] \in Seq(BlobOps)
    BY DEF BmenuOK, Idle
  <1> QED BY <1>1, ElementOfSeq DEF Asked

\* What is reserved is a number for every request.
ClaimsOK == \A c \in BlobClients : Claimed[c] \in Nat /\ Unwritten[c] \in Nat /\ Unwritten[c] <= Claimed[c]
\* A request claims at least what it has still to write.
LEMMA ClaimType == ReqsOK => ClaimsOK
  <1> SUFFICES ASSUME ReqsOK, NEW c \in BlobClients
               PROVE  Claimed[c] \in Nat /\ Unwritten[c] \in Nat /\ Unwritten[c] <= Claimed[c]
    BY DEF ClaimsOK
  <1>1. At(c, "reserved") => req[c].o.size \in Nat
    BY ReqShape, OpShape DEF At
  <1>2. InStep(c, {"spool", "check", "publish", "forget", "commit"}) => req[c].size \in Nat
    BY ReqShape DEF PutReqs
  <1> QED BY <1>1, <1>2 DEF Claimed, Unwritten, InStep, At

\* A step of one request changes the sums by what that request has.
LEMMA OneClaim ==
  ASSUME BmenuOK, ReqsOK, ReqsOK', BlobClients' = BlobClients, NEW c \in BlobClients,
         \A d \in BlobClients : d # c => req'[d] = req[d]
  PROVE  /\ SumOver(Claimed, BlobClients)' = SumOver(Claimed, BlobClients) - Claimed[c] + Claimed[c]'
         /\ SumOver(Unwritten, BlobClients)' = SumOver(Unwritten, BlobClients) - Unwritten[c] + Unwritten[c]'
         /\ SumOver(Unwritten, BlobClients) <= SumOver(Claimed, BlobClients)
         /\ SumOver(Claimed, BlobClients) \in Nat /\ SumOver(Claimed, BlobClients)' \in Nat
         /\ SumOver(Unwritten, BlobClients) \in Nat /\ SumOver(Unwritten, BlobClients)' \in Nat
         /\ Claimed[c] \in Nat /\ Claimed[c]' \in Nat /\ Unwritten[c] \in Nat /\ Unwritten[c]' \in Nat
  <1> DEFINE f == Claimed
             u == Unwritten
             g == Claimed'
             v == Unwritten'
  <1>0. ClaimsOK /\ ClaimsOK'
    BY ClaimType, PTL
  <1>1. \A d \in BlobClients : f[d] \in Nat /\ g[d] \in Nat
    BY <1>0 DEF ClaimsOK
  <1>2. \A d \in BlobClients : u[d] \in Nat /\ v[d] \in Nat
    BY <1>0 DEF ClaimsOK
  <1>3. \A d \in BlobClients : d # c => g[d] = f[d] /\ v[d] = u[d]
    BY DEF Claimed, Unwritten, InStep, At
  <1>4. IsFiniteSet(BlobClients)
    BY DEF BmenuOK
  <1>5. SumOver(Claimed, BlobClients)' = SumOver(g, BlobClients) /\ SumOver(Unwritten, BlobClients)' = SumOver(v, BlobClients)
    OBVIOUS
  <1> HIDE DEF f, u, g, v
  <1>6. PICK F, G, U, V : F = f /\ G = g /\ U = u /\ V = v
    OBVIOUS
  <1>7. ASSUME NEW p, NEW q, \A d \in BlobClients : p[d] \in Nat /\ q[d] \in Nat, \A d \in BlobClients : d # c => q[d] = p[d]
        PROVE  SumOver(q, BlobClients) = SumOver(p, BlobClients) - p[c] + q[c]
    BY <1>4, <1>7, SumChange
  <1>8. /\ SumOver(V, BlobClients) = SumOver(U, BlobClients) - U[c] + V[c]
        /\ SumOver(G, BlobClients) = SumOver(F, BlobClients) - F[c] + G[c]
    BY <1>1, <1>2, <1>3, <1>6, <1>7
  <1>11. /\ SumOver(F, BlobClients) \in Nat /\ SumOver(G, BlobClients) \in Nat
         /\ SumOver(U, BlobClients) \in Nat /\ SumOver(V, BlobClients) \in Nat
    BY <1>1, <1>2, <1>4, <1>6, SumNat
  <1>10. SumOver(U, BlobClients) <= SumOver(F, BlobClients)
    <2>1. \A d \in BlobClients : U[d] <= F[d]
      BY <1>0, <1>6 DEF ClaimsOK, f, u
    <2> QED BY <1>1, <1>2, <1>4, <1>6, <2>1, SumMonotone
  <1>9. f[c] \in Nat /\ g[c] \in Nat /\ u[c] \in Nat /\ v[c] \in Nat
    BY <1>1, <1>2
  <1> QED BY <1>5, <1>6, <1>8, <1>9, <1>10, <1>11 DEF f, u, g, v

\* A step that leaves the requests alone leaves the sums alone.
LEMMA SameClaims ==
  ASSUME BmenuOK, ReqsOK, BlobClients' = BlobClients, req' = req
  PROVE  /\ SumOver(Claimed, BlobClients)' = SumOver(Claimed, BlobClients)
         /\ SumOver(Unwritten, BlobClients)' = SumOver(Unwritten, BlobClients)
         /\ SumOver(Claimed, BlobClients) \in Nat /\ SumOver(Unwritten, BlobClients) \in Nat
  <1>1. Claimed' = Claimed /\ Unwritten' = Unwritten
    BY DEF Claimed, Unwritten, InStep, At
  <1> QED BY <1>1, ClaimType, SumNat DEF BmenuOK, ClaimsOK

-----------------------------------------------------------------------------
(* What a step of one client does to the requests *)

Frame(c) == bmenu' = bmenu /\ req' = [req EXCEPT ![c] = req'[c]]
AllReqs == PutReqs \union GetReqs \union ListReqs \union OtherReqs \union {None}

\* A step of one client leaves the other requests where they stand.
LEMMA Framed ==
  ASSUME ReqsOK, NEW c \in BlobClients, Frame(c)
  PROVE  /\ BlobClients' = BlobClients
         /\ \A d \in BlobClients : d # c => req'[d] = req[d] /\ \A a : At(d, a)' <=> At(d, a)
         /\ req'[c] \in AllReqs => ReqsOK'
         /\ req'[c] = None => \A a : ~At(c, a)'
  BY DEF ReqsOK, Frame, BlobClients, At, AllReqs

\* GoTo changes the step of a request and nothing else of it.
LEMMA PutGoes ==
  ASSUME NEW r \in PutReqs, NEW a \in {"spool", "check", "publish", "forget", "commit"}, NEW q, q = [r EXCEPT !.at = a]
  PROVE  q \in PutReqs /\ q.at = a /\ q.o = r.o /\ q.size = r.size
  BY DEF PutReqs

\* A chunk makes an upload one unit longer.
LEMMA PutGrows ==
  ASSUME NEW r \in PutReqs, NEW q, q = [r EXCEPT !.at = "spool", !.size = @ + 1]
  PROVE  q \in PutReqs /\ q.at = "spool" /\ q.size = r.size + 1
  <1>1. PICK n \in Nat : n = r.size + 1
    BY DEF PutReqs
  <1>2. q = [r EXCEPT !.at = "spool", !.size = n]
    BY <1>1
  <1>3. q \in PutReqs
    BY <1>2 DEF PutReqs
  <1>4. q.at = "spool" /\ q.size = n
    BY <1>2 DEF PutReqs
  <1> QED BY <1>1, <1>3, <1>4

\* A retry of a publication keeps the upload.
LEMMA PutRetries ==
  ASSUME NEW r \in PutReqs, NEW q, q = [r EXCEPT !.try = @ + 1]
  PROVE  q \in PutReqs /\ q.at = r.at /\ q.o = r.o /\ q.size = r.size
  <1>1. PICK n \in Nat : n = r.try + 1
    BY DEF PutReqs
  <1>2. q = [r EXCEPT !.try = n]
    BY <1>1
  <1>3. q \in PutReqs
    BY <1>2 DEF PutReqs
  <1> QED BY <1>2, <1>3 DEF PutReqs

\* The steps of a deletion and of a preflight check.
LEMMA OtherGoes ==
  ASSUME NEW r \in OtherReqs, NEW a \in {"unlink", "unmap", "reserved"}, NEW q, q = [r EXCEPT !.at = a]
  PROVE  q \in OtherReqs /\ q.at = a /\ q.o = r.o
  BY DEF OtherReqs

\* The guards of an upload give back what it had.
LEMMA Released ==
  ASSUME DiskOK, NEW r \in PutReqs, NEW b \in BOOLEAN
  PROVE  /\ ReleaseSpace(r, b) \in [free : Int, reserved : Int, orphans : Nat, other : Nat]
         /\ ReleaseSpace(r, b).reserved = disk.reserved - r.size
         /\ ReleaseSpace(r, b).free >= disk.free
         /\ ReleaseSpace(r, b).other = disk.other
  <1>1. r.size \in Nat
    BY DEF PutReqs
  <1>2. disk.free \in Int /\ disk.reserved \in Int /\ disk.orphans \in Nat
    BY DEF DiskOK
  <1> DEFINE x == IF b /\ ~stopping THEN disk.free + r.size ELSE disk.free
             y == IF b /\ stopping THEN disk.orphans + r.size ELSE disk.orphans
  <1>3. x \in Int /\ x >= disk.free /\ y \in Nat
    BY <1>1, <1>2
  <1>4. ReleaseSpace(r, b) = [disk EXCEPT !.reserved = disk.reserved - r.size, !.free = x, !.orphans = y]
    BY DEF ReleaseSpace
  <1> DEFINE z == disk.reserved - r.size
  <1>5. z \in Int
    BY <1>1, <1>2
  <1> HIDE DEF x, y, z
  <1>6. [disk EXCEPT !.reserved = z, !.free = x, !.orphans = y] \in [free : Int, reserved : Int, orphans : Nat, other : Nat]
    BY <1>3, <1>5 DEF DiskOK
  <1>7. /\ [disk EXCEPT !.reserved = z, !.free = x, !.orphans = y].reserved = z
        /\ [disk EXCEPT !.reserved = z, !.free = x, !.orphans = y].free = x
        /\ [disk EXCEPT !.reserved = z, !.free = x, !.orphans = y].other = disk.other
    BY DEF DiskOK
  <1> QED BY <1>3, <1>4, <1>6, <1>7 DEF z

\* The sums after a step of one client.
LEMMA ClaimsKept ==
  ASSUME BlossomInv, NEW c \in BlobClients, Frame(c), ReqsOK', DiskOK'
  PROVE  /\ disk'.reserved >= disk.reserved + Claimed[c]' - Claimed[c] => ReservedInv'
         /\ disk'.free + disk'.other >= disk.free + disk.other + Unwritten[c]' - Unwritten[c] => FloorInv'
  <1>1. /\ SumOver(Claimed, BlobClients)' = SumOver(Claimed, BlobClients) - Claimed[c] + Claimed[c]'
        /\ SumOver(Unwritten, BlobClients)' = SumOver(Unwritten, BlobClients) - Unwritten[c] + Unwritten[c]'
        /\ SumOver(Claimed, BlobClients) \in Nat /\ SumOver(Claimed, BlobClients)' \in Nat
        /\ SumOver(Unwritten, BlobClients) \in Nat /\ SumOver(Unwritten, BlobClients)' \in Nat
        /\ Claimed[c] \in Nat /\ Claimed[c]' \in Nat /\ Unwritten[c] \in Nat /\ Unwritten[c]' \in Nat
    BY Framed, OneClaim DEF BlossomInv
  <1>2. /\ disk.reserved \in Int /\ disk.free \in Int /\ disk.other \in Int
        /\ disk'.reserved \in Int /\ disk'.free \in Int /\ disk'.other \in Int
    BY DEF DiskOK, BlossomInv
  <1>3. disk'.reserved >= disk.reserved + Claimed[c]' - Claimed[c] => ReservedInv'
    BY <1>1, <1>2 DEF ReservedInv, BlossomInv
  <1>4. disk'.free + disk'.other >= disk.free + disk.other + Unwritten[c]' - Unwritten[c] => FloorInv'
    BY <1>1, <1>2, FloorType DEF FloorInv, BlossomInv, Frame
  <1> QED BY <1>3, <1>4

\* An upload that ends gives back what it reserved.
LEMMA LessClaimed ==
  ASSUME BlossomInv, NEW c \in BlobClients, Frame(c), ReqsOK', DiskOK', NEW n \in Nat,
         disk'.reserved = disk.reserved - n, disk'.free >= disk.free, disk'.other = disk.other,
         Claimed[c] \in Nat, Claimed[c] >= n, Claimed[c]' = 0, Unwritten[c] \in Nat, Unwritten[c]' = 0
  PROVE  ReservedInv' /\ FloorInv'
  <1>1. /\ disk.reserved \in Int /\ disk.free \in Int /\ disk.other \in Nat
        /\ disk'.reserved \in Int /\ disk'.free \in Int /\ disk'.other \in Nat
    BY DEF DiskOK, BlossomInv
  <1>2. disk'.reserved >= disk.reserved + Claimed[c]' - Claimed[c]
    BY <1>1
  <1>3. disk'.free + disk'.other >= disk.free + disk.other + Unwritten[c]' - Unwritten[c]
    BY <1>1
  <1> QED BY <1>2, <1>3, ClaimsKept

\* What a request has reserved at its step.
ClaimTable == \A c \in BlobClients :
    /\ req[c] = None => Claimed[c] = 0 /\ Unwritten[c] = 0
    /\ At(c, "check") => Claimed[c] = req[c].size + 1 /\ Unwritten[c] = 1
    /\ At(c, "reserved") => Claimed[c] = req[c].o.size /\ Unwritten[c] = 0
    /\ \A a \in {"spool", "publish", "forget", "commit"} : At(c, a) => Claimed[c] = req[c].size /\ Unwritten[c] = 0
    /\ \A a \in {"resolved", "open", "remember", "list", "unlink", "unmap"} : At(c, a) => Claimed[c] = 0 /\ Unwritten[c] = 0
\* What a request claims, from where it stands.
LEMMA ClaimValue == ClaimTable
  BY DEF ClaimTable, Claimed, Unwritten, InStep, At
\* The same before and after a step.
LEMMA ClaimValueNext == ClaimTable /\ ClaimTable'
  BY ClaimValue, PTL

\* A blob nobody is about to acknowledge stays so, unless this client comes to the commit.
LEMMA UnbornKept ==
  ASSUME ReqsOK, NEW c \in BlobClients, Frame(c), acked' \subseteq acked, ~At(c, "commit")', NEW o, NEW s, Unborn(o, s)
  PROVE  Unborn(o, s)'
  BY Framed DEF Unborn

\* The lookup of another client, when its generation and what it knows stay.
LEMMA LookOne ==
  ASSUME BlossomInv, NEW d \in BlobClients, req'[d] = req[d], \A a : At(d, a)' <=> At(d, a),
         NEW s, s = req[d].o.sha, InStep(d, {"open", "remember"}) => req[d].gen <= generation'[s],
         InStep(d, {"open", "remember"}) /\ Current(d)' => Current(d) /\ \A o : Unborn(o, s) => Unborn(o, s)'
  PROVE  LookOK(d)'
  <1> USE DEF BlossomInv
  <1>1. LookOK(d)
    BY DEF LookInv
  <1>2. /\ InStep(d, {"open", "remember"})' => req'[d].gen <= generation'[req'[d].o.sha]
        /\ At(d, "resolved")' => req'[d].all # <<>> /\ req'[d].seen = req'[d].all
        /\ At(d, "open")' => req'[d].all # <<>>
    BY <1>1 DEF LookOK, InStep
  <1>3. ASSUME At(d, "open"), Current(d)', NEW o \in ToSet(req[d].seen)
        PROVE  o \in ToSet(req[d].all) \/ req[d].err \/ Unborn(o, s)'
    BY <1>1, <1>3 DEF LookOK, InStep
  <1>4. ASSUME At(d, "remember"), Current(d)', NEW o \in ToSet(req[d].seen) PROVE Unborn(o, s)'
    BY <1>1, <1>4 DEF LookOK, InStep
  <1>5. \A o : Unborn(o, req[d].o.sha)' <=> Unborn(o, s)'
    BY DEF Unborn
  <1> QED BY <1>2, <1>3, <1>4, <1>5 DEF LookOK

\* The lookups of the other clients, when the generations stay and nothing comes nearer to an acknowledgement.
LEMMA LookOthers ==
  ASSUME BlossomInv, NEW c \in BlobClients, Frame(c), generation' = generation, \A o, s : Unborn(o, s) => Unborn(o, s)'
  PROVE  /\ missing' \subseteq missing => MissInv'
         /\ LookOK(c)' => LookInv'
  <1> USE DEF BlossomInv
  <1>1. /\ BlobClients' = BlobClients
        /\ \A d \in BlobClients : d # c => req'[d] = req[d] /\ \A a : At(d, a)' <=> At(d, a)
    BY Framed
  <1>2. ASSUME NEW d \in BlobClients, d # c PROVE LookOK(d)'
    <2>1. InStep(d, {"open", "remember"}) => req[d].gen <= generation'[req[d].o.sha]
      BY DEF LookInv, LookOK
    <2>2. Current(d)' => Current(d)
      BY <1>1, <1>2 DEF Current
    <2> QED BY <1>1, <1>2, <2>1, <2>2, LookOne
  <1>3. missing' \subseteq missing => MissInv'
    BY DEF MissInv
  <1> QED BY <1>1, <1>2, <1>3 DEF LookInv

\* A client that is not looking up a blob has nothing to show for it.
LEMMA NoLook ==
  ASSUME NEW c, \A a \in {"resolved", "open", "remember"} : ~At(c, a)'
  PROVE  LookOK(c)'
  BY DEF LookOK, InStep

Watched == {"publish", "forget", "commit", "unmap", "resolved", "open", "remember"}
Stored == <<objects, owners, missing, generation, shaLocks, acked, migration>>

\* A step that leaves the blobs alone and ends at a step that promises nothing about them.
LEMMA QuietMove ==
  ASSUME BlossomInv, NEW c \in BlobClients, Frame(c), UNCHANGED Stored, ~InStep(c, Watched)'
  PROVE  BlobsOK' /\ LockInv' /\ HandInv' /\ LookInv' /\ MissInv' /\ AckedServable'
  <1> USE DEF BlossomInv, Stored
  <1>1. /\ BlobClients' = BlobClients
        /\ \A d \in BlobClients : d # c => req'[d] = req[d] /\ \A a : At(d, a)' <=> At(d, a)
    BY Framed
  <1>2. \A a \in Watched : ~At(c, a)'
    BY DEF InStep
  <1>3. \A o, s : Unborn(o, s) => Unborn(o, s)'
    BY <1>2, UnbornKept DEF Watched
  <1>4. BlobsOK'
    BY <1>1 DEF BlobsOK
  <1>5. LockInv'
    BY <1>1, <1>2 DEF LockInv, InStep, Watched
  <1>6. HandInv'
    BY <1>1, <1>2 DEF HandInv, InStep, Watched
  <1>7. LookInv'
    BY <1>2, <1>3, LookOthers, NoLook DEF Watched
  <1>8. MissInv'
    BY <1>3 DEF MissInv
  <1>9. AckedServable'
    BY DEF AckedServable, Mapped
  <1> QED BY <1>4, <1>5, <1>6, <1>7, <1>8, <1>9

-----------------------------------------------------------------------------
(* Uploads *)

\* put_blob: an upload begins and reserves nothing yet.
LEMMA PutBlobKeeps ==
  ASSUME BlossomInv, NEW c \in BlobClients, PutBlob(c)
  PROVE  BlossomInv'
  <1> USE DEF BlossomInv
  <1>1. Asked(c) \in BlobOps /\ req[c] = None
    BY AskedShape DEF PutBlob, Idle
  <1>2. /\ Frame(c) /\ UNCHANGED Stored /\ disk' = disk /\ Take(c)
        /\ req'[c] = None \/ req'[c] = [o |-> Asked(c), at |-> "spool", size |-> 0, try |-> 1]
    BY <1>1 DEF PutBlob, Frame, Stored, ReqsOK
  <1> DEFINE r == [o |-> Asked(c), at |-> "spool", size |-> 0, try |-> 1]
  <1>3. r \in PutReqs /\ r.at = "spool" /\ r.size = 0
    BY <1>1 DEF PutReqs
  <1> HIDE DEF r
  <1>4. ReqsOK' /\ ~InStep(c, Watched)'
    BY <1>2, <1>3, Framed DEF AllReqs, InStep, Watched, At, r
  <1>5. Claimed[c] = 0 /\ Unwritten[c] = 0 /\ Claimed[c]' = 0 /\ Unwritten[c]' = 0
    BY <1>1, <1>2, <1>3, Framed, ClaimValueNext DEF ClaimTable, At, r
  <1>6. BmenuOK' /\ DiskOK'
    BY <1>2, Framed DEF BmenuOK, DiskOK, Take, Frame
  <1>7. ReservedInv' /\ FloorInv'
    BY <1>2, <1>4, <1>5, <1>6, ClaimsKept DEF DiskOK
  <1> QED BY <1>2, <1>4, <1>6, <1>7, QuietMove

\* head_upload: the announced size is reserved for the length of the check.
LEMMA HeadUploadKeeps ==
  ASSUME BlossomInv, NEW c \in BlobClients, HeadUpload(c)
  PROVE  BlossomInv'
  <1> USE DEF BlossomInv
  <1>1. Asked(c) \in BlobOps /\ req[c] = None /\ Asked(c).size \in Nat
    BY AskedShape, OpShape DEF HeadUpload, Idle
  <1> DEFINE r == [o |-> Asked(c), at |-> "reserved"]
  <1>2. /\ Frame(c) /\ UNCHANGED Stored /\ Take(c)
        /\ \/ req'[c] = None /\ disk' = disk
           \/ req'[c] = r /\ disk' \in {disk, [disk EXCEPT !.reserved = @ + Asked(c).size]}
              /\ (req'[c] # None => disk' = [disk EXCEPT !.reserved = @ + Asked(c).size])
    BY <1>1 DEF HeadUpload, Frame, Stored, ReqsOK
  <1>3. r \in OtherReqs /\ r.at = "reserved" /\ r.o = Asked(c)
    BY <1>1 DEF OtherReqs
  <1> HIDE DEF r
  <1>4. ReqsOK' /\ ~InStep(c, Watched)'
    BY <1>2, <1>3, Framed DEF AllReqs, InStep, Watched, At
  <1>5. BmenuOK' /\ DiskOK'
    <2>1. BmenuOK'
      BY <1>2, Framed DEF BmenuOK, Take, Frame
    <2>2. [disk EXCEPT !.reserved = @ + Asked(c).size] \in [free : Int, reserved : Int, orphans : Nat, other : Nat]
      BY <1>1 DEF DiskOK
    <2> QED BY <1>2, <2>1, <2>2 DEF DiskOK
  <1>6. Claimed[c] = 0 /\ Unwritten[c] = 0 /\ Unwritten[c]' = 0
    BY <1>1, <1>2, <1>3, Framed, ClaimValueNext DEF ClaimTable, At
  <1>7. Claimed[c]' = IF req'[c] = None THEN 0 ELSE Asked(c).size
    BY <1>1, <1>2, <1>3, Framed, ClaimValueNext DEF ClaimTable, At
  <1>8. disk'.reserved >= disk.reserved + Claimed[c]' /\ disk'.free = disk.free /\ disk'.other = disk.other
    BY <1>1, <1>2, <1>7 DEF DiskOK
  <1>9. ReservedInv' /\ FloorInv'
    BY <1>2, <1>4, <1>5, <1>6, <1>7, <1>8, <1>1, ClaimsKept DEF DiskOK
  <1> QED BY <1>2, <1>4, <1>5, <1>9, QuietMove

\* head_upload: the reservation is given back.
LEMMA HeadUploadDoneKeeps ==
  ASSUME BlossomInv, NEW c \in BlobClients, HeadUploadDone(c)
  PROVE  BlossomInv'
  <1> USE DEF BlossomInv
  <1>1. At(c, "reserved") /\ req[c].o.size \in Nat
    BY ReqShape, OpShape DEF HeadUploadDone, At
  <1>2. /\ Frame(c) /\ UNCHANGED Stored /\ req'[c] = None /\ taken' = taken
        /\ disk' = [disk EXCEPT !.reserved = @ - req[c].o.size]
    BY DEF HeadUploadDone, Answered, Frame, Stored, ReqsOK
  <1>3. ReqsOK' /\ ~InStep(c, Watched)'
    BY <1>2, Framed DEF AllReqs, InStep
  <1>4. BmenuOK' /\ DiskOK'
    BY <1>1, <1>2, Framed DEF BmenuOK, DiskOK, Frame
  <1>5. Claimed[c] = req[c].o.size /\ Unwritten[c] = 0 /\ Claimed[c]' = 0 /\ Unwritten[c]' = 0
    BY <1>1, <1>2, Framed, ClaimValueNext DEF ClaimTable, At
  <1>6. ReservedInv' /\ FloorInv'
    BY <1>1, <1>2, <1>3, <1>4, <1>5, ClaimsKept DEF DiskOK
  <1> QED BY <1>2, <1>3, <1>4, <1>6, QuietMove

\* An upload that is given up before it took the blob's lock.
LEMMA GivenUp ==
  ASSUME BlossomInv, NEW c \in BlobClients, Frame(c), UNCHANGED Stored, UNCHANGED taken,
         InStep(c, {"spool", "check"}), req'[c] = None, disk' = ReleaseSpace(req[c], TRUE)
  PROVE  BlossomInv'
  <1> USE DEF BlossomInv
  <1>1. req[c] \in PutReqs /\ req[c].size \in Nat
    BY ReqShape DEF InStep, PutReqs
  <1>2. ReqsOK' /\ ~InStep(c, Watched)'
    BY Framed DEF AllReqs, InStep
  <1>3. BmenuOK'
    BY Framed DEF BmenuOK, Frame
  <1>4. /\ DiskOK' /\ disk'.reserved = disk.reserved - req[c].size
        /\ disk'.free >= disk.free /\ disk'.other = disk.other
    BY <1>1, Released DEF DiskOK
  <1>5. Claimed[c] >= req[c].size /\ Claimed[c] \in Nat /\ Claimed[c]' = 0 /\ Unwritten[c] \in Nat /\ Unwritten[c]' = 0
    BY <1>1, Framed, ClaimValueNext DEF ClaimTable, InStep
  <1>6. ReservedInv' /\ FloorInv'
    BY <1>1, <1>2, <1>4, <1>5, LessClaimed
  <1> QED BY <1>2, <1>3, <1>4, <1>6, QuietMove

\* A chunk is reserved before the free space is asked for.
LEMMA SpoolChunkKeeps ==
  ASSUME BlossomInv, NEW c \in BlobClients, SpoolChunk(c)
  PROVE  BlossomInv'
  <1> USE DEF BlossomInv
  <1>1. req[c] \in PutReqs /\ req[c].size \in Nat /\ At(c, "spool")
    BY ReqShape DEF SpoolChunk, InStep, PutReqs
  <1>2. UNCHANGED Stored /\ UNCHANGED taken
    BY DEF SpoolChunk, Stored
  <1>3. \/ Frame(c) /\ req'[c] = None /\ disk' = ReleaseSpace(req[c], TRUE)
        \/ /\ Frame(c) /\ req'[c] = [req[c] EXCEPT !.at = "check"]
           /\ disk' = Reserved(disk) /\ ~(Reserved(disk).free < MinFree + Reserved(disk).reserved)
    BY FloorType DEF SpoolChunk, Abort, Answered, GoTo, Frame, ReqsOK, DiskOK
  <1>4. CASE req'[c] = None /\ disk' = ReleaseSpace(req[c], TRUE) /\ Frame(c)
    BY <1>1, <1>2, <1>4, GivenUp DEF InStep
  <1>5. CASE /\ req'[c] = [req[c] EXCEPT !.at = "check"] /\ Frame(c)
             /\ disk' = Reserved(disk) /\ ~(Reserved(disk).free < MinFree + Reserved(disk).reserved)
    <2>1. req'[c] \in PutReqs /\ req'[c].at = "check" /\ req'[c].size = req[c].size
      BY <1>1, <1>5, PutGoes
    <2>2. ReqsOK' /\ ~InStep(c, Watched)'
      BY <1>5, <2>1, Framed DEF AllReqs, InStep, At, Watched
    <2>3. BmenuOK'
      BY <1>2, <1>5, Framed DEF BmenuOK, Frame
    <2>4. /\ DiskOK' /\ disk'.reserved = disk.reserved + 1 /\ disk'.free = disk.free /\ disk'.other = disk.other
          /\ disk.free >= MinFree + disk.reserved + 1
      BY <1>5, FloorType DEF DiskOK, Reserved
    <2>5. /\ Claimed[c] = req[c].size /\ Unwritten[c] = 0 /\ Claimed[c]' \in Nat /\ Claimed[c]' <= req[c].size + 1
          /\ Unwritten[c]' \in Nat /\ Unwritten[c]' <= 1
      <3>1. c \in BlobClients'
        BY <1>5, Framed
      <3>2. Claimed[c] = req[c].size /\ Unwritten[c] = 0
        BY <1>1, ClaimValue DEF ClaimTable
      <3>3. CASE req'[c] = None
        BY <1>1, <3>1, <3>2, <3>3, ClaimValueNext DEF ClaimTable
      <3>4. CASE req'[c] # None
        <4>1. At(c, "check")'
          BY <2>1, <3>4 DEF At
        <4> QED BY <1>1, <2>1, <3>1, <3>2, <4>1, ClaimValueNext DEF ClaimTable
      <3> QED BY <3>3, <3>4
    <2>6. ReservedInv'
      BY <1>1, <1>5, <2>2, <2>4, <2>5, ClaimsKept DEF DiskOK
    <2>7. FloorInv'
      <3>1. /\ SumOver(Unwritten, BlobClients)' = SumOver(Unwritten, BlobClients) - Unwritten[c] + Unwritten[c]'
            /\ SumOver(Unwritten, BlobClients) <= SumOver(Claimed, BlobClients)
            /\ SumOver(Claimed, BlobClients) \in Nat /\ SumOver(Unwritten, BlobClients) \in Nat
        BY <1>5, <2>2, Framed, OneClaim
      <3> QED BY <1>5, <2>4, <2>5, <3>1, FloorType DEF FloorInv, ReservedInv, DiskOK, Frame
    <2> QED BY <1>2, <1>5, <2>2, <2>3, <2>4, <2>6, <2>7, QuietMove
  <1> QED BY <1>3, <1>4, <1>5

\* The free space is asked for with every reservation counted, and the chunk is written.
LEMMA GrowCheckKeeps ==
  ASSUME BlossomInv, NEW c \in BlobClients, GrowCheck(c)
  PROVE  BlossomInv'
  <1> USE DEF BlossomInv
  <1>1. req[c] \in PutReqs /\ req[c].size \in Nat /\ At(c, "check")
    BY ReqShape DEF GrowCheck, InStep, PutReqs
  <1>2. UNCHANGED Stored /\ UNCHANGED taken
    BY DEF GrowCheck, Stored
  <1>3. \/ Frame(c) /\ req'[c] = None /\ disk' = ReleaseSpace(req[c], TRUE)
        \/ /\ Frame(c) /\ req'[c] = [req[c] EXCEPT !.at = "spool", !.size = @ + 1]
           /\ disk' = [disk EXCEPT !.free = @ - 1]
    BY DEF GrowCheck, Answered, Frame, ReqsOK
  <1>4. CASE req'[c] = None /\ disk' = ReleaseSpace(req[c], TRUE) /\ Frame(c)
    BY <1>1, <1>2, <1>4, GivenUp DEF InStep
  <1>5. CASE /\ req'[c] = [req[c] EXCEPT !.at = "spool", !.size = @ + 1] /\ Frame(c)
             /\ disk' = [disk EXCEPT !.free = @ - 1]
    <2>1. req'[c] \in PutReqs /\ req'[c].at = "spool" /\ req'[c].size = req[c].size + 1
      BY <1>1, <1>5, PutGrows
    <2>2. ReqsOK' /\ ~InStep(c, Watched)'
      BY <1>5, <2>1, Framed DEF AllReqs, InStep, At, Watched
    <2>3. BmenuOK'
      BY <1>2, <1>5, Framed DEF BmenuOK, Frame
    <2>4. DiskOK' /\ disk'.free = disk.free - 1 /\ disk'.reserved = disk.reserved /\ disk'.other = disk.other
      BY <1>5 DEF DiskOK
    <2>5. /\ Claimed[c] = req[c].size + 1 /\ Unwritten[c] = 1 /\ Claimed[c]' \in Nat /\ Claimed[c]' <= req[c].size + 1
          /\ Unwritten[c]' = 0
      <3>1. c \in BlobClients'
        BY <1>5, Framed
      <3>2. Claimed[c] = req[c].size + 1 /\ Unwritten[c] = 1
        BY <1>1, ClaimValue DEF ClaimTable
      <3>3. CASE req'[c] = None
        BY <1>1, <3>1, <3>2, <3>3, ClaimValueNext DEF ClaimTable
      <3>4. CASE req'[c] # None
        <4>1. At(c, "spool")'
          BY <2>1, <3>4 DEF At
        <4> QED BY <1>1, <2>1, <3>1, <3>2, <4>1, ClaimValueNext DEF ClaimTable
      <3> QED BY <3>3, <3>4
    <2>6. ReservedInv' /\ FloorInv'
      BY <1>1, <1>5, <2>2, <2>4, <2>5, ClaimsKept DEF DiskOK
    <2> QED BY <1>2, <1>5, <2>2, <2>3, <2>4, <2>6, QuietMove
  <1> QED BY <1>3, <1>4, <1>5

\* An upload that breaks off leaves no reservation.
LEMMA UploadFailsKeeps ==
  ASSUME BlossomInv, NEW c \in BlobClients, UploadFails(c)
  PROVE  BlossomInv'
  <1>1. /\ Frame(c) /\ UNCHANGED Stored /\ UNCHANGED taken /\ At(c, "spool")
        /\ req'[c] = None /\ disk' = ReleaseSpace(req[c], TRUE)
    BY DEF UploadFails, Abort, Answered, Frame, Stored, ReqsOK, BlossomInv
  <1> QED BY <1>1, GivenUp DEF InStep

\* The accounts of an upload that goes on, or ends and gives back what it had.
LEMMA PutMoves ==
  ASSUME BlossomInv, NEW c \in BlobClients, Frame(c), UNCHANGED <<disk, taken>>,
         NEW a \in {"spool", "publish", "forget", "commit"}, At(c, a),
         NEW b \in {"spool", "publish", "forget", "commit"}, req'[c].at = b,
         req'[c] \in PutReqs, req'[c].size = req[c].size
  PROVE  BmenuOK' /\ ReqsOK' /\ DiskOK' /\ ReservedInv' /\ FloorInv'
  <1> USE DEF BlossomInv
  <1>1. BmenuOK' /\ ReqsOK' /\ DiskOK' /\ c \in BlobClients'
    BY Framed DEF BmenuOK, DiskOK, AllReqs, Frame
  <1>2. Claimed[c] = req[c].size /\ Unwritten[c] = 0 /\ req[c].size \in Nat
    BY ClaimValue DEF ClaimTable, PutReqs
  <1>3. CASE req'[c] = None
    <2>1. Claimed[c]' = 0 /\ Unwritten[c]' = 0
      BY <1>1, <1>3, ClaimValueNext DEF ClaimTable
    <2> QED BY <1>1, <1>2, <2>1, ClaimsKept DEF DiskOK
  <1>4. CASE req'[c] # None
    <2>1. At(c, b)'
      BY <1>4 DEF At
    <2>2. Claimed[c]' = req[c].size /\ Unwritten[c]' = 0
      BY <1>1, <2>1, ClaimValueNext DEF ClaimTable
    <2> QED BY <1>1, <1>2, <2>2, ClaimsKept DEF DiskOK
  <1> QED BY <1>3, <1>4

\* An upload that ends after its spool is complete.
LEMMA PutEnds ==
  ASSUME BlossomInv, NEW c \in BlobClients, Frame(c), UNCHANGED taken,
         NEW a \in {"spool", "publish", "forget", "commit"}, At(c, a), req'[c] = None,
         NEW b \in BOOLEAN, disk' = ReleaseSpace(req[c], b)
  PROVE  BmenuOK' /\ ReqsOK' /\ DiskOK' /\ ReservedInv' /\ FloorInv'
  <1> USE DEF BlossomInv
  <1>1. req[c] \in PutReqs /\ req[c].size \in Nat
    BY ReqShape DEF InStep, PutReqs
  <1>2. BmenuOK' /\ ReqsOK' /\ c \in BlobClients'
    BY Framed DEF BmenuOK, AllReqs, Frame
  <1>3. /\ DiskOK' /\ disk'.reserved = disk.reserved - req[c].size
        /\ disk'.free >= disk.free /\ disk'.other = disk.other
    BY <1>1, Released DEF DiskOK
  <1>4. Claimed[c] = req[c].size /\ Unwritten[c] = 0 /\ Claimed[c]' = 0 /\ Unwritten[c]' = 0
    BY <1>2, ClaimValueNext DEF ClaimTable
  <1> QED BY <1>1, <1>2, <1>3, <1>4, LessClaimed

\* The lookups and the remembered misses, when nothing comes nearer to an acknowledgement.
LEMMA LookKept ==
  ASSUME BlossomInv, NEW c \in BlobClients, Frame(c), generation' = generation, missing' \subseteq missing,
         \A o, s : Unborn(o, s) => Unborn(o, s)', \A a \in {"resolved", "open", "remember"} : ~At(c, a)'
  PROVE  LookInv' /\ MissInv'
  BY LookOthers, NoLook

\* A client that holds the lock of a blob gives it back.
LEMMA Unlocks ==
  ASSUME BlossomInv, NEW c \in BlobClients, Frame(c), NEW s \in Shas, shaLocks[s] = c,
         shaLocks' = [shaLocks EXCEPT ![s] = None],
         \A a \in {"publish", "forget", "commit", "unmap"} : ~At(c, a)'
  PROVE  LockInv' /\ shaLocks' \in [Shas -> BlobClients' \union {None}]
  <1> USE DEF BlossomInv
  <1>1. /\ BlobClients' = BlobClients
        /\ \A d \in BlobClients : d # c => req'[d] = req[d] /\ \A a : At(d, a)' <=> At(d, a)
    BY Framed
  <1>2. shaLocks' \in [Shas -> BlobClients' \union {None}]
    BY <1>1 DEF BlobsOK
  <1>3. ASSUME NEW d \in BlobClients, InStep(d, {"publish", "forget", "commit", "unmap"})'
        PROVE  shaLocks'[req'[d].o.sha] = d
    <2>1. d # c
      BY <1>3 DEF InStep
    <2>2. req'[d] = req[d] /\ shaLocks[req[d].o.sha] = d
      BY <1>1, <1>3, <2>1 DEF LockInv, InStep
    <2>3. req[d].o.sha \in Shas
      BY <1>1, <1>3, <2>1, ReqShape, OpShape DEF InStep, At
    <2> QED BY <2>1, <2>2, <2>3 DEF BlobsOK
  <1> QED BY <1>1, <1>2, <1>3 DEF LockInv

\* A client that keeps the lock it has, or has none and needs none.
LEMMA LockStays ==
  ASSUME BlossomInv, NEW c \in BlobClients, Frame(c), shaLocks' = shaLocks,
         \A a \in {"publish", "forget", "commit", "unmap"} : At(c, a)' => shaLocks[req'[c].o.sha] = c
  PROVE  LockInv' /\ shaLocks' \in [Shas -> BlobClients' \union {None}]
  <1> USE DEF BlossomInv
  <1>1. /\ BlobClients' = BlobClients
        /\ \A d \in BlobClients : d # c => req'[d] = req[d] /\ \A a : At(d, a)' <=> At(d, a)
    BY Framed
  <1>2. ASSUME NEW d \in BlobClients, InStep(d, {"publish", "forget", "commit", "unmap"})'
        PROVE  shaLocks'[req'[d].o.sha] = d
    <2>1. CASE d = c
      BY <1>2, <2>1 DEF InStep
    <2>2. CASE d # c
      BY <1>1, <1>2, <2>2 DEF LockInv, InStep
    <2> QED BY <2>1, <2>2
  <1> QED BY <1>1, <1>2 DEF LockInv, BlobsOK

\* A client takes a lock nobody has.
LEMMA LockTaken ==
  ASSUME BlossomInv, NEW c \in BlobClients, Frame(c), NEW s \in Shas, shaLocks[s] = None,
         shaLocks' = [shaLocks EXCEPT ![s] = c], req'[c].o.sha = s
  PROVE  LockInv' /\ shaLocks' \in [Shas -> BlobClients' \union {None}]
  <1> USE DEF BlossomInv
  <1>1. /\ BlobClients' = BlobClients /\ None \notin BlobClients
        /\ \A d \in BlobClients : d # c => req'[d] = req[d] /\ \A a : At(d, a)' <=> At(d, a)
    BY Framed DEF BmenuOK
  <1>2. shaLocks' \in [Shas -> BlobClients' \union {None}] /\ shaLocks'[s] = c
    BY <1>1 DEF BlobsOK
  <1>3. ASSUME NEW d \in BlobClients, InStep(d, {"publish", "forget", "commit", "unmap"})'
        PROVE  shaLocks'[req'[d].o.sha] = d
    <2>1. CASE d = c
      BY <1>2, <2>1
    <2>2. CASE d # c
      <3>1. req'[d] = req[d] /\ shaLocks[req[d].o.sha] = d /\ req[d].o.sha # s
        BY <1>1, <1>3, <2>2 DEF LockInv, InStep
      <3>2. req[d].o.sha \in Shas
        BY <1>1, <1>3, <2>2, ReqShape, OpShape DEF InStep, At
      <3> QED BY <3>1, <3>2 DEF BlobsOK
    <2> QED BY <2>1, <2>2
  <1> QED BY <1>1, <1>2, <1>3 DEF LockInv

\* The lock of the blob is taken once the spool is complete.
LEMMA PutFileKeeps ==
  ASSUME BlossomInv, NEW c \in BlobClients, PutFile(c)
  PROVE  BlossomInv'
  <1> USE DEF BlossomInv
  <1>1. req[c] \in PutReqs /\ At(c, "spool") /\ req[c].o \in BlobOps /\ req[c].o.sha \in Shas
    BY ReqShape, OpShape DEF PutFile, InStep, At
  <1> DEFINE s == req[c].o.sha
  <1>2. \/ Abort(c) /\ UNCHANGED shaLocks
        \/ GoTo(c, "publish") /\ shaLocks' = [shaLocks EXCEPT ![s] = c] /\ UNCHANGED disk
    BY DEF PutFile
  <1>3. UNCHANGED <<objects, owners, missing, generation, taken, acked, migration, bmenu>> /\ shaLocks[s] = None
    BY DEF PutFile
  <1>4. CASE Abort(c) /\ UNCHANGED shaLocks
    <2>1. Frame(c) /\ req'[c] = None /\ disk' = ReleaseSpace(req[c], TRUE) /\ UNCHANGED Stored
      BY <1>3, <1>4 DEF Abort, Answered, Frame, ReqsOK, Stored
    <2> QED BY <1>1, <1>3, <2>1, GivenUp DEF InStep
  <1>5. CASE GoTo(c, "publish") /\ shaLocks' = [shaLocks EXCEPT ![s] = c] /\ UNCHANGED disk
    <2>1. Frame(c) /\ req'[c] = [req[c] EXCEPT !.at = "publish"]
      BY <1>3, <1>5 DEF GoTo, Frame, ReqsOK
    <2>2. req'[c] \in PutReqs /\ req'[c].at = "publish" /\ req'[c].o = req[c].o /\ req'[c].size = req[c].size
      BY <1>1, <2>1, PutGoes
    <2>3. BmenuOK' /\ ReqsOK' /\ DiskOK' /\ ReservedInv' /\ FloorInv'
      BY <1>1, <1>3, <1>5, <2>1, <2>2, PutMoves
    <2>4. /\ BlobClients' = BlobClients /\ None \notin BlobClients
          /\ \A d \in BlobClients : d # c => req'[d] = req[d] /\ \A a : At(d, a)' <=> At(d, a)
      BY <2>1, Framed DEF BmenuOK
    <2>5. \A a : At(c, a)' => a = "publish"
      BY <2>2 DEF At
    <2>6. BlobsOK' /\ AckedServable'
      BY <1>1, <1>3, <1>5, <2>4 DEF BlobsOK, AckedServable, Mapped
    <2>7. LockInv'
      BY <1>1, <1>3, <1>5, <2>1, <2>2, LockTaken
    <2>8. HandInv'
      BY <1>3, <2>4, <2>5 DEF HandInv, InStep
    <2>9. \A o, t : Unborn(o, t) => Unborn(o, t)'
      BY <1>3, <2>1, <2>5, UnbornKept
    <2>10. LookInv' /\ MissInv'
      BY <1>3, <2>1, <2>5, <2>9, LookKept
    <2> QED BY <2>3, <2>6, <2>7, <2>8, <2>10
  <1> QED BY <1>2, <1>4, <1>5

\* The blobs while an upload is published: an object may appear, nothing else.
LEMMA PublishBlobs ==
  ASSUME BlossomInv, NEW c \in BlobClients, Frame(c), At(c, "publish"),
         UNCHANGED <<owners, missing, generation, acked, migration>>,
         objects' \in {objects, objects \union {BlobOf(req[c].o)}},
         \A a : At(c, a)' => a \in {"publish", "forget"} /\ req'[c].o = req[c].o,
         At(c, "forget")' => BlobOf(req[c].o) \in objects',
         LockInv', shaLocks' \in [Shas -> BlobClients' \union {None}]
  PROVE  BlobsOK' /\ HandInv' /\ LookInv' /\ MissInv' /\ AckedServable'
  <1> USE DEF BlossomInv
  <1>1. /\ BlobClients' = BlobClients
        /\ \A d \in BlobClients : d # c => req'[d] = req[d] /\ \A a : At(d, a)' <=> At(d, a)
    BY Framed
  <1>2. BlobOf(req[c].o) \in Owners \X Shas
    BY ReqShape, OpShape DEF At
  <1>3. objects \subseteq objects' /\ objects' \subseteq Owners \X Shas
    BY <1>2 DEF BlobsOK
  <1>4. BlobsOK'
    BY <1>1, <1>3 DEF BlobsOK
  <1>5. HandInv'
    BY <1>1, <1>3 DEF HandInv, InStep
  <1>6. AckedServable'
    BY <1>3 DEF AckedServable, Mapped
  <1>7. \A o, t : Unborn(o, t) => Unborn(o, t)'
    BY UnbornKept
  <1>8. LookInv' /\ MissInv'
    BY <1>7, LookKept
  <1> QED BY <1>4, <1>5, <1>6, <1>8

\* One attempt to publish: it succeeds, is tried again or fails.
LEMMA PublishKeeps ==
  ASSUME BlossomInv, NEW c \in BlobClients, At(c, "publish"), Published(c) \/ Retried(c) \/ PublishFailed(c),
         UNCHANGED <<owners, missing, generation, taken, acked, migration, bmenu>>, bmenu.s3 \in BOOLEAN
  PROVE  BlossomInv'
  <1> USE DEF BlossomInv
  <1>1. req[c] \in PutReqs /\ req[c].o.sha \in Shas /\ shaLocks[req[c].o.sha] = c
    BY ReqShape, OpShape DEF InStep, At, LockInv
  <1>2. CASE Published(c)
    <2>1. Frame(c) /\ req'[c] = [req[c] EXCEPT !.at = "forget"] /\ UNCHANGED <<disk, shaLocks>>
      BY <1>2 DEF Published, GoTo, Frame, ReqsOK
    <2>2. req'[c] \in PutReqs /\ req'[c].at = "forget" /\ req'[c].o = req[c].o /\ req'[c].size = req[c].size
      BY <1>1, <2>1, PutGoes
    <2>3. BmenuOK' /\ ReqsOK' /\ DiskOK' /\ ReservedInv' /\ FloorInv'
      BY <2>1, <2>2, PutMoves
    <2>4. \A a : At(c, a)' => a = "forget"
      BY <2>2 DEF At
    <2>5. objects' = objects \union {BlobOf(req[c].o)}
      BY <1>2 DEF Published, BlobOf
    <2>6. LockInv' /\ shaLocks' \in [Shas -> BlobClients' \union {None}]
      BY <1>1, <2>1, <2>2, LockStays
    <2>7. BlobsOK' /\ HandInv' /\ LookInv' /\ MissInv' /\ AckedServable'
      BY <2>1, <2>2, <2>4, <2>5, <2>6, PublishBlobs
    <2> QED BY <2>3, <2>6, <2>7
  <1>3. CASE Retried(c)
    <2>1. Frame(c) /\ req'[c] = [req[c] EXCEPT !.try = @ + 1] /\ UNCHANGED <<disk, shaLocks>>
      BY <1>3 DEF Retried, Frame, ReqsOK
    <2>2. req'[c] \in PutReqs /\ req'[c].at = "publish" /\ req'[c].o = req[c].o /\ req'[c].size = req[c].size
      BY <1>1, <2>1, PutRetries DEF At
    <2>3. BmenuOK' /\ ReqsOK' /\ DiskOK' /\ ReservedInv' /\ FloorInv'
      BY <2>1, <2>2, PutMoves
    <2>4. \A a : At(c, a)' => a = "publish"
      BY <2>2 DEF At
    <2>5. objects' \in {objects, objects \union {BlobOf(req[c].o)}}
      BY <1>3 DEF Retried, BlobOf
    <2>6. LockInv' /\ shaLocks' \in [Shas -> BlobClients' \union {None}]
      BY <1>1, <2>1, <2>2, LockStays
    <2>7. BlobsOK' /\ HandInv' /\ LookInv' /\ MissInv' /\ AckedServable'
      BY <2>1, <2>2, <2>4, <2>5, <2>6, PublishBlobs
    <2> QED BY <2>3, <2>6, <2>7
  <1>4. CASE PublishFailed(c)
    <2>1. /\ Frame(c) /\ req'[c] = None /\ shaLocks' = [shaLocks EXCEPT ![req[c].o.sha] = None]
          /\ \E b \in BOOLEAN : disk' = ReleaseSpace(req[c], b)
      BY <1>4 DEF PublishFailed, Answered, Unlocked, Frame, ReqsOK
    <2>2. BmenuOK' /\ ReqsOK' /\ DiskOK' /\ ReservedInv' /\ FloorInv'
      BY <2>1, PutEnds
    <2>3. \A a : ~At(c, a)'
      BY <2>1 DEF At
    <2>4. objects' \in {objects, objects \union {BlobOf(req[c].o)}}
      BY <1>4 DEF PublishFailed, BlobOf
    <2>5. LockInv' /\ shaLocks' \in [Shas -> BlobClients' \union {None}]
      BY <1>1, <2>1, <2>3, Unlocks
    <2>6. BlobsOK' /\ HandInv' /\ LookInv' /\ MissInv' /\ AckedServable'
      BY <2>1, <2>3, <2>4, <2>5, PublishBlobs
    <2> QED BY <2>2, <2>5, <2>6
  <1> QED BY <1>2, <1>3, <1>4

\* The rename of a spool into the store.
LEMMA PublishLocalKeeps ==
  ASSUME BlossomInv, NEW c \in BlobClients, PublishLocal(c)
  PROVE  BlossomInv'
  BY PublishKeeps DEF PublishLocal, BlossomInv, BmenuOK

\* The upload of a spool to S3, its retries and its lost answers.
LEMMA PublishS3Keeps ==
  ASSUME BlossomInv, NEW c \in BlobClients, PublishS3(c)
  PROVE  BlossomInv'
  BY PublishKeeps DEF PublishS3, BlossomInv, BmenuOK

\* forget_missing makes every lookup of the blob that is under way stale.
LEMMA LookHealed ==
  ASSUME BlossomInv, NEW c \in BlobClients, Frame(c), NEW s \in Shas,
         generation' = [generation EXCEPT ![s] = @ + 1], missing' = {e \in missing : e.sha # s},
         \A o, t : t # s /\ Unborn(o, t) => Unborn(o, t)', \A a \in {"resolved", "open", "remember"} : ~At(c, a)'
  PROVE  LookInv' /\ MissInv'
  <1> USE DEF BlossomInv
  <1>1. /\ BlobClients' = BlobClients
        /\ \A d \in BlobClients : d # c => req'[d] = req[d] /\ \A a : At(d, a)' <=> At(d, a)
    BY Framed
  <1>2. generation'[s] = generation[s] + 1 /\ generation[s] \in Nat /\ \A t \in Shas : t # s => generation'[t] = generation[t]
    BY DEF BlobsOK
  <1>3. MissInv'
    BY DEF MissInv
  <1>4. ASSUME NEW d \in BlobClients, d # c, NEW a \in {"open", "remember"}, At(d, a)
        PROVE  /\ req[d].gen <= generation'[req[d].o.sha]
               /\ req[d].gen = generation'[req[d].o.sha] => req[d].o.sha # s /\ req[d].gen = generation[req[d].o.sha]
    <2>1. req[d].gen \in Nat /\ req[d].o.sha \in Shas
      BY <1>4, ReqShape, OpShape DEF GetReqs, InStep, At
    <2>2. req[d].gen <= generation[req[d].o.sha]
      BY <1>4 DEF LookInv, LookOK, InStep
    <2> QED BY <1>2, <2>1, <2>2
  <1>5. ASSUME NEW d \in BlobClients, d # c PROVE LookOK(d)'
    <2>1. InStep(d, {"open", "remember"}) => req[d].gen <= generation'[req[d].o.sha]
      BY <1>4, <1>5 DEF InStep
    <2>2. \A t : t = req[d].o.sha /\ InStep(d, {"open", "remember"}) /\ Current(d)' =>
            Current(d) /\ \A o : Unborn(o, t) => Unborn(o, t)'
      BY <1>1, <1>4, <1>5 DEF InStep, Current
    <2> QED BY <1>1, <1>5, <2>1, <2>2, LookOne
  <1> QED BY <1>1, <1>3, <1>5, NoLook DEF LookInv

\* The remembered misses of a blob go, and its generation moves, before the owner is mapped.
LEMMA ForgetMissingKeeps ==
  ASSUME BlossomInv, NEW c \in BlobClients, ForgetMissing(c)
  PROVE  BlossomInv'
  <1> USE DEF BlossomInv
  <1>1. req[c] \in PutReqs /\ At(c, "forget") /\ req[c].o.sha \in Shas /\ shaLocks[req[c].o.sha] = c
    BY ReqShape, OpShape DEF InStep, At, LockInv, ForgetMissing
  <1> DEFINE s == req[c].o.sha
  <1>2. /\ Frame(c) /\ req'[c] = [req[c] EXCEPT !.at = "commit"]
        /\ UNCHANGED <<objects, owners, disk, shaLocks, taken, acked, migration>>
    BY DEF ForgetMissing, GoTo, Frame, ReqsOK
  <1>3. generation' = [generation EXCEPT ![s] = @ + 1] /\ missing' = {e \in missing : e.sha # s}
    BY DEF ForgetMissing, Without
  <1>4. req'[c] \in PutReqs /\ req'[c].at = "commit" /\ req'[c].o = req[c].o /\ req'[c].size = req[c].size
    BY <1>1, <1>2, PutGoes
  <1>5. BmenuOK' /\ ReqsOK' /\ DiskOK' /\ ReservedInv' /\ FloorInv'
    BY <1>1, <1>2, <1>4, PutMoves
  <1>6. /\ BlobClients' = BlobClients
        /\ \A d \in BlobClients : d # c => req'[d] = req[d] /\ \A a : At(d, a)' <=> At(d, a)
    BY <1>2, Framed
  <1>7. \A a : At(c, a)' => a = "commit"
    BY <1>4 DEF At
  <1>8. LockInv' /\ shaLocks' \in [Shas -> BlobClients' \union {None}]
    BY <1>1, <1>2, <1>4, LockStays
  <1>9. generation' \in [Shas -> Nat] /\ generation'[s] = generation[s] + 1 /\ \A t \in Shas : t # s => generation'[t] = generation[t]
    BY <1>1, <1>3 DEF BlobsOK
  <1>10. BlobsOK' /\ AckedServable'
    BY <1>2, <1>3, <1>8, <1>9 DEF BlobsOK, AckedServable, Mapped
  <1>11. HandInv'
    BY <1>1, <1>2, <1>4, <1>6, <1>7 DEF HandInv, InStep
  <1>12. \A o, t : t # s /\ Unborn(o, t) => Unborn(o, t)'
    BY <1>2, <1>4, <1>6 DEF Unborn, BlobOf
  <1>13. LookInv' /\ MissInv'
    BY <1>1, <1>2, <1>3, <1>7, <1>12, LookHealed
  <1> QED BY <1>5, <1>8, <1>10, <1>11, <1>13

\* The mapping is committed and the upload acknowledged.
LEMMA CommitOwnerKeeps ==
  ASSUME BlossomInv, NEW c \in BlobClients, CommitOwner(c)
  PROVE  BlossomInv'
  <1> USE DEF BlossomInv
  <1>1. req[c] \in PutReqs /\ At(c, "commit") /\ req[c].o.sha \in Shas /\ req[c].o.who \in Owners
    BY ReqShape, OpShape DEF InStep, At, CommitOwner
  <1> DEFINE s == req[c].o.sha
             w == req[c].o.who
  <1>2. shaLocks[s] = c /\ BlobOf(req[c].o) \in objects
    BY <1>1 DEF LockInv, HandInv, InStep
  <1>3. /\ Frame(c) /\ req'[c] = None /\ shaLocks' = [shaLocks EXCEPT ![s] = None]
        /\ disk' = ReleaseSpace(req[c], bmenu.s3) /\ UNCHANGED <<objects, missing, generation, taken, migration>>
    BY DEF CommitOwner, Answered, Unlocked, Frame, ReqsOK
  <1>4. \/ UNCHANGED <<owners, acked>>
        \/ /\ w \in ToSet(WithOwner(owners[s], w)) /\ owners' = [owners EXCEPT ![s] = WithOwner(@, w)]
           /\ acked' = acked \union {<<w, s>>}
    BY DEF CommitOwner
  <1>5. BmenuOK' /\ ReqsOK' /\ DiskOK' /\ ReservedInv' /\ FloorInv'
    BY <1>1, <1>3, PutEnds DEF BmenuOK
  <1>6. /\ BlobClients' = BlobClients
        /\ \A d \in BlobClients : d # c => req'[d] = req[d] /\ \A a : At(d, a)' <=> At(d, a)
    BY <1>3, Framed
  <1>7. \A a : ~At(c, a)'
    BY <1>3 DEF At
  <1>8. LockInv' /\ shaLocks' \in [Shas -> BlobClients' \union {None}]
    BY <1>1, <1>2, <1>3, <1>7, Unlocks
  <1>9. /\ owners' \in [Shas -> Seq(Owners)] /\ \A t \in Shas : ToSet(owners[t]) \subseteq ToSet(owners'[t])
        /\ acked' # acked => w \in ToSet(owners'[s])
    <2>1. /\ WithOwner(owners[s], w) \in Seq(Owners) /\ ToSet(owners[s]) \subseteq ToSet(WithOwner(owners[s], w))
      BY <1>1, OwnerAdded DEF BlobsOK
    <2> QED BY <1>1, <1>4, <2>1 DEF BlobsOK
  <1>10. BlobsOK'
    BY <1>3, <1>8, <1>9 DEF BlobsOK
  <1>11. acked' \subseteq acked \union {<<w, s>>}
    BY <1>4
  <1>12. AckedServable'
    <2> SUFFICES ASSUME NEW p \in acked' PROVE p \in objects /\ p[1] \in ToSet(owners'[p[2]])
      BY <1>3 DEF AckedServable, Mapped
    <2>1. CASE p \in acked
      <3>1. p \in objects /\ p[1] \in ToSet(owners[p[2]]) /\ p[2] \in Shas
        BY <2>1 DEF AckedServable, Mapped, BlobsOK
      <3> QED BY <1>9, <3>1
    <2>2. CASE p \notin acked
      <3>1. p = <<w, s>> /\ p[1] = w /\ p[2] = s
        BY <1>11, <2>2
      <3> QED BY <1>2, <1>9, <2>2, <3>1 DEF BlobOf
    <2> QED BY <2>1, <2>2
  <1>13. HandInv'
    <2> SUFFICES ASSUME NEW d \in BlobClients, d # c
                 PROVE  /\ InStep(d, {"forget", "commit"}) => BlobOf(req[d].o) \in objects
                        /\ At(d, "unmap") => BlobOf(req[d].o) \notin acked'
      BY <1>3, <1>6, <1>7 DEF HandInv, InStep
    <2>1. At(d, "unmap") => req[d].o.sha # s
      BY <1>2 DEF LockInv, InStep
    <2> QED BY <1>11, <2>1 DEF HandInv, BlobOf
  <1>14. \A o, t : Unborn(o, t) => Unborn(o, t)'
    <2>1. \A o, t : Unborn(o, t) => <<o, t>> # <<w, s>>
      BY <1>1 DEF Unborn, BlobOf
    <2> QED BY <1>6, <1>7, <1>11, <2>1 DEF Unborn
  <1>15. LookInv' /\ MissInv'
    BY <1>3, <1>7, <1>14, LookKept
  <1> QED BY <1>5, <1>8, <1>10, <1>12, <1>13, <1>15

-----------------------------------------------------------------------------
(* Reads, lists and deletions *)

\* The accounts of a request that reserves nothing.
NoClaim(c) == req[c] = None \/ InStep(c, {"resolved", "open", "remember", "list", "unlink", "unmap"})
\* A client that claims nothing leaves the accounts as they are.
LEMMA ClaimsNothing ==
  ASSUME BlossomInv, NEW c \in BlobClients, Frame(c), UNCHANGED disk, taken' = taken \/ Take(c), NoClaim(c), NoClaim(c)',
         req'[c] \in AllReqs
  PROVE  BmenuOK' /\ ReqsOK' /\ DiskOK' /\ ReservedInv' /\ FloorInv'
  <1> USE DEF BlossomInv
  <1>1. BmenuOK' /\ ReqsOK' /\ DiskOK' /\ c \in BlobClients'
    BY Framed DEF BmenuOK, DiskOK, Frame, Take
  <1>2. Claimed[c] = 0 /\ Unwritten[c] = 0
    BY ClaimValue DEF ClaimTable, NoClaim, InStep
  <1>3. Claimed[c]' = 0 /\ Unwritten[c]' = 0
    BY <1>1, ClaimValueNext DEF ClaimTable, NoClaim, InStep
  <1> QED BY <1>1, <1>2, <1>3, ClaimsKept DEF DiskOK

\* A read that leaves the objects, the mappings and the locks alone.
LEMMA ReadKeeps ==
  ASSUME BlossomInv, NEW c \in BlobClients, Frame(c), UNCHANGED <<objects, owners, shaLocks, disk, acked, migration>>,
         taken' = taken \/ Take(c), NoClaim(c), req'[c] = None \/ req'[c] \in GetReqs,
         missing' \subseteq [sha : Shas, seen : Seq(Owners)], generation' \in [Shas -> Nat]
  PROVE  /\ BmenuOK' /\ BlobsOK' /\ ReqsOK' /\ DiskOK' /\ LockInv' /\ HandInv' /\ AckedServable' /\ ReservedInv' /\ FloorInv'
         /\ \A o, t : Unborn(o, t) => Unborn(o, t)'
  <1> USE DEF BlossomInv
  <1>1. /\ BlobClients' = BlobClients
        /\ \A d \in BlobClients : d # c => req'[d] = req[d] /\ \A a : At(d, a)' <=> At(d, a)
    BY Framed
  <1>2. \A a : At(c, a)' => a \in {"resolved", "open", "remember"}
    BY DEF At, GetReqs
  <1>3. NoClaim(c)' /\ req'[c] \in AllReqs
    BY DEF NoClaim, AllReqs, GetReqs, InStep, At
  <1>4. BmenuOK' /\ ReqsOK' /\ DiskOK' /\ ReservedInv' /\ FloorInv'
    BY <1>3, ClaimsNothing
  <1>5. LockInv' /\ shaLocks' \in [Shas -> BlobClients' \union {None}]
    BY <1>2, LockStays
  <1>6. HandInv'
    BY <1>1, <1>2 DEF HandInv, InStep
  <1>7. BlobsOK' /\ AckedServable'
    BY <1>5 DEF BlobsOK, AckedServable, Mapped
  <1>8. \A o, t : Unborn(o, t) => Unborn(o, t)'
    BY <1>2, UnbornKept
  <1> QED BY <1>4, <1>5, <1>6, <1>7, <1>8

\* get_blob: the owners of a blob are read, and a remembered miss answers.
LEMMA ResolveKeeps ==
  ASSUME BlossomInv, NEW c \in BlobClients, Resolve(c)
  PROVE  BlossomInv'
  <1> USE DEF BlossomInv
  <1>1. Asked(c) \in BlobOps /\ req[c] = None /\ Asked(c).sha \in Shas
    BY AskedShape, OpShape DEF Resolve, Idle
  <1> DEFINE seq == owners[Asked(c).sha]
             r == [o |-> Asked(c), at |-> "resolved", all |-> seq, seen |-> seq, gen |-> 0, err |-> FALSE]
  <1>2. /\ Frame(c) /\ Take(c) /\ UNCHANGED <<objects, owners, missing, generation, disk, shaLocks, acked, migration>>
        /\ req'[c] = None \/ (seq # <<>> /\ req'[c] = r)
    BY <1>1 DEF Resolve, Frame, ReqsOK
  <1>3. seq \in Seq(Owners)
    BY <1>1 DEF BlobsOK
  <1> HIDE DEF seq
  <1>4. r \in GetReqs /\ r.at = "resolved" /\ r.all = seq /\ r.seen = seq /\ r.err = FALSE
    BY <1>1, <1>3 DEF GetReqs
  <1> HIDE DEF r
  <1>5. NoClaim(c) /\ missing' \subseteq [sha : Shas, seen : Seq(Owners)] /\ generation' \in [Shas -> Nat]
    BY <1>1, <1>2 DEF NoClaim, BlobsOK
  <1>6. /\ BmenuOK' /\ BlobsOK' /\ ReqsOK' /\ DiskOK' /\ LockInv' /\ HandInv' /\ AckedServable' /\ ReservedInv' /\ FloorInv'
        /\ \A o, t : Unborn(o, t) => Unborn(o, t)'
    BY <1>2, <1>4, <1>5, ReadKeeps
  <1>7. \A a : At(c, a)' => a = "resolved" /\ seq # <<>> /\ req'[c] = r
    BY <1>2, <1>4 DEF At
  <1>8. LookOK(c)'
    BY <1>4, <1>7 DEF LookOK, InStep
  <1>9. LookInv' /\ MissInv'
    BY <1>2, <1>6, <1>8, LookOthers
  <1> QED BY <1>6, <1>9

\* get_blob: the generation is read before the first object is asked for.
LEMMA OpenStartKeeps ==
  ASSUME BlossomInv, NEW c \in BlobClients, OpenStart(c)
  PROVE  BlossomInv'
  <1> USE DEF BlossomInv
  <1>1. req[c] \in GetReqs /\ At(c, "resolved") /\ req[c].o.sha \in Shas /\ req[c].all # <<>> /\ req[c].seen = req[c].all
    BY ReqShape, OpShape DEF OpenStart, InStep, At, LookInv, LookOK
  <1> DEFINE g == generation[req[c].o.sha]
  <1>2. /\ Frame(c) /\ UNCHANGED <<objects, owners, missing, generation, disk, shaLocks, taken, acked, migration>>
        /\ req'[c] = None \/ req'[c] = [req[c] EXCEPT !.at = "open", !.gen = g]
    BY DEF OpenStart, Frame, ReqsOK
  <1>3. g \in Nat
    BY <1>1 DEF BlobsOK
  <1>4. PICK n \in Nat : n = g
    BY <1>3
  <1> DEFINE r == [req[c] EXCEPT !.at = "open", !.gen = n]
  <1>5. r \in GetReqs /\ r.at = "open" /\ r.gen = n /\ r.all = req[c].all /\ r.seen = req[c].seen /\ r.o = req[c].o
    BY <1>1 DEF GetReqs
  <1>6. req'[c] = None \/ req'[c] = r
    BY <1>2, <1>4
  <1> HIDE DEF r
  <1>7. NoClaim(c) /\ missing' \subseteq [sha : Shas, seen : Seq(Owners)] /\ generation' \in [Shas -> Nat]
    BY <1>1, <1>2 DEF NoClaim, BlobsOK, InStep
  <1>8. /\ BmenuOK' /\ BlobsOK' /\ ReqsOK' /\ DiskOK' /\ LockInv' /\ HandInv' /\ AckedServable' /\ ReservedInv' /\ FloorInv'
        /\ \A o, t : Unborn(o, t) => Unborn(o, t)'
    BY <1>2, <1>5, <1>6, <1>7, ReadKeeps
  <1>9. \A a : At(c, a)' => a = "open" /\ req'[c] = r
    BY <1>5, <1>6 DEF At
  <1>10. r.gen <= generation'[r.o.sha] /\ \A o \in ToSet(r.seen) : o \in ToSet(r.all)
    BY <1>1, <1>2, <1>4, <1>5
  <1>11. LookOK(c)'
    BY <1>1, <1>5, <1>9, <1>10 DEF LookOK, InStep
  <1>12. LookInv' /\ MissInv'
    BY <1>2, <1>8, <1>11, LookOthers
  <1> QED BY <1>8, <1>12

\* An object that is not there: no upload of it is acknowledged or about to be.
LEMMA MissIsUnborn ==
  ASSUME BlossomInv, NEW o, NEW s, <<o, s>> \notin objects
  PROVE  Unborn(o, s)
  BY DEF BlossomInv, AckedServable, HandInv, InStep, Unborn

\* get_blob: one owner after the other is tried.
LEMMA OpenOwnerKeeps ==
  ASSUME BlossomInv, NEW c \in BlobClients, OpenOwner(c)
  PROVE  BlossomInv'
  <1> USE DEF BlossomInv
  <1>1. req[c] \in GetReqs /\ At(c, "open") /\ req[c].o.sha \in Shas
    BY ReqShape, OpShape DEF OpenOwner, InStep, At
  <1>2. req[c].all # <<>> /\ req[c].all \in Seq(Owners) /\ req[c].err \in BOOLEAN
    BY <1>1 DEF LookInv, LookOK, GetReqs
  <1> DEFINE s == req[c].o.sha
             h == Head(req[c].all)
             rest == Tail(req[c].all)
  <1>3. UNCHANGED <<objects, owners, disk, shaLocks, taken, acked, migration, bmenu>>
    BY DEF OpenOwner
  <1>4. PICK found \in {"found", "missing", "refused", "error"} :
          LET known == found = "missing" /\ ~req[c].err
          IN  /\ found = "missing" => <<h, s>> \notin objects
              /\ IF found = "found"
                 THEN generation' = [generation EXCEPT ![s] = @ + 1] /\ missing' = Without(s)
                 ELSE UNCHANGED <<generation, missing>>
              /\ req' = IF found = "found" \/ (rest = <<>> /\ ~known) THEN [req EXCEPT ![c] = None]
                        ELSE IF rest = <<>> THEN [req EXCEPT ![c].at = "remember"]
                        ELSE [req EXCEPT ![c].all = rest, ![c].err = ~known]
    <2>1. \A p : S3Lookup(p) \subseteq {"found", "missing", "refused", "error"} /\ ("missing" \in S3Lookup(p) => p \notin objects)
      BY DEF S3Lookup
    <2>2. \A p : LocalLookup(p) \subseteq {"found", "missing", "refused", "error"} /\ ("missing" \in LocalLookup(p) => p \notin objects)
      BY DEF LocalLookup
    <2> QED BY <2>1, <2>2 DEF OpenOwner
  <1>5. NoClaim(c)
    BY <1>1 DEF NoClaim, InStep
  <1>6. CASE found = "found"
    <2>1. Frame(c) /\ req'[c] = None /\ \A a : ~At(c, a)'
      BY <1>3, <1>4, <1>6 DEF Frame, ReqsOK, At
    <2>2. generation' = [generation EXCEPT ![s] = @ + 1] /\ missing' = {e \in missing : e.sha # s}
      BY <1>4, <1>6 DEF Without
    <2>3. missing' \subseteq [sha : Shas, seen : Seq(Owners)] /\ generation' \in [Shas -> Nat]
      BY <1>1, <2>2 DEF BlobsOK
    <2>4. /\ BmenuOK' /\ BlobsOK' /\ ReqsOK' /\ DiskOK' /\ LockInv' /\ HandInv' /\ AckedServable' /\ ReservedInv' /\ FloorInv'
          /\ \A o, t : Unborn(o, t) => Unborn(o, t)'
      BY <1>3, <1>5, <2>1, <2>3, ReadKeeps
    <2>5. LookInv' /\ MissInv'
      BY <1>1, <2>1, <2>2, <2>4, LookHealed
    <2> QED BY <2>4, <2>5
  <1>7. CASE found # "found" /\ rest = <<>> /\ ~(found = "missing" /\ ~req[c].err)
    <2>1. Frame(c) /\ req'[c] = None /\ (\A a : ~At(c, a)') /\ UNCHANGED <<generation, missing>>
      BY <1>3, <1>4, <1>7 DEF Frame, ReqsOK, At
    <2>2. missing' \subseteq [sha : Shas, seen : Seq(Owners)] /\ generation' \in [Shas -> Nat]
      BY <2>1 DEF BlobsOK
    <2>3. /\ BmenuOK' /\ BlobsOK' /\ ReqsOK' /\ DiskOK' /\ LockInv' /\ HandInv' /\ AckedServable' /\ ReservedInv' /\ FloorInv'
          /\ \A o, t : Unborn(o, t) => Unborn(o, t)'
      BY <1>3, <1>5, <2>1, <2>2, ReadKeeps
    <2>4. LookInv' /\ MissInv'
      BY <2>1, <2>3, LookKept
    <2> QED BY <2>3, <2>4
  <1>8. CASE rest = <<>> /\ found = "missing" /\ ~req[c].err
    <2>1. Frame(c) /\ req'[c] = [req[c] EXCEPT !.at = "remember"] /\ UNCHANGED <<generation, missing>>
      BY <1>3, <1>4, <1>8 DEF Frame, ReqsOK
    <2>2. /\ req'[c] \in GetReqs /\ req'[c].at = "remember" /\ req'[c].gen = req[c].gen
          /\ req'[c].seen = req[c].seen /\ req'[c].o = req[c].o
      BY <1>1, <2>1 DEF GetReqs
    <2>3. missing' \subseteq [sha : Shas, seen : Seq(Owners)] /\ generation' \in [Shas -> Nat]
      BY <2>1 DEF BlobsOK
    <2>4. /\ BmenuOK' /\ BlobsOK' /\ ReqsOK' /\ DiskOK' /\ LockInv' /\ HandInv' /\ AckedServable' /\ ReservedInv' /\ FloorInv'
          /\ \A o, t : Unborn(o, t) => Unborn(o, t)'
      BY <1>3, <1>5, <2>1, <2>2, <2>3, ReadKeeps
    <2>5. \A a : At(c, a)' => a = "remember"
      BY <2>2 DEF At
    <2>6. Unborn(h, s)
      BY <1>4, <1>8, MissIsUnborn
    <2>7. \A o \in ToSet(req[c].all) : o = h
      BY <1>2, <1>8, FirstAndRest
    <2>8. Current(c) => \A o \in ToSet(req[c].seen) : Unborn(o, s)
      BY <1>1, <1>8, <2>6, <2>7 DEF LookInv, LookOK
    <2>9. \A t : t = s /\ Current(c) => \A o \in ToSet(req[c].seen) : Unborn(o, t)'
      BY <2>4, <2>8
    <2>10. req[c].gen <= generation[s]
      BY <1>1 DEF LookInv, LookOK, InStep
    <2>11. LookOK(c)'
      BY <2>1, <2>2, <2>5, <2>9, <2>10 DEF LookOK, InStep, Current, Unborn
    <2>12. LookInv' /\ MissInv'
      BY <2>1, <2>4, <2>11, LookOthers
    <2> QED BY <2>4, <2>12
  <1>9. CASE found # "found" /\ rest # <<>>
    <2>1. PICK e \in BOOLEAN : e = ~(found = "missing" /\ ~req[c].err)
      OBVIOUS
    <2>2. Frame(c) /\ req'[c] = [req[c] EXCEPT !.all = rest, !.err = e] /\ UNCHANGED <<generation, missing>>
      BY <1>3, <1>4, <1>9, <2>1 DEF Frame, ReqsOK
    <2>3. rest \in Seq(Owners) /\ \A o \in ToSet(req[c].all) : o = h \/ o \in ToSet(rest)
      BY <1>2, FirstAndRest
    <2> HIDE DEF rest
    <2>4. /\ req'[c] \in GetReqs /\ req'[c].at = "open" /\ req'[c].gen = req[c].gen /\ req'[c].all = rest
          /\ req'[c].seen = req[c].seen /\ req'[c].o = req[c].o /\ req'[c].err = e
      BY <1>1, <2>2, <2>3 DEF GetReqs, At
    <2>5. missing' \subseteq [sha : Shas, seen : Seq(Owners)] /\ generation' \in [Shas -> Nat]
      BY <2>2 DEF BlobsOK
    <2>6. /\ BmenuOK' /\ BlobsOK' /\ ReqsOK' /\ DiskOK' /\ LockInv' /\ HandInv' /\ AckedServable' /\ ReservedInv' /\ FloorInv'
          /\ \A o, t : Unborn(o, t) => Unborn(o, t)'
      BY <1>3, <1>5, <2>2, <2>4, <2>5, ReadKeeps
    <2>7. \A a : At(c, a)' => a = "open"
      BY <2>4 DEF At
    <2>8. ~e => Unborn(h, s) /\ ~req[c].err
      BY <1>4, <2>1, MissIsUnborn
    <2>9. Current(c) => \A o \in ToSet(req[c].seen) : o \in ToSet(rest) \/ e \/ Unborn(o, s)
      BY <1>1, <2>3, <2>8 DEF LookInv, LookOK
    <2>10. \A t : t = s /\ Current(c) => \A o \in ToSet(req[c].seen) : o \in ToSet(rest) \/ e \/ Unborn(o, t)'
      BY <2>6, <2>9
    <2>11. req[c].gen <= generation[s]
      BY <1>1 DEF LookInv, LookOK, InStep
    <2>12. LookOK(c)'
      BY <1>9, <2>2, <2>4, <2>7, <2>10, <2>11 DEF LookOK, InStep, Current, Unborn
    <2>13. LookInv' /\ MissInv'
      BY <2>2, <2>6, <2>12, LookOthers
    <2> QED BY <2>6, <2>13
  <1> QED BY <1>6, <1>7, <1>8, <1>9

\* get_blob: a miss is remembered only if no upload moved the generation since.
LEMMA RememberMissingKeeps ==
  ASSUME BlossomInv, NEW c \in BlobClients, RememberMissing(c)
  PROVE  BlossomInv'
  <1> USE DEF BlossomInv
  <1>1. req[c] \in GetReqs /\ At(c, "remember") /\ req[c].o.sha \in Shas /\ req[c].seen \in Seq(Owners)
    BY ReqShape, OpShape DEF RememberMissing, InStep, At, GetReqs
  <1> DEFINE s == req[c].o.sha
             e == [sha |-> s, seen |-> req[c].seen]
  <1>2. /\ Frame(c) /\ req'[c] = None /\ (\A a : ~At(c, a)') /\ NoClaim(c)
        /\ UNCHANGED <<objects, owners, generation, disk, shaLocks, taken, acked, migration>>
    BY <1>1 DEF RememberMissing, Answered, Frame, ReqsOK, At, NoClaim, InStep
  <1>3. missing' \subseteq missing \/ (Current(c) /\ missing' \subseteq missing \union {e})
    BY DEF RememberMissing, Without, Current
  <1>4. e \in [sha : Shas, seen : Seq(Owners)]
    BY <1>1
  <1>5. missing' \subseteq [sha : Shas, seen : Seq(Owners)] /\ generation' \in [Shas -> Nat]
    BY <1>2, <1>3, <1>4 DEF BlobsOK
  <1>6. /\ BmenuOK' /\ BlobsOK' /\ ReqsOK' /\ DiskOK' /\ LockInv' /\ HandInv' /\ AckedServable' /\ ReservedInv' /\ FloorInv'
        /\ \A o, t : Unborn(o, t) => Unborn(o, t)'
    BY <1>2, <1>5, ReadKeeps
  <1>7. Current(c) => \A o \in ToSet(req[c].seen) : Unborn(o, s)
    BY <1>1 DEF LookInv, LookOK
  <1>8. MissInv'
    <2> SUFFICES ASSUME NEW f \in missing', NEW o \in ToSet(f.seen) PROVE \E t : t = f.sha /\ Unborn(o, t)'
      BY DEF MissInv, Unborn
    <2>1. \E t : t = f.sha /\ Unborn(o, t)
      BY <1>3, <1>7 DEF MissInv
    <2> QED BY <1>6, <2>1
  <1>9. LookInv'
    BY <1>2, <1>6, LookOthers, NoLook
  <1> QED BY <1>6, <1>8, <1>9

\* list: a listing begins.
LEMMA ListStartKeeps ==
  ASSUME BlossomInv, NEW c \in BlobClients, ListStart(c)
  PROVE  BlossomInv'
  <1> USE DEF BlossomInv
  <1>1. Asked(c) \in BlobOps /\ req[c] = None
    BY AskedShape DEF ListStart, Idle
  <1> DEFINE r == [o |-> Asked(c), at |-> "list", cursor |-> None]
  <1>2. Frame(c) /\ UNCHANGED Stored /\ disk' = disk /\ Take(c) /\ (req'[c] = None \/ req'[c] = r)
    BY <1>1 DEF ListStart, Frame, Stored, ReqsOK
  <1>3. r \in ListReqs /\ r.at = "list"
    BY <1>1 DEF ListReqs
  <1> HIDE DEF r
  <1>4. req'[c] \in AllReqs /\ NoClaim(c) /\ NoClaim(c)' /\ ~InStep(c, Watched)'
    BY <1>1, <1>2, <1>3 DEF AllReqs, NoClaim, InStep, At, Watched
  <1> QED BY <1>2, <1>4, ClaimsNothing, QuietMove

\* list: a page of it.
LEMMA ListPageKeeps ==
  ASSUME BlossomInv, NEW c \in BlobClients, ListPage(c)
  PROVE  BlossomInv'
  <1> USE DEF BlossomInv
  <1>1. req[c] \in ListReqs /\ At(c, "list")
    BY ReqShape DEF ListPage
  <1>2. /\ Frame(c) /\ UNCHANGED Stored /\ UNCHANGED <<disk, taken>>
        /\ req'[c] = None \/ \E p \in Shas : req'[c] = [req[c] EXCEPT !.cursor = p]
    <2>1. \A o, p : PageAfter(o, p) \subseteq Shas
      BY DEF PageAfter
    <2> DEFINE page == IF req[c].cursor = None \/ Mapped(req[c].o.who, req[c].cursor)
                       THEN PageAfter(req[c].o.who, req[c].cursor) ELSE {}
    <2>2. page # {} => (CHOOSE p \in page : TRUE) \in Shas
      BY <2>1
    <2>3. req' = [req EXCEPT ![c] = IF page = {} THEN None ELSE [req[c] EXCEPT !.cursor = CHOOSE p \in page : TRUE]]
      BY DEF ListPage
    <2> HIDE DEF page
    <2>4. UNCHANGED Stored /\ UNCHANGED <<disk, taken, bmenu>>
      BY DEF ListPage, Stored
    <2> QED BY <2>2, <2>3, <2>4 DEF Frame, ReqsOK
  <1>3. req'[c] = None \/ (req'[c] \in ListReqs /\ req'[c].at = "list")
    BY <1>1, <1>2 DEF ListReqs
  <1>4. req'[c] \in AllReqs /\ NoClaim(c) /\ NoClaim(c)' /\ ~InStep(c, Watched)'
    BY <1>1, <1>3 DEF AllReqs, NoClaim, InStep, At, Watched
  <1> QED BY <1>2, <1>4, ClaimsNothing, QuietMove

\* delete_blob: a deletion begins.
LEMMA DeleteBlobKeeps ==
  ASSUME BlossomInv, NEW c \in BlobClients, DeleteBlob(c)
  PROVE  BlossomInv'
  <1> USE DEF BlossomInv
  <1>1. Asked(c) \in BlobOps /\ req[c] = None
    BY AskedShape DEF DeleteBlob, Idle
  <1> DEFINE r == [o |-> Asked(c), at |-> "unlink"]
  <1>2. Frame(c) /\ UNCHANGED Stored /\ disk' = disk /\ Take(c) /\ (req'[c] = None \/ req'[c] = r)
    BY <1>1 DEF DeleteBlob, Frame, Stored, ReqsOK
  <1>3. r \in OtherReqs /\ r.at = "unlink"
    BY <1>1 DEF OtherReqs
  <1> HIDE DEF r
  <1>4. req'[c] \in AllReqs /\ NoClaim(c) /\ NoClaim(c)' /\ ~InStep(c, Watched)'
    BY <1>1, <1>2, <1>3 DEF AllReqs, NoClaim, InStep, At, Watched
  <1> QED BY <1>2, <1>4, ClaimsNothing, QuietMove

\* An object goes, and with it the acknowledgement of its upload.
LEMMA GoneKeeps ==
  ASSUME BlossomInv, NEW c \in BlobClients, Frame(c), NEW p, p = BlobOf(req[c].o), shaLocks[p[2]] = None,
         objects' \in {objects, objects \ {p}}, acked' \subseteq acked, objects' # objects => p \notin acked',
         UNCHANGED <<owners, missing, generation, migration>>,
         \A a : At(c, a)' => a = "unmap" /\ req'[c].o = req[c].o /\ p \notin acked',
         shaLocks' \in [Shas -> BlobClients' \union {None}]
  PROVE  BlobsOK' /\ HandInv' /\ LookInv' /\ MissInv' /\ AckedServable'
  <1> USE DEF BlossomInv
  <1>1. /\ BlobClients' = BlobClients /\ None \notin BlobClients
        /\ \A d \in BlobClients : d # c => req'[d] = req[d] /\ \A a : At(d, a)' <=> At(d, a)
    BY Framed DEF BmenuOK
  <1>2. BlobsOK'
    BY <1>1 DEF BlobsOK
  <1>3. AckedServable'
    BY DEF AckedServable, Mapped
  <1>4. HandInv'
    <2>1. \A d \in BlobClients : InStep(d, {"forget", "commit"}) => BlobOf(req[d].o) # p
      BY <1>1 DEF LockInv, InStep, BlobOf
    <2> QED BY <1>1, <2>1 DEF HandInv, InStep
  <1>5. \A o, t : Unborn(o, t) => Unborn(o, t)'
    BY UnbornKept
  <1>6. LookInv' /\ MissInv'
    BY <1>5, LookKept
  <1> QED BY <1>2, <1>3, <1>4, <1>6

\* delete_blob: under the lock of the blob the object goes first.
LEMMA DeleteFileKeeps ==
  ASSUME BlossomInv, NEW c \in BlobClients, DeleteFile(c)
  PROVE  BlossomInv'
  <1> USE DEF BlossomInv
  <1>1. req[c] \in OtherReqs /\ At(c, "unlink") /\ req[c].o.sha \in Shas /\ shaLocks[req[c].o.sha] = None
    BY ReqShape, OpShape DEF DeleteFile, InStep, At
  <1>2. PICK p : p = BlobOf(req[c].o)
    OBVIOUS
  <1>3. /\ UNCHANGED <<owners, missing, generation, disk, taken, migration, bmenu>>
        /\ acked' = IF objects' = objects THEN acked ELSE acked \ {p}
    BY <1>2 DEF DeleteFile, BlobOf
  <1>4. NoClaim(c) /\ p[2] = req[c].o.sha
    BY <1>1, <1>2 DEF NoClaim, InStep, BlobOf
  <1>5. CASE FileUnlinked(c)
    <2>1. /\ Frame(c) /\ req'[c] = [req[c] EXCEPT !.at = "unmap"] /\ objects' = objects \ {p}
          /\ shaLocks' = [shaLocks EXCEPT ![req[c].o.sha] = c]
      BY <1>2, <1>3, <1>5 DEF FileUnlinked, GoTo, Frame, ReqsOK, BlobOf
    <2>2. req'[c] \in OtherReqs /\ req'[c].at = "unmap" /\ req'[c].o = req[c].o
      BY <1>1, <2>1, OtherGoes
    <2>3. req'[c] \in AllReqs /\ NoClaim(c)'
      BY <2>2 DEF AllReqs, NoClaim, InStep, At
    <2>4. BmenuOK' /\ ReqsOK' /\ DiskOK' /\ ReservedInv' /\ FloorInv'
      BY <1>3, <1>4, <2>1, <2>3, ClaimsNothing
    <2>5. LockInv' /\ shaLocks' \in [Shas -> BlobClients' \union {None}]
      BY <1>1, <2>1, <2>2, LockTaken
    <2>6. p \notin acked'
      BY <1>3, <2>1 DEF AckedServable
    <2>7. \A a : At(c, a)' => a = "unmap"
      BY <2>2 DEF At
    <2>8. BlobsOK' /\ HandInv' /\ LookInv' /\ MissInv' /\ AckedServable'
      BY <1>1, <1>2, <1>3, <1>4, <2>1, <2>2, <2>5, <2>6, <2>7, GoneKeeps
    <2> QED BY <2>4, <2>5, <2>8
  <1>6. CASE UnlinkFailed(c)
    <2>1. /\ Frame(c) /\ req'[c] = None /\ objects' \in {objects, objects \ {p}} /\ shaLocks' = shaLocks
          /\ \A a : ~At(c, a)'
      BY <1>2, <1>3, <1>6 DEF UnlinkFailed, Answered, Frame, ReqsOK, BlobOf, At
    <2>2. req'[c] \in AllReqs /\ NoClaim(c)'
      BY <2>1 DEF AllReqs, NoClaim
    <2>3. BmenuOK' /\ ReqsOK' /\ DiskOK' /\ ReservedInv' /\ FloorInv'
      BY <1>3, <1>4, <2>1, <2>2, ClaimsNothing
    <2>4. LockInv' /\ shaLocks' \in [Shas -> BlobClients' \union {None}]
      BY <2>1, LockStays
    <2>5. BlobsOK' /\ HandInv' /\ LookInv' /\ MissInv' /\ AckedServable'
      BY <1>1, <1>2, <1>3, <1>4, <2>1, <2>4, GoneKeeps
    <2> QED BY <2>3, <2>4, <2>5
  <1> QED BY <1>5, <1>6 DEF DeleteFile

\* delete_blob: then its mapping.
LEMMA DeleteMappingKeeps ==
  ASSUME BlossomInv, NEW c \in BlobClients, DeleteMapping(c)
  PROVE  BlossomInv'
  <1> USE DEF BlossomInv
  <1>1. req[c] \in OtherReqs /\ At(c, "unmap") /\ req[c].o.sha \in Shas
    BY ReqShape, OpShape DEF DeleteMapping, InStep, At
  <1> DEFINE s == req[c].o.sha
             w == req[c].o.who
  <1>2. shaLocks[s] = c /\ <<w, s>> \notin acked
    BY <1>1 DEF LockInv, HandInv, InStep, BlobOf
  <1>3. /\ Frame(c) /\ req'[c] = None /\ UNCHANGED <<objects, missing, generation, disk, taken, acked, migration>>
        /\ \A a : ~At(c, a)'
    BY DEF DeleteMapping, Answered, Frame, ReqsOK, At
  <1>4. shaLocks' = [shaLocks EXCEPT ![s] = None] /\ owners' \in {owners, [owners EXCEPT ![s] = WithoutOwner(@, w)]}
    BY <1>1, <1>2 DEF DeleteMapping, BlobsOK
  <1>5. req'[c] \in AllReqs /\ NoClaim(c)' /\ NoClaim(c)
    BY <1>1, <1>3 DEF AllReqs, NoClaim, InStep
  <1>6. BmenuOK' /\ ReqsOK' /\ DiskOK' /\ ReservedInv' /\ FloorInv'
    BY <1>3, <1>5, ClaimsNothing
  <1>7. LockInv' /\ shaLocks' \in [Shas -> BlobClients' \union {None}]
    BY <1>1, <1>2, <1>3, <1>4, Unlocks
  <1>8. WithoutOwner(owners[s], w) \in Seq(Owners) /\ ToSet(owners[s]) \ {w} \subseteq ToSet(WithoutOwner(owners[s], w))
    BY <1>1, OwnerRemoved DEF BlobsOK
  <1>9. /\ owners' \in [Shas -> Seq(Owners)] /\ ToSet(owners[s]) \ {w} \subseteq ToSet(owners'[s])
        /\ \A t \in Shas : t # s => owners'[t] = owners[t]
    BY <1>1, <1>4, <1>8 DEF BlobsOK
  <1>10. BlobsOK'
    BY <1>3, <1>7, <1>9 DEF BlobsOK
  <1>11. AckedServable'
    <2> SUFFICES ASSUME NEW p \in acked PROVE p \in objects /\ p[1] \in ToSet(owners'[p[2]])
      BY <1>3 DEF AckedServable, Mapped
    <2>1. p \in objects /\ p[1] \in ToSet(owners[p[2]]) /\ p[2] \in Shas /\ p = <<p[1], p[2]>>
      BY DEF AckedServable, Mapped, BlobsOK
    <2>2. CASE p[2] = s
      BY <1>2, <1>9, <2>1, <2>2
    <2>3. CASE p[2] # s
      BY <1>9, <2>1, <2>3
    <2> QED BY <2>1, <2>2, <2>3
  <1>12. HandInv'
    BY <1>3, Framed DEF HandInv, InStep
  <1>13. \A o, t : Unborn(o, t) => Unborn(o, t)'
    BY <1>3, UnbornKept
  <1>14. LookInv' /\ MissInv'
    BY <1>3, <1>13, LookKept
  <1> QED BY <1>6, <1>7, <1>10, <1>11, <1>12, <1>14

-----------------------------------------------------------------------------
(* The cache, the old files, the disk and a stop *)

\* The requests stay as they are.
LEMMA NoRequestMoves ==
  ASSUME BlossomInv, req' = req, BlobClients' = BlobClients, acked' = acked, generation' = generation,
         missing' \subseteq missing, shaLocks' = shaLocks
  PROVE  ReqsOK' /\ LockInv' /\ LookInv' /\ MissInv' /\ (objects' = objects => HandInv')
  <1> USE DEF BlossomInv
  <1>1. \A d, a : At(d, a)' <=> At(d, a)
    BY DEF At
  <1>2. \A o, t : Unborn(o, t) => Unborn(o, t)'
    BY <1>1 DEF Unborn
  <1>3. ReqsOK' /\ LockInv' /\ (objects' = objects => HandInv')
    BY <1>1 DEF ReqsOK, LockInv, HandInv, InStep
  <1>4. ASSUME NEW d \in BlobClients PROVE LookOK(d)'
    <2>1. InStep(d, {"open", "remember"}) => req[d].gen <= generation'[req[d].o.sha]
      BY DEF LookInv, LookOK
    <2>2. Current(d)' => Current(d)
      BY DEF Current
    <2> QED BY <1>1, <1>2, <2>1, <2>2, LookOne
  <1>5. MissInv'
    BY <1>2 DEF MissInv
  <1> QED BY <1>3, <1>4, <1>5 DEF LookInv

\* A step of no client leaves the accounts.
LEMMA NoRequestClaims ==
  ASSUME BlossomInv, req' = req, BlobClients' = BlobClients, bmenu'.s3 = bmenu.s3, DiskOK',
         disk'.reserved = disk.reserved, disk'.free + disk'.other = disk.free + disk.other
  PROVE  ReservedInv' /\ FloorInv'
  BY SameClaims DEF ReservedInv, FloorInv, BlossomInv, DiskOK

\* A remembered miss runs out.
LEMMA ForgetsItselfKeeps ==
  ASSUME BlossomInv, NEW s \in Shas, ForgetsItself(s)
  PROVE  BlossomInv'
  <1> USE DEF BlossomInv
  <1>1. /\ UNCHANGED <<objects, owners, generation, disk, shaLocks, req, taken, acked, migration, bmenu>>
        /\ missing' \subseteq missing
    BY DEF ForgetsItself, Without
  <1>2. BlobClients' = BlobClients /\ BmenuOK' /\ DiskOK'
    BY <1>1 DEF BlobClients, BmenuOK, DiskOK
  <1>3. BlobsOK' /\ AckedServable'
    BY <1>1, <1>2 DEF BlobsOK, AckedServable, Mapped
  <1> QED BY <1>1, <1>2, <1>3, NoRequestMoves, NoRequestClaims

\* The migration maps the objects it finds; it takes no owner away.
LEMMA MigrateKeeps ==
  ASSUME BlossomInv, MigrateScan \/ MigrateAdd
  PROVE  BlossomInv'
  <1> USE DEF BlossomInv
  <1>1. UNCHANGED <<objects, missing, generation, disk, shaLocks, req, taken, acked, bmenu>>
    BY DEF MigrateScan, MigrateAdd
  <1>2. BlobClients' = BlobClients /\ BmenuOK' /\ DiskOK'
    BY <1>1 DEF BlobClients, BmenuOK, DiskOK
  <1>3. DOMAIN migration' = {"at", "found"} /\ migration'.found \subseteq Owners \X Shas
    <2>1. CASE MigrateScan
      BY <2>1 DEF MigrateScan, BlobsOK
    <2>2. CASE MigrateAdd
      <3>1. \/ \E a : migration' = [migration EXCEPT !.at = a]
            \/ migration' = [at |-> "off", found |-> {}]
            \/ \E f : migration' = [migration EXCEPT !.found = @ \ {f}]
        BY <2>2 DEF MigrateAdd
      <3>2. DOMAIN migration = {"at", "found"} /\ migration.found \subseteq Owners \X Shas
        BY DEF BlobsOK
      <3>3. CASE \E a : migration' = [migration EXCEPT !.at = a]
        BY <3>2, <3>3
      <3>4. CASE migration' = [at |-> "off", found |-> {}]
        BY <3>4
      <3>5. CASE \E f : migration' = [migration EXCEPT !.found = @ \ {f}]
        BY <3>2, <3>5
      <3> QED BY <3>1, <3>3, <3>4, <3>5
    <2> QED BY <2>1, <2>2
  <1>4. owners' \in [Shas -> Seq(Owners)] /\ \A t \in Shas : ToSet(owners[t]) \subseteq ToSet(owners'[t])
    <2>1. owners' = owners \/ \E f \in migration.found : owners' = [owners EXCEPT ![f[2]] = WithOwner(@, f[1])]
      BY DEF MigrateScan, MigrateAdd
    <2>2. ASSUME NEW f \in migration.found, owners' = [owners EXCEPT ![f[2]] = WithOwner(@, f[1])]
          PROVE  owners' \in [Shas -> Seq(Owners)] /\ \A t \in Shas : ToSet(owners[t]) \subseteq ToSet(owners'[t])
      <3>1. f[1] \in Owners /\ f[2] \in Shas
        BY DEF BlobsOK
      <3>2. /\ WithOwner(owners[f[2]], f[1]) \in Seq(Owners)
            /\ ToSet(owners[f[2]]) \subseteq ToSet(WithOwner(owners[f[2]], f[1]))
        BY <3>1, OwnerAdded DEF BlobsOK
      <3> QED BY <2>2, <3>1, <3>2 DEF BlobsOK
    <2> QED BY <2>1, <2>2 DEF BlobsOK
  <1>5. BlobsOK'
    BY <1>1, <1>2, <1>3, <1>4 DEF BlobsOK
  <1>6. AckedServable'
    BY <1>1, <1>4 DEF AckedServable, Mapped, BlobsOK
  <1> QED BY <1>1, <1>2, <1>5, <1>6, NoRequestMoves, NoRequestClaims

\* The faults that are left change.
LEMMA SameMenu ==
  ASSUME BlossomInv, NEW F, bmenu' = [bmenu EXCEPT !.faults = F]
  PROVE  BlobClients' = BlobClients /\ bmenu'.s3 = bmenu.s3 /\ (taken' = taken => BmenuOK')
  BY DEF BlossomInv, BmenuOK, BlobClients

\* Others use up free space, which is not the uploads doing.
LEMMA DiskUseKeeps ==
  ASSUME BlossomInv, DiskUse
  PROVE  BlossomInv'
  <1> USE DEF BlossomInv
  <1>1. UNCHANGED <<objects, owners, missing, generation, shaLocks, req, taken, acked, migration>>
    BY DEF DiskUse
  <1>2. BlobClients' = BlobClients /\ bmenu'.s3 = bmenu.s3 /\ BmenuOK'
    BY <1>1, SameMenu DEF DiskUse
  <1>3. PICK n \in 1..disk.free : disk' = [disk EXCEPT !.free = @ - n, !.other = @ + n]
    BY DEF DiskUse
  <1>4. /\ DiskOK' /\ disk'.free = disk.free - n /\ disk'.other = disk.other + n /\ disk'.reserved = disk.reserved
        /\ disk'.free + disk'.other = disk.free + disk.other
    <2>1. disk.free \in Int /\ disk.other \in Nat /\ n \in Nat
      BY DEF DiskOK
    <2>2. PICK x \in Int, y \in Nat : x = disk.free - n /\ y = disk.other + n
      BY <2>1
    <2>3. disk' = [disk EXCEPT !.free = x, !.other = y]
      BY <1>3, <2>2
    <2>4. DiskOK' /\ disk'.free = x /\ disk'.other = y /\ disk'.reserved = disk.reserved
      BY <2>3 DEF DiskOK
    <2> QED BY <2>1, <2>2, <2>4
  <1>5. BlobsOK' /\ AckedServable'
    BY <1>1, <1>2 DEF BlobsOK, AckedServable, Mapped
  <1>6. ReservedInv' /\ FloorInv'
    BY <1>1, <1>2, <1>4, NoRequestClaims
  <1> QED BY <1>1, <1>2, <1>4, <1>5, <1>6, NoRequestMoves

\* The shutdown begins.
LEMMA DrainSignalKeeps ==
  ASSUME BlossomInv, DrainSignal
  PROVE  BlossomInv'
  <1> USE DEF BlossomInv
  <1>1. UNCHANGED <<objects, owners, missing, generation, disk, shaLocks, req, taken, acked, migration>>
    BY DEF DrainSignal
  <1>2. BlobClients' = BlobClients /\ bmenu'.s3 = bmenu.s3 /\ BmenuOK'
    BY <1>1, SameMenu DEF DrainSignal
  <1>3. DiskOK' /\ BlobsOK' /\ AckedServable'
    BY <1>1, <1>2 DEF DiskOK, BlobsOK, AckedServable, Mapped
  <1> QED BY <1>1, <1>2, <1>3, NoRequestMoves, NoRequestClaims

\* The blobs and the accounts when there is no request.
LEMMA NobodyAsks ==
  ASSUME BmenuOK, req = [c \in BlobClients |-> None], missing = {}
  PROVE  /\ ReqsOK /\ LockInv /\ HandInv /\ LookInv /\ MissInv
         /\ SumOver(Claimed, BlobClients) = 0 /\ SumOver(Unwritten, BlobClients) = 0
  <1>1. \A c \in BlobClients : req[c] = None /\ \A a : ~At(c, a)
    BY DEF At
  <1>2. \A c \in BlobClients : Claimed[c] = 0 /\ Unwritten[c] = 0
    BY <1>1, ClaimValue DEF ClaimTable
  <1>3. SumOver(Claimed, BlobClients) = 0
    BY <1>2, SumZero
  <1>4. SumOver(Unwritten, BlobClients) = 0
    BY <1>2, SumZero
  <1> QED BY <1>1, <1>3, <1>4 DEF ReqsOK, LockInv, HandInv, LookInv, LookOK, MissInv, InStep

Nobody == BmenuOK /\ req = [c \in BlobClients |-> None] /\ missing = {}
Empty == /\ ReqsOK /\ LockInv /\ HandInv /\ LookInv /\ MissInv
         /\ SumOver(Claimed, BlobClients) = 0 /\ SumOver(Unwritten, BlobClients) = 0
\* The same as an implication, to be used of the next state.
LEMMA NobodyIsEmpty == Nobody => Empty
  BY NobodyAsks DEF Nobody, Empty

\* A new process finds the objects and the mappings as they were; the spools it sweeps only add free space.
LEMMA RestartKeeps ==
  ASSUME BlossomInv, Restart
  PROVE  BlossomInv'
  <1> USE DEF BlossomInv
  <1>1. /\ UNCHANGED <<objects, owners, taken, acked>> /\ req' = [c \in BlobClients |-> None] /\ missing' = {}
        /\ generation' = [s \in Shas |-> 0] /\ shaLocks' = [s \in Shas |-> None]
        /\ \E a : migration' = [at |-> a, found |-> {}]
    BY DEF Restart, Fresh
  <1>2. BlobClients' = BlobClients /\ bmenu'.s3 = bmenu.s3 /\ BmenuOK'
    BY <1>1, SameMenu DEF Restart
  <1>3. Empty'
    <2>1. Nobody'
      BY <1>1, <1>2 DEF Nobody
    <2> QED BY <2>1, NobodyIsEmpty, PTL
  <1>4. BlobsOK' /\ AckedServable'
    BY <1>1, <1>2 DEF BlobsOK, AckedServable, Mapped
  <1> DEFINE inSpool(c) == req[c] # None /\ req[c].at \in {"spool", "check", "publish"} \union (IF bmenu.s3 THEN {"forget", "commit"} ELSE {})
             f == [c \in BlobClients |-> IF inSpool(c) THEN req[c].size ELSE 0]
  <1>5. disk' = [disk EXCEPT !.free = disk.free + disk.orphans + SumOver(f, BlobClients), !.reserved = 0, !.orphans = 0]
    BY DEF Restart, Fresh
  <1>6. \A c \in BlobClients : f[c] \in Nat
    <2> SUFFICES ASSUME NEW c \in BlobClients, inSpool(c) PROVE req[c].size \in Nat
      OBVIOUS
    <2>1. InStep(c, {"spool", "check", "publish", "forget", "commit"})
      BY DEF InStep, At
    <2> QED BY <2>1, ReqShape DEF PutReqs
  <1> HIDE DEF f
  <1>7. PICK n \in Nat : n = SumOver(f, BlobClients)
    BY <1>6, SumNat DEF BmenuOK
  <1>8. /\ DiskOK' /\ disk'.reserved = 0 /\ disk'.free >= disk.free /\ disk'.other = disk.other
    <2>1. disk.free \in Int /\ disk.orphans \in Nat
      BY DEF DiskOK
    <2>2. PICK x \in Int : x = disk.free + disk.orphans + n /\ x >= disk.free
      BY <2>1
    <2>3. disk' = [disk EXCEPT !.free = x, !.reserved = 0, !.orphans = 0]
      BY <1>5, <1>7, <2>2
    <2>4. PICK r \in Int, o \in Nat : r = 0 /\ o = 0
      OBVIOUS
    <2>5. disk' = [disk EXCEPT !.free = x, !.reserved = r, !.orphans = o]
      BY <2>3, <2>4
    <2>6. DiskOK' /\ disk'.free = x /\ disk'.reserved = r /\ disk'.other = disk.other
      BY <2>5 DEF DiskOK
    <2> QED BY <2>2, <2>4, <2>6
  <1>9. ReservedInv'
    BY <1>3, <1>8 DEF ReservedInv, Empty
  <1>10. FloorInv'
    <2>1. SumOver(Unwritten, BlobClients) \in Nat
      BY SameClaims, ClaimType, SumNat DEF BmenuOK, ClaimsOK
    <2>2. SumOver(Unwritten, BlobClients)' = 0
      BY <1>3 DEF Empty
    <2>3. disk.free \in Int /\ disk.other \in Nat /\ disk'.free \in Int
      BY <1>8 DEF DiskOK
    <2> QED BY <1>2, <1>8, <2>1, <2>2, <2>3, FloorType DEF FloorInv
  <1> QED BY <1>2, <1>3, <1>4, <1>8, <1>9, <1>10 DEF Empty

\* The invariant holds at the start.
LEMMA InitHolds == BlossomInit => BlossomInv
  <1> SUFFICES ASSUME BlossomInit PROVE BlossomInv
    OBVIOUS
  <1>1. BmenuOK
    BY BlobMenuType DEF BlossomInit, BmenuOK, BlobClients
  <1>2. Empty
    BY <1>1, NobodyIsEmpty DEF Nobody, BlossomInit
  <1>3. BlobsOK /\ AckedServable
    BY BlobMenuType DEF BlossomInit, BlobsOK, AckedServable
  <1>4. DiskOK /\ disk.reserved = 0 /\ disk.free + disk.other >= MinFree
    <2>1. bmenu.free \in Nat
      BY BlobMenuType DEF BlossomInit
    <2>2. PICK n \in Nat : n = (IF bmenu.free < MinFree THEN MinFree - bmenu.free ELSE 0) /\ bmenu.free + n >= MinFree
      BY <2>1, FloorType
    <2>3. disk = [free |-> bmenu.free, reserved |-> 0, orphans |-> 0, other |-> n]
      BY <2>2 DEF BlossomInit
    <2> QED BY <2>1, <2>2, <2>3 DEF DiskOK
  <1>5. ReservedInv
    BY <1>2, <1>4 DEF ReservedInv, Empty
  <1>6. FloorInv
    BY <1>2, <1>4, FloorType DEF FloorInv, Empty
  <1> QED BY <1>1, <1>2, <1>3, <1>4, <1>5, <1>6 DEF BlossomInv, Empty

\* Every step of a client keeps it.
LEMMA ClientKeeps ==
  ASSUME BlossomInv, NEW c \in BlobClients,
         \/ PutBlob(c) \/ HeadUpload(c) \/ HeadUploadDone(c) \/ SpoolChunk(c) \/ GrowCheck(c) \/ UploadFails(c)
         \/ PutFile(c) \/ PublishLocal(c) \/ PublishS3(c) \/ ForgetMissing(c) \/ CommitOwner(c)
         \/ Resolve(c) \/ OpenStart(c) \/ OpenOwner(c) \/ RememberMissing(c)
         \/ ListStart(c) \/ ListPage(c) \/ DeleteBlob(c) \/ DeleteFile(c) \/ DeleteMapping(c)
  PROVE  BlossomInv'
  BY PutBlobKeeps, HeadUploadKeeps, HeadUploadDoneKeeps, SpoolChunkKeeps, GrowCheckKeeps,
     UploadFailsKeeps,
     PutFileKeeps, PublishLocalKeeps, PublishS3Keeps, ForgetMissingKeeps, CommitOwnerKeeps,
     ResolveKeeps, OpenStartKeeps, OpenOwnerKeeps, RememberMissingKeeps,
     ListStartKeeps, ListPageKeeps, DeleteBlobKeeps, DeleteFileKeeps, DeleteMappingKeeps

\* So does a step that changes nothing.
LEMMA StutterKeeps ==
  ASSUME BlossomInv, UNCHANGED bvars
  PROVE  BlossomInv'
  <1> USE DEF BlossomInv, bvars
  <1>1. BlobClients' = BlobClients /\ BmenuOK' /\ DiskOK' /\ BlobsOK' /\ AckedServable'
    BY DEF BlobClients, BmenuOK, DiskOK, BlobsOK, AckedServable, Mapped
  <1> QED BY <1>1, NoRequestMoves, NoRequestClaims

\* The invariant holds of the server.
LEMMA InvHolds == BlossomSpec => []BlossomInv
  <1>1. BlossomInv /\ [BlossomNext]_bvars => BlossomInv'
    <2> SUFFICES ASSUME BlossomInv, [BlossomNext]_bvars PROVE BlossomInv'
      OBVIOUS
    <2>1. CASE UNCHANGED bvars
      BY <2>1, StutterKeeps
    <2>2. CASE BlossomNext
      BY <2>2, ClientKeeps, ForgetsItselfKeeps, MigrateKeeps, DiskUseKeeps, DrainSignalKeeps,
         RestartKeeps DEF BlossomNext
    <2> QED BY <2>1, <2>2
  <1> QED BY <1>1, InitHolds, PTL DEF BlossomSpec

\* What put_blob acknowledged can be served until its owner deletes it (the object is stored, the owner mapped), and
\* no miss that get_blob remembers comes from a lookup that asked that owner: uploads, lookups, deletions, the
\* migration and restarts in any order, with failing stores and lost S3 answers.
THEOREM HonestCorrect == BlossomSpec => []BlobsHonest
  <1>1. BlossomInv => BlobsHonest
    BY DEF BlossomInv, BlobsHonest, MissInv, MissingHonest, Unborn
  <1> QED BY <1>1, InvHolds, PTL

\* Uploads that run side by side never take the free space of a local store under min_free_bytes, whatever the
\* interleaving of their reservations, checks, writes and failures.
THEOREM FloorCorrect == BlossomSpec => []FloorHeld
  <1>1. BlossomInv => FloorHeld
    <2> SUFFICES ASSUME BlossomInv PROVE FloorHeld
      OBVIOUS
    <2>1. SumOver(Unwritten, BlobClients) \in Nat
      BY ClaimType, SumNat DEF BmenuOK, ClaimsOK, BlossomInv
    <2> QED BY <2>1, FloorType DEF BlossomInv, FloorInv, FloorHeld, DiskOK
  <1> QED BY <1>1, InvHolds, PTL

==============================================================================
