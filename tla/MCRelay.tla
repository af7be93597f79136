------------------------------- MODULE MCRelay -------------------------------
(***************************************************************************)
(* Five parts of the relay, each bounded by its menus: what clients send   *)
(* and what may fail.  A behaviour follows one part: what one part has of  *)
(* another (the roles an admission changes, the group events that are      *)
(* stored) is in its own model.                                            *)
(***************************************************************************)
EXTENDS Intake, Roles, GroupStore, Blossom, LiveKit

CONSTANT Parts  \* the parts a run is about

VARIABLE part

-----------------------------------------------------------------------------
(* The intake: one menu per question *)

Sent(id, a, cls, flaw, prev, to, arg) ==
    [id |-> id, author |-> a, cls |-> cls, flaw |-> flaw, prev |-> prev, to |-> to, arg |-> arg]
Posted(id, a, cls) == Sent(id, a, cls, "", {}, 0, "")
Byid(send, stored) ==
    LET all == stored \union UNION {ToSet(send[c][k]) : <<c, k>> \in {<<c, k>> \in Conns \X (1..2) : k <= Len(send[c])}}
    IN  [i \in {e.id : e \in all} |-> CHOOSE e \in all : e.id = i]
Pair(s1, s2) == [c \in Conns |-> IF c = "c1" THEN s1 ELSE s2]
Batches(send, faults, stored, roles, rate, age) ==
    [send |-> send, faults |-> faults, banned |-> {4}, stored |-> {e.id : e \in stored}, roles |-> roles,
     rate |-> rate, minAge |-> age, event |-> Byid(send, stored)]
RolesAt(admins, members) ==
    [a \in Authors |-> IF a \in admins THEN "admin" ELSE IF a \in members THEN "member" ELSE "none"]

Old == Posted(1, 1, "note")
Mixed == <<Posted(11, 1, "note"), Sent(12, 2, "chat", "", {1}, 0, ""), Sent(13, 9, "op", "", {}, 2, "deny"),
           Sent(14, 1, "chat", "sig", {}, 0, ""), Sent(15, 2, "eph", "", {11}, 0, "")>>
Flawed == <<Sent(20, 1, "note", "shape", {}, 0, ""), Sent(21, 1, "note", "base", {}, 0, ""), Sent(22, 4, "note", "", {}, 0, ""), Sent(23, 1, "chat", "", {7}, 0, ""),
            Posted(24, 1, "group"), Posted(25, 2, "dm")>>
Grant(id, a, to, arg) == Sent(id, a, "member", "", {}, to, arg)
Deletes(id, a, to) == Sent(id, a, "delete", "", {}, to, "")
Join(id, a, code) == Sent(id, a, "join", "", {}, 0, code)

BothRoles == RolesAt({9}, {2})
MCIntakeMenus ==
    {Batches(Pair(<<Mixed>>, <<<<Sent(12, 2, "chat", "", {1}, 0, "")>>>>), {"panic", "lost"}, {Old}, BothRoles, <<3>>, 0),
     Batches(Pair(<<Flawed>>, <<<<Posted(24, 1, "group")>>>>), {"shed", "mark", "apply", "removal", "clear"}, {Old}, BothRoles, <<0>>, 0),
     Batches(Pair(<<<<Posted(11, 1, "note")>>, <<Posted(12, 1, "note"), Posted(13, 2, "icon")>>>>, <<<<Posted(14, 1, "leave")>>>>),
          {"read"}, {}, BothRoles, <<2, 2>>, 1),
     Batches(Pair(<<<<Posted(11, 1, "note"), Posted(12, 2, "note")>>>>,
               <<<<Posted(1, 1, "note"), Posted(14, 3, "note"), Posted(15, 1, "note")>>>>),
          {"shed"}, {Old}, BothRoles, <<2, 1, 2>>, 0),
     Batches(Pair(<<<<Posted(11, 1, "note"), Posted(12, 1, "note"), Sent(13, 2, "chat", "", {12}, 0, "")>>>>, <<>>),
          {}, {}, BothRoles, <<1>>, 0),
     Batches(Pair(<<<<Join(11, 1, "good"), Join(12, 3, "good")>>>>, <<<<Posted(13, 1, "vanish")>>, <<Sent(14, 9, "putuser", "", {}, 1, "")>>>>),
          {"read", "removal"}, {Old}, RolesAt({9}, {2}), <<2>>, 0),
     Batches(Pair(<<<<Join(11, 1, "good")>>>>, <<<<Join(12, 3, "good")>>, <<Grant(13, 1, 3, "admin")>>>>),
          {}, {}, RolesAt({9}, {2}), <<2>>, 0),
     Batches(Pair(<<<<Grant(11, 9, 3, "member")>>>>, <<>>), {}, {}, RolesAt({9}, {1, 2}), <<2>>, 0),
     Batches(Pair(<<<<Join(11, 1, "bad"), Join(12, 1, "bad"), Join(13, 1, "good"), Sent(14, 1, "gjoin", "", {}, 0, "")>>>>,
               <<<<Join(15, 1, "good")>>>>), {}, {}, RolesAt({9}, {}), <<2, 2, 2>>, 0),
     Batches(Pair(<<<<Grant(11, 9, 1, "admin")>>, <<Grant(12, 9, 3, "member")>>>>,
               <<<<Grant(13, 9, 1, "none")>>, <<Posted(14, 1, "icon")>>>>),
          {"crash", "apply", "clear", "removal"}, {}, RolesAt({9}, {}), <<0>>, 0),
     Batches(Pair(<<<<Grant(11, 9, 1, "admin"), Grant(11, 9, 1, "admin")>>, <<Grant(11, 9, 1, "admin")>>>>, <<<<Posted(12, 1, "vanish")>>>>),
          {"crash", "shed", "clear", "removal"}, {}, RolesAt({9}, {1}), <<0>>, 0),
     Batches(Pair(<<<<Grant(11, 9, 1, "admin")>>>>, <<<<Grant(11, 9, 1, "admin")>>>>), {"crash"}, {}, RolesAt({9}, {}), <<0>>, 0),
     Batches(Pair(<<<<Deletes(11, 1, 1)>>>>, <<<<Deletes(12, 1, 2)>>>>), {"removal", "stop", "crash"},
          {Old, Posted(2, 1, "note")}, RolesAt({9}, {}), <<0>>, 0)}

\* Two deletions whose removals the writer sheds, without a crash.
MCHeldMenus ==
    {Batches(Pair(<<<<Deletes(11, 1, 1)>>>>, <<<<Deletes(12, 1, 2)>>>>), {"removal"}, {Old, Posted(2, 1, "note")}, RolesAt({9}, {}), <<0>>, 0)}

-----------------------------------------------------------------------------
(* The role store *)

Act(t, m, r) == [t |-> t, m |-> m, r |-> r]
StartRoles == [defs |-> {"mod", "vip"}, asg |-> [m \in Members |-> IF m = "ann" THEN {"mod", "vip"} ELSE {}], claims |-> {"code"}]
Calls(p, q, f, x, a) ==
    [ops |-> [c \in Clients |-> IF c = "c1" THEN p ELSE q], faults |-> f, removals |-> x, start |-> StartRoles, allowed |-> a]
MCRoleMenus ==
    { Calls(<<Act("leave", "ann", "")>>, <<Act("assign", "bob", "mod"), Act("unclaim", "", "code")>>, {"scan", "stop"}, {"mod"}, {}),
      Calls(<<Act("vanish", "ann", ""), Act("create", "", "new")>>, <<Act("command", "ann", ""), Act("unassign", "bob", "vip")>>, {"save"}, {"mod"}, {"ann"}),
      Calls(<<Act("delete", "", "vip"), Act("admit", "ann", "")>>, <<Act("leave", "ann", ""), Act("claim", "", "two"), Act("leave", "bob", "")>>, {"store"}, {"list"}, {"bob"}) }

-----------------------------------------------------------------------------
(* The groups *)

Ge(t, g, by) == Event(t, g, by)
GeOn(t, g, by, who, as) == [Event(t, g, by) EXCEPT !.who = who, !.role = as]
GeEdit(g, by, parent, kids) == [Event("edit", g, by) EXCEPT !.parent = parent, !.kids = kids]
Late(e) == [e EXCEPT !.at = 1]

\* The events of the clients: a hierarchy built and torn down, members who come and go, a group deleted and made
\* again, an erased key, DM channels.
MCGroupMenus == {
    [ops |-> ("c1" :> <<Ge("create", "g", "a"), GeEdit("g", "a", Nil, {"h"}), Ge("delete", "g", "a")>>
           @@ "c2" :> <<Ge("create", "h", "a"), GeEdit("h", "a", "g", {}), GeEdit("h", "a", Nil, {"g"})>>), faults |-> {}],
    [ops |-> ("c1" :> <<Ge("create", "g", "a"), GeOn("remove", "g", "a", "b", "member"), Ge("post", "g", "a")>>
           @@ "c2" :> <<Ge("join", "g", "b"), Ge("leave", "g", "b"), Ge("join", "g", "c")>>), faults |-> {"remove"}],
    [ops |-> ("c1" :> <<Ge("create", "g", "a"), GeOn("put", "g", "a", "b", "admin"), GeOn("remove", "g", "a", "b", "member")>>
           @@ "c2" :> <<GeOn("put", "g", "b", "c", "member"), Late(GeOn("remove", "g", "b", "a", "member"))>>), faults |-> {}],
    [ops |-> ("c1" :> <<Ge("create", "g", "a"), GeOn("put", "g", "a", "b", "admin"), GeOn("remove", "g", "a", "b", "member")>>
           @@ "c2" :> <<Ge("delete", "g", "b")>>), faults |-> {}],
    [ops |-> ("c1" :> <<Ge("create", "g", "a"), Ge("delete", "g", "a"), Ge("create", "g", "a")>>
           @@ "c2" :> <<Ge("join", "g", "b"), Ge("leave", "g", "b")>>), faults |-> {"purge"}],
    [ops |-> ("c1" :> <<Ge("create", "g", "a"), Ge("join", "g", "b"), [Ge("edit", "g", "a") EXCEPT !.closed = TRUE]>>
           @@ "c2" :> <<[Ge("invite", "g", "a") EXCEPT !.code = "x"], [Ge("join", "g", "c") EXCEPT !.code = "x"],
                        Ge("vanish", "g", "b")>>), faults |-> {"store"}],
    [ops |-> ("c1" :> <<GeOn("dm", "g", "a", "b", "member"), Ge("hide", "g", "a"), GeOn("dm", "g", "a", "b", "member")>>
           @@ "c2" :> <<Ge("create", "h", "c"), Ge("vanish", "g", "b"), GeOn("put", "h", "c", "b", "member")>>),
     faults |-> {"persist"}] }

-----------------------------------------------------------------------------
(* The blobs *)

BlobAsk(t, who, sha, size) == [t |-> t, who |-> who, sha |-> sha, size |-> size, bad |-> "none", range |-> <<>>]
BlobPut(who, sha, size) == BlobAsk("put", who, sha, size)
BlobGet(sha) == BlobAsk("get", "a", sha, 2)
BlobDel(who, sha) == BlobAsk("delete", who, sha, 1)
NoBlobs == [ops |-> <<>>, faults |-> {}, s3 |-> FALSE, free |-> 9, files |-> {}, allowed |-> {"a", "b"}]
MCLater(s, t) == s = "y" /\ t = "x"

MCBlobMenus == {
    \* an upload against the deletion and the reads of the same blob, with failing stores
    [NoBlobs EXCEPT !.ops = ("c1" :> <<BlobPut("a", "x", 1), BlobDel("a", "x")>> @@ "c2" :> <<BlobPut("b", "x", 1), BlobPut("a", "x", 1)>>
                       @@ "c3" :> <<BlobGet("x"), BlobGet("x")>>), !.faults = {"io", "db", "link"}],
    [NoBlobs EXCEPT !.ops = ("c1" :> <<BlobPut("a", "x", 1), BlobDel("a", "x"), BlobPut("a", "x", 1)>> @@ "c2" :> <<BlobGet("x"), BlobGet("x")>>
                       @@ "c3" :> <<BlobDel("a", "x")>>), !.faults = {"s3", "crash"}, !.s3 = TRUE],
    \* three uploads for the last free chunks
    [NoBlobs EXCEPT !.ops = ("c1" :> <<BlobPut("a", "x", 2)>> @@ "c2" :> <<BlobPut("b", "y", 2)>> @@ "c3" :> <<BlobPut("a", "y", 1)>>),
                 !.faults = {"body", "drain", "crash", "disk"}, !.free = 4],
    \* a disk that is full at the start: nothing is accepted
    [NoBlobs EXCEPT !.ops = ("c1" :> <<BlobPut("a", "x", 1), BlobAsk("head_upload", "a", "x", 1)>>), !.free = 0],
    \* old files are mapped while clients upload and delete
    [NoBlobs EXCEPT !.ops = ("c1" :> <<BlobPut("a", "x", 1), BlobDel("a", "x")>> @@ "c2" :> <<BlobPut("b", "x", 1), BlobDel("b", "y")>>),
                 !.faults = {"db", "drain"}, !.files = {<<"a", "x">>, <<"b", "y">>}],
    \* refused requests, ranges, the preflight and a list beside an upload
    [NoBlobs EXCEPT !.ops = ("c1" :> <<[BlobPut("a", "x", 1) EXCEPT !.bad = "hash"], BlobPut("a", "y", 1), BlobPut("b", "x", 1), BlobPut("a", "x", 1)>>
                       @@ "c2" :> <<BlobAsk("head_upload", "a", "x", 2), [BlobPut("a", "y", 1) EXCEPT !.bad = "expired"],
                                    BlobAsk("list", "a", "x", 0), [BlobGet("y") EXCEPT !.range = <<3, 0>>],
                                    [BlobGet("y") EXCEPT !.range = <<0, 1>>]>>), !.free = 4, !.allowed = {"a"}] }

-----------------------------------------------------------------------------
(* LiveKit *)

Hook(g) == [group |-> g, sound |-> TRUE, relevant |-> TRUE]
Goes(g, who) == [group |-> g, who |-> who]
Does(g, what) == [group |-> g, what |-> what]
Asks(g) == [group |-> g, who |-> "a", signed |-> TRUE, banned |-> FALSE, stale |-> FALSE, open |-> FALSE, member |-> TRUE]
Quiet == [config |-> Configured, groups |-> {"g"}, on |-> {"g"}, lists |-> [g \in {"g"} |-> NoList], hooks |-> <<>>, polls |-> 0, moves |-> <<>>, edits |-> <<>>, tokens |-> <<>>,
          faults |-> {}, starts |-> 0]
MCLiveMenus == {
    [Quiet EXCEPT !.hooks = <<Hook("g"), Hook("g"), [Hook("g") EXCEPT !.sound = FALSE]>>, !.moves = <<Goes("g", {<<"a", 1>>, <<"a", 2>>, <<Foreign, 1>>}), Goes("g", Gone)>>, !.polls = 1,
                  !.faults = {"fetch", "store"}],
    [Quiet EXCEPT !.hooks = <<Hook("g"), Hook("g")>>, !.moves = <<Goes("g", {<<"a", 1>>})>>, !.polls = 2, !.edits = <<Does("g", "leave"), Does("g", "enter")>>,
                  !.faults = {"store", "scan"}],
    [Quiet EXCEPT !.hooks = <<Hook("g")>>, !.moves = <<Goes("g", {<<"a", 1>>})>>, !.polls = 2, !.edits = <<Does("g", "rebuild"), Does("g", "delete")>>, !.starts = 1,
                  !.faults = {"unwind"}],
    [Quiet EXCEPT !.groups = {"g", "h"}, !.on = {"g", "h"}, !.lists = [g \in {"g", "h"} |-> {"a"}], !.hooks = <<Hook("h")>>, !.polls = 1,
                  !.tokens = <<Asks("g"), [Asks("h") EXCEPT !.stale = TRUE], [Asks("h") EXCEPT !.signed = FALSE]>>, !.edits = <<Does("h", "rebuild")>>],
    [Quiet EXCEPT !.config = Configured \ {"url"}, !.lists = [g \in {"g"} |-> {"a"}], !.hooks = <<Hook("g"), [Hook("g") EXCEPT !.relevant = FALSE]>>, !.polls = 2,
                  !.tokens = <<Asks("g")>>, !.edits = <<Does("g", "rebuild")>>],
    [Quiet EXCEPT !.config = Configured \ {"selfkey"}, !.hooks = <<Hook("g")>>, !.polls = 1, !.tokens = <<Asks("g")>>] }

-----------------------------------------------------------------------------

\* The part that moves has any of its menus, the others one.
Menu(p, menus) == IF part = p THEN menus ELSE {CHOOSE m \in menus : TRUE}

RelayInit ==
    /\ part \in Parts
    /\ menu \in Menu("intake", Menus)
    /\ rmenu \in Menu("roles", RoleMenus)
    /\ gmenu \in Menu("groups", GroupMenus)
    /\ bmenu \in Menu("blobs", BlobMenus)
    /\ lmenu \in Menu("livekit", LiveMenus)
    /\ IntakeInit /\ RolesInit /\ GroupsInit /\ BlossomInit /\ LiveInit

RelayNext ==
    /\ UNCHANGED part
    /\ \/ part = "intake" /\ IntakeNext /\ UNCHANGED <<rvars, groupVars, bvars, lvars>>
       \/ part = "roles" /\ RolesNext /\ UNCHANGED <<ivars, groupVars, bvars, lvars>>
       \/ part = "groups" /\ GroupsNext /\ UNCHANGED <<ivars, rvars, bvars, lvars>>
       \/ part = "blobs" /\ BlossomNext /\ UNCHANGED <<ivars, rvars, groupVars, lvars>>
       \/ part = "livekit" /\ LiveNext /\ UNCHANGED <<ivars, rvars, groupVars, bvars>>

RelaySpec == RelayInit /\ [][RelayNext]_<<part, ivars, rvars, groupVars, bvars, lvars>>
=============================================================================
