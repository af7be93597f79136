---------------------------- MODULE MCEventStore ----------------------------
(***************************************************************************)
(* Small event sets for model-checking EventStore, one per question.       *)
(***************************************************************************)
EXTENDS EventStore, TLC

CONSTANTS alice, bob, profile, about, g1

E(author, kind, created) ==
    [author |-> author, kind |-> kind, created |-> created, expiry |-> Forever,
     addr |-> None, group |-> None, delegator |-> None, to |-> {}]

NoRequest ==
    [by |-> None, created |-> 0, targets |-> {}, addrs |-> {}, group |-> None,
     wraps |-> FALSE]

TheOwner == [a \in Address |-> alice]

\* NIP-09: two versions of alice's profile, the newer published by her for
\* bob; a note of hers and the wrap bob sent her; a role event of bob's.
DeleteEv ==
    1 :> [E(alice, "replaceable", 1) EXCEPT !.addr = profile]
 @@ 2 :> [E(alice, "replaceable", 2) EXCEPT !.addr = profile, !.delegator = bob]
 @@ 3 :> E(alice, "note", 2)
 @@ 4 :> [E(bob, "wrap", 1) EXCEPT !.to = {alice}]
 @@ 5 :> E(bob, "role", 1)

DeleteRequests ==
    {[NoRequest EXCEPT !.by = alice, !.created = 1, !.targets = {3, 4}, !.addrs = {profile}],
     [NoRequest EXCEPT !.by = alice, !.created = 1, !.targets = {2}, !.wraps = TRUE],
     [NoRequest EXCEPT !.by = bob, !.created = 2, !.targets = {3, 5}, !.addrs = {profile}]}

\* NIP-62: alice's history on both sides of the bound, an event bob published
\* for her, wraps to her on both sides, and a role event of hers.
VanishEv ==
    6 :> E(alice, "note", 1)
 @@ 7 :> [E(alice, "replaceable", 3) EXCEPT !.addr = profile]
 @@ 8 :> [E(bob, "note", 2) EXCEPT !.delegator = alice]
 @@ 9 :> [E(bob, "wrap", 2) EXCEPT !.to = {alice, bob}]
 @@ 10 :> E(alice, "role", 1)

VanishRequestSet ==
    {[who |-> alice, until |-> 2], [who |-> alice, until |-> 3], [who |-> bob, until |-> 2]}

VanishDeletions == {[NoRequest EXCEPT !.by = bob, !.targets = {8}, !.wraps = TRUE]}

\* NIP-29: the create, a future-dated post, a re-create and its post, and
\* the relay's metadata.
PurgeEv ==
    11 :> [E(alice, "create", 1) EXCEPT !.group = g1]
 @@ 12 :> [E(bob, "note", 3) EXCEPT !.group = g1]
 @@ 13 :> [E(bob, "create", 2) EXCEPT !.group = g1]
 @@ 14 :> [E(alice, "metadata", 1) EXCEPT !.group = g1, !.addr = about]

\* Moderation: a group join its author may delete and an admin may moderate,
\* a post that expires, and a role event; the operator bans and allows.
ListEv ==
    15 :> [E(alice, "moderation", 1) EXCEPT !.group = g1, !.expiry = 2]
 @@ 16 :> [E(alice, "note", 1) EXCEPT !.expiry = 1]
 @@ 17 :> E(alice, "role", 1)

ListRequests == {[NoRequest EXCEPT !.targets = {15, 16}, !.group = g1]}

\* The four histories, each with its own requests, clock and faults.
VARIABLE scene

Quiet == [put |-> {}, deletions |-> {}, vanishes |-> {}, lists |-> {}, purges |-> FALSE,
          expiry |-> FALSE, time |-> 0, faults |-> MaxFaults]
Scenes ==
    {[Quiet EXCEPT !.put = DOMAIN DeleteEv, !.deletions = DeleteRequests],
     [Quiet EXCEPT !.put = DOMAIN VanishEv, !.deletions = VanishDeletions, !.vanishes = VanishRequestSet],
     [Quiet EXCEPT !.put = DOMAIN PurgeEv, !.purges = TRUE, !.time = 2, !.faults = 1],
     [Quiet EXCEPT !.put = DOMAIN ListEv, !.deletions = ListRequests, !.lists = DOMAIN ListEv,
                   !.expiry = TRUE, !.time = 2, !.faults = 1]}

StoreEv == DeleteEv @@ VanishEv @@ PurgeEv @@ ListEv
AllRequests == DeleteRequests \cup VanishDeletions \cup ListRequests

\* A step of the store within the scene.
SceneNext ==
    /\ Next
    /\ events' \ events \subseteq scene.put
    /\ delPending' \subseteq scene.deletions
    /\ \A p \in Pubkey : vanishPending'[p] > vanishPending[p] =>
            \E v \in scene.vanishes : v.who = p /\ v.until <= vanishPending'[p]
    /\ banned' \cup allowed' \subseteq scene.lists
    /\ scene.purges \/ purged' = purged
    /\ walk'.op = "expire" => scene.expiry
    /\ now' <= scene.time
    /\ faults' <= scene.faults
    /\ UNCHANGED scene

SceneInit == Init /\ scene \in Scenes

SceneSpec == SceneInit /\ [][SceneNext]_<<vars, scene>> /\ WF_vars(WalkStep) /\ WF_vars(RecoveryStep)

-----------------------------------------------------------------------------
\* Two creates of one group in the same second, the second one a re-create.
RecreateEv ==
    1 :> [E(alice, "create", 1) EXCEPT !.group = g1]
 @@ 2 :> [E(alice, "create", 1) EXCEPT !.group = g1]
 @@ 3 :> [E(bob, "note", 1) EXCEPT !.group = g1]

\* The relay in front of the store admits a create only for a group that
\* does not exist and only once its timestamp has come.
RelaySpec ==
    /\ Init /\ scene = Quiet
    /\ [][ Next /\ UNCHANGED scene /\ \A e \in events' \ events :
              Ev[e].kind = "create" =>
                /\ Ev[e].created <= now
                /\ ~\E f \in events : Ev[f].kind = "create" /\ Ev[f].group = Ev[e].group ]_<<vars, scene>>
=============================================================================
