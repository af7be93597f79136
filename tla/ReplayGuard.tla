---------------------------- MODULE ReplayGuard ----------------------------
(***************************************************************************)
(* The NIP-98 replay guard (nips/nip98.rs): an authorization verifies while  *)
(* it is at most Window seconds old or ahead, and the guard admits it once;   *)
(* at its limits it forgets an entry, never one of another management         *)
(* identity.                                                                   *)
(***************************************************************************)
EXTENDS Integers, FiniteSets, FiniteSetsExt

CONSTANTS
    Window,      \* the 60 seconds of verify
    MaxSeen,     \* MAX_ENTRIES
    MaxOwn,      \* MAX_PROTECTED_PER_AUTHOR
    Tokens,      \* [id, author, created, rpc]: signed authorizations, rpc for the management URL
    Managers,    \* the admin and the grantees, whose management calls are protected
    MaxClock,    \* bound: the clock
    MaxPresented \* bound: presentations

ASSUME GuardType ==
    /\ Window \in Nat /\ MaxSeen \in Nat /\ MaxOwn \in Nat
    /\ \A t \in Tokens : t.created \in Int /\ t.rpc \in BOOLEAN

VARIABLES
    seen,     \* the entries: [token, expiry, presented, protected]
    order,    \* next_presentation
    clock,
    admitted  \* ghost: the tokens admitted since the start, each with its presentation and whether it was protected

gvars == <<seen, order, clock, admitted>>

\* verify, on the fields the guard depends on.
Verifies(t) == t.created - clock <= Window /\ clock - t.created <= Window
Oldest(entries) == {e \in entries : \A x \in entries : e.presented <= x.presented}
Own(entries, t) == {e \in entries : e.protected /\ e.token.author = t.author}
OpenSlots(entries) == {e \in entries : ~e.protected}

\* The entries an authorization may evict: its author's oldest protected one, or the oldest unprotected one.
Evictable(live, t, protected) ==
    IF protected /\ Cardinality(Own(live, t)) >= MaxOwn THEN Oldest(Own(live, t))
    ELSE IF Cardinality(live) < MaxSeen THEN {}
    ELSE IF OpenSlots(live) # {} \/ ~protected THEN Oldest(OpenSlots(live)) ELSE Oldest(Own(live, t))
MustEvict(live, t, protected) == (protected /\ Cardinality(Own(live, t)) >= MaxOwn) \/ Cardinality(live) >= MaxSeen

ExpiryMutant(t) == t.created + Window   \* mutant: an entry ends with the last second the token still verifies
Expiry(t) == t.created + Window + 1

\* accept_as: expired entries go first; a token that is still there is a replay; a full guard with nothing to evict refuses.
Present(t) ==
    /\ Verifies(t)
    /\ LET live == {e \in seen : e.expiry > clock}
           protected == t.rpc /\ t.author \in Managers
           victim == Evictable(live, t, protected)
           refused == (\E e \in live : e.token = t) \/ (MustEvict(live, t, protected) /\ victim = {})
           entry == [token |-> t, expiry |-> Expiry(t), presented |-> order + 1, protected |-> protected]
       IN  /\ seen' = IF refused THEN live ELSE (live \ victim) \union {entry}
           /\ admitted' = IF refused THEN admitted ELSE admitted \union {[token |-> t, presented |-> order + 1, protected |-> protected]}
    /\ order' = order + 1 /\ order < MaxPresented
    /\ UNCHANGED clock
Tick == clock < MaxClock /\ clock' = clock + 1 /\ UNCHANGED <<seen, order, admitted>>

GuardInit == seen = {} /\ order = 0 /\ clock = 0 /\ admitted = {}
GuardNext == Tick \/ \E t \in Tokens : Present(t)
GuardSpec == GuardInit /\ [][GuardNext]_gvars

-----------------------------------------------------------------------------
(* Properties *)

\* A captured management authorization is not usable again: what was admitted as protected is remembered for as long as it
\* verifies, whatever other authors present; only a later authorization of its own author may take its place.
CaptureRemembered ==
    \A a \in admitted :
        a.protected /\ Verifies(a.token) =>
            \/ \E e \in seen : e.token = a.token
            \/ \E later \in admitted : later.protected /\ later.token.author = a.token.author /\ later.presented > a.presented

\* What the guard keeps is bounded, in all (MAX_ENTRIES) and for one management identity (MAX_PROTECTED_PER_AUTHOR): an
\* admission at either limit takes the place of an entry it evicts.
GuardBounded ==
    /\ IsFiniteSet(seen) /\ Cardinality(seen) <= MaxSeen
    /\ \A t \in Tokens : Cardinality(Own(seen, t)) <= MaxOwn
=============================================================================
