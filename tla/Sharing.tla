------------------------------ MODULE Sharing ------------------------------
(***************************************************************************)
(* Who may open a workspace (packages/workshop-backend/src/sharing.ts) and *)
(* the sessions of those who do (overseer.ts).  Collaborators add others   *)
(* and create share links; each grant is an edge of a graph, and a user's  *)
(* role is the best that is reachable from the owner.  Revocation is lazy: *)
(* it severs edges, and whoever is not reachable any more is denied when   *)
(* he opens the workspace the next time.  Sessions that are open already   *)
(* are ended by a restart of the overseer.                                 *)
(*                                                                         *)
(* A link's creator and role never change, so that an edge made by         *)
(* redeeming it has both; only whether it is revoked is looked up.  Two    *)
(* edges from one sharer count as the better one.  Copies of a link's key  *)
(* resolve to the link and are not told apart from it.                     *)
(***************************************************************************)
EXTENDS Naturals, FiniteSets, FiniteSetsExt

CONSTANTS
    Owner,        \* the workspace's owner, who is no collaborator
    Users,        \* the others
    Links,        \* share links that may be created
    LinkRoles,    \* the roles that links are created for
    MaxEdges,     \* bound on the edges
    MaxConnected  \* bound on the users connected, or connecting, at once


People == Users \union {Owner}

\* roleRank(), with 0 for no access
use == 1
build == 2
Ranks == {use, build}

Direct == "user"

ASSUME SharingAssumption == /\ IsFiniteSet(Users)
                            /\ Owner \notin Users
                            /\ Direct \notin Links
                            /\ LinkRoles \subseteq Ranks
                            /\ MaxEdges \in Nat
                            /\ MaxConnected \in Nat

Edge == [by : People, role : Ranks, via : Links \union {Direct}]

VARIABLES
    records,      \* the users who have a collaborator record
    addedBy,      \* its edges
    links,        \* the links created: by whom, for which role
    revoked,      \* the links revoked
    session,      \* the role of each user's session
    opening,      \* open() at its awaits: the profile for a link's redemption,
                  \* or the checks that follow the role's
    restarting,   \* somebody's access was cut: the restart is under way
    overwritten   \* history: a redemption wrote over a record made meanwhile

graph == <<records, addedBy, links, revoked>>
vars == <<graph, session, opening, restarting, overwritten>>

NoLink == [by |-> Owner, role |-> 0]
NoOpen == [at |-> "none", via |-> Direct, role |-> 0]

-----------------------------------------------------------------------------
(* The roles, as the comments define them: the best that is reachable from *)
(* the owner over valid edges, each of which gives no more than its        *)
(* sharer has.  So a user has a role unless he is outside of a set whose   *)
(* members, and the owner, give it to nobody else.                         *)

Gives(e, gone, r) == e.role >= r /\ e.via \notin gone

Closed(S, edges, gone, r) ==
    \A u \in Users \ S :
        \A e \in edges[u] : e.by \in S \union {Owner} => ~Gives(e, gone, r)

Reaches(u, edges, gone, r) ==
    \A S \in SUBSET (Users \ {u}) : ~Closed(S, edges, gone, r)

\* getEffectiveRole()
Role(u, edges, gone) ==
    IF u = Owner THEN build
    ELSE IF ~Reaches(u, edges, gone, use) THEN 0
    ELSE IF Reaches(u, edges, gone, build) THEN build ELSE use

RoleOf(u) == Role(u, addedBy, revoked)

\* What computeEffectiveRoles() does: it goes over all collaborators and
\* their edges until a pass changes nothing.  A role that comes over a path of n
\* edges is found in n passes, and no path need pass anybody twice.
Upstream(eff, s) == IF s = Owner THEN build ELSE eff[s]

GrantedMut(e, eff) == IF Upstream(eff, e.by) = 0 THEN 0 ELSE e.role

Granted(e, eff) ==
    IF Upstream(eff, e.by) < e.role THEN Upstream(eff, e.by) ELSE e.role

Pass(eff, edges, gone) ==
    [u \in Users |->
        Max({eff[u]} \union {Granted(e, eff) : e \in {f \in edges[u] : f.via \notin gone}})]

computeEffectiveRoles(edges, gone) ==
    LET passes[n \in 0..Cardinality(Users)] ==
            IF n = 0 THEN [u \in Users |-> 0]
            ELSE Pass(passes[n - 1], edges, gone)
    IN  passes[Cardinality(Users)]

-----------------------------------------------------------------------------
(* Edges given and taken. *)

IsDirect(e, s) == e.via = Direct /\ e.by = s

\* An edge from sharer s, or a better role for the one there is
WithGrant(edges, u, s, r) ==
    LET old == {e \in edges[u] : IsDirect(e, s)}
        best == IF \E e \in old : e.role > r THEN build ELSE r
    IN  [edges EXCEPT ![u] = (@ \ old) \union
            {[by |-> s, role |-> best, via |-> Direct]}]

\* removeCollaborator(): the owner severs all, others what they gave
Severed(edges, c, t) ==
    [edges EXCEPT ![t] = IF c = Owner THEN {} ELSE {e \in @ : ~IsDirect(e, c)}]

\* The graph that previewRemoveCollaborator() computes with
Previewed(edges, c, t) ==
    IF c = Owner
    THEN [u \in Users |-> IF u = t THEN {} ELSE {e \in edges[u] : e.by # t}]
    ELSE [edges EXCEPT ![t] = {e \in @ : ~IsDirect(e, c)}]

Bounded(role, by) == IF role <= by THEN role ELSE by

\* #reRootKeptUsers(): who of those to keep has lost by the severance gets an
\* edge from the caller, at the role he had
ReRootedMut(keep, c, prior, edges, gone) ==
    [u \in Users |->
        IF u \in keep /\ prior[u] > 0 /\ Role(u, edges, gone) = 0
        THEN WithGrant(edges, u, c, Bounded(prior[u], Role(c, edges, gone)))[u]
        ELSE edges[u]]

ReRooted(keep, c, prior, edges, gone) ==
    [u \in Users |->
        IF u \in keep /\ Role(u, edges, gone) < prior[u]
        THEN WithGrant(edges, u, c, Bounded(prior[u], Role(c, edges, gone)))[u]
        ELSE edges[u]]

RolesNow == [u \in Users |-> RoleOf(u)]

\* #computeAffected()
AffectedMut(prior, edges, gone) == {u \in Users : prior[u] > 0 /\ Role(u, edges, gone) = 0}

Affected(prior, edges, gone) == {u \in Users : Role(u, edges, gone) < prior[u]}

-----------------------------------------------------------------------------
Init ==
    /\ records = {} /\ addedBy = [u \in Users |-> {}]
    /\ links = [l \in Links |-> NoLink] /\ revoked = {}
    /\ session = [u \in Users |-> 0]
    /\ opening = [u \in Users |-> NoOpen]
    /\ restarting = FALSE /\ overwritten = FALSE

\* Bound: so many edges at once
Room(edges) == Cardinality(UNION {{u} \X edges[u] : u \in Users}) <= MaxEdges

\* Who may call: the owner, and those who have a session with the role "build",
\* even if it is not theirs any more
Callers == {Owner} \union {u \in Users : session[u] = build}

\* Here and below, a call that changes nothing is left out: to grant what is
\* granted, to remove where there is no edge, to revoke again.
addCollaborator(c, u, r) ==
    /\ c \in Callers /\ r <= RoleOf(c)
    /\ \A e \in addedBy[u] : IsDirect(e, c) => e.role < r
    /\ addedBy' = WithGrant(addedBy, u, c, r)
    /\ Room(addedBy')
    /\ records' = records \union {u}
    /\ UNCHANGED <<links, revoked, session, opening, restarting, overwritten>>

\* What a removal and a revocation have in common: the caller has severed edges,
\* or cut off what a link gives.  Some of those who lose by it are kept.  Where
\* there are any, a caller who has lost his own access in the meantime gets an
\* error, which leaves it at that.
Severs(c, edges, gone) ==
    LET prior == RolesNow
        lost == Affected(prior, edges, gone)
        outcast == Role(c, edges, gone) = 0
    IN  /\ \E keep \in SUBSET lost :
            LET throws == keep # {} /\ outcast
                kept == IF throws THEN edges ELSE ReRooted(keep, c, prior, edges, gone)
            IN  /\ addedBy' = kept
                /\ restarting' =
                      (restarting \/ (~throws /\ Affected(prior, kept, gone) # {}))
        /\ revoked' = gone
        /\ Room(addedBy')
        /\ UNCHANGED <<records, links, session, opening, overwritten>>

Removes(c, t) == \E e \in addedBy[t] : c = Owner \/ IsDirect(e, c)

removeCollaborator(c, t) ==
    /\ c \in Callers /\ Removes(c, t)
    /\ Severs(c, Severed(addedBy, c, t), revoked)

\* The key is minted between the check and the write: a link that is written
\* late is like one written before whatever came in between.
createShareLink(c, l, r) ==
    /\ c \in Callers /\ links[l] = NoLink /\ r <= RoleOf(c)
    /\ links' = [links EXCEPT ![l] = [by |-> c, role |-> r]]
    /\ UNCHANGED <<records, addedBy, revoked, session, opening, restarting, overwritten>>

Live(l) == links[l] # NoLink /\ l \notin revoked

Manages(c, l) == Live(l) /\ (c = Owner \/ links[l].by = c)

revokeShareLink(c, l) ==
    /\ c \in Callers /\ Manages(c, l)
    /\ Severs(c, addedBy, revoked \union {l})

-----------------------------------------------------------------------------
(* open(), with or without a share key. *)

EdgeOf(l) == [by |-> links[l].by, role |-> links[l].role, via |-> l]

\* The role is read and the rest is checked: org, capsules, observers
Verifies(u, edges) ==
    /\ Role(u, edges, revoked) > 0
    /\ opening' = [opening EXCEPT ![u] = [at |-> "verifying", via |-> Direct,
                                          role |-> Role(u, edges, revoked)]]

Denied(u, edges) ==
    /\ Role(u, edges, revoked) = 0
    /\ opening' = [opening EXCEPT ![u] = NoOpen]

\* Bound: so many users at once, each of them once
Connected(u) == session[u] > 0 \/ opening[u] # NoOpen

Enters(u) == ~Connected(u) /\ Cardinality({v \in Users : Connected(v)}) < MaxConnected

\* Without a key, or with one that is unknown or revoked
Open(u) ==
    /\ Enters(u)
    /\ Verifies(u, addedBy)
    /\ UNCHANGED <<graph, session, restarting, overwritten>>

\* redeemShareKey() for a user with a record: an edge, unless there is one
Redeem(u, l) ==
    /\ Enters(u) /\ Live(l) /\ u \in records
    /\ addedBy' = [addedBy EXCEPT ![u] = @ \union {EdgeOf(l)}]
    /\ Room(addedBy')
    /\ Verifies(u, addedBy') \/ Denied(u, addedBy')
    /\ UNCHANGED <<records, links, revoked, session, restarting, overwritten>>

\* For a user without: his profile is fetched, the link is not looked at again
RedeemNew(u, l) ==
    /\ Enters(u) /\ Live(l) /\ u \notin records
    /\ opening' = [opening EXCEPT ![u] = [at |-> "fetching", via |-> l, role |-> 0]]
    /\ UNCHANGED <<graph, session, restarting, overwritten>>

\* and the record is written, whether or not there is one by now
ProfileFetched(u) ==
    /\ opening[u].at = "fetching"
    /\ addedBy' = [addedBy EXCEPT ![u] = {EdgeOf(opening[u].via)}]
    /\ Room(addedBy')
    /\ records' = records \union {u}
    /\ overwritten' = (overwritten \/ ~(addedBy[u] \subseteq addedBy'[u]))
    /\ Verifies(u, addedBy') \/ Denied(u, addedBy')
    /\ UNCHANGED <<links, revoked, session, restarting>>

Opened(u) ==
    /\ opening[u].at = "verifying"
    /\ session' = [session EXCEPT ![u] = opening[u].role]
    /\ opening' = [opening EXCEPT ![u] = NoOpen]
    /\ UNCHANGED <<graph, restarting, overwritten>>

OpenFails(u) ==
    /\ opening[u] # NoOpen
    /\ opening' = [opening EXCEPT ![u] = NoOpen]
    /\ UNCHANGED <<graph, session, restarting, overwritten>>

Leave(u) ==
    /\ session[u] > 0
    /\ session' = [session EXCEPT ![u] = 0]
    /\ UNCHANGED <<graph, opening, restarting, overwritten>>

\* scheduleRevocationRestart() or a crash: what is in memory is gone
Restart ==
    /\ session' = [u \in Users |-> 0] /\ opening' = [u \in Users |-> NoOpen]
    /\ restarting' = FALSE
    /\ UNCHANGED <<graph, overwritten>>

-----------------------------------------------------------------------------
Next ==
    \/ \E c \in Callers :
          \/ \E u \in Users, r \in Ranks : addCollaborator(c, u, r)
          \/ \E t \in Users : removeCollaborator(c, t)
          \/ \E l \in Links, r \in LinkRoles : createShareLink(c, l, r)
          \/ \E l \in Links : revokeShareLink(c, l)
    \/ \E u \in Users, l \in Links : Redeem(u, l) \/ RedeemNew(u, l)
    \/ \E u \in Users : Open(u) \/ ProfileFetched(u) \/ Opened(u) \/ OpenFails(u) \/ Leave(u)
    \/ Restart

Spec == Init /\ [][Next]_vars

-----------------------------------------------------------------------------
(* Properties *)

\* The shape of the state.
TypeOK ==
    /\ records \subseteq Users
    /\ addedBy \in [Users -> SUBSET Edge]
    /\ links \in [Links -> {NoLink} \union [by : People, role : Ranks]]
    /\ revoked \subseteq Links
    /\ session \in [Users -> {0} \union Ranks]
    /\ opening \in [Users -> [at : {"none", "fetching", "verifying"},
                              via : Links \union {Direct}, role : {0} \union Ranks]]
    /\ restarting \in BOOLEAN /\ overwritten \in BOOLEAN

\* What the loop of computeEffectiveRoles() arrives at is what its comment says:
\* the best role reachable from the owner, for every shape of the graph that the
\* operations can make (chains, diamonds, people who have added each other).
LoopFindsRoles == computeEffectiveRoles(addedBy, revoked) = RolesNow

\* What the owner is shown as a preview is what will happen: a removal that keeps
\* nobody leaves everyone with the role that the preview has computed, though the
\* preview leaves out the edges that the removed user has given, and the removal
\* leaves them.
PreviewIsExact ==
    \A t, u \in Users :
        Role(u, Previewed(addedBy, Owner, t), revoked) =
            Role(u, Severed(addedBy, Owner, t), revoked)

\* Whoever is to be kept keeps his role, and the caller keeps his own, whatever
\* edge he severs or link of his he revokes, also where they had got their access
\* through each other.  (Users to keep do not take from each other: one is enough.)
KeptUsersKeep ==
    LET now == RolesNow
        Keeps(c, edges, gone) ==
            /\ RoleOf(c) <= Role(c, edges, gone)
            /\ \A u \in Affected(now, edges, gone) :
                  now[u] <= Role(u, ReRooted({u}, c, now, edges, gone), gone)
    IN  \A c \in Callers :
            /\ \A t \in Users : Removes(c, t) => Keeps(c, Severed(addedBy, c, t), revoked)
            /\ \A l \in Links : Manages(c, l) => Keeps(c, addedBy, revoked \union {l})

\* "Re-adding a removed collaborator restores them and, transitively, everyone
\* they had shared with": after the owner has removed somebody and added him
\* again with the role he had, nobody has less than before.
RemovalIsReversible ==
    \A t \in Users :
        RoleOf(t) > 0 =>
            LET again == WithGrant(Severed(addedBy, Owner, t), t, Owner, RoleOf(t))
            IN  \A u \in Users : RoleOf(u) <= Role(u, again, revoked)

\* No session, and none that is being opened, has a role that the graph does not
\* give, unless the restart that ends it is under way; or a redemption that wrote
\* over a record has taken edges with it.
SessionsAreCurrent ==
    restarting \/ overwritten \/
        \A u \in Users : {session[u], opening[u].role} \subseteq 0..RoleOf(u)

\* What redeemShareKey() says of itself: it ensures that the user has an edge for
\* the link, "adding the edge if missing, or creating the collaborator record".
GrantsAreKept == ~overwritten
=============================================================================
