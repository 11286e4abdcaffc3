--------------------------- MODULE WorkspaceProofs ---------------------------
(***************************************************************************)
(* What a workspace promises those who share it, and what a chat promises  *)
(* about the changes that it proposes to the workspace: proofs about       *)
(* Sharing and about ChatChanges, which have no state in common.           *)
(*                                                                         *)
(* Sharing, for any number of users, links and edges.  The graphs that a   *)
(* removal or a revocation leads to are compared with the graph before it, *)
(* and a user who reaches something is followed by the sets that nobody    *)
(* else is given anything by.  Only that the loop of                       *)
(* computeEffectiveRoles() finds these roles needs induction, over its     *)
(* passes.                                                                 *)
(*                                                                         *)
(* ChatChanges, for any number of gadgets and messages.  The whole log is  *)
(* described by the fates of its changes, which a message more can only    *)
(* decide; what checkpoints, the registry, the mainline and the chat's     *)
(* metadata say is stated in terms of them, and every step that writes one *)
(* of the four is shown to agree with the step that it takes in the log.   *)
(***************************************************************************)
EXTENDS Sharing, ChatChanges, FiniteSetTheorems, WellFoundedInduction, TLAPS

Graphs == [Users -> SUBSET Edge]

-----------------------------------------------------------------------------
(* Sets of numbers.                                                        *)

\* A nonempty set of numbers has a least one, which Min returns.
LEMMA MinOfNats ==
    ASSUME NEW S, S \subseteq Nat, S # {}
    PROVE  Min(S) \in S /\ \A x \in S : Min(S) <= x
<1>1. PICK x \in S : \A y \in S : ~ (<<y, x>> \in OpToRel(<, Nat))
  BY NatLessThanWellFounded, WFMin
<1>2. ASSUME NEW y \in S
      PROVE  x <= y
  <2>1. ~ (y < x)
    BY <1>1, <1>2, Zenon DEF OpToRel
  <2> QED
    BY <2>1
<1> QED
  BY <1>2 DEF Min

\* A nonempty bounded set of numbers has a greatest one, which Max returns.
LEMMA MaxOfBounded ==
    ASSUME NEW n \in Nat, NEW S \in SUBSET (0..n), S # {}
    PROVE  Max(S) \in S /\ \A x \in S : x <= Max(S)
<1> DEFINE bounds == {b \in Nat : \A x \in S : x <= b}
           m == Min(bounds)
<1>1. m \in bounds /\ \A b \in bounds : m <= b
  <2>1. n \in bounds /\ bounds \subseteq Nat
    OBVIOUS
  <2> HIDE DEF bounds
  <2> QED
    BY <2>1, MinOfNats
<1>2. m \in S
  <2>1. SUFFICES ASSUME m \notin S PROVE FALSE
    OBVIOUS
  <2>2. \A x \in S : x <= m - 1
    BY <1>1, <2>1
  <2>3. PICK x \in S : x \in 0..n
    OBVIOUS
  <2>4. m \in Nat /\ x <= m - 1
    BY <1>1, <2>2
  <2>5. m - 1 \in bounds
    BY <2>2, <2>3, <2>4
  <2> QED
    BY <1>1, <2>5
<1>3. \A x \in S : m >= x
  BY <1>1
<1> HIDE DEF m, bounds
<1>4. Max(S) \in S /\ \A x \in S : Max(S) >= x
  BY <1>2, <1>3 DEF Max
<1>5. S \subseteq Nat
  OBVIOUS
<1> QED
  BY <1>4, <1>5

-----------------------------------------------------------------------------
(* Roles and what reaches a user.                                          *)

\* Whoever reaches the better role reaches the lesser.
LEMMA BuildersMayUse ==
    ASSUME NEW u \in Users, NEW edges \in Graphs, NEW gone,
           Reaches(u, edges, gone, build)
    PROVE  Reaches(u, edges, gone, use)
<1> SUFFICES ASSUME NEW S \in SUBSET (Users \ {u}), Closed(S, edges, gone, use)
             PROVE  Closed(S, edges, gone, build)
  BY DEF Reaches
<1>1. \A x \in Users, e \in Edge : Gives(e, gone, build) => Gives(e, gone, use)
  BY DEF Gives, Edge, Ranks, use, build
<1>2. \A x \in Users : edges[x] \subseteq Edge
  BY DEF Graphs
<1> QED BY <1>1, <1>2 DEF Closed

\* A role is a rank or none, and a user has one that is at least r if and only
\* if he reaches r.
LEMMA RoleIsReach ==
    ASSUME NEW u \in Users, NEW edges \in Graphs, NEW gone
    PROVE  /\ Role(u, edges, gone) \in {0, use, build}
           /\ \A r \in Ranks : r <= Role(u, edges, gone) <=> Reaches(u, edges, gone, r)
<1>1. u # Owner
  BY SharingAssumption
<1>2. Reaches(u, edges, gone, build) => Reaches(u, edges, gone, use)
  BY BuildersMayUse
<1> QED BY <1>1, <1>2 DEF Role, Ranks, use, build

\* The owner has it all.
LEMMA OwnerBuilds ==
    ASSUME NEW edges, NEW gone
    PROVE  Role(Owner, edges, gone) = build
BY DEF Role

\* Roles are compared by what is reached.
LEMMA RolesCompare ==
    ASSUME NEW u \in Users, NEW edges \in Graphs, NEW gone, NEW edges2 \in Graphs, NEW gone2,
           \A r \in Ranks : Reaches(u, edges, gone, r) => Reaches(u, edges2, gone2, r)
    PROVE  Role(u, edges, gone) <= Role(u, edges2, gone2)
<1>1. Role(u, edges, gone) \in {0, use, build} /\ Role(u, edges2, gone2) \in {0, use, build}
  BY RoleIsReach
<1>2. \A r \in Ranks : r <= Role(u, edges, gone) => r <= Role(u, edges2, gone2)
  BY RoleIsReach
<1> QED BY <1>1, <1>2 DEF Ranks, use, build

\* More edges, or better ones, take nothing from anybody.
LEMMA MoreReachesMore ==
    ASSUME NEW u, NEW r, NEW edges, NEW gone, NEW edges2, NEW gone2,
           \A x \in Users : \A e \in edges[x] :
              Gives(e, gone, r) => \E f \in edges2[x] : f.by = e.by /\ Gives(f, gone2, r),
           Reaches(u, edges, gone, r)
    PROVE  Reaches(u, edges2, gone2, r)
BY DEF Reaches, Closed

\* Who takes back what he has given keeps what he has,
LEMMA CutterKeeps ==
    ASSUME NEW c, NEW r, NEW edges, NEW gone, NEW edges2, NEW gone2, c # Owner,
           \A x \in Users : \A e \in edges[x] :
              (e.by # c /\ Gives(e, gone, r)) =>
                 \E f \in edges2[x] : f.by = e.by /\ Gives(f, gone2, r),
           Reaches(c, edges, gone, r)
    PROVE  Reaches(c, edges2, gone2, r)
<1> SUFFICES ASSUME NEW S \in SUBSET (Users \ {c}), Closed(S, edges2, gone2, r)
             PROVE  Closed(S, edges, gone, r)
  BY DEF Reaches
<1> QED BY DEF Closed

\* and nobody loses by it what he does not have himself.
LEMMA LostIsCutters ==
    ASSUME NEW c, NEW u, NEW r, NEW edges, NEW gone, NEW edges2, NEW gone2, c # Owner,
           \A x \in Users : \A e \in edges[x] :
              (e.by # c /\ Gives(e, gone, r)) =>
                 \E f \in edges2[x] : f.by = e.by /\ Gives(f, gone2, r),
           Reaches(u, edges, gone, r), ~Reaches(u, edges2, gone2, r)
    PROVE  Reaches(c, edges, gone, r)
<1> SUFFICES ASSUME NEW S \in SUBSET (Users \ {c}), Closed(S, edges, gone, r)
             PROVE  FALSE
  BY DEF Reaches
<1>1. PICK T \in SUBSET (Users \ {u}) : Closed(T, edges2, gone2, r)
  BY DEF Reaches
<1>2. Closed(S \cap T, edges, gone, r)
  <2> SUFFICES ASSUME NEW x \in Users \ (S \cap T), NEW e \in edges[x],
                      e.by \in (S \cap T) \union {Owner}, Gives(e, gone, r)
               PROVE  FALSE
    BY DEF Closed
  <2>1. x \in S
    BY DEF Closed
  <2>2. x \notin T /\ e.by # c
    BY <2>1
  <2> QED BY <1>1, <2>2 DEF Closed
<1>3. S \cap T \in SUBSET (Users \ {u})
  BY <1>1
<1> QED BY <1>2, <1>3 DEF Reaches

-----------------------------------------------------------------------------
(* What the operations do to a graph.                                      *)

LEMMA GrantIsTyped ==
    ASSUME NEW edges \in Graphs, NEW u \in Users, NEW s \in People, NEW r \in Ranks
    PROVE  WithGrant(edges, u, s, r) \in Graphs
<1> DEFINE old == {e \in edges[u] : IsDirect(e, s)}
           best == IF \E e \in old : e.role > r THEN build ELSE r
           new == [by |-> s, role |-> best, via |-> Direct]
<1>1. new \in Edge
  BY DEF Edge, Ranks
<1>2. WithGrant(edges, u, s, r) = [edges EXCEPT ![u] = (@ \ old) \union {new}]
  BY DEF WithGrant
<1> QED BY <1>1, <1>2 DEF Graphs

\* A grant gives at least what it says, and takes nothing.
LEMMA GrantGives ==
    ASSUME NEW edges \in Graphs, NEW u \in Users, NEW s \in People, NEW r \in Ranks
    PROVE  /\ \E f \in WithGrant(edges, u, s, r)[u] : f.by = s /\ f.role >= r /\ f.via = Direct
           /\ \A x \in Users : \A e \in edges[x] :
                 \E f \in WithGrant(edges, u, s, r)[x] :
                    f.by = e.by /\ f.role >= e.role /\ f.via = e.via
<1> DEFINE old == {e \in edges[u] : IsDirect(e, s)}
           best == IF \E e \in old : e.role > r THEN build ELSE r
           new == [by |-> s, role |-> best, via |-> Direct]
           after == WithGrant(edges, u, s, r)
<1>1. after = [edges EXCEPT ![u] = (@ \ old) \union {new}]
  BY DEF WithGrant
<1>2. \A x \in Users : \A e \in edges[x] : e.role \in Ranks
  BY DEF Graphs, Edge
<1>3. best \in Ranks /\ best >= r /\ \A e \in old : best >= e.role
  BY <1>2 DEF Ranks, use, build
<1>4. new \in after[u] /\ new.by = s /\ new.role = best /\ new.via = Direct
  BY <1>1 DEF Graphs
<1>5. ASSUME NEW x \in Users, NEW e \in edges[x]
      PROVE  \E f \in after[x] : f.by = e.by /\ f.role >= e.role /\ f.via = e.via
  <2>1. CASE x = u /\ e \in old
    BY <1>3, <1>4, <2>1 DEF IsDirect
  <2>2. CASE ~(x = u /\ e \in old)
    <3>1. e \in after[x]
      BY <1>1, <2>2 DEF Graphs
    <3>2. e.role >= e.role
      BY <1>2 DEF Ranks, use, build
    <3> QED BY <3>1, <3>2
  <2> QED BY <2>1, <2>2
<1> HIDE DEF best, new, after
<1> QED BY <1>3, <1>4, <1>5 DEF after

LEMMA GrantOnlyAdds ==
    ASSUME NEW edges \in Graphs, NEW u \in Users, NEW s \in People, NEW r \in Ranks,
           NEW gone, NEW q \in Ranks, NEW x, Reaches(x, edges, gone, q)
    PROVE  Reaches(x, WithGrant(edges, u, s, r), gone, q)
<1> DEFINE after == WithGrant(edges, u, s, r)
<1>1. \A y \in Users : \A e \in edges[y] :
         \E f \in after[y] : f.by = e.by /\ f.role >= e.role /\ f.via = e.via
  BY GrantGives
<1>2. after \in Graphs
  BY GrantIsTyped
<1>3. \A y \in Users : \A e \in edges[y] :
         Gives(e, gone, q) => \E f \in after[y] : f.by = e.by /\ Gives(f, gone, q)
  <2> SUFFICES ASSUME NEW y \in Users, NEW e \in edges[y], Gives(e, gone, q)
               PROVE  \E f \in after[y] : f.by = e.by /\ Gives(f, gone, q)
    OBVIOUS
  <2>1. PICK f \in after[y] : f.by = e.by /\ f.role >= e.role /\ f.via = e.via
    BY <1>1
  <2>2. e.role \in Ranks /\ f.role \in Ranks
    BY <1>2 DEF Graphs, Edge
  <2>3. Gives(f, gone, q)
    BY <2>1, <2>2 DEF Gives, Ranks, use, build
  <2> QED BY <2>1, <2>3
<1> HIDE DEF after
<1>4. Reaches(x, after, gone, q)
  BY <1>3, MoreReachesMore
<1> QED BY <1>4 DEF after

\* An edge from somebody who reaches r gives r.
LEMMA EdgeReaches ==
    ASSUME NEW edges, NEW gone, NEW r, NEW u \in Users, NEW c \in People,
           NEW f \in edges[u], f.by = c, Gives(f, gone, r),
           c = Owner \/ Reaches(c, edges, gone, r)
    PROVE  Reaches(u, edges, gone, r)
<1> SUFFICES ASSUME NEW S \in SUBSET (Users \ {u}), Closed(S, edges, gone, r)
             PROVE  FALSE
  BY DEF Reaches
<1>1. c \notin S \union {Owner}
  BY DEF Closed
<1>2. S \in SUBSET (Users \ {c})
  BY <1>1
<1> QED BY <1>1, <1>2 DEF Reaches

LEMMA SeveredIsTyped ==
    ASSUME NEW edges \in Graphs, NEW c, NEW t \in Users
    PROVE  /\ Severed(edges, c, t) \in Graphs
           /\ \A x \in Users : Severed(edges, c, t)[x] \subseteq edges[x]
           /\ \A x \in Users : x # t => Severed(edges, c, t)[x] = edges[x]
           /\ Severed(edges, Owner, t)[t] = {}
           /\ c # Owner => Severed(edges, c, t)[t] = {e \in edges[t] : ~IsDirect(e, c)}
BY DEF Severed, Graphs

LEMMA ReRootedIsTyped ==
    ASSUME NEW edges \in Graphs, NEW c \in People, NEW keep, NEW gone,
           NEW prior, \A u \in Users : prior[u] \in {0, use, build},
           Role(c, edges, gone) \in Ranks
    PROVE  ReRooted(keep, c, prior, edges, gone) \in Graphs
<1> SUFFICES ASSUME NEW u \in Users
             PROVE  ReRooted(keep, c, prior, edges, gone)[u] \in SUBSET Edge
  BY DEF ReRooted, Graphs
<1>1. CASE u \in keep /\ Role(u, edges, gone) < prior[u]
  <2>1. Bounded(prior[u], Role(c, edges, gone)) \in Ranks
    <3>1. prior[u] \in Ranks
      BY <1>1, RoleIsReach DEF Ranks, use, build
    <3> QED BY <3>1 DEF Bounded
  <2>2. WithGrant(edges, u, c, Bounded(prior[u], Role(c, edges, gone)))[u] \in SUBSET Edge
    BY <2>1, GrantIsTyped DEF Graphs
  <2> QED BY <1>1, <2>2 DEF ReRooted
<1>2. CASE ~(u \in keep /\ Role(u, edges, gone) < prior[u])
  BY <1>2 DEF ReRooted, Graphs
<1> QED BY <1>1, <1>2

LEMMA ReRootedOnlyAdds ==
    ASSUME NEW edges \in Graphs, NEW c \in People, NEW keep, NEW gone,
           NEW prior, \A u \in Users : prior[u] \in {0, use, build},
           Role(c, edges, gone) \in Ranks,
           NEW q \in Ranks, NEW x, Reaches(x, edges, gone, q)
    PROVE  Reaches(x, ReRooted(keep, c, prior, edges, gone), gone, q)
<1> DEFINE after == ReRooted(keep, c, prior, edges, gone)
<1>1. ASSUME NEW y \in Users, NEW e \in edges[y], Gives(e, gone, q)
      PROVE  \E f \in after[y] : f.by = e.by /\ Gives(f, gone, q)
  <2>1. CASE y \in keep /\ Role(y, edges, gone) < prior[y]
    <3> DEFINE r == Bounded(prior[y], Role(c, edges, gone))
    <3>1. r \in Ranks
      <4>1. prior[y] \in Ranks
        BY <2>1, RoleIsReach DEF Ranks, use, build
      <4> QED BY <4>1 DEF Bounded
    <3>2. after[y] = WithGrant(edges, y, c, r)[y]
      BY <2>1 DEF ReRooted
    <3> HIDE DEF r, after
    <3>3. PICK f \in after[y] : f.by = e.by /\ f.role >= e.role /\ f.via = e.via
      BY <3>1, <3>2, GrantGives
    <3>4. WithGrant(edges, y, c, r) \in Graphs
      BY <3>1, GrantIsTyped
    <3>5. e.role \in Ranks /\ f.role \in Ranks
      BY <3>2, <3>4 DEF Graphs, Edge
    <3>6. Gives(f, gone, q)
      BY <1>1, <3>3, <3>5 DEF Gives, Ranks, use, build
    <3> QED BY <3>3, <3>6
  <2>2. CASE ~(y \in keep /\ Role(y, edges, gone) < prior[y])
    BY <1>1, <2>2 DEF ReRooted
  <2> QED BY <2>1, <2>2
<1> HIDE DEF after
<1>2. Reaches(x, after, gone, q)
  BY <1>1, MoreReachesMore
<1> QED BY <1>2 DEF after

-----------------------------------------------------------------------------
(* Removals and revocations.                                               *)

\* From the one graph to the other only edges from c are cut, unless c is the
\* owner.
CutBy(c, edges, gone, edges2, gone2) ==
    c # Owner => \A x \in Users : \A e \in edges[x] :
                    (e.by # c /\ e.via \notin gone) => e \in edges2[x] /\ e.via \notin gone2

LEMMA CallerUnharmed ==
    ASSUME NEW edges \in Graphs, NEW gone, NEW edges2 \in Graphs, NEW gone2,
           NEW c \in People, CutBy(c, edges, gone, edges2, gone2)
    PROVE  Role(c, edges, gone) <= Role(c, edges2, gone2)
<1>1. CASE c = Owner
  BY <1>1, OwnerBuilds DEF build
<1>2. CASE c # Owner
  <2>1. c \in Users
    BY <1>2 DEF People
  <2>2. ASSUME NEW r \in Ranks, Reaches(c, edges, gone, r)
        PROVE  Reaches(c, edges2, gone2, r)
    <3>1. \A x \in Users : \A e \in edges[x] :
             (e.by # c /\ Gives(e, gone, r)) =>
                \E f \in edges2[x] : f.by = e.by /\ Gives(f, gone2, r)
      BY <1>2 DEF CutBy, Gives
    <3> QED BY <1>2, <2>2, <3>1, CutterKeeps
  <2> QED BY <2>1, <2>2, RolesCompare
<1> QED BY <1>1, <1>2

LEMMA KeptKeeps ==
    ASSUME NEW edges \in Graphs, NEW gone, NEW edges2 \in Graphs, NEW gone2,
           Direct \notin gone2, NEW c \in People, CutBy(c, edges, gone, edges2, gone2),
           NEW prior, \A x \in Users : prior[x] = Role(x, edges, gone),
           NEW u \in Users, Role(u, edges2, gone2) < prior[u]
    PROVE  prior[u] <= Role(u, ReRooted({u}, c, prior, edges2, gone2), gone2)
<1> DEFINE after == ReRooted({u}, c, prior, edges2, gone2)
           top == Role(c, edges2, gone2)
<1>1. \A x \in Users : prior[x] \in {0, use, build}
  BY RoleIsReach
<1>2. prior[u] \in Ranks
  BY <1>1, RoleIsReach DEF Ranks, use, build
<1>3. PICK low \in Ranks : Reaches(u, edges, gone, low) /\ ~Reaches(u, edges2, gone2, low)
  BY <1>2, RoleIsReach DEF Ranks, use, build
<1>4. \A r \in Ranks :
         (Reaches(u, edges, gone, r) /\ ~Reaches(u, edges2, gone2, r)) =>
            c = Owner \/ (c \in Users /\ Reaches(c, edges2, gone2, r))
  <2> SUFFICES ASSUME NEW r \in Ranks, Reaches(u, edges, gone, r),
                      ~Reaches(u, edges2, gone2, r), c # Owner
               PROVE  c \in Users /\ Reaches(c, edges2, gone2, r)
    OBVIOUS
  <2>1. \A x \in Users : \A e \in edges[x] :
           (e.by # c /\ Gives(e, gone, r)) =>
              \E f \in edges2[x] : f.by = e.by /\ Gives(f, gone2, r)
    BY DEF CutBy, Gives
  <2>2. Reaches(c, edges, gone, r)
    BY <2>1, LostIsCutters
  <2>3. Reaches(c, edges2, gone2, r)
    BY <2>1, <2>2, CutterKeeps
  <2> QED BY <2>3 DEF People
<1>5. top \in Ranks /\ \A r \in Ranks :
         (Reaches(u, edges, gone, r) /\ ~Reaches(u, edges2, gone2, r)) => r <= top
  <2>1. CASE c = Owner
    BY <2>1, OwnerBuilds DEF Ranks, use, build
  <2>2. CASE c # Owner
    <3>1. c \in Users
      BY <1>3, <1>4, <2>2
    <3>2. top \in {0, use, build} /\ \A r \in Ranks : r <= top <=> Reaches(c, edges2, gone2, r)
      BY <3>1, RoleIsReach
    <3>3. low <= top
      BY <1>3, <1>4, <2>2, <3>2
    <3> QED BY <1>4, <2>2, <3>2, <3>3 DEF Ranks, use, build
  <2> QED BY <2>1, <2>2
<1>6. after \in Graphs
  BY <1>1, <1>5, ReRootedIsTyped
<1>7. ASSUME NEW r \in Ranks, r <= prior[u]
      PROVE  Reaches(u, after, gone2, r)
  <2>1. Reaches(u, edges, gone, r)
    BY <1>7, RoleIsReach
  <2>2. CASE Reaches(u, edges2, gone2, r)
    BY <1>1, <1>5, <2>2, ReRootedOnlyAdds
  <2>3. CASE ~Reaches(u, edges2, gone2, r)
    <3> DEFINE role == Bounded(prior[u], top)
    <3>1. role \in Ranks /\ r <= role
      BY <1>2, <1>5, <1>7, <2>1, <2>3 DEF Bounded
    <3>2. after[u] = WithGrant(edges2, u, c, role)[u]
      BY DEF ReRooted
    <3> HIDE DEF role, after
    <3>3. PICK f \in after[u] : f.by = c /\ f.role >= role /\ f.via = Direct
      BY <3>1, <3>2, GrantGives
    <3>4. f.role \in Ranks
      BY <1>6 DEF Graphs, Edge
    <3>5. Gives(f, gone2, r)
      BY <3>1, <3>3, <3>4 DEF Gives, Ranks, use, build
    <3>6. c = Owner \/ Reaches(c, after, gone2, r)
      BY <1>1, <1>4, <1>5, <2>1, <2>3, ReRootedOnlyAdds DEF after
    <3> QED BY <3>3, <3>5, <3>6, EdgeReaches
  <2> QED BY <2>2, <2>3
<1> HIDE DEF after
<1>8. prior[u] <= Role(u, after, gone2)
  <2>1. Reaches(u, after, gone2, prior[u])
    BY <1>2, <1>7 DEF Ranks, use, build
  <2> QED BY <1>2, <1>6, <2>1, RoleIsReach
<1> QED BY <1>8 DEF after

-----------------------------------------------------------------------------
(* The inductive invariant.  A link that an edge names exists, and has the *)
(* sharer that the edge has.                                               *)

ViaLinks ==
    /\ \A u \in Users : \A e \in addedBy[u] :
          e.via \in Links => links[e.via] # NoLink /\ links[e.via].by = e.by
    /\ \A u \in Users : opening[u].at = "fetching" =>
          opening[u].via \in Links /\ links[opening[u].via] # NoLink

IInv == TypeOK /\ ViaLinks /\ SessionsAreCurrent

LEMMA GraphIsTyped ==
    ASSUME TypeOK
    PROVE  addedBy \in Graphs
BY DEF TypeOK, Graphs

LEMMA RolesAreTyped ==
    ASSUME addedBy \in Graphs
    PROVE  /\ \A u \in Users : RoleOf(u) \in {0, use, build}
           /\ \A u \in Users : RolesNow[u] = RoleOf(u)
           /\ RoleOf(Owner) = build
BY RoleIsReach, OwnerBuilds DEF RoleOf, RolesNow

\* Where roles only rise, sessions stay current.
LEMMA RisingKeeps ==
    ASSUME addedBy \in Graphs, (addedBy \in Graphs)', SessionsAreCurrent,
           UNCHANGED <<session, opening>>, restarting => restarting', overwritten => overwritten',
           ~restarting' /\ ~overwritten' => \A u \in Users : RoleOf(u) <= RoleOf(u)'
    PROVE  SessionsAreCurrent'
<1> SUFFICES ASSUME ~restarting', ~overwritten', NEW u \in Users
             PROVE  ({session[u], opening[u].role} \subseteq 0..RoleOf(u))'
  BY DEF SessionsAreCurrent
<1>1. {session[u], opening[u].role} \subseteq 0..RoleOf(u) /\ RoleOf(u) <= RoleOf(u)'
  BY DEF SessionsAreCurrent
<1>2. RoleOf(u) \in {0, use, build}
  BY RolesAreTyped
<1>3. RoleOf(u)' \in {0, use, build}
  BY RoleIsReach DEF RoleOf
<1> QED BY <1>1, <1>2, <1>3 DEF use, build

LEMMA AddingRaises ==
    ASSUME addedBy \in Graphs, (addedBy \in Graphs)', revoked' = revoked,
           \A x \in Users : addedBy[x] \subseteq addedBy'[x]
    PROVE  \A u \in Users : RoleOf(u) <= RoleOf(u)'
<1> SUFFICES ASSUME NEW u \in Users
             PROVE  Role(u, addedBy, revoked) <= Role(u, addedBy', revoked')
  BY DEF RoleOf
<1>1. ASSUME NEW r \in Ranks, Reaches(u, addedBy, revoked, r)
      PROVE  Reaches(u, addedBy', revoked', r)
  <2>1. \A x \in Users : \A e \in addedBy[x] :
           Gives(e, revoked, r) => \E f \in addedBy'[x] : f.by = e.by /\ Gives(f, revoked', r)
    OBVIOUS
  <2> QED BY <1>1, <2>1, MoreReachesMore
<1> QED BY <1>1, RolesCompare

LEMMA AddKeeps ==
    ASSUME IInv, NEW c \in Callers, NEW u \in Users, NEW r \in Ranks,
           addCollaborator(c, u, r)
    PROVE  IInv'
<1>1. addedBy \in Graphs /\ c \in People
  BY GraphIsTyped DEF IInv, Callers, People
<1>2. addedBy' = WithGrant(addedBy, u, c, r) /\ addedBy' \in Graphs
  BY <1>1, GrantIsTyped DEF addCollaborator
<1>3. \A x \in Users : RoleOf(x) <= RoleOf(x)'
  <2> SUFFICES ASSUME NEW x \in Users
               PROVE  Role(x, addedBy, revoked) <= Role(x, addedBy', revoked)
    BY DEF RoleOf, addCollaborator
  <2> QED BY <1>1, <1>2, GrantOnlyAdds, RolesCompare
<1>4. SessionsAreCurrent'
  BY <1>1, <1>2, <1>3, RisingKeeps DEF IInv, addCollaborator
<1>5. TypeOK'
  BY <1>2 DEF IInv, TypeOK, addCollaborator, Graphs, NoLink
<1>6. ViaLinks'
  <2>1. \A x \in Users : \A e \in addedBy'[x] : e \in addedBy[x] \/ e.via = Direct
    BY <1>1, <1>2 DEF WithGrant, Graphs
  <2> QED BY <2>1, SharingAssumption DEF IInv, ViaLinks, addCollaborator, NoLink
<1> QED BY <1>4, <1>5, <1>6 DEF IInv

LEMMA SeversKeeps ==
    ASSUME IInv, NEW c \in Callers, NEW edges \in Graphs, NEW gone \in SUBSET Links,
           \A x \in Users : edges[x] \subseteq addedBy[x],
           CutBy(c, addedBy, revoked, edges, gone), Severs(c, edges, gone)
    PROVE  IInv'
<1>1. addedBy \in Graphs /\ c \in People
  BY GraphIsTyped DEF IInv, Callers, People
<1> DEFINE outcast == Role(c, edges, gone) = 0
           kept(keep) == ReRooted(keep, c, RolesNow, edges, gone)
<1>2. PICK keep :
         /\ addedBy' = IF keep # {} /\ outcast THEN edges ELSE kept(keep)
         /\ restarting' = (restarting \/ (~(keep # {} /\ outcast)
                                             /\ Affected(RolesNow, addedBy', gone) # {}))
  BY DEF Severs
<1>3. UNCHANGED <<records, links, session, opening, overwritten>> /\ revoked' = gone
  BY DEF Severs
<1>4. \A u \in Users : RolesNow[u] = RoleOf(u) /\ RolesNow[u] \in {0, use, build}
  BY <1>1, RolesAreTyped
<1>5. addedBy' \in Graphs
  <2>1. CASE keep # {} /\ outcast
    BY <1>2, <2>1
  <2>2. CASE ~outcast
    <3>1. Role(c, edges, gone) \in Ranks
      BY <1>1, <2>2, RoleIsReach, OwnerBuilds DEF People, Ranks, use, build
    <3> QED BY <1>1, <1>2, <1>4, <2>2, <3>1, ReRootedIsTyped
  <2>3. CASE keep = {}
    BY <1>2, <2>3 DEF ReRooted, Graphs
  <2> QED BY <2>1, <2>2, <2>3
<1>6. \A x \in Users : \A e \in addedBy'[x] : e \in addedBy[x] \/ e.via = Direct
  <2> SUFFICES ASSUME NEW x \in Users
               PROVE  \A e \in addedBy'[x] : e \in edges[x] \/ e.via = Direct
    OBVIOUS
  <2>1. CASE keep # {} /\ outcast
    BY <1>2, <2>1
  <2>2. CASE ~(keep # {} /\ outcast)
    <3>1. \A r : \A e \in WithGrant(edges, x, c, r)[x] : e \in edges[x] \/ e.via = Direct
      BY DEF WithGrant, Graphs
    <3> QED BY <1>2, <2>2, <3>1 DEF ReRooted
  <2> QED BY <2>1, <2>2
<1> HIDE DEF outcast, kept
<1>7. TypeOK'
  BY <1>2, <1>3, <1>5 DEF IInv, TypeOK, Graphs, NoLink
<1>8. ViaLinks'
  BY <1>3, <1>6, SharingAssumption DEF IInv, ViaLinks, NoLink
<1>9. ASSUME ~restarting', ~overwritten'
      PROVE  \A u \in Users : RoleOf(u) <= RoleOf(u)'
  <2>1. RoleOf(c) = build
    <3>1. CASE c = Owner
      BY <1>1, <3>1, RolesAreTyped
    <3>2. CASE c # Owner
      <4>1. c \in Users /\ session[c] = build /\ ~restarting /\ ~overwritten
        BY <1>2, <1>3, <1>9, <3>2 DEF Callers
      <4>2. session[c] <= RoleOf(c)
        BY <4>1, <1>4 DEF IInv, SessionsAreCurrent, use, build
      <4> QED BY <1>4, <4>1, <4>2 DEF use, build
    <3> QED BY <3>1, <3>2
  <2>2. ~outcast
    <3>1. build <= Role(c, edges, gone)
      BY <1>1, <2>1, CallerUnharmed DEF RoleOf
    <3> QED BY <3>1 DEF outcast, build
  <2>3. Affected(RolesNow, addedBy', gone) = {}
    BY <1>2, <1>9, <2>2
  <2> SUFFICES ASSUME NEW u \in Users
               PROVE  RoleOf(u) <= Role(u, addedBy', gone)
    BY <1>3 DEF RoleOf
  <2>4. ~(Role(u, addedBy', gone) < RolesNow[u])
    BY <2>3 DEF Affected
  <2>5. Role(u, addedBy', gone) \in {0, use, build}
    BY <1>5, RoleIsReach
  <2> QED BY <1>4, <2>4, <2>5 DEF use, build
<1>10. SessionsAreCurrent'
  BY <1>1, <1>2, <1>3, <1>5, <1>9, RisingKeeps DEF IInv
<1> QED BY <1>7, <1>8, <1>10 DEF IInv

\* A removal and a revocation cut only what the caller gives.
LEMMA RemovalCuts ==
    ASSUME IInv, NEW c \in Callers, NEW t \in Users
    PROVE  CutBy(c, addedBy, revoked, Severed(addedBy, c, t), revoked)
<1> SUFFICES ASSUME c # Owner, NEW x \in Users, NEW e \in addedBy[x], e.by # c
             PROVE  e \in Severed(addedBy, c, t)[x]
  BY DEF CutBy
<1>1. addedBy \in Graphs
  BY GraphIsTyped DEF IInv
<1> QED BY <1>1, SeveredIsTyped DEF IsDirect

LEMMA RevocationCuts ==
    ASSUME IInv, NEW c \in Callers, NEW l \in Links, Manages(c, l)
    PROVE  CutBy(c, addedBy, revoked, addedBy, revoked \union {l})
BY DEF CutBy, Manages, IInv, ViaLinks

LEMMA LinkKeeps ==
    ASSUME IInv, NEW c \in Callers, NEW l \in Links, NEW r \in LinkRoles,
           createShareLink(c, l, r)
    PROVE  IInv'
<1>1. c \in People /\ r \in Ranks
  BY SharingAssumption DEF Callers, People
<1>2. [by |-> c, role |-> r] # NoLink
  BY <1>1 DEF NoLink, Ranks, use, build
<1>3. TypeOK'
  BY <1>1 DEF IInv, TypeOK, createShareLink, NoLink
<1>4. ViaLinks'
  BY <1>2 DEF IInv, ViaLinks, TypeOK, createShareLink
<1>5. SessionsAreCurrent'
  BY DEF IInv, SessionsAreCurrent, RoleOf, createShareLink
<1> QED BY <1>3, <1>4, <1>5 DEF IInv

LEMMA EdgeOfIsTyped ==
    ASSUME TypeOK, NEW l \in Links, links[l] # NoLink
    PROVE  EdgeOf(l) \in Edge /\ EdgeOf(l).via = l /\ EdgeOf(l).by = links[l].by
BY DEF TypeOK, EdgeOf, Edge

\* An open() that ends, or goes on with the role that the graph gives.
LEMMA OpeningKeeps ==
    ASSUME IInv, NEW u \in Users, (addedBy \in Graphs)', revoked' = revoked,
           UNCHANGED <<links, session, restarting>>,
           records' \subseteq Users, overwritten' \in BOOLEAN, overwritten => overwritten',
           \A x \in Users : \A e \in addedBy'[x] :
              e \in addedBy[x] \/ (e.via \in Links /\ links[e.via] # NoLink /\ e.by = links[e.via].by),
           ~overwritten' => \A x \in Users : addedBy[x] \subseteq addedBy'[x],
           Verifies(u, addedBy') \/ Denied(u, addedBy')
    PROVE  IInv'
<1>1. addedBy \in Graphs
  BY GraphIsTyped DEF IInv
<1> DEFINE o == opening'[u]
<1>2. /\ opening' = [opening EXCEPT ![u] = o]
      /\ o \in [at : {"none", "verifying"}, via : {Direct}, role : {0, use, build}]
      /\ o.role = 0 \/ o.role = RoleOf(u)'
  <2>1. CASE Verifies(u, addedBy')
    BY <2>1, RoleIsReach DEF Verifies, RoleOf, IInv, TypeOK
  <2>2. CASE Denied(u, addedBy')
    <3>1. /\ NoOpen \in [at : {"none", "verifying"}, via : {Direct}, role : {0, use, build}]
          /\ NoOpen.role = 0
      BY DEF NoOpen
    <3>2. opening' = [opening EXCEPT ![u] = NoOpen]
      BY <2>2 DEF Denied
    <3>3. o = NoOpen
      BY <3>2 DEF IInv, TypeOK
    <3> HIDE DEF o
    <3> QED BY <3>1, <3>2, <3>3
  <2> QED BY <2>1, <2>2
<1> HIDE DEF o
<1>3. TypeOK'
  BY <1>2 DEF IInv, TypeOK, Graphs, NoLink, Ranks
<1>4. ViaLinks'
  BY <1>2 DEF IInv, ViaLinks, TypeOK
<1>5. SessionsAreCurrent'
  <2> SUFFICES ASSUME ~restarting, ~overwritten', NEW x \in Users
               PROVE  ({session[x], opening[x].role} \subseteq 0..RoleOf(x))'
    BY DEF SessionsAreCurrent
  <2>1. RoleOf(x) <= RoleOf(x)'
    BY <1>1, AddingRaises
  <2>2. RoleOf(x) \in {0, use, build} /\ RoleOf(x)' \in {0, use, build}
    BY <1>1, RoleIsReach DEF RoleOf
  <2>3. {session[x], opening[x].role} \subseteq 0..RoleOf(x)
    BY DEF IInv, SessionsAreCurrent
  <2>4. opening'[x].role = opening[x].role \/ opening'[x].role = 0
           \/ opening'[x].role = RoleOf(x)'
    BY <1>2 DEF IInv, TypeOK
  <2> QED BY <2>1, <2>2, <2>3, <2>4 DEF use, build
<1> QED BY <1>3, <1>4, <1>5 DEF IInv

LEMMA OpenKeeps ==
    ASSUME IInv, NEW u \in Users, Open(u)
    PROVE  IInv'
<1>1. addedBy \in Graphs
  BY GraphIsTyped DEF IInv
<1> QED BY <1>1, OpeningKeeps DEF Open, graph, IInv, TypeOK

LEMMA RedeemKeeps ==
    ASSUME IInv, NEW u \in Users, NEW l \in Links, Redeem(u, l)
    PROVE  IInv'
<1>1. addedBy \in Graphs
  BY GraphIsTyped DEF IInv
<1>2. EdgeOf(l) \in Edge /\ EdgeOf(l).via = l /\ EdgeOf(l).by = links[l].by /\ links[l] # NoLink
  BY EdgeOfIsTyped DEF IInv, Redeem, Live
<1>3. addedBy' = [addedBy EXCEPT ![u] = @ \union {EdgeOf(l)}]
  BY DEF Redeem
<1>4. addedBy' \in Graphs
  BY <1>1, <1>2, <1>3 DEF Graphs
<1>5. \A x \in Users : /\ addedBy[x] \subseteq addedBy'[x]
                        /\ \A e \in addedBy'[x] : e \in addedBy[x] \/ e = EdgeOf(l)
  BY <1>1, <1>3 DEF Graphs
<1> QED BY <1>2, <1>4, <1>5, OpeningKeeps DEF Redeem, IInv, TypeOK

LEMMA ProfileFetchedKeeps ==
    ASSUME IInv, NEW u \in Users, ProfileFetched(u)
    PROVE  IInv'
<1>1. addedBy \in Graphs
  BY GraphIsTyped DEF IInv
<1> DEFINE l == opening[u].via
<1>2. l \in Links /\ links[l] # NoLink
  BY DEF IInv, ViaLinks, ProfileFetched
<1>3. EdgeOf(l) \in Edge /\ EdgeOf(l).via = l /\ EdgeOf(l).by = links[l].by
  BY <1>2, EdgeOfIsTyped DEF IInv
<1>4. addedBy' = [addedBy EXCEPT ![u] = {EdgeOf(l)}]
  BY DEF ProfileFetched
<1> HIDE DEF l
<1>5. addedBy' \in Graphs
  BY <1>1, <1>3, <1>4 DEF Graphs
<1>6. \A x \in Users : \A e \in addedBy'[x] : e \in addedBy[x] \/ e = EdgeOf(l)
  BY <1>1, <1>4 DEF Graphs
<1>7. ~overwritten' => \A x \in Users : addedBy[x] \subseteq addedBy'[x]
  BY <1>1, <1>4 DEF ProfileFetched, Graphs
<1>8. overwritten' \in BOOLEAN /\ (overwritten => overwritten') /\ records' \subseteq Users
  BY DEF ProfileFetched, IInv, TypeOK
<1> QED BY <1>2, <1>3, <1>5, <1>6, <1>7, <1>8, OpeningKeeps DEF ProfileFetched

LEMMA RedeemNewKeeps ==
    ASSUME IInv, NEW u \in Users, NEW l \in Links, RedeemNew(u, l)
    PROVE  IInv'
<1>1. TypeOK'
  BY DEF IInv, TypeOK, RedeemNew, graph
<1>2. ViaLinks'
  BY DEF IInv, ViaLinks, TypeOK, RedeemNew, graph, Live
<1>3. SessionsAreCurrent'
  <2> SUFFICES ASSUME ~restarting, ~overwritten, NEW x \in Users
               PROVE  {session[x], opening'[x].role} \subseteq 0..RoleOf(x)
    BY DEF SessionsAreCurrent, RedeemNew, graph, RoleOf
  <2>1. {session[x], opening[x].role} \subseteq 0..RoleOf(x)
    BY DEF IInv, SessionsAreCurrent
  <2>2. opening'[x].role \in {opening[x].role, 0}
    BY DEF IInv, TypeOK, RedeemNew
  <2>3. RoleOf(x) \in {0, use, build}
    BY GraphIsTyped, RolesAreTyped DEF IInv
  <2> QED BY <2>1, <2>2, <2>3 DEF use, build
<1> QED BY <1>1, <1>2, <1>3 DEF IInv

\* A session is entered with the role that was read, or something ends.
LEMMA LeavingKeeps ==
    ASSUME IInv, NEW u \in Users, Opened(u) \/ OpenFails(u) \/ Leave(u)
    PROVE  IInv'
<1>1. TypeOK'
  BY DEF IInv, TypeOK, Opened, OpenFails, Leave, graph, NoOpen
<1>2. ViaLinks'
  BY DEF IInv, ViaLinks, TypeOK, Opened, OpenFails, Leave, graph, NoOpen
<1>3. SessionsAreCurrent'
  <2> SUFFICES ASSUME ~restarting, ~overwritten, NEW x \in Users
               PROVE  {session'[x], opening'[x].role} \subseteq 0..RoleOf(x)
    BY DEF SessionsAreCurrent, Opened, OpenFails, Leave, graph, RoleOf
  <2>1. {session[x], opening[x].role} \subseteq 0..RoleOf(x)
    BY DEF IInv, SessionsAreCurrent
  <2>2. {session'[x], opening'[x].role} \subseteq {session[x], opening[x].role, 0}
    BY DEF IInv, TypeOK, Opened, OpenFails, Leave, NoOpen
  <2>3. RoleOf(x) \in {0, use, build}
    BY GraphIsTyped, RolesAreTyped DEF IInv
  <2> QED BY <2>1, <2>2, <2>3 DEF use, build
<1> QED BY <1>1, <1>2, <1>3 DEF IInv

LEMMA RestartKeeps ==
    ASSUME IInv, Restart
    PROVE  IInv'
<1>1. addedBy \in Graphs
  BY GraphIsTyped DEF IInv
<1>2. TypeOK'
  BY DEF IInv, TypeOK, Restart, graph, NoOpen
<1>3. ViaLinks'
  BY DEF IInv, ViaLinks, Restart, graph, NoOpen
<1>4. SessionsAreCurrent'
  <2> SUFFICES ASSUME NEW x \in Users
               PROVE  {session'[x], opening'[x].role} \subseteq 0..RoleOf(x)
    BY DEF SessionsAreCurrent, Restart, graph, RoleOf
  <2>1. RoleOf(x) \in {0, use, build}
    BY <1>1, RolesAreTyped
  <2> QED BY <2>1 DEF Restart, NoOpen, use, build
<1> QED BY <1>2, <1>3, <1>4 DEF IInv

LEMMA Invariance == Spec => []IInv
<1>1. Init => IInv
  <2> SUFFICES ASSUME Init PROVE IInv
    OBVIOUS
  <2>1. TypeOK
    BY DEF Init, TypeOK, NoOpen, NoLink
  <2>2. ViaLinks
    BY DEF Init, ViaLinks, NoOpen
  <2>3. SessionsAreCurrent
    <3>1. \A u \in Users : RoleOf(u) \in {0, use, build}
      BY <2>1, GraphIsTyped, RolesAreTyped
    <3> QED BY <3>1 DEF Init, SessionsAreCurrent, NoOpen, use, build
  <2> QED BY <2>1, <2>2, <2>3 DEF IInv
<1>2. IInv /\ [Next]_vars => IInv'
  <2> SUFFICES ASSUME IInv, [Next]_vars PROVE IInv'
    OBVIOUS
  <2>1. addedBy \in Graphs
    BY GraphIsTyped DEF IInv
  <2>2. ASSUME NEW c \in Callers, NEW u \in Users, NEW r \in Ranks, addCollaborator(c, u, r)
        PROVE  IInv'
    BY <2>2, AddKeeps
  <2>3. ASSUME NEW c \in Callers, NEW t \in Users, removeCollaborator(c, t)
        PROVE  IInv'
    <3>1. CutBy(c, addedBy, revoked, Severed(addedBy, c, t), revoked)
      BY RemovalCuts
    <3>2. /\ Severed(addedBy, c, t) \in Graphs /\ revoked \in SUBSET Links
          /\ \A x \in Users : Severed(addedBy, c, t)[x] \subseteq addedBy[x]
      BY <2>1, SeveredIsTyped DEF IInv, TypeOK
    <3> QED BY <2>3, <3>1, <3>2, SeversKeeps DEF removeCollaborator
  <2>4. ASSUME NEW c \in Callers, NEW l \in Links, NEW r \in LinkRoles, createShareLink(c, l, r)
        PROVE  IInv'
    BY <2>4, LinkKeeps
  <2>5. ASSUME NEW c \in Callers, NEW l \in Links, revokeShareLink(c, l)
        PROVE  IInv'
    <3>1. CutBy(c, addedBy, revoked, addedBy, revoked \union {l})
      BY <2>5, RevocationCuts DEF revokeShareLink
    <3>2. revoked \union {l} \in SUBSET Links
      BY DEF IInv, TypeOK
    <3> QED BY <2>1, <2>5, <3>1, <3>2, SeversKeeps DEF revokeShareLink
  <2>6. ASSUME NEW u \in Users, NEW l \in Links, Redeem(u, l) \/ RedeemNew(u, l)
        PROVE  IInv'
    BY <2>6, RedeemKeeps, RedeemNewKeeps
  <2>7. ASSUME NEW u \in Users,
               Open(u) \/ ProfileFetched(u) \/ Opened(u) \/ OpenFails(u) \/ Leave(u)
        PROVE  IInv'
    BY <2>7, OpenKeeps, ProfileFetchedKeeps, LeavingKeeps
  <2>8. CASE Restart
    BY <2>8, RestartKeeps
  <2>9. CASE UNCHANGED vars
    BY <2>9 DEF vars, graph, IInv, TypeOK, ViaLinks, SessionsAreCurrent, RoleOf
  <2> QED BY <2>2, <2>3, <2>4, <2>5, <2>6, <2>7, <2>8, <2>9 DEF Next
<1> QED BY <1>1, <1>2, PTL DEF Spec

-----------------------------------------------------------------------------
\* The variables of the sharing model keep their types.
THEOREM TypeCorrect == Spec => []TypeOK
<1>1. IInv => TypeOK
  BY DEF IInv
<1> QED BY <1>1, Invariance, PTL

\* No session outlives the access that it was opened with, but for the restart
\* that is under way: scheduleRevocationRestart() is called wherever it must be.
THEOREM NobodyStaysOn == Spec => []SessionsAreCurrent
<1>1. IInv => SessionsAreCurrent
  BY DEF IInv
<1> QED BY <1>1, Invariance, PTL

\* #reRootKeptUsers() keeps whom it is told to keep, and neither a removal nor a
\* revocation takes anything from the caller.
THEOREM KeepersKeep == Spec => []KeptUsersKeep
<1>1. ASSUME IInv PROVE KeptUsersKeep
  <2> USE <1>1
  <2>1. addedBy \in Graphs /\ revoked \in SUBSET Links
    BY GraphIsTyped DEF IInv, TypeOK
  <2>2. \A x \in Users : RolesNow[x] = Role(x, addedBy, revoked)
    BY <2>1, RolesAreTyped DEF RoleOf
  <2>3. ASSUME NEW c \in Callers, NEW edges \in Graphs, NEW gone \in SUBSET Links,
               CutBy(c, addedBy, revoked, edges, gone)
        PROVE  /\ RoleOf(c) <= Role(c, edges, gone)
               /\ \A u \in Affected(RolesNow, edges, gone) :
                     RolesNow[u] <= Role(u, ReRooted({u}, c, RolesNow, edges, gone), gone)
    <3>1. c \in People /\ Direct \notin gone
      BY SharingAssumption DEF Callers, People
    <3>2. RoleOf(c) <= Role(c, edges, gone)
      BY <2>1, <2>3, <3>1, CallerUnharmed DEF RoleOf
    <3>3. ASSUME NEW u \in Affected(RolesNow, edges, gone)
          PROVE  RolesNow[u] <= Role(u, ReRooted({u}, c, RolesNow, edges, gone), gone)
      <4>1. u \in Users /\ Role(u, edges, gone) < RolesNow[u]
        BY DEF Affected
      <4> QED BY <2>1, <2>2, <2>3, <3>1, <4>1, KeptKeeps
    <3> QED BY <3>2, <3>3
  <2>4. ASSUME NEW c \in Callers, NEW t \in Users
        PROVE  /\ Severed(addedBy, c, t) \in Graphs
               /\ CutBy(c, addedBy, revoked, Severed(addedBy, c, t), revoked)
    BY <2>1, RemovalCuts, SeveredIsTyped
  <2>5. ASSUME NEW c \in Callers, NEW l \in Links, Manages(c, l)
        PROVE  /\ revoked \union {l} \in SUBSET Links
               /\ CutBy(c, addedBy, revoked, addedBy, revoked \union {l})
    BY <2>1, <2>5, RevocationCuts
  <2> QED BY <2>1, <2>3, <2>4, <2>5 DEF KeptUsersKeep
<1>2. IInv => KeptUsersKeep
  BY <1>1
<1> QED BY <1>2, Invariance, PTL

\* Removing somebody can be taken back: added again with the role he had, he
\* and everyone behind him have what they had, however they are connected.
THEOREM RemovalsCanBeUndone == Spec => []RemovalIsReversible
<1>1. ASSUME IInv, NEW t \in Users, RoleOf(t) > 0, NEW u \in Users
      PROVE  RoleOf(u) <= Role(u, WithGrant(Severed(addedBy, Owner, t), t, Owner, RoleOf(t)), revoked)
  <2> DEFINE cut == Severed(addedBy, Owner, t)
             again == WithGrant(cut, t, Owner, RoleOf(t))
  <2>1. addedBy \in Graphs /\ Owner \in People
    BY <1>1, GraphIsTyped DEF IInv, People
  <2>2. RoleOf(t) \in Ranks
    BY <1>1, <2>1, RolesAreTyped DEF Ranks, use, build
  <2>3. cut \in Graphs /\ \A x \in Users : x # t => cut[x] = addedBy[x]
    BY <2>1, SeveredIsTyped
  <2> HIDE DEF cut
  <2>4. again \in Graphs
    BY <2>1, <2>2, <2>3, GrantIsTyped
  <2>5. \A x \in Users : x # t => again[x] = addedBy[x]
    BY <2>3 DEF WithGrant, Graphs
  <2>6. PICK f \in again[t] : f.by = Owner /\ f.role >= RoleOf(t) /\ f.via = Direct
    BY <2>1, <2>2, <2>3, GrantGives
  <2> HIDE DEF again
  <2>7. ASSUME NEW r \in Ranks, Reaches(u, addedBy, revoked, r)
        PROVE  Reaches(u, again, revoked, r)
    <3> SUFFICES ASSUME NEW S \in SUBSET (Users \ {u}), Closed(S, again, revoked, r)
                 PROVE  FALSE
      BY DEF Reaches
    <3>1. CASE t \in S
      <4>1. Closed(S, addedBy, revoked, r)
        BY <2>5, <3>1 DEF Closed
      <4> QED BY <2>7, <4>1 DEF Reaches
    <3>2. CASE t \notin S
      <4>1. ~Gives(f, revoked, r)
        BY <2>6, <3>2 DEF Closed
      <4>2. ~(r <= RoleOf(t))
        <5>1. f.role \in Ranks /\ Direct \notin revoked
          BY <1>1, <2>4, SharingAssumption DEF Graphs, Edge, IInv, TypeOK
        <5> QED BY <2>2, <2>6, <4>1, <5>1 DEF Gives, Ranks, use, build
      <4>3. ~Reaches(t, addedBy, revoked, r)
        BY <2>1, <4>2, RoleIsReach DEF RoleOf
      <4>4. PICK T \in SUBSET (Users \ {t}) : Closed(T, addedBy, revoked, r)
        BY <4>3 DEF Reaches
      <4>5. Closed(S \cap T, addedBy, revoked, r)
        <5> SUFFICES ASSUME NEW x \in Users \ (S \cap T), NEW e \in addedBy[x],
                            e.by \in (S \cap T) \union {Owner}, Gives(e, revoked, r)
                     PROVE  FALSE
          BY DEF Closed
        <5>1. x \in T
          BY <4>4 DEF Closed
        <5>2. x \notin S /\ x # t
          BY <4>4, <5>1
        <5> QED BY <2>5, <5>2 DEF Closed
      <4>6. S \cap T \in SUBSET (Users \ {u})
        OBVIOUS
      <4> QED BY <2>7, <4>5, <4>6 DEF Reaches
    <3> QED BY <3>1, <3>2
  <2>8. RoleOf(u) <= Role(u, again, revoked)
    BY <2>1, <2>4, <2>7, RolesCompare DEF RoleOf
  <2> QED BY <2>8 DEF again, cut
<1>2. IInv => RemovalIsReversible
  BY <1>1 DEF RemovalIsReversible
<1> QED BY <1>2, Invariance, PTL

\* What previewRemoveCollaborator() shows the owner is what
\* removeCollaborator() does, whatever the removed user had given to others.
THEOREM PreviewsAreTrue == Spec => []PreviewIsExact
<1>1. ASSUME IInv, NEW t \in Users, NEW u \in Users
      PROVE  Role(u, Previewed(addedBy, Owner, t), revoked) =
                Role(u, Severed(addedBy, Owner, t), revoked)
  <2> DEFINE shown == Previewed(addedBy, Owner, t)
             cut == Severed(addedBy, Owner, t)
  <2>1. addedBy \in Graphs /\ t # Owner
    BY <1>1, GraphIsTyped, SharingAssumption DEF IInv
  <2>2. /\ cut \in Graphs /\ cut[t] = {}
        /\ \A x \in Users : x # t => cut[x] = addedBy[x]
    BY <2>1, SeveredIsTyped
  <2>3. /\ shown \in Graphs /\ shown[t] = {}
        /\ \A x \in Users : x # t => shown[x] = {e \in addedBy[x] : e.by # t}
    BY <2>1 DEF Previewed, Graphs
  <2> HIDE DEF shown, cut
  <2>4. ASSUME NEW r \in Ranks
        PROVE  Reaches(u, shown, revoked, r) <=> Reaches(u, cut, revoked, r)
    <3>1. ASSUME Reaches(u, shown, revoked, r) PROVE Reaches(u, cut, revoked, r)
      BY <2>2, <2>3, <3>1, MoreReachesMore
    <3>2. ASSUME Reaches(u, cut, revoked, r), NEW S \in SUBSET (Users \ {u}),
                 Closed(S, shown, revoked, r)
          PROVE  FALSE
      <4>1. Closed(S \ {t}, cut, revoked, r)
        <5> SUFFICES ASSUME NEW x \in Users \ (S \ {t}), NEW e \in cut[x],
                            e.by \in (S \ {t}) \union {Owner}, Gives(e, revoked, r)
                     PROVE  FALSE
          BY DEF Closed
        <5>1. x # t /\ e.by # t
          BY <2>1, <2>2
        <5>2. e \in shown[x] /\ x \in Users \ S
          BY <2>2, <2>3, <5>1
        <5> QED BY <3>2, <5>2 DEF Closed
      <4>2. S \ {t} \in SUBSET (Users \ {u})
        OBVIOUS
      <4> QED BY <3>2, <4>1, <4>2 DEF Reaches
    <3> QED BY <3>1, <3>2 DEF Reaches
  <2>5. Role(u, shown, revoked) <= Role(u, cut, revoked) /\ Role(u, cut, revoked) <= Role(u, shown, revoked)
    BY <2>2, <2>3, <2>4, RolesCompare
  <2>6. Role(u, shown, revoked) \in {0, use, build} /\ Role(u, cut, revoked) \in {0, use, build}
    BY <2>2, <2>3, RoleIsReach
  <2>7. Role(u, shown, revoked) = Role(u, cut, revoked)
    BY <2>5, <2>6 DEF use, build
  <2> QED BY <2>7 DEF shown, cut
<1>2. IInv => PreviewIsExact
  BY <1>1 DEF PreviewIsExact
<1> QED BY <1>2, Invariance, PTL

-----------------------------------------------------------------------------
(* The loop of computeEffectiveRoles().  Who has at least a given role     *)
(* after n passes is nobody whom a closed set keeps out, and a pass that   *)
(* adds nobody leaves a closed set: there are as many passes as users, so  *)
(* that either one of them has added nobody or all have the role.          *)

NoRoles == [u \in Users |-> 0]

\* f is what n passes lead to, one after the other.
Passes(f, n, edges, gone) ==
    f = [i \in 0..n |-> IF i = 0 THEN NoRoles ELSE Pass(f[i - 1], edges, gone)]

\* There is such a function: one pass more can always be made.
LEMMA PassesCanBeMade ==
    ASSUME NEW N \in Nat, NEW edges, NEW gone
    PROVE  \E f : Passes(f, N, edges, gone)
<1> DEFINE Stuck == {n \in Nat : \A f : ~Passes(f, n, edges, gone)}
<1> SUFFICES ASSUME Stuck # {} PROVE FALSE
  OBVIOUS
<1> DEFINE m == Min(Stuck)
<1>1. m \in Stuck /\ \A n \in Stuck : m <= n
  <2>1. Stuck \subseteq Nat
    OBVIOUS
  <2> HIDE DEF Stuck
  <2> QED BY <2>1, MinOfNats
<1>2. m \in Nat
  BY <1>1
<1>3. m # 0
  <2> DEFINE f == [i \in 0..0 |-> NoRoles]
  <2>1. f = [i \in 0..0 |-> IF i = 0 THEN NoRoles ELSE Pass(f[i - 1], edges, gone)]
    OBVIOUS
  <2>2. Passes(f, 0, edges, gone)
    BY <2>1 DEF Passes
  <2> QED BY <1>1, <2>2
<1>4. m - 1 \in Nat /\ m - 1 \notin Stuck
  <2> HIDE DEF Stuck, m
  <2>1. m - 1 \in Nat /\ ~(m <= m - 1)
    BY <1>2, <1>3
  <2> QED BY <1>1, <2>1
<1>5. PICK f : Passes(f, m - 1, edges, gone)
  BY <1>4
<1> HIDE DEF m
<1> DEFINE g == [i \in 0..m |-> IF i = m THEN Pass(f[m - 1], edges, gone) ELSE f[i]]
<1>6. \A i \in 0..m : g[i] = IF i = 0 THEN NoRoles ELSE Pass(g[i - 1], edges, gone)
  <2> SUFFICES ASSUME NEW i \in 0..m
               PROVE  g[i] = IF i = 0 THEN NoRoles ELSE Pass(g[i - 1], edges, gone)
    OBVIOUS
  <2>1. CASE i = m
    <3>1. g[m - 1] = f[m - 1]
      BY <1>2, <1>4
    <3> QED BY <1>2, <1>3, <2>1, <3>1
  <2>2. CASE i # m
    <3>1. i \in 0..(m - 1) /\ g[i] = f[i]
      BY <1>2, <2>2
    <3>2. f[i] = IF i = 0 THEN NoRoles ELSE Pass(f[i - 1], edges, gone)
      BY <1>5, <3>1 DEF Passes
    <3>3. i # 0 => g[i - 1] = f[i - 1]
      BY <1>2, <2>2
    <3> HIDE DEF g
    <3> QED BY <3>1, <3>2, <3>3
  <2> QED BY <2>1, <2>2
<1>7. Passes(g, m, edges, gone)
  BY <1>6 DEF Passes
<1> QED BY <1>1, <1>7

\* So the function that computeEffectiveRoles() takes the last value of is one.
LEMMA LoopIsPasses ==
    ASSUME NEW edges, NEW gone, Cardinality(Users) \in Nat
    PROVE  \E f : /\ Passes(f, Cardinality(Users), edges, gone)
                  /\ computeEffectiveRoles(edges, gone) = f[Cardinality(Users)]
<1> DEFINE N == Cardinality(Users)
           passes == CHOOSE f : f = [n \in 0..N |-> IF n = 0 THEN [u \in Users |-> 0]
                                                    ELSE Pass(f[n - 1], edges, gone)]
<1>1. computeEffectiveRoles(edges, gone) = passes[N]
  BY DEF computeEffectiveRoles
<1>2. \E f : f = [n \in 0..N |-> IF n = 0 THEN [u \in Users |-> 0]
                                 ELSE Pass(f[n - 1], edges, gone)]
  <2>1. PICK f : Passes(f, N, edges, gone)
    BY PassesCanBeMade
  <2>2. f = [n \in 0..N |-> IF n = 0 THEN [u \in Users |-> 0]
                            ELSE Pass(f[n - 1], edges, gone)]
    BY <2>1 DEF Passes, NoRoles
  <2> QED BY <2>2
<1>3. passes = [n \in 0..N |-> IF n = 0 THEN [u \in Users |-> 0]
                               ELSE Pass(passes[n - 1], edges, gone)]
  <2> HIDE DEF N
  <2> QED BY <1>2
<1> HIDE DEF passes
<1>4. Passes(passes, N, edges, gone)
  BY <1>3 DEF Passes, NoRoles
<1> QED BY <1>1, <1>4

\* What a pass does for a rank.
LEMMA PassGives ==
    ASSUME NEW edges \in Graphs, NEW gone, NEW eff \in [Users -> 0..2], NEW u \in Users
    PROVE  /\ Pass(eff, edges, gone)[u] \in 0..2
           /\ \A r \in Ranks : Pass(eff, edges, gone)[u] >= r <=>
                 \/ eff[u] >= r
                 \/ \E e \in edges[u] : Gives(e, gone, r)
                       /\ e.by \in {v \in Users : eff[v] >= r} \union {Owner}
<1> DEFINE valid == {f \in edges[u] : f.via \notin gone}
           roles == {eff[u]} \union {Granted(e, eff) : e \in valid}
<1>0. Ranks = {1, 2} /\ build = 2
  BY DEF Ranks, use, build
<1>1. \A e \in valid : e.by \in Users \union {Owner} /\ e.role \in {1, 2}
  BY <1>0 DEF Graphs, Edge, People
<1>2. \A e \in valid : Upstream(eff, e.by) \in 0..2
  BY <1>0, <1>1 DEF Upstream
<1>3. \A e \in valid : Granted(e, eff) \in 0..2
  BY <1>1, <1>2 DEF Granted
<1>4. ASSUME NEW e \in valid, NEW r \in {1, 2}
      PROVE  Granted(e, eff) >= r <=>
                e.role >= r /\ e.by \in {v \in Users : eff[v] >= r} \union {Owner}
  <2>1. Upstream(eff, e.by) >= r <=> e.by \in {v \in Users : eff[v] >= r} \union {Owner}
    BY <1>0, <1>1, SharingAssumption DEF Upstream
  <2> QED BY <1>1, <1>2, <2>1 DEF Granted
<1>5. Pass(eff, edges, gone)[u] = Max(roles)
  BY DEF Pass
<1>6. roles \in SUBSET (0..2) /\ roles # {}
  BY <1>3
<1>7. Max(roles) \in roles /\ \A x \in roles : x <= Max(roles)
  <2> HIDE DEF roles
  <2> QED BY <1>6, MaxOfBounded
<1>8. ASSUME NEW r \in {1, 2}
      PROVE  Max(roles) >= r <=> \/ eff[u] >= r
                                 \/ \E e \in valid : Granted(e, eff) >= r
  <2>1. Max(roles) >= r <=> \E x \in roles : x >= r
    <3> HIDE DEF roles
    <3>1. \A x \in roles : x \in 0..2
      BY <1>6
    <3> QED BY <1>7, <3>1
  <2> QED BY <2>1
<1>9. ASSUME NEW r \in {1, 2}
      PROVE  Max(roles) >= r <=>
                \/ eff[u] >= r
                \/ \E e \in edges[u] : Gives(e, gone, r)
                      /\ e.by \in {v \in Users : eff[v] >= r} \union {Owner}
  <2>1. \A e \in edges[u] : Gives(e, gone, r) <=> e \in valid /\ e.role >= r
    BY DEF Gives
  <2> HIDE DEF valid, roles
  <2>2. \A e \in valid : e \in edges[u]
    BY DEF valid
  <2> QED BY <1>4, <1>8, <2>1, <2>2
<1> HIDE DEF roles
<1> QED BY <1>0, <1>5, <1>6, <1>7, <1>9

\* Who has at least r after n passes
Having(f, n, r) == {u \in Users : f[n][u] >= r}

\* Whom an edge from somebody in S gives r
GivenBy(S, edges, gone, r) ==
    {u \in Users : \E e \in edges[u] : e.by \in S \union {Owner} /\ Gives(e, gone, r)}

\* A counterexample to what the passes keep would have a first one.
LEMMA PassesAreTyped ==
    ASSUME NEW N \in Nat, NEW edges \in Graphs, NEW gone, NEW f, Passes(f, N, edges, gone)
    PROVE  \A n \in 0..N : f[n] \in [Users -> 0..2]
<1> DEFINE Bad == {n \in 0..N : f[n] \notin [Users -> 0..2]}
<1> SUFFICES ASSUME Bad # {} PROVE FALSE
  OBVIOUS
<1> DEFINE m == Min(Bad)
<1>1. m \in Bad /\ \A n \in Bad : m <= n
  <2>1. Bad \subseteq Nat
    OBVIOUS
  <2> HIDE DEF Bad
  <2> QED BY <2>1, MinOfNats
<1>2. m \in 0..N
  BY <1>1
<1>3. m # 0
  <2>1. f[0] = NoRoles
    BY DEF Passes
  <2> QED BY <1>1, <2>1 DEF NoRoles
<1> HIDE DEF m
<1>4. m - 1 \in 0..N /\ f[m - 1] \in [Users -> 0..2]
  <2>1. m - 1 \in 0..N /\ ~(m <= m - 1)
    BY <1>2, <1>3
  <2>2. m - 1 \notin Bad
    <3> HIDE DEF Bad
    <3> QED BY <1>1, <2>1
  <2> QED BY <2>1, <2>2
<1>5. f[m] = Pass(f[m - 1], edges, gone)
  BY <1>2, <1>3 DEF Passes
<1>6. \A u \in Users : Pass(f[m - 1], edges, gone)[u] \in 0..2
  BY <1>4, PassGives
<1>7. f[m] \in [Users -> 0..2]
  BY <1>5, <1>6 DEF Pass
<1> QED BY <1>1, <1>7

\* The passes, for one rank: nobody has it at first, and then those have it who
\* had it, or are given it by one who had it.
LEMMA HavingGrows ==
    ASSUME NEW N \in Nat, NEW edges \in Graphs, NEW gone, NEW f, Passes(f, N, edges, gone),
           NEW r \in Ranks
    PROVE  /\ Having(f, 0, r) = {}
           /\ \A n \in 1..N : Having(f, n, r) =
                 Having(f, n - 1, r) \union GivenBy(Having(f, n - 1, r), edges, gone, r)
<1>1. \A n \in 0..N : f[n] \in [Users -> 0..2]
  BY PassesAreTyped
<1>2. Having(f, 0, r) = {}
  <2>1. f[0] = NoRoles
    BY DEF Passes
  <2> QED BY <2>1 DEF Having, NoRoles, Ranks, use, build
<1>3. ASSUME NEW n \in 1..N
      PROVE  Having(f, n, r) =
                Having(f, n - 1, r) \union GivenBy(Having(f, n - 1, r), edges, gone, r)
  <2>1. n - 1 \in 0..N /\ f[n] = Pass(f[n - 1], edges, gone)
    BY DEF Passes
  <2>2. f[n - 1] \in [Users -> 0..2]
    BY <1>1, <2>1
  <2>3. ASSUME NEW u \in Users
        PROVE  f[n][u] >= r <=>
                 \/ f[n - 1][u] >= r
                 \/ \E e \in edges[u] : Gives(e, gone, r)
                       /\ e.by \in {v \in Users : f[n - 1][v] >= r} \union {Owner}
    BY <2>1, <2>2, PassGives
  <2> QED BY <2>3 DEF Having, GivenBy
<1> QED BY <1>2, <1>3

\* A set that gives r to nobody else holds all who have it after any pass.
LEMMA ClosedHoldsAll ==
    ASSUME NEW N \in Nat, NEW edges \in Graphs, NEW gone, NEW f, Passes(f, N, edges, gone),
           NEW r \in Ranks, NEW S, Closed(S, edges, gone, r)
    PROVE  \A n \in 0..N : Having(f, n, r) \subseteq S
<1> DEFINE Bad == {n \in 0..N : ~(Having(f, n, r) \subseteq S)}
<1> SUFFICES ASSUME Bad # {} PROVE FALSE
  OBVIOUS
<1> DEFINE m == Min(Bad)
<1>1. m \in Bad /\ \A n \in Bad : m <= n
  <2>1. Bad \subseteq Nat
    OBVIOUS
  <2> HIDE DEF Bad
  <2> QED BY <2>1, MinOfNats
<1>2. m \in 0..N
  BY <1>1
<1>3. m # 0
  BY <1>1, HavingGrows
<1> HIDE DEF m
<1>4. Having(f, m - 1, r) \subseteq S
  <2>1. m - 1 \in 0..N /\ ~(m <= m - 1)
    BY <1>2, <1>3
  <2>2. m - 1 \notin Bad
    <3> HIDE DEF Bad
    <3> QED BY <1>1, <2>1
  <2> QED BY <2>1, <2>2
<1>5. m \in 1..N
  BY <1>2, <1>3
<1>6. Having(f, m, r) = Having(f, m - 1, r) \union GivenBy(Having(f, m - 1, r), edges, gone, r)
  BY <1>5, HavingGrows
<1>7. GivenBy(Having(f, m - 1, r), edges, gone, r) \subseteq S
  BY <1>4 DEF GivenBy, Closed
<1> QED BY <1>1, <1>4, <1>6, <1>7

\* Every pass adds somebody, or is the last that could have: the set is closed.
LEMMA PassesCloseOrGrow ==
    ASSUME NEW N \in Nat, NEW edges \in Graphs, NEW gone, NEW f, Passes(f, N, edges, gone),
           NEW r \in Ranks
    PROVE  \A n \in 0..N : \/ Closed(Having(f, n, r), edges, gone, r)
                           \/ Cardinality(Having(f, n, r)) >= n
<1> DEFINE Good(n) == \/ Closed(Having(f, n, r), edges, gone, r)
                      \/ Cardinality(Having(f, n, r)) >= n
           Bad == {n \in 0..N : ~Good(n)}
<1> SUFFICES ASSUME Bad # {} PROVE FALSE
  OBVIOUS
<1> DEFINE m == Min(Bad)
<1>1. m \in Bad /\ \A n \in Bad : m <= n
  <2>1. Bad \subseteq Nat
    OBVIOUS
  <2> HIDE DEF Bad
  <2> QED BY <2>1, MinOfNats
<1>2. m \in 0..N
  BY <1>1
<1>3. \A n \in 0..N : IsFiniteSet(Having(f, n, r)) /\ Cardinality(Having(f, n, r)) \in Nat
  BY FS_Subset, FS_CardinalityType, SharingAssumption DEF Having
<1>4. m # 0
  BY <1>1, <1>3
<1> HIDE DEF m
<1>5. m - 1 \in 0..N /\ Good(m - 1)
  <2>1. m - 1 \in 0..N /\ ~(m <= m - 1)
    BY <1>2, <1>4
  <2>2. m - 1 \notin Bad
    <3> HIDE DEF Bad
    <3> QED BY <1>1, <2>1
  <2> QED BY <2>1, <2>2
<1>6. m \in 1..N
  BY <1>2, <1>4
<1> DEFINE A == Having(f, m - 1, r)
           B == Having(f, m, r)
<1>7. B = A \union GivenBy(A, edges, gone, r)
  BY <1>6, HavingGrows
<1>8. CASE Closed(A, edges, gone, r)
  <2>1. GivenBy(A, edges, gone, r) \subseteq A
    BY <1>8 DEF GivenBy, Closed
  <2>2. B = A
    BY <1>7, <2>1
  <2>3. Good(m)
    BY <1>8, <2>2
  <2> QED BY <1>1, <2>3
<1>9. CASE ~Closed(A, edges, gone, r) /\ Cardinality(A) >= m - 1
  <2>1. A # B
    BY <1>7, <1>9 DEF GivenBy, Closed
  <2>2. Cardinality(A) <= Cardinality(B) /\ Cardinality(A) # Cardinality(B)
    <3>1. IsFiniteSet(B) /\ A \in SUBSET B
      BY <1>2, <1>3, <1>7
    <3> HIDE DEF A, B
    <3> QED BY <2>1, <3>1, FS_Subset
  <2>3. Cardinality(A) \in Nat /\ Cardinality(B) \in Nat
    BY <1>2, <1>3, <1>5
  <2>4. Cardinality(B) >= m
    <3> HIDE DEF A, B
    <3> QED BY <1>2, <1>9, <2>2, <2>3
  <2> QED BY <1>1, <2>4
<1> QED BY <1>5, <1>8, <1>9

\* The loop finds the role that is defined by what reaches a user.
LEMMA LoopIsRole ==
    ASSUME NEW edges \in Graphs, NEW gone
    PROVE  computeEffectiveRoles(edges, gone) = [u \in Users |-> Role(u, edges, gone)]
<1> DEFINE N == Cardinality(Users)
<1>1. N \in Nat
  BY FS_CardinalityType, SharingAssumption
<1>2. PICK f : /\ Passes(f, N, edges, gone)
               /\ computeEffectiveRoles(edges, gone) = f[N]
  BY <1>1, LoopIsPasses
<1> HIDE DEF N
<1>3. f[N] \in [Users -> 0..2]
  BY <1>1, <1>2, PassesAreTyped
<1>4. ASSUME NEW r \in Ranks
      PROVE  Closed(Having(f, N, r), edges, gone, r)
  <2>1. CASE Cardinality(Having(f, N, r)) >= N
    <3>1. Having(f, N, r) \in SUBSET Users
      BY DEF Having
    <3>2. /\ Cardinality(Having(f, N, r)) \in Nat
          /\ Cardinality(Having(f, N, r)) <= N
          /\ N = Cardinality(Having(f, N, r)) => Users = Having(f, N, r)
      BY <3>1, FS_Subset, FS_CardinalityType, SharingAssumption DEF N
    <3>3. Users = Having(f, N, r)
      BY <1>1, <2>1, <3>2
    <3> QED BY <3>3 DEF Closed
  <2> QED BY <1>1, <1>2, <2>1, PassesCloseOrGrow
<1>5. ASSUME NEW u \in Users, NEW r \in Ranks
      PROVE  f[N][u] >= r <=> Reaches(u, edges, gone, r)
  <2>1. ASSUME f[N][u] >= r, NEW S \in SUBSET (Users \ {u}), Closed(S, edges, gone, r)
        PROVE  FALSE
    <3>1. Having(f, N, r) \subseteq S
      BY <1>1, <1>2, <2>1, ClosedHoldsAll
    <3> QED BY <2>1, <3>1 DEF Having
  <2>2. ASSUME ~(f[N][u] >= r) PROVE ~Reaches(u, edges, gone, r)
    <3>1. Having(f, N, r) \in SUBSET (Users \ {u})
      BY <2>2 DEF Having
    <3> QED BY <1>4, <3>1 DEF Reaches
  <2> QED BY <2>1, <2>2 DEF Reaches
<1>6. ASSUME NEW u \in Users
      PROVE  f[N][u] = Role(u, edges, gone)
  <2>1. /\ Role(u, edges, gone) \in {0, 1, 2}
        /\ \A r \in Ranks : r <= Role(u, edges, gone) <=> Reaches(u, edges, gone, r)
    BY RoleIsReach DEF use, build
  <2>2. f[N][u] \in 0..2
    BY <1>3
  <2>3. \A r \in {1, 2} : f[N][u] >= r <=> r <= Role(u, edges, gone)
    BY <1>5, <2>1 DEF Ranks, use, build
  <2> QED BY <2>1, <2>2, <2>3
<1> QED BY <1>2, <1>3, <1>6

\* The loop of computeEffectiveRoles() ends with the best role that is reachable
\* from the owner, for every graph of grants: chains, diamonds and cycles.
THEOREM LoopFinds == Spec => []LoopFindsRoles
<1>1. IInv => LoopFindsRoles
  <2> SUFFICES ASSUME IInv PROVE LoopFindsRoles
    OBVIOUS
  <2>1. addedBy \in Graphs
    BY GraphIsTyped DEF IInv
  <2> QED BY <2>1, LoopIsRole DEF LoopFindsRoles, RolesNow, RoleOf
<1> QED BY <1>1, Invariance, PTL

-----------------------------------------------------------------------------
(* The changes of a chat: what they are in the log, and what the rest of   *)
(* its state says of them.                                                 *)

Messages == [type : Types, made : SUBSET Gadgets, code : BOOLEAN,
             byUser : BOOLEAN, mark : Nat]

\* The changes on which a log of n messages leaves the decision open, those
\* of them with code, and the code that it accepts.
Pending(l, n) ==
    {s \in 1..n : l[s].type = "changes" /\ Fate(l, 1, n, s) = "proposed"}

OpenIn(l, n) == {s \in Pending(l, n) : l[s].code}

AcceptedIn(l, n) ==
    {s \in 1..n : l[s].type = "changes" /\ l[s].code /\ Fate(l, 1, n, s) = "merge"}

\* A merge names an earlier message, and takes all code that is proposed.
MergesTakeAll(l) ==
    \A m \in 1..Len(l) : l[m].type = "merge" =>
        l[m].mark < m /\ \A s \in OpenIn(l, m - 1) : s <= l[m].mark

\* A checkpoint has what the messages before it proposed and accepted.
ExactCheckpoints(l, cps) ==
    \A c \in cps :
        /\ c.to \in 2..Len(l)
        /\ c.proposed = OpenIn(l, c.to - 1)
        /\ c.accepted = AcceptedIn(l, c.to - 1)

\* No revert reaches back behind a checkpoint that it follows.
RevertsStayBehind(l, cps) ==
    \A c \in cps : \A s \in c.to..Len(l) :
        l[s].type = "revert" => l[s].mark >= c.to

LogInv(l, to, cps, cd) ==
    /\ l \in Seq(Messages) /\ Len(l) > 0
    /\ \A s \in 1..Len(l) : l[s].type = "revert" => l[s].mark > 0
    /\ MergesTakeAll(l)
    /\ ExactCheckpoints(l, cps)
    /\ RevertsStayBehind(l, cps)
    /\ to = 1 \/ \E c \in cps : c.to = to
    /\ cd = AcceptedIn(l, Len(l))

\* A stamped gadget is in a change that is still to be decided about.
GadgetInv(l, reg) ==
    \A g \in Gadgets : Stamped(reg, g) =>
        reg[g].seq \in Pending(l, Len(l)) /\ g \in l[reg[g].seq].made

FlagInv(l, reg, proposed) ==
    OpenIn(l, Len(l)) # {} \/ (\E g \in Gadgets : Stamped(reg, g)) => proposed

-----------------------------------------------------------------------------
(* Fates.                                                                  *)

\* None of the messages from lo to hi settles the batch at `at`.
Unsettled(l, lo, hi, at) == \A q \in lo..hi : q > at => ~Settles(l[q], at)

\* s is the first of the messages from lo on that settles it.
Decides(l, lo, s, at) ==
    /\ s >= lo /\ s > at
    /\ Settles(l[s], at)
    /\ Unsettled(l, lo, s - 1, at)

LEMMA SettlerTypes ==
    ASSUME NEW l, NEW s, NEW at, Settles(l[s], at)
    PROVE  l[s].type \in {"merge", "revert"}
BY DEF Settles

\* A batch that no message settles is still proposed.
LEMMA UnsettledIsProposed ==
    ASSUME NEW l, NEW lo \in Nat, NEW hi \in Int, NEW at \in Nat,
           Unsettled(l, lo, hi, at)
    PROVE  Fate(l, lo, hi, at) = "proposed"
BY DEF Unsettled, Fate

\* The first message that settles a batch has it its way.
LEMMA DecidedIsDecided ==
    ASSUME NEW l, NEW lo \in Nat, NEW hi \in Nat, NEW at \in Nat,
           NEW s \in lo..hi, Decides(l, lo, s, at)
    PROVE  Fate(l, lo, hi, at) = l[s].type
<1> DEFINE settling == {seq \in lo..hi : seq > at /\ Settles(l[seq], at)}
<1>1. s \in settling /\ settling \subseteq Nat
  BY DEF Decides
<1>2. Min(settling) \in settling /\ Min(settling) <= s
  BY <1>1, MinOfNats
<1>3. Min(settling) = s
  BY <1>2 DEF Decides, Unsettled
<1> QED
  BY <1>1, <1>3 DEF Fate

\* There is such a message unless the batch is still proposed.
LEMMA SomethingDecides ==
    ASSUME NEW l, NEW lo \in Nat, NEW hi \in Int, NEW at \in Nat,
           ~ Unsettled(l, lo, hi, at)
    PROVE  \E s \in lo..hi : Decides(l, lo, s, at)
<1> DEFINE settling == {seq \in lo..hi : seq > at /\ Settles(l[seq], at)}
<1>1. settling # {} /\ settling \subseteq Nat
  BY DEF Unsettled
<1>2. Min(settling) \in settling /\ \A q \in settling : Min(settling) <= q
  BY <1>1, MinOfNats
<1> QED
  BY <1>2 DEF Decides, Unsettled

LEMMA ProposedIsUnsettled ==
    ASSUME NEW l, NEW lo \in Nat, NEW hi \in Nat, NEW at \in Nat
    PROVE  Fate(l, lo, hi, at) = "proposed" <=> Unsettled(l, lo, hi, at)
<1>1. CASE Unsettled(l, lo, hi, at)
  BY <1>1, UnsettledIsProposed
<1>2. CASE ~ Unsettled(l, lo, hi, at)
  <2>1. PICK s \in lo..hi : Decides(l, lo, s, at)
    BY <1>2, SomethingDecides
  <2>2. Fate(l, lo, hi, at) = l[s].type
    BY <2>1, DecidedIsDecided
  <2> QED
    BY <1>2, <2>1, <2>2 DEF Decides, Settles
<1> QED
  BY <1>1, <1>2

\* Only the messages after a batch matter.
LEMMA LaterDecides ==
    ASSUME NEW l, NEW lo \in Nat, NEW lo2 \in Nat, NEW hi \in Nat, NEW at \in Nat,
           lo <= at + 1, lo2 <= at + 1
    PROVE  Fate(l, lo, hi, at) = Fate(l, lo2, hi, at)
<1>1. {seq \in lo..hi : seq > at /\ Settles(l[seq], at)}
        = {seq \in lo2..hi : seq > at /\ Settles(l[seq], at)}
  OBVIOUS
<1> QED
  BY <1>1 DEF Fate

\* Logs that agree on the messages have the same fates.
LEMMA SameFate ==
    ASSUME NEW l, NEW k, NEW lo \in Nat, NEW hi \in Int, NEW at \in Nat,
           \A q \in lo..hi : l[q] = k[q]
    PROVE  Fate(l, lo, hi, at) = Fate(k, lo, hi, at)
<1> DEFINE L == {seq \in lo..hi : seq > at /\ Settles(l[seq], at)}
           K == {seq \in lo..hi : seq > at /\ Settles(k[seq], at)}
<1>1. L = K /\ L \subseteq Nat
  OBVIOUS
<1>2. CASE L = {}
  BY <1>1, <1>2 DEF Fate
<1>3. CASE L # {}
  <2>1. Min(L) \in L
    BY <1>1, <1>3, MinOfNats
  <2>2. l[Min(L)] = k[Min(K)]
    BY <1>1, <2>1
  <2> QED
    BY <1>1, <1>3, <2>2 DEF Fate
<1> QED
  BY <1>2, <1>3

\* A message more settles what was proposed, or nothing.
LEMMA NextFate ==
    ASSUME NEW l, NEW n \in Nat, NEW at \in 1..n
    PROVE  Fate(l, 1, n + 1, at) =
             IF Fate(l, 1, n, at) # "proposed" THEN Fate(l, 1, n, at)
             ELSE IF Settles(l[n + 1], at) THEN l[n + 1].type ELSE "proposed"
<1>1. CASE ~ Unsettled(l, 1, n, at)
  <2>1. PICK s \in 1..n : Decides(l, 1, s, at)
    BY <1>1, SomethingDecides
  <2>2. Fate(l, 1, n, at) = l[s].type /\ Fate(l, 1, n + 1, at) = l[s].type
    BY <2>1, DecidedIsDecided
  <2> QED
    BY <2>1, <2>2, SettlerTypes DEF Decides
<1>2. CASE Unsettled(l, 1, n, at) /\ Settles(l[n + 1], at)
  <2>1. Decides(l, 1, n + 1, at)
    BY <1>2 DEF Decides
  <2>2. Fate(l, 1, n + 1, at) = l[n + 1].type
    BY <2>1, DecidedIsDecided
  <2> QED
    BY <1>2, <2>2, ProposedIsUnsettled
<1>3. CASE Unsettled(l, 1, n, at) /\ ~Settles(l[n + 1], at)
  <2>1. Unsettled(l, 1, n + 1, at)
    BY <1>3 DEF Unsettled
  <2> QED
    BY <1>3, <2>1, UnsettledIsProposed
<1> QED
  BY <1>1, <1>2, <1>3

\* A fate that is decided stays.
LEMMA FateStays ==
    ASSUME NEW l, NEW n \in Nat, NEW hi \in Nat, n <= hi, NEW at \in Nat,
           Fate(l, 1, n, at) # "proposed"
    PROVE  Fate(l, 1, hi, at) = Fate(l, 1, n, at)
<1>1. PICK s \in 1..n : Decides(l, 1, s, at)
  BY UnsettledIsProposed, SomethingDecides
<1>2. s \in 1..hi
  OBVIOUS
<1>3. Fate(l, 1, n, at) = l[s].type /\ Fate(l, 1, hi, at) = l[s].type
  BY <1>1, <1>2, DecidedIsDecided
<1> QED
  BY <1>3

-----------------------------------------------------------------------------
(* What is proposed and what is accepted in a log that grows.              *)

LEMMA MessagesAreTyped ==
    ASSUME NEW l \in Seq(Messages), NEW s \in 1..Len(l)
    PROVE  /\ l[s] \in Messages
           /\ l[s].type \in Types /\ l[s].made \subseteq Gadgets
           /\ l[s].code \in BOOLEAN /\ l[s].mark \in Nat
<1>1. l[s] \in Messages
  OBVIOUS
<1> QED
  BY <1>1 DEF Messages

LEMMA Appended ==
    ASSUME NEW l \in Seq(Messages), NEW m \in Messages
    PROVE  /\ Append(l, m) \in Seq(Messages)
           /\ Len(Append(l, m)) = Len(l) + 1 /\ Len(l) \in Nat
           /\ \A s \in 1..Len(l) : Append(l, m)[s] = l[s]
           /\ Append(l, m)[Len(l) + 1] = m
OBVIOUS

\* What is proposed or accepted in a prefix does not depend on what follows.
LEMMA SamePrefix ==
    ASSUME NEW l, NEW k, NEW n \in Int, \A q \in 1..n : l[q] = k[q]
    PROVE  /\ Pending(l, n) = Pending(k, n)
           /\ OpenIn(l, n) = OpenIn(k, n)
           /\ AcceptedIn(l, n) = AcceptedIn(k, n)
<1>1. \A s \in 1..n : Fate(l, 1, n, s) = Fate(k, 1, n, s)
  BY SameFate
<1>2. Pending(l, n) = Pending(k, n)
  BY <1>1 DEF Pending
<1> QED
  BY <1>1, <1>2 DEF Pending, OpenIn, AcceptedIn

\* The last message of a prefix is not settled in it.
LEMMA LastIsProposed ==
    ASSUME NEW l, NEW n \in Nat
    PROVE  Fate(l, 1, n, n) = "proposed"
BY UnsettledIsProposed DEF Unsettled

\* What the next message does to what is proposed and accepted.
LEMMA NextIsChange ==
    ASSUME NEW l, NEW n \in Nat, l[n + 1].type = "changes"
    PROVE  /\ Pending(l, n + 1) = Pending(l, n) \union {n + 1}
           /\ OpenIn(l, n + 1) = OpenIn(l, n) \union
                                  (IF l[n + 1].code THEN {n + 1} ELSE {})
           /\ AcceptedIn(l, n + 1) = AcceptedIn(l, n)
<1>1. \A s \in 1..n : Fate(l, 1, n + 1, s) =
          IF Fate(l, 1, n, s) # "proposed" THEN Fate(l, 1, n, s)
          ELSE IF Settles(l[n + 1], s) THEN l[n + 1].type ELSE "proposed"
  BY NextFate
<1>2. Fate(l, 1, n + 1, n + 1) = "proposed"
  BY LastIsProposed
<1>3. 1..n + 1 = (1..n) \union {n + 1} /\ n + 1 \notin 1..n
  OBVIOUS
<1>4. \A s \in 1..n : Fate(l, 1, n + 1, s) = Fate(l, 1, n, s)
  BY <1>1 DEF Settles
<1> QED
  BY <1>2, <1>3, <1>4 DEF Pending, OpenIn, AcceptedIn

LEMMA NextIsNoChange ==
    ASSUME NEW l, NEW n \in Nat, NEW m, l[n + 1] = m, m.type # "changes"
    PROVE  /\ Pending(l, n + 1) = {s \in Pending(l, n) : ~Settles(m, s)}
           /\ OpenIn(l, n + 1) = {s \in OpenIn(l, n) : ~Settles(m, s)}
           /\ m.type = "merge" => AcceptedIn(l, n + 1) =
                 AcceptedIn(l, n) \union {s \in OpenIn(l, n) : Settles(m, s)}
           /\ m.type # "merge" => AcceptedIn(l, n + 1) = AcceptedIn(l, n)
<1>1. \A s \in 1..n : Fate(l, 1, n + 1, s) =
          IF Fate(l, 1, n, s) # "proposed" THEN Fate(l, 1, n, s)
          ELSE IF Settles(m, s) THEN m.type ELSE "proposed"
  BY NextFate
<1>2. Fate(l, 1, n + 1, n + 1) = "proposed"
  BY LastIsProposed
<1>3. 1..n + 1 = (1..n) \union {n + 1} /\ n + 1 \notin 1..n
  OBVIOUS
<1>4. \A s \in 1..n : Settles(m, s) => m.type # "proposed"
  BY DEF Settles
<1>5. Pending(l, n + 1) = {s \in Pending(l, n) : ~Settles(m, s)}
  BY <1>1, <1>3, <1>4 DEF Pending
<1>6. OpenIn(l, n + 1) = {s \in OpenIn(l, n) : ~Settles(m, s)}
  BY <1>3, <1>5 DEF Pending, OpenIn
<1>7. ASSUME NEW s \in 1..n
      PROVE  Fate(l, 1, n + 1, s) = "merge" <=>
               \/ Fate(l, 1, n, s) = "merge"
               \/ /\ Fate(l, 1, n, s) = "proposed" /\ Settles(m, s)
                  /\ m.type = "merge"
  BY <1>1
<1> QED
  BY <1>3, <1>5, <1>6, <1>7 DEF Pending, OpenIn, AcceptedIn

\* The parts of a fold: the batches of the messages, and those of a fate.
ChangesIn(l, lo, hi) == {seq \in lo..hi : l[seq].type = "changes"}

BatchesIn(l, lo, hi) ==
    {Batch(seq, IF l[seq].code THEN {seq} ELSE {}) : seq \in ChangesIn(l, lo, hi)}

OfFate(l, lo, hi, batches, fate) == {b \in batches : Fate(l, lo, hi, b.at) = fate}

CodeOfFate(l, lo, hi, fate) ==
    {s \in ChangesIn(l, lo, hi) : l[s].code /\ Fate(l, lo, hi, s) = fate}

LEMMA FoldIs ==
    ASSUME NEW l, NEW lo, NEW hi, NEW seed
    PROVE  LET fold == foldProposedChanges(l, lo, hi, seed)
               batches == seed \union BatchesIn(l, lo, hi)
           IN  /\ fold.proposed = OfFate(l, lo, hi, batches, "proposed")
               /\ fold.accepted = UpdatesOf(OfFate(l, lo, hi, batches, "merge"))
BY DEF foldProposedChanges, BatchesIn, ChangesIn, OfFate

\* The updates of the batches that a fold leaves, or accepts.
LEMMA FoldUpdates ==
    ASSUME NEW l, NEW lo, NEW hi, NEW seed, NEW fate
    PROVE  UpdatesOf(OfFate(l, lo, hi, seed \union BatchesIn(l, lo, hi), fate))
             = UpdatesOf(OfFate(l, lo, hi, seed, fate)) \union CodeOfFate(l, lo, hi, fate)
<1> DEFINE tail == OfFate(l, lo, hi, BatchesIn(l, lo, hi), fate)
<1>1. UpdatesOf(OfFate(l, lo, hi, seed \union BatchesIn(l, lo, hi), fate))
        = UpdatesOf(OfFate(l, lo, hi, seed, fate)) \union UpdatesOf(tail)
  BY DEF UpdatesOf, OfFate
<1>2. ASSUME NEW s \in UpdatesOf(tail)
      PROVE  s \in CodeOfFate(l, lo, hi, fate)
  <2>1. PICK b \in BatchesIn(l, lo, hi) : Fate(l, lo, hi, b.at) = fate /\ s \in b.updates
    BY <1>2 DEF UpdatesOf, OfFate
  <2>2. PICK seq \in ChangesIn(l, lo, hi) : b = Batch(seq, IF l[seq].code THEN {seq} ELSE {})
    BY <2>1 DEF BatchesIn
  <2> QED
    BY <2>1, <2>2 DEF Batch, CodeOfFate
<1>3. ASSUME NEW s \in CodeOfFate(l, lo, hi, fate)
      PROVE  s \in UpdatesOf(tail)
  <2>1. Batch(s, {s}) \in BatchesIn(l, lo, hi)
    BY <1>3 DEF BatchesIn, CodeOfFate
  <2>2. Batch(s, {s}).at = s /\ s \in Batch(s, {s}).updates
    BY DEF Batch
  <2> QED
    BY <1>3, <2>1, <2>2 DEF UpdatesOf, OfFate, CodeOfFate
<1> QED
  BY <1>1, <1>2, <1>3

\* The whole log, by the functions of the code.
LEMMA FullIsFates ==
    ASSUME NEW l, NEW n \in Nat
    PROVE  LET full == foldProposedChanges(l, 1, n, {})
           IN  /\ full.accepted = AcceptedIn(l, n)
               /\ UpdatesOf(full.proposed) = OpenIn(l, n)
               /\ {b.at : b \in full.proposed} = Pending(l, n)
<1> DEFINE full == foldProposedChanges(l, 1, n, {})
<1>1. /\ full.proposed = OfFate(l, 1, n, {} \union BatchesIn(l, 1, n), "proposed")
      /\ full.accepted = UpdatesOf(OfFate(l, 1, n, {} \union BatchesIn(l, 1, n), "merge"))
  BY FoldIs
<1>2. \A fate : UpdatesOf(OfFate(l, 1, n, {}, fate)) = {}
  BY DEF UpdatesOf, OfFate
<1>3. ASSUME NEW fate
      PROVE  UpdatesOf(OfFate(l, 1, n, {} \union BatchesIn(l, 1, n), fate))
               = CodeOfFate(l, 1, n, fate)
  BY <1>2, FoldUpdates
<1> HIDE DEF full
<1>4. /\ full.accepted = CodeOfFate(l, 1, n, "merge")
      /\ UpdatesOf(full.proposed) = CodeOfFate(l, 1, n, "proposed")
  BY <1>1, <1>3
<1>5. CodeOfFate(l, 1, n, "merge") = AcceptedIn(l, n)
  BY DEF CodeOfFate, ChangesIn, AcceptedIn
<1>6. CodeOfFate(l, 1, n, "proposed") = OpenIn(l, n)
  BY DEF CodeOfFate, ChangesIn, OpenIn, Pending
<1>7. {b.at : b \in full.proposed} = Pending(l, n)
  <2>1. ASSUME NEW b \in full.proposed
        PROVE  b.at \in Pending(l, n)
    <3>1. b \in BatchesIn(l, 1, n) /\ Fate(l, 1, n, b.at) = "proposed"
      BY <1>1 DEF OfFate
    <3> QED
      BY <3>1 DEF BatchesIn, ChangesIn, Pending, Batch
  <2>2. ASSUME NEW s \in Pending(l, n)
        PROVE  \E b \in full.proposed : b.at = s
    <3> DEFINE b == Batch(s, IF l[s].code THEN {s} ELSE {})
    <3>1. b \in BatchesIn(l, 1, n) /\ Fate(l, 1, n, s) = "proposed"
      BY DEF Pending, BatchesIn, ChangesIn
    <3>2. b.at = s
      BY DEF Batch
    <3>3. b \in full.proposed
      BY <1>1, <3>1, <3>2 DEF OfFate
    <3> QED
      BY <3>2, <3>3
  <2> QED
    BY <2>1, <2>2
<1> QED
  BY <1>4, <1>5, <1>6, <1>7 DEF full

-----------------------------------------------------------------------------
(* What a checkpoint and the tail after it tell.                           *)

LEMMA CheckpointIsExact ==
    ASSUME NEW l, NEW to, NEW cps, NEW cd, LogInv(l, to, cps, cd)
    PROVE  /\ to \in 1..Len(l) /\ Len(l) \in Nat
           /\ CheckpointAt(cps, to).proposed = OpenIn(l, to - 1)
           /\ CheckpointAt(cps, to).accepted = AcceptedIn(l, to - 1)
<1>1. Len(l) \in Nat /\ Len(l) > 0
  BY DEF LogInv
<1>2. CASE \E c \in cps : c.to = to
  <2>1. PICK c \in cps : c = CheckpointAt(cps, to) /\ c.to = to
    BY <1>2 DEF CheckpointAt
  <2>2. /\ c.to \in 2..Len(l)
        /\ c.proposed = OpenIn(l, c.to - 1)
        /\ c.accepted = AcceptedIn(l, c.to - 1)
    BY <2>1 DEF LogInv, ExactCheckpoints
  <2>3. to \in 2..Len(l) /\ to - 1 = c.to - 1
    BY <2>1, <2>2
  <2>4. to \in 1..Len(l)
    BY <1>1, <2>3
  <2> QED
    BY <1>1, <2>1, <2>2, <2>3, <2>4
<1>3. CASE ~ \E c \in cps : c.to = to
  <2>1. to = 1
    BY <1>3 DEF LogInv
  <2>2. CheckpointAt(cps, to) = [to |-> 1, accepted |-> {}, proposed |-> {}]
    BY <1>3 DEF CheckpointAt
  <2>3. OpenIn(l, 0) = {} /\ AcceptedIn(l, 0) = {}
    BY DEF OpenIn, AcceptedIn, Pending
  <2>4. to - 1 = 0 /\ to \in 1..Len(l)
    BY <1>1, <2>1
  <2> QED
    BY <1>1, <2>2, <2>3, <2>4
<1> QED
  BY <1>2, <1>3

LEMMA RevertsSpareThePrefix ==
    ASSUME NEW l, NEW to, NEW cps, NEW cd, LogInv(l, to, cps, cd)
    PROVE  \A s \in to..Len(l) : l[s].type = "revert" => l[s].mark >= to
<1>1. to \in 1..Len(l) /\ Len(l) \in Nat
  BY CheckpointIsExact
<1>2. CASE \E c \in cps : c.to = to
  BY <1>2 DEF LogInv, RevertsStayBehind
<1>3. CASE to = 1
  <2>1. ASSUME NEW s \in 1..Len(l), l[s].type = "revert"
        PROVE  l[s].mark >= 1
    <3>1. l[s].mark > 0 /\ l[s].mark \in Nat
      BY <2>1, MessagesAreTyped DEF LogInv
    <3> QED
      BY <3>1
  <2> QED
    BY <1>3, <2>1
<1> QED
  BY <1>2, <1>3 DEF LogInv

\* A change of the compacted prefix is only ever settled by a merge.
LEMMA TailAcceptsPrefix ==
    ASSUME NEW l, NEW to, NEW cps, NEW cd, LogInv(l, to, cps, cd),
           NEW n \in to - 1..Len(l), NEW s \in Pending(l, to - 1)
    PROVE  /\ Fate(l, 1, n, s) \in {"proposed", "merge"}
           /\ \A q \in to..n : Settles(l[q], s) => l[q].type = "merge"
<1>1. to \in 1..Len(l) /\ Len(l) \in Nat
  BY CheckpointIsExact
<1>2. s \in 1..to - 1 /\ Unsettled(l, 1, to - 1, s)
  BY <1>1, ProposedIsUnsettled DEF Pending
<1>3. ASSUME NEW q \in to..n, Settles(l[q], s)
      PROVE  l[q].type = "merge"
  <2>1. l[q].type = "revert" => l[q].mark >= to /\ l[q].mark \in Nat
    <3>1. l[q].mark \in Nat
      BY <1>1, MessagesAreTyped DEF LogInv
    <3> QED
      BY <1>1, <3>1, RevertsSpareThePrefix
  <2> QED
    BY <1>1, <1>2, <1>3, <2>1 DEF Settles
<1>4. ASSUME Fate(l, 1, n, s) # "proposed"
      PROVE  Fate(l, 1, n, s) = "merge"
  <2>1. PICK q \in 1..n : Decides(l, 1, q, s)
    BY <1>1, <1>2, <1>4, UnsettledIsProposed, SomethingDecides
  <2>2. q \in to..n /\ Settles(l[q], s)
    BY <1>1, <1>2, <2>1 DEF Decides, Unsettled
  <2>3. Fate(l, 1, n, s) = l[q].type
    BY <1>1, <1>2, <2>1, DecidedIsDecided
  <2> QED
    BY <1>3, <2>2, <2>3
<1> QED
  BY <1>3, <1>4

\* If one of its changes is still proposed, then so is the prefix.
LEMMA PrefixIsProposed ==
    ASSUME NEW l, NEW to, NEW cps, NEW cd, LogInv(l, to, cps, cd),
           NEW s \in Pending(l, Len(l)), s < to
    PROVE  /\ Fate(l, to, Len(l), to - 1) = "proposed"
           /\ s \in Pending(l, to - 1)
<1>1. to \in 1..Len(l) /\ Len(l) \in Nat
  BY CheckpointIsExact
<1>2. s \in 1..to - 1 /\ Unsettled(l, 1, Len(l), s) /\ l[s].type = "changes"
  BY <1>1, ProposedIsUnsettled DEF Pending
<1>3. Unsettled(l, 1, to - 1, s)
  BY <1>1, <1>2 DEF Unsettled
<1>4. s \in Pending(l, to - 1)
  BY <1>1, <1>2, <1>3, UnsettledIsProposed DEF Pending
<1>5. ASSUME NEW q \in to..Len(l), Settles(l[q], to - 1)
      PROVE  FALSE
  <2>1. l[q].mark \in Nat
    BY <1>1, MessagesAreTyped DEF LogInv
  <2>2. ~ Settles(l[q], s)
    BY <1>1, <1>2 DEF Unsettled
  <2>3. l[q].type = "revert" => l[q].mark >= to
    BY <1>1, RevertsSpareThePrefix
  <2> QED
    BY <1>1, <1>2, <1>5, <2>1, <2>2, <2>3 DEF Settles
<1>6. Unsettled(l, to, Len(l), to - 1)
  BY <1>5 DEF Unsettled
<1> QED
  BY <1>1, <1>4, <1>6, UnsettledIsProposed

\* The fate of a change of the tail does not depend on the prefix.
LEMMA TailFates ==
    ASSUME NEW l, NEW to \in Nat \ {0}, NEW n \in Nat, NEW fate
    PROVE  CodeOfFate(l, to, n, fate)
             = {s \in to..n : l[s].type = "changes" /\ l[s].code /\ Fate(l, 1, n, s) = fate}
<1>1. \A s \in to..n : Fate(l, to, n, s) = Fate(l, 1, n, s)
  BY LaterDecides
<1> QED
  BY <1>1 DEF CodeOfFate, ChangesIn

\* What the batches on offer have to do with what is proposed.
Seed(l, to, reg) ==
    IF to > 1 /\ (OpenIn(l, to - 1) # {} \/ \E g \in Gadgets : Stamped(reg, g) /\ reg[g].seq < to)
      THEN {Batch(to - 1, OpenIn(l, to - 1))} ELSE {}

LEMMA OfferedIs ==
    ASSUME NEW l, NEW to, NEW cps, NEW cd, LogInv(l, to, cps, cd), NEW reg
    PROVE  getProposedChanges(l, to, cps, reg)
             = OfFate(l, to, Len(l), Seed(l, to, reg) \union BatchesIn(l, to, Len(l)),
                      "proposed")
<1>1. CheckpointAt(cps, to).proposed = OpenIn(l, to - 1)
  BY CheckpointIsExact
<1>2. getProposedChanges(l, to, cps, reg)
        = foldProposedChanges(l, to, Len(l), Seed(l, to, reg)).proposed
  BY <1>1, Zenon DEF getProposedChanges, Seed
<1> QED
  BY <1>2, FoldIs

\* Every batch on offer is in the log; its code is proposed or was accepted,
\* and none of it comes after the batch.
LEMMA OfferedIsInLog ==
    ASSUME NEW l, NEW to, NEW cps, NEW cd, LogInv(l, to, cps, cd), NEW reg,
           NEW b \in getProposedChanges(l, to, cps, reg)
    PROVE  /\ b.at \in 1..Len(l)
           /\ \A s \in b.updates :
                 s <= b.at /\ s \in OpenIn(l, Len(l)) \union AcceptedIn(l, Len(l))
<1>1. to \in 1..Len(l) /\ Len(l) \in Nat
  BY CheckpointIsExact
<1>2. b \in Seed(l, to, reg) \union BatchesIn(l, to, Len(l))
      /\ Fate(l, to, Len(l), b.at) = "proposed"
  BY OfferedIs DEF OfFate
<1>3. CASE b \in Seed(l, to, reg)
  <2>1. b.at = to - 1 /\ b.updates = OpenIn(l, to - 1) /\ to > 1
    BY <1>3 DEF Seed, Batch
  <2>2. ASSUME NEW s \in OpenIn(l, to - 1)
        PROVE  s <= to - 1 /\ s \in OpenIn(l, Len(l)) \union AcceptedIn(l, Len(l))
    <3>1. s \in Pending(l, to - 1) /\ s \in 1..to - 1 /\ l[s].type = "changes" /\ l[s].code
      BY DEF OpenIn, Pending
    <3>2. Fate(l, 1, Len(l), s) \in {"proposed", "merge"}
      BY <1>1, <3>1, TailAcceptsPrefix
    <3> QED
      BY <1>1, <3>1, <3>2 DEF OpenIn, Pending, AcceptedIn
  <2> QED
    BY <1>1, <2>1, <2>2
<1>4. CASE b \in BatchesIn(l, to, Len(l))
  <2>1. PICK s \in ChangesIn(l, to, Len(l)) : b = Batch(s, IF l[s].code THEN {s} ELSE {})
    BY <1>4 DEF BatchesIn
  <2>2. b.at = s /\ b.updates = (IF l[s].code THEN {s} ELSE {}) /\ s \in to..Len(l)
        /\ l[s].type = "changes"
    BY <2>1 DEF Batch, ChangesIn
  <2>3. Fate(l, 1, Len(l), s) = "proposed"
    BY <1>1, <1>2, <2>2, LaterDecides
  <2> QED
    BY <1>1, <2>2, <2>3 DEF OpenIn, Pending
<1> QED
  BY <1>2, <1>3, <1>4

\* All that is proposed is on offer, in the batch at its own message or in
\* that of the prefix.
LEMMA OpenIsOffered ==
    ASSUME NEW l, NEW to, NEW cps, NEW cd, LogInv(l, to, cps, cd), NEW reg,
           NEW s \in Pending(l, Len(l)),
           l[s].code \/ (\E g \in Gadgets : Stamped(reg, g) /\ reg[g].seq = s)
    PROVE  \E b \in getProposedChanges(l, to, cps, reg) :
              /\ b.at = s \/ b.at = to - 1
              /\ l[s].code => s \in b.updates
<1>1. to \in 1..Len(l) /\ Len(l) \in Nat
  BY CheckpointIsExact
<1>2. s \in 1..Len(l) /\ l[s].type = "changes" /\ Fate(l, 1, Len(l), s) = "proposed"
  BY DEF Pending
<1>3. CASE s >= to
  <2> DEFINE b == Batch(s, IF l[s].code THEN {s} ELSE {})
  <2>1. b.at = s /\ b.updates = (IF l[s].code THEN {s} ELSE {})
    BY DEF Batch
  <2>2. b \in BatchesIn(l, to, Len(l))
    <3>1. s \in ChangesIn(l, to, Len(l))
      BY <1>1, <1>2, <1>3 DEF ChangesIn
    <3> QED
      BY <3>1 DEF BatchesIn
  <2>3. Fate(l, to, Len(l), s) = "proposed"
    BY <1>1, <1>2, <1>3, LaterDecides
  <2>4. b \in getProposedChanges(l, to, cps, reg)
    BY <2>1, <2>2, <2>3, OfferedIs DEF OfFate
  <2> QED
    BY <2>1, <2>4
<1>4. CASE s < to
  <2> DEFINE b == Batch(to - 1, OpenIn(l, to - 1))
  <2>1. b.at = to - 1 /\ b.updates = OpenIn(l, to - 1)
    BY DEF Batch
  <2>2. Fate(l, to, Len(l), to - 1) = "proposed" /\ s \in Pending(l, to - 1)
    BY <1>4, PrefixIsProposed
  <2>3. l[s].code => s \in OpenIn(l, to - 1)
    BY <2>2 DEF OpenIn
  <2>4. b \in Seed(l, to, reg)
    BY <1>1, <1>2, <1>4, <2>3 DEF Seed
  <2>5. b \in getProposedChanges(l, to, cps, reg)
    BY <2>1, <2>2, <2>4, OfferedIs DEF OfFate
  <2> QED
    BY <2>1, <2>3, <2>5
<1> QED
  BY <1>1, <1>2, <1>3, <1>4

\* So the chat says that something is proposed whenever it is recomputed.
LEMMA RecomputedIsRight ==
    ASSUME NEW l, NEW to, NEW cps, NEW cd, LogInv(l, to, cps, cd),
           NEW reg, GadgetInv(l, reg), NEW drafted
    PROVE  FlagInv(l, reg, drafted \/ getProposedChanges(l, to, cps, reg) # {})
<1>1. ASSUME NEW s \in OpenIn(l, Len(l))
      PROVE  getProposedChanges(l, to, cps, reg) # {}
  BY OpenIsOffered DEF OpenIn
<1>2. ASSUME NEW g \in Gadgets, Stamped(reg, g)
      PROVE  getProposedChanges(l, to, cps, reg) # {}
  BY <1>2, OpenIsOffered DEF GadgetInv
<1> QED
  BY <1>1, <1>2 DEF FlagInv

-----------------------------------------------------------------------------
(* The log grows.                                                          *)

\* An appended message, after which some of the checkpoints are left.
LEMMA LogGrows ==
    ASSUME NEW l, NEW to, NEW cps, NEW cd, LogInv(l, to, cps, cd),
           NEW m \in Messages,
           NEW left \in SUBSET cps, NEW to2, to2 = 1 \/ \E c \in left : c.to = to2,
           m.type = "merge" =>
               m.mark <= Len(l) /\ \A s \in OpenIn(l, Len(l)) : s <= m.mark,
           m.type = "revert" => m.mark > 0 /\ \A c \in left : m.mark >= c.to
    PROVE  LogInv(Append(l, m), to2, left, AcceptedIn(Append(l, m), Len(l) + 1))
<1> DEFINE k == Append(l, m)
           n == Len(l)
<1>1. n \in Nat /\ n > 0 /\ l \in Seq(Messages)
  BY DEF LogInv
<1>2. k \in Seq(Messages) /\ Len(k) = n + 1 /\ k[n + 1] = m
      /\ \A s \in 1..n : k[s] = l[s]
  BY <1>1, Appended
<1> HIDE DEF k
<1>3. \A p \in 0..n : OpenIn(k, p) = OpenIn(l, p) /\ AcceptedIn(k, p) = AcceptedIn(l, p)
  <2>1. ASSUME NEW p \in 0..n
        PROVE  OpenIn(k, p) = OpenIn(l, p) /\ AcceptedIn(k, p) = AcceptedIn(l, p)
    <3>1. \A q \in 1..p : k[q] = l[q]
      BY <1>1, <1>2
    <3> QED
      BY <3>1, SamePrefix
  <2> QED
    BY <2>1
<1>4. \A s \in 1..n + 1 : k[s].type = "revert" => k[s].mark > 0
  <2>1. ASSUME NEW s \in 1..n + 1, k[s].type = "revert"
        PROVE  k[s].mark > 0
    <3>1. CASE s = n + 1
      BY <1>2, <2>1, <3>1
    <3>2. CASE s \in 1..n
      BY <1>2, <2>1, <3>2 DEF LogInv
    <3> QED
      BY <1>1, <3>1, <3>2
  <2> QED
    BY <2>1
<1>5. MergesTakeAll(k)
  <2>1. ASSUME NEW s \in 1..n + 1, k[s].type = "merge"
        PROVE  k[s].mark < s /\ \A q \in OpenIn(k, s - 1) : q <= k[s].mark
    <3>1. CASE s = n + 1
      <4>1. m.mark \in Nat
        BY DEF Messages
      <4>2. OpenIn(k, s - 1) = OpenIn(l, n)
        BY <1>1, <1>3, <3>1
      <4> QED
        BY <1>1, <1>2, <2>1, <3>1, <4>1, <4>2
    <3>2. CASE s \in 1..n
      <4>1. OpenIn(k, s - 1) = OpenIn(l, s - 1)
        BY <1>1, <1>3, <3>2
      <4> QED
        BY <1>2, <2>1, <3>2, <4>1 DEF LogInv, MergesTakeAll
    <3> QED
      BY <1>1, <3>1, <3>2
  <2> QED
    BY <1>2, <2>1 DEF MergesTakeAll
<1>6. ExactCheckpoints(k, left)
  <2>1. ASSUME NEW c \in left
        PROVE  /\ c.to \in 2..n + 1
               /\ c.proposed = OpenIn(k, c.to - 1)
               /\ c.accepted = AcceptedIn(k, c.to - 1)
    <3>1. /\ c.to \in 2..n
          /\ c.proposed = OpenIn(l, c.to - 1)
          /\ c.accepted = AcceptedIn(l, c.to - 1)
      BY DEF LogInv, ExactCheckpoints
    <3>2. c.to - 1 \in 0..n
      BY <1>1, <3>1
    <3> QED
      BY <1>1, <1>3, <3>1, <3>2
  <2> QED
    BY <1>2, <2>1 DEF ExactCheckpoints
<1>7. RevertsStayBehind(k, left)
  <2>1. ASSUME NEW c \in left, NEW s \in c.to..n + 1, k[s].type = "revert"
        PROVE  k[s].mark >= c.to
    <3>1. c.to \in 2..n
      BY DEF LogInv, ExactCheckpoints
    <3>2. CASE s = n + 1
      BY <1>2, <2>1, <3>2
    <3>3. CASE s \in c.to..n
      <4>1. k[s] = l[s]
        BY <1>2, <3>1, <3>3
      <4> QED
        BY <2>1, <3>3, <4>1 DEF LogInv, RevertsStayBehind
    <3> QED
      BY <1>1, <3>1, <3>2, <3>3
  <2> QED
    BY <1>2, <2>1 DEF RevertsStayBehind
<1> QED
  BY <1>1, <1>2, <1>4, <1>5, <1>6, <1>7 DEF LogInv, k

\* Messages that settle nothing
Plain == {m \in Messages : m.type \notin {"merge", "revert"}}

LEMMA PlainGrows ==
    ASSUME NEW l, NEW to, NEW cps, NEW cd, LogInv(l, to, cps, cd), NEW m \in Plain
    PROVE  /\ LogInv(Append(l, m), to, cps, cd)
           /\ Len(Append(l, m)) = Len(l) + 1
           /\ Append(l, m)[Len(l) + 1] = m
           /\ \A s \in 1..Len(l) : Append(l, m)[s] = l[s]
           /\ Pending(Append(l, m), Len(l) + 1) = Pending(l, Len(l)) \union
                                 (IF m.type = "changes" THEN {Len(l) + 1} ELSE {})
           /\ m.type # "changes" \/ ~m.code
                 => OpenIn(Append(l, m), Len(l) + 1) = OpenIn(l, Len(l))
<1> DEFINE k == Append(l, m)
           n == Len(l)
<1>1. n \in Nat /\ l \in Seq(Messages) /\ m \in Messages
  BY DEF LogInv, Plain
<1>2. Len(k) = n + 1 /\ k[n + 1] = m /\ \A s \in 1..n : k[s] = l[s]
  BY <1>1, Appended
<1>3. to = 1 \/ \E c \in cps : c.to = to
  BY DEF LogInv
<1>4. LogInv(k, to, cps, AcceptedIn(k, n + 1))
  BY <1>1, <1>3, LogGrows DEF Plain
<1> HIDE DEF k
<1>5. /\ Pending(k, n) = Pending(l, n)
      /\ OpenIn(k, n) = OpenIn(l, n)
      /\ AcceptedIn(k, n) = AcceptedIn(l, n)
  BY <1>1, <1>2, SamePrefix
<1>6. \A s : ~Settles(m, s)
  BY DEF Settles, Plain
<1>7. /\ Pending(k, n + 1) = Pending(l, n) \union
             (IF m.type = "changes" THEN {n + 1} ELSE {})
      /\ AcceptedIn(k, n + 1) = AcceptedIn(l, n)
      /\ m.type # "changes" \/ ~m.code => OpenIn(k, n + 1) = OpenIn(l, n)
  <2>1. CASE m.type = "changes"
    <3>1. /\ Pending(k, n + 1) = Pending(k, n) \union {n + 1}
          /\ OpenIn(k, n + 1) = OpenIn(k, n) \union (IF m.code THEN {n + 1} ELSE {})
          /\ AcceptedIn(k, n + 1) = AcceptedIn(k, n)
      BY <1>1, <1>2, <2>1, NextIsChange
    <3> QED
      BY <1>5, <2>1, <3>1
  <2>2. CASE m.type # "changes"
    <3>1. /\ Pending(k, n + 1) = {s \in Pending(k, n) : ~Settles(m, s)}
          /\ OpenIn(k, n + 1) = {s \in OpenIn(k, n) : ~Settles(m, s)}
          /\ AcceptedIn(k, n + 1) = AcceptedIn(k, n)
      BY <1>1, <1>2, <2>2, NextIsNoChange DEF Plain
    <3> QED
      BY <1>5, <1>6, <2>2, <3>1
  <2> QED
    BY <2>1, <2>2
<1>8. cd = AcceptedIn(l, n)
  BY DEF LogInv
<1> QED
  BY <1>2, <1>4, <1>7, <1>8 DEF k

\* Gadgets keep their stamps, or are stamped by the message itself.
LEMMA GadgetsGrow ==
    ASSUME NEW l, NEW to, NEW cps, NEW cd, LogInv(l, to, cps, cd),
           NEW m \in Plain, NEW reg, GadgetInv(l, reg), NEW reg2,
           \A g \in Gadgets : Stamped(reg2, g) =>
               \/ Stamped(reg, g) /\ reg2[g].seq = reg[g].seq
               \/ m.type = "changes" /\ reg2[g].seq = Len(l) + 1 /\ g \in m.made
    PROVE  GadgetInv(Append(l, m), reg2)
<1> DEFINE k == Append(l, m)
           n == Len(l)
<1>1. /\ Len(k) = n + 1 /\ k[n + 1] = m /\ \A s \in 1..n : k[s] = l[s]
      /\ Pending(k, n + 1) = Pending(l, n) \union
                                 (IF m.type = "changes" THEN {n + 1} ELSE {})
  BY PlainGrows
<1>2. Pending(l, n) \subseteq 1..n
  BY DEF Pending
<1> HIDE DEF k
<1>3. ASSUME NEW g \in Gadgets, Stamped(reg2, g)
      PROVE  reg2[g].seq \in Pending(k, n + 1) /\ g \in k[reg2[g].seq].made
  <2>1. CASE Stamped(reg, g) /\ reg2[g].seq = reg[g].seq
    BY <1>1, <1>2, <2>1 DEF GadgetInv
  <2>2. CASE m.type = "changes" /\ reg2[g].seq = n + 1 /\ g \in m.made
    BY <1>1, <2>2
  <2> QED
    BY <1>3, <2>1, <2>2
<1> QED
  BY <1>1, <1>3 DEF GadgetInv, k

\* A merge accepts all code that is proposed, and the code that it takes from
\* the batches on offer is just that.
LEMMA MergeGrows ==
    ASSUME NEW l, NEW to, NEW cps, NEW cd, LogInv(l, to, cps, cd),
           NEW found, GadgetInv(l, found), NEW through \in Nat,
           through <= Len(l), to - 1 <= through,
           \A s \in OpenIn(l, Len(l)) : s <= through
    PROVE  LET reg == Promoted(found, through)
               merged == {b \in getProposedChanges(l, to, cps, reg) : b.at <= through}
               k == Append(l, Mark("merge", through))
           IN  /\ LogInv(k, to, cps, cd \union UpdatesOf(merged))
               /\ GadgetInv(k, reg)
               /\ GadgetInv(l, reg)
               /\ \A g \in Gadgets : Stamped(reg, g) => Stamped(found, g)
<1> DEFINE reg == Promoted(found, through)
           merged == {b \in getProposedChanges(l, to, cps, reg) : b.at <= through}
           m == Mark("merge", through)
           k == Append(l, m)
           n == Len(l)
<1>1. n \in Nat /\ l \in Seq(Messages) /\ to \in 1..n
  BY CheckpointIsExact DEF LogInv
<1>2. m \in Messages /\ m.type = "merge" /\ m.mark = through
  BY DEF Mark, Message, Messages, Types
<1>3. Len(k) = n + 1 /\ k[n + 1] = m /\ \A s \in 1..n : k[s] = l[s]
  BY <1>1, <1>2, Appended
<1>4. LogInv(k, to, cps, AcceptedIn(k, n + 1))
  <2>1. to = 1 \/ \E c \in cps : c.to = to
    BY DEF LogInv
  <2> QED
    BY <1>1, <1>2, <2>1, LogGrows
<1> HIDE DEF k, m, reg
<1>5. \A s : Settles(m, s) <=> s <= through
  BY <1>2 DEF Settles
<1>6. /\ Pending(k, n) = Pending(l, n)
      /\ OpenIn(k, n) = OpenIn(l, n)
      /\ AcceptedIn(k, n) = AcceptedIn(l, n)
  <2>1. n \in Int /\ \A q \in 1..n : k[q] = l[q]
    BY <1>1, <1>3
  <2> HIDE DEF n
  <2> QED
    BY <2>1, SamePrefix
<1>7. /\ Pending(k, n + 1) = {s \in Pending(l, n) : ~(s <= through)}
      /\ AcceptedIn(k, n + 1) = AcceptedIn(l, n) \union OpenIn(l, n)
  <2>1. /\ Pending(k, n + 1) = {s \in Pending(k, n) : ~Settles(m, s)}
        /\ AcceptedIn(k, n + 1) = AcceptedIn(k, n) \union
               {s \in OpenIn(k, n) : Settles(m, s)}
    <3>1. n \in Nat /\ k[n + 1] = m /\ m.type # "changes"
      BY <1>1, <1>2, <1>3
    <3> HIDE DEF n
    <3> QED
      BY <1>2, <3>1, NextIsNoChange
  <2> QED
    BY <1>5, <1>6, <2>1
<1>8. UpdatesOf(merged) \subseteq AcceptedIn(l, n) \union OpenIn(l, n)
  <2>1. ASSUME NEW s \in UpdatesOf(merged)
        PROVE  s \in AcceptedIn(l, n) \union OpenIn(l, n)
    <3>1. PICK b \in getProposedChanges(l, to, cps, reg) : s \in b.updates
      BY <2>1 DEF UpdatesOf
    <3> QED
      BY <3>1, OfferedIsInLog
  <2> QED
    BY <2>1
<1>9. OpenIn(l, n) \subseteq UpdatesOf(merged)
  <2>1. ASSUME NEW s \in OpenIn(l, n)
        PROVE  s \in UpdatesOf(merged)
    <3>1. s \in Pending(l, n) /\ l[s].code
      BY DEF OpenIn
    <3>2. PICK b \in getProposedChanges(l, to, cps, reg) :
              (b.at = s \/ b.at = to - 1) /\ s \in b.updates
      BY <3>1, OpenIsOffered
    <3> QED
      BY <3>2 DEF UpdatesOf
  <2> QED
    BY <2>1
<1>10. cd \union UpdatesOf(merged) = AcceptedIn(k, n + 1)
  <2>1. cd = AcceptedIn(l, n)
    BY DEF LogInv
  <2> QED
    BY <1>7, <1>8, <1>9, <2>1
<1>11. ASSUME NEW g \in Gadgets, Stamped(reg, g)
       PROVE  Stamped(found, g) /\ reg[g] = found[g] /\ ~(found[g].seq <= through)
  BY <1>11 DEF reg, Promoted, Stamped
<1>12. Pending(l, n) \subseteq 1..n
  BY DEF Pending
<1>13. GadgetInv(l, reg)
  BY <1>11 DEF GadgetInv
<1>14. GadgetInv(k, reg)
  <2>1. ASSUME NEW g \in Gadgets, Stamped(reg, g)
        PROVE  reg[g].seq \in Pending(k, n + 1) /\ g \in k[reg[g].seq].made
    <3>1. reg[g].seq \in Pending(l, n) /\ g \in l[reg[g].seq].made
      BY <1>13, <2>1 DEF GadgetInv
    <3> QED
      BY <1>3, <1>7, <1>11, <1>12, <2>1, <3>1
  <2> QED
    BY <1>3, <2>1 DEF GadgetInv
<1> QED
  BY <1>4, <1>10, <1>11, <1>13, <1>14 DEF k, m, reg

\* A revert leaves the checkpoints before it, and the gadgets.
LEMMA RevertGrows ==
    ASSUME NEW l, NEW to, NEW cps, NEW cd, LogInv(l, to, cps, cd),
           NEW reg, GadgetInv(l, reg),
           NEW m \in Messages, m.type = "revert", m.mark > 0,
           \A g \in Gadgets : Stamped(reg, g) => reg[g].seq < m.mark,
           NEW left \in SUBSET cps, \A c \in left : c.to <= m.mark,
           NEW to2, to2 = 1 \/ \E c \in left : c.to = to2
    PROVE  /\ LogInv(Append(l, m), to2, left, cd)
           /\ GadgetInv(Append(l, m), reg)
           /\ to2 \in Nat
<1> DEFINE k == Append(l, m)
           n == Len(l)
<1>1. n \in Nat /\ l \in Seq(Messages) /\ n > 0 /\ m.mark \in Nat
  BY DEF LogInv, Messages
<1>3. Len(k) = n + 1 /\ k[n + 1] = m /\ \A s \in 1..n : k[s] = l[s]
  BY <1>1, Appended
<1>4. \A c \in cps : c.to \in 2..n
  BY DEF LogInv, ExactCheckpoints
<1>7. \A c \in left : m.mark >= c.to
  BY <1>1, <1>4
<1>8. LogInv(k, to2, left, AcceptedIn(k, n + 1))
  BY <1>1, <1>7, LogGrows
<1> HIDE DEF k
<1>9. \A s : Settles(m, s) <=> m.mark <= s
  BY DEF Settles
<1>10. /\ Pending(k, n) = Pending(l, n)
       /\ AcceptedIn(k, n) = AcceptedIn(l, n)
  <2>1. n \in Int /\ \A q \in 1..n : k[q] = l[q]
    BY <1>1, <1>3
  <2> HIDE DEF n
  <2> QED
    BY <2>1, SamePrefix
<1>11. /\ Pending(k, n + 1) = {s \in Pending(l, n) : ~(m.mark <= s)}
       /\ AcceptedIn(k, n + 1) = AcceptedIn(l, n)
  <2>1. /\ Pending(k, n + 1) = {s \in Pending(k, n) : ~Settles(m, s)}
        /\ AcceptedIn(k, n + 1) = AcceptedIn(k, n)
    <3>1. n \in Nat /\ k[n + 1] = m /\ m.type # "changes"
      BY <1>1, <1>3
    <3> HIDE DEF n
    <3> QED
      BY <3>1, NextIsNoChange
  <2> QED
    BY <1>9, <1>10, <2>1
<1>12. cd = AcceptedIn(k, n + 1)
  BY <1>11 DEF LogInv
<1>13. GadgetInv(k, reg)
  <2>1. ASSUME NEW g \in Gadgets, Stamped(reg, g)
        PROVE  reg[g].seq \in Pending(k, n + 1) /\ g \in k[reg[g].seq].made
    <3>1. reg[g].seq \in Pending(l, n) /\ g \in l[reg[g].seq].made
          /\ Pending(l, n) \subseteq 1..n
      BY <2>1 DEF GadgetInv, Pending
    <3> QED
      BY <1>1, <1>3, <1>11, <2>1, <3>1
  <2> QED
    BY <1>3, <2>1 DEF GadgetInv
<1>14. to2 \in Nat
  BY <1>1, <1>4
<1> QED
  BY <1>8, <1>12, <1>13, <1>14 DEF k

-----------------------------------------------------------------------------
(* A summary.                                                              *)

LEMMA SeedUpdates ==
    ASSUME NEW l, NEW lo, NEW hi, NEW p, NEW fate
    PROVE  UpdatesOf(OfFate(l, lo, hi, IF p = {} THEN {} ELSE {Batch(0, p)}, fate))
             = IF Fate(l, lo, hi, 0) = fate THEN p ELSE {}
<1>1. Batch(0, p).at = 0 /\ Batch(0, p).updates = p
  BY DEF Batch
<1>2. CASE p = {}
  BY <1>2 DEF OfFate, UpdatesOf
<1>3. CASE p # {} /\ Fate(l, lo, hi, 0) = fate
  <2>1. OfFate(l, lo, hi, {Batch(0, p)}, fate) = {Batch(0, p)}
    BY <1>1, <1>3 DEF OfFate
  <2> QED
    BY <1>1, <1>3, <2>1 DEF UpdatesOf
<1>4. CASE p # {} /\ Fate(l, lo, hi, 0) # fate
  <2>1. OfFate(l, lo, hi, {Batch(0, p)}, fate) = {}
    BY <1>1, <1>4 DEF OfFate
  <2> QED
    BY <1>4, <2>1 DEF UpdatesOf
<1> QED
  BY <1>2, <1>3, <1>4

\* The prefix counts as one batch at 0: a merge of the tail took all of it,
\* or nothing did.
LEMMA BuildIsExact ==
    ASSUME LogInv(log, meta.to, checkpoints, code),
           NEW cut \in meta.to + 1..Len(log)
    PROVE  buildCompactionState(meta.to, cut)
             = [to |-> cut, accepted |-> AcceptedIn(log, cut - 1),
                proposed |-> OpenIn(log, cut - 1)]
<1> DEFINE to == meta.to
           n == cut - 1
           p == OpenIn(log, to - 1)
           previous == CheckpointAt(checkpoints, to)
           seed == IF p = {} THEN {} ELSE {Batch(0, p)}
           state == foldProposedChanges(log, to, n, seed)
           OfTail(fate) == {s \in to..n : log[s].type = "changes" /\ log[s].code
                                          /\ Fate(log, 1, n, s) = fate}
           merges == {m \in to..n : log[m].type = "merge"}
<1>1. /\ to \in 1..Len(log) /\ Len(log) \in Nat
      /\ previous.proposed = p /\ previous.accepted = AcceptedIn(log, to - 1)
  BY CheckpointIsExact
<1>2. n \in Nat /\ to \in Nat \ {0} /\ n >= to /\ n <= Len(log) /\ n \in to - 1..Len(log)
  BY <1>1
<1>3. /\ state.proposed = OfFate(log, to, n, seed \union BatchesIn(log, to, n), "proposed")
      /\ state.accepted = UpdatesOf(OfFate(log, to, n, seed \union BatchesIn(log, to, n), "merge"))
  BY FoldIs
<1>4. ASSUME NEW fate
      PROVE  UpdatesOf(OfFate(log, to, n, seed \union BatchesIn(log, to, n), fate))
               = UpdatesOf(OfFate(log, to, n, seed, fate)) \union OfTail(fate)
  <2>1. CodeOfFate(log, to, n, fate) = OfTail(fate)
    BY <1>2, TailFates
  <2> QED
    BY <2>1, FoldUpdates
<1>5. buildCompactionState(to, cut)
        = [to |-> cut, accepted |-> previous.accepted \union state.accepted,
           proposed |-> UpdatesOf(state.proposed)]
  <2>1. seed = IF previous.proposed = {} THEN {} ELSE {Batch(0, previous.proposed)}
    BY <1>1
  <2> HIDE DEF seed
  <2> QED
    BY <2>1, Zenon DEF buildCompactionState
<1>6. ASSUME NEW fate
       PROVE  UpdatesOf(OfFate(log, to, n, seed, fate))
                = IF Fate(log, to, n, 0) = fate THEN p ELSE {}
  <2> HIDE DEF p, n, to
  <2> QED
    BY SeedUpdates
<1>7. ASSUME NEW s \in p
      PROVE  /\ s \in 1..to - 1 /\ s \in 1..n /\ log[s].type = "changes" /\ log[s].code
             /\ s \in Pending(log, to - 1) /\ Unsettled(log, 1, to - 1, s)
             /\ \A q \in to..n : Settles(log[q], s) => log[q].type = "merge"
  <2>1. s \in Pending(log, to - 1) /\ log[s].code
    BY <1>7 DEF OpenIn
  <2>2. s \in 1..to - 1 /\ log[s].type = "changes" /\ Fate(log, 1, to - 1, s) = "proposed"
    BY <2>1 DEF Pending
  <2>3. Unsettled(log, 1, to - 1, s)
    <3>1. 1 \in Nat /\ to - 1 \in Nat /\ s \in Nat
      BY <1>1, <2>2
    <3> QED
      BY <2>2, <3>1, ProposedIsUnsettled
  <2>4. \A q \in to..n : Settles(log[q], s) => log[q].type = "merge"
    BY <1>2, <2>1, TailAcceptsPrefix
  <2> QED
    BY <1>2, <2>1, <2>2, <2>3, <2>4
<1>8. ASSUME NEW s \in 1..to - 1, log[s].type = "changes", log[s].code, s \notin p
      PROVE  /\ Fate(log, 1, n, s) # "proposed"
             /\ Fate(log, 1, n, s) = Fate(log, 1, to - 1, s)
  <2>1. Fate(log, 1, to - 1, s) # "proposed"
    BY <1>8 DEF OpenIn, Pending
  <2>2. to - 1 \in Nat /\ to - 1 <= n /\ s \in Nat
    BY <1>1, <1>2
  <2>3. Fate(log, 1, n, s) = Fate(log, 1, to - 1, s)
    BY <1>2, <2>1, <2>2, FateStays
  <2> QED
    BY <2>1, <2>3
<1>9. CASE merges = {}
  <2>1. ASSUME NEW s \in p
        PROVE  Fate(log, 1, n, s) = "proposed"
    <3>1. Unsettled(log, 1, n, s)
      BY <1>2, <1>7, <1>9 DEF Unsettled
    <3> QED
      BY <1>2, <1>7, <3>1, UnsettledIsProposed
  <2>2. Fate(log, to, n, 0) = "proposed"
    <3>1. ASSUME NEW q \in to..n, Settles(log[q], 0)
          PROVE  FALSE
      <4>1. log[q].type = "revert" /\ log[q].mark <= 0
        BY <1>9, <3>1 DEF Settles
      <4>2. log[q].mark \in Nat /\ (log[q].type = "revert" => log[q].mark > 0)
        <5>1. q \in 1..Len(log) /\ log \in Seq(Messages)
          BY <1>1, <1>2 DEF LogInv
        <5> QED
          BY <5>1, MessagesAreTyped DEF LogInv
      <4> QED
        BY <4>1, <4>2
    <3>2. Unsettled(log, to, n, 0)
      BY <3>1 DEF Unsettled
    <3> QED
      BY <1>2, <3>2, UnsettledIsProposed
  <2>3. /\ UpdatesOf(OfFate(log, to, n, seed, "proposed")) = p
        /\ UpdatesOf(OfFate(log, to, n, seed, "merge")) = {}
    <3> HIDE DEF seed, p
    <3> QED
      BY <1>6, <2>2
  <2>4. OpenIn(log, n) = p \union OfTail("proposed")
    BY <1>2, <1>7, <1>8, <2>1 DEF OpenIn, Pending
  <2>5. AcceptedIn(log, n) = AcceptedIn(log, to - 1) \union OfTail("merge")
    <3>1. ASSUME NEW s \in 1..to - 1, log[s].type = "changes", log[s].code
          PROVE  Fate(log, 1, n, s) = "merge" <=> Fate(log, 1, to - 1, s) = "merge"
      <4>1. CASE s \in p
        BY <2>1, <4>1 DEF OpenIn, Pending
      <4>2. CASE s \notin p
        BY <1>8, <3>1, <4>2
      <4> QED
        BY <4>1, <4>2
    <3> QED
      BY <1>2, <3>1 DEF AcceptedIn
  <2>6. state.accepted = OfTail("merge") /\ UpdatesOf(state.proposed) = p \union OfTail("proposed")
    <3> HIDE DEF state, seed, OfTail
    <3> QED
      BY <1>3, <1>4, <2>3
  <2> HIDE DEF OfTail, state, p, previous, n
  <2> QED
    BY <1>1, <1>5, <2>4, <2>5, <2>6 DEF n
<1>10. CASE merges # {}
  <2>1. PICK m \in merges : \A q \in merges : m <= q
    <3>1. merges \subseteq Nat
      BY <1>2
    <3> HIDE DEF merges
    <3> QED
      BY <1>10, <3>1, MinOfNats
  <2>2. m \in to..n /\ log[m].type = "merge" /\ m \in 1..Len(log)
        /\ \A q \in to..m - 1 : log[q].type # "merge"
    BY <1>2, <2>1
  <2>3. log[m].mark \in Nat
    BY <2>2, MessagesAreTyped DEF LogInv
  <2>4. ASSUME NEW s \in p
        PROVE  Fate(log, 1, n, s) = "merge"
    <3>1. s \in 1..m - 1 /\ Unsettled(log, 1, m - 1, s)
      <4>1. s \in 1..to - 1 /\ Unsettled(log, 1, to - 1, s)
            /\ \A q \in to..n : Settles(log[q], s) => log[q].type = "merge"
        BY <1>7
      <4>2. s \in 1..m - 1
        BY <1>2, <2>2, <4>1
      <4>3. ASSUME NEW q \in 1..m - 1, q > s, Settles(log[q], s)
            PROVE  FALSE
        <5>1. CASE q \in 1..to - 1
          BY <4>1, <4>3, <5>1 DEF Unsettled
        <5>2. CASE q \in to..m - 1
          <6>1. q \in to..n
            BY <1>2, <2>2, <5>2
          <6> QED
            BY <2>2, <4>1, <4>3, <5>2, <6>1
        <5> QED
          BY <1>2, <2>2, <5>1, <5>2
      <4> QED
        BY <4>2, <4>3 DEF Unsettled
    <3>2. s \in OpenIn(log, m - 1)
      <4>1. Fate(log, 1, m - 1, s) = "proposed"
        BY <1>2, <2>2, <3>1, UnsettledIsProposed
      <4> QED
        BY <1>7, <3>1, <4>1 DEF OpenIn, Pending
    <3>3. s <= log[m].mark
      BY <2>2, <3>2 DEF LogInv, MergesTakeAll
    <3>4. Decides(log, 1, m, s)
      BY <1>2, <2>2, <3>1, <3>3 DEF Decides, Settles
    <3> QED
      BY <1>2, <1>7, <2>2, <3>4, DecidedIsDecided
  <2>5. Fate(log, to, n, 0) = "merge"
    <3>1. ASSUME NEW q \in to..m - 1, Settles(log[q], 0)
          PROVE  FALSE
      <4>1. log[q].type = "revert" /\ log[q].mark <= 0
        BY <2>2, <3>1 DEF Settles
      <4>2. log[q].mark \in Nat /\ (log[q].type = "revert" => log[q].mark > 0)
        <5>1. q \in 1..Len(log) /\ log \in Seq(Messages)
          BY <1>1, <1>2, <2>2 DEF LogInv
        <5> QED
          BY <5>1, MessagesAreTyped DEF LogInv
      <4> QED
        BY <4>1, <4>2
    <3>2. Decides(log, to, m, 0)
      BY <1>2, <2>2, <2>3, <3>1 DEF Decides, Unsettled, Settles
    <3>3. 0 \in Nat /\ m \in to..n /\ to \in Nat /\ n \in Nat
      BY <1>2, <2>2
    <3> HIDE DEF to, n
    <3>4. Fate(log, to, n, 0) = log[m].type
      BY <3>2, <3>3, DecidedIsDecided
    <3> QED
      BY <2>2, <3>4
  <2>6. /\ UpdatesOf(OfFate(log, to, n, seed, "proposed")) = {}
        /\ UpdatesOf(OfFate(log, to, n, seed, "merge")) = p
    <3> HIDE DEF seed, p
    <3> QED
      BY <1>6, <2>5
  <2>7. OpenIn(log, n) = OfTail("proposed")
    BY <1>2, <1>7, <1>8, <2>4 DEF OpenIn, Pending
  <2>8. AcceptedIn(log, n) = AcceptedIn(log, to - 1) \union p \union OfTail("merge")
    <3>1. ASSUME NEW s \in 1..to - 1, log[s].type = "changes", log[s].code
          PROVE  Fate(log, 1, n, s) = "merge" <=>
                   Fate(log, 1, to - 1, s) = "merge" \/ s \in p
      <4>1. CASE s \in p
        BY <2>4, <4>1
      <4>2. CASE s \notin p
        BY <1>8, <3>1, <4>2
      <4> QED
        BY <4>1, <4>2
    <3> QED
      BY <1>2, <1>7, <3>1 DEF AcceptedIn
  <2>9. state.accepted = p \union OfTail("merge") /\ UpdatesOf(state.proposed) = OfTail("proposed")
    <3> HIDE DEF state, seed, OfTail
    <3> QED
      BY <1>3, <1>4, <2>6
  <2> HIDE DEF OfTail, state, p, previous, n
  <2> QED
    BY <1>1, <1>5, <2>7, <2>8, <2>9 DEF n
<1> QED
  BY <1>9, <1>10

LEMMA SummaryKeepsLog ==
    ASSUME NEW l, NEW to, NEW cps, NEW cd, LogInv(l, to, cps, cd),
           NEW cut \in to + 1..Len(l),
           \A s \in cut..Len(l) : l[s].type = "revert" => l[s].mark >= cut
    PROVE  LET c == [to |-> cut, accepted |-> AcceptedIn(l, cut - 1),
                     proposed |-> OpenIn(l, cut - 1)]
           IN  LogInv(l, cut, {d \in cps : d.to # cut} \union {c}, cd)
<1> DEFINE c == [to |-> cut, accepted |-> AcceptedIn(l, cut - 1),
                 proposed |-> OpenIn(l, cut - 1)]
           left == {d \in cps : d.to # cut} \union {c}
<1>1. to \in 1..Len(l) /\ Len(l) \in Nat
  BY CheckpointIsExact
<1>2. c.to = cut /\ cut \in 2..Len(l)
      /\ c.accepted = AcceptedIn(l, cut - 1) /\ c.proposed = OpenIn(l, cut - 1)
  BY <1>1
<1> HIDE DEF c
<1>3. ExactCheckpoints(l, left)
  BY <1>2 DEF LogInv, ExactCheckpoints
<1>4. RevertsStayBehind(l, left)
  BY <1>2 DEF LogInv, RevertsStayBehind
<1>5. \E d \in left : d.to = cut
  BY <1>2
<1> HIDE DEF left
<1>6. LogInv(l, cut, left, cd)
  BY <1>3, <1>4, <1>5 DEF LogInv
<1> QED
  BY <1>6 DEF left, c

-----------------------------------------------------------------------------
(* The invariant.                                                          *)

Metas == [active : BOOLEAN, to : Nat, proposed : BOOLEAN]

Registries == [Gadgets -> [at : {"absent", "pending", "kept", "gone"}, seq : Nat]]

Turns ==
    [at : {"none", "reaping", "replaying", "summarizing", "prompting", "ending",
           "resuming"},
     todo : SUBSET Gadgets, base : Nat, seen : Nat, cut : Nat,
     adopted : SUBSET Gadgets, calls : SUBSET Gadgets]

Ops == [at : {"none", "merge", "reap", "remove"}, todo : SUBSET Gadgets,
        mark : Nat, meta : Metas, began : Nat]

ChatTypes == /\ meta \in Metas /\ gadget \in Registries /\ draft \in BOOLEAN
             /\ turn \in Turns /\ op \in Ops

\* A turn that has read the log works on the current tail, in which nothing
\* is accepted or rejected before it is done.
TurnInv ==
    /\ turn.at # "none" => meta.active
    /\ turn.at \in {"replaying", "summarizing"} =>
          /\ turn.base = meta.to
          /\ turn.seen \in 1..Len(log)
          /\ \A s \in turn.seen + 1..Len(log) : log[s].type # "revert"
    /\ turn.at = "summarizing" =>
          /\ turn.cut \in turn.base + 1..turn.seen
          /\ \A s \in turn.cut..turn.seen :
                log[s].type = "revert" => log[s].mark >= turn.cut

\* An operation that nothing overtook knows the chat as it is.
OpIsCurrent ==
    /\ ~meta.active /\ ~op.meta.active /\ op.meta.to = meta.to
    /\ op.at = "merge" =>
          /\ op.mark <= Len(log) /\ meta.to - 1 <= op.mark
          /\ \A s \in OpenIn(log, Len(log)) : s <= op.mark
    /\ op.at = "remove" => RejectedFrom(gadget, op.mark) \subseteq op.todo

OpInv ==
    /\ op.todo # {} => op.at # "none"
    /\ op.at # "none" =>
          /\ op.began <= Len(log) /\ op.mark > 0
          /\ op.began = Len(log) => OpIsCurrent

LogPart == /\ LogInv(log, meta.to, checkpoints, code)
           /\ GadgetInv(log, gadget)
           /\ FlagInv(log, gadget, meta.proposed)

Core == ChatTypes /\ LogPart /\ TurnInv /\ OpInv

ChatInv == ~overlapped => Core

-----------------------------------------------------------------------------
(* What steps of a kind keep.                                              *)

Fewer(reg2, reg) ==
    \A g \in Gadgets : Stamped(reg2, g) => Stamped(reg, g) /\ reg2[g].seq = reg[g].seq

LEMMA FewerStamps ==
    ASSUME NEW l, NEW reg, NEW reg2, Fewer(reg2, reg), GadgetInv(l, reg)
    PROVE  /\ GadgetInv(l, reg2)
           /\ \A p, p2 : FlagInv(l, reg, p) /\ (p => p2) => FlagInv(l, reg2, p2)
BY DEF Fewer, GadgetInv, FlagInv

LEMMA WithoutIsFewer ==
    ASSUME NEW reg \in Registries, NEW g \in Gadgets
    PROVE  /\ Without(reg, g) \in Registries
           /\ Fewer(Without(reg, g), reg)
           /\ ~Stamped(Without(reg, g), g)
           /\ \A from : RejectedFrom(Without(reg, g), from) \subseteq RejectedFrom(reg, from) \ {g}
BY DEF Without, Registries, Fewer, Stamped, RejectedFrom

\* The log is as it was, and what the chat proposes is no more.
LEMMA LogStays ==
    ASSUME LogPart, UNCHANGED <<log, checkpoints, code>>, meta'.to = meta.to,
           Fewer(gadget', gadget), meta.proposed => meta'.proposed
    PROVE  LogPart'
<1>1. LogInv(log, meta.to, checkpoints, code)'
  BY DEF LogPart
<1>2. GadgetInv(log, gadget)' /\ FlagInv(log, gadget, meta.proposed)'
  BY FewerStamps DEF LogPart
<1> QED
  BY <1>1, <1>2 DEF LogPart

\* A message that settles nothing is appended.
LEMMA LogPartGrows ==
    ASSUME LogPart, NEW m \in Plain, log' = Append(log, m),
           UNCHANGED <<checkpoints, code>>, meta'.to = meta.to,
           \A g \in Gadgets : Stamped(gadget', g) =>
               \/ Stamped(gadget, g) /\ gadget'[g].seq = gadget[g].seq
               \/ m.type = "changes" /\ gadget'[g].seq = Len(log) + 1 /\ g \in m.made,
           m.type = "changes" => meta'.proposed,
           meta.proposed => meta'.proposed
    PROVE  LogPart'
<1>1. LogInv(log, meta.to, checkpoints, code)'
  BY PlainGrows DEF LogPart
<1>2. GadgetInv(log, gadget)'
  BY GadgetsGrow DEF LogPart
<1>3. FlagInv(log, gadget, meta.proposed)'
  <2>1. CASE m.type = "changes"
    BY <2>1 DEF FlagInv
  <2>2. CASE m.type # "changes"
    <3>1. Len(log') = Len(log) + 1 /\ OpenIn(log', Len(log')) = OpenIn(log, Len(log))
      BY <2>2, PlainGrows DEF LogPart
    <3> QED
      BY <2>2, <3>1 DEF FlagInv, LogPart
  <2> QED
    BY <2>1, <2>2
<1> QED
  BY <1>1, <1>2, <1>3 DEF LogPart

\* A turn goes on while the log only grows by messages that are no reverts.
LEMMA TurnGoesOn ==
    ASSUME Core, turn' = turn, meta'.to = meta.to, meta'.active = meta.active,
           Len(log') \in Nat, Len(log') >= Len(log),
           \A s \in 1..Len(log) : log'[s] = log[s],
           \A s \in Len(log) + 1..Len(log') : log'[s].type # "revert"
    PROVE  TurnInv'
<1>1. Len(log) \in Nat /\ turn.cut \in Nat /\ turn.base \in Nat /\ turn.seen \in Nat
  BY DEF Core, LogPart, LogInv, ChatTypes, Turns
<1>2. ASSUME turn.at \in {"replaying", "summarizing"}
      PROVE  /\ turn.base = meta'.to
             /\ turn.seen \in 1..Len(log')
             /\ \A s \in turn.seen + 1..Len(log') : log'[s].type # "revert"
  <2>1. /\ turn.base = meta.to /\ turn.seen \in 1..Len(log)
        /\ \A s \in turn.seen + 1..Len(log) : log[s].type # "revert"
    BY <1>2 DEF Core, TurnInv
  <2>2. ASSUME NEW s \in turn.seen + 1..Len(log')
        PROVE  log'[s].type # "revert"
    <3>1. CASE s <= Len(log)
      BY <1>1, <2>1, <3>1
    <3>2. CASE s > Len(log)
      BY <1>1, <3>2
    <3> QED
      BY <1>1, <3>1, <3>2
  <2> QED
    BY <1>1, <2>1, <2>2
<1>3. ASSUME turn.at = "summarizing"
      PROVE  /\ turn.cut \in turn.base + 1..turn.seen
             /\ \A s \in turn.cut..turn.seen :
                   log'[s].type = "revert" => log'[s].mark >= turn.cut
  <2>1. /\ turn.cut \in turn.base + 1..turn.seen /\ turn.seen \in 1..Len(log)
        /\ \A s \in turn.cut..turn.seen :
              log[s].type = "revert" => log[s].mark >= turn.cut
    BY <1>3 DEF Core, TurnInv
  <2>2. \A s \in turn.cut..turn.seen : log'[s] = log[s]
    <3>1. turn.cut >= 1
      BY <1>1, <2>1
    <3> QED
      BY <1>1, <2>1, <3>1
  <2> QED
    BY <2>1, <2>2
<1> QED
  BY <1>2, <1>3 DEF Core, TurnInv

LEMMA TurnRests ==
    ASSUME turn'.at \notin {"replaying", "summarizing"},
           turn'.at # "none" => meta'.active
    PROVE  TurnInv'
BY DEF TurnInv

LEMMA IdleHasNoTurn ==
    ASSUME Core, ~meta.active
    PROVE  turn.at = "none"
BY DEF Core, TurnInv

\* An operation waits while others go on, or nothing happens.
LEMMA OpIsOvertaken ==
    ASSUME Core, op' = op, Len(log') \in Nat, Len(log') > Len(log)
    PROVE  OpInv'
<1>1. Len(log) \in Nat /\ op.began \in Nat
  BY DEF Core, LogPart, LogInv, ChatTypes, Ops
<1> QED
  BY <1>1 DEF Core, OpInv

LEMMA OpIsBehind ==
    ASSUME Core, op' = op, log' = log, meta.active
    PROVE  OpInv'
BY DEF Core, OpInv, OpIsCurrent

LEMMA OpWaits ==
    ASSUME Core, op' = op, log' = log, meta'.to = meta.to,
           meta'.active = meta.active, Fewer(gadget', gadget)
    PROVE  OpInv'
<1>1. RejectedFrom(gadget', op.mark) \subseteq RejectedFrom(gadget, op.mark)
  BY DEF RejectedFrom, Fewer
<1>2. OpIsCurrent => OpIsCurrent'
  BY <1>1 DEF OpIsCurrent
<1> QED
  BY <1>2 DEF Core, OpInv

LEMMA NoOpIsFine ==
    ASSUME op'.at = "none", op'.todo = {}
    PROVE  OpInv'
BY DEF OpInv

LEMMA NoOpIsTyped == NoOp \in Ops /\ NoOp.at = "none" /\ NoOp.todo = {}
BY DEF NoOp, Ops, NewMeta, Metas

\* The turns that steps begin and end with
LEMMA TurnsAreTyped ==
    /\ NoTurn \in Turns /\ NoTurn.at = "none" /\ NoTurn.todo = {}
    /\ \A at \in {"reaping", "resuming"} :
          [NoTurn EXCEPT !.at = at] \in Turns /\ [NoTurn EXCEPT !.at = at].at = at
    /\ \A at \in {"reaping", "ending"} : \A todo \in SUBSET Gadgets :
          /\ [NoTurn EXCEPT !.at = at, !.todo = todo] \in Turns
          /\ [NoTurn EXCEPT !.at = at, !.todo = todo].at = at
BY DEF NoTurn, Turns

LEMMA ChangesArePlain ==
    ASSUME NEW made \in SUBSET Gadgets, NEW edited \in BOOLEAN, NEW byUser \in BOOLEAN
    PROVE  /\ Changes(made, edited, byUser) \in Plain
           /\ Changes(made, edited, byUser) \in Messages
           /\ Changes(made, edited, byUser).type = "changes"
           /\ Changes(made, edited, byUser).made = made
BY DEF Changes, Message, Plain, Messages, Types

LEMMA MessagesArePlain ==
    /\ \A made \in SUBSET Gadgets : Step(made) \in Plain /\ Step(made).type = "step"
    /\ \A type \in {"prompt", "compact"} :
          Message(type) \in Plain /\ Message(type).type = type
BY DEF Step, Message, Plain, Messages, Types

-----------------------------------------------------------------------------
(* What users do.                                                          *)

LEMMA InitIsFine ==
    ASSUME ChangesInit
    PROVE  Core
<1> DEFINE m == Message("prompt")
<1>1. m \in Plain /\ m \in Messages /\ m.type = "prompt"
  BY MessagesArePlain DEF Plain
<1>2. log = <<m>> /\ checkpoints = {} /\ code = {} /\ meta.to = 1
  BY DEF ChangesInit, NewMeta
<1> HIDE DEF m
<1>3. log \in Seq(Messages) /\ Len(log) = 1 /\ log[1] = m
  BY <1>1, <1>2
<1>4. LogInv(log, meta.to, checkpoints, code)
  <2>1. MergesTakeAll(log)
    BY <1>1, <1>3 DEF MergesTakeAll
  <2>2. AcceptedIn(log, 1) = {}
    BY <1>1, <1>3 DEF AcceptedIn
  <2>3. \A s \in 1..Len(log) : log[s].type # "revert"
    BY <1>1, <1>3
  <2>4. ExactCheckpoints(log, checkpoints) /\ RevertsStayBehind(log, checkpoints)
    BY <1>2 DEF ExactCheckpoints, RevertsStayBehind
  <2> QED
    BY <1>2, <1>3, <2>1, <2>2, <2>3, <2>4 DEF LogInv
<1>5. \A g \in Gadgets : ~Stamped(gadget, g)
  BY DEF ChangesInit, Stamped
<1>6. OpenIn(log, Len(log)) = {}
  BY <1>1, <1>3 DEF OpenIn, Pending
<1>7. LogPart
  BY <1>4, <1>5, <1>6 DEF LogPart, GadgetInv, FlagInv
<1>8. ChatTypes
  <2>1. meta \in Metas /\ turn \in Turns
    <3>1. NewMeta \in Metas /\ [NewMeta EXCEPT !.active = TRUE] \in Metas
      BY DEF NewMeta, Metas
    <3> QED
      BY <3>1, TurnsAreTyped DEF ChangesInit
  <2>2. gadget \in Registries /\ draft \in BOOLEAN
    BY DEF ChangesInit, Registries
  <2> QED
    BY <2>1, <2>2, NoOpIsTyped DEF ChangesInit, ChatTypes
<1>9. TurnInv
  BY DEF ChangesInit, TurnInv, NewMeta, NoTurn
<1>10. OpInv
  BY NoOpIsTyped DEF ChangesInit, OpInv
<1> QED
  BY <1>7, <1>8, <1>9, <1>10 DEF Core

LEMMA EditDraftKeeps ==
    ASSUME Core, EditDraft
    PROVE  Core'
<1>1. meta.to \in Nat /\ meta \in Metas
  BY DEF Core, ChatTypes, Metas
<1>2. meta' \in Metas /\ meta'.to = meta.to /\ meta'.active = meta.active
      /\ meta'.proposed
  BY <1>1 DEF EditDraft, Metas
<1>3. LogPart'
  BY <1>2, LogStays DEF EditDraft, Core, Fewer
<1>4. Len(log) \in Nat
  BY DEF Core, LogPart, LogInv
<1>5. TurnInv'
  BY <1>2, <1>4, TurnGoesOn DEF EditDraft
<1>6. OpInv'
  BY <1>2, OpWaits DEF EditDraft, Fewer
<1> QED
  BY <1>2, <1>3, <1>5, <1>6 DEF Core, ChatTypes, EditDraft

\* The row of a chat that is recomputed
LEMMA RecomputedIsTyped ==
    ASSUME NEW row \in Metas, NEW l, NEW cps, NEW reg, NEW drafted \in BOOLEAN,
           NEW new, new = Recomputed(row, l, cps, reg, drafted)
    PROVE  /\ new \in Metas /\ new.to = row.to /\ new.active = row.active
           /\ new.proposed = (drafted \/ getProposedChanges(l, row.to, cps, reg) # {})
BY DEF Recomputed, Metas

\* A draft is saved as a change of its user.
LEMMA MaterializedGrows ==
    ASSUME Core
    PROVE  /\ LogInv(Materialized, meta.to, checkpoints, code)
           /\ GadgetInv(Materialized, gadget)
           /\ FlagInv(Materialized, gadget, meta.proposed \/ draft)
           /\ Len(Materialized) = IF draft THEN Len(log) + 1 ELSE Len(log)
           /\ Len(log) \in Nat
           /\ \A s \in 1..Len(log) : Materialized[s] = log[s]
           /\ draft => Materialized[Len(log) + 1].type = "changes"
<1> DEFINE m == Changes({}, TRUE, TRUE)
<1>1. Len(log) \in Nat /\ draft \in BOOLEAN
  BY DEF Core, LogPart, LogInv, ChatTypes
<1>2. CASE ~draft
  <2>1. Materialized = log
    BY <1>2 DEF Materialized
  <2>2. FlagInv(log, gadget, meta.proposed \/ draft)
    BY DEF Core, LogPart, FlagInv
  <2> QED
    BY <1>1, <1>2, <2>1, <2>2 DEF Core, LogPart
<1>3. CASE draft
  <2>1. m \in Plain /\ m.type = "changes"
    BY ChangesArePlain
  <2>2. Materialized = Append(log, m)
    BY <1>3 DEF Materialized
  <2> HIDE DEF m
  <2>3. GadgetInv(Materialized, gadget)
    BY <2>1, <2>2, GadgetsGrow DEF Core, LogPart
  <2>4. /\ LogInv(Materialized, meta.to, checkpoints, code)
        /\ Len(Materialized) = Len(log) + 1
        /\ Materialized[Len(log) + 1] = m
        /\ \A s \in 1..Len(log) : Materialized[s] = log[s]
    BY <2>1, <2>2, PlainGrows DEF Core, LogPart
  <2> QED
    BY <1>1, <1>3, <2>1, <2>3, <2>4 DEF FlagInv
<1> QED
  BY <1>1, <1>2, <1>3

LEMMA FinalizeDraftKeeps ==
    ASSUME Core, FinalizeDraft
    PROVE  Core'
<1>1. meta \in Metas /\ draft /\ ~meta.active /\ log' = Materialized
  BY DEF Core, ChatTypes, FinalizeDraft
<1>2. /\ meta' \in Metas /\ meta'.to = meta.to /\ meta'.active = meta.active
      /\ meta'.proposed = (FALSE \/ getProposedChanges(log', meta.to, checkpoints, gadget) # {})
  <2>1. meta' = Recomputed(meta, log', checkpoints, gadget, FALSE)
    BY DEF FinalizeDraft
  <2> QED
    BY <1>1, <2>1 DEF Recomputed, Metas
<1>3. LogInv(log', meta.to, checkpoints, code) /\ GadgetInv(log', gadget)
      /\ Len(log') = Len(log) + 1 /\ Len(log) \in Nat
  BY <1>1, MaterializedGrows
<1>4. FlagInv(log', gadget, meta'.proposed)
  BY <1>2, <1>3, RecomputedIsRight
<1>5. LogPart'
  BY <1>2, <1>3, <1>4 DEF LogPart, FinalizeDraft
<1>6. TurnInv'
  BY <1>1, <1>2, IdleHasNoTurn, TurnRests DEF FinalizeDraft
<1>7. OpInv'
  <2>1. op' = op /\ Len(log') \in Nat /\ Len(log') > Len(log)
    BY <1>3 DEF FinalizeDraft
  <2> QED
    BY <2>1, OpIsOvertaken
<1> QED
  BY <1>2, <1>5, <1>6, <1>7 DEF Core, ChatTypes, FinalizeDraft

LEMMA DiscardDraftKeeps ==
    ASSUME Core, DiscardDraft
    PROVE  Core'
<1>1. meta \in Metas /\ ~meta.active
  BY DEF Core, ChatTypes, DiscardDraft
<1>2. /\ meta' \in Metas /\ meta'.to = meta.to /\ meta'.active = meta.active
      /\ meta'.proposed = (FALSE \/ getProposedChanges(log, meta.to, checkpoints, gadget) # {})
  <2>1. meta' = Recomputed(meta, log, checkpoints, gadget, FALSE)
    BY DEF DiscardDraft
  <2> QED
    BY <1>1, <2>1 DEF Recomputed, Metas
<1>3. LogInv(log, meta.to, checkpoints, code) /\ GadgetInv(log, gadget)
  BY DEF Core, LogPart
<1>4. FlagInv(log, gadget, meta'.proposed)
  BY <1>2, <1>3, RecomputedIsRight
<1>5. LogPart'
  BY <1>2, <1>3, <1>4 DEF LogPart, DiscardDraft
<1>6. TurnInv'
  BY <1>1, <1>2, IdleHasNoTurn, TurnRests DEF DiscardDraft
<1>7. OpInv'
  BY <1>2, OpWaits DEF DiscardDraft, Fewer
<1> QED
  BY <1>2, <1>5, <1>6, <1>7 DEF Core, ChatTypes, DiscardDraft

LEMMA UserCreatesKeeps ==
    ASSUME Core, NEW g \in Gadgets, UserCreates(g)
    PROVE  Core'
<1> DEFINE m == Changes({g}, FALSE, TRUE)
<1>1. m \in Plain /\ m.type = "changes" /\ g \in m.made
  BY DEF Changes, Message, Plain, Messages, Types
<1>2. meta \in Metas /\ gadget \in Registries /\ log \in Seq(Messages) /\ Len(log) \in Nat
  BY DEF Core, ChatTypes, LogPart, LogInv
<1>3. /\ meta' \in Metas /\ meta'.to = meta.to /\ meta'.active = meta.active
      /\ meta'.proposed
  BY <1>2 DEF UserCreates, Metas
<1>4. log' = Append(log, m) /\ m \in Messages
  BY <1>1 DEF UserCreates, Plain
<1> HIDE DEF m
<1>5. Len(log') = Len(log) + 1 /\ log'[Len(log) + 1] = m
      /\ \A s \in 1..Len(log) : log'[s] = log[s]
  BY <1>2, <1>4, Appended
<1>6. gadget' = [gadget EXCEPT ![g] = [at |-> "pending", seq |-> Len(log) + 1]]
  BY <1>5 DEF UserCreates
<1>7. gadget' \in Registries
  BY <1>2, <1>6 DEF Registries
<1>8. \A h \in Gadgets : Stamped(gadget', h) =>
         \/ Stamped(gadget, h) /\ gadget'[h].seq = gadget[h].seq
         \/ gadget'[h].seq = Len(log) + 1 /\ h \in m.made
  BY <1>1, <1>2, <1>6 DEF Stamped, Registries
<1>9. LogPart'
  BY <1>1, <1>3, <1>4, <1>8, LogPartGrows DEF Core, UserCreates
<1>10. TurnInv'
  <2>1. turn' = turn /\ Len(log') \in Nat /\ Len(log') >= Len(log)
    BY <1>2, <1>5 DEF UserCreates
  <2>2. \A s \in Len(log) + 1..Len(log') : log'[s].type # "revert"
    BY <1>1, <1>2, <1>5
  <2> QED
    BY <1>3, <1>5, <2>1, <2>2, TurnGoesOn
<1>11. OpInv'
  <2>1. op' = op /\ Len(log') \in Nat /\ Len(log') > Len(log)
    BY <1>2, <1>5 DEF UserCreates
  <2> QED
    BY <2>1, OpIsOvertaken
<1> QED
  BY <1>3, <1>7, <1>9, <1>10, <1>11 DEF Core, ChatTypes, UserCreates

LEMMA StartTurnKeeps ==
    ASSUME Core, NEW type \in {"prompt", "compact"}, StartTurn(type)
    PROVE  Core'
<1> DEFINE m == Message(type)
<1>1. m \in Plain /\ m.type # "changes"
  BY MessagesArePlain
<1>2. /\ LogInv(Materialized, meta.to, checkpoints, code)
      /\ GadgetInv(Materialized, gadget)
      /\ FlagInv(Materialized, gadget, meta.proposed \/ draft)
      /\ Len(Materialized) >= Len(log) /\ Len(Materialized) \in Nat /\ Len(log) \in Nat
  BY MaterializedGrows DEF Core, ChatTypes
<1>3. log' = Append(Materialized, m) /\ UNCHANGED <<checkpoints, code, gadget>>
  BY DEF StartTurn
<1>4. meta' \in Metas /\ meta'.to = meta.to /\ meta'.active
      /\ meta'.proposed = (meta.proposed \/ draft)
  BY DEF StartTurn, Core, ChatTypes, Metas
<1> HIDE DEF m
<1>5. /\ LogInv(log', meta.to, checkpoints, code)
      /\ Len(log') = Len(Materialized) + 1
      /\ OpenIn(log', Len(log')) = OpenIn(Materialized, Len(Materialized))
  BY <1>1, <1>2, <1>3, PlainGrows
<1>6. GadgetInv(log', gadget)
  BY <1>1, <1>2, <1>3, GadgetsGrow
<1>7. FlagInv(log', gadget, meta'.proposed)
  BY <1>2, <1>4, <1>5 DEF FlagInv
<1>8. LogPart'
  BY <1>3, <1>4, <1>5, <1>6, <1>7 DEF LogPart
<1>9. turn' \in Turns /\ turn'.at = "reaping"
  <2>1. Orphans(gadget, log) \in SUBSET Gadgets
    BY DEF Orphans
  <2> QED
    BY <2>1, TurnsAreTyped DEF StartTurn
<1>10. TurnInv'
  BY <1>4, <1>9, TurnRests
<1>11. OpInv'
  <2>1. op' = op /\ Len(log') \in Nat /\ Len(log') > Len(log)
    BY <1>2, <1>5 DEF StartTurn
  <2> QED
    BY <2>1, OpIsOvertaken
<1>12. draft' \in BOOLEAN /\ op' = op
  BY DEF StartTurn
<1> QED
  BY <1>3, <1>4, <1>8, <1>9, <1>10, <1>11, <1>12 DEF Core, ChatTypes

-----------------------------------------------------------------------------
(* Users accept changes.                                                   *)

LEMMA AcceptThroughIsLast ==
    ASSUME Core, Offered # {} \/ meta.to > 1
    PROVE  /\ AcceptThrough \in 1..Len(log) /\ meta.to - 1 <= AcceptThrough
           /\ \A s \in OpenIn(log, Len(log)) : s <= AcceptThrough
<1> DEFINE S == {b.at : b \in Offered} \union
                    (IF meta.to > 1 THEN {meta.to - 1} ELSE {})
           n == Len(log)
<1>1. LogInv(log, meta.to, checkpoints, code) /\ meta.to \in 1..n /\ n \in Nat
  BY CheckpointIsExact DEF Core, LogPart
<1>2. ASSUME NEW b \in Offered
      PROVE  b.at \in 1..n /\ \A s \in b.updates : s <= b.at
  BY <1>1, <1>2, OfferedIsInLog DEF Offered
<1>3. S \subseteq 1..n /\ S # {}
  <2>1. meta.to > 1 => meta.to - 1 \in 1..n
    BY <1>1
  <2>2. {b.at : b \in Offered} \subseteq 1..n
    BY <1>2
  <2>3. Offered # {} => {b.at : b \in Offered} # {}
    OBVIOUS
  <2> QED
    BY <2>1, <2>2, <2>3
<1>4. AcceptThrough = Max(S)
  BY DEF AcceptThrough
<1>5. Max(S) \in S /\ \A x \in S : x <= Max(S)
  <2>1. S \in SUBSET (0..n)
    BY <1>3
  <2> HIDE DEF S
  <2> QED
    BY <1>1, <1>3, <2>1, MaxOfBounded
<1>6. \A b \in Offered : b.at <= AcceptThrough
  BY <1>4, <1>5
<1>7. meta.to > 1 => meta.to - 1 <= AcceptThrough
  BY <1>4, <1>5
<1>8. AcceptThrough \in 1..n
  BY <1>3, <1>4, <1>5
<1>9. ASSUME NEW s \in OpenIn(log, n)
      PROVE  s <= AcceptThrough
  <2>1. s \in Pending(log, n) /\ log[s].code /\ s \in 1..n
    BY DEF OpenIn, Pending
  <2>2. PICK b \in Offered : s \in b.updates
    BY <1>1, <2>1, OpenIsOffered DEF Offered
  <2>3. s <= b.at /\ b.at <= AcceptThrough /\ b.at \in 1..n
    BY <1>2, <1>6, <2>2
  <2> QED
    BY <1>8, <2>1, <2>3
<1>10. meta.to - 1 <= AcceptThrough
  BY <1>1, <1>7, <1>8
<1> QED
  BY <1>8, <1>9, <1>10

LEMMA PromotedIsTyped ==
    ASSUME NEW reg \in Registries, NEW through
    PROVE  Promoted(reg, through) \in Registries /\ Fewer(Promoted(reg, through), reg)
BY DEF Promoted, Registries, Fewer, Stamped

\* The rest of mergeChanges(), on the log with the draft or the one that the
\* operation left when it began to wait.
LEMMA MergeRestKeeps ==
    ASSUME Core, NEW l, NEW row \in Metas, NEW through, NEW found \in Registries,
           NEW drafted \in BOOLEAN,
           LogInv(l, meta.to, checkpoints, code), GadgetInv(l, found),
           Fewer(found, gadget), row.to = meta.to, row.active = meta.active,
           through \in 0..Len(l), meta.to - 1 <= through,
           \A s \in OpenIn(l, Len(l)) : s <= through,
           MergeRest(row, l, through, found, drafted), UNCHANGED checkpoints
    PROVE  /\ LogPart' /\ meta' \in Metas /\ gadget' \in Registries
           /\ meta'.active = meta.active
<1> DEFINE reg == Promoted(found, through)
           merged == {b \in getProposedChanges(l, meta.to, checkpoints, reg) :
                        b.at <= through}
           k == Append(l, Mark("merge", through))
<1>1. gadget' = reg
  BY DEF MergeRest
<1>2. reg \in Registries /\ Fewer(reg, found)
  BY PromotedIsTyped
<1>3. Fewer(reg, gadget)
  BY <1>2 DEF Fewer
<1>4. CASE merged = {}
  <2>1. UNCHANGED <<log, code, meta>>
    BY <1>4 DEF MergeRest
  <2>2. LogPart'
    BY <1>1, <1>3, <2>1, LogStays DEF Core
  <2> QED
    BY <1>1, <1>2, <2>1, <2>2 DEF Core, ChatTypes
<1>5. CASE merged # {}
  <2>1. /\ log' = k /\ code' = code \union UpdatesOf(merged)
        /\ meta' = Recomputed(row, log', checkpoints, reg, drafted)
    BY <1>5 DEF MergeRest
  <2>2. through \in Nat /\ through <= Len(l)
    BY CheckpointIsExact
  <2>3. /\ LogInv(k, meta.to, checkpoints, code \union UpdatesOf(merged))
        /\ GadgetInv(k, reg)
    BY <2>2, MergeGrows
  <2>4. /\ meta' \in Metas /\ meta'.to = meta.to /\ meta'.active = meta.active
        /\ meta'.proposed = (drafted \/ getProposedChanges(log', meta.to, checkpoints, reg) # {})
    BY <2>1 DEF Recomputed, Metas
  <2> HIDE DEF reg, merged, k
  <2>5. FlagInv(log', reg, meta'.proposed)
    BY <2>1, <2>3, <2>4, RecomputedIsRight
  <2>6. LogPart'
    BY <1>1, <2>1, <2>3, <2>4, <2>5 DEF LogPart
  <2> QED
    BY <1>1, <1>2, <2>4, <2>6
<1> QED
  BY <1>4, <1>5

LEMMA AcceptKeeps ==
    ASSUME Core, Accept
    PROVE  Core'
<1> DEFINE l == Materialized
           through == IF draft THEN Len(log) + 1 ELSE AcceptThrough
           row == IF draft THEN [meta EXCEPT !.proposed = TRUE] ELSE meta
           orphans == Orphans(gadget, log)
<1>1. /\ meta \in Metas /\ gadget \in Registries /\ op \in Ops /\ draft \in BOOLEAN
      /\ ~meta.active /\ op.at = "none" /\ op.todo = {} /\ turn' = turn
      /\ turn.at = "none" /\ draft' = FALSE /\ UNCHANGED checkpoints /\ turn \in Turns
  BY IdleHasNoTurn DEF Accept, Core, ChatTypes, OpInv
<1>2. /\ LogInv(l, meta.to, checkpoints, code)
      /\ GadgetInv(l, gadget)
      /\ FlagInv(l, gadget, meta.proposed \/ draft)
      /\ Len(l) = (IF draft THEN Len(log) + 1 ELSE Len(log)) /\ Len(log) \in Nat
      /\ ~draft => l = log
  BY MaterializedGrows DEF Materialized
<1>3. row \in Metas /\ row.to = meta.to /\ row.active = meta.active
      /\ row.proposed = (meta.proposed \/ draft)
  BY <1>1 DEF Metas
<1>4. /\ through \in 1..Len(l) /\ meta.to - 1 <= through
      /\ \A s \in OpenIn(l, Len(l)) : s <= through
  <2>1. CASE draft
    <3>1. meta.to \in 1..Len(l)
      BY <1>2, CheckpointIsExact
    <3>2. OpenIn(l, Len(l)) \subseteq 1..Len(l)
      BY DEF OpenIn, Pending
    <3> HIDE DEF l
    <3> QED
      BY <1>2, <2>1, <3>1, <3>2
  <2>2. CASE ~draft
    <3>1. Offered # {} \/ meta.to > 1
      BY DEF Accept
    <3>2. through = AcceptThrough /\ l = log
      BY <1>2, <2>2
    <3> HIDE DEF l, through
    <3> QED
      BY <3>1, <3>2, AcceptThroughIsLast
  <2> QED
    BY <1>1, <2>1, <2>2
<1>5. CASE orphans = {}
  <2>1. MergeRest(row, l, through, gadget, FALSE) /\ op' = op
    BY <1>5, Zenon DEF Accept
  <2>2. Fewer(gadget, gadget)
    BY DEF Fewer
  <2> HIDE DEF l, through, row
  <2>3. through \in 0..Len(l)
    BY <1>4
  <2>4. /\ LogPart' /\ meta' \in Metas /\ gadget' \in Registries
        /\ meta'.active = meta.active
    BY <1>1, <1>2, <1>3, <1>4, <2>1, <2>2, <2>3, MergeRestKeeps
  <2>5. TurnInv'
    BY <1>1, TurnRests
  <2>6. OpInv'
    BY <1>1, <2>1, NoOpIsFine
  <2> QED
    BY <1>1, <2>1, <2>4, <2>5, <2>6 DEF Core, ChatTypes
<1>6. CASE orphans # {}
  <2>1. /\ op' = [at |-> "merge", todo |-> orphans, mark |-> through,
                  meta |-> row, began |-> Len(l)]
        /\ log' = l /\ meta' = row /\ UNCHANGED <<gadget, code>>
    BY <1>6, Zenon DEF Accept
  <2>2. orphans \in SUBSET Gadgets
    BY DEF Orphans
  <2> HIDE DEF l, through, row, orphans
  <2>3. Len(l) \in Nat /\ through \in Nat /\ through > 0 /\ through <= Len(l)
    BY <1>1, <1>2, <1>4
  <2>4. op' \in Ops
    BY <1>3, <2>1, <2>2, <2>3 DEF Ops
  <2>5. LogPart'
    BY <1>1, <1>2, <1>3, <2>1 DEF LogPart, FlagInv
  <2>6. TurnInv'
    BY <1>1, TurnRests
  <2>7. OpInv'
    <3>1. OpIsCurrent'
      BY <1>1, <1>3, <1>4, <2>1, <2>3 DEF OpIsCurrent
    <3> QED
      BY <2>1, <2>3, <3>1 DEF OpInv
  <2> QED
    BY <1>1, <1>3, <2>1, <2>4, <2>5, <2>6, <2>7 DEF Core, ChatTypes
<1> QED
  BY <1>5, <1>6

-----------------------------------------------------------------------------
(* Users reject changes.                                                   *)

LEMMA RevertTargetsAreChanges ==
    ASSUME Core, NEW from \in RevertTargets
    PROVE  from \in Nat /\ from > 0
<1>1. {b.at : b \in InFull.proposed} = Pending(log, Len(log)) /\ Len(log) \in Nat
  BY FullIsFates DEF InFull, Core, LogPart, LogInv
<1>2. Pending(log, Len(log)) \subseteq 1..Len(log)
  BY DEF Pending
<1>3. \A b \in InFull.proposed : b.at \in 1..Len(log)
  BY <1>1, <1>2
<1> QED
  BY <1>3 DEF RevertTargets

\* The rest of revertChanges(), once its gadgets are gone.
LEMMA RevertRestKeeps ==
    ASSUME Core, NEW row \in Metas, NEW from \in Nat, from > 0,
           NEW reg \in Registries, Fewer(reg, gadget), RejectedFrom(reg, from) = {},
           row.to = meta.to, row.active = meta.active,
           RevertRest(row, from, reg), gadget' = reg, UNCHANGED code
    PROVE  LogPart' /\ meta' \in Metas /\ meta'.active = meta.active
<1>1. CASE UNCHANGED <<log, meta, checkpoints>>
  <2>1. LogPart'
    BY <1>1, LogStays DEF Core
  <2> QED
    BY <1>1, <2>1 DEF Core, ChatTypes
<1>2. CASE ~ UNCHANGED <<log, meta, checkpoints>>
  <2> DEFINE left == {c \in checkpoints : c.to <= from}
             to == Max({1} \union {c.to : c \in left})
             k == Append(log, Mark("revert", from))
             new == [row EXCEPT !.to = to]
  <2>1. /\ log' = k /\ checkpoints' = left
        /\ meta' = Recomputed(new, k, left, reg, draft)
    BY <1>2, Zenon DEF RevertRest, RolledBack
  <2>2. \A g \in Gadgets : Stamped(reg, g) => reg[g].seq < from
    <3>1. \A g \in Gadgets : reg[g].seq \in Nat
      BY DEF Registries
    <3> QED
      BY <3>1 DEF RejectedFrom
  <2>3. GadgetInv(log, reg) /\ LogInv(log, meta.to, checkpoints, code)
    BY FewerStamps DEF Core, LogPart
  <2>4. LogInv(k, to, left, code) /\ GadgetInv(k, reg) /\ to \in Nat
    <3> DEFINE m == Mark("revert", from)
               tos == {1} \union {c.to : c \in left}
    <3>1. m \in Messages /\ m.type = "revert" /\ m.mark = from
      BY DEF Mark, Message, Messages, Types
    <3>2. k = Append(log, m)
      OBVIOUS
    <3>3. left \in SUBSET checkpoints /\ \A c \in left : c.to <= from
      OBVIOUS
    <3>4. Len(log) \in Nat /\ Len(log) > 0 /\ \A c \in checkpoints : c.to \in 2..Len(log)
      BY <2>3 DEF LogInv, ExactCheckpoints
    <3>5. to = 1 \/ \E c \in left : c.to = to
      <4>1. tos \in SUBSET (0..Len(log)) /\ tos # {} /\ to = Max(tos)
        BY <3>3, <3>4
      <4>2. to \in tos
        <5> HIDE DEF tos, to
        <5> QED
          BY <3>4, <4>1, MaxOfBounded
      <4> HIDE DEF to
      <4> QED
        BY <4>2
    <3> HIDE DEF left, to, k, m
    <3>6. /\ LogInv(Append(log, m), to, left, code)
          /\ GadgetInv(Append(log, m), reg)
          /\ to \in Nat
      <4>1. m.mark > 0 /\ (\A g \in Gadgets : Stamped(reg, g) => reg[g].seq < m.mark)
            /\ (\A c \in left : c.to <= m.mark)
        BY <2>2, <3>1, <3>3
      <4> QED
        BY <2>3, <3>1, <3>3, <3>5, <4>1, RevertGrows
    <3> QED
      BY <3>2, <3>6, Zenon
  <2> HIDE DEF k, to, left
  <2>5. new \in Metas /\ new.to = to /\ new.active = meta.active
    BY <2>4 DEF Metas
  <2>6. draft \in BOOLEAN
    BY DEF Core, ChatTypes
  <2> HIDE DEF new
  <2>7. /\ meta' \in Metas /\ meta'.to = to /\ meta'.active = meta.active
        /\ meta'.proposed = (draft \/ getProposedChanges(k, to, left, reg) # {})
    BY <2>1, <2>5, <2>6 DEF Recomputed, Metas
  <2>8. FlagInv(k, reg, meta'.proposed)
    BY <2>4, <2>7, RecomputedIsRight
  <2> QED
    BY <2>1, <2>4, <2>7, <2>8 DEF LogPart
<1> QED
  BY <1>1, <1>2

LEMMA RevertKeeps ==
    ASSUME Core, NEW from \in RevertTargets, Revert(from)
    PROVE  Core'
<1> DEFINE orphans == Orphans(gadget, log)
           rejected == RejectedFrom(gadget, from)
<1>1. /\ meta \in Metas /\ gadget \in Registries /\ op \in Ops /\ draft \in BOOLEAN
      /\ ~meta.active /\ op.at = "none" /\ op.todo = {} /\ turn \in Turns
      /\ turn.at = "none" /\ UNCHANGED <<gadget, code, draft, turn>>
  BY IdleHasNoTurn DEF Revert, Core, ChatTypes, OpInv
<1>2. from \in Nat /\ from > 0 /\ Len(log) \in Nat
  BY RevertTargetsAreChanges DEF Core, LogPart, LogInv
<1>3. CASE orphans = {} /\ rejected = {}
  <2>1. RevertRest(meta, from, gadget) /\ op' = op
    BY <1>3 DEF Revert
  <2>2. Fewer(gadget, gadget)
    BY DEF Fewer
  <2>3. LogPart' /\ meta' \in Metas /\ meta'.active = meta.active
    BY <1>1, <1>2, <1>3, <2>1, <2>2, RevertRestKeeps
  <2>4. TurnInv' /\ OpInv'
    BY <1>1, <2>1, TurnRests, NoOpIsFine
  <2> QED
    BY <1>1, <2>1, <2>3, <2>4 DEF Core, ChatTypes
<1>4. CASE ~(orphans = {} /\ rejected = {})
  <2>1. /\ op' = [at |-> IF orphans = {} THEN "remove" ELSE "reap",
                  todo |-> IF orphans = {} THEN rejected ELSE orphans,
                  mark |-> from, meta |-> meta, began |-> Len(log)]
        /\ UNCHANGED <<log, meta, checkpoints>>
    BY <1>4, Zenon DEF Revert
  <2>2. orphans \in SUBSET Gadgets /\ rejected \in SUBSET Gadgets
    BY DEF Orphans, RejectedFrom
  <2>3. op'.at = "remove" => RejectedFrom(gadget', op'.mark) \subseteq op'.todo
    BY <1>1, <2>1
  <2> HIDE DEF orphans, rejected
  <2>4. op' \in Ops
    BY <1>1, <1>2, <2>1, <2>2 DEF Ops
  <2>5. LogPart'
    BY <1>1, <2>1 DEF Core, LogPart
  <2>6. TurnInv'
    BY <1>1, <2>1, TurnRests
  <2>7. OpInv'
    <3>1. OpIsCurrent'
      BY <1>1, <2>1, <2>3 DEF OpIsCurrent
    <3> QED
      BY <1>2, <2>1, <3>1 DEF OpInv
  <2> QED
    BY <1>1, <2>1, <2>4, <2>5, <2>6, <2>7 DEF Core, ChatTypes
<1> QED
  BY <1>3, <1>4

\* An operation that resumes, with nothing done to the chat in between
LEMMA OpResumesKeeps ==
    ASSUME Core, NEW g \in op.todo, NEW reg \in Registries, Fewer(reg, gadget),
           op.at = "remove" => ~Stamped(reg, g), ~MovedOn,
           OpResumes(g, reg), UNCHANGED <<draft, turn>>
    PROVE  Core'
<1> DEFINE rest == op.todo \ {g}
           rejected == RejectedFrom(reg, op.mark)
<1>1. /\ meta \in Metas /\ gadget \in Registries /\ op \in Ops /\ draft \in BOOLEAN
      /\ turn \in Turns /\ Len(log) \in Nat /\ LogPart
  BY DEF Core, ChatTypes, LogPart, LogInv
<1>2. op.meta \in Metas /\ op.mark \in Nat /\ op.began \in Nat
      /\ op.todo \in SUBSET Gadgets /\ op.at \in {"none", "merge", "reap", "remove"}
  BY <1>1 DEF Ops
<1>3. op.at # "none" /\ op.mark > 0 /\ op.began = Len(log) /\ OpIsCurrent
  BY <1>1, <1>2 DEF Core, OpInv, MovedOn
<1>4. ~meta.active /\ turn.at = "none" /\ op.meta.to = meta.to
      /\ op.meta.active = meta.active
  BY <1>1, <1>2, <1>3, IdleHasNoTurn DEF OpIsCurrent, Metas
<1>5. TurnInv'
  BY <1>4, TurnRests
<1>6. GadgetInv(log, reg)
  BY <1>1, FewerStamps DEF LogPart
<1>7. RejectedFrom(reg, op.mark) \subseteq RejectedFrom(gadget, op.mark)
  BY DEF RejectedFrom, Fewer
<1>8. op.at = "remove" => rejected \subseteq rest
  BY <1>3, <1>7 DEF OpIsCurrent, RejectedFrom
<1>9. CASE rest # {}
  <2>1. /\ op' = [op EXCEPT !.todo = rest] /\ gadget' = reg
        /\ UNCHANGED <<log, meta, checkpoints, code>>
    BY <1>9 DEF OpResumes
  <2>2. op' \in Ops /\ op'.at = op.at /\ op'.mark = op.mark /\ op'.todo = rest
        /\ op'.meta = op.meta /\ op'.began = op.began
    BY <1>1, <1>2, <2>1 DEF Ops
  <2>3. LogPart'
    BY <1>1, <2>1, LogStays
  <2>4. OpIsCurrent'
    BY <1>3, <1>8, <2>1, <2>2 DEF OpIsCurrent
  <2>5. OpInv'
    BY <1>3, <2>1, <2>2, <2>4 DEF OpInv
  <2> QED
    BY <1>1, <1>5, <2>1, <2>2, <2>3, <2>5 DEF Core, ChatTypes
<1>10. CASE rest = {} /\ op.at = "merge"
  <2>1. /\ MergeRest(op.meta, log, op.mark, reg, draft)
        /\ op' = NoOp /\ UNCHANGED checkpoints
    BY <1>10 DEF OpResumes
  <2>2. op.mark \in 0..Len(log) /\ meta.to - 1 <= op.mark
        /\ \A s \in OpenIn(log, Len(log)) : s <= op.mark
    BY <1>1, <1>2, <1>3, <1>10 DEF OpIsCurrent
  <2>3. LogInv(log, meta.to, checkpoints, code)
    BY <1>1 DEF LogPart
  <2>4. /\ LogPart' /\ meta' \in Metas /\ gadget' \in Registries
        /\ meta'.active = meta.active
    BY <1>1, <1>2, <1>4, <1>6, <2>1, <2>2, <2>3, MergeRestKeeps
  <2>5. OpInv'
    BY <2>1, NoOpIsTyped, NoOpIsFine
  <2> QED
    BY <1>1, <1>5, <2>1, <2>4, <2>5, NoOpIsTyped DEF Core, ChatTypes
<1>11. CASE rest = {} /\ op.at = "reap" /\ rejected # {}
  <2>1. /\ op' = [op EXCEPT !.at = "remove", !.todo = rejected]
        /\ gadget' = reg /\ UNCHANGED <<log, meta, checkpoints, code>>
    BY <1>11 DEF OpResumes
  <2>2. rejected \in SUBSET Gadgets
    BY DEF RejectedFrom
  <2>3. op' \in Ops /\ op'.at = "remove" /\ op'.mark = op.mark /\ op'.todo = rejected
        /\ op'.meta = op.meta /\ op'.began = op.began
    BY <1>1, <1>2, <2>1, <2>2 DEF Ops
  <2>4. LogPart'
    BY <1>1, <2>1, LogStays
  <2>5. OpIsCurrent'
    BY <1>3, <2>1, <2>3 DEF OpIsCurrent
  <2>6. OpInv'
    BY <1>3, <2>1, <2>3, <2>5 DEF OpInv
  <2> QED
    BY <1>1, <1>5, <2>1, <2>3, <2>4, <2>6 DEF Core, ChatTypes
<1>12. CASE rest = {} /\ op.at # "merge" /\ ~(op.at = "reap" /\ rejected # {})
  <2>1. /\ RevertRest(op.meta, op.mark, reg) /\ op' = NoOp
        /\ gadget' = reg /\ UNCHANGED code
    BY <1>12 DEF OpResumes
  <2>2. RejectedFrom(reg, op.mark) = {}
    BY <1>2, <1>3, <1>8, <1>12
  <2>3. LogPart' /\ meta' \in Metas /\ meta'.active = meta.active
    BY <1>2, <1>3, <1>4, <2>1, <2>2, RevertRestKeeps
  <2>4. OpInv'
    BY <2>1, NoOpIsTyped, NoOpIsFine
  <2> QED
    BY <1>1, <1>5, <2>1, <2>3, <2>4, NoOpIsTyped DEF Core, ChatTypes
<1> QED
  BY <1>9, <1>10, <1>11, <1>12

LEMMA OpRemovesKeeps ==
    ASSUME Core, NEW g \in Gadgets, OpRemoves(g), ~overlapped'
    PROVE  Core'
<1>1. gadget \in Registries
  BY DEF Core, ChatTypes
<1>2. g \in op.todo /\ ~MovedOn /\ OpResumes(g, Without(gadget, g))
      /\ UNCHANGED <<draft, turn>>
  BY DEF OpRemoves
<1>3. /\ Without(gadget, g) \in Registries /\ Fewer(Without(gadget, g), gadget)
      /\ ~Stamped(Without(gadget, g), g)
  BY <1>1, WithoutIsFewer
<1> QED
  BY <1>2, <1>3, OpResumesKeeps

LEMMA OpFailsToRemoveKeeps ==
    ASSUME Core, NEW g \in Gadgets, OpFailsToRemove(g), ~overlapped'
    PROVE  Core'
<1>1. /\ gadget \in Registries /\ meta \in Metas /\ turn \in Turns /\ LogPart
      /\ Len(log) \in Nat /\ draft \in BOOLEAN
  BY DEF Core, ChatTypes, LogPart, LogInv
<1>2. CASE op.at = "remove"
  <2>1. op' = NoOp /\ UNCHANGED <<log, meta, checkpoints, gadget, code, draft, turn>>
    BY <1>2 DEF OpFailsToRemove
  <2>2. LogPart'
    BY <1>1, <2>1 DEF LogPart
  <2>3. TurnInv'
    BY <2>1 DEF Core, TurnInv
  <2>4. OpInv'
    BY <2>1, NoOpIsTyped, NoOpIsFine
  <2> QED
    BY <1>1, <2>1, <2>2, <2>3, <2>4, NoOpIsTyped DEF Core, ChatTypes
<1>3. CASE op.at # "remove"
  <2>1. g \in op.todo /\ ~MovedOn /\ OpResumes(g, gadget) /\ UNCHANGED <<draft, turn>>
    BY <1>3 DEF OpFailsToRemove
  <2>2. Fewer(gadget, gadget)
    BY DEF Fewer
  <2> QED
    BY <1>1, <1>3, <2>1, <2>2, OpResumesKeeps
<1> QED
  BY <1>2, <1>3

-----------------------------------------------------------------------------
(* What a turn does.                                                       *)

LEMMA RecordedIsTyped ==
    ASSUME Core
    PROVE  /\ Recorded \in Registries
           /\ \A g \in Gadgets : Stamped(Recorded, g) =>
                 \/ Stamped(gadget, g) /\ Recorded[g].seq = gadget[g].seq
                 \/ g \in turn.adopted /\ Recorded[g].seq = Len(log) + 1
<1>1. gadget \in Registries /\ Len(log) \in Nat
  BY DEF Core, ChatTypes, LogPart, LogInv
<1>2. \A g \in Gadgets : Recorded[g] =
         IF g \in turn.adopted /\ gadget[g] = [at |-> "pending", seq |-> 0]
           THEN [gadget[g] EXCEPT !.seq = Len(log) + 1] ELSE gadget[g]
  BY DEF Recorded, StampedWith
<1>3. Recorded \in Registries
  <2>1. Recorded = [g \in Gadgets |-> Recorded[g]]
    BY DEF Recorded, StampedWith
  <2>2. ASSUME NEW g \in Gadgets
        PROVE  Recorded[g] \in [at : {"absent", "pending", "kept", "gone"}, seq : Nat]
    <3>1. gadget[g] \in [at : {"absent", "pending", "kept", "gone"}, seq : Nat]
      BY <1>1 DEF Registries
    <3>2. CASE g \in turn.adopted /\ gadget[g] = [at |-> "pending", seq |-> 0]
      <4>1. Recorded[g] = [at |-> "pending", seq |-> Len(log) + 1]
        BY <1>2, <3>2
      <4> QED
        BY <1>1, <4>1
    <3>3. CASE ~(g \in turn.adopted /\ gadget[g] = [at |-> "pending", seq |-> 0])
      BY <1>2, <3>1, <3>3, Zenon
    <3> QED
      BY <3>2, <3>3
  <2> QED
    BY <2>1, <2>2 DEF Registries
<1>4. ASSUME NEW g \in Gadgets, Stamped(Recorded, g)
      PROVE  \/ Stamped(gadget, g) /\ Recorded[g].seq = gadget[g].seq
             \/ g \in turn.adopted /\ Recorded[g].seq = Len(log) + 1
  BY <1>1, <1>2, <1>4 DEF Registries, Stamped
<1> QED
  BY <1>3, <1>4

LEMMA FlushKeeps ==
    ASSUME Core, NEW edited \in BOOLEAN, turn.at # "none", Flush(edited),
           UNCHANGED <<checkpoints, code, op>>, Fewer(gadget', Recorded)
    PROVE  /\ LogPart' /\ OpInv' /\ meta' \in Metas
           /\ meta'.to = meta.to /\ meta'.active = meta.active /\ meta.active
           /\ Len(log') \in Nat /\ Len(log') >= Len(log)
           /\ \A s \in 1..Len(log) : log'[s] = log[s]
           /\ \A s \in Len(log) + 1..Len(log') : log'[s].type # "revert"
<1> DEFINE m == Changes(turn.adopted, edited, FALSE)
<1>1. /\ meta \in Metas /\ turn \in Turns /\ log \in Seq(Messages) /\ Len(log) \in Nat
      /\ meta.active /\ LogPart
  BY DEF Core, ChatTypes, LogPart, LogInv, TurnInv
<1>2. \A g \in Gadgets : Stamped(gadget', g) =>
         \/ Stamped(gadget, g) /\ gadget'[g].seq = gadget[g].seq
         \/ g \in turn.adopted /\ gadget'[g].seq = Len(log) + 1
  BY RecordedIsTyped DEF Fewer
<1>3. CASE turn.adopted = {} /\ ~edited
  <2>1. UNCHANGED <<log, meta>>
    BY <1>3 DEF Flush
  <2>2. Fewer(gadget', gadget)
    BY <1>2, <1>3 DEF Fewer
  <2>3. LogPart'
    BY <1>1, <2>1, <2>2, LogStays
  <2>4. OpInv'
    BY <1>1, <2>1, OpIsBehind
  <2>5. \A s \in Len(log) + 1..Len(log') : log'[s].type # "revert"
    BY <1>1, <2>1
  <2>6. meta' \in Metas /\ meta'.to = meta.to /\ meta'.active = meta.active
    BY <1>1, <2>1
  <2> HIDE DEF m
  <2>7. Len(log') \in Nat /\ Len(log') >= Len(log) /\ \A s \in 1..Len(log) : log'[s] = log[s]
    BY <1>1, <2>1
  <2> QED
    BY <1>1, <2>3, <2>4, <2>5, <2>6, <2>7
<1>4. CASE ~(turn.adopted = {} /\ ~edited)
  <2>1. log' = Append(log, m) /\ meta' = [meta EXCEPT !.proposed = TRUE]
    BY <1>4, Zenon DEF Flush
  <2>2. m \in Plain /\ m \in Messages /\ m.type = "changes" /\ m.made = turn.adopted
    <3>1. turn.adopted \in SUBSET Gadgets
      BY <1>1 DEF Turns
    <3> QED
      BY <3>1 DEF Changes, Message, Plain, Messages, Types
  <2>3. meta' \in Metas /\ meta'.to = meta.to /\ meta'.active = meta.active
        /\ meta'.proposed
    BY <1>1, <2>1 DEF Metas
  <2> HIDE DEF m
  <2>4. Len(log') = Len(log) + 1 /\ log'[Len(log) + 1] = m
        /\ \A s \in 1..Len(log) : log'[s] = log[s]
    BY <1>1, <2>1, <2>2, Appended
  <2>5. LogPart'
    BY <1>1, <1>2, <2>1, <2>2, <2>3, LogPartGrows
  <2>6. OpInv'
    <3>1. op' = op /\ Len(log') \in Nat /\ Len(log') > Len(log)
      BY <1>1, <2>4
    <3> QED
      BY <3>1, OpIsOvertaken
  <2> QED
    BY <1>1, <2>2, <2>3, <2>4, <2>5, <2>6
<1> QED
  BY <1>3, <1>4

LEMMA OrphansAreGadgets == \A reg, l : Orphans(reg, l) \in SUBSET Gadgets
BY DEF Orphans

\* A turn that flushes, and rests then
LEMMA FlushingKeeps ==
    ASSUME Core, NEW edited \in BOOLEAN, turn.at # "none", Flush(edited),
           UNCHANGED <<checkpoints, code, draft, op>>,
           gadget' \in Registries, Fewer(gadget', Recorded),
           turn' \in Turns, turn'.at \notin {"replaying", "summarizing"}
    PROVE  Core'
<1>1. LogPart' /\ OpInv' /\ meta' \in Metas /\ meta'.active
  BY FlushKeeps
<1>2. TurnInv'
  BY <1>1, TurnRests
<1>3. draft' \in BOOLEAN /\ op' \in Ops
  BY DEF Core, ChatTypes
<1> QED
  BY <1>1, <1>2, <1>3 DEF Core, ChatTypes

\* A turn that only changes itself
LEMMA TurnAloneKeeps ==
    ASSUME Core, turn.at # "none",
           UNCHANGED <<log, meta, checkpoints, gadget, code, draft, op>>,
           turn' \in Turns, turn'.at \notin {"replaying", "summarizing"}
    PROVE  Core'
<1>1. LogPart' /\ OpInv' /\ meta' \in Metas /\ meta'.active
  BY DEF Core, ChatTypes, LogPart, OpInv, OpIsCurrent, TurnInv
<1>2. TurnInv'
  BY <1>1, TurnRests
<1> QED
  BY <1>1, <1>2 DEF Core, ChatTypes

LEMMA RecordedIsFewer == Fewer(Recorded, Recorded)
BY DEF Fewer

LEMMA FlushersKeep ==
    ASSUME Core, NEW edited \in BOOLEAN,
           Barrier(edited) \/ Finishes(edited) \/ FindsNothing(edited)
    PROVE  Core'
<1>1. turn.at # "none" /\ Flush(edited) /\ UNCHANGED <<checkpoints, code, draft, op>>
      /\ gadget' = Recorded
  BY DEF Barrier, Finishes, FindsNothing
<1>2. turn' \in Turns /\ turn'.at \notin {"replaying", "summarizing"}
  <2>1. CASE Barrier(edited)
    <3>1. turn \in Turns /\ turn.at = "prompting" /\ turn' = [turn EXCEPT !.adopted = {}]
      BY <2>1 DEF Barrier, Core, ChatTypes
    <3> QED
      BY <3>1 DEF Turns
  <2>2. CASE Finishes(edited) \/ FindsNothing(edited)
    <3>1. turn' = [NoTurn EXCEPT !.at = "ending", !.todo = Orphans(gadget', log')]
      BY <2>2 DEF Finishes, FindsNothing
    <3>2. Orphans(gadget', log') \in SUBSET Gadgets
      BY OrphansAreGadgets
    <3> QED
      BY <3>1, <3>2, TurnsAreTyped
  <2> QED
    BY <2>1, <2>2
<1> QED
  BY <1>1, <1>2, RecordedIsTyped, RecordedIsFewer, FlushingKeeps

LEMMA CreatesGadgetKeeps ==
    ASSUME Core, NEW edited \in BOOLEAN, NEW g \in Gadgets, CreatesGadget(g, edited)
    PROVE  Core'
<1>1. turn.at = "prompting" /\ Flush(edited) /\ UNCHANGED <<checkpoints, code, draft, op>>
      /\ gadget' = [Recorded EXCEPT ![g] = [at |-> "pending", seq |-> 0]]
      /\ turn' = [turn EXCEPT !.adopted = {g}, !.calls = @ \union {g}]
  BY DEF CreatesGadget
<1>2. turn \in Turns /\ Recorded \in Registries
  BY RecordedIsTyped DEF Core, ChatTypes
<1>3. turn' \in Turns /\ turn'.at = "prompting"
  BY <1>1, <1>2 DEF Turns
<1>4. gadget' \in Registries /\ Fewer(gadget', Recorded)
  BY <1>1, <1>2 DEF Registries, Fewer, Stamped
<1> QED
  BY <1>1, <1>3, <1>4, FlushingKeeps

LEMMA CompactsKeeps ==
    ASSUME Core, NEW edited \in BOOLEAN, Compacts(edited)
    PROVE  Core'
<1>1. turn.at = "replaying" /\ Flush(edited) /\ UNCHANGED <<checkpoints, code, draft, op>>
      /\ gadget' = Recorded
  BY DEF Compacts
<1>2. PICK cut \in Boundaries(turn.base, turn.seen) :
          turn' = [turn EXCEPT !.at = "summarizing", !.cut = cut, !.adopted = {}]
  BY DEF Compacts
<1>3. /\ turn \in Turns /\ turn.base = meta.to /\ meta.to \in 1..Len(log)
      /\ Len(log) \in Nat /\ log \in Seq(Messages)
      /\ turn.seen \in 1..Len(log)
      /\ \A s \in turn.seen + 1..Len(log) : log[s].type # "revert"
      /\ \A s \in 1..Len(log) : log[s].type = "revert" => log[s].mark > 0
  BY <1>1, CheckpointIsExact DEF Core, ChatTypes, TurnInv, LogPart, LogInv
<1>4. /\ LogPart' /\ OpInv' /\ meta' \in Metas
      /\ meta'.to = meta.to /\ meta'.active = meta.active /\ meta.active
      /\ Len(log') \in Nat /\ Len(log') >= Len(log)
      /\ \A s \in 1..Len(log) : log'[s] = log[s]
      /\ \A s \in Len(log) + 1..Len(log') : log'[s].type # "revert"
  BY <1>1, RecordedIsFewer, FlushKeeps
<1>5. /\ cut \in turn.base + 1..turn.seen
      /\ \A s \in cut..turn.seen : log[s].type = "revert" => log[s].mark >= cut
  <2>1. PICK q \in turn.base..turn.seen :
            cut = protectRetainedReverts(q, turn.base, turn.seen) /\ cut > turn.base
    BY DEF Boundaries
  <2> DEFINE S == {c \in 1..q : \A seq \in turn.base..turn.seen :
                       log[seq].type = "revert" /\ seq >= c => log[seq].mark >= c}
  <2>2. cut = Max(S)
    BY <2>1 DEF protectRetainedReverts
  <2>3. 1 \in S
    <3>1. ASSUME NEW seq \in turn.base..turn.seen, log[seq].type = "revert"
          PROVE  log[seq].mark >= 1
      <4>1. seq \in 1..Len(log)
        BY <1>3
      <4>2. log[seq].mark \in Nat /\ log[seq].mark > 0
        BY <1>3, <3>1, <4>1, MessagesAreTyped
      <4> QED
        BY <4>2
    <3> QED
      BY <1>3, <3>1
  <2>4. cut \in S
    <3>1. S \in SUBSET (0..q) /\ S # {} /\ q \in Nat
      BY <1>3, <2>3
    <3> HIDE DEF S
    <3> QED
      BY <2>2, <3>1, MaxOfBounded
  <2> QED
    BY <1>3, <2>1, <2>4
<1>6. turn' \in Turns /\ turn'.at = "summarizing" /\ turn'.cut = cut
      /\ turn'.base = turn.base /\ turn'.seen = turn.seen
  <2>1. cut \in Nat
    BY <1>3, <1>5
  <2> QED
    BY <1>2, <1>3, <2>1 DEF Turns
<1>7. \A s \in turn.seen + 1..Len(log') : log'[s].type # "revert"
  BY <1>3, <1>4
<1>8. \A s \in cut..turn.seen : log'[s].type = "revert" => log'[s].mark >= cut
  <2>1. \A s \in cut..turn.seen : s \in 1..Len(log)
    BY <1>3, <1>5
  <2> QED
    BY <1>4, <1>5, <2>1
<1>9. TurnInv'
  BY <1>3, <1>4, <1>5, <1>6, <1>7, <1>8 DEF TurnInv
<1>10. gadget' \in Registries /\ draft' \in BOOLEAN /\ op' \in Ops
  BY <1>1, RecordedIsTyped DEF Core, ChatTypes
<1> QED
  BY <1>4, <1>6, <1>9, <1>10 DEF Core, ChatTypes

LEMMA TurnReapsKeeps ==
    ASSUME Core, NEW g \in Gadgets, TurnReaps(g)
    PROVE  Core'
<1>1. /\ gadget \in Registries /\ turn \in Turns /\ LogPart /\ TurnInv
      /\ turn' = [turn EXCEPT !.todo = @ \ {g}]
      /\ gadget' \in {Without(gadget, g), gadget}
      /\ UNCHANGED <<log, meta, checkpoints, code, draft, op>>
  BY DEF TurnReaps, Core, ChatTypes
<1>2. gadget' \in Registries /\ Fewer(gadget', gadget)
  <2>1. Fewer(gadget, gadget)
    BY DEF Fewer
  <2> QED
    BY <1>1, <2>1, WithoutIsFewer
<1>3. /\ turn' \in Turns /\ turn'.at = turn.at /\ turn'.base = turn.base
      /\ turn'.seen = turn.seen /\ turn'.cut = turn.cut
  BY <1>1 DEF Turns
<1>4. LogPart'
  BY <1>1, <1>2, LogStays
<1>5. TurnInv'
  BY <1>1, <1>3 DEF TurnInv
<1>6. OpInv'
  BY <1>1, <1>2, OpWaits
<1> QED
  BY <1>1, <1>2, <1>3, <1>4, <1>5, <1>6 DEF Core, ChatTypes

LEMMA ReadTailKeeps ==
    ASSUME Core, ReadTail
    PROVE  Core'
<1> DEFINE Made(type) == UNION {log[s].made : s \in {q \in meta.to..Len(log) :
                                                      log[q].type = type}}
           adopted == Made("step") \ Made("changes")
<1>1. /\ turn.at = "reaping" /\ meta.active
      /\ UNCHANGED <<log, meta, checkpoints, gadget, code, draft, op>>
      /\ turn' = [NoTurn EXCEPT !.at = "replaying", !.base = meta.to,
                                !.seen = Len(log),
                                !.adopted = adopted]
  BY DEF ReadTail, Core, TurnInv
<1>2. log \in Seq(Messages) /\ meta.to \in 1..Len(log) /\ Len(log) \in Nat /\ Len(log) > 0
  BY CheckpointIsExact DEF Core, LogPart, LogInv
<1>3. adopted \in SUBSET Gadgets
  <2>1. \A s \in meta.to..Len(log) : log[s].made \subseteq Gadgets
    BY <1>2, MessagesAreTyped
  <2> QED
    BY <2>1
<1> HIDE DEF adopted
<1>4. /\ turn' \in Turns /\ turn'.at = "replaying" /\ turn'.base = meta.to
      /\ turn'.seen = Len(log)
  <2>1. turn' = [at |-> "replaying", todo |-> {}, base |-> meta.to,
                 seen |-> Len(log), cut |-> 0, adopted |-> adopted, calls |-> {}]
    BY <1>1 DEF NoTurn
  <2>2. meta.to \in Nat
    BY <1>2
  <2> QED
    BY <1>2, <1>3, <2>1, <2>2 DEF Turns
<1>5. TurnInv'
  BY <1>1, <1>2, <1>4 DEF TurnInv
<1>6. LogPart' /\ OpInv'
  BY <1>1 DEF Core, LogPart, OpInv, OpIsCurrent
<1> QED
  BY <1>1, <1>4, <1>5, <1>6 DEF Core, ChatTypes

\* The turns that end or begin, whatever they still have to reap
LEMMA EndingIsTyped ==
    /\ \A todo \in SUBSET Gadgets :
          /\ [NoTurn EXCEPT !.at = "ending", !.todo = todo] \in Turns
          /\ [NoTurn EXCEPT !.at = "ending", !.todo = todo].at = "ending"
    /\ [NoTurn EXCEPT !.at = "reaping"] \in Turns
    /\ [NoTurn EXCEPT !.at = "reaping"].at = "reaping"
BY TurnsAreTyped

LEMMA SummarizedKeeps ==
    ASSUME Core, Summarized
    PROVE  Core'
<1> DEFINE c == [to |-> turn.cut, accepted |-> AcceptedIn(log, turn.cut - 1),
                 proposed |-> OpenIn(log, turn.cut - 1)]
           left == {d \in checkpoints : d.to # turn.cut} \union {c}
<1>1. /\ turn.at = "summarizing" /\ meta.active /\ meta \in Metas
      /\ LogInv(log, meta.to, checkpoints, code)
      /\ meta.to \in 1..Len(log) /\ Len(log) \in Nat
      /\ turn.base = meta.to /\ turn.seen \in 1..Len(log)
      /\ turn.cut \in meta.to + 1..turn.seen
      /\ \A s \in turn.seen + 1..Len(log) : log[s].type # "revert"
      /\ \A s \in turn.cut..turn.seen :
            log[s].type = "revert" => log[s].mark >= turn.cut
  BY CheckpointIsExact DEF Summarized, Core, TurnInv, ChatTypes, LogPart
<1>2. turn.cut \in meta.to + 1..Len(log) /\ turn.cut \in Nat
  BY <1>1
<1>3. checkpoints' = left
  <2>1. buildCompactionState(turn.base, turn.cut) = c
    BY <1>1, <1>2, BuildIsExact
  <2>2. checkpoints' = {d \in checkpoints : d.to # turn.cut}
                         \union {buildCompactionState(turn.base, turn.cut)}
    BY DEF Summarized
  <2> HIDE DEF c
  <2> QED
    BY <2>1, <2>2
<1>4. \A s \in turn.cut..Len(log) : log[s].type = "revert" => log[s].mark >= turn.cut
  <2>1. ASSUME NEW s \in turn.cut..Len(log)
        PROVE  s \in turn.cut..turn.seen \/ s \in turn.seen + 1..Len(log)
    BY <1>1, <1>2
  <2> QED
    BY <1>1, <2>1
<1>5. LogInv(log, turn.cut, left, code)
  BY <1>1, <1>2, <1>4, SummaryKeepsLog
<1> HIDE DEF left
<1>6. /\ UNCHANGED <<log, gadget, code, draft, op>>
      /\ meta' = [meta EXCEPT !.to = turn.cut]
      /\ turn' = IF IsCompactionTurn
                   THEN [NoTurn EXCEPT !.at = "ending", !.todo = Orphans(gadget, log)]
                   ELSE [NoTurn EXCEPT !.at = "reaping"]
  BY DEF Summarized
<1>7. meta' \in Metas /\ meta'.to = turn.cut /\ meta'.active /\ meta'.proposed = meta.proposed
  BY <1>1, <1>2, <1>6 DEF Metas
<1>8. LogPart'
  BY <1>3, <1>5, <1>6, <1>7 DEF Core, LogPart
<1>9. turn' \in Turns /\ turn'.at \notin {"replaying", "summarizing"}
  <2>1. CASE IsCompactionTurn
    BY <1>6, <2>1, EndingIsTyped, OrphansAreGadgets
  <2>2. CASE ~IsCompactionTurn
    BY <1>6, <2>2, EndingIsTyped
  <2> QED
    BY <2>1, <2>2
<1>10. TurnInv'
  BY <1>7, <1>9, TurnRests
<1>11. OpInv'
  BY <1>1, <1>6, OpIsBehind
<1> QED
  BY <1>6, <1>7, <1>8, <1>9, <1>10, <1>11 DEF Core, ChatTypes

LEMMA SteppersKeep ==
    ASSUME Core, SummaryFails \/ Prompts \/ FailsEarly \/ Resume
    PROVE  Core'
<1>1. /\ turn.at # "none" /\ turn \in Turns
      /\ UNCHANGED <<log, meta, checkpoints, gadget, code, draft, op>>
  BY DEF SummaryFails, Prompts, FailsEarly, Resume, Core, ChatTypes
<1>2. Prompting \in Turns /\ Prompting.at = "prompting"
  BY <1>1 DEF Prompting, NoTurn, Turns
<1>3. turn' \in Turns /\ turn'.at \notin {"replaying", "summarizing"}
  <2>1. CASE SummaryFails
    <3>1. CASE IsCompactionTurn
      <4>1. turn' = [NoTurn EXCEPT !.at = "ending", !.todo = Orphans(gadget, log)]
        BY <2>1, <3>1 DEF SummaryFails
      <4> QED
        BY <4>1, EndingIsTyped, OrphansAreGadgets
    <3>2. CASE ~IsCompactionTurn
      BY <1>2, <2>1, <3>2 DEF SummaryFails
    <3> QED
      BY <3>1, <3>2
  <2>2. CASE Prompts
    BY <1>2, <2>2 DEF Prompts
  <2>3. CASE FailsEarly
    <3>1. turn' = [NoTurn EXCEPT !.at = "ending", !.todo = Orphans(gadget, log)]
      BY <2>3 DEF FailsEarly
    <3> QED
      BY <3>1, EndingIsTyped, OrphansAreGadgets
  <2>4. CASE Resume
    <3>1. turn' = [NoTurn EXCEPT !.at = "reaping", !.todo = Orphans(gadget, log)]
      BY <2>4 DEF Resume
    <3> QED
      BY <3>1, TurnsAreTyped, OrphansAreGadgets
  <2> QED
    BY <2>1, <2>2, <2>3, <2>4
<1> QED
  BY <1>1, <1>3, TurnAloneKeeps

LEMMA StepEndsKeeps ==
    ASSUME Core, StepEnds
    PROVE  Core'
<1> DEFINE m == Step(turn.calls)
<1>1. /\ turn \in Turns /\ turn.at = "prompting" /\ log \in Seq(Messages)
      /\ Len(log) \in Nat /\ meta.active
      /\ log' = Append(log, m) /\ turn' = [turn EXCEPT !.calls = {}]
      /\ UNCHANGED <<meta, checkpoints, gadget, code, draft, op>>
  BY DEF StepEnds, Core, ChatTypes, LogPart, LogInv, TurnInv
<1>2. m \in Plain /\ m.type = "step" /\ m \in Messages
  BY <1>1, MessagesArePlain DEF Turns, Plain
<1>3. turn' \in Turns /\ turn'.at = "prompting"
  BY <1>1 DEF Turns
<1> HIDE DEF m
<1>4. LogPart'
  BY <1>1, <1>2, LogPartGrows DEF Core
<1>5. TurnInv'
  BY <1>1, <1>3, TurnRests
<1>6. OpInv'
  <2>1. Len(log') \in Nat /\ Len(log') > Len(log)
    BY <1>1, <1>2, Appended
  <2> QED
    BY <1>1, <2>1, OpIsOvertaken
<1> QED
  BY <1>1, <1>3, <1>4, <1>5, <1>6 DEF Core, ChatTypes

\* The turn is over, or cannot go on after a restart.
LEMMA TurnsEndKeeps ==
    ASSUME Core, EndTurn \/ ResumeFails
    PROVE  Core'
<1>1. /\ turn.at # "none" /\ meta.active /\ meta \in Metas
      /\ turn' = NoTurn /\ meta' = [meta EXCEPT !.active = FALSE]
      /\ UNCHANGED <<log, checkpoints, gadget, code, draft, op>>
  BY DEF EndTurn, ResumeFails, Core, ChatTypes, TurnInv
<1>2. meta' \in Metas /\ meta'.to = meta.to /\ meta'.proposed = meta.proposed
  BY <1>1 DEF Metas
<1>3. LogPart'
  BY <1>1, <1>2 DEF Core, LogPart
<1>4. TurnInv'
  BY <1>1, TurnsAreTyped, TurnRests
<1>5. OpInv'
  BY <1>1, OpIsBehind
<1> QED
  BY <1>1, <1>2, <1>3, <1>4, <1>5, TurnsAreTyped DEF Core, ChatTypes

LEMMA ChangesRestartKeeps ==
    ASSUME Core, ChangesRestart
    PROVE  Core'
<1>1. /\ op' = NoOp /\ UNCHANGED <<log, meta, checkpoints, gadget, code, draft>>
      /\ turn' = IF meta.active THEN [NoTurn EXCEPT !.at = "resuming"] ELSE NoTurn
  BY DEF ChangesRestart
<1>2. /\ turn' \in Turns /\ turn'.at \notin {"replaying", "summarizing"}
      /\ turn'.at # "none" => meta.active
  BY <1>1, TurnsAreTyped
<1>3. LogPart'
  BY <1>1 DEF Core, LogPart
<1>4. TurnInv' /\ OpInv'
  BY <1>1, <1>2, TurnRests, NoOpIsTyped, NoOpIsFine
<1> QED
  BY <1>1, <1>2, <1>3, <1>4, NoOpIsTyped DEF Core, ChatTypes

LEMMA NothingKeeps ==
    ASSUME Core, UNCHANGED changesVars
    PROVE  Core'
BY DEF changesVars, Core, ChatTypes, LogPart, TurnInv, OpInv, OpIsCurrent

\* No step leads from a sound chat to an unsound one, as long as no operation
\* goes on after the chat has moved on.
LEMMA StepKeeps ==
    ASSUME ChatInv, [ChangesNext]_changesVars
    PROVE  ChatInv'
<1> SUFFICES ASSUME ~overlapped' PROVE Core'
  BY DEF ChatInv
<1>1. CASE UNCHANGED changesVars
  <2>1. ~overlapped
    BY <1>1 DEF changesVars
  <2> QED
    BY <1>1, <2>1, NothingKeeps DEF ChatInv
<1>2. CASE ChangesNext
  <2>1. Core
    BY <1>2 DEF ChatInv, ChangesNext
  <2>2. CASE UserNext
    <3>1. CASE EditDraft \/ FinalizeDraft \/ DiscardDraft \/ Accept
      BY <2>1, <3>1, EditDraftKeeps, FinalizeDraftKeeps, DiscardDraftKeeps, AcceptKeeps
    <3>2. CASE \E from \in RevertTargets : Revert(from)
      BY <2>1, <3>2, RevertKeeps
    <3>3. CASE \E g \in Gadgets : UserCreates(g) \/ OpRemoves(g) \/ OpFailsToRemove(g)
      BY <2>1, <3>3, UserCreatesKeeps, OpRemovesKeeps, OpFailsToRemoveKeeps
    <3>4. CASE \E type \in {"prompt", "compact"} : StartTurn(type)
      BY <2>1, <3>4, StartTurnKeeps
    <3> QED
      BY <2>2, <3>1, <3>2, <3>3, <3>4 DEF UserNext
  <2>3. CASE TurnNext
    <3>1. CASE \E g \in Gadgets : TurnReaps(g)
      BY <2>1, <3>1, TurnReapsKeeps
    <3>2. CASE \E edited \in BOOLEAN :
                  Barrier(edited) \/ Finishes(edited) \/ FindsNothing(edited)
      BY <2>1, <3>2, FlushersKeep
    <3>3. CASE \E edited \in BOOLEAN :
                  Compacts(edited) \/ \E g \in Gadgets : CreatesGadget(g, edited)
      BY <2>1, <3>3, CompactsKeeps, CreatesGadgetKeeps
    <3>4. CASE ReadTail \/ Summarized \/ StepEnds
      BY <2>1, <3>4, ReadTailKeeps, SummarizedKeeps, StepEndsKeeps
    <3>5. CASE SummaryFails \/ Prompts \/ FailsEarly \/ Resume
      BY <2>1, <3>5, SteppersKeep
    <3>6. CASE EndTurn \/ ResumeFails
      BY <2>1, <3>6, TurnsEndKeeps
    <3> QED
      BY <2>3, <3>1, <3>2, <3>3, <3>4, <3>5, <3>6 DEF TurnNext
  <2>4. CASE ChangesRestart
    BY <2>1, <2>4, ChangesRestartKeeps
  <2> QED
    BY <1>2, <2>2, <2>3, <2>4 DEF ChangesNext
<1> QED
  BY <1>1, <1>2

\* The invariant that the properties below follow from.
THEOREM ChatInvariance == ChangesSpec => []ChatInv
<1>1. ChangesInit => ChatInv
  BY InitIsFine DEF ChatInv
<1>2. ChatInv /\ [ChangesNext]_changesVars => ChatInv'
  BY StepKeeps
<1> QED
  BY <1>1, <1>2, PTL DEF ChangesSpec

-----------------------------------------------------------------------------
(* What follows from it.                                                   *)

\* The mainline has just the code that the log says was accepted.
THEOREM MainlineAccepted == ChangesSpec => []MainlineIsAccepted
<1>1. ChatInv => MainlineIsAccepted
  <2> SUFFICES ASSUME ChatInv, ~overlapped PROVE code = InFull.accepted
    BY DEF MainlineIsAccepted
  <2>1. Len(log) \in Nat /\ code = AcceptedIn(log, Len(log))
    BY DEF ChatInv, Core, LogPart, LogInv
  <2> QED
    BY <2>1, FullIsFates DEF InFull
<1> QED
  BY <1>1, ChatInvariance, PTL

\* No change gets lost.
THEOREM ProposalsOffered == ChangesSpec => []ProposalsAreOffered
<1>1. ChatInv => ProposalsAreOffered
  <2> DEFINE open == UpdatesOf(InFull.proposed)
  <2> SUFFICES ASSUME ChatInv, ~overlapped
               PROVE  /\ open \subseteq UpdatesOf(Offered)
                      /\ open # {} \/ (\E g \in Gadgets : Stamped(gadget, g))
                           => meta.proposed
    BY Zenon DEF ProposalsAreOffered
  <2>1. /\ Len(log) \in Nat /\ LogInv(log, meta.to, checkpoints, code)
        /\ FlagInv(log, gadget, meta.proposed)
    BY DEF ChatInv, Core, LogPart, LogInv
  <2>2. open = OpenIn(log, Len(log))
    BY <2>1, FullIsFates DEF InFull
  <2> HIDE DEF open
  <2>3. ASSUME NEW s \in open
        PROVE  s \in UpdatesOf(Offered)
    <3>1. s \in Pending(log, Len(log)) /\ log[s].code
      BY <2>2 DEF OpenIn
    <3>2. \E b \in Offered : s \in b.updates
      BY <2>1, <3>1, OpenIsOffered DEF Offered
    <3> QED
      BY <3>2 DEF UpdatesOf
  <2> QED
    BY <2>1, <2>2, <2>3 DEF FlagInv
<1> QED
  BY <1>1, ChatInvariance, PTL

\* The user can still decide about a gadget that a message records.
THEOREM PendingBacked == ChangesSpec => []PendingIsBacked
<1>1. ChatInv => PendingIsBacked
  <2> SUFFICES ASSUME ChatInv, ~overlapped, NEW g \in Gadgets, Stamped(gadget, g)
               PROVE  /\ g \in log[gadget[g].seq].made
                      /\ \E b \in InFull.proposed : b.at = gadget[g].seq
    BY DEF PendingIsBacked
  <2>1. Len(log) \in Nat /\ GadgetInv(log, gadget)
    BY DEF ChatInv, Core, LogPart, LogInv
  <2>2. gadget[g].seq \in Pending(log, Len(log)) /\ g \in log[gadget[g].seq].made
    BY <2>1 DEF GadgetInv
  <2>3. {b.at : b \in InFull.proposed} = Pending(log, Len(log))
    BY <2>1, FullIsFates DEF InFull
  <2>4. \E b \in InFull.proposed : b.at = gadget[g].seq
    BY <2>2, <2>3
  <2> QED
    BY <2>2, <2>4
<1> QED
  BY <1>1, ChatInvariance, PTL

\* The change that a rejection names was not compacted.
THEOREM RevertsRetained == ChangesSpec => []RevertsAreRetained
<1>1. ChatInv => RevertsAreRetained
  <2> SUFFICES ASSUME ChatInv, ~overlapped
               PROVE  \A s \in meta.to..Len(log) :
                         log[s].type = "revert" => log[s].mark >= meta.to
    BY DEF RevertsAreRetained
  <2> QED
    BY RevertsSpareThePrefix DEF ChatInv, Core, LogPart
<1> QED
  BY <1>1, ChatInvariance, PTL

\* What decides first is what covers first, except that a merge does not
\* cover the message that it names.
LEMMA RejectedIsReverted ==
    ASSUME LogInv(log, meta.to, checkpoints, code), NEW s \in meta.to..Len(log),
           Fate(log, 1, Len(log), s) = "revert"
    PROVE  Reverted(s)
<1> DEFINE covering == {m \in meta.to..Len(log) : Covers(m, s)}
<1>1. meta.to \in 1..Len(log) /\ Len(log) \in Nat /\ log \in Seq(Messages)
  BY CheckpointIsExact DEF LogInv
<1>2. PICK d \in 1..Len(log) : Decides(log, 1, d, s) /\ log[d].type = "revert"
  <2>1. ~ Unsettled(log, 1, Len(log), s) /\ s \in Nat
    BY <1>1, UnsettledIsProposed
  <2>2. PICK d \in 1..Len(log) : Decides(log, 1, d, s)
    BY <1>1, <2>1, SomethingDecides
  <2> QED
    BY <1>1, <2>1, <2>2, DecidedIsDecided
<1>3. d \in covering /\ covering \subseteq Nat
  BY <1>1, <1>2 DEF Decides, Settles, Covers
<1>4. Min(covering) \in covering /\ Min(covering) <= d
  BY <1>3, MinOfNats
<1> DEFINE m == Min(covering)
<1>5. m \in meta.to..Len(log) /\ Covers(m, s) /\ m <= d
  BY <1>4
<1> HIDE DEF m
<1>6. log[m].type # "merge"
  <2>1. SUFFICES ASSUME log[m].type = "merge" PROVE FALSE
    OBVIOUS
  <2>2. m \in 1..Len(log) /\ m # d
    BY <1>1, <1>2, <1>5, <2>1
  <2>3. s < log[m].mark /\ log[m].mark < m /\ log[m].mark \in Nat
    BY <1>1, <1>5, <2>1, <2>2, MessagesAreTyped DEF Covers, LogInv, MergesTakeAll
  <2>4. Settles(log[m], s) /\ m > s
    BY <1>1, <2>1, <2>2, <2>3 DEF Settles
  <2>5. m \in 1..d - 1
    BY <1>1, <1>5, <2>2
  <2> QED
    BY <1>2, <2>4, <2>5 DEF Decides, Unsettled
<1>7. log[m].type = "revert"
  BY <1>5, <1>6 DEF Covers
<1> QED
  BY <1>4, <1>7 DEF Reverted, m

LEMMA RevertedIsRejected ==
    ASSUME LogInv(log, meta.to, checkpoints, code), NEW s \in meta.to..Len(log),
           Reverted(s), Fate(log, 1, Len(log), s) # "revert"
    PROVE  \E d \in DOMAIN log : log[d].type = "merge" /\ log[d].mark = s
<1> DEFINE covering == {m \in meta.to..Len(log) : Covers(m, s)}
           m == Min(covering)
<1>1. meta.to \in 1..Len(log) /\ Len(log) \in Nat /\ log \in Seq(Messages)
  BY CheckpointIsExact DEF LogInv
<1>2. covering # {} /\ log[m].type = "revert"
  BY DEF Reverted
<1>3. m \in covering /\ \A q \in covering : m <= q
  <2>1. covering \subseteq Nat
    BY <1>1
  <2> HIDE DEF covering
  <2> QED
    BY <1>2, <2>1, MinOfNats
<1> HIDE DEF m
<1>4. m \in meta.to..Len(log) /\ m \in 1..Len(log) /\ Settles(log[m], s) /\ m > s
  BY <1>1, <1>2, <1>3 DEF Covers, Settles
<1>5. ~ Unsettled(log, 1, Len(log), s)
  BY <1>4 DEF Unsettled
<1>6. PICK d \in 1..Len(log) : Decides(log, 1, d, s)
  BY <1>1, <1>5, SomethingDecides
<1>7. Fate(log, 1, Len(log), s) = log[d].type
  BY <1>1, <1>6, DecidedIsDecided
<1>8. log[d].type = "merge" /\ s <= log[d].mark /\ d > s /\ log[d].mark \in Nat
  BY <1>1, <1>6, <1>7, MessagesAreTyped DEF Decides, Settles
<1>9. d < m
  <2>1. ~ (m \in 1..d - 1)
    BY <1>4, <1>6 DEF Decides, Unsettled
  <2>2. d # m
    BY <1>2, <1>8
  <2> QED
    BY <1>1, <1>4, <2>1, <2>2
<1>10. ~ Covers(d, s)
  BY <1>1, <1>3, <1>4, <1>8, <1>9
<1>11. log[d].mark = s
  BY <1>1, <1>8, <1>10 DEF Covers
<1>12. d \in DOMAIN log
  BY <1>1
<1> QED
  BY <1>8, <1>11, <1>12

\* The agent works on what the log says is proposed or accepted.
THEOREM ReplayFollows == ChangesSpec => []ReplayFollowsLog
<1>1. ChatInv => ReplayFollowsLog
  <2> DEFINE kept == InFull.accepted \union UpdatesOf(InFull.proposed)
             n == Len(log)
             to == meta.to
  <2> SUFFICES ASSUME ChatInv, ~overlapped
               PROVE  /\ Replayed \subseteq kept
                      /\ \A s \in kept \ Replayed :
                            \E m \in DOMAIN log : log[m].type = "merge" /\ log[m].mark = s
    BY Zenon DEF ReplayFollowsLog
  <2>1. LogInv(log, to, checkpoints, code)
    BY DEF ChatInv, Core, LogPart
  <2>2. to \in 1..n /\ n \in Nat
        /\ CheckpointAt(checkpoints, to).proposed = OpenIn(log, to - 1)
        /\ CheckpointAt(checkpoints, to).accepted = AcceptedIn(log, to - 1)
    BY <2>1, CheckpointIsExact
  <2>3. kept = AcceptedIn(log, n) \union OpenIn(log, n)
    BY <2>2, FullIsFates DEF InFull
  <2>4. Replayed = AcceptedIn(log, to - 1) \union OpenIn(log, to - 1) \union
            {s \in to..n : log[s].type = "changes" /\ log[s].code /\ ~Reverted(s)}
    BY <2>2 DEF Replayed
  <2> HIDE DEF kept
  <2>5. ASSUME NEW s \in 1..n, log[s].type = "changes", log[s].code
        PROVE  s \in kept <=> Fate(log, 1, n, s) # "revert"
    <3>1. Fate(log, 1, n, s) \in {"proposed", "merge", "revert"}
      <4>1. CASE Unsettled(log, 1, n, s)
        BY <2>2, <4>1, UnsettledIsProposed
      <4>2. CASE ~ Unsettled(log, 1, n, s)
        <5>1. PICK d \in 1..n : Decides(log, 1, d, s)
          BY <2>2, <4>2, SomethingDecides
        <5>2. Fate(log, 1, n, s) = log[d].type
          BY <2>2, <5>1, DecidedIsDecided
        <5> QED
          BY <5>1, <5>2, SettlerTypes DEF Decides
      <4> QED
        BY <4>1, <4>2
    <3> QED
      BY <2>3, <2>5, <3>1 DEF AcceptedIn, OpenIn, Pending
  <2>6. ASSUME NEW s \in Replayed
        PROVE  s \in kept
    <3>1. CASE s \in AcceptedIn(log, to - 1)
      <4>1. s \in 1..to - 1 /\ s \in 1..n /\ log[s].type = "changes" /\ log[s].code
            /\ Fate(log, 1, to - 1, s) = "merge"
        BY <2>2, <3>1 DEF AcceptedIn
      <4>2. to - 1 \in Nat /\ to - 1 <= n /\ s \in Nat
        BY <2>2, <4>1
      <4>3. Fate(log, 1, n, s) = "merge"
        BY <2>2, <4>1, <4>2, FateStays
      <4> QED
        BY <2>5, <4>1, <4>3
    <3>2. CASE s \in OpenIn(log, to - 1)
      <4>1. s \in Pending(log, to - 1) /\ s \in 1..n /\ log[s].type = "changes" /\ log[s].code
        BY <2>2, <3>2 DEF OpenIn, Pending
      <4>2. Fate(log, 1, n, s) \in {"proposed", "merge"}
        BY <2>1, <2>2, <4>1, TailAcceptsPrefix
      <4> QED
        BY <2>5, <4>1, <4>2
    <3>3. CASE s \in to..n /\ log[s].type = "changes" /\ log[s].code /\ ~Reverted(s)
      BY <2>1, <2>2, <2>5, <3>3, RejectedIsReverted
    <3> QED
      BY <2>4, <3>1, <3>2, <3>3
  <2>7. ASSUME NEW s \in kept, s \notin Replayed
        PROVE  \E m \in DOMAIN log : log[m].type = "merge" /\ log[m].mark = s
    <3>1. s \in 1..n /\ log[s].type = "changes" /\ log[s].code
      BY <2>3 DEF AcceptedIn, OpenIn, Pending
    <3>2. Fate(log, 1, n, s) # "revert"
      BY <2>5, <3>1
    <3>3. s >= to
      <4>1. SUFFICES ASSUME s \in 1..to - 1 PROVE FALSE
        BY <2>2, <3>1
      <4>2. Fate(log, 1, to - 1, s) # "proposed" /\ Fate(log, 1, to - 1, s) # "merge"
        BY <2>4, <2>7, <3>1, <4>1 DEF AcceptedIn, OpenIn, Pending
      <4>3. to - 1 \in Nat /\ to - 1 <= n /\ s \in Nat
        BY <2>2, <4>1
      <4>4. Fate(log, 1, n, s) = Fate(log, 1, to - 1, s)
        BY <2>2, <4>2, <4>3, FateStays
      <4> QED
        BY <2>3, <2>7, <4>2, <4>4 DEF AcceptedIn, OpenIn, Pending
    <3>4. s \in to..n /\ Reverted(s)
      BY <2>2, <2>4, <2>7, <3>1, <3>3
    <3> QED
      BY <2>1, <2>2, <3>2, <3>4, RevertedIsRejected
  <2> QED
    BY <2>6, <2>7
<1> QED
  BY <1>1, ChatInvariance, PTL
=============================================================================
