------------------------- MODULE ActionQueueProofs -------------------------
(***************************************************************************)
(* That no drain goes past a human gate, and that no request for one gets  *)
(* lost, for any number of gatekeepers, kinds of actions, users and        *)
(* actions.                                                                *)
(***************************************************************************)
EXTENDS QueueService, FiniteSetTheorems, WellFoundedInduction, TLAPS

-----------------------------------------------------------------------------
(* The inductive invariant.  A drain works off a snapshot: what it knows of  *)
(* the present is that everything that is pending on its gatekeeper is the   *)
(* action it applies, or comes later in the snapshot, or was submitted after *)
(* it was taken.                                                             *)

\* An action that was filed with gatekeeper g
FiledWith(acts, id, g) == acts[id] \in Record /\ acts[id].kind.gk = g

\* ids holds all that is pending on g, up to what was submitted after all of ids.
Covers(ids, acts, g) ==
  \A j \in PendingOn(acts, g) : j \in ids \/ \A k \in ids : k < j

\* Where the drain of g stands, in a table of actions
InOrder(d, acts, g) ==
  /\ d.on => /\ d.cur \in Ids
             /\ \A k \in d.rest : d.cur < k
             /\ \A k \in d.rest \cup {d.cur} : FiledWith(acts, k, g)
             /\ acts[d.cur].kind.autoApprovable
             /\ Covers(d.rest \cup {d.cur}, acts, g)
  /\ ~d.on => d.cur = 0

DrainsInOrder == \A g \in Gatekeepers : InOrder(drain[g], actions, g)

\* Ids that were not given out have no record, the others have one.
FutureIsBlank == \A id \in Ids : actions[id] \in Record <=> id < nextActionId

\* A user's call is about an action that was filed.
OpsAreFiled == \A c \in Clients : ops[c].pc # "idle" => ops[c].id \in Ids /\ actions[ops[c].id] \in Record

IInv == TypeOK /\ FutureIsBlank /\ DrainsInOrder /\ OpsAreFiled

Tables == [Ids -> Record \cup {NoRecord}]

-----------------------------------------------------------------------------
(* The operators.                                                            *)

\* A set of ids has a least member: of the sets of those that come before one of
\* them, one is minimal, and it is empty.
LEMMA LeastIsLeast ==
  ASSUME NEW S \in SUBSET Ids, S # {}
  PROVE  Least(S) \in S /\ \A j \in S : Least(S) <= j
<1> DEFINE before(x) == {y \in S : y < x}
           sets == {before(x) : x \in S}
<1>1. S \subseteq Nat /\ MaxActions \in Nat
  BY QueueAssumption DEF Ids
<1>2. IsFiniteSet(S)
  BY <1>1, FS_BoundedSetOfNaturals DEF Ids
<1>3. IsWellFoundedOn(StrictSubsetOrdering(S), SUBSET S)
  BY <1>2, FS_StrictSubsetOrderingWellFounded, FS_FiniteSubsetsOfFinite
<1>4. sets \subseteq SUBSET S /\ sets # {}
  OBVIOUS
<1>5. PICK B \in sets : \A C \in sets : ~(<<C, B>> \in StrictSubsetOrdering(S))
  <2> HIDE DEF sets
  <2> QED BY <1>3, <1>4, WFMin
<1>6. PICK x \in S : B = before(x)
  BY <1>5
<1>7. ASSUME NEW y \in S, y < x PROVE FALSE
  <2>1. before(y) \subseteq before(x)
    <3> SUFFICES ASSUME NEW z \in S, z < y PROVE z < x
      OBVIOUS
    <3>1. x \in Nat /\ y \in Nat /\ z \in Nat
      BY <1>1
    <3> QED BY <1>7, <3>1
  <2>2. y \in before(x)
    BY <1>7
  <2>3. y \notin before(y)
    BY <1>1
  <2>4. before(y) \in sets /\ before(y) \in SUBSET S /\ before(x) \in SUBSET S
    BY <1>7
  <2> HIDE DEF before, sets
  <2>5. <<before(y), B>> \in StrictSubsetOrdering(S)
    BY <1>6, <2>1, <2>2, <2>3, <2>4 DEF StrictSubsetOrdering
  <2> QED BY <1>5, <2>4, <2>5
<1>8. \A y \in S : x <= y
  BY <1>1, <1>7
<1> QED BY <1>8 DEF Least

LEMMA RecordsDiffer == NoRecord \notin Record /\ NoRecord.state # "pending"
BY DEF NoRecord, Record

LEMMA PendingIsFiled ==
  ASSUME NEW acts \in Tables, NEW g \in Gatekeepers, NEW id \in PendingOn(acts, g)
  PROVE  id \in Ids /\ FiledWith(acts, id, g) /\ Pending(acts, id)
BY RecordsDiffer DEF PendingOn, Pending, FiledWith, Tables

\* A pass over what covers the pending actions leaves the drain in order.
LEMMA PassInOrder ==
  ASSUME NEW acts \in Tables, NEW g \in Gatekeepers, NEW rest \in SUBSET Ids,
         NEW rerun \in BOOLEAN, NEW rs,
         \A k \in rest : FiledWith(acts, k, g),
         Covers(rest, acts, g)
  PROVE  Pass(rest, rerun, acts, rs) \in Drain /\ InOrder(Pass(rest, rerun, acts, rs), acts, g)
<1> DEFINE servable == Servable(rest, acts, rs)
<1>1. CASE servable = {}
  <2>1. Pass(rest, rerun, acts, rs) = NoDrain
    BY <1>1 DEF Pass
  <2> QED BY <2>1 DEF NoDrain, Drain, InOrder
<1>2. CASE servable # {}
  <2> DEFINE id == Least(servable)
             d == [on |-> TRUE, rerun |-> rerun, cur |-> id, rest |-> {j \in rest : j > id}]
  <2>1. Pass(rest, rerun, acts, rs) = d
    BY <1>2 DEF Pass
  <2>2. servable \in SUBSET Ids /\ servable \subseteq rest
    BY DEF Servable
  <2>3. id \in servable /\ \A j \in servable : id <= j
    BY <1>2, <2>2, LeastIsLeast
  <2> HIDE DEF id
  <2>4. d \in Drain
    BY <2>2, <2>3 DEF Drain
  <2>5. \A j \in rest : j < id => ~Pending(acts, j)
    <3> SUFFICES ASSUME NEW j \in rest, j < id, Pending(acts, j) PROVE FALSE
      OBVIOUS
    <3>1. j \in Ids /\ id \in Ids /\ rest \subseteq Int
      BY <2>2, <2>3 DEF Ids
    <3>2. j \in servable
      BY <2>3, <3>1 DEF Servable, Ids
    <3> QED BY <2>3, <3>1, <3>2 DEF Ids
  <2>6. Covers(d.rest \cup {d.cur}, acts, g)
    <3> SUFFICES ASSUME NEW j \in PendingOn(acts, g)
                 PROVE  j \in {k \in rest : k > id} \cup {id} \/ \A k \in {k \in rest : k > id} \cup {id} : k < j
      BY DEF Covers
    <3>1. j \in Ids /\ Pending(acts, j) /\ id \in Ids
      BY <2>2, <2>3, PendingIsFiled
    <3>2. CASE j \in rest
      BY <2>5, <3>1, <3>2 DEF Ids
    <3>3. CASE \A k \in rest : k < j
      BY <2>2, <2>3, <3>3
    <3> QED BY <3>2, <3>3 DEF Covers
  <2>7. acts[id].kind.autoApprovable
    BY <2>2, <2>3 DEF Servable, Eligible, Ids
  <2>8. InOrder(d, acts, g)
    BY <2>2, <2>3, <2>6, <2>7 DEF InOrder, Ids
  <2> QED BY <2>1, <2>4, <2>8
<1> QED BY <1>1, <1>2

\* A new snapshot covers what is pending.
LEMMA SnapshotInOrder ==
  ASSUME NEW acts \in Tables, NEW g \in Gatekeepers, NEW rerun \in BOOLEAN, NEW rs
  PROVE  /\ Pass(PendingOn(acts, g), rerun, acts, rs) \in Drain
         /\ InOrder(Pass(PendingOn(acts, g), rerun, acts, rs), acts, g)
<1>1. PendingOn(acts, g) \in SUBSET Ids /\ \A k \in PendingOn(acts, g) : FiledWith(acts, k, g)
  BY PendingIsFiled DEF PendingOn
<1>2. Covers(PendingOn(acts, g), acts, g)
  BY DEF Covers
<1> QED BY <1>1, <1>2, PassInOrder

LEMMA NextPassInOrder ==
  ASSUME NEW acts \in Tables, NEW g \in Gatekeepers, NEW d \in Drain, NEW rs
  PROVE  NextPass(d, g, acts, rs) \in Drain /\ InOrder(NextPass(d, g, acts, rs), acts, g)
<1>1. NoDrain \in Drain /\ InOrder(NoDrain, acts, g)
  BY DEF NoDrain, Drain, InOrder
<1> QED BY <1>1, SnapshotInOrder DEF NextPass

\* The drain goes on once what it applied is decided.
LEMMA ContinueInOrder ==
  ASSUME NEW acts \in Tables, NEW g \in Gatekeepers, NEW d \in Drain, NEW rs,
         InOrder(d, acts, g), d.on, ~Pending(acts, d.cur)
  PROVE  Continue(d, g, acts, rs) \in Drain /\ InOrder(Continue(d, g, acts, rs), acts, g)
<1>1. d.rest \in SUBSET Ids /\ d.rerun \in BOOLEAN /\ \A k \in d.rest : FiledWith(acts, k, g)
  BY DEF Drain, InOrder
<1>2. Covers(d.rest, acts, g)
  <2> SUFFICES ASSUME NEW j \in PendingOn(acts, g)
               PROVE  j \in d.rest \/ \A k \in d.rest : k < j
    BY DEF Covers
  <2>1. j # d.cur
    BY PendingIsFiled
  <2> QED BY <2>1 DEF InOrder, Covers
<1>3. /\ Pass(d.rest, d.rerun, acts, rs) \in Drain
      /\ InOrder(Pass(d.rest, d.rerun, acts, rs), acts, g)
  BY <1>1, <1>2, PassInOrder
<1> QED BY <1>3, NextPassInOrder DEF Continue

LEMMA RequestedInOrder ==
  ASSUME NEW acts \in Tables, NEW g \in Gatekeepers, NEW d \in Drain, NEW rs,
         InOrder(d, acts, g)
  PROVE  Requested(d, g, acts, rs) \in Drain /\ InOrder(Requested(d, g, acts, rs), acts, g)
<1>1. CASE d.on
  <2> DEFINE e == [d EXCEPT !.rerun = TRUE]
  <2>1. e \in Drain /\ e.on = d.on /\ e.cur = d.cur /\ e.rest = d.rest
    BY DEF Drain
  <2>2. Requested(d, g, acts, rs) = e
    BY <1>1 DEF Requested
  <2> HIDE DEF e
  <2>3. InOrder(e, acts, g)
    BY <1>1, <2>1 DEF InOrder
  <2> QED BY <2>1, <2>2, <2>3
<1>2. CASE ~d.on
  BY <1>2, SnapshotInOrder DEF Requested
<1> QED BY <1>1, <1>2

\* A table in which actions were decided
LEMMA DecidedInOrder ==
  ASSUME NEW acts \in Tables, NEW new \in Tables, NEW g \in Gatekeepers, NEW d \in Drain,
         InOrder(d, acts, g),
         \A id \in Ids : /\ acts[id] \in Record => new[id] \in Record /\ new[id].kind = acts[id].kind
                         /\ Pending(new, id) => Pending(acts, id) /\ acts[id] = new[id]
  PROVE  InOrder(d, new, g)
<1>1. PendingOn(new, g) \subseteq PendingOn(acts, g)
  BY DEF PendingOn, Pending
<1>2. \A k \in Ids : FiledWith(acts, k, g) => FiledWith(new, k, g)
  BY DEF FiledWith
<1>3. d.on => new[d.cur].kind = acts[d.cur].kind
  BY DEF InOrder, FiledWith
<1> QED BY <1>1, <1>2, <1>3 DEF InOrder, Covers, Drain

-----------------------------------------------------------------------------
LEMMA InitIInv == Init => IInv
<1> SUFFICES ASSUME Init PROVE IInv
  OBVIOUS
<1>1. NoOp \in Op /\ NoOp.pc = "idle" /\ NoDrain \in Drain /\ ~NoDrain.on /\ NoDrain.cur = 0
  BY DEF NoOp, Op, NoDrain, Drain
<1>2. TypeOK
  BY <1>1, QueueAssumption DEF Init, TypeOK
<1>3. FutureIsBlank
  BY RecordsDiffer DEF Init, FutureIsBlank, Ids
<1>4. DrainsInOrder /\ OpsAreFiled
  BY <1>1 DEF Init, DrainsInOrder, OpsAreFiled, InOrder
<1> QED BY <1>2, <1>3, <1>4 DEF IInv

\* One action is decided: what becomes of the table
LEMMA DecisionDecides ==
  ASSUME IInv, NEW id \in Ids, actions[id] \in Record, NEW verdict \in {"approved", "rejected"},
         NEW new, new = [actions EXCEPT ![id].state = verdict]
  PROVE  /\ new \in Tables /\ ~Pending(new, id)
         /\ \A j \in Ids : /\ actions[j] \in Record <=> new[j] \in Record
                           /\ actions[j] \in Record => new[j].kind = actions[j].kind
                           /\ Pending(new, j) => Pending(actions, j) /\ actions[j] = new[j]
<1> DEFINE r == [actions[id] EXCEPT !.state = verdict]
<1>1. r \in Record /\ r.state = verdict /\ r.kind = actions[id].kind
  BY DEF Record
<1>2. new = [actions EXCEPT ![id] = r] /\ actions \in Tables
  BY DEF IInv, TypeOK, Tables
<1> HIDE DEF r
<1> QED BY <1>1, <1>2 DEF Tables, Pending

\* A step that decides an action, or none, and leaves the drains to be checked.
LEMMA DecidingKeeps ==
  ASSUME IInv, NEW id \in Ids, actions[id] \in Record, NEW verdict \in {"approved", "rejected"},
         \/ actions' = actions
         \/ actions' = [actions EXCEPT ![id].state = verdict],
         UNCHANGED nextActionId, rules' \subseteq Gatekeepers \X Tags,
         drain' \in [Gatekeepers -> Drain],
         \A g \in Gatekeepers : drain'[g] = drain[g] \/ InOrder(drain'[g], actions', g),
         ops' \in [Clients -> Op],
         \A c \in Clients : \/ ops'[c].pc = "idle"
                            \/ ops'[c].id = ops[c].id /\ ops[c].pc # "idle"
                            \/ ops'[c].id = id
  PROVE  IInv'
<1>1. /\ actions' \in Tables
      /\ \A j \in Ids : /\ actions[j] \in Record <=> actions'[j] \in Record
                        /\ actions[j] \in Record => actions'[j].kind = actions[j].kind
                        /\ Pending(actions', j) => Pending(actions, j) /\ actions[j] = actions'[j]
  BY DecisionDecides DEF IInv, TypeOK, Tables
<1>2. TypeOK'
  BY <1>1 DEF IInv, TypeOK, Tables
<1>3. FutureIsBlank' /\ OpsAreFiled'
  BY <1>1 DEF IInv, FutureIsBlank, OpsAreFiled
<1>4. DrainsInOrder'
  <2> SUFFICES ASSUME NEW g \in Gatekeepers PROVE InOrder(drain'[g], actions', g)
    BY DEF DrainsInOrder
  <2>1. CASE drain'[g] = drain[g]
    <3>1. drain[g] \in Drain /\ InOrder(drain[g], actions, g) /\ actions \in Tables
      BY DEF IInv, TypeOK, DrainsInOrder, Tables
    <3> QED BY <1>1, <2>1, <3>1, DecidedInOrder
  <2> QED BY <2>1
<1> QED BY <1>2, <1>3, <1>4 DEF IInv

\* A drain that is asked for keeps the others as they are.
LEMMA RequestingKeeps ==
  ASSUME IInv, NEW acts \in Tables, NEW g \in Gatekeepers, NEW rs,
         InOrder(drain[g], acts, g),
         drain' = [drain EXCEPT ![g] = Requested(drain[g], g, acts, rs)]
  PROVE  /\ drain' \in [Gatekeepers -> Drain]
         /\ \A h \in Gatekeepers : drain'[h] = drain[h] \/ InOrder(drain'[h], acts, h)
<1>1. drain \in [Gatekeepers -> Drain]
  BY DEF IInv, TypeOK
<1>2. Requested(drain[g], g, acts, rs) \in Drain /\ InOrder(Requested(drain[g], g, acts, rs), acts, g)
  BY <1>1, RequestedInOrder
<1> QED BY <1>1, <1>2

-----------------------------------------------------------------------------
LEMMA SubmitKeeps ==
  ASSUME IInv, NEW kind \in Kinds, Submit(kind)
  PROVE  IInv'
<1> DEFINE id == nextActionId
           new == [actions EXCEPT ![id] = NewRecord(kind)]
<1>1. /\ id \in Ids /\ actions' = new /\ nextActionId' = id + 1 /\ UNCHANGED <<rules, ops>>
      /\ actions \in Tables /\ drain \in [Gatekeepers -> Drain] /\ nextActionId \in Nat
      /\ kind.gk \in Gatekeepers
  BY QueueAssumption DEF IInv, TypeOK, Submit, Tables, Kind
<1>2. NewRecord(kind) \in Record /\ NewRecord(kind).kind = kind
  BY DEF NewRecord, Record
<1>3. /\ new \in Tables /\ new[id] = NewRecord(kind) /\ \A j \in Ids \ {id} : new[j] = actions[j]
      /\ actions[id] = NoRecord
  BY <1>1, <1>2, RecordsDiffer DEF Tables, IInv, FutureIsBlank
<1> HIDE DEF new
<1>4. ASSUME NEW g \in Gatekeepers PROVE InOrder(drain[g], new, g)
  <2>1. InOrder(drain[g], actions, g) /\ drain[g] \in Drain
    BY <1>1 DEF IInv, DrainsInOrder
  <2>2. CASE ~drain[g].on
    BY <2>1, <2>2 DEF InOrder
  <2>3. CASE drain[g].on
    <3> DEFINE held == drain[g].rest \cup {drain[g].cur}
    <3>1. held \subseteq Ids /\ \A k \in held : FiledWith(actions, k, g)
      BY <2>1, <2>3 DEF InOrder, Drain
    <3>2. \A k \in held : k < id /\ k # id
      BY <1>1, <3>1 DEF FiledWith, IInv, FutureIsBlank, Ids
    <3>3. \A k \in held : FiledWith(new, k, g)
      BY <1>3, <3>1, <3>2 DEF FiledWith
    <3>4. new[drain[g].cur] = actions[drain[g].cur]
      BY <1>3, <3>1, <3>2
    <3>5. Covers(held, new, g)
      <4> SUFFICES ASSUME NEW j \in PendingOn(new, g)
                   PROVE  j \in held \/ \A k \in held : k < j
        BY DEF Covers
      <4>1. CASE j = id
        BY <3>2, <4>1
      <4>2. CASE j # id
        <5>1. j \in PendingOn(actions, g)
          BY <1>3, <4>2 DEF PendingOn, Pending
        <5> QED BY <2>1, <2>3, <5>1 DEF InOrder, Covers
      <4> QED BY <4>1, <4>2
    <3> QED BY <2>1, <2>3, <3>3, <3>4, <3>5 DEF InOrder
  <2> QED BY <2>2, <2>3
<1>5. drain' \in [Gatekeepers -> Drain] /\ \A g \in Gatekeepers : InOrder(drain'[g], new, g)
  <2>1. CASE drain' = drain
    BY <1>1, <1>4, <2>1
  <2>2. CASE drain' = [drain EXCEPT ![kind.gk] = Requested(drain[kind.gk], kind.gk, new, rules)]
    BY <1>1, <1>3, <1>4, <2>2, RequestingKeeps
  <2> QED BY <1>1, <2>1, <2>2 DEF Submit, new
<1>6. DrainsInOrder'
  BY <1>1, <1>5 DEF DrainsInOrder
<1>7. TypeOK'
  <2>1. actions' \in Tables /\ drain' \in [Gatekeepers -> Drain]
    BY <1>1, <1>3, <1>5
  <2>2. id + 1 \in 1..(MaxActions + 1)
    BY <1>1, QueueAssumption DEF Ids
  <2>3. TypeOK
    BY DEF IInv
  <2> QED BY <1>1, <2>1, <2>2, <2>3 DEF TypeOK, Tables
<1>8. FutureIsBlank'
  <2> SUFFICES ASSUME NEW j \in Ids PROVE new[j] \in Record <=> j < id + 1
    BY <1>1 DEF FutureIsBlank
  <2> QED BY <1>1, <1>2, <1>3 DEF IInv, FutureIsBlank, Ids
<1>9. OpsAreFiled'
  BY <1>1, <1>2, <1>3 DEF IInv, OpsAreFiled
<1> QED BY <1>6, <1>7, <1>8, <1>9 DEF IInv

\* Steps that change neither the table nor the calls.
LEMMA RuleKeeps ==
  ASSUME IInv, UNCHANGED <<actions, nextActionId, ops>>, rules' \subseteq Gatekeepers \X Tags,
         drain' \in [Gatekeepers -> Drain],
         \A g \in Gatekeepers : drain'[g] = drain[g] \/ InOrder(drain'[g], actions, g)
  PROVE  IInv'
BY DEF IInv, TypeOK, FutureIsBlank, DrainsInOrder, OpsAreFiled

LEMMA RulesKeep ==
  ASSUME IInv, NEW g \in Gatekeepers, NEW tag \in Tags, EnableRule(g, tag) \/ DisableRule(g, tag)
  PROVE  IInv'
<1>1. /\ UNCHANGED <<actions, nextActionId, ops>> /\ rules' \subseteq Gatekeepers \X Tags
      /\ actions \in Tables /\ drain \in [Gatekeepers -> Drain] /\ InOrder(drain[g], actions, g)
  BY DEF EnableRule, DisableRule, IInv, TypeOK, Tables, DrainsInOrder
<1>2. CASE DisableRule(g, tag)
  BY <1>1, <1>2, RuleKeeps DEF DisableRule
<1>3. CASE EnableRule(g, tag)
  <2>1. drain' = [drain EXCEPT ![g] = Requested(drain[g], g, actions, rules \cup {<<g, tag>>})]
    BY <1>3 DEF EnableRule
  <2> QED BY <1>1, <2>1, RequestingKeeps, RuleKeeps
<1> QED BY <1>2, <1>3

LEMMA DrainStepsKeep ==
  ASSUME IInv, NEW g \in Gatekeepers, DrainApplied(g) \/ DrainThrew(g)
  PROVE  IInv'
<1> DEFINE d == drain[g]
<1>1. /\ d \in Drain /\ d.on /\ InOrder(d, actions, g) /\ actions \in Tables
      /\ drain \in [Gatekeepers -> Drain] /\ rules \subseteq Gatekeepers \X Tags
      /\ ops \in [Clients -> Op]
  BY DEF DrainApplied, DrainThrew, IInv, TypeOK, Tables, DrainsInOrder
<1>2. CASE DrainThrew(g)
  <2>1. /\ drain' = [drain EXCEPT ![g] = NextPass(d, g, actions, rules)]
        /\ UNCHANGED <<actions, nextActionId, rules, ops>>
    BY <1>2 DEF DrainThrew
  <2>2. NextPass(d, g, actions, rules) \in Drain /\ InOrder(NextPass(d, g, actions, rules), actions, g)
    BY <1>1, NextPassInOrder
  <2> QED BY <1>1, <2>1, <2>2, RuleKeeps
<1>3. CASE DrainApplied(g)
  <2>1. PICK id \in Ids : id = d.cur /\ actions[id] \in Record
    BY <1>1 DEF InOrder, FiledWith
  <2>2. PICK acts : acts = [actions EXCEPT ![id].state = "approved"]
    OBVIOUS
  <2>3. /\ actions' = acts /\ drain' = [drain EXCEPT ![g] = Continue(d, g, acts, rules)]
        /\ UNCHANGED <<nextActionId, rules, ops>>
    BY <1>3, <2>1, <2>2 DEF DrainApplied
  <2>4. /\ acts \in Tables /\ ~Pending(acts, id)
        /\ \A j \in Ids : /\ actions[j] \in Record <=> acts[j] \in Record
                          /\ actions[j] \in Record => acts[j].kind = actions[j].kind
                          /\ Pending(acts, j) => Pending(actions, j) /\ actions[j] = acts[j]
    <3> DEFINE r == [actions[id] EXCEPT !.state = "approved"]
    <3>1. r \in Record /\ r.state = "approved" /\ r.kind = actions[id].kind
      BY <2>1 DEF Record
    <3>2. acts = [actions EXCEPT ![id] = r]
      BY <2>2
    <3> HIDE DEF r, d
    <3> QED BY <1>1, <2>1, <3>1, <3>2 DEF Tables, Pending
  <2>5. InOrder(d, acts, g)
    BY <1>1, <2>4, DecidedInOrder
  <2>6. Continue(d, g, acts, rules) \in Drain /\ InOrder(Continue(d, g, acts, rules), acts, g)
    BY <1>1, <2>1, <2>4, <2>5, ContinueInOrder
  <2>7. /\ drain' \in [Gatekeepers -> Drain]
        /\ \A h \in Gatekeepers : drain'[h] = drain[h] \/ InOrder(drain'[h], actions', h)
    BY <1>1, <2>3, <2>6
  <2>8. actions' = [actions EXCEPT ![id].state = "approved"]
    BY <2>2, <2>3
  <2>9. \A c \in Clients : ops'[c].pc = "idle" \/ (ops'[c].id = ops[c].id /\ ops[c].pc # "idle")
    BY <2>3
  <2> HIDE DEF d
  <2> QED BY <1>1, <2>1, <2>3, <2>7, <2>8, <2>9, DecidingKeeps
<1> QED BY <1>2, <1>3

-----------------------------------------------------------------------------
(* Users' calls.                                                             *)

LEMMA NoOpIsIdle == NoOp \in Op /\ NoOp.pc = "idle"
BY DEF NoOp, Op

LEMMA DecideKeeps ==
  ASSUME IInv, NEW c \in Clients, NEW op \in {"approve", "reject"}, NEW id \in Ids, Decide(c, op, id)
  PROVE  IInv'
<1>1. /\ UNCHANGED <<actions, nextActionId, rules, drain>> /\ Pending(actions, id)
      /\ ops' = [ops EXCEPT ![c] = [op |-> op, id |-> id, pc |-> "calling"]]
      /\ ops \in [Clients -> Op] /\ actions \in Tables
      /\ rules \subseteq Gatekeepers \X Tags /\ drain \in [Gatekeepers -> Drain]
  BY DEF Decide, IInv, TypeOK, Tables
<1>2. actions[id] \in Record
  BY <1>1, RecordsDiffer DEF Tables, Pending
<1>3. [op |-> op, id |-> id, pc |-> "calling"] \in Op
  BY DEF Op
<1>4. TypeOK'
  BY <1>1, <1>3 DEF IInv, TypeOK
<1>5. FutureIsBlank' /\ DrainsInOrder'
  BY <1>1 DEF IInv, FutureIsBlank, DrainsInOrder
<1>6. OpsAreFiled'
  BY <1>1, <1>2 DEF IInv, OpsAreFiled
<1> QED BY <1>4, <1>5, <1>6 DEF IInv

\* The end of a call, with the drain that follows it.
LEMMA ReturnKeeps ==
  ASSUME IInv, NEW c \in Clients, ops[c].pc # "idle",
         \/ actions' = actions
         \/ actions' = [actions EXCEPT ![ops[c].id].state = "approved"]
         \/ actions' = [actions EXCEPT ![ops[c].id].state = "rejected"],
         UNCHANGED <<nextActionId, rules>>,
         \/ DrainAndReturn(c, actions')
         \/ UNCHANGED drain /\ ops' = [ops EXCEPT ![c] = NoOp]
         \/ UNCHANGED drain /\ ops' = [ops EXCEPT ![c].pc = "resuming"]
  PROVE  IInv'
<1>1. PICK id \in Ids : id = ops[c].id /\ actions[id] \in Record
  BY DEF IInv, OpsAreFiled
<1>2. PICK verdict \in {"approved", "rejected"} :
         actions' = actions \/ actions' = [actions EXCEPT ![id].state = verdict]
  BY <1>1
<1>3. /\ actions' \in Tables
      /\ \A j \in Ids : /\ actions[j] \in Record => actions'[j] \in Record /\ actions'[j].kind = actions[j].kind
                        /\ Pending(actions', j) => Pending(actions, j) /\ actions[j] = actions'[j]
  BY <1>1, <1>2, DecisionDecides DEF IInv, TypeOK, Tables
<1>4. drain \in [Gatekeepers -> Drain] /\ ops \in [Clients -> Op] /\ rules \subseteq Gatekeepers \X Tags
      /\ actions \in Tables
  BY DEF IInv, TypeOK, Tables
<1>5. /\ ops' \in [Clients -> Op]
      /\ \A b \in Clients : \/ ops'[b].pc = "idle"
                            \/ ops'[b].id = ops[b].id /\ ops[b].pc # "idle"
  <2>1. CASE ops' = [ops EXCEPT ![c] = NoOp]
    BY <1>4, <2>1, NoOpIsIdle
  <2>2. CASE ops' = [ops EXCEPT ![c].pc = "resuming"]
    <3> DEFINE o == [ops[c] EXCEPT !.pc = "resuming"]
    <3>1. ops' = [ops EXCEPT ![c] = o]
      BY <2>2
    <3>2. o \in Op /\ o.id = ops[c].id
      BY <1>4 DEF Op
    <3> HIDE DEF o
    <3> QED BY <1>4, <3>1, <3>2
  <2> QED BY <2>1, <2>2 DEF DrainAndReturn
<1>6. /\ drain' \in [Gatekeepers -> Drain]
      /\ \A h \in Gatekeepers : drain'[h] = drain[h] \/ InOrder(drain'[h], actions', h)
  <2>1. CASE DrainAndReturn(c, actions')
    <3>1. PICK g \in Gatekeepers : g = actions'[id].kind.gk
      BY <1>1, <1>3, QueueAssumption DEF Record, Kind
    <3>2. drain' = [drain EXCEPT ![g] = Requested(drain[g], g, actions', rules)]
      BY <1>1, <2>1, <3>1 DEF DrainAndReturn
    <3>3. InOrder(drain[g], actions', g)
      <4>1. InOrder(drain[g], actions, g) /\ drain[g] \in Drain
        BY <1>4 DEF IInv, DrainsInOrder
      <4> QED BY <1>3, <1>4, <4>1, DecidedInOrder
    <3> QED BY <1>3, <3>2, <3>3, RequestingKeeps
  <2>2. CASE UNCHANGED drain
    BY <1>4, <2>2
  <2> QED BY <2>1, <2>2
<1> QED BY <1>1, <1>2, <1>4, <1>5, <1>6, DecidingKeeps

LEMMA CallsKeep ==
  ASSUME IInv, NEW c \in Clients,
         \/ \E resumes \in BOOLEAN : Approved(c, resumes)
         \/ Resumed(c) \/ ResumeThrew(c) \/ Rejected(c) \/ DecisionThrew(c)
  PROVE  IInv'
<1>1. /\ ops[c].pc # "idle" /\ UNCHANGED <<nextActionId, rules>>
  BY DEF Approved, Resumed, ResumeThrew, Rejected, DecisionThrew
<1>2. \/ actions' = actions
      \/ actions' = [actions EXCEPT ![ops[c].id].state = "approved"]
      \/ actions' = [actions EXCEPT ![ops[c].id].state = "rejected"]
  BY DEF Approved, Resumed, ResumeThrew, Rejected, DecisionThrew
<1>3. \/ DrainAndReturn(c, actions')
      \/ UNCHANGED drain /\ ops' = [ops EXCEPT ![c] = NoOp]
      \/ UNCHANGED drain /\ ops' = [ops EXCEPT ![c].pc = "resuming"]
  BY DEF Approved, Resumed, ResumeThrew, Rejected, DecisionThrew, DrainAndReturn
<1> QED BY <1>1, <1>2, <1>3, ReturnKeeps

LEMMA RestartKeeps == IInv /\ Restart => IInv'
<1> SUFFICES ASSUME IInv, Restart PROVE IInv'
  OBVIOUS
<1>1. NoDrain \in Drain /\ ~NoDrain.on /\ NoDrain.cur = 0
  BY DEF NoDrain, Drain
<1>2. UNCHANGED <<actions, nextActionId, rules>>
  BY DEF Restart
<1>3. TypeOK'
  BY <1>1, <1>2, NoOpIsIdle DEF IInv, TypeOK, Restart
<1>4. FutureIsBlank' /\ OpsAreFiled'
  BY <1>2, NoOpIsIdle DEF IInv, FutureIsBlank, OpsAreFiled, Restart
<1>5. DrainsInOrder'
  BY <1>1 DEF DrainsInOrder, InOrder, Restart
<1> QED BY <1>3, <1>4, <1>5 DEF IInv

LEMMA NextIInv == IInv /\ [Next]_queueVars => IInv'
<1> SUFFICES ASSUME IInv, [Next]_queueVars PROVE IInv'
  OBVIOUS
<1>1. ASSUME NEW kind \in Kinds, Submit(kind) PROVE IInv'
  BY <1>1, SubmitKeeps
<1>2. ASSUME NEW g \in Gatekeepers, NEW tag \in Tags, EnableRule(g, tag) \/ DisableRule(g, tag)
      PROVE  IInv'
  BY <1>2, RulesKeep
<1>3. ASSUME NEW g \in Gatekeepers, DrainApplied(g) \/ DrainThrew(g) PROVE IInv'
  BY <1>3, DrainStepsKeep
<1>4. ASSUME NEW c \in Clients, NEW op \in {"approve", "reject"}, NEW id \in Ids, Decide(c, op, id)
      PROVE  IInv'
  BY <1>4, DecideKeeps
<1>5. ASSUME NEW c \in Clients,
             \/ \E resumes \in BOOLEAN : Approved(c, resumes)
             \/ Resumed(c) \/ ResumeThrew(c) \/ Rejected(c) \/ DecisionThrew(c)
      PROVE  IInv'
  BY <1>5, CallsKeep
<1>6. CASE Restart
  BY <1>6, RestartKeeps
<1>7. CASE UNCHANGED queueVars
  BY <1>7 DEF queueVars, IInv, TypeOK, FutureIsBlank, DrainsInOrder, OpsAreFiled
<1> QED BY <1>1, <1>2, <1>3, <1>4, <1>5, <1>6, <1>7 DEF Next

-----------------------------------------------------------------------------
LEMMA Invariance == Spec => []IInv
<1> QED BY InitIInv, NextIInv, PTL DEF Spec

\* Every variable keeps its type.
THEOREM TypeCorrect == Spec => []TypeOK
<1>1. IInv => TypeOK
  BY DEF IInv
<1> QED BY <1>1, Invariance, PTL

\* However drains, users, rules, submissions, failures and restarts interleave, an
\* action that a drain sets out to apply is the first one that is undecided on its
\* gatekeeper (the loop of #drainOnce in auto-approval.ts).
THEOREM GatesHold == Spec => NothingPastAGate
<1>1. ASSUME IInv', NEW g \in Gatekeepers, drain'[g].cur \notin {0, drain[g].cur},
             NEW j \in PendingOn(actions', g)
      PROVE  drain'[g].cur <= j
  <2>1. /\ drain'[g] \in Drain /\ InOrder(drain'[g], actions', g)
        /\ actions' \in Tables
    BY <1>1 DEF IInv, TypeOK, DrainsInOrder, Tables
  <2>2. drain'[g].on
    BY <1>1, <2>1 DEF InOrder
  <2>3. j \in Ids /\ drain'[g].cur \in Ids
    BY <2>1, <2>2 DEF InOrder, PendingOn
  <2> QED BY <2>1, <2>2, <2>3 DEF InOrder, Covers, Ids
<1>2. IInv' => [\A g \in Gatekeepers :
                  (drain'[g].cur \notin {0, drain[g].cur})
                    => \A j \in PendingOn(actions', g) : drain'[g].cur <= j]_queueVars
  BY <1>1
<1> QED BY <1>2, Invariance, PTL DEF NothingPastAGate

-----------------------------------------------------------------------------
(* QueueService: no request for a drain gets lost.                           *)

Resuming(g) == \E c \in Clients : ops[c].pc = "resuming" /\ OwnerOf(c) = g

\* What drain d of g will serve: it starts over, or everything that the rules
\* admit is still ahead of it, with nothing among it that was decided meanwhile.
Serves(d, g, acts, rs) ==
  IF d.on
  THEN \/ d.rerun
       \/ /\ d.rest \subseteq PendingOn(acts, g)
          /\ \A j \in PendingOn(acts, g) :
                j \in d.rest \cup {d.cur} \/ ~Eligible(acts[j].kind, rs)
  ELSE Servable(PendingOn(acts, g), acts, rs) = {}

KeptFor(g) == excused[g] # "no" \/ Resuming(g) \/ Serves(drain[g], g, actions, rules)

ServiceInv ==
  /\ IInv
  /\ excused \in [Gatekeepers -> {"no", "rejected", "failed"}]
  /\ \A g \in Gatekeepers : KeptFor(g)

\* A pass serves what the rules admit of the pending actions that it is given.
LEMMA PassServes ==
  ASSUME NEW acts, NEW g, NEW rs, NEW rest, NEW rerun \in BOOLEAN,
         rest \subseteq PendingOn(acts, g),
         \A j \in PendingOn(acts, g) : j \in rest \/ ~Eligible(acts[j].kind, rs)
  PROVE  Serves(Pass(rest, rerun, acts, rs), g, acts, rs)
<1> DEFINE servable == Servable(rest, acts, rs)
<1>1. PendingOn(acts, g) \subseteq Ids /\ \A j \in PendingOn(acts, g) : Pending(acts, j)
  BY DEF PendingOn
<1>2. CASE servable = {}
  <2>1. Pass(rest, rerun, acts, rs) = NoDrain
    BY <1>2 DEF Pass
  <2>2. ASSUME NEW id \in Servable(PendingOn(acts, g), acts, rs)
        PROVE  FALSE
    <3>1. /\ id \in PendingOn(acts, g) /\ id \in Ids /\ Pending(acts, id)
          /\ \A j \in PendingOn(acts, g) : j <= id => Eligible(acts[j].kind, rs)
      BY <1>1 DEF Servable
    <3>2. id <= id
      BY <3>1 DEF Ids
    <3>3. id \in servable
      BY <3>1, <3>2 DEF Servable
    <3> QED BY <1>2, <3>3
  <2> QED BY <2>1, <2>2 DEF Serves, NoDrain
<1>3. CASE servable # {}
  <2> DEFINE id == Least(servable)
             d == [on |-> TRUE, rerun |-> rerun, cur |-> id, rest |-> {j \in rest : j > id}]
  <2>1. Pass(rest, rerun, acts, rs) = d
    BY <1>3 DEF Pass
  <2>2. servable \in SUBSET Ids
    BY <1>1 DEF Servable
  <2>3. id \in servable /\ \A j \in servable : id <= j
    BY <1>3, <2>2, LeastIsLeast
  <2> HIDE DEF id
  <2>4. id \in Ids /\ \A j \in rest : j <= id => Eligible(acts[j].kind, rs)
    BY <2>2, <2>3 DEF Servable
  <2>5. ASSUME NEW j \in rest, j < id
        PROVE  FALSE
    <3>1. j \in Ids /\ Pending(acts, j) /\ rest \subseteq Ids
      BY <1>1
    <3>2. \A k \in rest : k <= j => k <= id
      BY <2>4, <2>5, <3>1 DEF Ids
    <3>3. j \in servable
      BY <2>4, <3>1, <3>2 DEF Servable
    <3> QED BY <2>3, <2>4, <2>5, <3>1, <3>3 DEF Ids
  <2>6. \A j \in rest : j > id \/ j = id
    <3> TAKE j \in rest
    <3>1. j \in Ids
      BY <1>1
    <3> QED BY <2>4, <2>5, <3>1 DEF Ids
  <2>7. Serves(d, g, acts, rs)
    BY <2>6 DEF Serves
  <2> QED BY <2>1, <2>7
<1> QED BY <1>2, <1>3

LEMMA SnapshotServes ==
  ASSUME NEW acts, NEW g, NEW rs, NEW rerun \in BOOLEAN
  PROVE  Serves(Pass(PendingOn(acts, g), rerun, acts, rs), g, acts, rs)
BY PassServes

\* The next pass of a drain that had everything ahead of it, what it has just
\* applied excepted.
LEMMA ContinueServes ==
  ASSUME NEW acts, NEW g, NEW rs, NEW d \in Drain, d.on, ~Pending(acts, d.cur),
         Serves(d, g, acts, rs)
  PROVE  Serves(Continue(d, g, acts, rs), g, acts, rs)
<1> DEFINE p == Pass(d.rest, d.rerun, acts, rs)
<1>1. p = NoDrain \/ (p.on /\ p.rerun = d.rerun)
  BY DEF Pass
<1>2. d.rerun \in BOOLEAN /\ ~NoDrain.on
  BY DEF Drain, NoDrain
<1>3. CASE d.rerun
  <2>1. NextPass(d, g, acts, rs) = Pass(PendingOn(acts, g), FALSE, acts, rs)
    BY <1>3 DEF NextPass
  <2>2. CASE p.on
    <3>1. Continue(d, g, acts, rs) = p /\ p.rerun
      BY <1>1, <1>2, <1>3, <2>2 DEF Continue
    <3> QED BY <2>2, <3>1 DEF Serves
  <2>3. CASE ~p.on
    <3>1. Continue(d, g, acts, rs) = NextPass(d, g, acts, rs)
      BY <2>3 DEF Continue
    <3> QED BY <2>1, <3>1, SnapshotServes
  <2> QED BY <2>2, <2>3
<1>4. CASE ~d.rerun
  <2>1. Continue(d, g, acts, rs) = p
    BY <1>1, <1>2, <1>4 DEF Continue, NextPass
  <2>2. /\ d.rest \subseteq PendingOn(acts, g)
        /\ \A j \in PendingOn(acts, g) : j \in d.rest \/ ~Eligible(acts[j].kind, rs)
    BY <1>4 DEF Serves, PendingOn
  <2> HIDE DEF p
  <2>3. Serves(Pass(d.rest, d.rerun, acts, rs), g, acts, rs)
    BY <1>2, <2>2, PassServes
  <2> QED BY <2>1, <2>3 DEF p
<1> QED BY <1>3, <1>4

\* Whoever asks for a drain is served.
LEMMA RequestedServes ==
  ASSUME NEW acts, NEW g, NEW rs, NEW d \in Drain
  PROVE  Serves(Requested(d, g, acts, rs), g, acts, rs)
<1>1. CASE d.on
  <2> DEFINE e == [d EXCEPT !.rerun = TRUE]
  <2>1. e.on /\ e.rerun
    BY <1>1 DEF Drain
  <2>2. Requested(d, g, acts, rs) = e
    BY <1>1 DEF Requested
  <2> HIDE DEF e
  <2> QED BY <2>1, <2>2 DEF Serves
<1>2. CASE ~d.on
  BY <1>2, SnapshotServes DEF Requested
<1> QED BY <1>1, <1>2

\* What is pending on g is as it was, and no rule was added.
LEMMA StillServes ==
  ASSUME NEW acts, NEW new, NEW g, NEW rs, NEW fewer \in SUBSET rs, NEW d,
         PendingOn(new, g) = PendingOn(acts, g),
         \A j \in PendingOn(acts, g) : new[j] = acts[j],
         Serves(d, g, acts, rs)
  PROVE  Serves(d, g, new, fewer)
<1>1. \A j \in PendingOn(new, g) : Eligible(new[j].kind, fewer) => Eligible(acts[j].kind, rs)
  BY DEF Eligible
<1>2. \A j \in PendingOn(new, g) : Pending(acts, j)
  BY DEF PendingOn
<1>3. Servable(PendingOn(new, g), new, fewer) \subseteq Servable(PendingOn(acts, g), acts, rs)
  BY <1>1, <1>2 DEF Servable
<1> QED BY <1>1, <1>3 DEF Serves

-----------------------------------------------------------------------------
LEMMA ServiceStepIsNext == [ServiceNext]_serviceVars => [Next]_queueVars
<1> SUFFICES ASSUME [ServiceNext]_serviceVars PROVE [Next]_queueVars
  OBVIOUS
<1>1. CASE UNCHANGED serviceVars
  BY <1>1 DEF serviceVars
<1>2. CASE ServiceNext
  BY <1>2 DEF ServiceNext, Next, NoChange, Submitted, DrainEnded
<1> QED BY <1>1, <1>2

\* Who is resuming a turn still is, and its action has its gatekeeper.
LEMMA StillResuming ==
  ASSUME IInv, NEW g \in Gatekeepers, Resuming(g),
         \A c \in Clients : ops[c].pc = "resuming" => ops'[c] = ops[c],
         \A id \in Ids : actions[id] \in Record => actions'[id].kind = actions[id].kind
  PROVE  Resuming(g)'
<1>1. PICK c \in Clients : ops[c].pc = "resuming" /\ OwnerOf(c) = g
  BY DEF Resuming
<1>2. ops[c].id \in Ids /\ actions[ops[c].id] \in Record /\ ops'[c] = ops[c]
  BY <1>1 DEF IInv, OpsAreFiled
<1>3. ops'[c].pc = "resuming" /\ actions'[ops'[c].id].kind.gk = g
  BY <1>1, <1>2 DEF OwnerOf
<1> QED BY <1>3 DEF Resuming, OwnerOf

\* A step that leaves g alone.
LEMMA AloneKeeps ==
  ASSUME IInv, NEW g \in Gatekeepers, KeptFor(g),
         drain'[g] = drain[g], rules' \subseteq rules, excused'[g] = excused[g],
         Resuming(g) => Resuming(g)',
         PendingOn(actions', g) = PendingOn(actions, g),
         \A j \in PendingOn(actions, g) : actions'[j] = actions[j]
  PROVE  KeptFor(g)'
<1>1. CASE excused[g] # "no" \/ Resuming(g)
  BY <1>1 DEF KeptFor
<1>2. CASE Serves(drain[g], g, actions, rules)
  <2>1. Serves(drain[g], g, actions', rules')
    BY <1>2, StillServes
  <2> QED BY <2>1 DEF KeptFor
<1> QED BY <1>1, <1>2 DEF KeptFor

LEMMA SubmittedServes ==
  ASSUME ServiceInv, NEW kind \in Kinds, Submitted(kind), NEW g \in Gatekeepers
  PROVE  KeptFor(g)'
<1> DEFINE id == nextActionId
           new == [actions EXCEPT ![id] = NewRecord(kind)]
<1>1. /\ id \in Ids /\ actions' = new /\ UNCHANGED <<rules, ops>>
      /\ actions \in Tables /\ drain \in [Gatekeepers -> Drain] /\ kind.gk \in Gatekeepers
      /\ excused \in [Gatekeepers -> {"no", "rejected", "failed"}] /\ KeptFor(g) /\ IInv
      /\ nextActionId \in Nat
  BY QueueAssumption DEF ServiceInv, IInv, TypeOK, Submitted, Submit, Tables, Kind
<1>2. /\ new \in Tables /\ new[id] = NewRecord(kind) /\ \A j \in Ids \ {id} : new[j] = actions[j]
      /\ actions[id] = NoRecord /\ NewRecord(kind).kind = kind /\ NewRecord(kind) \in Record
  BY <1>1, RecordsDiffer DEF Tables, IInv, FutureIsBlank, NewRecord, Record
<1>3. \A j \in Ids : Pending(actions, j) => j < id /\ j # id
  BY <1>1, <1>2, RecordsDiffer DEF Tables, Pending, IInv, FutureIsBlank
<1>4. PendingOn(new, g) = PendingOn(actions, g) \cup (IF g = kind.gk THEN {id} ELSE {})
  BY <1>1, <1>2, <1>3, RecordsDiffer DEF PendingOn, Pending, NewRecord
<1>5. \A j \in PendingOn(actions, g) : new[j] = actions[j] /\ j \in Ids /\ j < id
  BY <1>2, <1>3 DEF PendingOn
<1> HIDE DEF new
<1>6. Resuming(g) => Resuming(g)'
  BY <1>1, <1>2, RecordsDiffer, StillResuming
<1>7. CASE g # kind.gk
  <2>1. drain'[g] = drain[g] /\ excused'[g] = excused[g]
    BY <1>1, <1>7 DEF Submitted, Submit, Excuse
  <2> QED BY <1>1, <1>4, <1>5, <1>6, <1>7, <2>1, AloneKeeps
<1>8. CASE g = kind.gk /\ Eligible(kind, rules)
  <2>1. drain'[g] = Requested(drain[g], g, new, rules)
    BY <1>1, <1>8 DEF Submitted, Submit, new
  <2>2. Serves(drain'[g], g, actions', rules')
    BY <1>1, <2>1, RequestedServes
  <2> QED BY <2>2 DEF KeptFor
<1>9. CASE g = kind.gk /\ ~Eligible(kind, rules)
  <2>1. drain' = drain /\ excused' = excused
    BY <1>9 DEF Submitted, Submit
  <2>2. ASSUME Serves(drain[g], g, actions, rules)
        PROVE  Serves(drain[g], g, new, rules)
    <3>1. PendingOn(new, g) = PendingOn(actions, g) \cup {id} /\ ~Eligible(new[id].kind, rules)
      BY <1>2, <1>4, <1>9
    <3>2. Servable(PendingOn(new, g), new, rules) \subseteq Servable(PendingOn(actions, g), actions, rules)
      <4> SUFFICES ASSUME NEW k \in Servable(PendingOn(new, g), new, rules)
                   PROVE  k \in Servable(PendingOn(actions, g), actions, rules)
        OBVIOUS
      <4>1. /\ k \in PendingOn(new, g)
            /\ \A j \in PendingOn(new, g) : j <= k => Eligible(new[j].kind, rules)
        BY DEF Servable
      <4>2. k # id
        BY <1>1, <3>1, <4>1 DEF Ids
      <4>3. k \in PendingOn(actions, g) /\ Pending(actions, k)
        BY <3>1, <4>1, <4>2 DEF PendingOn
      <4> QED BY <1>5, <3>1, <4>1, <4>3 DEF Servable
    <3> QED BY <1>5, <2>2, <3>1, <3>2 DEF Serves
  <2> QED BY <1>1, <1>6, <2>1, <2>2 DEF KeptFor
<1> QED BY <1>7, <1>8, <1>9

LEMMA RulesServe ==
  ASSUME ServiceInv, NEW h \in Gatekeepers, NEW tag \in Tags, NEW g \in Gatekeepers,
         \/ EnableRule(h, tag) /\ Excuse(h, "no")
         \/ NoChange(DisableRule(h, tag))
  PROVE  KeptFor(g)'
<1>1. /\ UNCHANGED <<actions, ops>> /\ IInv /\ drain \in [Gatekeepers -> Drain] /\ KeptFor(g)
      /\ excused \in [Gatekeepers -> {"no", "rejected", "failed"}]
  BY DEF EnableRule, DisableRule, NoChange, ServiceInv, IInv, TypeOK
<1>2. Resuming(g) => Resuming(g)'
  BY <1>1 DEF Resuming, OwnerOf
<1>3. CASE NoChange(DisableRule(h, tag))
  <2>1. drain' = drain /\ excused' = excused /\ rules' \subseteq rules
    BY <1>3 DEF NoChange, DisableRule
  <2> QED BY <1>1, <1>2, <2>1, AloneKeeps
<1>4. CASE EnableRule(h, tag) /\ g = h
  <2>1. drain'[g] = Requested(drain[g], g, actions, rules')
    BY <1>1, <1>4 DEF EnableRule
  <2>2. Serves(drain'[g], g, actions', rules')
    BY <1>1, <2>1, RequestedServes
  <2> QED BY <2>2 DEF KeptFor
<1>5. CASE EnableRule(h, tag) /\ Excuse(h, "no") /\ g # h
  <2>1. drain'[g] = drain[g] /\ excused'[g] = excused[g] /\ rules' = rules \cup {<<h, tag>>}
    BY <1>1, <1>5 DEF EnableRule, Excuse
  <2>2. ASSUME Serves(drain[g], g, actions, rules)
        PROVE  Serves(drain[g], g, actions, rules')
    <3>1. \A j \in PendingOn(actions, g) :
             Eligible(actions[j].kind, rules') <=> Eligible(actions[j].kind, rules)
      BY <1>5, <2>1 DEF PendingOn, Eligible
    <3>2. Servable(PendingOn(actions, g), actions, rules') =
            Servable(PendingOn(actions, g), actions, rules)
      BY <3>1 DEF Servable
    <3> QED BY <2>2, <3>1, <3>2 DEF Serves
  <2> QED BY <1>1, <1>2, <2>1, <2>2 DEF KeptFor
<1> QED BY <1>3, <1>4, <1>5

LEMMA DrainsServe ==
  ASSUME ServiceInv, NEW h \in Gatekeepers, NEW g \in Gatekeepers,
         NoChange(DrainApplied(h)) \/ DrainEnded(h)
  PROVE  KeptFor(g)'
<1> DEFINE d == drain[h]
<1>1. /\ UNCHANGED <<rules, ops>> /\ IInv /\ KeptFor(g) /\ drain \in [Gatekeepers -> Drain]
      /\ excused \in [Gatekeepers -> {"no", "rejected", "failed"}]
      /\ d \in Drain /\ d.on /\ InOrder(d, actions, h) /\ actions \in Tables
  BY DEF NoChange, DrainApplied, DrainEnded, DrainThrew, ServiceInv, IInv, TypeOK, Tables,
         DrainsInOrder
<1>2. PICK id \in Ids : id = d.cur /\ actions[id] \in Record /\ actions[id].kind.gk = h
  BY <1>1 DEF InOrder, FiledWith
<1>3. CASE NoChange(DrainApplied(h))
  <2>1. PICK acts : acts = [actions EXCEPT ![id].state = "approved"]
    OBVIOUS
  <2>2. /\ actions' = acts /\ drain' = [drain EXCEPT ![h] = Continue(d, h, acts, rules)]
        /\ excused' = excused
    BY <1>2, <1>3, <2>1 DEF NoChange, DrainApplied
  <2>3. /\ acts \in Tables /\ ~Pending(acts, id)
        /\ \A j \in Ids : /\ actions[j] \in Record => acts[j].kind = actions[j].kind
                          /\ Pending(acts, j) => Pending(actions, j) /\ actions[j] = acts[j]
    <3> DEFINE r == [actions[id] EXCEPT !.state = "approved"]
    <3>1. r \in Record /\ r.state = "approved" /\ r.kind = actions[id].kind
      BY <1>2 DEF Record
    <3>2. acts = [actions EXCEPT ![id] = r]
      BY <2>1
    <3> HIDE DEF r, d
    <3> QED BY <1>1, <1>2, <3>1, <3>2 DEF Tables, Pending
  <2>4. \A j \in Ids : j # id => acts[j] = actions[j]
    BY <1>1, <2>1 DEF Tables
  <2>5. Resuming(g) => Resuming(g)'
    BY <1>1, <2>2, <2>3, StillResuming
  <2>6. CASE g # h
    <3>1. id \notin PendingOn(actions, g)
      BY <1>2, <2>6 DEF PendingOn
    <3>2. PendingOn(acts, g) = PendingOn(actions, g) /\ \A j \in PendingOn(actions, g) : acts[j] = actions[j]
      BY <2>3, <2>4, <3>1 DEF PendingOn, Pending
    <3>3. drain'[g] = drain[g]
      BY <1>1, <2>2, <2>6
    <3> QED BY <1>1, <2>2, <2>5, <3>2, <3>3, AloneKeeps
  <2>7. CASE g = h
    <3>1. ASSUME Serves(d, g, actions, rules)
          PROVE  KeptFor(g)'
      <4>1. Serves(d, g, acts, rules) \/ id \in d.rest
        <5>1. PendingOn(acts, g) = PendingOn(actions, g) \ {id}
          BY <1>2, <2>3, <2>4 DEF PendingOn, Pending
        <5>2. \A j \in PendingOn(acts, g) : acts[j] = actions[j]
          BY <2>3 DEF PendingOn
        <5> QED BY <1>1, <3>1, <5>1, <5>2 DEF Serves
      <4>2. id \notin d.rest
        BY <1>1, <1>2 DEF InOrder, Ids
      <4>3. Serves(Continue(d, g, acts, rules), g, acts, rules)
        BY <1>1, <1>2, <2>3, <4>1, <4>2, ContinueServes
      <4>4. drain'[g] = Continue(d, g, acts, rules)
        BY <1>1, <2>2, <2>7
      <4> HIDE DEF d
      <4> QED BY <1>1, <2>2, <4>3, <4>4 DEF KeptFor
    <3> QED BY <1>1, <2>2, <2>5, <2>7, <3>1 DEF KeptFor
  <2> QED BY <2>6, <2>7
<1>4. CASE DrainEnded(h)
  <2>1. /\ drain' = [drain EXCEPT ![h] = NextPass(d, h, actions, rules)] /\ actions' = actions
        /\ excused' = [excused EXCEPT ![h] = IF d.rerun THEN "no" ELSE "failed"]
    BY <1>4 DEF DrainEnded, DrainThrew, Excuse
  <2>2. Resuming(g) => Resuming(g)'
    BY <1>1, <2>1 DEF Resuming, OwnerOf
  <2>3. CASE g # h
    <3>1. drain'[g] = drain[g] /\ excused'[g] = excused[g]
      BY <1>1, <2>1, <2>3
    <3> QED BY <1>1, <2>1, <2>2, <3>1, AloneKeeps
  <2>4. CASE g = h /\ ~d.rerun
    <3>1. excused'[g] = "failed"
      BY <1>1, <2>1, <2>4
    <3> QED BY <3>1 DEF KeptFor
  <2>5. CASE g = h /\ d.rerun
    <3>1. drain'[g] = Pass(PendingOn(actions, g), FALSE, actions, rules)
      BY <1>1, <2>1, <2>5 DEF NextPass
    <3>2. Serves(drain'[g], g, actions', rules')
      BY <1>1, <2>1, <3>1, SnapshotServes
    <3> QED BY <3>2 DEF KeptFor
  <2> QED BY <2>3, <2>4, <2>5
<1> QED BY <1>3, <1>4

\* Users' calls: the gatekeeper of the action is asked for a drain, or excused,
\* or waits for a resumption; the others are left alone.
LEMMA CallsServe ==
  ASSUME ServiceInv, NEW c \in Clients, NEW g \in Gatekeepers, ops[c].pc # "idle",
         NEW h, h = OwnerOf(c), NEW id, id = ops[c].id,
         \/ actions' = actions
         \/ actions' = [actions EXCEPT ![id].state = "approved"]
         \/ actions' = [actions EXCEPT ![id].state = "rejected"],
         UNCHANGED rules,
         \/ DrainAndReturn(c, actions') /\ Excuse(h, "no")
         \/ UNCHANGED drain /\ ops' = [ops EXCEPT ![c] = NoOp] /\ Excuse(h, "failed")
         \/ UNCHANGED drain /\ ops' = [ops EXCEPT ![c] = NoOp] /\ Excuse(h, "rejected")
         \/ UNCHANGED <<drain, excused>> /\ ops' = [ops EXCEPT ![c].pc = "resuming"]
         \/ /\ UNCHANGED <<drain, excused, actions>> /\ ops' = [ops EXCEPT ![c] = NoOp]
            /\ ops[c].pc # "resuming"
  PROVE  KeptFor(g)'
<1>1. /\ id \in Ids /\ actions[id] \in Record /\ actions[id].kind.gk = h
      /\ IInv /\ actions \in Tables /\ drain \in [Gatekeepers -> Drain] /\ ops \in [Clients -> Op]
      /\ excused \in [Gatekeepers -> {"no", "rejected", "failed"}] /\ KeptFor(g)
  BY DEF ServiceInv, IInv, TypeOK, Tables, OpsAreFiled, OwnerOf
<1>2. PICK verdict \in {"approved", "rejected"} :
         actions' = actions \/ actions' = [actions EXCEPT ![id].state = verdict]
  OBVIOUS
<1>3. /\ actions' \in Tables
      /\ \A j \in Ids : /\ actions[j] \in Record => actions'[j].kind = actions[j].kind
                        /\ Pending(actions', j) => Pending(actions, j) /\ actions[j] = actions'[j]
                        /\ j # id => actions'[j] = actions[j]
  <2>1. CASE actions' = actions
    BY <1>1, <2>1
  <2>2. CASE actions' = [actions EXCEPT ![id].state = verdict]
    <3>1. \A j \in Ids : j # id => actions'[j] = actions[j]
      BY <1>1, <2>2 DEF Tables
    <3>2. /\ actions' \in Tables
          /\ \A j \in Ids : /\ actions[j] \in Record => actions'[j].kind = actions[j].kind
                            /\ Pending(actions', j) => Pending(actions, j) /\ actions[j] = actions'[j]
      <4> DEFINE r == [actions[id] EXCEPT !.state = verdict]
      <4>1. r \in Record /\ r.state = verdict /\ r.kind = actions[id].kind
        BY <1>1 DEF Record
      <4>2. actions' = [actions EXCEPT ![id] = r]
        BY <2>2
      <4> HIDE DEF r
      <4> QED BY <1>1, <4>1, <4>2 DEF Tables, Pending
    <3> QED BY <3>1, <3>2
  <2> QED BY <1>2, <2>1, <2>2
<1>4. actions'[id].kind.gk = h
  BY <1>1, <1>3
<1>5. CASE g # h
  <2>1. id \notin PendingOn(actions, g)
    BY <1>1, <1>5 DEF PendingOn
  <2>2. /\ PendingOn(actions', g) = PendingOn(actions, g)
        /\ \A j \in PendingOn(actions, g) : actions'[j] = actions[j]
    BY <1>3, <2>1 DEF PendingOn, Pending
  <2>3. drain'[g] = drain[g] /\ excused'[g] = excused[g]
    <3>1. ASSUME DrainAndReturn(c, actions') PROVE drain'[g] = drain[g]
      BY <1>1, <1>4, <1>5, <3>1 DEF DrainAndReturn
    <3> QED BY <1>1, <1>5, <3>1 DEF Excuse
  <2>4. ASSUME Resuming(g) PROVE Resuming(g)'
    <3>1. PICK b \in Clients : ops[b].pc = "resuming" /\ OwnerOf(b) = g
      BY <2>4 DEF Resuming
    <3>2. b # c /\ ops'[b] = ops[b]
      BY <1>1, <1>5, <3>1 DEF DrainAndReturn
    <3>3. ops[b].id \in Ids /\ actions[ops[b].id] \in Record
      BY <1>1, <3>1 DEF IInv, OpsAreFiled
    <3>4. ops'[b].pc = "resuming" /\ actions'[ops'[b].id].kind.gk = g
      BY <1>3, <3>1, <3>2, <3>3 DEF OwnerOf
    <3> QED BY <3>4 DEF Resuming, OwnerOf
  <2> QED BY <1>1, <2>2, <2>3, <2>4, AloneKeeps
<1>6. CASE g = h /\ DrainAndReturn(c, actions')
  <2>1. drain'[g] = Requested(drain[g], g, actions', rules)
    BY <1>1, <1>4, <1>6 DEF DrainAndReturn
  <2>2. Serves(drain'[g], g, actions', rules')
    BY <1>1, <2>1, RequestedServes
  <2> QED BY <2>2 DEF KeptFor
<1>7. CASE g = h /\ (Excuse(h, "failed") \/ Excuse(h, "rejected"))
  <2>1. excused'[g] # "no"
    BY <1>1, <1>7 DEF Excuse
  <2> QED BY <2>1 DEF KeptFor
<1>8. CASE g = h /\ ops' = [ops EXCEPT ![c].pc = "resuming"]
  <2>1. ops'[c].pc = "resuming" /\ ops'[c].id = id
    BY <1>1, <1>8 DEF Op
  <2> QED BY <1>4, <1>8, <2>1 DEF KeptFor, Resuming, OwnerOf
<1>9. CASE /\ UNCHANGED <<drain, excused, actions>> /\ ops' = [ops EXCEPT ![c] = NoOp]
           /\ ops[c].pc # "resuming"
  <2>1. Resuming(g) => Resuming(g)'
    <3>1. \A b \in Clients : ops[b].pc = "resuming" => ops'[b] = ops[b]
      BY <1>1, <1>9
    <3> QED BY <1>1, <1>3, <3>1, StillResuming
  <2> QED BY <1>1, <1>9, <2>1, AloneKeeps
<1> QED BY <1>5, <1>6, <1>7, <1>8, <1>9

LEMMA ServiceKeeps ==
  ASSUME ServiceInv, [ServiceNext]_serviceVars, NEW g \in Gatekeepers
  PROVE  KeptFor(g)'
<1>1. IInv /\ ops \in [Clients -> Op] /\ KeptFor(g)
  BY DEF ServiceInv, IInv, TypeOK
<1>2. ASSUME NEW kind \in Kinds, Submitted(kind) PROVE KeptFor(g)'
  BY <1>2, SubmittedServes
<1>3. ASSUME NEW h \in Gatekeepers, NEW tag \in Tags,
             \/ EnableRule(h, tag) /\ Excuse(h, "no")
             \/ NoChange(DisableRule(h, tag))
      PROVE  KeptFor(g)'
  BY <1>3, RulesServe
<1>4. ASSUME NEW h \in Gatekeepers, NoChange(DrainApplied(h)) \/ DrainEnded(h)
      PROVE  KeptFor(g)'
  BY <1>4, DrainsServe
<1>5. ASSUME NEW c \in Clients, NEW op \in {"approve", "reject"}, NEW id \in Ids,
             NoChange(Decide(c, op, id))
      PROVE  KeptFor(g)'
  <2>1. UNCHANGED <<actions, rules, drain, excused>>
    BY <1>5 DEF NoChange, Decide
  <2>2. \A b \in Clients : ops[b].pc = "resuming" => ops'[b] = ops[b]
    BY <1>1, <1>5 DEF NoChange, Decide
  <2>3. Resuming(g) => Resuming(g)'
    BY <1>1, <2>1, <2>2, StillResuming
  <2> QED BY <1>1, <2>1, <2>3, AloneKeeps
<1>6. ASSUME NEW c \in Clients,
             \/ NoChange(Approved(c, TRUE))
             \/ Approved(c, FALSE) /\ Excuse(OwnerOf(c), "no")
             \/ Resumed(c) /\ Excuse(OwnerOf(c), "no")
             \/ ResumeThrew(c) /\ Excuse(OwnerOf(c), "failed")
             \/ Rejected(c) /\ Excuse(OwnerOf(c), "rejected")
             \/ NoChange(DecisionThrew(c))
      PROVE  KeptFor(g)'
  <2>1. ops[c].pc # "idle" /\ UNCHANGED rules
    BY <1>6 DEF NoChange, Approved, Resumed, ResumeThrew, Rejected, DecisionThrew
  <2>2. \/ actions' = actions
        \/ actions' = [actions EXCEPT ![ops[c].id].state = "approved"]
        \/ actions' = [actions EXCEPT ![ops[c].id].state = "rejected"]
    BY <1>6 DEF NoChange, Approved, Resumed, ResumeThrew, Rejected, DecisionThrew
  <2>3. \/ DrainAndReturn(c, actions') /\ Excuse(OwnerOf(c), "no")
        \/ UNCHANGED drain /\ ops' = [ops EXCEPT ![c] = NoOp] /\ Excuse(OwnerOf(c), "failed")
        \/ UNCHANGED drain /\ ops' = [ops EXCEPT ![c] = NoOp] /\ Excuse(OwnerOf(c), "rejected")
        \/ UNCHANGED <<drain, excused>> /\ ops' = [ops EXCEPT ![c].pc = "resuming"]
        \/ /\ UNCHANGED <<drain, excused, actions>> /\ ops' = [ops EXCEPT ![c] = NoOp]
           /\ ops[c].pc # "resuming"
    BY <1>6 DEF NoChange, Approved, Resumed, ResumeThrew, Rejected, DecisionThrew, DrainAndReturn
  <2> QED BY <2>1, <2>2, <2>3, CallsServe
<1>7. CASE Restart /\ excused' = [h \in Gatekeepers |-> "failed"]
  BY <1>7 DEF KeptFor
<1>8. CASE UNCHANGED serviceVars
  BY <1>1, <1>8 DEF serviceVars, queueVars, KeptFor, Resuming, OwnerOf
<1> QED BY <1>2, <1>3, <1>4, <1>5, <1>6, <1>7, <1>8 DEF ServiceNext

LEMMA ExcusesAreTyped ==
  ASSUME ServiceInv, [ServiceNext]_serviceVars
  PROVE  excused' \in [Gatekeepers -> {"no", "rejected", "failed"}]
BY DEF ServiceInv, ServiceNext, serviceVars, NoChange, Submitted, DrainEnded, Excuse

LEMMA ServiceBegins == ServiceInit => ServiceInv
<1> SUFFICES ASSUME ServiceInit PROVE ServiceInv
  OBVIOUS
<1>1. IInv /\ actions = [id \in Ids |-> NoRecord] /\ drain = [g \in Gatekeepers |-> NoDrain]
  BY InitIInv DEF ServiceInit, Init
<1>2. ASSUME NEW g \in Gatekeepers PROVE Serves(drain[g], g, actions, rules)
  <2>1. PendingOn(actions, g) = {}
    BY <1>1, RecordsDiffer DEF PendingOn, Pending
  <2>2. Servable(PendingOn(actions, g), actions, rules) = {}
    BY <2>1 DEF Servable
  <2> QED BY <1>1, <2>2 DEF Serves, NoDrain
<1> QED BY <1>1, <1>2 DEF ServiceInit, ServiceInv, KeptFor

\* No request for a drain gets lost, however submissions, decisions, rules,
\* failures and the passes of a drain interleave: there is nothing that the rules
\* admit of which no drain, and nobody who will ask for one, knows.  (drain() in
\* auto-approval.ts turns a request that meets a running drain into a rerun.)
THEOREM RequestsKept == ServiceSpec => []RequestsAreKept
<1>1. ServiceInv /\ [ServiceNext]_serviceVars => ServiceInv'
  BY ServiceStepIsNext, NextIInv, ExcusesAreTyped, ServiceKeeps DEF ServiceInv
<1>2. ServiceInv => RequestsAreKept
  BY DEF ServiceInv, KeptFor, Serves, Resuming, RequestsAreKept, NothingToServe
<1> QED BY <1>1, <1>2, ServiceBegins, PTL DEF ServiceSpec

=============================================================================
