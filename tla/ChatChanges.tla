------------------------------ MODULE ChatChanges ------------------------------
(***************************************************************************)
(* The changes that one chat proposes to the workspace: code and gadgets   *)
(* that its agent, or a user, makes; that a user accepts (mergeChanges) or *)
(* rejects (revertChanges); and the compaction of the chat, which folds a  *)
(* prefix of its log into a checkpoint so that neither the agent nor the   *)
(* question "what is still proposed?" reads it again.                      *)
(*                                                                         *)
(* The same facts are kept four times: in the log, which is the source of  *)
(* truth and only grows; in the checkpoints; in the registry of gadgets,   *)
(* where a provisional one is stamped with the sequence of the message     *)
(* that records it; and in the chat's metadata.  A turn and a user's       *)
(* operation both await in the middle, and the overseer may restart.       *)
(*                                                                         *)
(* Sequences count from 1.  A chat that was never compacted is compacted   *)
(* to 1.  A Yjs update is the sequence of the message that carries it, and *)
(* updates merged into one are a set of them.  Provisional bindings are    *)
(* stamped, promoted and deleted exactly like gadgets, in loops beside     *)
(* theirs, and are not modelled on their own.                              *)
(***************************************************************************)
EXTENDS Naturals, Sequences, FiniteSets, FiniteSetsExt

CONSTANTS
    Gadgets,       \* the gadgets that may be created
    Limit,         \* bound on the messages of each type
    MaxByUser,     \* bound on the changes that users make
    MaxLog,        \* bound on the length of the log
    MaxRestarts    \* bound on the restarts of the overseer

Types == {"prompt", "compact", "step", "changes", "merge", "revert"}

ASSUME ChangesAssumption == /\ Limit \in [Types -> Nat]
                            /\ {MaxByUser, MaxLog, MaxRestarts} \subseteq Nat

VARIABLES
    log,           \* the chat's messages
    meta,          \* its row in chatMeta
    checkpoints,   \* chatCompactions
    gadget,        \* the registry of gadgets
    code,          \* the updates that are in the mainline
    draft,         \* has the user edited files without saving them as changes?
    turn,          \* the agent's turn
    op,            \* the mergeChanges() or revertChanges() that is awaiting
    overlapped,    \* history: op went on after the chat had moved on
    restarts

changesVars == <<log, meta, checkpoints, gadget, code, draft, turn, op,
                 overlapped, restarts>>

NoTurn == [at |-> "none", todo |-> {}, base |-> 1, seen |-> 0, cut |-> 0,
           adopted |-> {}, calls |-> {}]

NewMeta == [active |-> FALSE, to |-> 1, proposed |-> FALSE]

NoOp == [at |-> "none", todo |-> {}, mark |-> 0, meta |-> NewMeta, began |-> 0]

-----------------------------------------------------------------------------
(* Messages.  Those that tell nothing about changes (answers, errors,      *)
(* callbacks) are left out: sequences are only compared.                   *)

Message(type) ==
    [type |-> type, made |-> {}, code |-> FALSE, byUser |-> FALSE, mark |-> 0]

Step(made) == [Message("step") EXCEPT !.made = made]

Changes(made, edited, byUser) ==
    [Message("changes") EXCEPT !.made = made, !.code = edited,
                               !.byUser = byUser]

Mark(type, seq) == [Message(type) EXCEPT !.mark = seq]

\* Does replay turn the message into something that the model reads?
CanCut(m) == \/ m.type \in {"prompt", "step", "revert"}
             \/ m.type = "changes" /\ m.byUser

\* The bound on the log.
LogRoom(type) ==
    /\ Len(log) < MaxLog
    /\ Cardinality({s \in DOMAIN log : log[s].type = type}) < Limit[type]

UserRoom == /\ LogRoom("changes")
            /\ Cardinality({s \in DOMAIN log : log[s].byUser}) < MaxByUser

-----------------------------------------------------------------------------
(* What is proposed.                                                       *)

Batch(seq, updates) == [at |-> seq, updates |-> updates]

UpdatesOf(batches) == UNION {b.updates : b \in batches}

\* A merge accepts through its mark, a revert discards from its mark on.
Settles(m, at) == \/ m.type = "merge" /\ at <= m.mark
                  \/ m.type = "revert" /\ m.mark <= at

\* What becomes of a batch: the first message to settle it decides.
Fate(l, lo, hi, at) ==
    LET settling == {seq \in lo..hi : seq > at /\ Settles(l[seq], at)}
    IN  IF settling = {} THEN "proposed" ELSE l[Min(settling)].type

\* The batches still proposed and the updates accepted after the messages
\* from lo to hi, with `seed` proposed before them.  (The code pops batches
\* from the ends of a list in the order of sequences.)
foldProposedChanges(l, lo, hi, seed) ==
    LET changes == {seq \in lo..hi : l[seq].type = "changes"}
        batches == seed \union
            {Batch(seq, IF l[seq].code THEN {seq} ELSE {}) : seq \in changes}
        With(fate) == {b \in batches : Fate(l, lo, hi, b.at) = fate}
    IN  [proposed |-> With("proposed"), accepted |-> UpdatesOf(With("merge"))]

\* The checkpoint that ends at `to`; with the empty one for 1.
CheckpointAt(cps, to) ==
    IF \E c \in cps : c.to = to
      THEN CHOOSE c \in cps : c.to = to
      ELSE [to |-> 1, accepted |-> {}, proposed |-> {}]

Stamped(reg, g) == reg[g].at = "pending" /\ reg[g].seq > 0

\* A compacted prefix counts as one batch, addressed at its last sequence.
getProposedChanges(l, to, cps, reg) ==
    LET prefix == CheckpointAt(cps, to).proposed
        hasPendingStructure ==
            \E g \in Gadgets : Stamped(reg, g) /\ reg[g].seq < to
    IN  foldProposedChanges(l, to, Len(l),
            IF to > 1 /\ (prefix # {} \/ hasPendingStructure)
              THEN {Batch(to - 1, prefix)} ELSE {}).proposed

Offered == getProposedChanges(log, meta.to, checkpoints, gadget)

\* The whole log, as if the chat had never been compacted.
InFull == foldProposedChanges(log, 1, Len(log), {})

-----------------------------------------------------------------------------
(* The registry.                                                           *)

\* Unstamped and named by no step that reached the log: nothing backs them.
Orphans(reg, l) ==
    {g \in Gadgets :
        /\ reg[g].at = "pending" /\ reg[g].seq = 0
        /\ \A s \in DOMAIN l : ~(l[s].type = "step" /\ g \in l[s].made)}

\* The message that records them stamps the gadgets that have no stamp yet.
StampedWith(reg, made, seq) ==
    [g \in Gadgets |-> IF g \in made /\ reg[g] = [at |-> "pending", seq |-> 0]
                         THEN [reg[g] EXCEPT !.seq = seq] ELSE reg[g]]

Promoted(reg, through) ==
    [g \in Gadgets |-> IF Stamped(reg, g) /\ reg[g].seq <= through
                         THEN [at |-> "kept", seq |-> 0] ELSE reg[g]]

\* Mutant: the gadgets of the rejected change itself survive.
RejectedFromMut(reg, from) ==
    {g \in Gadgets : Stamped(reg, g) /\ reg[g].seq > from}

RejectedFrom(reg, from) ==
    {g \in Gadgets : Stamped(reg, g) /\ reg[g].seq >= from}

Without(reg, g) == [reg EXCEPT ![g] = [at |-> "gone", seq |-> 0]]

-----------------------------------------------------------------------------
(* Compaction.                                                             *)

\* Mutant: the budget alone decides.
protectRetainedRevertsMut(cut, lo, hi) == cut

\* Lowers the cut until the target of every revert in the tail is in it, too.
protectRetainedReverts(cut, lo, hi) ==
    Max({c \in 1..cut :
            \A seq \in lo..hi : log[seq].type = "revert" /\ seq >= c
                                  => log[seq].mark >= c})

\* The budget picks one of the cuts; which one is not modelled.
Boundaries(base, seen) ==
    {cut \in {protectRetainedReverts(s, base, seen) :
                  s \in {q \in base..seen : q > base /\ CanCut(log[q])}} :
        cut > base}

\* Mutant: what was proposed before the previous checkpoint is forgotten.
buildCompactionStateMut1(base, cut) ==
    LET state == foldProposedChanges(log, base, cut - 1, {})
    IN  [to |-> cut,
         accepted |-> CheckpointAt(checkpoints, base).accepted
                        \union state.accepted,
         proposed |-> UpdatesOf(state.proposed)]

\* Mutant: what was accepted before the previous checkpoint is forgotten.
buildCompactionStateMut2(base, cut) ==
    LET seed == {Batch(0, CheckpointAt(checkpoints, base).proposed)}
        state == foldProposedChanges(log, base, cut - 1, seed)
    IN  [to |-> cut, accepted |-> state.accepted,
         proposed |-> UpdatesOf(state.proposed)]

buildCompactionState(base, cut) ==
    LET previous == CheckpointAt(checkpoints, base)
        seed == IF previous.proposed = {} THEN {}
                ELSE {Batch(0, previous.proposed)}
        state == foldProposedChanges(log, base, cut - 1, seed)
    IN  [to |-> cut,
         accepted |-> previous.accepted \union state.accepted,
         proposed |-> UpdatesOf(state.proposed)]

\* Mutant: a checkpoint that covers the target itself stays.
RolledBackMut(from) == {c \in checkpoints : c.to <= from + 1}

\* A revert leaves the checkpoints that end at or before its target.
RolledBack(from) == {c \in checkpoints : c.to <= from}

-----------------------------------------------------------------------------
(* What the agent sees of the code when a turn replays the log.            *)

\* Does the merge or the revert at m cover the message at seq?  A merge
\* stops short of the message that it names.
Covers(m, seq) ==
    CASE log[m].type = "merge"  -> seq < log[m].mark
      [] log[m].type = "revert" -> log[m].mark <= seq /\ seq < m
      [] OTHER                  -> FALSE

\* The first to cover a message of the tail decides what became of it.
Reverted(seq) ==
    LET covering == {m \in meta.to..Len(log) : Covers(m, seq)}
    IN  covering # {} /\ log[Min(covering)].type = "revert"

Replayed ==
    LET checkpoint == CheckpointAt(checkpoints, meta.to)
    IN  checkpoint.accepted \union checkpoint.proposed
          \union {s \in meta.to..Len(log) : log[s].type = "changes"
                                              /\ log[s].code /\ ~Reverted(s)}

-----------------------------------------------------------------------------
(* Users.                                                                  *)

\* newChat() with a first prompt; only a user who has a model gets a turn.
ChangesInit ==
    /\ log = <<Message("prompt")>> /\ checkpoints = {}
    /\ \/ meta = NewMeta /\ turn = NoTurn
       \/ /\ meta = [NewMeta EXCEPT !.active = TRUE]
          /\ turn = [NoTurn EXCEPT !.at = "reaping"]
    /\ gadget = [g \in Gadgets |-> [at |-> "absent", seq |-> 0]]
    /\ code = {} /\ draft = FALSE /\ op = NoOp
    /\ overlapped = FALSE /\ restarts = 0

\* recomputeHasProposedChanges(), after the changes given.
Recomputed(row, l, cps, reg, drafted) ==
    [row EXCEPT !.proposed =
        drafted \/ getProposedChanges(l, row.to, cps, reg) # {}]

\* materializeChatDraft()
Materialized == IF draft THEN Append(log, Changes({}, TRUE, TRUE)) ELSE log

\* An edit in the chat's view of the code; also while the agent is active.
EditDraft ==
    /\ ~draft /\ UserRoom
    /\ draft' = TRUE
    /\ meta' = [meta EXCEPT !.proposed = TRUE]
    /\ UNCHANGED <<log, checkpoints, gadget, code, turn, op, overlapped,
                   restarts>>

FinalizeDraft ==
    /\ draft /\ ~meta.active /\ UserRoom
    /\ log' = Materialized /\ draft' = FALSE
    /\ meta' = Recomputed(meta, log', checkpoints, gadget, FALSE)
    /\ UNCHANGED <<checkpoints, gadget, code, turn, op, overlapped, restarts>>

DiscardDraft ==
    /\ draft /\ ~meta.active
    /\ draft' = FALSE
    /\ meta' = Recomputed(meta, log, checkpoints, gadget, FALSE)
    /\ UNCHANGED <<log, checkpoints, gadget, code, turn, op, overlapped,
                   restarts>>

\* A user creates a gadget with the chat open; also while the agent is active.
UserCreates(g) ==
    /\ gadget[g].at = "absent" /\ UserRoom
    /\ log' = Append(log, Changes({g}, FALSE, TRUE))
    /\ gadget' = [gadget EXCEPT ![g] = [at |-> "pending", seq |-> Len(log')]]
    /\ meta' = [meta EXCEPT !.proposed = TRUE]
    /\ UNCHANGED <<checkpoints, code, draft, turn, op, overlapped, restarts>>

\* Has something else been done to the chat since op read its metadata?
MovedOn == meta.active \/ Len(log) > op.began

-----------------------------------------------------------------------------
(* mergeChanges(): the draft and the chat's metadata first, then an await  *)
(* for every orphan that is reaped, then the rest in one step.             *)

\* What the "Accept changes" banner sends: through all that it knows of.
AcceptThrough ==
    Max({b.at : b \in Offered} \union (IF meta.to > 1 THEN {meta.to - 1} ELSE {}))

MergeRest(row, l, through, found, drafted) ==
    LET reg == Promoted(found, through)
        merged == {b \in getProposedChanges(l, meta.to, checkpoints, reg) :
                      b.at <= through}
    IN  /\ gadget' = reg
        /\ IF merged = {}
             THEN UNCHANGED <<log, code, meta>>
             ELSE /\ log' = Append(l, Mark("merge", through))
                  /\ code' = code \union UpdatesOf(merged)
                  /\ meta' = Recomputed(row, log', checkpoints, reg, drafted)

Accept ==
    /\ op.at = "none" /\ ~meta.active /\ meta.proposed
    /\ LogRoom("merge") /\ (draft => UserRoom /\ Len(log) + 1 < MaxLog)
    /\ Offered # {} \/ meta.to > 1
    /\ LET through == IF draft THEN Len(log) + 1 ELSE AcceptThrough
           row == IF draft THEN [meta EXCEPT !.proposed = TRUE] ELSE meta
           orphans == Orphans(gadget, log)
       IN  IF orphans = {}
             THEN /\ MergeRest(row, Materialized, through, gadget, FALSE)
                  /\ UNCHANGED op
             ELSE /\ op' = [at |-> "merge", todo |-> orphans, mark |-> through,
                            meta |-> row, began |-> Len(Materialized)]
                  /\ log' = Materialized /\ meta' = row
                  /\ UNCHANGED <<gadget, code>>
    /\ draft' = FALSE
    /\ UNCHANGED <<checkpoints, turn, overlapped, restarts>>

-----------------------------------------------------------------------------
(* revertChanges(): awaits for orphans, and for every gadget it deletes.   *)

\* Everything, or an agent's change that the user sees as pending.
RevertTargets ==
    {b.at : b \in {b \in InFull.proposed : ~log[b.at].byUser}}
      \union (IF meta.proposed THEN {1} ELSE {})

\* What follows the last await.  The whole log says whether there is a change.
RevertRest(row, from, reg) ==
    IF \A b \in InFull.proposed : b.at < from
      THEN UNCHANGED <<log, meta, checkpoints>>
      ELSE LET left == RolledBack(from)
               to == Max({1} \union {c.to : c \in left})
           IN  /\ log' = Append(log, Mark("revert", from))
               /\ checkpoints' = left
               /\ meta' = Recomputed([row EXCEPT !.to = to], log', left, reg,
                                     draft)

Revert(from) ==
    /\ op.at = "none" /\ ~meta.active /\ LogRoom("revert")
    /\ LET orphans == Orphans(gadget, log)
           rejected == RejectedFrom(gadget, from)
       IN  IF orphans = {} /\ rejected = {}
             THEN RevertRest(meta, from, gadget) /\ UNCHANGED op
             ELSE /\ op' = [at |-> IF orphans = {} THEN "remove" ELSE "reap",
                            todo |-> IF orphans = {} THEN rejected ELSE orphans,
                            mark |-> from, meta |-> meta, began |-> Len(log)]
                  /\ UNCHANGED <<log, meta, checkpoints>>
    /\ UNCHANGED <<gadget, code, draft, turn, overlapped, restarts>>

\* op waits for removeGadget(g); reg is the registry when it returns.  A
\* removal that fails is no matter to a reconciliation; a revert throws.
OpResumes(g, reg) ==
    LET rest == op.todo \ {g}
        rejected == RejectedFrom(reg, op.mark)
    IN  CASE rest # {} ->
               /\ op' = [op EXCEPT !.todo = rest] /\ gadget' = reg
               /\ UNCHANGED <<log, meta, checkpoints, code>>
          [] rest = {} /\ op.at = "merge" ->
               /\ MergeRest(op.meta, log, op.mark, reg, draft)
               /\ op' = NoOp /\ UNCHANGED checkpoints
          [] rest = {} /\ op.at = "reap" /\ rejected # {} ->
               /\ op' = [op EXCEPT !.at = "remove", !.todo = rejected]
               /\ gadget' = reg /\ UNCHANGED <<log, meta, checkpoints, code>>
          [] OTHER ->
               /\ RevertRest(op.meta, op.mark, reg) /\ op' = NoOp
               /\ gadget' = reg /\ UNCHANGED code

OpHasRoom == LogRoom(IF op.at = "merge" THEN "merge" ELSE "revert")

OpRemoves(g) ==
    /\ g \in op.todo /\ gadget[g].at # "gone" /\ OpHasRoom
    /\ OpResumes(g, Without(gadget, g))
    /\ overlapped' = MovedOn
    /\ UNCHANGED <<draft, turn, restarts>>

OpFailsToRemove(g) ==
    /\ g \in op.todo
    /\ IF op.at = "remove"
         THEN /\ op' = NoOp
              /\ UNCHANGED <<log, meta, checkpoints, gadget, code, overlapped>>
         ELSE /\ OpHasRoom
              /\ OpResumes(g, gadget) /\ overlapped' = MovedOn
    /\ UNCHANGED <<draft, turn, restarts>>

-----------------------------------------------------------------------------
(* The agent's turn.                                                       *)

StartTurn(type) ==
    /\ ~meta.active /\ LogRoom(type)
    /\ (draft => UserRoom /\ Len(log) + 1 < MaxLog)
    /\ log' = Append(Materialized, Message(type))
    /\ draft' = FALSE
    /\ meta' = [meta EXCEPT !.active = TRUE, !.proposed = @ \/ draft]
    /\ turn' = [NoTurn EXCEPT !.at = "reaping", !.todo = Orphans(gadget, log)]
    /\ UNCHANGED <<checkpoints, gadget, code, op, overlapped, restarts>>

\* reconcilePendingGadgets() at the start and at the end of a turn.
TurnReaps(g) ==
    /\ g \in turn.todo
    /\ turn' = [turn EXCEPT !.todo = @ \ {g}]
    /\ gadget' \in {Without(gadget, g), gadget}
    /\ UNCHANGED <<log, meta, checkpoints, code, draft, op, overlapped, restarts>>

\* The turn reads the checkpoint and the tail, and adopts the gadgets that a
\* step of the tail created and no message of the tail records.
ReadTail ==
    /\ turn.at = "reaping" /\ turn.todo = {}
    /\ LET tail == meta.to..Len(log)
           Made(type) == UNION {log[s].made : s \in {q \in tail :
                                                      log[q].type = type}}
       IN  turn' = [NoTurn EXCEPT !.at = "replaying", !.base = meta.to,
                                  !.seen = Len(log),
                                  !.adopted = Made("step") \ Made("changes")]
    /\ UNCHANGED <<log, meta, checkpoints, gadget, code, draft, op, overlapped,
                   restarts>>

\* flushCapturedYdocChanges() with addChatMessages(); what it does to the
\* registry is Recorded.
Flush(edited) ==
    IF turn.adopted = {} /\ ~edited
      THEN UNCHANGED <<log, meta>>
      ELSE /\ LogRoom("changes")
           /\ log' = Append(log, Changes(turn.adopted, edited, FALSE))
           /\ meta' = [meta EXCEPT !.proposed = TRUE]

Recorded == StampedWith(gadget, turn.adopted, Len(log) + 1)

\* The tail ends with /compact
IsCompactionTurn == log[turn.seen].type = "compact"

\* Edits that replay adopts are those of a turn that a restart interrupted.
Compacts(edited) ==
    /\ turn.at = "replaying" /\ (edited => restarts > 0)
    /\ Flush(edited) /\ gadget' = Recorded
    /\ \E cut \in Boundaries(turn.base, turn.seen) :
          turn' = [turn EXCEPT !.at = "summarizing", !.cut = cut,
                               !.adopted = {}]
    /\ UNCHANGED <<checkpoints, code, draft, op, overlapped, restarts>>

\* #commitChatCompaction(); the turn is run again on the shorter log.
Summarized ==
    /\ turn.at = "summarizing"
    /\ checkpoints' = {c \in checkpoints : c.to # turn.cut}
                         \union {buildCompactionState(turn.base, turn.cut)}
    /\ meta' = [meta EXCEPT !.to = turn.cut]
    /\ turn' = IF IsCompactionTurn
                 THEN [NoTurn EXCEPT !.at = "ending", !.todo = Orphans(gadget, log)]
                 ELSE [NoTurn EXCEPT !.at = "reaping"]
    /\ UNCHANGED <<log, gadget, code, draft, op, overlapped, restarts>>

Prompting == [NoTurn EXCEPT !.at = "prompting", !.adopted = turn.adopted]

\* No summary: /compact fails, any other turn goes on without it.
SummaryFails ==
    /\ turn.at = "summarizing"
    /\ turn' = IF IsCompactionTurn
                 THEN [NoTurn EXCEPT !.at = "ending", !.todo = Orphans(gadget, log)]
                 ELSE Prompting
    /\ UNCHANGED <<log, meta, checkpoints, gadget, code, draft, op, overlapped,
                   restarts>>

Prompts ==
    /\ turn.at = "replaying" /\ ~IsCompactionTurn
    /\ turn' = Prompting
    /\ UNCHANGED <<log, meta, checkpoints, gadget, code, draft, op, overlapped,
                   restarts>>

\* The createGadget tool: flushes what came before, then adds the row.
CreatesGadget(g, edited) ==
    /\ turn.at = "prompting" /\ gadget[g].at = "absent"
    /\ Flush(edited)
    /\ gadget' = [Recorded EXCEPT ![g] = [at |-> "pending", seq |-> 0]]
    /\ turn' = [turn EXCEPT !.adopted = {g}, !.calls = @ \union {g}]
    /\ UNCHANGED <<checkpoints, code, draft, op, overlapped, restarts>>

\* executeCode, or the files of a blueprint, are a barrier within a step.
Barrier(edited) ==
    /\ turn.at = "prompting"
    /\ edited \/ turn.adopted # {}
    /\ Flush(edited) /\ gadget' = Recorded
    /\ turn' = [turn EXCEPT !.adopted = {}]
    /\ UNCHANGED <<checkpoints, code, draft, op, overlapped, restarts>>

\* turn_end: the step's message reaches the log.
StepEnds ==
    /\ turn.at = "prompting" /\ LogRoom("step")
    /\ log' = Append(log, Step(turn.calls))
    /\ turn' = [turn EXCEPT !.calls = {}]
    /\ UNCHANGED <<meta, checkpoints, gadget, code, draft, op, overlapped,
                   restarts>>

\* The model is done, stopped or failed: the rest is flushed.
Finishes(edited) ==
    /\ turn.at = "prompting"
    /\ Flush(edited) /\ gadget' = Recorded
    /\ turn' = [NoTurn EXCEPT !.at = "ending", !.todo = Orphans(gadget', log')]
    /\ UNCHANGED <<checkpoints, code, draft, op, overlapped, restarts>>

\* /compact finds nothing to compact, or the turn fails before its first
\* prompt.  Only the first flushes what replay adopted.
FindsNothing(edited) ==
    /\ turn.at = "replaying" /\ IsCompactionTurn /\ (edited => restarts > 0)
    /\ Flush(edited) /\ gadget' = Recorded
    /\ turn' = [NoTurn EXCEPT !.at = "ending", !.todo = Orphans(gadget', log')]
    /\ UNCHANGED <<checkpoints, code, draft, op, overlapped, restarts>>

FailsEarly ==
    /\ turn.at = "replaying" \/ (turn.at = "reaping" /\ turn.todo = {})
    /\ turn' = [NoTurn EXCEPT !.at = "ending", !.todo = Orphans(gadget, log)]
    /\ UNCHANGED <<log, meta, checkpoints, gadget, code, draft, op, overlapped,
                   restarts>>

EndTurn ==
    /\ turn.at = "ending" /\ turn.todo = {}
    /\ turn' = NoTurn
    /\ meta' = [meta EXCEPT !.active = FALSE]
    /\ UNCHANGED <<log, checkpoints, gadget, code, draft, op, overlapped,
                   restarts>>

\* Whatever is in memory is lost; a turn that was running is resumed.
ChangesRestart ==
    /\ restarts < MaxRestarts /\ restarts' = restarts + 1
    /\ op' = NoOp
    /\ turn' = IF meta.active THEN [NoTurn EXCEPT !.at = "resuming"] ELSE NoTurn
    /\ UNCHANGED <<log, meta, checkpoints, gadget, code, draft, overlapped>>

Resume ==
    /\ turn.at = "resuming"
    /\ turn' = [NoTurn EXCEPT !.at = "reaping", !.todo = Orphans(gadget, log)]
    /\ UNCHANGED <<log, meta, checkpoints, gadget, code, draft, op, overlapped,
                   restarts>>

\* The model is no longer available.
ResumeFails ==
    /\ turn.at = "resuming"
    /\ turn' = NoTurn /\ meta' = [meta EXCEPT !.active = FALSE]
    /\ UNCHANGED <<log, checkpoints, gadget, code, draft, op, overlapped,
                   restarts>>

UserNext ==
    \/ EditDraft \/ FinalizeDraft \/ DiscardDraft \/ Accept
    \/ ~meta.active /\ \E from \in RevertTargets : Revert(from)
    \/ \E g \in Gadgets : UserCreates(g) \/ OpRemoves(g) \/ OpFailsToRemove(g)
    \/ \E type \in {"prompt", "compact"} : StartTurn(type)

TurnNext ==
    \/ \E g \in Gadgets : TurnReaps(g)
    \/ \E edited \in BOOLEAN :
          \/ Compacts(edited) \/ Barrier(edited) \/ Finishes(edited)
          \/ FindsNothing(edited)
          \/ \E g \in Gadgets : CreatesGadget(g, edited)
    \/ ReadTail \/ Summarized \/ SummaryFails \/ Prompts \/ StepEnds
    \/ FailsEarly \/ EndTurn \/ Resume \/ ResumeFails

\* Once an operation has gone on after the chat moved on, the model ends.
ChangesNext == ~overlapped /\ (UserNext \/ TurnNext \/ ChangesRestart)

ChangesSpec == ChangesInit /\ [][ChangesNext]_changesVars

-----------------------------------------------------------------------------
(* Properties, as long as no operation went on after the chat had moved on *)
(* (the README says what may happen then).                                 *)

\* The shape of the state.
ChangesTypeOK ==
    LET Seqs == 0..MaxLog
    IN  /\ \A s \in DOMAIN log :
              /\ log[s].type \in Types /\ log[s].made \subseteq Gadgets
              /\ log[s].mark \in Seqs /\ {log[s].code, log[s].byUser} \subseteq BOOLEAN
        /\ meta \in [active : BOOLEAN, to : Seqs, proposed : BOOLEAN]
        /\ checkpoints \subseteq [to : Seqs, accepted : SUBSET Seqs,
                                  proposed : SUBSET Seqs]
        /\ gadget \in [Gadgets -> [at : {"absent", "pending", "kept", "gone"},
                                   seq : Seqs]]
        /\ code \subseteq Seqs /\ draft \in BOOLEAN /\ overlapped \in BOOLEAN
        /\ turn.at \in {"none", "reaping", "replaying", "summarizing",
                        "prompting", "ending", "resuming"}
        /\ turn.todo \union turn.adopted \union turn.calls \subseteq Gadgets
        /\ op.at \in {"none", "merge", "reap", "remove"}
        /\ op.todo \subseteq Gadgets

\* The mainline has exactly the code that the whole log says was accepted,
\* whatever was compacted between a change and its acceptance or rejection.
MainlineIsAccepted == ~overlapped => code = InFull.accepted

\* No change gets lost: what the whole log says is neither accepted nor
\* rejected is still offered to the user; and while there is such a change,
\* or a gadget to be decided about, the chat says so.
ProposalsAreOffered ==
    ~overlapped =>
        LET open == UpdatesOf(InFull.proposed)
        IN  /\ open \subseteq UpdatesOf(Offered)
            /\ open # {} \/ (\E g \in Gadgets : Stamped(gadget, g))
                 => meta.proposed

\* A provisional gadget that a message records is one that the user can still
\* decide about: that message is neither accepted nor rejected.
PendingIsBacked ==
    ~overlapped =>
        \A g \in Gadgets : Stamped(gadget, g) =>
            /\ g \in log[gadget[g].seq].made
            /\ \E b \in InFull.proposed : b.at = gadget[g].seq

\* Replay can tell the agent what a rejection took away: the change that it
\* names was not compacted.
RevertsAreRetained ==
    ~overlapped =>
        \A s \in meta.to..Len(log) :
            log[s].type = "revert" => log[s].mark >= meta.to

\* The agent works on what the log says is proposed or accepted: it never
\* sees rejected code, and misses none, save for the one change named by a
\* merge (the README's disagreements have that one).
ReplayFollowsLog ==
    ~overlapped =>
        LET kept == InFull.accepted \union UpdatesOf(InFull.proposed)
        IN  /\ Replayed \subseteq kept
            /\ \A s \in kept \ Replayed :
                  \E m \in DOMAIN log : log[m].type = "merge" /\ log[m].mark = s

\* What a comment promises of getProposedChanges(): it returns the changes
\* that are neither merged nor reverted.
ProposedIsOpen ==
    ~overlapped => UpdatesOf(Offered) \subseteq UpdatesOf(InFull.proposed)
=============================================================================
