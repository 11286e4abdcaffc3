----------------------- MODULE McpActionStoreProofs -----------------------
(***************************************************************************)
(* The promises of McpActionStore, for every number of callers and of      *)
(* actions, and every limit: TLC checks the same invariants on two callers *)
(* and three actions.                                                      *)
(***************************************************************************)
EXTENDS McpActionStore, FiniteSetTheorems, WellFoundedInduction, TLAPS

-----------------------------------------------------------------------------
(* The inductive invariant.  AtMostOnce alone is not inductive: that the    *)
(* server has not seen a call before must follow from who holds the claim,  *)
(* from where the holder stands and from what the row says.                 *)

Busy(k) == call[k].pc # "idle"

\* A call in flight holds the claim on its row, and holds it alone.
OwnersHoldClaims ==
  /\ \A k \in Callers :
       Busy(k) => call[k].id \in Ids /\ rows[call[k].id].state = "applying"
  /\ \A k, l \in Callers : Busy(k) /\ Busy(l) /\ call[k].id = call[l].id => k = l

\* A row that is being applied has somebody who applies it.
ClaimsHaveOwners ==
  \A id \in Ids : rows[id].state = "applying" =>
    \E k \in Callers : Busy(k) /\ call[k].id = id

\* What is known of the world while a call is in flight.
ProgressIsKnown ==
  \A k \in Callers :
    /\ call[k].pc \in {"connecting", "sent"} => Untouched(call[k].id)
    /\ call[k].pc = "executed" => effects[call[k].id] = 1 /\ orphans[call[k].id] = 0

\* An execution and a request that can still execute exclude each other.
OneDeliveryAtMost == \A id \in Ids : effects[id] + orphans[id] <= 1

\* Ids not handed out yet have no row and no history.
FutureIsBlank ==
  \A id \in Ids : id >= nextRow => rows[id] = Absent /\ Untouched(id)

IInv ==
  /\ TypeOK
  /\ OwnersHoldClaims
  /\ ClaimsHaveOwners
  /\ ProgressIsKnown
  /\ OneDeliveryAtMost
  /\ RowTellsTheTruth
  /\ FutureIsBlank

-----------------------------------------------------------------------------
\* #prune() only ever deletes rows, and only settled ones.
LEMMA PrunedKeeps ==
  ASSUME NEW table \in [Ids -> Row]
  PROVE  /\ Pruned(table) \in [Ids -> Row]
         /\ \A id \in Ids : \/ Pruned(table)[id] = table[id]
                            \/ Terminal(table[id]) /\ Pruned(table)[id] = Absent
         /\ \A id \in Ids : Awaiting(table[id]) => Pruned(table)[id] = table[id]
         /\ \A id \in Ids : Pruned(table)[id].state = "applying" => Awaiting(table[id])
BY DEF Pruned, Terminal, Awaiting, Absent, RowOf, Row, RowStates

\* Settling a row changes that row, and otherwise only deletes settled ones.
LEMMA SettledRows ==
  ASSUME TypeOK, NEW id \in Ids, NEW row \in Row, Terminal(row)
  PROVE  /\ Settled(id, row) \in [Ids -> Row]
         /\ Settled(id, row)[id] \in {row, Absent}
         /\ \A j \in Ids \ {id} : \/ Settled(id, row)[j] = rows[j]
                                  \/ /\ Terminal(rows[j])
                                     /\ Settled(id, row)[j] = Absent
<1> DEFINE table == [rows EXCEPT ![id] = row]
<1>1. /\ table \in [Ids -> Row]
      /\ table[id] = row
      /\ \A j \in Ids \ {id} : table[j] = rows[j]
  BY DEF TypeOK
<1>2. Settled(id, row) = Pruned(table)
  BY DEF Settled
<1> HIDE DEF table
<1> QED BY <1>1, <1>2, PrunedKeeps

\* The rows the store writes are rows.
LEMMA RowValues ==
  /\ Absent \in Row
  /\ RowOf("pending") \in Row /\ RowOf("applied") \in Row /\ RowOf("rejected") \in Row
  /\ \A b \in BOOLEAN : FailedRow(b) \in Row
BY DEF Absent, RowOf, FailedRow, Row, RowStates

\* The store offers a failed call for retry only when the server declined it.
LEMMA RetryableMeansDeclined ==
  ASSUME NEW err \in Errors, ~CallMayHaveTakenEffect(WithClientError(err))
  PROVE  err = "declined"
BY DEF Errors, CallMayHaveTakenEffect, WithClientError

LEMMA OutcomeIsBoolean ==
  ASSUME NEW err \in Errors
  PROVE  FailedRow(~CallMayHaveTakenEffect(WithClientError(err))) \in Row
BY DEF CallMayHaveTakenEffect, FailedRow, Row, RowStates

-----------------------------------------------------------------------------
LEMMA InitIInv == Init => IInv
<1> SUFFICES ASSUME Init PROVE IInv
  OBVIOUS
<1>1. TypeOK
  BY StoreAssumption, RowValues DEF Init, TypeOK, Ids, Idle, Call
<1>2. OwnersHoldClaims /\ ClaimsHaveOwners /\ ProgressIsKnown
  BY DEF Init, OwnersHoldClaims, ClaimsHaveOwners, ProgressIsKnown, Busy, Idle,
         Absent, RowOf
<1>3. OneDeliveryAtMost /\ RowTellsTheTruth /\ FutureIsBlank
  BY DEF Init, OneDeliveryAtMost, RowTellsTheTruth, FutureIsBlank, Untouched,
         Absent, RowOf
<1> QED BY <1>1, <1>2, <1>3 DEF IInv

\* Stage takes an id that has no history.
LEMMA StageIInv == IInv /\ Stage => IInv'
<1> SUFFICES ASSUME IInv, Stage PROVE IInv'
  OBVIOUS
<1> USE DEF IInv
<1>1. TypeOK'
  BY StoreAssumption, RowValues DEF TypeOK, Stage, Ids
<1>2. /\ nextRow \in Ids /\ rows[nextRow] = Absent /\ Untouched(nextRow)
      /\ rows'[nextRow] = RowOf("pending")
      /\ \A id \in Ids \ {nextRow} : rows'[id] = rows[id]
  BY DEF TypeOK, Stage, FutureIsBlank, Ids
<1>3. OwnersHoldClaims' /\ ClaimsHaveOwners' /\ ProgressIsKnown'
  BY <1>2 DEF Stage, OwnersHoldClaims, ClaimsHaveOwners, ProgressIsKnown, Busy,
              Untouched, Absent, RowOf
<1>4. OneDeliveryAtMost' /\ RowTellsTheTruth'
  BY <1>2 DEF Stage, OneDeliveryAtMost, RowTellsTheTruth, Untouched, RowOf
<1>5. FutureIsBlank'
  BY <1>2 DEF Stage, FutureIsBlank, Untouched, Ids, TypeOK
<1> QED BY <1>1, <1>3, <1>4, <1>5

\* Discard deletes a row that is waiting, and no other.
LEMMA DiscardIInv == \A id \in Ids : IInv /\ Discard(id) => IInv'
<1> SUFFICES ASSUME NEW id \in Ids, IInv, Discard(id) PROVE IInv'
  OBVIOUS
<1> USE DEF IInv
<1>1. \A j \in Ids : \/ rows'[j] = rows[j]
                     \/ rows[j].state = "pending" /\ rows'[j] = Absent
  BY DEF TypeOK, Discard
<1>2. TypeOK'
  BY RowValues DEF TypeOK, Discard
<1>3. OwnersHoldClaims' /\ ClaimsHaveOwners' /\ ProgressIsKnown'
  BY <1>1 DEF Discard, OwnersHoldClaims, ClaimsHaveOwners, ProgressIsKnown, Busy,
              Untouched, Absent, RowOf
<1>4. OneDeliveryAtMost' /\ RowTellsTheTruth' /\ FutureIsBlank'
  BY <1>1 DEF Discard, OneDeliveryAtMost, RowTellsTheTruth, FutureIsBlank,
              Untouched, Absent, RowOf
<1> QED BY <1>2, <1>3, <1>4

\* A claim is taken on a row that nobody holds and the server has not seen.
LEMMA ClaimIInv == \A k \in Callers, id \in Ids : IInv /\ Claim(k, id) => IInv'
<1> SUFFICES ASSUME NEW k \in Callers, NEW id \in Ids, IInv, Claim(k, id)
             PROVE  IInv'
  OBVIOUS
<1> USE DEF IInv
<1>1. /\ rows[id].state \in {"pending", "failed"} /\ Untouched(id)
      /\ rows[id] # Absent
  BY DEF Claim, Claimable, RowTellsTheTruth, Absent, RowOf
<1>2. /\ rows'[id] = [rows[id] EXCEPT !.state = "applying"]
      /\ rows'[id] \in Row /\ rows'[id].state = "applying"
      /\ \A j \in Ids \ {id} : rows'[j] = rows[j]
  BY DEF Claim, TypeOK, Row, RowStates
<1>3. /\ ~Busy(k)
      /\ call'[k] = [pc |-> "connecting", id |-> id]
      /\ \A l \in Callers \ {k} : call'[l] = call[l]
  BY DEF Claim, TypeOK, Busy
<1>4. \A l \in Callers : Busy(l) => call[l].id # id
  BY <1>1 DEF OwnersHoldClaims
<1>5. TypeOK'
  BY <1>2, <1>3 DEF TypeOK, Claim, Call, InFlight
<1>6. OwnersHoldClaims'
  <2>1. ASSUME NEW l \in Callers, Busy(l)'
        PROVE  call'[l].id \in Ids /\ rows'[call'[l].id].state = "applying"
    <3>1. CASE l = k
      <4>1. call'[l].id = id
        BY <3>1, <1>3
      <4> QED BY <4>1, <1>2
    <3>2. CASE l # k
      BY <2>1, <3>2, <1>2, <1>3, <1>4 DEF OwnersHoldClaims, Busy
    <3> QED BY <3>1, <3>2
  <2>2. ASSUME NEW l \in Callers, NEW m \in Callers, Busy(l)', Busy(m)',
               call'[l].id = call'[m].id
        PROVE  l = m
    BY <2>2, <1>3, <1>4 DEF OwnersHoldClaims, Busy
  <2> QED BY <2>1, <2>2 DEF OwnersHoldClaims
<1>7. ClaimsHaveOwners'
  <2> SUFFICES ASSUME NEW j \in Ids, rows'[j].state = "applying"
               PROVE  \E l \in Callers : call'[l].pc # "idle" /\ call'[l].id = j
    BY DEF ClaimsHaveOwners, Busy
  <2>1. CASE j = id
    BY <2>1, <1>3
  <2>2. CASE j # id
    BY <2>2, <1>2, <1>3 DEF ClaimsHaveOwners, Busy
  <2> QED BY <2>1, <2>2
<1>8. ProgressIsKnown'
  BY <1>1, <1>3 DEF ProgressIsKnown, Claim, Untouched
<1>9. OneDeliveryAtMost' /\ RowTellsTheTruth' /\ FutureIsBlank'
  BY <1>1, <1>2 DEF OneDeliveryAtMost, RowTellsTheTruth, FutureIsBlank, Claim, Untouched
<1> QED BY <1>5, <1>6, <1>7, <1>8, <1>9


\* The server acts on a request it has not acted on.
LEMMA ServerExecutesIInv ==
  \A k \in Callers : IInv /\ ServerExecutes(k) => IInv'
<1> SUFFICES ASSUME NEW k \in Callers, IInv, ServerExecutes(k) PROVE IInv'
  OBVIOUS
<1> DEFINE id == call[k].id
<1> USE DEF IInv
<1>1. /\ id \in Ids /\ rows[id].state = "applying" /\ Untouched(id) /\ Busy(k)
  BY DEF ServerExecutes, OwnersHoldClaims, ProgressIsKnown, Busy
<1>2. /\ effects'[id] = 1 /\ orphans'[id] = 0
      /\ \A j \in Ids \ {id} : effects'[j] = effects[j]
  BY <1>1 DEF ServerExecutes, TypeOK, Untouched
<1>3. /\ call'[k] = [call[k] EXCEPT !.pc = "executed"]
      /\ call'[k].pc = "executed" /\ call'[k].id = id
      /\ \A l \in Callers \ {k} : call'[l] = call[l]
  BY DEF ServerExecutes, TypeOK, Call
<1> HIDE DEF id
<1>4. TypeOK'
  BY <1>1, <1>3 DEF TypeOK, ServerExecutes, Call, InFlight, id
<1>5. \A l \in Callers : Busy(l)' <=> Busy(l)
  BY <1>1, <1>3 DEF Busy
<1>6. \A l \in Callers : call'[l].id = call[l].id
  BY <1>3 DEF id
<1>7. OwnersHoldClaims' /\ ClaimsHaveOwners'
  BY <1>5, <1>6 DEF OwnersHoldClaims, ClaimsHaveOwners, ServerExecutes
<1>8. ProgressIsKnown'
  <2> SUFFICES ASSUME NEW l \in Callers
               PROVE  /\ call'[l].pc \in {"connecting", "sent"} => Untouched(call[l].id)'
                      /\ call'[l].pc = "executed" =>
                           effects'[call[l].id] = 1 /\ orphans'[call[l].id] = 0
    BY <1>6 DEF ProgressIsKnown, Untouched
  <2>1. CASE l = k
    BY <2>1, <1>2, <1>3 DEF id
  <2>2. CASE l # k /\ Busy(l)
    <3>1. call[l].id \in Ids \ {id}
      BY <2>2, <1>1 DEF OwnersHoldClaims, id
    <3> QED BY <2>2, <3>1, <1>2, <1>3 DEF ProgressIsKnown, Untouched, ServerExecutes
  <2>3. CASE l # k /\ ~Busy(l)
    BY <2>3, <1>3 DEF Busy
  <2> QED BY <2>1, <2>2, <2>3
<1>9. OneDeliveryAtMost' /\ RowTellsTheTruth' /\ FutureIsBlank'
  BY <1>1, <1>2 DEF OneDeliveryAtMost, RowTellsTheTruth, FutureIsBlank, Untouched,
                    ServerExecutes, Absent, RowOf
<1> QED BY <1>4, <1>7, <1>8, <1>9

\* The other steps that move a call forward or resolve an abandoned request.
LEMMA SendIInv == \A k \in Callers : IInv /\ Send(k) => IInv'
<1> SUFFICES ASSUME NEW k \in Callers, IInv, Send(k) PROVE IInv'
  OBVIOUS
<1> USE DEF IInv
<1>1. /\ call'[k].pc = "sent" /\ call'[k].id = call[k].id /\ call'[k] \in Call
      /\ call[k].pc = "connecting"
      /\ \A l \in Callers \ {k} : call'[l] = call[l]
  BY DEF Send, TypeOK, Call, InFlight
<1>2. TypeOK'
  BY <1>1 DEF TypeOK, Send
<1>3. \A l \in Callers : (Busy(l)' <=> Busy(l)) /\ call'[l].id = call[l].id
  BY <1>1 DEF Busy
<1>4. OwnersHoldClaims' /\ ClaimsHaveOwners'
  BY <1>3 DEF OwnersHoldClaims, ClaimsHaveOwners, Send
<1>5. ProgressIsKnown'
  BY <1>1 DEF ProgressIsKnown, Untouched, Send
<1>6. OneDeliveryAtMost' /\ RowTellsTheTruth' /\ FutureIsBlank'
  BY DEF OneDeliveryAtMost, RowTellsTheTruth, FutureIsBlank, Untouched, Send
<1> QED BY <1>2, <1>4, <1>5, <1>6

LEMMA OrphanIInv ==
  \A id \in Ids : IInv /\ (OrphanExecutes(id) \/ OrphanLost(id)) => IInv'
<1> SUFFICES ASSUME NEW id \in Ids, IInv, OrphanExecutes(id) \/ OrphanLost(id)
             PROVE  IInv'
  OBVIOUS
<1> USE DEF IInv
<1>1. orphans[id] = 1 /\ effects[id] = 0
  BY DEF OrphanExecutes, OrphanLost, TypeOK, OneDeliveryAtMost
<1>2. /\ orphans'[id] = 0 /\ effects'[id] \in {0, 1}
      /\ \A j \in Ids \ {id} : orphans'[j] = orphans[j] /\ effects'[j] = effects[j]
      /\ orphans' \in [Ids -> Nat] /\ effects' \in [Ids -> Nat]
      /\ UNCHANGED <<rows, nextRow, submitting, call, refused>>
  BY <1>1 DEF OrphanExecutes, OrphanLost, TypeOK
<1>3. TypeOK'
  BY <1>2 DEF TypeOK
<1>4. OwnersHoldClaims' /\ ClaimsHaveOwners'
  BY <1>2 DEF OwnersHoldClaims, ClaimsHaveOwners, Busy
<1>5. \A l \in Callers : Busy(l) => call[l].id \in Ids \ {id}
  BY <1>1 DEF OwnersHoldClaims, ProgressIsKnown, Busy, TypeOK, Call, InFlight, Untouched
<1>6. ProgressIsKnown'
  BY <1>2, <1>5 DEF ProgressIsKnown, Busy, Untouched
<1>7. OneDeliveryAtMost' /\ RowTellsTheTruth' /\ FutureIsBlank'
  BY <1>1, <1>2 DEF OneDeliveryAtMost, RowTellsTheTruth, FutureIsBlank, Untouched
<1> QED BY <1>3, <1>4, <1>6, <1>7


\* A call that settles gives up its claim together with its row: whoever else
\* is in flight is on another row, which the pruning does not touch.
LEMMA SettleClaims ==
  ASSUME IInv, NEW k \in Callers, Busy(k), NEW row \in Row, Terminal(row),
         rows' = Settled(call[k].id, row),
         call' = [call EXCEPT ![k] = Idle]
  PROVE  /\ rows' \in [Ids -> Row] /\ call' \in [Callers -> Call]
         /\ OwnersHoldClaims' /\ ClaimsHaveOwners'
         /\ \A l \in Callers : Busy(l)' =>
              l # k /\ call'[l] = call[l] /\ call[l].id \in Ids \ {call[k].id}
<1> DEFINE id == call[k].id
<1> USE DEF IInv
<1>1. id \in Ids /\ rows[id].state = "applying"
  BY DEF OwnersHoldClaims
<1>2. /\ rows' \in [Ids -> Row]
      /\ rows'[id] \in {row, Absent}
      /\ \A j \in Ids \ {id} : \/ rows'[j] = rows[j]
                               \/ Terminal(rows[j]) /\ rows'[j] = Absent
  BY <1>1, SettledRows
<1>3. rows'[id].state # "applying"
  BY <1>2 DEF Terminal, Absent, RowOf
<1>4. /\ call' \in [Callers -> Call] /\ call'[k] = Idle
      /\ \A l \in Callers \ {k} : call'[l] = call[l]
  BY DEF TypeOK, Idle, Call
<1>5. \A l \in Callers : Busy(l)' =>
        l # k /\ Busy(l) /\ call'[l] = call[l] /\ call[l].id \in Ids \ {id}
  BY <1>4 DEF OwnersHoldClaims, Busy, Idle
<1>6. \A l \in Callers : Busy(l)' => rows'[call[l].id].state = "applying"
  BY <1>2, <1>5 DEF OwnersHoldClaims, Terminal
<1>7. OwnersHoldClaims'
  <2>1. ASSUME NEW l \in Callers, Busy(l)'
        PROVE  call'[l].id \in Ids /\ rows'[call'[l].id].state = "applying"
    BY <2>1, <1>5, <1>6
  <2>2. ASSUME NEW l \in Callers, NEW m \in Callers, Busy(l)', Busy(m)',
               call'[l].id = call'[m].id
        PROVE  l = m
    BY <2>2, <1>5 DEF OwnersHoldClaims
  <2> QED BY <2>1, <2>2 DEF OwnersHoldClaims
<1>8. ClaimsHaveOwners'
  <2> SUFFICES ASSUME NEW j \in Ids, rows'[j].state = "applying"
               PROVE  \E l \in Callers : Busy(l)' /\ call'[l].id = j
    BY DEF ClaimsHaveOwners
  <2>1. j # id /\ rows[j].state = "applying"
    BY <1>2, <1>3 DEF Absent, RowOf
  <2>2. PICK l \in Callers : Busy(l) /\ call[l].id = j
    BY <2>1 DEF ClaimsHaveOwners
  <2>3. l # k
    BY <2>1, <2>2
  <2> QED BY <2>2, <2>3, <1>4 DEF Busy
<1> QED BY <1>2, <1>4, <1>5, <1>7, <1>8

LEMMA SettleAppliedIInv ==
  \A k \in Callers : IInv /\ SettleApplied(k) => IInv'
<1> SUFFICES ASSUME NEW k \in Callers, IInv, SettleApplied(k) PROVE IInv'
  OBVIOUS
<1> DEFINE id == call[k].id
<1> USE DEF IInv
<1>1. /\ Busy(k) /\ id \in Ids /\ rows[id].state = "applying"
      /\ effects[id] = 1 /\ orphans[id] = 0
  BY DEF SettleApplied, Busy, OwnersHoldClaims, ProgressIsKnown
<1>2. /\ RowOf("applied") \in Row /\ Terminal(RowOf("applied"))
      /\ RowOf("applied").state = "applied"
  BY RowValues DEF Terminal, RowOf
<1>3. /\ rows' = Settled(id, RowOf("applied"))
      /\ call' = [call EXCEPT ![k] = Idle]
      /\ UNCHANGED <<nextRow, submitting, orphans, effects, refused>>
  BY DEF SettleApplied
<1>4. /\ rows' \in [Ids -> Row] /\ call' \in [Callers -> Call]
      /\ OwnersHoldClaims' /\ ClaimsHaveOwners'
      /\ \A l \in Callers : Busy(l)' =>
           l # k /\ call'[l] = call[l] /\ call[l].id \in Ids \ {id}
  BY <1>1, <1>2, <1>3, SettleClaims
<1>5. /\ rows'[id] \in {RowOf("applied"), Absent}
      /\ \A j \in Ids \ {id} : rows'[j] = rows[j] \/ rows'[j] = Absent
  BY <1>1, <1>2, <1>3, SettledRows
<1>6. TypeOK'
  BY <1>3, <1>4 DEF TypeOK
<1>7. ProgressIsKnown'
  BY <1>3, <1>4 DEF ProgressIsKnown, Busy, Untouched
<1>8. OneDeliveryAtMost' /\ RowTellsTheTruth'
  BY <1>1, <1>3, <1>5 DEF OneDeliveryAtMost, RowTellsTheTruth, Untouched, Absent, RowOf
<1>9. FutureIsBlank'
  BY <1>1, <1>3, <1>5 DEF FutureIsBlank, Untouched, Absent, RowOf
<1> QED BY <1>4, <1>6, <1>7, <1>8, <1>9

\* A failed call leaves at most one request behind, and is offered for retry
\* only if it left none and the server did not act.
LEMMA FailedIInv ==
  \A k \in Callers, err \in Errors : IInv /\ Failed(k, err) => IInv'
<1> SUFFICES ASSUME NEW k \in Callers, NEW err \in Errors, IInv, Failed(k, err)
             PROVE  IInv'
  OBVIOUS
<1> DEFINE id  == call[k].id
           row == FailedRow(~CallMayHaveTakenEffect(WithClientError(err)))
<1> USE DEF IInv
<1>1. /\ Busy(k) /\ id \in Ids /\ rows[id].state = "applying"
      /\ effects[id] + orphans[id] <= 1
  BY DEF Failed, InFlight, Busy, OwnersHoldClaims, OneDeliveryAtMost
<1>2. /\ row \in Row /\ Terminal(row) /\ row.state = "failed"
      /\ row.retryable => err = "declined"
  BY OutcomeIsBoolean, RetryableMeansDeclined DEF Terminal, FailedRow
<1>3. /\ rows' = Settled(id, row)
      /\ call' = [call EXCEPT ![k] = Idle]
      /\ UNCHANGED <<nextRow, submitting, effects>>
      /\ refused' \subseteq Ids
  BY <1>1 DEF Failed, RetryOnExpiry, TypeOK
<1>4. /\ orphans' \in [Ids -> Nat]
      /\ orphans'[id] + effects[id] <= 1
      /\ \A j \in Ids \ {id} : orphans'[j] = orphans[j]
  BY <1>1 DEF Failed, StillOnTheWire, ProgressIsKnown, Untouched, TypeOK
<1>5. row.retryable => effects[id] = 0 /\ orphans'[id] = 0
  BY <1>1, <1>2 DEF Failed, StillOnTheWire, ErrorsAt, InFlight, ProgressIsKnown,
                    Untouched, TypeOK
<1> HIDE DEF row, id
<1>6. /\ rows' \in [Ids -> Row] /\ call' \in [Callers -> Call]
      /\ OwnersHoldClaims' /\ ClaimsHaveOwners'
      /\ \A l \in Callers : Busy(l)' =>
           l # k /\ call'[l] = call[l] /\ call[l].id \in Ids \ {id}
  BY <1>1, <1>2, <1>3, SettleClaims DEF id
<1>7. /\ rows'[id] \in {row, Absent}
      /\ \A j \in Ids \ {id} : rows'[j] = rows[j] \/ rows'[j] = Absent
  BY <1>1, <1>2, <1>3, SettledRows
<1>8. TypeOK'
  BY <1>3, <1>4, <1>6 DEF TypeOK
<1>9. ProgressIsKnown'
  BY <1>3, <1>4, <1>6 DEF ProgressIsKnown, Busy, Untouched
<1>10. OneDeliveryAtMost'
  BY <1>3, <1>4 DEF OneDeliveryAtMost, TypeOK
<1>11. RowTellsTheTruth'
  <2> SUFFICES ASSUME NEW j \in Ids
               PROVE  /\ rows'[j].state = "applied" => effects'[j] = 1
                      /\ rows'[j].state \in {"pending", "rejected"} => Untouched(j)'
                      /\ rows'[j].state = "failed" /\ rows'[j].retryable => Untouched(j)'
    BY DEF RowTellsTheTruth
  <2>1. CASE j = id
    BY <2>1, <1>2, <1>3, <1>5, <1>7 DEF Untouched, Absent, RowOf
  <2>2. CASE j # id
    BY <2>2, <1>3, <1>4, <1>7 DEF RowTellsTheTruth, Untouched, Absent, RowOf
  <2> QED BY <2>1, <2>2
<1>12. FutureIsBlank'
  BY <1>1, <1>3, <1>4, <1>7 DEF FutureIsBlank, Untouched, Absent, RowOf
<1> QED BY <1>6, <1>8, <1>9, <1>10, <1>11, <1>12

LEMMA RejectIInv == \A id \in Ids : IInv /\ Reject(id) => IInv'
<1> SUFFICES ASSUME NEW id \in Ids, IInv, Reject(id) PROVE IInv'
  OBVIOUS
<1> USE DEF IInv
<1>1. /\ RowOf("rejected") \in Row /\ Terminal(RowOf("rejected"))
      /\ RowOf("rejected").state = "rejected" /\ Untouched(id)
  BY RowValues DEF Terminal, RowOf, Reject, RowTellsTheTruth
<1>2. /\ rows' = Settled(id, RowOf("rejected"))
      /\ UNCHANGED <<nextRow, submitting, call, orphans, effects, refused>>
  BY DEF Reject
<1>3. /\ rows' \in [Ids -> Row]
      /\ rows'[id] \in {RowOf("rejected"), Absent}
      /\ \A j \in Ids \ {id} : \/ rows'[j] = rows[j]
                               \/ Terminal(rows[j]) /\ rows'[j] = Absent
  BY <1>1, <1>2, SettledRows
<1>4. TypeOK'
  BY <1>2, <1>3 DEF TypeOK
<1>5. \A j \in Ids : rows[j].state = "applying" <=> rows'[j].state = "applying"
  BY <1>1, <1>3 DEF Terminal, Absent, RowOf, Reject
<1>6. OwnersHoldClaims' /\ ClaimsHaveOwners'
  BY <1>2, <1>5 DEF OwnersHoldClaims, ClaimsHaveOwners, Busy
<1>7. ProgressIsKnown' /\ OneDeliveryAtMost'
  BY <1>2 DEF ProgressIsKnown, OneDeliveryAtMost, Untouched
<1>8. RowTellsTheTruth'
  BY <1>1, <1>2, <1>3 DEF RowTellsTheTruth, Untouched, Absent, RowOf
<1>9. FutureIsBlank'
  BY <1>2, <1>3 DEF FutureIsBlank, Untouched, Reject, Absent, RowOf
<1> QED BY <1>4, <1>6, <1>7, <1>8, <1>9

Senders(id) == {k \in Callers : call[k] = [pc |-> "sent", id |-> id]}

\* The requests a restart abandons: one for a row that was being sent, which
\* by the claims is all there can be.
LEMMA AbandonedRequests ==
  ASSUME IInv, NEW id \in Ids
  PROVE  \/ Cardinality(Senders(id)) = 0
         \/ Cardinality(Senders(id)) = 1 /\ Untouched(id)
<1> DEFINE senders == {k \in Callers : call[k] = [pc |-> "sent", id |-> id]}
<1> USE DEF Senders
<1> USE DEF IInv
<1>1. CASE senders = {}
  BY <1>1, FS_EmptySet
<1>2. CASE senders # {}
  <2>1. PICK k \in Callers : call[k] = [pc |-> "sent", id |-> id]
    BY <1>2
  <2>2. \A l \in senders : l = k
    BY <2>1 DEF OwnersHoldClaims, Busy
  <2>3. senders = {k}
    BY <2>1, <2>2
  <2>4. Cardinality(senders) = 1
    BY <2>3, FS_Singleton
  <2>5. Untouched(id)
    BY <2>1 DEF ProgressIsKnown
  <2> QED BY <2>4, <2>5
<1> QED BY <1>1, <1>2

LEMMA RestartIInv == IInv /\ Restart => IInv'
<1> SUFFICES ASSUME IInv, Restart PROVE IInv'
  OBVIOUS
<1> DEFINE closed == [id \in Ids |-> IF rows[id].state = "applying"
                                     THEN FailedRow(FALSE) ELSE rows[id]]
<1> USE DEF IInv
<1>1. closed \in [Ids -> Row]
  BY RowValues DEF TypeOK
<1>2. \A id \in Ids : \/ closed[id] = rows[id] /\ rows[id].state # "applying"
                      \/ closed[id] = FailedRow(FALSE) /\ rows[id].state = "applying"
  OBVIOUS
<1>3. rows' = Pruned(closed)
  BY DEF Restart
<1> HIDE DEF closed
<1>4. /\ rows' \in [Ids -> Row]
      /\ \A id \in Ids : rows'[id] = closed[id] \/ rows'[id] = Absent
  BY <1>1, <1>3, PrunedKeeps
<1>5. \A id \in Ids : \/ rows'[id] = rows[id] /\ rows[id].state # "applying"
                      \/ rows'[id] = FailedRow(FALSE) /\ rows[id].state = "applying"
                      \/ rows'[id] = Absent
  BY <1>2, <1>4
<1>6. \A k \in Callers : call'[k].pc = "idle"
  BY DEF Restart, Idle
<1>7. \A id \in Ids : orphans'[id] = orphans[id] + Cardinality(Senders(id))
  BY DEF Restart, Senders
<1>8. \A id \in Ids : /\ orphans'[id] \in Nat
                      /\ orphans'[id] = orphans[id] \/ (orphans'[id] = 1 /\ Untouched(id))
  BY <1>7, AbandonedRequests DEF Untouched, TypeOK
<1>9. \A id \in Ids : rows[id].state # "applying" => orphans'[id] = orphans[id]
  <2> SUFFICES ASSUME NEW id \in Ids, rows[id].state # "applying"
               PROVE  orphans'[id] = orphans[id]
    OBVIOUS
  <2>1. Senders(id) = {}
    BY DEF OwnersHoldClaims, Busy, Senders
  <2> QED BY <2>1, <1>7, FS_EmptySet DEF TypeOK
<1>10. orphans' \in [Ids -> Nat]
  <2>1. DOMAIN orphans' = Ids /\ orphans' = [id \in Ids |-> orphans'[id]]
    BY DEF Restart
  <2> QED BY <2>1, <1>8
<1>11. call' \in [Callers -> Call]
  BY DEF Restart, Idle, Call
<1>12. UNCHANGED <<nextRow, effects, refused>> /\ submitting' = {}
  BY DEF Restart
<1>13. TypeOK'
  BY <1>4, <1>10, <1>11, <1>12 DEF TypeOK
<1>14. OwnersHoldClaims' /\ ProgressIsKnown'
  BY <1>6 DEF OwnersHoldClaims, ProgressIsKnown, Busy
<1>15. ClaimsHaveOwners'
  BY <1>5 DEF ClaimsHaveOwners, FailedRow, Absent, RowOf
<1>16. OneDeliveryAtMost'
  BY <1>8, <1>12 DEF OneDeliveryAtMost, Untouched, TypeOK
<1>17. RowTellsTheTruth'
  BY <1>5, <1>9, <1>12 DEF RowTellsTheTruth, Untouched, FailedRow, Absent, RowOf
<1>18. FutureIsBlank'
  <2> SUFFICES ASSUME NEW id \in Ids, id >= nextRow
               PROVE  rows'[id] = Absent /\ effects'[id] = 0 /\ orphans'[id] = 0
    BY <1>12 DEF FutureIsBlank, Untouched
  <2>1. rows[id] = Absent /\ rows[id].state # "applying" /\ Untouched(id)
    BY DEF FutureIsBlank, Absent, RowOf
  <2> QED BY <2>1, <1>5, <1>9, <1>12 DEF Untouched
<1> QED BY <1>13, <1>14, <1>15, <1>16, <1>17, <1>18

-----------------------------------------------------------------------------
LEMMA NextIInv == IInv /\ [Next]_vars => IInv'
<1> SUFFICES ASSUME IInv, [Next]_vars PROVE IInv'
  OBVIOUS
<1>1. CASE UNCHANGED vars
  BY <1>1 DEF vars, IInv, TypeOK, OwnersHoldClaims, ClaimsHaveOwners, ProgressIsKnown,
              OneDeliveryAtMost, RowTellsTheTruth, FutureIsBlank, Busy, Untouched
<1>2. ASSUME NEW id \in Ids, Submitted(id) PROVE IInv'
  BY <1>2 DEF Submitted, IInv, TypeOK, OwnersHoldClaims, ClaimsHaveOwners,
              ProgressIsKnown, OneDeliveryAtMost, RowTellsTheTruth, FutureIsBlank,
              Busy, Untouched
<1> QED
  BY <1>1, <1>2, StageIInv, DiscardIInv, ClaimIInv, SendIInv, ServerExecutesIInv,
     OrphanIInv, SettleAppliedIInv, FailedIInv, RejectIInv, RestartIInv DEF Next

THEOREM InductiveInvariant == Spec => []IInv
<1> QED BY InitIInv, NextIInv, PTL DEF Spec

\* Type correctness of the store, for every set of callers and every bound.
THEOREM TypeCorrect == Spec => []TypeOK
<1>1. IInv => TypeOK
  BY DEF IInv
<1> QED BY <1>1, InductiveInvariant, PTL

\* One approval never becomes two writes, whatever fails, retries or restarts.
THEOREM CallsHappenAtMostOnce == Spec => []AtMostOnce
<1>1. IInv => AtMostOnce
  BY DEF IInv, OneDeliveryAtMost, AtMostOnce, TypeOK
<1> QED BY <1>1, InductiveInvariant, PTL

\* What a row says of a call is true of the MCP server.
THEOREM RowsAreTrue == Spec => []RowTellsTheTruth
<1>1. IInv => RowTellsTheTruth
  BY DEF IInv
<1> QED BY <1>1, InductiveInvariant, PTL

\* No claim without its one owner, no owner without its claim.
THEOREM ClaimsAreOwned == Spec => []ClaimHasOneOwner
<1>1. ASSUME IInv, NEW id \in Ids
      PROVE  LET owners == {k \in Callers : call[k].pc # "idle" /\ call[k].id = id} IN
             Cardinality(owners) = IF rows[id].state = "applying" THEN 1 ELSE 0
  <2> DEFINE owners == {k \in Callers : call[k].pc # "idle" /\ call[k].id = id}
  <2>1. CASE rows[id].state = "applying"
    <3>1. PICK k \in Callers : Busy(k) /\ call[k].id = id
      BY <1>1, <2>1 DEF IInv, ClaimsHaveOwners
    <3>2. owners = {k}
      BY <1>1, <3>1 DEF IInv, OwnersHoldClaims, Busy
    <3> QED BY <2>1, <3>2, FS_Singleton
  <2>2. CASE rows[id].state # "applying"
    <3>1. owners = {}
      BY <1>1, <2>2 DEF IInv, OwnersHoldClaims, Busy
    <3> QED BY <2>2, <3>1, FS_EmptySet
  <2> QED BY <2>1, <2>2
<1>2. IInv => ClaimHasOneOwner
  BY <1>1 DEF ClaimHasOneOwner
<1> QED BY <1>2, InductiveInvariant, PTL

-----------------------------------------------------------------------------
\* An applied, rejected or outcome-unknown row keeps its verdict: no step
\* rewrites it, and only the pruning deletes it.
THEOREM VerdictsAreFinal == Spec => ClosedRowsStayClosed
<1> DEFINE Kept == \A id \in Ids : Closed(rows[id]) => rows'[id] \in {rows[id], Absent}
<1>1. ASSUME IInv, [Next]_vars, NEW id \in Ids, Closed(rows[id])
      PROVE  rows'[id] \in {rows[id], Absent}
  <2> USE <1>1 DEF IInv
  <2>1. /\ rows[id].state \notin {"absent", "pending", "applying"}
        /\ ~Claimable(rows[id])
    BY DEF Closed, Claimable
  <2>2. ASSUME NEW k \in Callers, NEW row \in Row, Terminal(row), Busy(k),
               rows' = Settled(call[k].id, row)
        PROVE  rows'[id] \in {rows[id], Absent}
    <3>1. call[k].id \in Ids \ {id}
      BY <2>1, <2>2 DEF OwnersHoldClaims
    <3> QED BY <2>2, <3>1, SettledRows
  <2>3. CASE Stage
    BY <2>1, <2>3 DEF Stage, FutureIsBlank, TypeOK, Absent, RowOf
  <2>4. ASSUME NEW j \in Ids, Discard(j) PROVE rows'[id] = rows[id]
    BY <2>1, <2>4 DEF Discard, TypeOK
  <2>5. ASSUME NEW k \in Callers, NEW j \in Ids, Claim(k, j)
        PROVE  rows'[id] = rows[id]
    BY <2>1, <2>5 DEF Claim, TypeOK
  <2>6. ASSUME NEW k \in Callers, SettleApplied(k)
        PROVE  rows'[id] \in {rows[id], Absent}
    <3>1. Terminal(RowOf("applied")) /\ Busy(k)
      BY <2>6 DEF Terminal, RowOf, SettleApplied, Busy
    <3> QED BY <2>2, <2>6, <3>1, RowValues DEF SettleApplied
  <2>7. ASSUME NEW k \in Callers, NEW err \in Errors, Failed(k, err)
        PROVE  rows'[id] \in {rows[id], Absent}
    <3> DEFINE row == FailedRow(~CallMayHaveTakenEffect(WithClientError(err)))
    <3>1. row \in Row /\ Terminal(row) /\ Busy(k)
      BY <2>7, OutcomeIsBoolean DEF Terminal, FailedRow, Failed, InFlight, Busy
    <3>2. rows' = Settled(call[k].id, row)
      BY <2>7 DEF Failed, RetryOnExpiry
    <3> QED BY <2>2, <3>1, <3>2
  <2>8. ASSUME NEW j \in Ids, Reject(j) PROVE rows'[id] \in {rows[id], Absent}
    <3>1. j # id /\ Terminal(RowOf("rejected"))
      BY <2>1, <2>8 DEF Reject, Terminal, RowOf
    <3> QED BY <2>8, <3>1, SettledRows, RowValues DEF Reject
  <2>9. CASE Restart
    <3> DEFINE closed == [j \in Ids |-> IF rows[j].state = "applying"
                                        THEN FailedRow(FALSE) ELSE rows[j]]
    <3>1. closed \in [Ids -> Row] /\ closed[id] = rows[id]
      BY <2>1, RowValues DEF TypeOK
    <3>2. rows' = Pruned(closed)
      BY <2>9 DEF Restart
    <3> HIDE DEF closed
    <3> QED BY <3>1, <3>2, PrunedKeeps
  <2>10. ASSUME \/ \E j \in Ids : Submitted(j) \/ OrphanExecutes(j) \/ OrphanLost(j)
                \/ \E k \in Callers : Send(k) \/ ServerExecutes(k)
                \/ UNCHANGED vars
         PROVE  rows' = rows
    BY <2>10 DEF Submitted, OrphanExecutes, OrphanLost, Send, ServerExecutes, vars
  <2> QED
    BY <2>3, <2>4, <2>5, <2>6, <2>7, <2>8, <2>9, <2>10 DEF Next
<1>2. IInv /\ [Next]_vars => [Kept]_vars
  BY <1>1
<1> QED BY <1>2, InductiveInvariant, PTL DEF Spec, ClosedRowsStayClosed

-----------------------------------------------------------------------------
(* The size of the table.                                                    *)

SettledIds(table) == {id \in Ids : Terminal(table[id])}
PendingIds(table) == {id \in Ids : table[id].state = "pending"}

LEMMA IdsAreFinite ==
  ASSUME NEW S \in SUBSET Ids
  PROVE  IsFiniteSet(S) /\ Cardinality(S) \in Nat
         /\ \A T \in SUBSET S : Cardinality(T) <= Cardinality(S)
<1>1. IsFiniteSet(Ids)
  BY StoreAssumption, FS_Interval DEF Ids
<1> QED BY <1>1, FS_Subset, FS_CardinalityType

\* A set of ids has a least member: of the sets of those that come before one of
\* them, one is minimal, and it is empty.
LEMMA IdsHaveALeast ==
  ASSUME NEW S \in SUBSET Ids, S # {}
  PROVE  \E m \in S : \A j \in S : m <= j
<1> DEFINE before(x) == {y \in S : y < x}
           sets == {before(x) : x \in S}
<1>1. S \subseteq Nat
  BY DEF Ids
<1>2. IsWellFoundedOn(StrictSubsetOrdering(S), SUBSET S)
  BY IdsAreFinite, FS_StrictSubsetOrderingWellFounded, FS_FiniteSubsetsOfFinite
<1>3. sets \subseteq SUBSET S /\ sets # {}
  OBVIOUS
<1>4. PICK B \in sets : \A C \in sets : ~(<<C, B>> \in StrictSubsetOrdering(S))
  <2> HIDE DEF sets
  <2> QED BY <1>2, <1>3, WFMin
<1>5. PICK m \in S : B = before(m)
  BY <1>4
<1>6. ASSUME NEW y \in S, y < m PROVE FALSE
  <2>1. before(y) \subseteq before(m)
    <3> SUFFICES ASSUME NEW z \in S, z < y PROVE z < m
      OBVIOUS
    <3> QED BY <1>1, <1>6
  <2>2. y \in before(m) /\ y \notin before(y)
    BY <1>1, <1>6
  <2>3. before(y) \in sets /\ before(y) \in SUBSET S /\ before(m) \in SUBSET S
    BY <1>6
  <2> HIDE DEF before, sets
  <2>4. <<before(y), B>> \in StrictSubsetOrdering(S)
    BY <1>5, <2>1, <2>2, <2>3 DEF StrictSubsetOrdering
  <2> QED BY <1>4, <2>3, <2>4
<1> QED BY <1>1, <1>6

\* #prune() keeps its limit: of the settled rows that survive, all but the
\* oldest come after it, and they were fewer than MaxRetained.
LEMMA PrunedIsBounded ==
  ASSUME NEW table \in [Ids -> Row]
  PROVE  Cardinality(SettledIds(Pruned(table))) <= MaxRetained
<1> DEFINE kept == SettledIds(Pruned(table))
           after(m) == {j \in Ids : j > m /\ Terminal(table[j])}
<1>1. ~Terminal(Absent)
  BY DEF Terminal, Absent, RowOf
<1>2. \A id \in kept : Terminal(table[id]) /\ ~(Cardinality(after(id)) >= MaxRetained)
  BY <1>1 DEF SettledIds, Pruned
<1>3. kept \in SUBSET Ids /\ MaxRetained \in Nat
  BY StoreAssumption DEF SettledIds
<1>4. CASE kept = {}
  BY <1>3, <1>4, FS_EmptySet
<1>5. CASE kept # {}
  <2>1. PICK m \in kept : \A j \in kept : m <= j
    BY <1>3, <1>5, IdsHaveALeast
  <2>2. after(m) \in SUBSET Ids /\ kept \ {m} \in SUBSET after(m)
    <3>1. ASSUME NEW j \in kept \ {m} PROVE j \in after(m)
      <4>1. j \in Ids /\ m \in Ids /\ m <= j /\ j # m
        <5> HIDE DEF kept
        <5> QED BY <1>3, <2>1, <3>1
      <4>2. j > m
        BY <4>1 DEF Ids
      <4>3. Terminal(table[j])
        BY <1>2, <3>1
      <4> QED BY <4>1, <4>2, <4>3
    <3> QED BY <3>1
  <2> HIDE DEF after
  <2>3. Cardinality(kept \ {m}) <= Cardinality(after(m)) /\ Cardinality(after(m)) \in Nat
    BY <2>2, IdsAreFinite
  <2>4. Cardinality(after(m)) < MaxRetained
    BY <1>2, <1>3, <2>1, <2>3
  <2>5. Cardinality(kept \ {m}) = Cardinality(kept) - 1 /\ Cardinality(kept) \in Nat
    BY <1>3, <2>1, IdsAreFinite, FS_RemoveElement
  <2>6. Cardinality(kept) <= MaxRetained
    <3> HIDE DEF kept
    <3> QED BY <1>3, <2>3, <2>4, <2>5
  <2> QED BY <2>6
<1> QED BY <1>4, <1>5

\* What a step does to the table: it hands out one id while there is room for a
\* pending row, or ends with a pruning, or leaves a smaller table.
LEMMA StepsOfTheTable ==
  ASSUME IInv, [Next]_vars
  PROVE  \/ /\ nextRow \in Ids
            /\ Cardinality({id \in Ids : Awaiting(rows[id])}) < MaxPending
            /\ rows' = [rows EXCEPT ![nextRow] = RowOf("pending")]
         \/ /\ \E table \in [Ids -> Row] : rows' = Pruned(table)
            /\ PendingIds(rows') \subseteq PendingIds(rows)
         \/ /\ SettledIds(rows') \subseteq SettledIds(rows)
            /\ PendingIds(rows') \subseteq PendingIds(rows)
<1> USE DEF IInv
<1> DEFINE Shrinks == /\ SettledIds(rows') \subseteq SettledIds(rows)
                      /\ PendingIds(rows') \subseteq PendingIds(rows)
           Prunes == /\ \E table \in [Ids -> Row] : rows' = Pruned(table)
                     /\ PendingIds(rows') \subseteq PendingIds(rows)
<1>1. ASSUME NEW id \in Ids, NEW row \in Row, Terminal(row), rows' = Settled(id, row)
      PROVE  Prunes
  <2>1. [rows EXCEPT ![id] = row] \in [Ids -> Row]
    BY <1>1 DEF TypeOK
  <2>2. PendingIds(rows') \subseteq PendingIds(rows)
    BY <1>1, SettledRows DEF PendingIds, Terminal, Absent, RowOf
  <2> QED BY <1>1, <2>1, <2>2 DEF Settled
<1>2. CASE Stage
  BY <1>2 DEF Stage
<1>3. ASSUME NEW id \in Ids, Discard(id) PROVE Shrinks
  BY <1>3 DEF Discard, TypeOK, SettledIds, PendingIds, Terminal, Absent, RowOf
<1>4. ASSUME NEW k \in Callers, NEW id \in Ids, Claim(k, id) PROVE Shrinks
  <2>1. \A j \in Ids : rows'[j] = rows[j] \/ rows'[j].state = "applying"
    BY <1>4 DEF Claim, TypeOK, Row
  <2> QED BY <2>1 DEF SettledIds, PendingIds, Terminal
<1>5. ASSUME NEW k \in Callers, SettleApplied(k) PROVE Prunes
  <2>1. call[k].id \in Ids /\ Terminal(RowOf("applied"))
    BY <1>5 DEF SettleApplied, OwnersHoldClaims, Busy, Terminal, RowOf
  <2> QED BY <1>1, <1>5, <2>1, RowValues DEF SettleApplied
<1>6. ASSUME NEW k \in Callers, NEW err \in Errors, Failed(k, err) PROVE Prunes
  <2> DEFINE row == FailedRow(~CallMayHaveTakenEffect(WithClientError(err)))
  <2>1. call[k].id \in Ids /\ row \in Row /\ Terminal(row)
    BY <1>6, OutcomeIsBoolean
       DEF Failed, InFlight, OwnersHoldClaims, Busy, Terminal, FailedRow
  <2>2. rows' = Settled(call[k].id, row)
    BY <1>6 DEF Failed, RetryOnExpiry
  <2> HIDE DEF row
  <2> QED BY <1>1, <2>1, <2>2
<1>7. ASSUME NEW id \in Ids, Reject(id) PROVE Prunes
  <2>1. Terminal(RowOf("rejected"))
    BY DEF Terminal, RowOf
  <2> QED BY <1>1, <1>7, <2>1, RowValues DEF Reject
<1>8. CASE Restart
  <2> DEFINE closed == [j \in Ids |-> IF rows[j].state = "applying"
                                      THEN FailedRow(FALSE) ELSE rows[j]]
  <2>1. closed \in [Ids -> Row] /\ PendingIds(closed) \subseteq PendingIds(rows)
    BY RowValues DEF TypeOK, PendingIds, FailedRow
  <2>2. rows' = Pruned(closed)
    BY <1>8 DEF Restart
  <2> HIDE DEF closed
  <2>3. PendingIds(rows') \subseteq PendingIds(closed)
    BY <2>1, <2>2, PrunedKeeps DEF PendingIds, Terminal, Absent, RowOf
  <2> QED BY <2>1, <2>2, <2>3
<1>9. CASE rows' = rows
  BY <1>9
<1> HIDE DEF Shrinks, Prunes, IInv
<1>10. ASSUME \/ \E j \in Ids : Submitted(j) \/ OrphanExecutes(j) \/ OrphanLost(j)
              \/ \E k \in Callers : Send(k) \/ ServerExecutes(k)
              \/ UNCHANGED vars
       PROVE  rows' = rows
  BY <1>10 DEF Submitted, OrphanExecutes, OrphanLost, Send, ServerExecutes, vars
<1> QED
  BY <1>2, <1>3, <1>4, <1>5, <1>6, <1>7, <1>8, <1>9, <1>10 DEF Next, Shrinks, Prunes

\* The table stays bounded, for every limit: no sequence of failures, retries and
\* restarts lets more settled rows pile up than are retained, or more calls wait
\* than may.
THEOREM TableStaysBounded == Spec => []TableIsBounded
<1>1. Init => TableIsBounded
  <2> SUFFICES ASSUME Init PROVE TableIsBounded
    OBVIOUS
  <2>1. SettledIds(rows) = {} /\ PendingIds(rows) = {}
    BY DEF Init, SettledIds, PendingIds, Terminal, Absent, RowOf
  <2> QED BY <2>1, StoreAssumption, FS_EmptySet DEF TableIsBounded, SettledIds, PendingIds
<1>2. ASSUME IInv, [Next]_vars, TableIsBounded PROVE TableIsBounded'
  <2>1. /\ SettledIds(rows) \in SUBSET Ids /\ PendingIds(rows) \in SUBSET Ids
        /\ Cardinality(SettledIds(rows)) <= MaxRetained
        /\ Cardinality(PendingIds(rows)) <= MaxPending
    BY <1>2 DEF TableIsBounded, SettledIds, PendingIds
  <2>2. SettledIds(rows') \in SUBSET Ids /\ PendingIds(rows') \in SUBSET Ids
    BY DEF SettledIds, PendingIds
  <2>3. ASSUME SettledIds(rows') \subseteq SettledIds(rows)
        PROVE  Cardinality(SettledIds(rows')) <= MaxRetained
    BY <2>1, <2>2, <2>3, IdsAreFinite, StoreAssumption
  <2>4. ASSUME PendingIds(rows') \subseteq PendingIds(rows)
        PROVE  Cardinality(PendingIds(rows')) <= MaxPending
    BY <2>1, <2>2, <2>4, IdsAreFinite, StoreAssumption
  <2>5. CASE /\ nextRow \in Ids
             /\ Cardinality({id \in Ids : Awaiting(rows[id])}) < MaxPending
             /\ rows' = [rows EXCEPT ![nextRow] = RowOf("pending")]
    <3> DEFINE waiting == {id \in Ids : Awaiting(rows[id])}
    <3>1. PendingIds(rows) \in SUBSET waiting /\ waiting \in SUBSET Ids
      BY DEF PendingIds, Awaiting
    <3>2. PendingIds(rows') \subseteq PendingIds(rows) \cup {nextRow}
      BY <1>2, <2>5 DEF PendingIds, IInv, TypeOK
    <3>3. SettledIds(rows') \subseteq SettledIds(rows)
      BY <1>2, <2>5 DEF SettledIds, IInv, TypeOK, Terminal, RowOf
    <3> HIDE DEF waiting
    <3>4. Cardinality(PendingIds(rows)) <= Cardinality(waiting) /\ Cardinality(waiting) \in Nat
      BY <3>1, IdsAreFinite
    <3>5. Cardinality(waiting) < MaxPending
      BY <2>5 DEF waiting
    <3>6. /\ Cardinality(PendingIds(rows) \cup {nextRow}) <= Cardinality(PendingIds(rows)) + 1
          /\ Cardinality(PendingIds(rows)) \in Nat
      BY <2>1, IdsAreFinite, FS_AddElement
    <3>7. /\ Cardinality(PendingIds(rows')) <= Cardinality(PendingIds(rows) \cup {nextRow})
          /\ Cardinality(PendingIds(rows')) \in Nat
          /\ Cardinality(PendingIds(rows) \cup {nextRow}) \in Nat
      BY <2>1, <2>2, <2>5, <3>2, IdsAreFinite
    <3>8. Cardinality(PendingIds(rows')) <= MaxPending
      BY <3>4, <3>5, <3>6, <3>7, StoreAssumption
    <3> QED BY <2>3, <3>3, <3>8 DEF TableIsBounded, SettledIds, PendingIds
  <2>6. CASE /\ \E table \in [Ids -> Row] : rows' = Pruned(table)
             /\ PendingIds(rows') \subseteq PendingIds(rows)
    BY <2>4, <2>6, PrunedIsBounded DEF TableIsBounded, SettledIds, PendingIds
  <2>7. CASE /\ SettledIds(rows') \subseteq SettledIds(rows)
             /\ PendingIds(rows') \subseteq PendingIds(rows)
    BY <2>3, <2>4, <2>7 DEF TableIsBounded, SettledIds, PendingIds
  <2> QED BY <1>2, <2>5, <2>6, <2>7, StepsOfTheTable
<1> QED BY <1>1, <1>2, InductiveInvariant, PTL DEF Spec

=============================================================================
