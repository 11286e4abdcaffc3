---------------------------- MODULE ApprovedCall ----------------------------
(***************************************************************************)
(* What approval promises of a call that cannot be undone, with everything *)
(* between the user and the MCP server left out (workshop-shared:          *)
(* gatekeeper.ts:737-762 and api.ts:1696-1702).  A call that was proposed  *)
(* is let go or ruled out, once and for all; it takes effect at most once, *)
(* and only if it was let go; and what the user is finally told of it is   *)
(* what happened, unless the gatekeeper has forgotten the call: it keeps   *)
(* no settled call for ever, and takes a rejection of one it does not know *)
(* (action-store.ts:202-203).                                              *)
(***************************************************************************)
CONSTANT Proposals

VARIABLES
  fate,      \* the decision that holds for the world
  done,      \* the call took effect
  verdict,   \* what the user is told
  forgotten  \* the calls the gatekeeper keeps nothing of any more

vars == <<fate, done, verdict, forgotten>>

Init ==
  /\ fate = [p \in Proposals |-> "none"]
  /\ done = [p \in Proposals |-> FALSE]
  /\ verdict = [p \in Proposals |-> "none"]
  /\ forgotten = {}

Propose(p) ==
  /\ fate[p] = "none"
  /\ fate' = [fate EXCEPT ![p] = "open"]
  /\ verdict' = [verdict EXCEPT ![p] = "pending"]
  /\ UNCHANGED done

Settle(p, ruling) ==
  /\ fate[p] = "open"
  /\ fate' = [fate EXCEPT ![p] = ruling]
  /\ UNCHANGED <<done, verdict>>

TakesEffect(p) ==
  /\ fate[p] = "letGo" /\ ~done[p]
  /\ done' = [done EXCEPT ![p] = TRUE]
  /\ UNCHANGED <<fate, verdict>>

\* The user is told once, of a call that is known; of a forgotten one, two
\* late answers may each be taken for the last word.
Tell(p) ==
  /\ verdict[p] = "pending" \/ p \in forgotten
  /\ \/ done[p] /\ verdict' = [verdict EXCEPT ![p] = "approved"]
     \/ /\ fate[p] = "ruledOut" \/ p \in forgotten
        /\ verdict' = [verdict EXCEPT ![p] = "rejected"]
  /\ UNCHANGED <<fate, done>>

\* Any step may make the gatekeeper forget calls, but none that are open.
Forgets ==
  /\ forgotten \subseteq forgotten'
  /\ \A p \in forgotten' \ forgotten : fate'[p] \in {"letGo", "ruledOut"}

Acts ==
  \E p \in Proposals :
    \/ Propose(p)
    \/ \E ruling \in {"letGo", "ruledOut"} : Settle(p, ruling)
    \/ TakesEffect(p)
    \/ Tell(p)

Next == (UNCHANGED <<fate, done, verdict>> \/ Acts) /\ Forgets

Spec == Init /\ [][Next]_vars
=============================================================================
