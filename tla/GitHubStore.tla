---------------------------- MODULE GitHubStore ----------------------------
(***************************************************************************)
(* The writes that sessions of the GitHub gatekeeper have proposed         *)
(* (packages/gatekeeper-github/src/github.ts).  A write is staged, filed   *)
(* with the overseer and then pending; it is live until it is retired as   *)
(* approved or rejected.  A write may create an issue or a pull request,   *)
(* which has a provisional id until GitHub numbers it, and later writes    *)
(* may be about that id.  applyAction() claims nothing before it awaits    *)
(* GitHub.                                                                 *)
(***************************************************************************)
EXTENDS Naturals

CONSTANTS
  GitHubWrites,   \* the writes that sessions may propose
  Creates,        \* what each creates, if anything
  On,             \* the provisional id that each is about, if any
  Callers,        \* applyAction() and rejectAction() calls
  Nobody          \* no resource

Resources == {Creates[w] : w \in GitHubWrites} \ {Nobody}

VARIABLES
  live,           \* action:* records
  retired,        \* retiredAction:* records
  provisional,    \* provisional:* records: does the id have a number yet
  handed,         \* the provisional ids that sessions hold
  ghCall,         \* an applyAction() that awaits GitHub
  posted          \* GitHub: how often each write was carried out

ghVars == <<live, retired, provisional, handed, ghCall, posted>>

\* Bound: more than once is counted as twice.
OneMore(n) == IF n = 0 THEN 1 ELSE 2

NoCall == [pc |-> "idle", write |-> Nobody]

\* #getActionRecord(): the live record, or else the retired one.  A write that
\* is staged or pending may be applied or rejected.
Undecided(w) == live[w] # "none"

Dependants(r) == {w \in GitHubWrites : Creates[w] = r \/ On[w] = r}

-----------------------------------------------------------------------------
Init ==
  /\ live = [w \in GitHubWrites |-> "none"]
  /\ retired = [w \in GitHubWrites |-> "none"]
  /\ provisional = [r \in Resources |-> "absent"]
  /\ handed = {}
  /\ ghCall = [c \in Callers |-> NoCall]
  /\ posted = [w \in GitHubWrites |-> 0]

\* prepare*() and #stageAction()
Stage(w) ==
  /\ live[w] = "none" /\ retired[w] = "none"
  /\ On[w] \in handed \cup {Nobody}
  /\ live' = [live EXCEPT ![w] = "staged"]
  /\ UNCHANGED <<retired, provisional, handed, ghCall, posted>>

\* submitAction() threw.
Unstage(w) ==
  /\ live' = [live EXCEPT ![w] = "none"]
  /\ UNCHANGED <<retired, provisional, handed, ghCall, posted>>

\* submitAction() returned: #markActionPending(), whatever became of the record
\* meanwhile, and the session gets a handle on what the write creates.
MarkPending(w) ==
  /\ live' = [live EXCEPT ![w] = "pending"]
  /\ IF Creates[w] = Nobody THEN UNCHANGED <<provisional, handed>>
     ELSE /\ provisional' = [provisional EXCEPT ![Creates[w]] = "open"]
          /\ handed' = handed \cup {Creates[w]}
  /\ UNCHANGED <<retired, ghCall, posted>>

-----------------------------------------------------------------------------
\* A GitHub call made before its target has a number.
AppliesMut(w) == Undecided(w)

\* applyAction() gets as far as GitHub: the write is undecided and what it is
\* about has a number.  Otherwise it throws.
Applies(w) == Undecided(w) /\ (On[w] # Nobody => provisional[On[w]] = "real")

ApplyStarts(c, w) ==
  /\ ghCall[c] = NoCall /\ Applies(w)
  /\ ghCall' = [ghCall EXCEPT ![c] = [pc |-> "sent", write |-> w]]
  /\ UNCHANGED <<live, retired, provisional, handed, posted>>

GitHubPosts(c) ==
  /\ ghCall[c].pc = "sent"
  /\ ghCall' = [ghCall EXCEPT ![c].pc = "done"]
  /\ posted' = [posted EXCEPT ![ghCall[c].write] = OneMore(@)]
  /\ UNCHANGED <<live, retired, provisional, handed>>

\* GitHub's answer: the provisional id gets its number, #markActionApproved().
ApplyEnds(c) ==
  LET w == ghCall[c].write IN
  /\ ghCall[c].pc = "done"
  /\ provisional' = [r \in Resources |-> IF r = Creates[w] THEN "real" ELSE provisional[r]]
  /\ live' = [live EXCEPT ![w] = "none"]
  /\ retired' = [retired EXCEPT ![w] = "approved"]
  /\ ghCall' = [ghCall EXCEPT ![c] = NoCall]
  /\ UNCHANGED <<handed, posted>>

\* The call to GitHub throws, before or after it took effect.
ApplyThrows(c) ==
  /\ ghCall[c].pc \in {"sent", "done"}
  /\ ghCall' = [ghCall EXCEPT ![c] = NoCall]
  /\ UNCHANGED <<live, retired, provisional, handed, posted>>

\* Every pending write, whatever it is about.
DoomedMut(w) == {w} \cup {d \in GitHubWrites : live[d] = "pending"}

\* The writes that go with w: #rejectActionsForResource().
Doomed(w) == {w} \cup (IF Creates[w] = Nobody THEN {}
                       ELSE {d \in Dependants(Creates[w]) : live[d] = "pending"})

\* rejectAction() of an undecided write.  (Of another it throws.)
Reject(w) ==
  /\ Undecided(w)
  /\ live' = [d \in GitHubWrites |-> IF d \in Doomed(w) THEN "none" ELSE live[d]]
  /\ retired' = [d \in GitHubWrites |-> IF d \in Doomed(w) THEN "rejected" ELSE retired[d]]
  /\ provisional' = [r \in Resources |-> IF r = Creates[w] THEN "absent" ELSE provisional[r]]
  /\ UNCHANGED <<handed, ghCall, posted>>

\* The facet dies.  What was sent may still take effect.
Restart ==
  /\ ghCall' = [c \in Callers |-> NoCall]
  /\ \E late \in SUBSET {c \in Callers : ghCall[c].pc = "sent"} :
       posted' = [w \in GitHubWrites |->
         IF \E c \in late : ghCall[c].write = w THEN OneMore(posted[w]) ELSE posted[w]]
  /\ UNCHANGED <<live, retired, provisional, handed>>

TypeOK ==
  /\ live \in [GitHubWrites -> {"none", "staged", "pending"}]
  /\ retired \in [GitHubWrites -> {"none", "approved", "rejected"}]
  /\ provisional \in [Resources -> {"absent", "open", "real"}]
  /\ handed \subseteq Resources
  /\ ghCall \in [Callers -> [pc : {"idle", "sent", "done"}, write : GitHubWrites \cup {Nobody}]]
  /\ posted \in [GitHubWrites -> 0..2]
=============================================================================
