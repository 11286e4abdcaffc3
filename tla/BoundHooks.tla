----------------------------- MODULE BoundHooks -----------------------------
(***************************************************************************)
(* The hooks of a workspace (packages/workshop-backend/src/overseer.ts):   *)
(* a gadget or an agent binds one, users enable, disable and delete it,    *)
(* and the gatekeeper behind it delivers its events through startHook().   *)
(* The overseer's record and the gatekeeper's registration are two pieces  *)
(* of state that the overseer keeps alike by RPC.  Each call reads the     *)
(* record, awaits the gatekeeper and writes the record that it has read:   *)
(* anything may happen to the hook meanwhile.                              *)
(*                                                                         *)
(* The gatekeeper is the scheduler, of which only what the overseer can    *)
(* see is here; ScheduleDriver has the rest.                               *)
(***************************************************************************)
EXTENDS FiniteSets

CONSTANTS
  Hooks,     \* ids that nextHookId gives
  Gadgets,   \* the gadgets of the workspace
  Target,    \* the gadget that each hook wakes
  Users,     \* calls that clients have in flight at once
  Loop       \* the call of removeGadget() or deleteSelf()

ASSUME HooksAssumption ==
  /\ IsFiniteSet(Hooks)
  /\ Target \in [Hooks -> Gadgets]
  /\ Loop \notin Users

Calls == Users \cup {Loop}
Workspace == "workspace"
Nothing == "nothing"
ASSUME NamesAssumption == {Workspace, Nothing} \cap Gadgets = {} /\ Nothing \notin Hooks

VARIABLES
  hooks,      \* boundHooks, whether each is there and enabled
  log,        \* its record among the actions: enabled, and does hookId lead to it
  gadgets,    \* the gadgets that exist
  regs,       \* the hooks that the gatekeeper has a registration of
  calls,      \* enableHook(), disableHook(), deleteHook() in flight
              \* (history: has it been alone on its hook)
  removal,    \* removeGadget() or deleteSelf(): what it removes, hooks to go
  firing,     \* the gatekeeper's delivery of an event: how far, and is the
              \* registration still the one that it began with
  quiet,      \* history: hooks whose end a user has been told, undisturbed
  tangled     \* history: hooks whose last effective call was not alone or failed

hooksVars == <<hooks, log, gadgets, regs, calls, removal, firing, quiet, tangled>>

Resting == [kind |-> "none", hook |-> Nothing, pc |-> "idle", alone |-> FALSE]
NoRemoval == [of |-> Nothing, todo |-> {}]
NoFiring == [pc |-> "idle", live |-> FALSE]
NoLog == [there |-> FALSE, enabled |-> FALSE, linked |-> FALSE]

Exists(h) == hooks[h] \in {"off", "on"}
\* Calls on h that may still touch it, those whose caller is dead included
Busy(h) == {c \in Calls : calls[c].hook = h}
Enabling(h) == {c \in Busy(h) : calls[c].kind = "enable"}

-----------------------------------------------------------------------------
(* What the histories record. *)

\* The end of a disable() or a delete() is news, unless an enable() overlaps or
\* an event was admitted before and is still on its way.
EndTold(h) ==
  IF Enabling(h) = {} /\ ~(firing[h].live /\ firing[h].pc \in {"checked", "admitted"})
  THEN quiet \cup {h} ELSE quiet

-----------------------------------------------------------------------------
HooksInit ==
  /\ hooks = [h \in Hooks |-> "unbound"]
  /\ log = [h \in Hooks |-> NoLog]
  /\ gadgets = Gadgets
  /\ regs = {}
  /\ calls = [c \in Calls |-> Resting]
  /\ removal = NoRemoval
  /\ firing = [h \in Hooks |-> NoFiring]
  /\ quiet = {} /\ tangled = {}

\* bindHook(): a gadget binds a hook that wakes itself.
BindHook(h) ==
  /\ hooks[h] = "unbound" /\ Target[h] \in gadgets
  /\ hooks' = [hooks EXCEPT ![h] = "off"]
  /\ log' = [log EXCEPT ![h] = [there |-> TRUE, enabled |-> FALSE, linked |-> TRUE]]
  /\ UNCHANGED <<gadgets, regs, calls, removal, firing, quiet, tangled>>

\* A call to the controller begins.
Call(c, kind, h) ==
  /\ calls' = [d \in Calls |->
       IF d = c THEN [kind |-> kind, hook |-> h, pc |-> "calling", alone |-> Busy(h) = {}]
       ELSE [calls[d] EXCEPT !.alone = @ /\ d \notin Busy(h)]]
  /\ tangled' = IF Busy(h) # {} THEN tangled \cup {h} ELSE tangled

\* enableHook() up to its await
EnableHook(c, h) ==
  /\ c \in Users /\ calls[c] = Resting
  /\ hooks[h] = "off"
  /\ Call(c, "enable", h)
  /\ quiet' = quiet \ {h}
  /\ UNCHANGED <<hooks, log, gadgets, regs, removal, firing>>

DisableCalls(c, h) == hooks[h] = "on" /\ Call(c, "disable", h)
DeleteCalls(c, h) == hooks[h] = "on" /\ Call(c, "delete", h)

\* disableHook() and deleteHook() of an enabled hook, up to their await
DisableHook(c, h) ==
  /\ c \in Users /\ calls[c] = Resting
  /\ DisableCalls(c, h)
  /\ UNCHANGED <<hooks, log, gadgets, regs, removal, firing, quiet>>

DeleteHook(c, h) ==
  /\ c \in Users /\ calls[c] = Resting
  /\ DeleteCalls(c, h)
  /\ UNCHANGED <<hooks, log, gadgets, regs, removal, firing, quiet>>

\* disableHook() of a hook that is not: nothing to do.
DisableNothing(h) ==
  /\ hooks[h] = "off"
  /\ quiet' = EndTold(h)
  /\ UNCHANGED <<hooks, log, gadgets, regs, calls, removal, firing, tangled>>

\* The end of deleteHook()
Erased(h) ==
  /\ hooks' = [hooks EXCEPT ![h] = "gone"]
  /\ log' = [log EXCEPT ![h] = [there |-> @.there, enabled |-> FALSE, linked |-> FALSE]]

\* A deleteHook() that does not tell the gatekeeper.
DeleteAtOnceMut(h) ==
  /\ Exists(h)
  /\ Erased(h)
  /\ quiet' = EndTold(h)
  /\ UNCHANGED <<gadgets, regs, calls, removal, firing, tangled>>

\* deleteHook() of a hook that is not enabled awaits nothing.
DeleteAtOnce(h) ==
  /\ hooks[h] = "off"
  /\ Erased(h)
  /\ quiet' = EndTold(h)
  /\ UNCHANGED <<gadgets, regs, calls, removal, firing, tangled>>

-----------------------------------------------------------------------------
(* The RPC to the gatekeeper and what follows it. *)

\* controller.enable() and disable() in the gatekeeper.  (A registration that is
\* there already stays.)
Controller(kind, h) ==
  /\ regs' = IF kind = "enable" THEN regs \cup {h} ELSE regs \ {h}
  /\ firing' = IF kind = "enable" THEN firing ELSE [firing EXCEPT ![h].live = FALSE]

CallLands(c) ==
  /\ calls[c].pc = "calling"
  /\ Controller(calls[c].kind, calls[c].hook)
  /\ calls' = [calls EXCEPT ![c].pc = "landed"]
  /\ UNCHANGED <<hooks, log, gadgets, removal, quiet, tangled>>

\* put(record), the copy read before the await, and the action's record: that is
\* read again, and has no hookId any more if the hook was deleted.
Switched(h, on) ==
  /\ hooks' = [hooks EXCEPT ![h] = IF on THEN "on" ELSE "off"]
  /\ log' = [log EXCEPT ![h].enabled = on /\ log[h].there]

\* The call's answer arrives.
CallAnswered(c) ==
  LET kind == calls[c].kind
      h == calls[c].hook IN
  /\ calls[c].pc = "landed"
  /\ calls' = [calls EXCEPT ![c] = Resting]
  /\ IF kind = "delete" THEN Erased(h) ELSE Switched(h, kind = "enable")
  /\ quiet' = IF kind = "enable" THEN quiet ELSE EndTold(h)
  /\ tangled' = IF calls[c].alone THEN tangled \ {h} ELSE tangled
  /\ UNCHANGED <<gadgets, regs, removal, firing>>

\* Its caller gives up on it.  The call may land later all the same.
GivenUp(call) ==
  IF call.pc \in {"calling", "orphan"} THEN [call EXCEPT !.pc = "orphan"] ELSE Resting

\* The call throws, and with it the loop that made it.
CallThrows(c) ==
  /\ calls[c].pc \in {"calling", "landed"}
  /\ calls' = [calls EXCEPT ![c] = GivenUp(@)]
  /\ tangled' = tangled \cup {calls[c].hook}
  /\ removal' = IF c = Loop THEN NoRemoval ELSE removal
  /\ UNCHANGED <<hooks, log, gadgets, regs, firing, quiet>>

OrphanLands(c) ==
  /\ calls[c].pc = "orphan"
  /\ Controller(calls[c].kind, calls[c].hook)
  /\ calls' = [calls EXCEPT ![c] = Resting]
  /\ UNCHANGED <<hooks, log, gadgets, removal, quiet, tangled>>

OrphanIsLost(c) ==
  /\ calls[c].pc = "orphan"
  /\ calls' = [calls EXCEPT ![c] = Resting]
  /\ UNCHANGED <<hooks, log, gadgets, regs, removal, firing, quiet, tangled>>

-----------------------------------------------------------------------------
(* removeGadget() and deleteSelf(): one hook after the other. *)

\* The hooks are listed once.
RemovalStarts(of) ==
  /\ removal = NoRemoval /\ calls[Loop] = Resting /\ gadgets # {}
  /\ of \in gadgets \cup {Workspace}
  /\ removal' = [of |-> of,
                 todo |-> {h \in Hooks : IF of = Workspace THEN hooks[h] = "on"
                                         ELSE Exists(h) /\ Target[h] = of}]
  /\ UNCHANGED <<hooks, log, gadgets, regs, calls, firing, quiet, tangled>>

RemovalNext(h) == removal.todo # {} /\ calls[Loop] = Resting /\ h \in removal.todo

\* One of the gadget's hooks: deleteHook().
RemovalDeletes(h) ==
  /\ RemovalNext(h) /\ removal.of # Workspace
  /\ removal' = [removal EXCEPT !.todo = @ \ {h}]
  /\ \/ DeleteCalls(Loop, h) /\ UNCHANGED <<hooks, log, quiet>>
     \/ /\ hooks[h] = "off" /\ Erased(h)
        /\ quiet' = EndTold(h)
        /\ UNCHANGED <<calls, tangled>>
     \/ hooks[h] = "gone" /\ UNCHANGED <<hooks, log, calls, quiet, tangled>>
  /\ UNCHANGED <<gadgets, regs, firing>>

\* One of the workspace's: disableHook(), which throws if it is gone.
RemovalDisables(h) ==
  /\ RemovalNext(h) /\ removal.of = Workspace
  /\ \/ DisableCalls(Loop, h) /\ removal' = [removal EXCEPT !.todo = @ \ {h}]
     \/ /\ hooks[h] = "off" /\ removal' = [removal EXCEPT !.todo = @ \ {h}]
        /\ UNCHANGED <<calls, tangled>>
     \/ hooks[h] = "gone" /\ removal' = NoRemoval /\ UNCHANGED <<calls, tangled>>
  /\ UNCHANGED <<hooks, log, gadgets, regs, firing, quiet>>

\* The gadget's own records go, or all that the workspace has stored.
RemovalEnds ==
  /\ removal # NoRemoval /\ removal.todo = {} /\ calls[Loop] = Resting
  /\ removal' = NoRemoval
  /\ IF removal.of # Workspace
     THEN gadgets' = gadgets \ {removal.of} /\ UNCHANGED <<hooks, log, quiet, tangled>>
     ELSE /\ gadgets' = {}
          /\ quiet' = UNION {EndTold(h) : h \in Hooks}
          /\ tangled' = tangled \cup {h \in Hooks : hooks[h] = "on"}
          /\ hooks' = [h \in Hooks |-> "gone"]
          /\ log' = [h \in Hooks |-> NoLog]
  /\ UNCHANGED <<regs, calls, firing>>

-----------------------------------------------------------------------------
(* The gatekeeper delivers an event. *)

FiringStarts(h) ==
  /\ h \in regs /\ firing[h].pc = "idle"
  /\ firing' = [firing EXCEPT ![h] = [pc |-> "asked", live |-> TRUE]]
  /\ UNCHANGED <<hooks, log, gadgets, regs, calls, removal, quiet, tangled>>

\* A startHook() that trusts whoever holds the initiator.
StartHookMut(h) ==
  /\ firing[h].pc = "asked"
  /\ firing' = [firing EXCEPT ![h].pc = "checked"]
  /\ UNCHANGED <<hooks, log, gadgets, regs, calls, removal, quiet, tangled>>

\* startHook() up to its await: the hook must be there and enabled.
StartHook(h) ==
  /\ firing[h].pc = "asked"
  /\ firing' = [firing EXCEPT ![h] =
       IF hooks[h] = "on" THEN [pc |-> "checked", live |-> @.live] ELSE NoFiring]
  /\ UNCHANGED <<hooks, log, gadgets, regs, calls, removal, quiet, tangled>>

\* readAdminConfig(): the vendor is not disabled, and startHook() returns.
HookAdmitted(h) ==
  /\ firing[h].pc = "checked"
  /\ firing' = [firing EXCEPT ![h].pc = "admitted"]
  /\ UNCHANGED <<hooks, log, gadgets, regs, calls, removal, quiet, tangled>>

\* It is, or the configuration cannot be read; or an answer is lost.
HookRefused(h) ==
  /\ firing[h].pc \in {"asked", "checked", "admitted"}
  /\ firing' = [firing EXCEPT ![h] = NoFiring]
  /\ UNCHANGED <<hooks, log, gadgets, regs, calls, removal, quiet, tangled>>

\* The callback, if the registration is still the one that the event came from.
Deliver(h) ==
  /\ firing[h].pc = "admitted"
  /\ firing' = [firing EXCEPT ![h] =
       IF @.live THEN [pc |-> "callback", live |-> TRUE] ELSE NoFiring]
  /\ UNCHANGED <<hooks, log, gadgets, regs, calls, removal, quiet, tangled>>

CallbackEnds(h) ==
  /\ firing[h].pc = "callback"
  /\ firing' = [firing EXCEPT ![h] = NoFiring]
  /\ UNCHANGED <<hooks, log, gadgets, regs, calls, removal, quiet, tangled>>

\* The overseer dies: calls and loops are forgotten, not what they have sent.
HooksRestart ==
  /\ calls' = [c \in Calls |-> GivenUp(calls[c])]
  /\ tangled' = tangled \cup {h \in Hooks : \E c \in Calls : calls[c].hook = h}
  /\ removal' = NoRemoval
  /\ firing' = [h \in Hooks |-> IF firing[h].pc \in {"asked", "checked"} THEN NoFiring ELSE firing[h]]
  /\ UNCHANGED <<hooks, log, gadgets, regs, quiet>>

HooksNext ==
  \/ \E h \in Hooks : BindHook(h)
  \/ \E c \in Users, h \in Hooks : EnableHook(c, h)
  \/ \E c \in Users, h \in Hooks : DisableHook(c, h)
  \/ \E c \in Users, h \in Hooks : DeleteHook(c, h)
  \/ \E h \in Hooks : DisableNothing(h)
  \/ \E h \in Hooks : DeleteAtOnce(h)
  \/ \E c \in Calls : CallLands(c)
  \/ \E c \in Calls : CallAnswered(c)
  \/ \E c \in Calls : CallThrows(c)
  \/ \E c \in Calls : OrphanLands(c)
  \/ \E c \in Calls : OrphanIsLost(c)
  \/ \E of \in Gadgets \cup {Workspace} : RemovalStarts(of)
  \/ \E h \in Hooks : RemovalDeletes(h)
  \/ \E h \in Hooks : RemovalDisables(h)
  \/ RemovalEnds
  \/ \E h \in Hooks : FiringStarts(h)
  \/ \E h \in Hooks : StartHook(h)
  \/ \E h \in Hooks : HookAdmitted(h)
  \/ \E h \in Hooks : HookRefused(h)
  \/ \E h \in Hooks : Deliver(h)
  \/ \E h \in Hooks : CallbackEnds(h)
  \/ HooksRestart

HooksSpec == HooksInit /\ [][HooksNext]_hooksVars

-----------------------------------------------------------------------------
HooksTypeOK ==
  /\ hooks \in [Hooks -> {"unbound", "off", "on", "gone"}]
  /\ log \in [Hooks -> [there : BOOLEAN, enabled : BOOLEAN, linked : BOOLEAN]]
  /\ gadgets \subseteq Gadgets
  /\ regs \subseteq Hooks
  /\ calls \in [Calls -> [kind : {"none", "enable", "disable", "delete"}, hook : Hooks \cup {Nothing},
                          pc : {"idle", "calling", "landed", "orphan"}, alone : BOOLEAN]]
  /\ \A c \in Calls : calls[c].pc = "idle" <=> calls[c] = Resting
  /\ removal \in [of : Gadgets \cup {Workspace, Nothing}, todo : SUBSET Hooks]
  /\ firing \in [Hooks -> [pc : {"idle", "asked", "checked", "admitted", "callback"}, live : BOOLEAN]]
  /\ quiet \subseteq Hooks /\ tangled \subseteq Hooks

\* When no call is in flight and the last one to reach the gatekeeper was not
\* disturbed, the gatekeeper delivers the hooks that the overseer shows as
\* enabled and no others: what a race, a failure or a crash leaves behind is
\* repaired by the next call that goes through (enableHook(), disableHook()).
SettledHooksAgree ==
  \A h \in Hooks : Busy(h) = {} /\ h \notin tangled => (hooks[h] = "on" <=> h \in regs)

\* The activity log shows as enabled what is enabled: the two records are
\* written together, a copy put back after a deletion included.
LogAgrees ==
  \A h \in Hooks : log[h].there => (log[h].enabled <=> hooks[h] = "on")

\* Once a user has been told that a hook is disabled or deleted, and nothing
\* that could enable it was under way, none of its events reaches the gadget
\* until it is enabled again, whatever the gatekeeper is left with ("Callbacks
\* will stop").  startHook()'s check and the gatekeeper's fence share the work.
QuietHooksStayQuiet ==
  [][\A h \in Hooks : firing'[h].pc = "callback" /\ firing[h].pc # "callback" => h \notin quiet]_hooksVars
=============================================================================
