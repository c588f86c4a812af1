----------------------------- MODULE EnvSettings ------------------------------
(***************************************************************************)
(* The node settings panel (PiholeCpEnvSettings.svelte) and the calls of   *)
(* PiholeCpGateway.ts it waits for, against a control plane that stages a  *)
(* value, applies it in a host job after it has answered, and may restart  *)
(* while it does.                                                          *)
(*                                                                         *)
(* The writable keys are one setting.  What the panel runs is a slot of    *)
(* ops; closing the editor takes the panel away and leaves them running.   *)
(***************************************************************************)
EXTENDS Naturals, OperatorLayout

CONSTANTS
  Settings,     \* values of the setting
  None,         \* no value: nothing staged, nothing shown, no backup
  HostConfigs,  \* what the .env file, the staged patch and the newest backup may say at first
  OpSlots,      \* bound of the model: asynchronous calls of the panel at a time
  MAX_PRESSES   \* bound of the model: Save, Apply and Rollback pressed

ASSUME SettingsAssumption ==
  /\ None \notin Settings
  /\ HostConfigs \subseteq [effective : Settings, pending : Settings \cup {None}, backup : Settings \cup {None}]
  /\ MAX_PRESSES \in Nat

VARIABLES
  host,    \* the control plane and its .env file
  panel,   \* the component's state
  ops,     \* its calls in flight
  presses  \* how often a button was pressed

envVars == <<host, panel, ops, presses>>

Kinds == {"idle", "load", "save", "apply", "rollback"}
Steps == {"none", "patch", "post", "config", "wait", "schema", "done", "failed"}
Config == [effective : Settings \cup {None}, pending : Settings \cup {None}]

SettingsTypeOK ==
  /\ host \in [up : BOOLEAN, effective : Settings, pending : Settings \cup {None},
               backup : Settings \cup {None}, job : {"none", "apply", "rollback"},
               kea : BOOLEAN,            \* the dashboard has Kea widgets
               applied : 0..MAX_PRESSES + 1]  \* host applies that have succeeded
  /\ panel \in [open : BOOLEAN, schema : BOOLEAN, draft : Settings \cup {None}, config : Config,
                busy : BOOLEAN]
  /\ ops \in [OpSlots -> [kind : Kinds, step : Steps, own : BOOLEAN, patch : Settings \cup {None},
                          got : Settings \cup {None}, seen : 0..MAX_PRESSES + 1, joined : BOOLEAN,
                          dash : {"none", "poll", "plugins", "done", "failed"}, fetched : Documents]]
  /\ presses \in 0..MAX_PRESSES

NoDocument == [mode |-> "other", ha |-> FALSE, widgets |-> {}]
NoConfig == [effective |-> None, pending |-> None]
HostConfig == [effective |-> host.effective, pending |-> host.pending]

Idle == [kind |-> "idle", step |-> "none", own |-> FALSE, patch |-> None, got |-> None,
         seen |-> 0, joined |-> FALSE, dash |-> "none", fetched |-> NoDocument]
FreshPanel == [open |-> FALSE, schema |-> FALSE, draft |-> None, config |-> NoConfig,
               busy |-> FALSE]

SettingsInit ==
  /\ \E c \in HostConfigs :
        host = [up |-> TRUE, effective |-> c.effective, pending |-> c.pending, backup |-> c.backup,
                job |-> "none", kea |-> FALSE, applied |-> 0]
  /\ panel = FreshPanel /\ ops = [i \in OpSlots |-> Idle] /\ presses = 0

-----------------------------------------------------------------------------
(* A call and what it writes to the panel, which may be gone. *)

HasSlot == \E i \in OpSlots : ops[i].kind = "idle"
FreeSlot == CHOOSE i \in OpSlots : ops[i].kind = "idle"
Begin(kind, step, patch) ==
  HasSlot /\ ops' = [ops EXCEPT ![FreeSlot] =
                      [Idle EXCEPT !.kind = kind, !.step = step, !.own = TRUE, !.patch = patch]]

Write(i, next) == panel' = IF ops[i].own THEN next ELSE panel
GoTo(i, step) == ops' = [ops EXCEPT ![i].step = step]
Ends(i) == ops' = [ops EXCEPT ![i] = Idle]

\* run's catch and finally; what the panel then says is left out.
Thrown(p) == [p EXCEPT !.busy = FALSE]

-----------------------------------------------------------------------------
(* The form. *)

\* Opening it with no schema yet loads the configuration; overlay and disabled keep a busy form from input.
Toggle ==
  /\ ~panel.busy /\ UNCHANGED <<host, presses>>
  /\ \/ ~panel.open /\ ~panel.schema
        /\ panel' = [panel EXCEPT !.open = TRUE]
        /\ Begin("load", "config", None)
     \/ (panel.open \/ panel.schema) /\ panel' = [panel EXCEPT !.open = ~@] /\ UNCHANGED ops

Type(v) ==
  /\ panel.open /\ panel.schema /\ ~panel.busy /\ v # panel.draft
  /\ panel' = [panel EXCEPT !.draft = v]
  /\ UNCHANGED <<host, ops, presses>>

\* Bound of the model: the last press is an Apply, next to no other call but a wait of an earlier panel.
LastAlone(kind) ==
  /\ presses + 1 = MAX_PRESSES => kind = "apply"
  /\ \A i \in OpSlots : ops[i].kind = "idle" \/ (~ops[i].own /\ ops[i].step = "wait")

\* run up to its first await; without a token a press says so and ends.
Press(kind, step, patch) ==
  /\ panel.open /\ ~panel.busy /\ presses < MAX_PRESSES
  /\ LastAlone(kind)
  /\ presses' = presses + 1 /\ UNCHANGED host
  /\ panel' = [panel EXCEPT !.busy = TRUE]
  /\ Begin(kind, step, patch)

Changed == panel.draft \notin {None, panel.config.effective}

SaveDraft == Changed /\ Press("save", "patch", panel.draft)   \* else there is nothing to stage
ApplyStaged == Press("apply", "post", None)
RollbackEnv == Press("rollback", "post", None)

-----------------------------------------------------------------------------
(* loadConfig: schema and configuration. *)

Loaded(p, c) ==
  [p EXCEPT !.schema = TRUE, !.config = c, !.draft = IF c.pending # None THEN c.pending ELSE c.effective]

ConfigShown(i) ==
  /\ ops[i].step = "config" /\ host.up
  /\ LET shown == Loaded(panel, HostConfig)
     IN  Write(i, IF ops[i].kind = "load" THEN shown ELSE [shown EXCEPT !.busy = FALSE])
  /\ Ends(i) /\ UNCHANGED <<host, presses>>

\* What the gateway throws for a GET: no answer, an error status, no JSON or the wrong shape.
ConfigFails(i) ==
  /\ ops[i].step = "config"
  /\ Write(i, IF ops[i].kind = "load" THEN panel ELSE Thrown(panel))
  /\ Ends(i) /\ UNCHANGED <<host, presses>>

-----------------------------------------------------------------------------
(* PATCH and POST. *)

PatchServed(i) ==
  /\ ops[i].step = "patch" /\ host.up
  /\ host' = [host EXCEPT !.pending = ops[i].patch]
  /\ \/ ops' = [ops EXCEPT ![i].step = "config", ![i].patch = None] /\ UNCHANGED panel
     \/ Write(i, Thrown(panel)) /\ Ends(i)          \* the answer is lost
  /\ UNCHANGED presses

\* The request is refused, or lost before the control plane has it.
RequestFails(i) ==
  /\ ops[i].step \in {"patch", "post"}
  /\ Write(i, Thrown(panel)) /\ Ends(i)
  /\ UNCHANGED <<host, presses>>

\* afterHostMutation without a host that applies: the form is read again.
Deferred(i) ==
  /\ ops[i].step = "post" /\ host.up
  /\ GoTo(i, "config")
  /\ UNCHANGED <<host, panel, presses>>

\* The host job starts once the control plane has answered; the page waits for it and for the dashboard.
Accepted(i) ==
  /\ ops[i].step = "post" /\ host.up /\ host.job = "none"
  /\ (IF ops[i].kind = "apply" THEN host.pending ELSE host.backup) # None
  /\ host' = [host EXCEPT !.job = ops[i].kind]
  /\ \/ /\ UNCHANGED panel
        /\ ops' = [ops EXCEPT ![i].step = "wait", ![i].dash = "poll", ![i].seen = host.applied]
     \/ Write(i, Thrown(panel)) /\ Ends(i)          \* the answer is lost
  /\ UNCHANGED presses

-----------------------------------------------------------------------------
(* waitForHostEnvApplyComplete: polls until the pending patch is empty, or *)
(* until its deadline.  A poll that fails, or finds a patch, changes       *)
(* nothing.                                                                *)

HealthyPoll(i) ==   \* deviant: a control plane that answers is taken for one that has applied
  /\ ops[i].step = "wait" /\ host.up
  /\ ops' = [ops EXCEPT ![i].step = "schema", ![i].got = host.effective]
  /\ UNCHANGED <<host, panel, presses>>

PollAnswered(i) ==
  /\ ops[i].step = "wait" /\ host.up /\ host.pending = None
  /\ ops' = [ops EXCEPT ![i].step = "schema", ![i].got = host.effective]
  /\ UNCHANGED <<host, panel, presses>>

AnsweredTimeout(i) ==   \* deviant: the deadline is looked at only once a poll has been answered
  /\ ops[i].step = "wait" /\ host.up
  /\ GoTo(i, "failed") /\ UNCHANGED <<host, panel, presses>>
WaitTimesOut(i) ==
  /\ ops[i].step = "wait"
  /\ GoTo(i, "failed") /\ UNCHANGED <<host, panel, presses>>

SchemaAnswered(i) ==
  /\ ops[i].step = "schema" /\ host.up
  /\ Write(i, [panel EXCEPT !.schema = TRUE, !.config = [effective |-> ops[i].got, pending |-> None],
                            !.draft = ops[i].got])
  /\ ops' = [ops EXCEPT ![i].step = "done", ![i].got = None] /\ UNCHANGED <<host, presses>>

SchemaFails(i) ==
  /\ ops[i].step = "schema"
  /\ ops' = [ops EXCEPT ![i].step = "failed", ![i].got = None] /\ UNCHANGED <<host, panel, presses>>

\* Promise.all: both done, and the panel says "Apply finished", or the first to fail while the other goes on.
Joined(i) ==
  /\ ops[i].step = "done" /\ ops[i].dash = "done" /\ ~ops[i].joined
  /\ Write(i, [panel EXCEPT !.busy = FALSE])
  /\ Ends(i) /\ UNCHANGED <<host, presses>>

FirstFails(i) ==
  /\ ~ops[i].joined /\ ("failed" \in {ops[i].step, ops[i].dash})
  /\ Write(i, Thrown(panel))
  /\ ops' = [ops EXCEPT ![i].joined = TRUE]
  /\ UNCHANGED <<host, presses>>

OtherEnds(i) ==
  /\ ops[i].joined /\ ops[i].step \in {"done", "failed"} /\ ops[i].dash \in {"done", "failed"}
  /\ Ends(i) /\ UNCHANGED <<host, panel, presses>>

-----------------------------------------------------------------------------
(* The control plane's host. *)

HostApplies ==
  /\ host.job = "apply" /\ host.pending # None
  /\ host' = [host EXCEPT !.job = "none", !.backup = host.effective, !.effective = host.pending,
                          !.pending = None, !.applied = @ + 1]
HostRollsBack ==
  /\ host.job = "rollback" /\ host' = [host EXCEPT !.job = "none", !.effective = host.backup]
HostJobFails == host.job # "none" /\ host' = [host EXCEPT !.job = "none"]
HostStops == host.job # "none" /\ host.up /\ host' = [host EXCEPT !.up = FALSE]
HostStarts == ~host.up /\ host' = [host EXCEPT !.up = TRUE]

HostNext ==
  /\ HostApplies \/ HostRollsBack \/ HostJobFails \/ HostStops \/ HostStarts
  /\ UNCHANGED <<panel, ops, presses>>

\* One step of call i, but for its reload of the dashboard.
CallNext(i) ==
  \/ ConfigShown(i) \/ ConfigFails(i)
  \/ PatchServed(i) \/ RequestFails(i) \/ Deferred(i) \/ Accepted(i)
  \/ PollAnswered(i) \/ WaitTimesOut(i) \/ SchemaAnswered(i) \/ SchemaFails(i)
  \/ Joined(i) \/ FirstFails(i) \/ OtherEnds(i)

FormNext == Toggle \/ (\E v \in Settings : Type(v)) \/ SaveDraft \/ ApplyStaged \/ RollbackEnv

\* The panel goes with the editor: its calls go on without it, and a load's answer has nobody to show it.
PanelGone ==
  /\ panel' = FreshPanel
  /\ ops' = [i \in OpSlots |-> IF ops[i].kind = "load" THEN Idle ELSE [ops[i] EXCEPT !.own = FALSE]]
=============================================================================
