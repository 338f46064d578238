---------------------------- MODULE ProcessOperator ----------------------------
(***************************************************************************)
(* The kill switch and the restricted process operator of the single-file  *)
(* control plane (src/src/cyberkimi/operator.py) on top of the policy      *)
(* engine whose grants it consumes.                                        *)
(*                                                                         *)
(* execute reads the switch, consumes the grant, starts a process in a     *)
(* session of its own and waits for it: until its pipes are closed, or     *)
(* until the timeout, after which the process group gets SIGTERM and, two  *)
(* seconds later, SIGKILL.  The switch may be armed, other calls made and  *)
(* the caller cancelled or killed between any two of these.                *)
(***************************************************************************)
EXTENDS SingleFilePolicy

CONSTANTS
    Commands,    \* registered commands, as the sets of profiles they allow
    MaxArmings   \* bound: an engagement's switch is armed this often

VARIABLES
    armed,      \* table kill_switches: the engagements whose switch is armed
    armings,    \* history: how often each switch was armed
    operating,  \* the execute call each agent is inside of
    processes,  \* the processes that were started; the position is the pid
    wasted      \* history: grants consumed by a call that raised, was cancelled or died

operatorVars == <<armed, armings, operating, processes, wasted>>
processVars == <<controlVars, operatorVars>>

\* What a call holds: its grant, how often the switch was armed when it was read, and
\* from "communicating" on its process.
Operating(step, i, seen, pid) == [step |-> step, grant |-> i, seen |-> seen, pid |-> pid]

OperatingRow ==
    [step : {"checked", "consumed", "communicating", "terminating"},
     grant : Nat, seen : Nat, pid : Nat]

ASSUME NoneIsNoOperation == None \notin OperatingRow

In(a, step) == operating[a] # None /\ operating[a].step = step
Hold(a, c) == operating' = [operating EXCEPT ![a] = c]
Leave(a) == Hold(a, None)
Continue(a, step) ==
    Hold(a, Operating(step, operating[a].grant, operating[a].seen, operating[a].pid))

EngagementOf(i) == grants[i].engagement.id

\* A process is its leader and whether a helper that the leader started in its group
\* holds the pipes open; others make no difference to the call.  "under" is 0 when the
\* switch was clear at the start, else the number of the arming.
Process(a, i, seen, under) ==
    [agent |-> a, grant |-> i, seen |-> seen, under |-> under,
     running |-> TRUE, helper |-> FALSE]

\* communicate waits for the leader and for the end of its pipes.
Communicated(p) == ~p.running /\ ~p.helper

\* What is left of a group when members end.
Ended(p, leader, helper) ==
    [agent |-> p.agent, grant |-> p.grant, seen |-> p.seen, under |-> p.under,
     running |-> p.running /\ ~leader, helper |-> p.helper /\ ~helper]

\* SIGTERM ends those members that do not ignore it.
Terminated(p) == {Ended(p, leader, helper) : leader, helper \in BOOLEAN}

\* Broken variant: the group is asked again.
KilledPolitely(p) == Terminated(p)

\* SIGKILL ends all of them.
Killed(p) == {Ended(p, TRUE, TRUE)}

ArmedNow(i) == IF EngagementOf(i) \in armed THEN armings[EngagementOf(i)] ELSE 0

--------------------------------------------------------------------------------
ProcessInit ==
    /\ ControlInit
    /\ armed = {}
    /\ armings = [e \in EngagementIds |-> 0]
    /\ operating = [a \in Agents |-> None]
    /\ processes = <<>>
    /\ wasted = {}

\* KillSwitch.arm
Arm(e) ==
    /\ armings[e] < MaxArmings
    /\ armed' = armed \cup {e}
    /\ armings' = [armings EXCEPT ![e] = @ + 1]
    /\ UNCHANGED <<controlVars, operating, processes, wasted>>

\* KillSwitch.clear
Clear(e) ==
    /\ e \in armed
    /\ armed' = armed \ {e}
    /\ UNCHANGED <<controlVars, armings, operating, processes, wasted>>

\* Broken variant: the switch is not read.
MayExecuteArmed(i, c) == grants[i].profile.name \in c /\ grants[i].profile.name = "restricted"

\* execute, the lines before the grant is consumed.
MayExecute(i, c) ==
    /\ EngagementOf(i) \notin armed
    /\ grants[i].profile.name \in c
    /\ grants[i].profile.name = "restricted"

\* A call that gets past them; one that does not raises and nothing has happened.
Execute(a, i, c) ==
    /\ operating[a] = None
    /\ calls[a] = None
    /\ MayExecute(i, c)
    /\ Hold(a, Operating("checked", i, armings[EngagementOf(i)], 0))
    /\ UNCHANGED <<controlVars, armed, armings, processes, wasted>>

\* consume_grant, before its transaction and in it.
EnterConsume(a) ==
    /\ In(a, "checked")
    /\ StartConsume(a, operating[a].grant)
    /\ UNCHANGED operatorVars

ConsumeForProcess(a) ==
    /\ In(a, "checked")
    /\ Consume(a)
    /\ Continue(a, "consumed")
    /\ UNCHANGED <<armed, armings, processes, wasted>>

\* consume_grant raises: INVALID_GRANT, EXPIRED_GRANT or REPLAYED_GRANT.
Refused(a) ==
    LET i == operating[a].grant
    IN \/ calls[a] = None /\ ~(grants[i].verifies /\ clock < grants[i].expires)
       \/ At(a, "consuming") /\ ~Unspent(i)

ConsumeRefused(a) ==
    /\ In(a, "checked")
    /\ Refused(a)
    /\ Leave(a)
    /\ calls' = [calls EXCEPT ![a] = None]
    /\ UNCHANGED <<registryVars, clock, controlTables, armed, armings, processes, wasted>>

\* The process is started; or the environment names a control-plane variable, or there
\* is no such executable, and the call raises with its grant spent.
StartProcess(a) ==
    /\ In(a, "consumed")
    /\ LET c == operating[a]
       IN \/ /\ processes' = Append(processes, Process(a, c.grant, c.seen, ArmedNow(c.grant)))
             /\ Hold(a, Operating("communicating", c.grant, c.seen, Len(processes) + 1))
             /\ UNCHANGED wasted
          \/ /\ wasted' = wasted \cup {c.grant}
             /\ Leave(a)
             /\ UNCHANGED processes
    /\ UNCHANGED <<controlVars, armed, armings>>

\* communicate, or the wait after a signal, comes to its end and execute returns.
Answer(a) ==
    /\ Leave(a)
    /\ UNCHANGED <<controlVars, armed, armings, processes, wasted>>

Finish(a) ==
    /\ In(a, "communicating")
    /\ Communicated(processes[operating[a].pid])
    /\ Answer(a)

\* wait_for gives up: SIGTERM for the group.
TimeOut(a) ==
    /\ In(a, "communicating")
    /\ \E p \in Terminated(processes[operating[a].pid]) :
          processes' = [processes EXCEPT ![operating[a].pid] = p]
    /\ Continue(a, "terminating")
    /\ UNCHANGED <<controlVars, armed, armings, wasted>>

\* The leader is gone, within the two seconds or after SIGKILL.
FinishTimedOut(a) ==
    /\ In(a, "terminating")
    /\ ~processes[operating[a].pid].running
    /\ Answer(a)

\* It was not gone in time: SIGKILL for the group.
KillGroup(a) ==
    /\ In(a, "terminating")
    /\ processes[operating[a].pid].running
    /\ \E p \in Killed(processes[operating[a].pid]) :
          processes' = [processes EXCEPT ![operating[a].pid] = p]
    /\ UNCHANGED <<controlVars, armed, armings, operating, wasted>>

\* execute is cancelled, or its process dies: nothing is done about its child.
Interrupt(a) ==
    /\ operating[a] # None
    /\ wasted' = IF In(a, "checked") THEN wasted ELSE wasted \cup {operating[a].grant}
    /\ Leave(a)
    /\ calls' = [calls EXCEPT ![a] = None]
    /\ UNCHANGED <<registryVars, clock, controlTables, armed, armings, processes>>

\* What a process does by itself while a call waits for it: start a helper, or end.
Awaited(pid) == \E a \in Agents : operating[a] # None /\ operating[a].pid = pid

Spawn(pid) ==
    /\ Awaited(pid)
    /\ processes[pid].running
    /\ processes' = [processes EXCEPT ![pid].helper = TRUE]
    /\ UNCHANGED <<controlVars, armed, armings, operating, wasted>>

Exit(pid) ==
    /\ Awaited(pid)
    /\ \E leader, helper \in BOOLEAN :
          processes' = [processes EXCEPT ![pid] = Ended(@, leader, helper)]
    /\ UNCHANGED <<controlVars, armed, armings, operating, wasted>>

ExecuteStep(a) ==
    \/ EnterConsume(a)
    \/ ConsumeForProcess(a)
    \/ ConsumeRefused(a)
    \/ StartProcess(a)
    \/ Finish(a)
    \/ TimeOut(a)
    \/ FinishTimedOut(a)
    \/ KillGroup(a)

\* Grants are consumed by execute and nowhere else; an agent is in one call at a time.
AuthorizeNext ==
    \/ RegistryNext /\ UNCHANGED <<clock, controlTables, calls>>
    \/ \E a \in Agents :
          /\ operating[a] = None
          /\ \/ \E r \in Requests : StartAuthorize(a, r)
             \/ Permit(a)
             \/ Deny(a)
             \/ RecordDenial(a)
             \/ Abandon(a)
    \/ Tick

ProcessNext ==
    \/ AuthorizeNext /\ UNCHANGED operatorVars
    \/ \E e \in EngagementIds : Arm(e) \/ Clear(e)
    \/ \E a \in Agents :
          \/ \E i \in DOMAIN grants, c \in Commands : Execute(a, i, c)
          \/ ExecuteStep(a)
          \/ Interrupt(a)
    \/ \E pid \in DOMAIN processes : Spawn(pid) \/ Exit(pid)

ProcessSpec == ProcessInit /\ [][ProcessNext]_processVars

\* The event loop runs an execute call until it returns: timers fire, and SIGKILL is not
\* survived.  Nothing is assumed of the processes.
FairProcessSpec == ProcessSpec /\ \A a \in Agents : WF_processVars(ExecuteStep(a))

--------------------------------------------------------------------------------
\* "engagement kill switch is armed" (operator.py:118): the check and the start are far
\* apart, and a process may start while the switch is armed.  It then belongs to a call
\* that had read the switch before that arming: none that comes later gets through.
KillSwitchHonoured ==
    \A n \in DOMAIN processes :
        processes[n].under # 0 => processes[n].seen < processes[n].under

\* One process for a grant: each process has a grant of the restricted profile that was
\* consumed before it expired, a consumed grant has one process, or its call is about to
\* start it, or raised; and a leader that runs is waited for, or its call was
\* interrupted.
ProcessesAccounted ==
    /\ \A n \in DOMAIN processes :
          LET p == processes[n]
          IN /\ \A m \in DOMAIN processes : processes[m].grant = p.grant => m = n
             /\ grants[p.grant].profile.name = "restricted"
             /\ grants[p.grant].consumed # None /\ grants[p.grant].consumed < grants[p.grant].expires
             /\ p.running =>
                   \/ p.grant \in wasted
                   \/ operating[p.agent] # None /\ operating[p.agent].pid = n
    /\ \A i \in DOMAIN grants :
          grants[i].consumed # None =>
              \/ \E n \in DOMAIN processes : processes[n].grant = i
              \/ \E a \in Agents : In(a, "consumed") /\ operating[a].grant = i
              \/ i \in wasted

\* A call ends, whether its process hangs, ignores SIGTERM, or leaves a helper behind
\* that keeps its pipes open.
ExecutionsEnd == \A a \in Agents : operating[a] # None ~> operating[a] = None
================================================================================
