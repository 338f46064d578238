------------------------- MODULE ProcessOperatorProofs -------------------------
(***************************************************************************)
(* The process operator only drives the single-file policy engine by steps *)
(* the engine allows, so what is proved of the engine holds with it on     *)
(* top; no call that reads the kill switch after it was armed starts a     *)
(* process, and every consumed grant has one process or a reason to have   *)
(* none - for any number of agents, engagements and processes.             *)
(***************************************************************************)
EXTENDS ProcessOperator, SingleFilePolicyProofs

ProcessRow ==
    [agent : Agents, grant : Nat, seen : Nat, under : Nat, running : BOOLEAN, helper : BOOLEAN]

ProcessTypeOK ==
    /\ armings \in [EngagementIds -> Nat]
    /\ operating \in [Agents -> OperatingRow \cup {None}]
    /\ processes \in Seq(ProcessRow)

\* Calls and processes have grants of the restricted profile.
RestrictedHeld ==
    /\ \A a \in Agents :
          operating[a] # None =>
              /\ operating[a].grant \in DOMAIN grants
              /\ grants[operating[a].grant].profile.name = "restricted"
    /\ \A n \in DOMAIN processes :
          /\ processes[n].grant \in DOMAIN grants
          /\ grants[processes[n].grant].profile.name = "restricted"
          /\ grants[processes[n].grant].consumed # None

\* A call has a process once it was started, for its own grant.
PidsHeld ==
    \A a \in Agents :
        operating[a] # None =>
            IF operating[a].step \in {"checked", "consumed"} THEN operating[a].pid = 0
            ELSE /\ operating[a].pid \in DOMAIN processes
                 /\ processes[operating[a].pid].grant = operating[a].grant

\* Grants are consumed inside execute calls, each its own.
ConsumeHeld ==
    \A a \in Agents :
        At(a, "consuming") => In(a, "checked") /\ calls[a].grant = operating[a].grant

\* A grant was consumed by one call, which has not started a process yet.
ConsumedHeld ==
    \A a \in Agents :
        In(a, "consumed") =>
            /\ grants[operating[a].grant].consumed # None
            /\ \A n \in DOMAIN processes : processes[n].grant # operating[a].grant
            /\ \A b \in Agents :
                  (In(b, "consumed") /\ operating[b].grant = operating[a].grant) => b = a

\* A call on its way to a process read the switch while it was clear.
SwitchRead ==
    \A a \in Agents :
        (In(a, "checked") \/ In(a, "consumed")) =>
            /\ operating[a].seen <= armings[EngagementOf(operating[a].grant)]
            /\ EngagementOf(operating[a].grant) \in armed =>
                  operating[a].seen < armings[EngagementOf(operating[a].grant)]

OperatorInv ==
    /\ ProcessTypeOK
    /\ RestrictedHeld
    /\ PidsHeld
    /\ ConsumeHeld
    /\ ConsumedHeld
    /\ SwitchRead
    /\ KillSwitchHonoured
    /\ ProcessesAccounted

--------------------------------------------------------------------------------
\* Every step of the operator is a step of the policy engine, or leaves it alone.
LEMMA ProcessStep ==
    ASSUME ControlTypeOK, RestrictedHeld, [ProcessNext]_processVars
    PROVE  [ControlNext]_controlVars
<1>1. CASE AuthorizeNext
  BY <1>1 DEF AuthorizeNext, ControlNext
<1>2. CASE UNCHANGED controlVars
  BY <1>2
<1>3. ASSUME NEW a \in Agents, EnterConsume(a) PROVE ControlNext
  <2>1. operating[a].grant \in DOMAIN grants /\ StartConsume(a, operating[a].grant)
    BY <1>3 DEF EnterConsume, RestrictedHeld, In
  <2>. QED  BY <2>1 DEF ControlNext
<1>4. ASSUME NEW a \in Agents, ConsumeForProcess(a) PROVE ControlNext
  BY <1>4 DEF ConsumeForProcess, ControlNext
<1>5. ASSUME NEW a \in Agents, ConsumeRefused(a) \/ Interrupt(a) PROVE [ControlNext]_controlVars
  <2>1. /\ calls' = [calls EXCEPT ![a] = None]
        /\ UNCHANGED <<registryVars, clock, controlTables>>
    BY <1>5 DEF ConsumeRefused, Interrupt
  <2>2. CASE calls[a] # None
    <3>1. Abandon(a)
      BY <2>1, <2>2 DEF Abandon, Return, Goto
    <3>. QED  BY <3>1 DEF ControlNext
  <2>3. CASE calls[a] = None
    <3>1. UNCHANGED calls
      BY <2>1, <2>3 DEF ControlTypeOK
    <3>. QED  BY <2>1, <3>1 DEF controlVars
  <2>. QED  BY <2>2, <2>3
<1>6. ASSUME NEW a \in Agents,
             StartProcess(a) \/ Finish(a) \/ TimeOut(a) \/ FinishTimedOut(a) \/ KillGroup(a)
      PROVE  UNCHANGED controlVars
  BY <1>6 DEF StartProcess, Finish, TimeOut, FinishTimedOut, KillGroup, Answer
<1>7. ASSUME NEW a \in Agents, NEW i \in DOMAIN grants, NEW c \in Commands, Execute(a, i, c)
      PROVE  UNCHANGED controlVars
  BY <1>7 DEF Execute
<1>8. ASSUME NEW e \in EngagementIds, Arm(e) \/ Clear(e)
      PROVE  UNCHANGED controlVars
  BY <1>8 DEF Arm, Clear
<1>9. ASSUME NEW pid \in DOMAIN processes, Spawn(pid) \/ Exit(pid)
      PROVE  UNCHANGED controlVars
  BY <1>9 DEF Spawn, Exit
<1>10. CASE UNCHANGED processVars
  BY <1>10 DEF processVars
<1>. QED
  BY <1>1, <1>2, <1>3, <1>4, <1>5, <1>6, <1>7, <1>8, <1>9, <1>10 DEF ProcessNext, ExecuteStep

--------------------------------------------------------------------------------
LEMMA ProcessKnown ==
    ASSUME ProcessTypeOK, NEW n \in DOMAIN processes
    PROVE  processes[n] \in ProcessRow /\ processes[n].agent \in Agents
<1>1. processes[n] \in ProcessRow
  BY DEF ProcessTypeOK
<1>. QED  BY <1>1 DEF ProcessRow

LEMMA EngagementKnown ==
    ASSUME ControlTypeOK, NEW i \in DOMAIN grants
    PROVE  EngagementOf(i) \in EngagementIds
<1>1. grants[i] \in ControlGrantRow
  BY DEF ControlTypeOK
<1>2. grants[i].engagement \in Manifests
  BY <1>1 DEF ControlGrantRow
<1>. QED  BY <1>2, RegistryManifestsWellFormed DEF RegistryManifestAssumption, EngagementOf

\* Calls, processes and the switch when the grants only grow.
GrantsGrow ==
    /\ \A i \in DOMAIN grants : i \in DOMAIN grants' /\ grants'[i] = grants[i]
    /\ \A i \in DOMAIN grants' : i \notin DOMAIN grants => grants'[i].consumed = None

LEMMA SwitchesStep ==
    ASSUME OperatorInv, ControlInv, GrantsGrow, ConsumeHeld',
           UNCHANGED <<operating, processes, wasted>>,
           armings' \in [EngagementIds -> Nat],
           \A e \in EngagementIds :
               /\ armings[e] <= armings'[e]
               /\ e \in armed' => (e \in armed \/ armings[e] < armings'[e])
    PROVE  OperatorInv'
<1>. USE DEF OperatorInv
<1>1. ProcessTypeOK'
  BY DEF ProcessTypeOK
<1>2. RestrictedHeld'
  BY DEF RestrictedHeld, GrantsGrow
<1>3. PidsHeld'
  BY DEF PidsHeld
<1>4. ConsumedHeld'
  BY DEF ConsumedHeld, RestrictedHeld, GrantsGrow, In
<1>5. SwitchRead'
  <2>1. ASSUME NEW a \in Agents, In(a, "checked") \/ In(a, "consumed"),
               NEW e, e = grants'[operating[a].grant].engagement.id
        PROVE  /\ operating[a].seen <= armings'[e]
               /\ e \in armed' => operating[a].seen < armings'[e]
    <3>. DEFINE i == operating[a].grant
    <3>1. i \in DOMAIN grants /\ operating[a].seen \in Nat
      BY <2>1 DEF RestrictedHeld, In, ProcessTypeOK, OperatingRow
    <3>2. e = grants[i].engagement.id
      BY <2>1, <3>1 DEF GrantsGrow
    <3>3. e \in EngagementIds
      BY <3>1, <3>2, EngagementKnown DEF ControlInv, EngagementOf
    <3>4. /\ operating[a].seen <= armings[e]
          /\ e \in armed => operating[a].seen < armings[e]
      BY <2>1, <3>2 DEF SwitchRead, EngagementOf
    <3>5. armings[e] \in Nat /\ armings'[e] \in Nat
      BY <3>3 DEF ProcessTypeOK
    <3>. HIDE DEF i
    <3>. QED  BY <3>1, <3>3, <3>4, <3>5
  <2>2. operating' = operating
    OBVIOUS
  <2>. QED  BY <2>1, <2>2 DEF SwitchRead, In, EngagementOf
<1>6. KillSwitchHonoured'
  BY DEF KillSwitchHonoured
<1>7. ProcessesAccounted'
  BY DEF ProcessesAccounted, RestrictedHeld, GrantsGrow, In
<1>. QED  BY <1>1, <1>2, <1>3, <1>4, <1>5, <1>6, <1>7

\* An agent in no execute call authorizes; registrations and the clock go on.
LEMMA AuthorizeStep ==
    ASSUME OperatorInv, ControlInv, AuthorizeNext, UNCHANGED operatorVars
    PROVE  OperatorInv'
<1>1. UNCHANGED <<armed, armings, operating, processes, wasted>>
  BY DEF operatorVars
<1>2. GrantsGrow
  <2>1. ASSUME NEW a \in Agents, Permit(a) PROVE GrantsGrow
    <3>1. PICK p \in Chosen(calls[a]), verifies \in BOOLEAN :
             /\ grants' = Append(grants, Grant(calls[a], p, verifies))
             /\ Grant(calls[a], p, verifies) \in ControlGrantRow
      BY <2>1, PermitAppends DEF ControlInv
    <3>. DEFINE g == Grant(calls[a], p, verifies)
    <3>2. g.consumed = None
      BY DEF Grant
    <3>. HIDE DEF g
    <3>. QED  BY <3>1, <3>2, Appended DEF g, ControlInv, ControlTypeOK, GrantsGrow
  <2>2. CASE UNCHANGED grants
    BY <2>2 DEF GrantsGrow
  <2>. QED
    BY <2>1, <2>2 DEF AuthorizeNext, StartAuthorize, Deny, RecordDenial, Abandon, Tick,
                      controlTables
<1>3. ConsumeHeld'
  <2>1. calls \in [Agents -> AskingRow \cup ConsumingRow \cup {None}]
    BY DEF ControlInv, ControlTypeOK
  <2>2. ASSUME NEW a \in Agents, NEW r \in Requests, StartAuthorize(a, r), NEW b \in Agents
        PROVE  calls'[b] = calls[b] \/ calls'[b].step = "asking"
    BY <2>1, <2>2 DEF StartAuthorize, Goto, Asking
  <2>3. ASSUME NEW a \in Agents, Deny(a), NEW b \in Agents
        PROVE  calls'[b] = calls[b] \/ calls'[b].step = "denied"
    BY <2>1, <2>3 DEF Deny, Goto, Asking
  <2>4. ASSUME NEW a \in Agents, Permit(a) \/ RecordDenial(a) \/ Abandon(a), NEW b \in Agents
        PROVE  calls'[b] = calls[b] \/ calls'[b] = None
    BY <2>1, <2>4 DEF Permit, RecordDenial, Abandon, Return, Goto
  <2>5. ASSUME NEW b \in Agents
        PROVE  \/ calls'[b] = calls[b] \/ calls'[b] = None
               \/ calls'[b].step \in {"asking", "denied"}
    BY <2>2, <2>3, <2>4 DEF AuthorizeNext, Tick
  <2>. QED  BY <1>1, <2>5 DEF OperatorInv, ConsumeHeld, At, In
<1>4. \A e \in EngagementIds : armings[e] \in Nat
  BY DEF OperatorInv, ProcessTypeOK
<1>5. armings' \in [EngagementIds -> Nat]
  BY <1>1 DEF OperatorInv, ProcessTypeOK
<1>. QED  BY <1>1, <1>2, <1>3, <1>4, <1>5, SwitchesStep

\* The switch is armed or cleared.
LEMMA SwitchStep ==
    ASSUME OperatorInv, ControlInv, NEW e \in EngagementIds, Arm(e) \/ Clear(e)
    PROVE  OperatorInv'
<1>1. UNCHANGED <<controlVars, operating, processes, wasted>>
  BY DEF Arm, Clear
<1>2. GrantsGrow /\ ConsumeHeld'
  BY <1>1 DEF OperatorInv, GrantsGrow, ConsumeHeld, At, In, controlVars, controlTables
<1>3. armings \in [EngagementIds -> Nat]
  BY DEF OperatorInv, ProcessTypeOK
<1>4. /\ armings' \in [EngagementIds -> Nat]
      /\ \A d \in EngagementIds :
            /\ armings[d] <= armings'[d]
            /\ d \in armed' => (d \in armed \/ armings[d] < armings'[d])
  BY <1>3 DEF Arm, Clear
<1>. QED  BY <1>1, <1>2, <1>4, SwitchesStep

\* A call enters with the switch it has just read.
LEMMA ExecuteEnters ==
    ASSUME OperatorInv, ControlInv,
           NEW a \in Agents, NEW i \in DOMAIN grants, NEW c \in Commands, Execute(a, i, c)
    PROVE  OperatorInv'
<1>. DEFINE new == Operating("checked", i, armings[EngagementOf(i)], 0)
<1>. USE DEF OperatorInv
<1>1. /\ operating[a] = None /\ calls[a] = None
      /\ EngagementOf(i) \notin armed /\ grants[i].profile.name = "restricted"
      /\ operating' = [operating EXCEPT ![a] = new]
      /\ UNCHANGED <<controlVars, armed, armings, processes, wasted>>
  BY DEF Execute, MayExecute, Hold
<1>2. UNCHANGED <<grants, calls>>
  BY <1>1 DEF controlVars, controlTables
<1>3. /\ new \in OperatingRow /\ new # None
      /\ new.step = "checked" /\ new.grant = i /\ new.pid = 0
      /\ new.seen = armings[EngagementOf(i)] /\ armings[EngagementOf(i)] \in Nat
  <2>1. i \in Nat
    BY DEF ControlInv, ControlTypeOK
  <2>2. armings[EngagementOf(i)] \in Nat
    BY EngagementKnown DEF ProcessTypeOK, ControlInv
  <2>3. new \in OperatingRow
    BY <2>1, <2>2 DEF Operating, OperatingRow
  <2>. QED  BY <2>2, <2>3, NoneIsNoOperation DEF Operating
<1>. HIDE DEF new
<1>4. operating \in [Agents -> OperatingRow \cup {None}]
  BY DEF ProcessTypeOK
<1>5. operating' \in [Agents -> OperatingRow \cup {None}]
  BY <1>1, <1>3, <1>4
<1>6. \A b \in Agents : operating'[b] = IF b = a THEN new ELSE operating[b]
  BY <1>1, <1>4
<1>7. ProcessTypeOK'
  BY <1>1, <1>5 DEF ProcessTypeOK
<1>8. RestrictedHeld' /\ PidsHeld'
  BY <1>1, <1>2, <1>3, <1>6 DEF RestrictedHeld, PidsHeld
<1>9. ConsumeHeld' /\ ConsumedHeld'
  BY <1>1, <1>2, <1>3, <1>6 DEF ConsumeHeld, ConsumedHeld, At, In
<1>10. SwitchRead'
  BY <1>1, <1>2, <1>3, <1>6 DEF SwitchRead, In, EngagementOf
<1>11. KillSwitchHonoured'
  BY <1>1 DEF KillSwitchHonoured
<1>12. ProcessesAccounted'
  BY <1>1, <1>2, <1>6 DEF ProcessesAccounted, In, ProcessTypeOK, ProcessRow
<1>. QED  BY <1>7, <1>8, <1>9, <1>10, <1>11, <1>12

\* A call turns to its own grant.
LEMMA EnterStep ==
    ASSUME OperatorInv, ControlInv, NEW a \in Agents, EnterConsume(a)
    PROVE  OperatorInv'
<1>. DEFINE new == Consuming(operating[a].grant, clock)
<1>1. /\ In(a, "checked")
      /\ calls' = [calls EXCEPT ![a] = new]
      /\ UNCHANGED <<grants, armed, armings, operating, processes, wasted>>
  BY DEF EnterConsume, StartConsume, Goto, controlTables, operatorVars
<1>2. calls \in [Agents -> AskingRow \cup ConsumingRow \cup {None}]
  BY DEF ControlInv, ControlTypeOK
<1>3. new.grant = operating[a].grant
  BY DEF Consuming
<1>. HIDE DEF new
<1>4. ConsumeHeld'
  BY <1>1, <1>2, <1>3 DEF OperatorInv, ConsumeHeld, At, In
<1>5. GrantsGrow
  BY <1>1 DEF GrantsGrow
<1>6. /\ armings' \in [EngagementIds -> Nat]
      /\ \A e \in EngagementIds : armings[e] <= armings'[e]
  BY <1>1 DEF OperatorInv, ProcessTypeOK
<1>. QED  BY <1>1, <1>4, <1>5, <1>6, SwitchesStep

\* A call goes on with what it has; its process changes at most by ending.
LEMMA Continued ==
    ASSUME ProcessTypeOK, NEW a \in Agents, operating[a] # None, NEW step, Continue(a, step),
           step \in {"checked", "consumed", "communicating", "terminating"}
    PROVE  /\ operating' \in [Agents -> OperatingRow \cup {None}]
           /\ operating'[a] # None /\ operating'[a].step = step
           /\ operating'[a].grant = operating[a].grant
           /\ operating'[a].seen = operating[a].seen
           /\ operating'[a].pid = operating[a].pid
           /\ \A b \in Agents \ {a} : operating'[b] = operating[b]
<1>. DEFINE new == Operating(step, operating[a].grant, operating[a].seen, operating[a].pid)
<1>1. operating \in [Agents -> OperatingRow \cup {None}]
  BY DEF ProcessTypeOK
<1>2. operating[a] \in OperatingRow
  BY <1>1
<1>3. /\ new \in OperatingRow /\ new.step = step /\ new.grant = operating[a].grant
      /\ new.seen = operating[a].seen /\ new.pid = operating[a].pid
  BY <1>2 DEF Operating, OperatingRow
<1>4. new # None
  BY <1>3, NoneIsNoOperation
<1>5. operating' = [operating EXCEPT ![a] = new]
  BY DEF Continue, Hold
<1>. HIDE DEF new
<1>. QED  BY <1>1, <1>3, <1>4, <1>5

\* A call consumes its grant: no other holds it consumed, and no process has it.
LEMMA ConsumeStep ==
    ASSUME OperatorInv, ControlInv, NEW a \in Agents, ConsumeForProcess(a)
    PROVE  OperatorInv'
<1>. USE DEF OperatorInv
<1>. DEFINE i == operating[a].grant
<1>1. /\ In(a, "checked") /\ At(a, "consuming") /\ calls[a].grant = i
      /\ Continue(a, "consumed") /\ Consume(a)
      /\ UNCHANGED <<armed, armings, processes, wasted>>
  BY DEF ConsumeForProcess, Consume, ConsumeHeld
<1>2. /\ i \in DOMAIN grants /\ grants[i].consumed = None
      /\ DOMAIN grants' = DOMAIN grants
      /\ \A j \in DOMAIN grants :
            /\ grants'[j].engagement = grants[j].engagement
            /\ grants'[j].profile = grants[j].profile
            /\ grants'[j].expires = grants[j].expires
            /\ grants'[j].consumed = IF j = i THEN calls[a].now ELSE grants[j].consumed
  BY <1>1, ConsumeMarks DEF ControlInv
<1>3. calls[a].now \in Nat /\ calls[a].now # None /\ calls[a].now < grants[i].expires
  BY <1>1, <1>2, CallIs, ConsumeMarks, NoneIsNoTime DEF ControlInv, ConsumingRow
<1>4. /\ operating' \in [Agents -> OperatingRow \cup {None}]
      /\ operating'[a] # None /\ operating'[a].step = "consumed"
      /\ operating'[a].grant = i
      /\ operating'[a].seen = operating[a].seen
      /\ operating'[a].pid = operating[a].pid
      /\ \A b \in Agents \ {a} : operating'[b] = operating[b]
  BY <1>1, Continued DEF In
<1>5. \A b \in Agents : calls'[b] = IF b = a THEN None ELSE calls[b]
  BY <1>1 DEF Consume, Return, Goto, ControlInv, ControlTypeOK
<1>. HIDE DEF i
<1>6. ProcessTypeOK'
  BY <1>1, <1>4 DEF ProcessTypeOK
<1>7. operating[a] # None /\ operating[a].step = "checked" /\ operating[a].grant = i
  BY <1>1 DEF In, i
<1>8. RestrictedHeld'
  <2>1. ASSUME NEW b \in Agents, operating'[b] # None
        PROVE  operating[b] # None /\ operating'[b].grant = operating[b].grant
    BY <1>4, <1>7, <2>1
  <2>2. \A j \in DOMAIN grants : grants[j].consumed # None => grants'[j].consumed # None
    BY <1>2
  <2>. QED  BY <1>1, <1>2, <2>1, <2>2 DEF RestrictedHeld
<1>9. PidsHeld'
  BY <1>1, <1>4, <1>7 DEF PidsHeld
<1>10. ConsumeHeld'
  BY <1>4, <1>5 DEF ConsumeHeld, At, In
<1>11. ConsumedHeld'
  <2>1. \A n \in DOMAIN processes : processes[n].grant # i
    BY <1>2 DEF RestrictedHeld
  <2>2. \A b \in Agents : ~(In(b, "consumed") /\ operating[b].grant = i)
    BY <1>2 DEF ConsumedHeld
  <2>3. \A b \in Agents : In(b, "consumed") => operating[b].grant \in DOMAIN grants
    BY DEF RestrictedHeld, In
  <2>. QED  BY <1>1, <1>2, <1>3, <1>4, <2>1, <2>2, <2>3 DEF ConsumedHeld, In
<1>12. SwitchRead'
  <2>1. ASSUME NEW b \in Agents, In(b, "checked")' \/ In(b, "consumed")'
        PROVE  /\ In(b, "checked") \/ In(b, "consumed")
               /\ operating'[b].grant = operating[b].grant
               /\ operating'[b].seen = operating[b].seen
               /\ operating[b].grant \in DOMAIN grants
    BY <1>4, <1>7, <2>1 DEF In, RestrictedHeld
  <2>. QED  BY <1>1, <1>2, <2>1 DEF SwitchRead, EngagementOf
<1>13. KillSwitchHonoured'
  BY <1>1 DEF KillSwitchHonoured
<1>14. ProcessesAccounted'
  <2>1. ASSUME NEW n \in DOMAIN processes
        PROVE  /\ \A m \in DOMAIN processes : processes[m].grant = processes[n].grant => m = n
               /\ grants'[processes[n].grant].profile.name = "restricted"
               /\ grants'[processes[n].grant].consumed # None
               /\ grants'[processes[n].grant].consumed < grants'[processes[n].grant].expires
    <3>1. processes[n].grant \in DOMAIN grants /\ processes[n].grant # i
      BY <1>2 DEF RestrictedHeld
    <3>. QED  BY <1>2, <3>1 DEF ProcessesAccounted
  <2>2. ASSUME NEW n \in DOMAIN processes, processes[n].running
        PROVE  \/ processes[n].grant \in wasted
               \/ (operating'[processes[n].agent] # None
                     /\ operating'[processes[n].agent].pid = n)
    <3>1. processes[n].agent \in Agents
      BY ProcessKnown
    <3>. QED  BY <1>4, <1>7, <2>2, <3>1 DEF ProcessesAccounted
  <2>3. ASSUME NEW j \in DOMAIN grants, grants'[j].consumed # None
        PROVE  \/ \E n \in DOMAIN processes : processes[n].grant = j
               \/ \E b \in Agents : In(b, "consumed")' /\ operating'[b].grant = j
               \/ j \in wasted
    <3>1. CASE j = i
      BY <1>4, <3>1 DEF In
    <3>2. CASE j # i
      <4>1. grants[j].consumed # None
        BY <1>2, <2>3, <3>2
      <4>2. \A b \in Agents : In(b, "consumed") => In(b, "consumed")' /\ operating'[b] = operating[b]
        BY <1>4, <1>7 DEF In
      <4>. QED  BY <4>1, <4>2 DEF ProcessesAccounted
    <3>. QED  BY <3>1, <3>2
  <2>. QED  BY <1>1, <1>2, <2>1, <2>2, <2>3 DEF ProcessesAccounted
<1>. QED  BY <1>6, <1>8, <1>9, <1>10, <1>11, <1>12, <1>13, <1>14

\* A call is left: by an exception, an answer, a cancellation or a death.
LEMMA LeaveStep ==
    ASSUME OperatorInv, ControlInv, NEW a \in Agents, operating[a] # None, Leave(a),
           (~In(a, "checked") /\ UNCHANGED calls) \/ calls' = [calls EXCEPT ![a] = None],
           UNCHANGED <<grants, armed, armings, processes>>,
           wasted \subseteq wasted',
           In(a, "consumed") => operating[a].grant \in wasted',
           \A n \in DOMAIN processes :
               (processes[n].running /\ operating[a].pid = n) => processes[n].grant \in wasted'
    PROVE  OperatorInv'
<1>. USE DEF OperatorInv
<1>1. operating \in [Agents -> OperatingRow \cup {None}]
  BY DEF ProcessTypeOK
<1>2. /\ operating' \in [Agents -> OperatingRow \cup {None}]
      /\ \A b \in Agents : operating'[b] = IF b = a THEN None ELSE operating[b]
  BY <1>1 DEF Leave, Hold
<1>3. \A b \in Agents : calls'[b] = calls[b] \/ calls'[b] = None
  BY DEF ControlInv, ControlTypeOK
<1>4. ProcessTypeOK'
  BY <1>2 DEF ProcessTypeOK
<1>5. RestrictedHeld' /\ PidsHeld'
  BY <1>2 DEF RestrictedHeld, PidsHeld
<1>6. ConsumeHeld'
  <2>1. ~At(a, "consuming")'
    <3>1. CASE ~In(a, "checked") /\ UNCHANGED calls
      BY <3>1 DEF ConsumeHeld, At
    <3>2. CASE calls' = [calls EXCEPT ![a] = None]
      BY <3>2 DEF ControlInv, ControlTypeOK, At
    <3>. QED  BY <3>1, <3>2
  <2>. QED  BY <1>2, <1>3, <2>1 DEF ConsumeHeld, At, In
<1>7. ConsumedHeld' /\ SwitchRead'
  BY <1>2 DEF ConsumedHeld, SwitchRead, In, EngagementOf
<1>8. KillSwitchHonoured'
  BY DEF KillSwitchHonoured
<1>9. ProcessesAccounted'
  <2>1. ASSUME NEW n \in DOMAIN processes, processes[n].running
        PROVE  \/ processes[n].grant \in wasted'
               \/ (operating'[processes[n].agent] # None
                     /\ operating'[processes[n].agent].pid = n)
    <3>1. processes[n].agent \in Agents
      BY ProcessKnown
    <3>. QED  BY <1>2, <2>1, <3>1 DEF ProcessesAccounted
  <2>2. ASSUME NEW j \in DOMAIN grants, grants[j].consumed # None
        PROVE  \/ \E n \in DOMAIN processes : processes[n].grant = j
               \/ \E b \in Agents : In(b, "consumed")' /\ operating'[b].grant = j
               \/ j \in wasted'
    BY <1>2, <2>2 DEF ProcessesAccounted, In
  <2>3. ASSUME NEW n \in DOMAIN processes
        PROVE  /\ \A m \in DOMAIN processes : processes[m].grant = processes[n].grant => m = n
               /\ grants[processes[n].grant].profile.name = "restricted"
               /\ grants[processes[n].grant].consumed # None
               /\ grants[processes[n].grant].consumed < grants[processes[n].grant].expires
    BY DEF ProcessesAccounted
  <2>4. processes' = processes /\ grants' = grants
    OBVIOUS
  <2>. QED  BY <2>1, <2>2, <2>3, <2>4 DEF ProcessesAccounted
<1>. QED  BY <1>4, <1>5, <1>6, <1>7, <1>8, <1>9

LEMMA CallEnds ==
    ASSUME OperatorInv, ControlInv, NEW a \in Agents,
           ConsumeRefused(a) \/ Finish(a) \/ FinishTimedOut(a) \/ Interrupt(a)
    PROVE  OperatorInv'
<1>1. CASE ConsumeRefused(a)
  <2>1. /\ operating[a] # None /\ Leave(a) /\ operating[a].step = "checked"
        /\ calls' = [calls EXCEPT ![a] = None]
        /\ UNCHANGED <<grants, armed, armings, processes, wasted>>
    BY <1>1 DEF ConsumeRefused, In, controlTables
  <2>2. operating[a].pid = 0 /\ 0 \notin DOMAIN processes
    BY <2>1 DEF OperatorInv, PidsHeld, ProcessTypeOK
  <2>. QED  BY <2>1, <2>2, LeaveStep DEF In
<1>2. CASE Finish(a) \/ FinishTimedOut(a)
  <2>1. /\ operating[a] # None /\ Leave(a)
        /\ operating[a].step \in {"communicating", "terminating"}
        /\ ~processes[operating[a].pid].running
        /\ UNCHANGED <<controlVars, armed, armings, processes, wasted>>
    BY <1>2 DEF Finish, FinishTimedOut, Answer, Communicated, In
  <2>2. UNCHANGED <<grants, calls>>
    BY <2>1 DEF controlVars, controlTables
  <2>. QED  BY <2>1, <2>2, LeaveStep DEF In
<1>3. CASE Interrupt(a)
  <2>1. /\ operating[a] # None /\ Leave(a)
        /\ wasted' = IF In(a, "checked") THEN wasted ELSE wasted \cup {operating[a].grant}
        /\ calls' = [calls EXCEPT ![a] = None]
        /\ UNCHANGED <<grants, armed, armings, processes>>
    BY <1>3 DEF Interrupt, controlTables
  <2>2. ASSUME NEW n \in DOMAIN processes, operating[a].pid = n
        PROVE  ~In(a, "checked") /\ processes[n].grant = operating[a].grant
    <3>1. n # 0
      BY DEF OperatorInv, ProcessTypeOK
    <3>. QED  BY <2>1, <2>2, <3>1 DEF OperatorInv, PidsHeld, In
  <2>3. In(a, "consumed") => operating[a].grant \in wasted'
    BY <2>1 DEF In
  <2>. QED  BY <2>1, <2>2, <2>3, LeaveStep
<1>. QED  BY <1>1, <1>2, <1>3

\* A process is started for a consumed grant that no other process has.
LEMMA StartStep ==
    ASSUME OperatorInv, ControlInv, NEW a \in Agents, In(a, "consumed"),
           processes' = Append(processes, Process(a, operating[a].grant, operating[a].seen,
                                                  ArmedNow(operating[a].grant))),
           Hold(a, Operating("communicating", operating[a].grant, operating[a].seen,
                             Len(processes) + 1)),
           UNCHANGED <<grants, calls, armed, armings, wasted>>
    PROVE  OperatorInv'
<1>. USE DEF OperatorInv
<1>. DEFINE i == operating[a].grant
            k == Len(processes) + 1
            new == Operating("communicating", i, operating[a].seen, k)
            p == Process(a, i, operating[a].seen, ArmedNow(i))
<1>1. /\ operating \in [Agents -> OperatingRow \cup {None}]
      /\ processes \in Seq(ProcessRow)
  BY DEF ProcessTypeOK
<1>2. /\ operating[a] # None /\ operating[a].step = "consumed"
      /\ i \in Nat /\ operating[a].seen \in Nat /\ k \in Nat
  BY <1>1 DEF In, OperatingRow
<1>3. i \in DOMAIN grants /\ grants[i].profile.name = "restricted" /\ grants[i].consumed # None
  BY <1>2 DEF RestrictedHeld, ConsumedHeld, In
<1>4. EngagementOf(i) \in EngagementIds
  BY <1>3, EngagementKnown DEF ControlInv
<1>5. ArmedNow(i) \in Nat
  BY <1>4 DEF ArmedNow, ProcessTypeOK
<1>6. ArmedNow(i) # 0 => operating[a].seen < ArmedNow(i)
  BY <1>2 DEF ArmedNow, SwitchRead, In
<1>7. /\ new \in OperatingRow /\ new.step = "communicating" /\ new.grant = i /\ new.pid = k
  BY <1>2 DEF Operating, OperatingRow
<1>8. /\ p \in ProcessRow /\ p.agent = a /\ p.grant = i /\ p.seen = operating[a].seen
      /\ p.under = ArmedNow(i)
  BY <1>2, <1>5 DEF Process, ProcessRow
<1>9. new # None
  BY <1>7, NoneIsNoOperation
<1>10. operating' = [operating EXCEPT ![a] = new] /\ processes' = Append(processes, p)
  BY DEF Hold
<1>11. \A n \in DOMAIN processes : processes[n].grant # i
  BY <1>2 DEF ConsumedHeld, In
<1>12. \A b \in Agents : (In(b, "consumed") /\ operating[b].grant = i) => b = a
  BY <1>2 DEF ConsumedHeld, In
<1>. HIDE DEF i, k, new, p
<1>13. /\ operating' \in [Agents -> OperatingRow \cup {None}]
       /\ \A b \in Agents : operating'[b] = IF b = a THEN new ELSE operating[b]
  BY <1>1, <1>7, <1>10
<1>14. /\ processes' \in Seq(ProcessRow)
       /\ DOMAIN processes' = DOMAIN processes \cup {k}
       /\ \A n \in DOMAIN processes : processes'[n] = processes[n]
       /\ processes'[k] = p /\ k \notin DOMAIN processes
  BY <1>1, <1>8, <1>10, Appended DEF k
<1>15. ProcessTypeOK'
  BY <1>13, <1>14 DEF ProcessTypeOK
<1>16. RestrictedHeld'
  BY <1>3, <1>7, <1>8, <1>13, <1>14 DEF RestrictedHeld
<1>17. PidsHeld'
  BY <1>7, <1>8, <1>13, <1>14 DEF PidsHeld
<1>18. ConsumeHeld'
  BY <1>2, <1>13 DEF ConsumeHeld, At, In
<1>19. ConsumedHeld'
  BY <1>7, <1>8, <1>12, <1>13, <1>14 DEF ConsumedHeld, In
<1>20. SwitchRead'
  BY <1>7, <1>13 DEF SwitchRead, In, EngagementOf
<1>21. KillSwitchHonoured'
  BY <1>6, <1>8, <1>14 DEF KillSwitchHonoured
<1>22. ProcessesAccounted'
  <2>1. ASSUME NEW n \in DOMAIN processes', NEW m \in DOMAIN processes',
               processes'[m].grant = processes'[n].grant
        PROVE  m = n
    BY <1>8, <1>11, <1>14, <2>1 DEF ProcessesAccounted
  <2>2. ASSUME NEW n \in DOMAIN processes'
        PROVE  /\ grants[processes'[n].grant].profile.name = "restricted"
               /\ grants[processes'[n].grant].consumed # None
               /\ grants[processes'[n].grant].consumed < grants[processes'[n].grant].expires
    <3>1. grants[i].consumed < grants[i].expires
      BY <1>3 DEF ControlInv, ConsumedInTime
    <3>. QED  BY <1>3, <1>8, <1>14, <3>1 DEF ProcessesAccounted
  <2>3. ASSUME NEW n \in DOMAIN processes', processes'[n].running
        PROVE  \/ processes'[n].grant \in wasted
               \/ (operating'[processes'[n].agent] # None
                     /\ operating'[processes'[n].agent].pid = n)
    <3>1. CASE n = k
      BY <1>7, <1>8, <1>9, <1>13, <1>14, <3>1
    <3>2. CASE n # k
      <4>1. n \in DOMAIN processes /\ processes'[n] = processes[n]
        BY <1>14, <3>2
      <4>2. processes[n].agent \in Agents
        BY <4>1, ProcessKnown
      <4>3. \/ processes[n].grant \in wasted
            \/ (operating[processes[n].agent] # None /\ operating[processes[n].agent].pid = n)
        BY <2>3, <4>1 DEF ProcessesAccounted
      <4>4. operating[a].pid = 0 /\ n # 0
        BY <1>1, <1>2, <4>1 DEF PidsHeld
      <4>. QED  BY <1>13, <4>1, <4>2, <4>3, <4>4
    <3>. QED  BY <3>1, <3>2
  <2>4. ASSUME NEW j \in DOMAIN grants, grants[j].consumed # None
        PROVE  \/ \E n \in DOMAIN processes' : processes'[n].grant = j
               \/ \E b \in Agents : In(b, "consumed")' /\ operating'[b].grant = j
               \/ j \in wasted
    <3>1. CASE j = i
      BY <1>8, <1>14, <3>1
    <3>2. CASE j # i
      <4>1. \/ \E n \in DOMAIN processes : processes[n].grant = j
            \/ \E b \in Agents : In(b, "consumed") /\ operating[b].grant = j
            \/ j \in wasted
        BY <2>4 DEF ProcessesAccounted
      <4>2. ASSUME NEW b \in Agents, In(b, "consumed"), operating[b].grant = j
            PROVE  In(b, "consumed")' /\ operating'[b].grant = j
        BY <1>13, <3>2, <4>2 DEF In, i
      <4>. QED  BY <1>14, <4>1, <4>2
    <3>. QED  BY <3>1, <3>2
  <2>. QED  BY <2>1, <2>2, <2>3, <2>4 DEF ProcessesAccounted
<1>. QED
  BY <1>15, <1>16, <1>17, <1>18, <1>19, <1>20, <1>21, <1>22

\* Processes only start helpers and end, by themselves or by a signal.
ProcessesStay ==
    /\ processes' \in Seq(ProcessRow)
    /\ DOMAIN processes' = DOMAIN processes
    /\ \A n \in DOMAIN processes :
          /\ processes'[n].agent = processes[n].agent
          /\ processes'[n].grant = processes[n].grant
          /\ processes'[n].seen = processes[n].seen
          /\ processes'[n].under = processes[n].under
          /\ processes'[n].running => processes[n].running

LEMMA OneEnds ==
    ASSUME ProcessTypeOK, NEW pid \in DOMAIN processes, NEW leader \in BOOLEAN, NEW helper \in BOOLEAN,
           processes' = [processes EXCEPT ![pid] = Ended(processes[pid], leader, helper)]
    PROVE  ProcessesStay
<1>. DEFINE q == Ended(processes[pid], leader, helper)
<1>1. processes \in Seq(ProcessRow) /\ processes[pid] \in ProcessRow
  BY ProcessKnown DEF ProcessTypeOK
<1>2. /\ q \in ProcessRow /\ q.agent = processes[pid].agent /\ q.grant = processes[pid].grant
      /\ q.seen = processes[pid].seen /\ q.under = processes[pid].under
      /\ q.running => processes[pid].running
  BY <1>1 DEF Ended, ProcessRow
<1>3. processes' = [processes EXCEPT ![pid] = q]
  OBVIOUS
<1>. HIDE DEF q
<1>4. processes' \in Seq(ProcessRow) /\ DOMAIN processes' = DOMAIN processes
  BY <1>1, <1>2, <1>3
<1>5. \A n \in DOMAIN processes : processes'[n] = IF n = pid THEN q ELSE processes[n]
  BY <1>1, <1>3
<1>. QED  BY <1>2, <1>4, <1>5 DEF ProcessesStay

LEMMA ProcessesMove ==
    ASSUME OperatorInv, ControlInv, ProcessesStay,
           UNCHANGED <<grants, calls, armed, armings, wasted>>,
           UNCHANGED operating \/
              \E a \in Agents : In(a, "communicating") /\ Continue(a, "terminating")
    PROVE  OperatorInv'
<1>. USE DEF OperatorInv
<1>1. /\ operating' \in [Agents -> OperatingRow \cup {None}]
      /\ \A a \in Agents :
            \/ operating'[a] = operating[a]
            \/ /\ operating[a] # None /\ operating[a].step = "communicating"
               /\ operating'[a] # None /\ operating'[a].step = "terminating"
               /\ operating'[a].grant = operating[a].grant
               /\ operating'[a].pid = operating[a].pid
  <2>1. CASE UNCHANGED operating
    BY <2>1 DEF ProcessTypeOK
  <2>2. ASSUME NEW b \in Agents, In(b, "communicating"), Continue(b, "terminating"),
               NEW a \in Agents
        PROVE  /\ operating' \in [Agents -> OperatingRow \cup {None}]
               /\ \/ operating'[a] = operating[a]
                  \/ /\ operating[a] # None /\ operating[a].step = "communicating"
                     /\ operating'[a] # None /\ operating'[a].step = "terminating"
                     /\ operating'[a].grant = operating[a].grant
                     /\ operating'[a].pid = operating[a].pid
    BY <2>2, Continued DEF In
  <2>. QED  BY <2>1, <2>2
<1>2. ProcessTypeOK'
  BY <1>1 DEF ProcessTypeOK, ProcessesStay
<1>3. RestrictedHeld'
  BY <1>1 DEF RestrictedHeld, ProcessesStay
<1>4. PidsHeld'
  BY <1>1 DEF PidsHeld, ProcessesStay
<1>5. ConsumeHeld'
  BY <1>1 DEF ConsumeHeld, At, In
<1>6. ConsumedHeld'
  BY <1>1 DEF ConsumedHeld, In, ProcessesStay
<1>7. SwitchRead'
  BY <1>1 DEF SwitchRead, In, EngagementOf
<1>8. KillSwitchHonoured'
  BY DEF KillSwitchHonoured, ProcessesStay
<1>9. ProcessesAccounted'
  <2>1. ASSUME NEW n \in DOMAIN processes
        PROVE  /\ \A m \in DOMAIN processes : processes'[m].grant = processes'[n].grant => m = n
               /\ grants[processes'[n].grant].profile.name = "restricted"
               /\ grants[processes'[n].grant].consumed # None
               /\ grants[processes'[n].grant].consumed < grants[processes'[n].grant].expires
    BY DEF ProcessesAccounted, ProcessesStay
  <2>2. ASSUME NEW n \in DOMAIN processes, processes'[n].running
        PROVE  \/ processes'[n].grant \in wasted
               \/ (operating'[processes'[n].agent] # None
                     /\ operating'[processes'[n].agent].pid = n)
    <3>1. processes[n].agent \in Agents
      BY ProcessKnown
    <3>. QED  BY <1>1, <2>2, <3>1 DEF ProcessesAccounted, ProcessesStay
  <2>3. ASSUME NEW j \in DOMAIN grants, grants[j].consumed # None
        PROVE  \/ \E n \in DOMAIN processes : processes'[n].grant = j
               \/ \E b \in Agents : In(b, "consumed")' /\ operating'[b].grant = j
               \/ j \in wasted
    BY <1>1, <2>3 DEF ProcessesAccounted, ProcessesStay, In
  <2>4. DOMAIN processes' = DOMAIN processes /\ grants' = grants /\ wasted' = wasted
    BY DEF ProcessesStay
  <2>. QED  BY <2>1, <2>2, <2>3, <2>4 DEF ProcessesAccounted
<1>. QED  BY <1>2, <1>3, <1>4, <1>5, <1>6, <1>7, <1>8, <1>9

LEMMA ProcessesStep ==
    ASSUME OperatorInv, ControlInv,
           \/ \E a \in Agents : TimeOut(a) \/ KillGroup(a)
           \/ \E pid \in DOMAIN processes : Spawn(pid) \/ Exit(pid)
    PROVE  OperatorInv'
<1>0. ProcessTypeOK
  BY DEF OperatorInv
<1>1. ASSUME NEW a \in Agents, TimeOut(a) PROVE OperatorInv'
  <2>1. /\ In(a, "communicating") /\ Continue(a, "terminating")
        /\ UNCHANGED <<controlVars, armed, armings, wasted>>
    BY <1>1 DEF TimeOut
  <2>2. operating[a].pid \in DOMAIN processes
    BY <2>1 DEF OperatorInv, PidsHeld, In
  <2>3. PICK p \in Terminated(processes[operating[a].pid]) :
           processes' = [processes EXCEPT ![operating[a].pid] = p]
    BY <1>1 DEF TimeOut
  <2>4. ProcessesStay
    <3>1. PICK leader \in BOOLEAN, helper \in BOOLEAN :
             p = Ended(processes[operating[a].pid], leader, helper)
      BY <2>3 DEF Terminated
    <3>2. processes' = [processes EXCEPT ![operating[a].pid] =
                           Ended(processes[operating[a].pid], leader, helper)]
      BY <2>3, <3>1
    <3>. QED  BY <1>0, <2>2, <3>2, OneEnds
  <2>5. UNCHANGED <<grants, calls>>
    BY <2>1 DEF controlVars, controlTables
  <2>. QED  BY <2>1, <2>4, <2>5, ProcessesMove
<1>2. ASSUME NEW a \in Agents, KillGroup(a) PROVE OperatorInv'
  <2>1. /\ In(a, "terminating")
        /\ processes' = [processes EXCEPT ![operating[a].pid] =
                            Ended(processes[operating[a].pid], TRUE, TRUE)]
        /\ UNCHANGED <<controlVars, armed, armings, operating, wasted>>
    BY <1>2 DEF KillGroup, Killed
  <2>2. operating[a].pid \in DOMAIN processes
    BY <2>1 DEF OperatorInv, PidsHeld, In
  <2>3. ProcessesStay
    BY <1>0, <2>1, <2>2, OneEnds
  <2>4. UNCHANGED <<grants, calls>>
    BY <2>1 DEF controlVars, controlTables
  <2>. QED  BY <2>1, <2>3, <2>4, ProcessesMove
<1>3. ASSUME NEW pid \in DOMAIN processes, Spawn(pid) PROVE OperatorInv'
  <2>1. /\ processes' = [processes EXCEPT ![pid].helper = TRUE]
        /\ UNCHANGED <<controlVars, armed, armings, operating, wasted>>
    BY <1>3 DEF Spawn
  <2>. DEFINE q == [processes[pid] EXCEPT !.helper = TRUE]
  <2>2. processes[pid] \in ProcessRow /\ processes \in Seq(ProcessRow)
    BY <1>0, ProcessKnown DEF ProcessTypeOK
  <2>3. /\ q \in ProcessRow /\ q.agent = processes[pid].agent /\ q.grant = processes[pid].grant
        /\ q.seen = processes[pid].seen /\ q.under = processes[pid].under
        /\ q.running = processes[pid].running
    BY <2>2 DEF ProcessRow
  <2>4. processes' = [processes EXCEPT ![pid] = q]
    BY <2>1
  <2>. HIDE DEF q
  <2>5. /\ processes' \in Seq(ProcessRow) /\ DOMAIN processes' = DOMAIN processes
        /\ \A n \in DOMAIN processes : processes'[n] = IF n = pid THEN q ELSE processes[n]
    BY <2>2, <2>3, <2>4
  <2>6. ProcessesStay
    BY <2>3, <2>5 DEF ProcessesStay
  <2>7. UNCHANGED <<grants, calls>>
    BY <2>1 DEF controlVars, controlTables
  <2>. QED  BY <2>1, <2>6, <2>7, ProcessesMove
<1>4. ASSUME NEW pid \in DOMAIN processes, Exit(pid) PROVE OperatorInv'
  <2>1. PICK leader \in BOOLEAN, helper \in BOOLEAN :
           processes' = [processes EXCEPT ![pid] = Ended(processes[pid], leader, helper)]
    BY <1>4 DEF Exit
  <2>2. UNCHANGED <<controlVars, armed, armings, operating, wasted>>
    BY <1>4 DEF Exit
  <2>3. ProcessesStay
    BY <1>0, <2>1, OneEnds
  <2>4. UNCHANGED <<grants, calls>>
    BY <2>2 DEF controlVars, controlTables
  <2>. QED  BY <2>2, <2>3, <2>4, ProcessesMove
<1>. QED  BY <1>1, <1>2, <1>3, <1>4

LEMMA StartProcessStep ==
    ASSUME OperatorInv, ControlInv, NEW a \in Agents, StartProcess(a)
    PROVE  OperatorInv'
<1>1. /\ In(a, "consumed") /\ operating[a] # None
      /\ UNCHANGED <<grants, calls, armed, armings>>
  BY DEF StartProcess, In, controlVars, controlTables
<1>2. CASE wasted' = wasted /\ processes' = Append(processes,
                Process(a, operating[a].grant, operating[a].seen, ArmedNow(operating[a].grant)))
             /\ Hold(a, Operating("communicating", operating[a].grant, operating[a].seen,
                                  Len(processes) + 1))
  BY <1>1, <1>2, StartStep
<1>3. CASE wasted' = wasted \cup {operating[a].grant} /\ Leave(a) /\ UNCHANGED processes
  <2>1. ~In(a, "checked")
    BY <1>1 DEF In
  <2>2. operating[a].pid = 0 /\ 0 \notin DOMAIN processes
    BY <1>1 DEF OperatorInv, PidsHeld, ProcessTypeOK, In
  <2>. QED  BY <1>1, <1>3, <2>1, <2>2, LeaveStep
<1>. QED  BY <1>2, <1>3 DEF StartProcess

LEMMA OperatorInvInit ==
    ASSUME ProcessInit PROVE ControlInv /\ OperatorInv
<1>1. ControlInv
  BY ControlInvInit DEF ProcessInit
<1>2. /\ operating = [a \in Agents |-> None] /\ calls = [a \in Agents |-> None]
      /\ processes = <<>> /\ grants = <<>> /\ armings = [e \in EngagementIds |-> 0]
  BY DEF ProcessInit, ControlInit
<1>3. ProcessTypeOK
  BY <1>2 DEF ProcessTypeOK
<1>4. RestrictedHeld /\ PidsHeld /\ ConsumeHeld /\ ConsumedHeld /\ SwitchRead
  BY <1>2 DEF RestrictedHeld, PidsHeld, ConsumeHeld, ConsumedHeld, SwitchRead, In, At
<1>5. KillSwitchHonoured /\ ProcessesAccounted
  BY <1>2 DEF KillSwitchHonoured, ProcessesAccounted
<1>. QED  BY <1>1, <1>3, <1>4, <1>5 DEF OperatorInv

LEMMA OperatorInvStep ==
    ASSUME ControlInv, OperatorInv, [ProcessNext]_processVars
    PROVE  ControlInv' /\ OperatorInv'
<1>1. ControlInv'
  BY ProcessStep, ControlInvStep DEF ControlInv, OperatorInv
<1>2. CASE UNCHANGED processVars
  <2>1. UNCHANGED <<grants, calls, armed, armings, operating, processes, wasted>>
    BY <1>2 DEF processVars, operatorVars, controlVars, controlTables
  <2>2. GrantsGrow /\ ConsumeHeld'
    BY <2>1 DEF OperatorInv, GrantsGrow, ConsumeHeld, At, In
  <2>3. /\ armings' \in [EngagementIds -> Nat]
        /\ \A e \in EngagementIds : armings[e] <= armings'[e]
    BY <2>1 DEF OperatorInv, ProcessTypeOK
  <2>. QED  BY <1>1, <2>1, <2>2, <2>3, SwitchesStep
<1>3. CASE AuthorizeNext /\ UNCHANGED operatorVars
  BY <1>1, <1>3, AuthorizeStep
<1>4. ASSUME NEW e \in EngagementIds, Arm(e) \/ Clear(e) PROVE OperatorInv'
  BY <1>4, SwitchStep
<1>5. ASSUME NEW a \in Agents, NEW i \in DOMAIN grants, NEW c \in Commands, Execute(a, i, c)
      PROVE  OperatorInv'
  BY <1>5, ExecuteEnters
<1>6. ASSUME NEW a \in Agents, ExecuteStep(a) \/ Interrupt(a) PROVE OperatorInv'
  BY <1>6, EnterStep, ConsumeStep, CallEnds, StartProcessStep, ProcessesStep DEF ExecuteStep
<1>7. ASSUME NEW pid \in DOMAIN processes, Spawn(pid) \/ Exit(pid) PROVE OperatorInv'
  BY <1>7, ProcessesStep
<1>8. CASE \E e \in EngagementIds : Arm(e) \/ Clear(e)
  BY <1>1, <1>4, <1>8
<1>9. CASE \E a \in Agents :
              \/ \E i \in DOMAIN grants, c \in Commands : Execute(a, i, c)
              \/ ExecuteStep(a)
              \/ Interrupt(a)
  BY <1>1, <1>5, <1>6, <1>9
<1>10. CASE \E pid \in DOMAIN processes : Spawn(pid) \/ Exit(pid)
  BY <1>1, <1>7, <1>10
<1>. QED  BY <1>2, <1>3, <1>8, <1>9, <1>10 DEF ProcessNext

--------------------------------------------------------------------------------
\* In every reachable state the tables of the engine and the calls of the operator agree.
THEOREM OperatorInvariant == ProcessSpec => [](ControlInv /\ OperatorInv)
BY OperatorInvInit, OperatorInvStep, PTL DEF ProcessSpec

\* The operator implements the single-file engine's specification: it consumes grants
\* only as consume_grant does and changes nothing else of the engine, so whatever is
\* proved of the engine holds while processes are executed.
THEOREM ProcessOperatorImplementsControl == ProcessSpec => ControlSpec
<1>1. ProcessInit => ControlInit
  BY DEF ProcessInit
<1>2. (ControlInv /\ OperatorInv /\ [ProcessNext]_processVars) => [ControlNext]_controlVars
  BY ProcessStep DEF ControlInv, OperatorInv
<1>. QED  BY <1>1, <1>2, OperatorInvariant, PTL DEF ProcessSpec, ControlSpec

\* While processes are started, killed, cancelled and outlived by their helpers, the registry
\* and the engine keep all their promises.
THEOREM ProcessesKeepControl ==
    ProcessSpec => /\ []RevisionsGapFree
                   /\ []AssetsFollowEngagement
                   /\ []GrantWithinRevisions
                   /\ []ApprovalsExplained
                   /\ []RootBudgetAccounts
                   /\ []R4RateLimited
                   /\ []AuditTellsGrants
BY ProcessOperatorImplementsControl, RevisionsAlwaysGapFree, AssetsAlwaysFollowEngagement,
   GrantsStayWithinRevisions, ApprovalsAlwaysExplained, RootBudgetAlwaysAccounts,
   R4AlwaysRateLimited, AuditAlwaysTellsGrants, PTL

\* "engagement kill switch is armed" (operator.py:118): however long a call dawdles
\* between reading the switch and starting its process, no process that starts under an
\* arming belongs to a call that read the switch after it.
THEOREM KillSwitchAlwaysHonoured == ProcessSpec => []KillSwitchHonoured
<1>1. OperatorInv => KillSwitchHonoured
  BY DEF OperatorInv
<1>. QED  BY <1>1, OperatorInvariant, PTL

\* One process for a grant and none without: a consumed grant has one process, or a call
\* about to start it, or one that raised or was interrupted; a running leader is waited
\* for or its call was interrupted.
THEOREM ProcessesAlwaysAccounted == ProcessSpec => []ProcessesAccounted
<1>1. OperatorInv => ProcessesAccounted
  BY DEF OperatorInv
<1>. QED  BY <1>1, OperatorInvariant, PTL
================================================================================
