----------------------------- MODULE KyvoraAgents -----------------------------
(***************************************************************************)
(* The Kyvora agents (src/vs/workbench/contrib/kyvoraAgents): the          *)
(* Orchestrator, the AgentWorkers it starts and the MessageBus between     *)
(* them.                                                                   *)
(*                                                                         *)
(* A plan is a sequence of subtasks, each for one agent and after others.  *)
(* The orchestrator assigns those that are ready, a worker answers when    *)
(* its model and its tools are done, and the answer makes further subtasks *)
(* ready.  The bus hands a message to whoever has registered and keeps it  *)
(* for whoever has not.                                                    *)
(*                                                                         *)
(* Left out: what a model answers, the memory and the tools, broadcasts    *)
(* (only FILE_MODIFIED, which no agent listens to), the log of messages.   *)
(***************************************************************************)
EXTENDS Naturals, Sequences, FiniteSets, SequencesExt

CONSTANTS
    MaxConcurrentAgents,    \* budget.maxConcurrentAgents
    MaxPlans,               \* bound on the plans created
    MaxWaiting              \* bound on what waits for the orchestrator when a tool asks

VARIABLES
  \* the orchestrator
    plans,              \* how many plans were created: the current one's number
    plan,               \* currentPlan.subtasks
    requiredAgents,     \* currentPlan.requiredAgents: those of its subtasks when created
    activeAgents,       \* budget.activeAgents
  \* the bus
    activeRecipients,   \* the agents registered
    messageQueue,       \* messageQueue[a]: what waits for a to register
  \* the workers
    processing          \* the assignments being processed

vars == <<plans, plan, requiredAgents, activeAgents, activeRecipients, messageQueue,
          processing>>

Decomposition ==
    [login   |-> <<"searcher", "architect", "coder", "tester">>,
     generic |-> <<"searcher", "coder">>]

Worker == {"searcher", "architect", "coder", "tester", "debugger"}
Recipient == Worker \cup {"orchestrator"}

\* Each subtask depends on the one before it.
Dependencies(i) == {i - 1} \ {0}

-----------------------------------------------------------------------------
(* A handler runs to its end: what it makes of a state s, a record of the   *)
(* variables it may change.                                                 *)

Now == [plan |-> plan, activeAgents |-> activeAgents, messageQueue |-> messageQueue,
        activeRecipients |-> activeRecipients, processing |-> processing]

Becomes(s) ==
    /\ plan' = s.plan
    /\ activeAgents' = s.activeAgents
    /\ messageQueue' = s.messageQueue
    /\ activeRecipients' = s.activeRecipients
    /\ processing' = s.processing

\* queueMessage, for a message that waits or that its recipient only shows.
Post(s, to, m) ==
    IF to \in s.activeRecipients THEN s
    ELSE [s EXCEPT !.messageQueue[to] = Append(@, m)]

UpdateStatus(s, agent) == Post(s, "orchestrator", [type |-> "STATUS_UPDATE", from |-> agent])

\* processIncomingTask, up to its first await.
ProcessIncomingTask(s, m) ==
    UpdateStatus([s EXCEPT !.processing = @ \cup {m}], m.agent)

\* runSubtask: a worker that has registered begins at once.
RunSubtask(s, i) ==
    LET agent   == s.plan[i].agent
        m       == [type |-> "TASK_ASSIGN", plan |-> plans, subtask |-> i, agent |-> agent]
        running == [s EXCEPT !.plan[i].status = "running",
                             !.activeAgents = Append(@, agent)]
    IN  IF agent \in s.activeRecipients THEN ProcessIncomingTask(running, m)
                                        ELSE Post(running, agent, m)

Ready(s, i) ==
    /\ s.plan[i].status = "pending"
    /\ \A d \in Dependencies(i) : s.plan[d].status = "completed"
    /\ Len(s.activeAgents) < MaxConcurrentAgents

DispatchReadyTasks(s) ==
    FoldLeft(LAMBDA r, i : IF Ready(r, i) THEN RunSubtask(r, i) ELSE r,
             s, [i \in 1 .. Len(s.plan) |-> i])

\* The first subtask that is running at an agent, if any: an answer is matched by
\* its sender, since its correlationId is never a subtask's id.
RunningAt(s, agent) ==
    LET running == {i \in 1 .. Len(s.plan) : s.plan[i] = [agent |-> agent, status |-> "running"]}
    IN  {i \in running : \A j \in running : i <= j}

\* The subtask of an agent gets a status, and the agent is active no longer.
Settled(s, i, agent, status) ==
    [s EXCEPT !.plan[i].status = status,
              !.activeAgents = SelectSeq(@, LAMBDA a : a # agent)]

\* handleTaskSuccess, handleTaskFailure: a coder that failed is followed by the
\* debugger.  Nobody sends TASK_BLOCKED.
HandleIncomingMessage(s, m) ==
    LET Handled(i) ==
          CASE m.type = "TASK_COMPLETE" ->
                 DispatchReadyTasks(Settled(s, i, m.from, "completed"))
            [] m.type = "TASK_FAILED" /\ m.from = "coder" ->
                 DispatchReadyTasks([Settled(s, i, m.from, "pending")
                                       EXCEPT !.plan[i].agent = "debugger"])
            [] m.type = "TASK_FAILED" /\ m.from # "coder" ->
                 Settled(s, i, m.from, "failed")
            [] OTHER -> s
        subtask == RunningAt(s, m.from)
    IN  IF subtask = {} THEN s ELSE Handled(CHOOSE i \in subtask : TRUE)

\* send, for a message to the orchestrator.
Reply(s, m) ==
    IF "orchestrator" \in s.activeRecipients THEN HandleIncomingMessage(s, m)
    ELSE Post(s, "orchestrator", m)

\* start: an agent registers, and what waited for it is fired before the worker
\* listens; then it listens.
StartWorkers(s, agents) ==
    [s EXCEPT !.activeRecipients = @ \cup agents,
              !.messageQueue = [a \in Recipient |-> IF a \in agents THEN <<>> ELSE @[a]]]

\* Who has no worker yet gets one; the debugger that takes over from a coder is
\* none of the agents the plan was created for.
InitializeAgentWorkers(s) == StartWorkers(s, requiredAgents \ s.activeRecipients)

-----------------------------------------------------------------------------
Init ==
    /\ plans = 0
    /\ plan = <<>>
    /\ requiredAgents = {}
    /\ activeAgents = <<>>
    /\ activeRecipients = {}
    /\ messageQueue = [a \in Recipient |-> <<>>]
    /\ processing = {}

\* createPlan
CreatePlan(kind) ==
    /\ plans < MaxPlans
    /\ plans' = plans + 1
    /\ plan' = [i \in DOMAIN Decomposition[kind] |->
                  [agent |-> Decomposition[kind][i], status |-> "pending"]]
    /\ requiredAgents' = ToSet(Decomposition[kind])
    /\ UNCHANGED <<activeAgents, activeRecipients, messageQueue, processing>>

\* executePlan
ExecutePlan ==
    /\ plans > 0
    /\ Becomes(DispatchReadyTasks(InitializeAgentWorkers(Now)))
    /\ UNCHANGED <<plans, requiredAgents>>

\* A tool of the worker asks the user something.
RequestHumanInput(m) ==
    /\ Len(messageQueue["orchestrator"]) < MaxWaiting
    /\ Becomes(Post(Now, "orchestrator", [type |-> "HUMAN_INPUT_NEEDED", from |-> m.agent]))
    /\ UNCHANGED <<plans, requiredAgents>>

\* The rest of processIncomingTask: the answer, then the status.
Finish(m) ==
    LET done     == [Now EXCEPT !.processing = @ \ {m}]
        succeeds == IF m.agent = "tester" THEN "TEST_RESULT" ELSE "TASK_COMPLETE"
    IN
    /\ \E type \in {succeeds, "TASK_FAILED"} :
          Becomes(UpdateStatus(Reply(done, [type |-> type, from |-> m.agent]), m.agent))
    /\ UNCHANGED <<plans, requiredAgents>>

Next ==
    \/ \E kind \in DOMAIN Decomposition : CreatePlan(kind)
    \/ ExecutePlan
    \/ \E m \in processing : RequestHumanInput(m) \/ Finish(m)

Spec == Init /\ [][Next]_vars

\* A model answers or the request to it fails, and tools end.
Fairness == WF_vars(\E m \in processing : Finish(m))

LiveSpec == Spec /\ Fairness

-----------------------------------------------------------------------------
(* Properties.                                                              *)

Running(p, i) == plans = p /\ i \in DOMAIN plan /\ plan[i].status = "running"

\* The orchestrator takes TASK_COMPLETE and TASK_FAILED as its input
\* (agentRegistry.ts), and a subtask's dependencies "must complete before this
\* starts" (orchestrator.ts): what is running in the current plan is in the end
\* settled, so that what depends on it can start.
SubtasksSettle ==
    \A p \in 1 .. MaxPlans, i \in 1 .. 4 : Running(p, i) ~> ~Running(p, i)
=============================================================================
