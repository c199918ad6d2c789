---------------------------- MODULE NodeCommands ----------------------------
(***************************************************************************)
(* The commands the central gives to a node: created by an operator,       *)
(* handed out when the node polls (django/central/views.py), executed by   *)
(* the agent of the node one after the other and answered with their       *)
(* result (django/central_node).  The agent waits 10 s for an answer; a    *)
(* poll it has given up goes on in the central, and a result that does not *)
(* get through is not sent again.                                          *)
(*                                                                         *)
(* The names are not those of NodeStatus, so that one module can speak of  *)
(* both.                                                                   *)
(***************************************************************************)
EXTENDS Integers, Sequences, FiniteSets

CONSTANTS
  MaxCommands,  \* bound on the commands created
  PollLimit,    \* the commands one poll hands out (5)
  PollRequest,  \* the polls that can be in flight together
  MaxLosses,    \* bound on what is lost on the way
  NoRequest

ASSUME MaxCommandsAssumption == MaxCommands \in Nat \ {0}
ASSUME PollLimitAssumption == PollLimit \in Nat \ {0}
ASSUME LossesAssumption == MaxLosses \in Nat
ASSUME NoRequestAssumption == NoRequest \notin PollRequest

VARIABLES
  cmd,     \* the table of NodeCommand, and what the node has done of each
  poll,    \* the polls the central is working on
  agent,   \* where the agent stands, and what it has been handed
  posts,   \* results on their way to the central
  losses

commandVars == <<cmd, poll, agent, posts, losses>>

Command == 1..MaxCommands   \* in the order of created_at

\* What became of its execution: "unsent" if the executor returned and the
\* sending of its result raised.
Outcome == {"none", "done", "refused", "raised", "unsent"}

Free == [pc |-> "free", todo |-> {}, given |-> <<>>]

CommandsTypeOK ==
  /\ cmd \in [Command -> [status : {"none", "pending", "sent", "ok", "error"},
                          runs : 0..2, outcome : Outcome]]
  /\ poll \in [PollRequest -> [pc : {"free", "asked", "mark"}, todo : SUBSET Command,
                               given : Seq(Command)]]
  /\ agent \in [pc : {"loop", "wait", "run", "report"}, on : PollRequest \cup {NoRequest},
                queue : Seq(Command)]
  /\ posts \subseteq [id : Command, success : BOOLEAN]
  /\ losses \in 0..MaxLosses

CommandsInit ==
  /\ cmd = [c \in Command |-> [status |-> "none", runs |-> 0, outcome |-> "none"]]
  /\ poll = [r \in PollRequest |-> Free]
  /\ agent = [pc |-> "loop", on |-> NoRequest, queue |-> <<>>]
  /\ posts = {}
  /\ losses = 0

Lose == losses < MaxLosses /\ losses' = losses + 1
Pending == {c \in Command : cmd[c].status = "pending"}

----------------------------------------------------------------------------
(* The central *)

\* command_create: the next row, in one of the four kinds the form accepts.
CreateCommand(c) ==
  /\ cmd[c].status = "none"
  /\ \A d \in 1..c - 1 : cmd[d].status # "none"
  /\ cmd' = [cmd EXCEPT ![c].status = "pending"]
  /\ UNCHANGED <<poll, agent, posts, losses>>

\* Slips: newest first, as Meta.ordering has it; the limit before the filter.
OldestSlipNewest ==
  {c \in Pending : Cardinality({d \in Pending : d > c}) < PollLimit}
OldestSlipAll == Pending \cap 1..PollLimit

\* filter(status="pending").order_by("created_at")[:5], a list in that order.
Oldest == {c \in Pending : Cardinality({d \in Pending : d < c}) < PollLimit}
First(S) == CHOOSE c \in S : \A d \in S : c <= d

\* command_poll reads the list once ...
List(r) ==
  /\ poll[r].pc = "asked"
  /\ poll' = [poll EXCEPT ![r] = [pc |-> "mark", todo |-> Oldest, given |-> <<>>]]
  /\ UNCHANGED <<cmd, agent, posts, losses>>

\* Slips: the command is not saved; its status is misspelt.
MarkSlip(r) ==
  /\ poll[r].pc = "mark" /\ poll[r].todo # {}
  /\ poll' = [poll EXCEPT ![r].todo = @ \ {First(@)}, ![r].given = Append(@, First(poll[r].todo))]
  /\ UNCHANGED <<cmd, agent, posts, losses>>
MarkSlipMisspelt(r) ==
  /\ poll[r].pc = "mark" /\ poll[r].todo # {}
  /\ cmd' = [cmd EXCEPT ![First(poll[r].todo)].status = "send"]
  /\ poll' = [poll EXCEPT ![r].todo = @ \ {First(@)}, ![r].given = Append(@, First(poll[r].todo))]
  /\ UNCHANGED <<agent, posts, losses>>

\* ... and saves each command of it as sent, whatever it has become meanwhile.
Mark(r) ==
  /\ poll[r].pc = "mark" /\ poll[r].todo # {}
  /\ cmd' = [cmd EXCEPT ![First(poll[r].todo)].status = "sent"]
  /\ poll' = [poll EXCEPT ![r].todo = @ \ {First(@)}, ![r].given = Append(@, First(poll[r].todo))]
  /\ UNCHANGED <<agent, posts, losses>>

\* The answer, which only an agent that still waits for it takes.
Answer(r) ==
  /\ poll[r].pc = "mark" /\ poll[r].todo = {}
  /\ poll' = [poll EXCEPT ![r] = Free]
  /\ agent' = IF agent.on = r
              THEN [pc |-> IF poll[r].given = <<>> THEN "loop" ELSE "run",
                    on |-> NoRequest, queue |-> poll[r].given]
              ELSE agent
  /\ UNCHANGED <<cmd, posts, losses>>

\* Unknown or inactive node, or a signature that does not verify: an empty list.
RefusePoll(r) ==
  /\ poll[r].pc = "asked"
  /\ poll' = [poll EXCEPT ![r] = Free]
  /\ agent' = IF agent.on = r THEN [agent EXCEPT !.pc = "loop", !.on = NoRequest]
                              ELSE agent
  /\ UNCHANGED <<cmd, posts, losses>>

\* command_result saves status, result and executed_at of the command named.
SaveResult(p) ==
  /\ cmd' = [cmd EXCEPT ![p.id].status = IF p.success THEN "ok" ELSE "error"]
  /\ posts' = posts \ {p}
  /\ UNCHANGED <<poll, agent, losses>>

----------------------------------------------------------------------------
(* The node *)

\* One turn of the agent's loop asks for commands.
Poll(r) ==
  /\ agent.pc = "loop" /\ poll[r].pc = "free"
  /\ poll' = [poll EXCEPT ![r] = [Free EXCEPT !.pc = "asked"]]
  /\ agent' = [agent EXCEPT !.pc = "wait", !.on = r]
  /\ UNCHANGED <<cmd, posts, losses>>

\* execute_command: the executor returns, returns that it refused, or raises.
Execute ==
  /\ agent.pc = "run"
  /\ \E outcome \in {"done", "refused", "raised"} :
       cmd' = [cmd EXCEPT ![Head(agent.queue)] =
                 [status |-> @.status, runs |-> @.runs + 1, outcome |-> outcome]]
  /\ agent' = [agent EXCEPT !.pc = "report"]
  /\ UNCHANGED <<poll, posts, losses>>

\* Slip: an executor that raises is reported as one that returned.
ReportSlip ==
  /\ agent.pc = "report"
  /\ posts' = posts \cup {[id |-> Head(agent.queue), success |-> TRUE]}
  /\ agent' = [agent EXCEPT !.pc = IF Len(agent.queue) = 1 THEN "loop" ELSE "run",
                            !.queue = Tail(@)]
  /\ UNCHANGED <<cmd, poll, losses>>

\* Any executor that returns is a success, the one that refused too.
Report ==
  /\ agent.pc = "report"
  /\ LET c == Head(agent.queue) IN
     posts' = posts \cup {[id |-> c, success |-> cmd[c].outcome # "raised"]}
  /\ agent' = [agent EXCEPT !.pc = IF Len(agent.queue) = 1 THEN "loop" ELSE "run",
                            !.queue = Tail(@)]
  /\ UNCHANGED <<cmd, poll, losses>>

\* send_command_result stands in the executor's try: what it raises, before the
\* result is on its way or after, is reported as the failure of the command.
ReportFails ==
  /\ agent.pc = "report" /\ cmd[Head(agent.queue)].outcome # "raised" /\ Lose
  /\ LET c == Head(agent.queue) IN
     /\ cmd' = [cmd EXCEPT ![c].outcome = "unsent"]
     /\ \E successes \in {{FALSE}, BOOLEAN} :
          posts' = posts \cup {[id |-> c, success |-> s] : s \in successes}
  /\ agent' = [agent EXCEPT !.pc = IF Len(agent.queue) = 1 THEN "loop" ELSE "run",
                            !.queue = Tail(@)]
  /\ UNCHANGED poll

\* 10 s without an answer: poll_commands returns an empty list.
GiveUp ==
  /\ agent.pc = "wait"
  /\ Lose
  /\ agent' = [agent EXCEPT !.pc = "loop", !.on = NoRequest]
  /\ UNCHANGED <<cmd, poll, posts>>

\* send_command_result logs the failure and does not try again.
LoseResult(p) ==
  /\ Lose
  /\ posts' = posts \ {p}
  /\ UNCHANGED <<cmd, poll, agent>>

\* The agent or the node is restarted, or a report of failure raises too, and
\* the rest of the commands are dropped; a worker of the central is killed.
RestartAgent ==
  /\ agent.pc \in {"wait", "run", "report"}
  /\ Lose
  /\ agent' = [pc |-> "loop", on |-> NoRequest, queue |-> <<>>]
  /\ UNCHANGED <<cmd, poll, posts>>

KillPoll(r) ==
  /\ poll[r].pc = "mark"
  /\ Lose
  /\ poll' = [poll EXCEPT ![r] = Free]
  /\ agent' = IF agent.on = r THEN [agent EXCEPT !.pc = "loop", !.on = NoRequest]
                              ELSE agent
  /\ UNCHANGED <<cmd, posts>>

----------------------------------------------------------------------------

CommandsNext ==
  \/ \E c \in Command : CreateCommand(c)
  \/ \E r \in PollRequest : \/ Poll(r) \/ RefusePoll(r) \/ List(r)
                           \/ Mark(r) \/ Answer(r) \/ KillPoll(r)
  \/ Execute \/ Report \/ ReportFails \/ GiveUp \/ RestartAgent
  \/ \E p \in posts : SaveResult(p) \/ LoseResult(p)

CommandsSpec == CommandsInit /\ [][CommandsNext]_commandVars

\* The agent keeps polling and works off what it was handed, the central
\* finishes what it began, and requests are accepted again and again.
CommandsFairness ==
  /\ WF_commandVars(\E r \in PollRequest : Poll(r))
  /\ WF_commandVars(Execute) /\ WF_commandVars(Report)
  /\ \A r \in PollRequest : WF_commandVars(Mark(r)) /\ WF_commandVars(Answer(r))
  /\ SF_commandVars(\E r \in PollRequest : List(r))

CommandsFairSpec == CommandsSpec /\ CommandsFairness

----------------------------------------------------------------------------
(* Properties *)

Elements(s) == {s[n] : n \in 1..Len(s)}

\* A command is executed once at most, although the agent polls again after a
\* poll it gave up that is still handing out (command_poll, node_agent).
ExecutedAtMostOnce == \A c \in Command : cmd[c].runs <= 1

\* The node still has the command, or its result is on the way.
Held(c) ==
  \/ \E r \in PollRequest : agent.on = r /\ c \in Elements(poll[r].given)
  \/ c \in Elements(agent.queue)
  \/ \E p \in posts : p.id = c

\* What the table says of a command is explained by what the node did: "ok" by
\* an executor that returned and "error" by one that raised, or whose result
\* could not be sent; a command stays "sent" only while the node has it, or
\* because something was lost on the way (command_poll, command_result,
\* send_command_result).
StatusExplained ==
  \A c \in Command :
    /\ cmd[c].status = "ok" => cmd[c].outcome \in {"done", "refused", "unsent"}
    /\ cmd[c].status = "error" => cmd[c].outcome \in {"raised", "unsent"}
    /\ cmd[c].status = "sent" => Held(c) \/ losses > 0

\* No command overtakes an older one, whatever polls overlap (command_poll).
OldestFirst ==
  \A c, d \in Command :
    c < d /\ cmd[d].status \notin {"none", "pending"} => cmd[c].status # "pending"

\* Every command is handed out in the end, however few a poll takes.
EventuallyHandedOut ==
  \A c \in Command : cmd[c].status = "pending" ~> cmd[c].status # "pending"
=============================================================================
