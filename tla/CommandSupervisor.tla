-------------------------- MODULE CommandSupervisor --------------------------
(***************************************************************************)
(* A command and the task that supervises it (command/local.rs,            *)
(* local/supervisor.rs, local/cleanup.rs, local/process_tree.rs).          *)
(*                                                                         *)
(* The child leads a process group and may have descendants in it that     *)
(* hold its pipes.  The supervisor writes the input, collects both outputs *)
(* and waits for the child, all at once; on cancellation, at the deadline  *)
(* or on an error it kills the group and reaps the child before it         *)
(* returns, however often the operating system refuses.  The caller may    *)
(* be cancelled or dropped at any time.                                    *)
(*                                                                         *)
(* Processes, pipes and signals are the operating system's.                *)
(***************************************************************************)
EXTENDS Naturals, FiniteSets

CONSTANT Descendant     \* processes the child may start in its group

VARIABLES
    leader,         \* the child
    alive,          \* its descendants that run
    overdue,        \* whether the deadline has passed
    caller,         \* SupervisedCommand, as its owner sees it
    cancelled,      \* a message in the cancellation channel
    supervisor,     \* where the task stands
    stdin_done, collected, status,  \* its results: input written, outputs, exit
    why,            \* the error it will return
    first_error, recorded,          \* of settle: the first failure, and the phases with one
    reaped,         \* of settle
    returned        \* what the task returned

commandVars == <<leader, alive, overdue, caller, cancelled, supervisor, stdin_done, collected,
                 status, why, first_error, recorded, reaped, returned>>

Stream == {"stdout", "stderr"}
results == <<stdin_done, collected, status>>
cleanup == <<first_error, recorded, reaped>>
outside == <<leader, alive, overdue, caller, cancelled>>

CommandInit ==
    /\ leader = "unborn" /\ alive = {} /\ overdue = FALSE
    /\ caller = "calling" /\ cancelled = FALSE
    /\ supervisor = "none"
    /\ stdin_done = FALSE /\ collected = {} /\ status = FALSE
    /\ why = "None" /\ first_error = "None" /\ recorded = {} /\ reaped = FALSE
    /\ returned = "None"

-----------------------------------------------------------------------------
(* The child and its group *)

Fork ==
    /\ leader = "running" \/ alive # {}
    /\ \E d \in Descendant \ alive : alive' = alive \cup {d}
    /\ UNCHANGED <<leader, overdue, caller, cancelled, supervisor, results, why, cleanup, returned>>

Exit ==
    /\ \/ leader = "running" /\ leader' = "zombie" /\ UNCHANGED alive
       \/ \E d \in alive : alive' = alive \ {d} /\ UNCHANGED leader
    /\ UNCHANGED <<overdue, caller, cancelled, supervisor, results, why, cleanup, returned>>

(* Nobody is left to hold the other end of the pipes.                      *)
PipesClosed == leader # "running" /\ alive = {}

DeadlinePasses ==
    /\ ~overdue /\ leader # "unborn"
    /\ overdue' = TRUE
    /\ UNCHANGED <<leader, alive, caller, cancelled, supervisor, results, why, cleanup, returned>>

-----------------------------------------------------------------------------
(* The caller: execute_local and wait *)

Spawn ==
    /\ caller = "calling"
    /\ \/ /\ leader' = "running" /\ supervisor' = "starting"
          /\ caller' = "waiting"
       \/ caller' = "refused" /\ UNCHANGED <<leader, supervisor>>
    /\ UNCHANGED <<alive, overdue, cancelled, results, why, cleanup, returned>>

(* The signal of the operation: the caller asks for an end and still waits *)
(* for the task.                                                           *)
Signal ==
    /\ caller = "waiting"
    /\ caller' = "stopping" /\ cancelled' = TRUE
    /\ UNCHANGED <<leader, alive, overdue, supervisor, results, why, cleanup, returned>>

(* Mutant of DropCaller: the future goes without a word to the task.       *)
DropsSilently ==
    /\ caller \in {"waiting", "stopping"}
    /\ caller' = "dropped"
    /\ UNCHANGED <<leader, alive, overdue, cancelled, supervisor, results, why, cleanup, returned>>

(* The caller's future is dropped; the task goes on.                       *)
DropCaller ==
    /\ caller \in {"waiting", "stopping"}
    /\ caller' = "dropped" /\ cancelled' = TRUE
    /\ UNCHANGED <<leader, alive, overdue, supervisor, results, why, cleanup, returned>>

Joined ==
    /\ caller \in {"waiting", "stopping"} /\ supervisor = "over"
    /\ caller' = "answered"
    /\ UNCHANGED <<leader, alive, overdue, cancelled, supervisor, results, why, cleanup, returned>>

-----------------------------------------------------------------------------
(* The supervisor *)

(* terminate_and_reap, for the reason e.                                   *)
Terminate(e) ==
    /\ supervisor' = "killing" /\ why' = e
    /\ UNCHANGED <<outside, results, cleanup, returned>>

(* SpawnedCommand::run: the group's identity and the pipes, or an error.   *)
Initialize ==
    /\ supervisor = "starting"
    /\ \/ supervisor' = "selecting" /\ UNCHANGED <<outside, results, why, cleanup, returned>>
       \/ Terminate("Initialize")

(* The loop returns when it has everything, and else selects: one of the   *)
(* branches that are ready is taken.                                       *)
Finished == stdin_done /\ collected = Stream /\ status
Selecting == supervisor = "selecting" /\ ~Finished

Cancelled ==
    /\ Selecting /\ cancelled
    /\ Terminate("Cancelled")

Deadline ==
    /\ Selecting /\ overdue
    /\ Terminate("Deadline")

WriteStdin ==
    /\ Selecting /\ ~stdin_done
    /\ stdin_done' = TRUE
    /\ UNCHANGED <<outside, supervisor, collected, status, why, cleanup, returned>>

(* collect_bounded returns at the end of the output, which comes at the    *)
(* latest when nobody holds the pipe.                                      *)
CollectOutput(s) ==
    /\ Selecting /\ s \notin collected
    /\ collected' = collected \cup {s}
    /\ UNCHANGED <<outside, supervisor, stdin_done, status, why, cleanup, returned>>

WaitChild ==
    /\ Selecting /\ ~status /\ leader = "zombie"
    /\ leader' = "reaped" /\ status' = TRUE
    /\ UNCHANGED <<alive, overdue, caller, cancelled, supervisor, stdin_done, collected,
                   why, cleanup, returned>>

(* A pipe breaks, there is more output than the limit, or the wait fails.  *)
BranchFails ==
    /\ Selecting
    /\ \/ ~stdin_done /\ Terminate("Stdin")
       \/ collected # Stream /\ Terminate("Output")
       \/ ~status /\ Terminate("Wait")

Complete ==
    /\ supervisor = "selecting" /\ Finished
    /\ supervisor' = "over" /\ returned' = "Completed"
    /\ UNCHANGED <<outside, results, why, cleanup>>

-----------------------------------------------------------------------------
(* settle *)

(* record_first_failure: one per phase, and the first of all is returned.  *)
Record(failures) ==
    /\ recorded' = recorded \cup failures
    /\ first_error' = IF first_error # "None" THEN first_error
                      ELSE IF "Kill" \in failures THEN "Kill"
                      ELSE IF failures # {} THEN "Reap" ELSE "None"

KillGroup ==
    /\ leader' = IF leader = "running" THEN "zombie" ELSE leader
    /\ alive' = {}

(* SIGKILL to the group; a group that is gone counts as killed.            *)
Kill ==
    /\ supervisor = "killing"
    /\ KillGroup
    /\ supervisor' = "reaping"
    /\ UNCHANGED <<overdue, caller, cancelled, results, why, cleanup, returned>>

(* The signal is refused: look whether the child is gone, and try again.   *)
(* try_wait remembers a status that was taken before.                      *)
KillFails ==
    /\ supervisor = "killing"
    /\ \/ reaped /\ Record({"Kill"}) /\ UNCHANGED <<leader, reaped>>
       \/ /\ ~reaped /\ leader \in {"zombie", "reaped"}
          /\ leader' = "reaped" /\ reaped' = TRUE /\ Record({"Kill"})
       \/ /\ ~reaped /\ leader = "running"
          /\ Record({"Kill"}) /\ UNCHANGED <<leader, reaped>>
       \/ ~reaped /\ Record({"Kill", "Reap"}) /\ UNCHANGED <<leader, reaped>>
    /\ UNCHANGED <<alive, overdue, caller, cancelled, supervisor, results, why, returned>>

Reap ==
    /\ supervisor = "reaping" /\ ~reaped
    /\ \/ /\ leader \in {"zombie", "reaped"}
          /\ leader' = "reaped" /\ reaped' = TRUE
          /\ UNCHANGED <<first_error, recorded>>
       \/ Record({"Reap"}) /\ UNCHANGED <<leader, reaped>>
    /\ UNCHANGED <<alive, overdue, caller, cancelled, supervisor, results, why, returned>>

(* Mutant of Settled: the reaping is left to the runtime.                  *)
SettledUnreaped ==
    /\ supervisor = "reaping"
    /\ supervisor' = "over"
    /\ returned' = IF first_error # "None" THEN first_error ELSE why
    /\ UNCHANGED <<outside, results, why, cleanup>>

(* A failure of the clean-up is returned in place of the reason for it.    *)
Settled ==
    /\ supervisor = "reaping" /\ reaped
    /\ supervisor' = "over"
    /\ returned' = IF first_error # "None" THEN first_error ELSE why
    /\ UNCHANGED <<outside, results, why, cleanup>>

Progress ==
    \/ Initialize \/ Cancelled \/ Deadline \/ WaitChild \/ Complete
    \/ PipesClosed /\ \E s \in Stream : CollectOutput(s)

Caller == Spawn \/ Signal \/ DropCaller \/ Joined

CommandNext ==
    \/ Fork \/ Exit \/ DeadlinePasses \/ Caller \/ Progress \/ WriteStdin \/ BranchFails
    \/ (\E s \in Stream : CollectOutput(s)) \/ Kill \/ KillFails \/ Reap \/ Settled

CommandSpec == CommandInit /\ [][CommandNext]_commandVars

(* The task is scheduled, and the operating system does not refuse a       *)
(* signal or a wait forever.  The child need not read, write or exit.      *)
CommandFairness ==
    /\ WF_commandVars(Progress) /\ WF_commandVars(Settled) /\ WF_commandVars(Joined)
    /\ SF_commandVars(Kill) /\ SF_commandVars(Reap /\ reaped')

-----------------------------------------------------------------------------
(* When the task has returned the child is reaped and, unless the command  *)
(* ran to its end, nothing of its group is left; a success has the whole   *)
(* of both outputs and the exit status, and a refused kill or wait is      *)
(* never hidden (CommandSupervisor::run, settle: "Retain the child ...     *)
(* until cleanup is confirmed").                                           *)
NothingIsLeftBehind ==
    supervisor = "over" =>
        /\ leader = "reaped"
        /\ returned = "Completed" => Finished /\ recorded = {}
        /\ returned # "Completed" =>
            /\ alive = {}
            /\ recorded # {} <=> returned \in {"Kill", "Reap"}

(* A command that is cancelled, past its deadline or whose caller is gone  *)
(* comes to an end, and a caller that still waits is answered: the drop of *)
(* the caller cannot leave the task to a child that never exits (wait,     *)
(* drop).                                                                  *)
CommandsEnd ==
    cancelled \/ caller = "dropped" \/ (overdue /\ supervisor # "none") ~>
        supervisor = "over" /\ caller \in {"answered", "dropped"}

=============================================================================
