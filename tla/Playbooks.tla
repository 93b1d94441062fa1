----------------------------- MODULE Playbooks ------------------------------
(***************************************************************************)
(* The playbook executor of a Harken Node (actions/playbook_executor.py):  *)
(* a sequence of device steps with verification and rollback, paused at a  *)
(* failure for a person to resume, and the executions' rows in the         *)
(* checkpoint, from which a restarted agent recovers them as PAUSED.       *)
(*                                                                         *)
(* Between two device calls a coroutine keeps the event loop, so its       *)
(* changes and writes are one step; a write that fails is only logged.     *)
(* All executions are of one playbook on one device: a run and what its    *)
(* resumptions create.                                                     *)
(***************************************************************************)
EXTENDS Integers, FiniteSets

CONSTANTS
    StepCount,    \* playbook.step_count
    Undoable,     \* the steps that have a rollback_action
    MaxExecs,     \* bound on executions: the run and its resumptions
    Drivers,      \* coroutines that may drive an execution at a time
    MaxMishaps,   \* bound on restarts and on failed writes
    NoExec

PlaySteps == 0..(StepCount - 1)
Execs == 1..MaxExecs

\* PlaybookExecution, as far as it decides what runs next.
ExecRecords ==
    [idx : PlaySteps, recorded : SUBSET PlaySteps,
     status : {"RUNNING", "PAUSED", "COMPLETED", "ROLLED_BACK", "FAILED"}]

ASSUME PlaybooksAssumption ==
    /\ NoExec \notin ExecRecords
    /\ StepCount \in Nat \ {0} /\ Undoable \subseteq PlaySteps
    /\ MaxExecs \in Nat \ {0} /\ MaxMishaps \in Nat

VARIABLES
    exec,     \* PlaybookExecution objects of the process
    stored,   \* the playbook_executions table
    driver,   \* what each coroutine waits for
    created,  \* executions created so far
    handed,   \* executions whose object somebody outside has: those that
              \* execute_playbook returned or a restart recovered
    from,     \* the step each execution was started from
    mishaps,
    cut       \* observation: first steps of a run whose outcome never got
              \* into the table

ybvars == <<exec, stored, driver, created, handed, from, mishaps, cut>>
resting == [exec |-> 0, parent |-> 0, at |-> "idle"]

\* _persist: the last of the records written in this segment, unless a write
\* fails; then an earlier one or what was there.
Persist(e, written, final) ==
    \/ /\ stored' = [stored EXCEPT ![e] = final]
       /\ UNCHANGED mishaps
    \/ /\ mishaps < MaxMishaps /\ mishaps' = mishaps + 1
       /\ \E r \in written \cup {stored[e]} : stored' = [stored EXCEPT ![e] = r]

\* execute_playbook up to its first step: RUNNING is on disk.
StartRun(c, parent, step) ==
    LET e == created + 1
        r == [idx |-> step, recorded |-> {}, status |-> "RUNNING"]
    IN /\ driver[c] = resting /\ created < MaxExecs
       /\ created' = e
       /\ from' = [from EXCEPT ![e] = step]
       /\ exec' = [x \in Execs |-> IF x = e THEN r
                                   ELSE IF x = parent THEN [exec[x] EXCEPT !.status = "RUNNING"]
                                   ELSE exec[x]]
       /\ Persist(e, {}, r)
       /\ driver' = [driver EXCEPT ![c] = [exec |-> e, parent |-> parent, at |-> "step"]]
       /\ UNCHANGED <<handed, cut>>

ExecutePlaybook(c) == created = 0 /\ StartRun(c, 0, 0)

\* resume: a run of its own from the next step; the paused object is RUNNING
\* in memory only.
ResumeFrom(c, e) ==
    /\ e \in handed /\ exec[e].status = "PAUSED"
    /\ exec[e].idx + 1 < StepCount
    /\ StartRun(c, e, exec[e].idx + 1)

\* resume after the last step: completed, in memory only.
ResumeAtEnd(c, e) ==
    /\ driver[c] = resting
    /\ e \in handed /\ exec[e].status = "PAUSED"
    /\ exec[e].idx + 1 >= StepCount
    /\ exec' = [exec EXCEPT ![e].status = "COMPLETED"]
    /\ UNCHANGED <<stored, driver, created, handed, from, mishaps, cut>>

\* The loop is over: the caller of resume goes on, or the run returns.
Leave(c) ==
    \/ /\ driver[c].parent = 0
       /\ driver' = [driver EXCEPT ![c] = resting]
       /\ handed' = handed \cup {driver[c].exec}
    \/ /\ driver[c].parent # 0
       /\ driver' = [driver EXCEPT ![c].at = "merge"]
       /\ UNCHANGED handed

\* Mutant: the index is advanced together with the outcome that is written.
StepSucceedsEarly(c) ==
    LET e == driver[c].exec
        s == exec[e].idx
        r == [exec[e] EXCEPT !.recorded = @ \cup {s}]
        next == IF s + 1 < StepCount THEN [r EXCEPT !.idx = s + 1]
                ELSE [r EXCEPT !.status = "COMPLETED"]
    IN /\ driver[c].at = "step"
       /\ exec' = [exec EXCEPT ![e] = next]
       /\ Persist(e, {r}, next)
       /\ IF s + 1 < StepCount THEN UNCHANGED <<driver, handed>> ELSE Leave(c)
       /\ UNCHANGED <<created, from, cut>>

\* _execute_step succeeds: record_step and _persist; then the next step's
\* index, in memory, or complete and _persist.
StepSucceeds(c) ==
    LET e == driver[c].exec
        s == exec[e].idx
        r == [exec[e] EXCEPT !.recorded = @ \cup {s}]
        done == [r EXCEPT !.status = "COMPLETED"]
    IN /\ driver[c].at = "step"
       /\ IF s + 1 < StepCount
          THEN /\ exec' = [exec EXCEPT ![e] = [r EXCEPT !.idx = s + 1]]
               /\ Persist(e, {}, r)
               /\ UNCHANGED <<driver, handed>>
          ELSE /\ exec' = [exec EXCEPT ![e] = done]
               /\ Persist(e, {r}, done)
               /\ Leave(c)
       /\ UNCHANGED <<created, from, cut>>

\* A precondition, the credentials, the action or its verification fails:
\* PAUSED is on disk; the rollback is the next device call, if there is one.
StepFails(c) ==
    LET e == driver[c].exec
        s == exec[e].idx
        r == [exec[e] EXCEPT !.recorded = @ \cup {s}, !.status = "PAUSED"]
    IN /\ driver[c].at = "step"
       /\ exec' = [exec EXCEPT ![e] = r]
       /\ Persist(e, {}, r)
       /\ IF s \in Undoable
          THEN driver' = [driver EXCEPT ![c].at = "rollback"] /\ UNCHANGED handed
          ELSE Leave(c)
       /\ UNCHANGED <<created, from, cut>>

\* _execute_rollback returns, or the executor reports its failure.
RollbackEnds(c, status) ==
    LET e == driver[c].exec
        r == [exec[e] EXCEPT !.status = status]
    IN /\ driver[c].at = "rollback"
       /\ exec' = [exec EXCEPT ![e] = r]
       /\ Persist(e, {}, r)
       /\ Leave(c)
       /\ UNCHANGED <<created, from, cut>>

\* resume, after the run: outcomes and status of the run; the index stays.
Merge(c) ==
    LET e == driver[c].parent
        run == exec[driver[c].exec]
        r == [exec[e] EXCEPT !.recorded = @ \cup run.recorded, !.status = run.status]
    IN /\ driver[c].at = "merge"
       /\ exec' = [exec EXCEPT ![e] = r]
       /\ Persist(e, {}, r)
       /\ driver' = [driver EXCEPT ![c] = resting]
       /\ UNCHANGED <<created, handed, from, cut>>

\* The process stops and starts: load_playbook_executions brings what was
\* RUNNING back PAUSED, and stores that.
NodeRestart ==
    /\ mishaps < MaxMishaps /\ mishaps' = mishaps + 1
    /\ stored' = [e \in Execs |->
                    IF stored[e] # NoExec /\ stored[e].status = "RUNNING"
                    THEN [stored[e] EXCEPT !.status = "PAUSED"] ELSE stored[e]]
    /\ exec' = stored'
    /\ handed' = {e \in Execs : stored[e] # NoExec}
    /\ driver' = [c \in Drivers |-> resting]
    /\ cut' = cut \cup {from[e] : e \in {x \in Execs :
                  stored[x] # NoExec /\ from[x] \notin stored[x].recorded}}
    /\ UNCHANGED <<created, from>>

YInit ==
    /\ exec = [e \in Execs |-> NoExec] /\ stored = exec
    /\ driver = [c \in Drivers |-> resting]
    /\ created = 0 /\ handed = {} /\ from = [e \in Execs |-> 0]
    /\ mishaps = 0 /\ cut = {}

YNext ==
    \/ \E c \in Drivers :
         \/ ExecutePlaybook(c)
         \/ \E e \in Execs : ResumeFrom(c, e) \/ ResumeAtEnd(c, e)
         \/ StepSucceeds(c) \/ StepFails(c) \/ Merge(c)
         \/ \E s \in {"ROLLED_BACK", "FAILED"} : RollbackEnds(c, s)
    \/ NodeRestart

YSpec == YInit /\ [][YNext]_ybvars

-----------------------------------------------------------------------------
(* Properties.                                                             *)

\* A playbook that is reported COMPLETED, in memory or in the table, has an
\* outcome on record for each of its steps, over pauses, resumptions of
\* several executions at once, restarts and failed writes.  The exception is
\* the step a run begins with: if the agent stops before that outcome is
\* stored, the resumption goes on after it.
CompletedIsAccounted ==
    \A e \in Execs : \A r \in {exec[e], stored[e]} \ {NoExec} :
      r.status = "COMPLETED" => (from[e]..(StepCount - 1)) \subseteq r.recorded \cup cut

=============================================================================
