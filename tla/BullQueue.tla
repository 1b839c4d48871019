------------------------------ MODULE BullQueue ------------------------------
(***************************************************************************)
(* What one BullMQ job goes through, as pure operators on a job record.    *)
(* BullMQ (5.70.1) is a library: this is what the workers of the           *)
(* repository rely on, not a translation of its scripts.                   *)
(*                                                                         *)
(*   st      where the job is. "waiting" covers a job that is delayed until*)
(*           its send time or backing off before a retry: the models are   *)
(*           untimed, so it may be taken at any later moment.              *)
(*   made    attemptsMade: completed attempts that ended in an error       *)
(*   stalls  how often the job was found active without a lock             *)
(*   owner   the worker slot holding the lock, or None                     *)
(***************************************************************************)
EXTENDS Naturals

CONSTANTS Slot,       \* the concurrency slots of all worker replicas
          None,       \* no slot, no job
          MaxStalls   \* maxStalledCount: a job that stalls more often is failed

ASSUME QueueAssumption == None \notin Slot /\ MaxStalls \in Nat

JobState == {"none", "waiting", "active", "completed", "failed"}

Job == [st : JobState, made : Nat, stalls : Nat, owner : Slot \cup {None}]

NoJob == [st |-> "none", made |-> 0, stalls |-> 0, owner |-> None]

\* queue.add with a jobId: an id already known to Redis, in whatever state, is
\* left as it is.
Added(x) == IF x.st = "none" THEN [NoJob EXCEPT !.st = "waiting"] ELSE x

\* A job that stalled too often is handed out once more only to be failed.
Startable(x) == x.st = "waiting" /\ x.stalls <= MaxStalls

GivenUp(x) == x.st = "waiting" /\ x.stalls > MaxStalls

Started(x, w) == [x EXCEPT !.st = "active", !.owner = w]

Completed(x) == [x EXCEPT !.st = "completed", !.owner = None]

\* After an error: back off and wait again while attempts are left. A job
\* added without the option has attempts 0 and is never retried.
Retries(x, attempts) == x.made + 1 < attempts

Failed(x, attempts) ==
  [x EXCEPT !.st = IF Retries(x, attempts) THEN "waiting" ELSE "failed",
            !.made = @ + 1,
            !.owner = None]

Buried(x) == [x EXCEPT !.st = "failed", !.made = @ + 1]

\* The lock expires: the worker died, or could not renew it in time.
Unlocked(x) == [x EXCEPT !.owner = None]

\* The stalled-job check finds an active job without a lock.
Stalled(x) == x.st = "active" /\ x.owner = None

Recovered(x) == [x EXCEPT !.st = "waiting", !.stalls = @ + 1]

\* job.remove() throws while a worker holds the job's lock.
Locked(x) == x.owner # None
=============================================================================
