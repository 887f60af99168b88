---------------------------- MODULE ObtainMutex -----------------------------
(***************************************************************************)
(* examples/threading: start_thread_obtaining_mutex and the thread it      *)
(* starts.  Any number of calls, each with a thread_data block and a       *)
(* thread of its own, share one mutex.  Whoever called joins the thread    *)
(* and frees the block it returns, as threading.h asks.                    *)
(*                                                                         *)
(* The two usleeps are the time that may pass between two steps; their     *)
(* results are not looked at.                                              *)
(***************************************************************************)

CONSTANTS
  Starts,       \* calls of start_thread_obtaining_mutex
  Unlocked,     \* owner of a mutex nobody holds
  ThreadFaults  \* the calls that may fail

ThreadFaultSites == {"malloc", "pthread_create", "lock", "unlock"}

ASSUME ThreadingAssumption ==
  Unlocked \notin Starts /\ ThreadFaults \subseteq ThreadFaultSites

VARIABLES
  stage,                   \* how far a call and its thread are
  thread_data,             \* the block: none, live or freed
  thread_complete_success, \* its flag, which the joiner reads
  mutex                    \* owner of the shared mutex

threadingVars == <<stage, thread_data, thread_complete_success, mutex>>

ThreadingInit ==
  /\ stage = [s \in Starts |-> "uncalled"]
  /\ thread_data = [s \in Starts |-> "none"]
  /\ thread_complete_success = [s \in Starts |-> FALSE]
  /\ mutex = Unlocked

Stage(s, now) == stage[s] = now

ToStage(s, next) == stage' = [stage EXCEPT ![s] = next]

Fails(call) == call \in ThreadFaults

SetSuccess(s, value) ==
  thread_complete_success' = [thread_complete_success EXCEPT ![s] = value]

-----------------------------------------------------------------------------
\* start_thread_obtaining_mutex

\* malloc, and the fields.
Allocate(s) ==
  /\ Stage(s, "uncalled")
  /\ \/ /\ thread_data' = [thread_data EXCEPT ![s] = "live"]
        /\ SetSuccess(s, FALSE) /\ ToStage(s, "create")
     \/ /\ Fails("malloc") /\ ToStage(s, "refused")
        /\ UNCHANGED <<thread_data, thread_complete_success>>
  /\ UNCHANGED mutex

\* The block of a thread that never was is forgotten.
BugCreateThread(s) ==
  /\ Stage(s, "create")
  /\ ToStage(s, "obtain") \/ (Fails("pthread_create") /\ ToStage(s, "refused"))
  /\ UNCHANGED <<thread_data, thread_complete_success, mutex>>

CreateThread(s) ==
  /\ Stage(s, "create")
  /\ \/ ToStage(s, "obtain") /\ UNCHANGED thread_data
     \/ /\ Fails("pthread_create") /\ ToStage(s, "refused")
        /\ thread_data' = [thread_data EXCEPT ![s] = "freed"]
  /\ UNCHANGED <<thread_complete_success, mutex>>

-----------------------------------------------------------------------------
\* threadfunc

ObtainLock(s) ==
  /\ Stage(s, "obtain") /\ ToStage(s, "release")
  /\ mutex = Unlocked /\ mutex' = s
  /\ UNCHANGED <<thread_data, thread_complete_success>>

\* The result of the lock is taken for granted.
BugLockFails(s) ==
  /\ Fails("lock") /\ Stage(s, "obtain") /\ ToStage(s, "release")
  /\ UNCHANGED <<thread_data, thread_complete_success, mutex>>

LockFails(s) ==
  /\ Fails("lock") /\ Stage(s, "obtain") /\ ToStage(s, "returned")
  /\ SetSuccess(s, FALSE) /\ UNCHANGED <<thread_data, mutex>>

\* The mutex is kept on the good path too.
BugReleaseLock(s) ==
  /\ Stage(s, "release") /\ ToStage(s, "mark")
  /\ UNCHANGED <<thread_data, thread_complete_success, mutex>>

\* An unlock that fails leaves the mutex to a thread that is about to end.
ReleaseLock(s) ==
  /\ Stage(s, "release")
  /\ \/ /\ mutex' = Unlocked
        /\ ToStage(s, "mark") /\ UNCHANGED thread_complete_success
     \/ /\ Fails("unlock") /\ SetSuccess(s, FALSE)
        /\ ToStage(s, "returned") /\ UNCHANGED mutex
  /\ UNCHANGED thread_data

MarkComplete(s) ==
  /\ Stage(s, "mark") /\ SetSuccess(s, TRUE) /\ ToStage(s, "returned")
  /\ UNCHANGED <<thread_data, mutex>>

-----------------------------------------------------------------------------
\* The joiner: pthread_join gives it the block.

JoinAndFree(s) ==
  /\ Stage(s, "returned") /\ ToStage(s, "joined")
  /\ thread_data' = [thread_data EXCEPT ![s] = "freed"]
  /\ UNCHANGED <<thread_complete_success, mutex>>

ThreadStep(s) == ObtainLock(s) \/ ReleaseLock(s) \/ MarkComplete(s)

ThreadingNext ==
  \E s \in Starts :
    \/ Allocate(s) \/ CreateThread(s)
    \/ ThreadStep(s) \/ LockFails(s) \/ JoinAndFree(s)

\* The scheduler runs a thread that can run.  Nobody need be called or joined,
\* and a lock that may fail need not.
ThreadingFairness == \A s \in Starts : WF_threadingVars(ThreadStep(s))

ThreadingSpec == ThreadingInit /\ [][ThreadingNext]_threadingVars

-----------------------------------------------------------------------------

ThreadingTypeOK ==
  /\ stage \in [Starts -> {"uncalled", "refused", "create", "obtain",
                           "release", "mark", "returned", "joined"}]
  /\ thread_data \in [Starts -> {"none", "live", "freed"}]
  /\ thread_complete_success \in [Starts -> BOOLEAN]
  /\ mutex \in Starts \cup {Unlocked}

\* Left behind locked by a thread that could not unlock it, and says so.
Abandoned(s) ==
  /\ mutex = s /\ stage[s] \in {"returned", "joined"}
  /\ ~thread_complete_success[s]

\* "then obtains the mutex ..., then holds ..., then releases": a thread that
\* holds on is the mutex's only holder, and a thread that is done has given the
\* mutex back unless it reports that it has not (threadfunc, lines 22-44).
HeldByOne ==
  \A s \in Starts :
    /\ Stage(s, "release") => mutex = s
    /\ mutex = s => Stage(s, "release") \/ Abandoned(s)

\* A block is live from malloc to exactly one free, by the function if no
\* thread could be started and by the joiner otherwise (lines 60-77).
BlockHasOneOwner ==
  \A s \in Starts :
    thread_data[s] = "live"
      <=> stage[s] \in {"create", "obtain", "release", "mark", "returned"}

\* Every thread that was started returns its block, however many wait for the
\* mutex, unless one of them could not give the mutex back.
ThreadsReturn ==
  \A s \in Starts :
    Stage(s, "obtain") ~> \/ stage[s] \in {"returned", "joined"}
                          \/ \E h \in Starts : Abandoned(h)
=============================================================================
