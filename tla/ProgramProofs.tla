---------------------------- MODULE ProgramProofs ----------------------------
(***************************************************************************)
(* Theorems about ObtainMutex, SystemCalls, DeviceNode, FinderTest and     *)
(* ServerMain, for any number of threads, calls, runs, scripts, files,     *)
(* signals and descriptors, and any calls that fail.                       *)
(***************************************************************************)
EXTENDS MCPrograms, FiniteSetTheorems, TLAPS

-----------------------------------------------------------------------------
(***************************************************************************)
(* ObtainMutex                                                             *)
(***************************************************************************)

\* One clause per action: each moves one thread from one stage to the next.
LEMMA ThreadingTypeStep ==
  ASSUME ThreadingTypeOK, [ThreadingNext]_threadingVars
  PROVE  ThreadingTypeOK'
<1> USE DEF ThreadingTypeOK
<1>1. CASE UNCHANGED threadingVars
  BY <1>1 DEF threadingVars
<1>2. ASSUME NEW s \in Starts, Allocate(s) PROVE ThreadingTypeOK'
  BY <1>2 DEF Allocate, Stage, ToStage, SetSuccess
<1>3. ASSUME NEW s \in Starts, CreateThread(s) PROVE ThreadingTypeOK'
  BY <1>3 DEF CreateThread, Stage, ToStage
<1>4. ASSUME NEW s \in Starts, ObtainLock(s) PROVE ThreadingTypeOK'
  BY <1>4 DEF ObtainLock, Stage, ToStage
<1>5. ASSUME NEW s \in Starts, LockFails(s) PROVE ThreadingTypeOK'
  BY <1>5 DEF LockFails, Stage, ToStage, SetSuccess
<1>6. ASSUME NEW s \in Starts, ReleaseLock(s) PROVE ThreadingTypeOK'
  BY <1>6 DEF ReleaseLock, Stage, ToStage, SetSuccess
<1>7. ASSUME NEW s \in Starts, MarkComplete(s) PROVE ThreadingTypeOK'
  BY <1>7 DEF MarkComplete, Stage, ToStage, SetSuccess
<1>8. ASSUME NEW s \in Starts, JoinAndFree(s) PROVE ThreadingTypeOK'
  BY <1>8 DEF JoinAndFree, Stage, ToStage
<1>9. QED
  BY <1>1, <1>2, <1>3, <1>4, <1>5, <1>6, <1>7, <1>8
     DEF ThreadingNext, ThreadStep

\* Only the stages and values the code has occur.
THEOREM ThreadingTyped == ThreadingSpec => []ThreadingTypeOK
<1>1. ThreadingInit => ThreadingTypeOK
  BY DEF ThreadingInit, ThreadingTypeOK
<1>2. QED
  BY <1>1, ThreadingTypeStep, PTL DEF ThreadingSpec

-----------------------------------------------------------------------------
(***************************************************************************)
(* A thread that gave the mutex back has nothing to abandon: until it      *)
(* returns, whether it owns the mutex is told by its stage alone.          *)
(***************************************************************************)

\* No step gives the mutex a second holder or loses sight of its first.
LEMMA HeldStep ==
  ASSUME ThreadingTypeOK, HeldByOne, [ThreadingNext]_threadingVars
  PROVE  HeldByOne'
<1> USE ThreadingAssumption DEF ThreadingTypeOK, HeldByOne, Abandoned, Stage
<1>1. CASE UNCHANGED threadingVars
  BY <1>1 DEF threadingVars
<1>2. ASSUME NEW s \in Starts, Allocate(s) PROVE HeldByOne'
  BY <1>2 DEF Allocate, ToStage, SetSuccess
<1>3. ASSUME NEW s \in Starts, CreateThread(s) PROVE HeldByOne'
  BY <1>3 DEF CreateThread, ToStage
<1>4. ASSUME NEW s \in Starts, ObtainLock(s) PROVE HeldByOne'
  BY <1>4 DEF ObtainLock, ToStage
<1>5. ASSUME NEW s \in Starts, LockFails(s) PROVE HeldByOne'
  BY <1>5 DEF LockFails, ToStage, SetSuccess
<1>6. ASSUME NEW s \in Starts, ReleaseLock(s) PROVE HeldByOne'
  BY <1>6 DEF ReleaseLock, ToStage, SetSuccess
<1>7. ASSUME NEW s \in Starts, MarkComplete(s) PROVE HeldByOne'
  BY <1>7 DEF MarkComplete, ToStage, SetSuccess
<1>8. ASSUME NEW s \in Starts, JoinAndFree(s) PROVE HeldByOne'
  BY <1>8 DEF JoinAndFree, ToStage
<1>9. QED
  BY <1>1, <1>2, <1>3, <1>4, <1>5, <1>6, <1>7, <1>8
     DEF ThreadingNext, ThreadStep

\* Whoever holds on is the mutex's only holder, and a thread that is done has
\* given it back or reports that it has not, however many threads there are
\* (threadfunc).
THEOREM MutexHeldByOne == ThreadingSpec => []HeldByOne
<1>1. ThreadingInit => HeldByOne
  BY ThreadingAssumption DEF ThreadingInit, HeldByOne, Stage
<1>2. QED
  BY <1>1, ThreadingTyped, HeldStep, PTL DEF ThreadingSpec

\* No two threads hold the mutex at a time.
THEOREM MutualExclusion ==
  ThreadingSpec => [](\A s, t \in Starts :
                        Stage(s, "release") /\ Stage(t, "release") => s = t)
<1>1. HeldByOne => \A s, t \in Starts :
                     Stage(s, "release") /\ Stage(t, "release") => s = t
  BY DEF HeldByOne
<1>2. QED
  BY <1>1, MutexHeldByOne, PTL

-----------------------------------------------------------------------------

\* No step frees a block twice or gives it a second owner.
LEMMA OwnerStep ==
  ASSUME ThreadingTypeOK, BlockHasOneOwner, [ThreadingNext]_threadingVars
  PROVE  BlockHasOneOwner'
<1> USE DEF ThreadingTypeOK, BlockHasOneOwner, Stage
<1>1. CASE UNCHANGED threadingVars
  BY <1>1 DEF threadingVars
<1>2. ASSUME NEW s \in Starts, Allocate(s) PROVE BlockHasOneOwner'
  BY <1>2 DEF Allocate, ToStage
<1>3. ASSUME NEW s \in Starts, CreateThread(s) PROVE BlockHasOneOwner'
  BY <1>3 DEF CreateThread, ToStage
<1>4. ASSUME NEW s \in Starts, ObtainLock(s) PROVE BlockHasOneOwner'
  BY <1>4 DEF ObtainLock, ToStage
<1>5. ASSUME NEW s \in Starts, LockFails(s) PROVE BlockHasOneOwner'
  BY <1>5 DEF LockFails, ToStage
<1>6. ASSUME NEW s \in Starts, ReleaseLock(s) PROVE BlockHasOneOwner'
  BY <1>6 DEF ReleaseLock, ToStage
<1>7. ASSUME NEW s \in Starts, MarkComplete(s) PROVE BlockHasOneOwner'
  BY <1>7 DEF MarkComplete, ToStage
<1>8. ASSUME NEW s \in Starts, JoinAndFree(s) PROVE BlockHasOneOwner'
  BY <1>8 DEF JoinAndFree, ToStage
<1>9. QED
  BY <1>1, <1>2, <1>3, <1>4, <1>5, <1>6, <1>7, <1>8
     DEF ThreadingNext, ThreadStep

\* A block is live from malloc to one free, by the function or the joiner: no
\* thread uses a freed block and none is forgotten
\* (start_thread_obtaining_mutex, lines 60-77).
THEOREM BlocksHaveOneOwner == ThreadingSpec => []BlockHasOneOwner
<1>1. ThreadingInit => BlockHasOneOwner
  BY DEF ThreadingInit, BlockHasOneOwner
<1>2. QED
  BY <1>1, ThreadingTyped, OwnerStep, PTL DEF ThreadingSpec
-----------------------------------------------------------------------------
(***************************************************************************)
(* SystemCalls                                                             *)
(*                                                                         *)
(* The results of a call are told by where its child is.  The inductive    *)
(* invariant says for each call what its child's state implies (CallShape) *)
(* and, for all of them together, where text and output may have got to.   *)
(***************************************************************************)

Waited(c)  == child[c] \in {"zombie", "reaped"}
Running(c) == child[c] \in {"run", "end"}

\* A call has a child from its fork on, and it is the child that decides.
ChildFits(c) ==
  /\ child[c] = "none"
       => /\ caller[c] \in {"idle", "fork", "false"}
          /\ child_out[c] = Terminal
  /\ child[c] # "none" => caller[c] \in {"wait", "true", "false"}
  /\ caller[c] = "wait" => child[c] # "reaped"
  /\ caller[c] = "true" => child[c] = "reaped"
  /\ child[c] = "reaped" => (caller[c] = "true" <=> status[c] = "zero")
  /\ executed[c] => Running(c) \/ Waited(c)
  /\ Running(c) => executed[c]
  /\ status[c] = "zero" => executed[c] /\ Waited(c)

\* A file is opened for a redirected call only, and its command has it.
OutputFits(c) ==
  /\ caller[c] = "idle" => outputfile[c] = Terminal
  /\ child_out[c] \in {Terminal, outputfile[c]}
  /\ function[c] = "do_exec_redirect"
       => /\ outputfile[c] \in OutFiles
          /\ child[c] # "shell"
          /\ child[c] = "exec" \/ Running(c) => child_out[c] = outputfile[c]

\* The text is in the copy of a child that has not reached its command.
CopyFits(c) ==
  inherited[c] => /\ function[c] # "do_system"
                  /\ child[c] \in {"open", "dup2", "exec", "exit"}

CallShape == \A c \in Callers : ChildFits(c) /\ OutputFits(c) /\ CopyFits(c)

\* Nobody else was given the caller's file.
AloneOn(c) == \A d \in Callers \ {c} : outputfile[d] # outputfile[c]

\* The command's output is in the file before the child's end is known.
OutputStands ==
  \A c \in Callers :
    /\ function[c] = "do_exec_redirect" /\ AloneOn(c)
    /\ child[c] = "end" \/ (Waited(c) /\ status[c] = "zero")
    => content[outputfile[c]] = c

\* The text is in one place until a child that did not become its command has
\* written its copy.
TextStands ==
  /\ on_terminal > 1 \/ (unwritten /\ on_terminal > 0)
       => \E c \in Callers : NeverBecame(c)
  /\ \A f \in OutFiles :
       content[f] = Text => \E c \in Callers :
                              NeverBecame(c) /\ outputfile[c] = f

\* Every child adds the text once, and the program itself once.
Printings ==
  on_terminal <= Cardinality({c \in Callers : Waited(c)})
                   + (IF unwritten THEN 0 ELSE 1)

\* ExecTypeOK but for the bound that Printings refines.
ExecTyped ==
  /\ caller \in [Callers -> {"idle", "fork", "wait", "true", "false"}]
  /\ function \in [Callers -> Functions \cup {"none"}]
  /\ outputfile \in [Callers -> OutFiles \cup {Terminal}]
  /\ child \in [Callers -> {"none", "open", "dup2", "exec", "shell", "run",
                           "end", "exit", "zombie", "reaped"}]
  /\ status \in [Callers -> Ends \cup {"none"}]
  /\ executed \in [Callers -> BOOLEAN] /\ inherited \in [Callers -> BOOLEAN]
  /\ child_out \in [Callers -> OutFiles \cup {Terminal}]
  /\ unwritten \in BOOLEAN /\ on_terminal \in Nat
  /\ content \in [OutFiles -> Callers \cup {Text, Empty}]

ExecInv == ExecTyped /\ CallShape /\ OutputStands /\ TextStands /\ Printings

-----------------------------------------------------------------------------

\* Every variable keeps to the values the code gives it.
LEMMA ExecTypedStep ==
  ASSUME ExecTyped, ExecNext
  PROVE  ExecTyped'
<1> USE ExecAssumption DEF ExecTyped, Functions, Ends, arguments, process, printing,
        CallerTo, ChildTo
<1>1. ASSUME NEW c \in Callers, Refuse(c) PROVE ExecTyped'
  BY <1>1 DEF Refuse
<1>2. ASSUME NEW c \in Callers, CallFunction(c) PROVE ExecTyped'
  BY <1>2 DEF CallFunction
<1>3. ASSUME NEW c \in Callers, ForkChild(c) PROVE ExecTyped'
  <2>1. FirstStep(c) \in {"shell", "exec", "open"}
    BY DEF FirstStep
  <2> DEFINE copy == unwritten /\ function[c] # "do_system"
  <2>2. inherited' = [inherited EXCEPT ![c] = copy] \/ UNCHANGED inherited
    BY <1>3 DEF ForkChild
  <2>3. copy \in BOOLEAN
    OBVIOUS
  <2> HIDE DEF copy
  <2>4. inherited' \in [Callers -> BOOLEAN]
    BY <2>2, <2>3
  <2>5. QED
    BY <1>3, <2>1, <2>4 DEF ForkChild
<1>4. ASSUME NEW c \in Callers, WaitChild(c) PROVE ExecTyped'
  BY <1>4 DEF WaitChild, Verdict
<1>5. ASSUME NEW c \in Callers, WaitFails(c) PROVE ExecTyped'
  BY <1>5 DEF WaitFails
<1>6. ASSUME NEW c \in Callers, OpenOutput(c) PROVE ExecTyped'
  BY <1>6 DEF OpenOutput
<1>7. ASSUME NEW c \in Callers, DupOutput(c) PROVE ExecTyped'
  BY <1>7 DEF DupOutput
<1>8. ASSUME NEW c \in Callers, ExecCommand(c) PROVE ExecTyped'
  BY <1>8 DEF ExecCommand
<1>9. ASSUME NEW c \in Callers, CommandWrites(c) PROVE ExecTyped'
  BY <1>9 DEF CommandWrites, Puts
<1>10. ASSUME NEW c \in Callers, CommandEnds(c) PROVE ExecTyped'
  <2>1. PICK end \in Ends : status' = [status EXCEPT ![c] = end]
    BY <1>10 DEF CommandEnds
  <2>2. QED
    BY <1>10, <2>1 DEF CommandEnds
<1>11. ASSUME NEW c \in Callers, ChildExits(c) PROVE ExecTyped'
  BY <1>11 DEF ChildExits, Puts
<1>12. CASE ProgramPrints
  BY <1>12 DEF ProgramPrints
<1>13. CASE ProgramFlushes
  <2>1. on_terminal' = on_terminal + 1
    BY <1>13 DEF ProgramFlushes
  <2>2. on_terminal' \in Nat
    BY <2>1
  <2>3. UNCHANGED <<caller, arguments, process, content>> /\ unwritten' = FALSE
    BY <1>13 DEF ProgramFlushes
  <2>4. QED
    BY <2>2, <2>3
<1>14. QED
  BY <1>1, <1>2, <1>3, <1>4, <1>5, <1>6, <1>7, <1>8, <1>9, <1>10, <1>11,
     <1>12, <1>13 DEF ExecNext, Child

\* What the state of a child implies stays true through every step.
LEMMA CallShapeStep ==
  ASSUME ExecTyped, CallShape, ExecNext
  PROVE  CallShape'
<1> SUFFICES ASSUME NEW d \in Callers
             PROVE  ChildFits(d)' /\ OutputFits(d)' /\ CopyFits(d)'
  BY DEF CallShape
<1>0. ChildFits(d) /\ OutputFits(d) /\ CopyFits(d)
  BY DEF CallShape
<1> USE <1>0, ExecAssumption
    DEF ExecTyped, Functions, Ends, arguments, process, printing, CallerTo, ChildTo,
        ChildFits, OutputFits, CopyFits, Waited, Running
<1>1. ASSUME NEW c \in Callers, Refuse(c)
      PROVE  ChildFits(d)' /\ OutputFits(d)' /\ CopyFits(d)'
  BY <1>1 DEF Refuse
<1>2. ASSUME NEW c \in Callers, CallFunction(c)
      PROVE  ChildFits(d)' /\ OutputFits(d)' /\ CopyFits(d)'
  BY <1>2 DEF CallFunction
<1>3. ASSUME NEW c \in Callers, ForkChild(c)
      PROVE  ChildFits(d)' /\ OutputFits(d)' /\ CopyFits(d)'
  <2>1. /\ FirstStep(c) \in {"shell", "exec", "open"}
        /\ FirstStep(c) = "shell" => function[c] = "do_system"
        /\ FirstStep(c) = "exec" => function[c] = "do_exec"
    BY DEF FirstStep
  <2>2. QED
    BY <1>3, <2>1 DEF ForkChild
<1>4. ASSUME NEW c \in Callers, WaitChild(c)
      PROVE  ChildFits(d)' /\ OutputFits(d)' /\ CopyFits(d)'
  BY <1>4 DEF WaitChild, Verdict
<1>5. ASSUME NEW c \in Callers, WaitFails(c)
      PROVE  ChildFits(d)' /\ OutputFits(d)' /\ CopyFits(d)'
  BY <1>5 DEF WaitFails
<1>6. ASSUME NEW c \in Callers, OpenOutput(c)
      PROVE  ChildFits(d)' /\ OutputFits(d)' /\ CopyFits(d)'
  BY <1>6 DEF OpenOutput
<1>7. ASSUME NEW c \in Callers, DupOutput(c)
      PROVE  ChildFits(d)' /\ OutputFits(d)' /\ CopyFits(d)'
  BY <1>7 DEF DupOutput
<1>8. ASSUME NEW c \in Callers, ExecCommand(c)
      PROVE  ChildFits(d)' /\ OutputFits(d)' /\ CopyFits(d)'
  BY <1>8 DEF ExecCommand
<1>9. ASSUME NEW c \in Callers, CommandWrites(c)
      PROVE  ChildFits(d)' /\ OutputFits(d)' /\ CopyFits(d)'
  BY <1>9 DEF CommandWrites
<1>10. ASSUME NEW c \in Callers, CommandEnds(c)
      PROVE  ChildFits(d)' /\ OutputFits(d)' /\ CopyFits(d)'
  BY <1>10 DEF CommandEnds
<1>11. ASSUME NEW c \in Callers, ChildExits(c)
      PROVE  ChildFits(d)' /\ OutputFits(d)' /\ CopyFits(d)'
  BY <1>11 DEF ChildExits
<1>12. CASE ProgramPrints
  BY <1>12 DEF ProgramPrints
<1>13. CASE ProgramFlushes
  BY <1>13 DEF ProgramFlushes
<1>14. QED
  BY <1>1, <1>2, <1>3, <1>4, <1>5, <1>6, <1>7, <1>8, <1>9, <1>10, <1>11,
     <1>12, <1>13 DEF ExecNext, Child
\* Only the commands that may write to a file change it, and the file of a
\* caller that is alone is nobody else's output.
LEMMA OutputStandsStep ==
  ASSUME ExecTyped, CallShape, OutputStands, ExecNext
  PROVE  OutputStands'
<1> SUFFICES ASSUME NEW d \in Callers, function'[d] = "do_exec_redirect",
                    AloneOn(d)',
                    child'[d] = "end" \/ (Waited(d)' /\ status'[d] = "zero")
             PROVE  content'[outputfile'[d]] = d
  BY DEF OutputStands
<1>0. /\ ChildFits(d) /\ OutputFits(d)
      /\ \A c \in Callers : ChildFits(c) /\ OutputFits(c)
  BY DEF CallShape
<1> USE <1>0, ExecAssumption
    DEF ExecTyped, Functions, Ends, arguments, process, printing, CallerTo, ChildTo,
        ChildFits, OutputFits, Waited, Running
<1>a. child[d] # "none"
  BY DEF ExecNext, Child, Refuse, CallFunction, ForkChild, WaitChild, WaitFails,
         OpenOutput, DupOutput, ExecCommand, CommandWrites, CommandEnds,
         ChildExits, ProgramPrints, ProgramFlushes, FirstStep
<1>b. UNCHANGED <<function[d], outputfile[d]>>
  BY <1>a DEF ExecNext, Child, Refuse, CallFunction, ForkChild, WaitChild, WaitFails,
         OpenOutput, DupOutput, ExecCommand, CommandWrites, CommandEnds,
         ChildExits, ProgramPrints, ProgramFlushes
<1>c. outputfile[d] \in OutFiles
  BY <1>b
<1>d. ASSUME NEW c \in Callers, c # d PROVE outputfile[c] # outputfile[d]
  <2>1. outputfile'[c] # outputfile[d]
    BY <1>b, <1>d DEF AloneOn
  <2>2. outputfile'[c] = outputfile[c] \/ caller[c] = "idle"
    BY DEF ExecNext, Child, Refuse, CallFunction, ForkChild, WaitChild,
           WaitFails, OpenOutput, DupOutput, ExecCommand, CommandWrites,
           CommandEnds, ChildExits, ProgramPrints, ProgramFlushes
  <2>3. QED
    BY <2>1, <2>2, <1>c
<1>e. AloneOn(d)
  BY <1>d DEF AloneOn
<1>f. child[d] = "end" \/ (Waited(d) /\ status[d] = "zero")
        => content[outputfile[d]] = d
  BY <1>b, <1>e DEF OutputStands
<1>g. ASSUME content' = content,
             child[d] = "end" \/ (Waited(d) /\ status[d] = "zero")
      PROVE  content'[outputfile'[d]] = d
  BY <1>b, <1>f, <1>g
<1>2. ASSUME NEW c \in Callers, Refuse(c) \/ CallFunction(c)
      PROVE  content'[outputfile'[d]] = d
  BY <1>2, <1>g DEF Refuse, CallFunction
<1>3. ASSUME NEW c \in Callers, ForkChild(c)
      PROVE  content'[outputfile'[d]] = d
  BY <1>3, <1>g DEF ForkChild, FirstStep
<1>4. ASSUME NEW c \in Callers, WaitChild(c) \/ WaitFails(c)
      PROVE  content'[outputfile'[d]] = d
  BY <1>4, <1>g DEF WaitChild, WaitFails
<1>6. ASSUME NEW c \in Callers, OpenOutput(c)
      PROVE  content'[outputfile'[d]] = d
  <2>1. child'[d] = child[d] /\ status' = status /\ c # d
    BY <1>6 DEF OpenOutput
  <2>2. content'[outputfile[d]] = content[outputfile[d]]
    BY <1>6, <1>d, <2>1, <1>c DEF OpenOutput
  <2>3. QED
    BY <2>1, <2>2, <1>b, <1>f
<1>7. ASSUME NEW c \in Callers, DupOutput(c) \/ ExecCommand(c)
      PROVE  content'[outputfile'[d]] = d
  BY <1>7, <1>g DEF DupOutput, ExecCommand
<1>9. ASSUME NEW c \in Callers, CommandWrites(c)
      PROVE  content'[outputfile'[d]] = d
  <2>1. CASE c = d
    BY <1>9, <2>1, <1>b, <1>c DEF CommandWrites, Puts
  <2>2. CASE c # d
    <3>1. child'[d] = child[d] /\ status' = status
      BY <1>9, <2>2 DEF CommandWrites
    <3>2. content'[outputfile[d]] = content[outputfile[d]]
      BY <1>9, <1>d, <2>2, <1>c DEF CommandWrites, Puts
    <3>3. QED
      BY <3>1, <3>2, <1>b, <1>f
  <2>3. QED
    BY <2>1, <2>2
<1>10. ASSUME NEW c \in Callers, CommandEnds(c)
       PROVE  content'[outputfile'[d]] = d
  BY <1>10, <1>g DEF CommandEnds
<1>11. ASSUME NEW c \in Callers, ChildExits(c)
       PROVE  content'[outputfile'[d]] = d
  <2>1. child'[d] = child[d] /\ status'[d] = status[d] /\ c # d
    BY <1>11 DEF ChildExits
  <2>2. content'[outputfile[d]] = content[outputfile[d]]
    BY <1>11, <1>d, <2>1, <1>c DEF ChildExits, Puts
  <2>3. QED
    BY <2>1, <2>2, <1>b, <1>f
<1>12. CASE ProgramPrints \/ ProgramFlushes
  BY <1>12, <1>g DEF ProgramPrints, ProgramFlushes
<1>14. QED
  BY <1>2, <1>3, <1>4, <1>6, <1>7, <1>9, <1>10, <1>11, <1>12
     DEF ExecNext, Child

\* A child that ended without becoming its command stays such a child.
LEMMA NeverBecameStays ==
  ASSUME ExecTyped, CallShape, ExecNext, NEW c \in Callers, NeverBecame(c)
  PROVE  NeverBecame(c)' /\ outputfile'[c] = outputfile[c]
<1>0. ChildFits(c)
  BY DEF CallShape
<1> USE <1>0 DEF ExecTyped, ChildFits, NeverBecame, arguments, process, printing,
        CallerTo, ChildTo
<1>1. QED
  BY DEF ExecNext, Child, Refuse, CallFunction, ForkChild, WaitChild,
         WaitFails, OpenOutput, DupOutput, ExecCommand, CommandWrites,
         CommandEnds, ChildExits, ProgramPrints, ProgramFlushes

\* Another copy of the text comes from the program's flush, once, or from a
\* child that never became its command.
LEMMA TextStandsStep ==
  ASSUME ExecTyped, CallShape, TextStands, ExecNext
  PROVE  TextStands'
<1> DEFINE Came == \E c \in Callers : NeverBecame(c)
           Doubled == on_terminal > 1 \/ (unwritten /\ on_terminal > 0)
<1>1. Came => Came'
  BY NeverBecameStays
<1>2. Doubled' => Came'
  <2>1. Doubled => Came
    BY DEF TextStands
  <2>2. CASE UNCHANGED printing
    BY <1>1, <2>1, <2>2 DEF printing
  <2>3. CASE ProgramPrints
    BY <2>3 DEF ProgramPrints
  <2>4. CASE ProgramFlushes
    <3>1. on_terminal \in Nat /\ on_terminal' = on_terminal + 1
            /\ unwritten' = FALSE /\ unwritten
      BY <2>4 DEF ProgramFlushes, ExecTyped
    <3>2. Doubled' => on_terminal > 0
      BY <3>1
    <3>3. QED
      BY <3>1, <3>2, <2>1, <1>1
  <2>5. ASSUME NEW c \in Callers, ChildExits(c) PROVE Doubled' => Came'
    <3>1. CASE inherited[c]
      BY <2>5, <3>1
         DEF ChildExits, NeverBecame, CallShape, CopyFits, ChildFits, Running,
             Waited, ChildTo, ExecTyped, arguments
    <3>2. CASE ~inherited[c]
      BY <2>5, <3>2, <2>1, <1>1 DEF ChildExits
    <3>3. QED
      BY <3>1, <3>2
  <2>6. QED
    BY <2>2, <2>3, <2>4, <2>5
       DEF ExecNext, Child, Refuse, CallFunction, ForkChild, WaitChild,
           WaitFails, OpenOutput, DupOutput, ExecCommand, CommandWrites,
           CommandEnds
<1>3. ASSUME NEW f \in OutFiles, content'[f] = Text
      PROVE  \E c \in Callers : NeverBecame(c)' /\ outputfile'[c] = f
  <2>1. CASE content[f] = Text
    <3>1. PICK c \in Callers : NeverBecame(c) /\ outputfile[c] = f
      BY <2>1 DEF TextStands
    <3>2. QED
      BY <3>1, NeverBecameStays
  <2>2. CASE content[f] # Text
    <3>1. content' # content
      BY <1>3, <2>2
    <3>2. ASSUME NEW c \in Callers, OpenOutput(c) PROVE FALSE
      BY <3>2, <1>3, <2>2, ExecAssumption DEF OpenOutput, ExecTyped
    <3>3. ASSUME NEW c \in Callers, CommandWrites(c) PROVE FALSE
      BY <3>3, <1>3, <2>2, ExecAssumption DEF CommandWrites, Puts, ExecTyped
    <3>4. ASSUME NEW c \in Callers, ChildExits(c)
          PROVE  NeverBecame(c)' /\ outputfile'[c] = f
      <4>1. inherited[c] /\ child_out[c] = f
        BY <3>4, <1>3, <2>2 DEF ChildExits, Puts, ExecTyped
      <4>2. outputfile[c] = f /\ function[c] # "do_system"
        BY <4>1, ExecAssumption DEF CallShape, OutputFits, CopyFits
      <4>3. QED
        BY <3>4, <4>1, <4>2
           DEF ChildExits, NeverBecame, CallShape, ChildFits, Running,
               Waited, ChildTo, ExecTyped, arguments
    <3>5. QED
      BY <3>1, <3>2, <3>3, <3>4
         DEF ExecNext, Child, Refuse, CallFunction, ForkChild, WaitChild,
             WaitFails, DupOutput, ExecCommand, CommandEnds, ProgramPrints,
             ProgramFlushes
  <2>3. QED
    BY <2>1, <2>2
<1>4. QED
  BY <1>2, <1>3 DEF TextStands

\* A child that exits is counted as ended in the same step.
LEMMA PrintingsStep ==
  ASSUME ExecTyped, CallShape, Printings, ExecNext
  PROVE  Printings'
<1> DEFINE Exited(c) == child[c] \in {"zombie", "reaped"}
           Ended == {c \in Callers : Exited(c)}
           Card == Cardinality(Ended)
           Own == IF unwritten THEN 0 ELSE 1
<1>1. IsFiniteSet(Ended) /\ IsFiniteSet(Ended') /\ Card \in Nat /\ Card' \in Nat
  BY ExecAssumption, FS_Subset, FS_CardinalityType
<1>2. Ended \subseteq Ended'
  BY DEF ExecTyped, ExecNext, Child, Refuse, CallFunction, ForkChild, WaitChild,
         WaitFails, OpenOutput, DupOutput, ExecCommand, CommandWrites,
         CommandEnds, ChildExits, ProgramPrints, ProgramFlushes, ChildTo,
         process, CallShape, ChildFits
<1>3. Card <= Card'
  BY <1>1, <1>2, FS_Subset
<1>4. on_terminal \in Nat /\ on_terminal <= Card + Own /\ unwritten \in BOOLEAN
  BY DEF Printings, Waited, ExecTyped
<1>5. on_terminal' \in Nat /\ on_terminal' <= Card' + Own'
  <2>1. CASE UNCHANGED printing
    BY <1>1, <1>3, <1>4, <2>1 DEF printing
  <2>2. CASE ProgramPrints
    BY <1>1, <1>3, <1>4, <2>2 DEF ProgramPrints
  <2>3. CASE ProgramFlushes
    BY <1>1, <1>3, <1>4, <2>3 DEF ProgramFlushes
  <2>4. ASSUME NEW c \in Callers, ChildExits(c)
        PROVE  on_terminal' \in Nat /\ on_terminal' <= Card' + Own'
    <3>1. c \in Ended' /\ c \notin Ended
      BY <2>4 DEF ChildExits, ChildTo, ExecTyped
    <3>2. Ended \cup {c} \subseteq Ended'
      BY <3>1, <1>2
    <3>3. IsFiniteSet(Ended \cup {c}) /\ Cardinality(Ended \cup {c}) = Card + 1
      BY <1>1, <3>1, FS_AddElement
    <3>4. Card + 1 <= Card'
      BY <3>2, <3>3, <1>1, FS_Subset
    <3>5. /\ on_terminal' = on_terminal \/ on_terminal' = on_terminal + 1
          /\ UNCHANGED unwritten
      BY <2>4, <1>4 DEF ChildExits
    <3>6. Own' = Own /\ Own \in Nat
      BY <3>5
    <3> HIDE DEF Own, Card
    <3>7. QED
      BY <3>4, <3>5, <3>6, <1>1, <1>4
  <2>5. QED
    BY <2>1, <2>2, <2>3, <2>4
       DEF ExecNext, Child, Refuse, CallFunction, ForkChild, WaitChild,
           WaitFails, OpenOutput, DupOutput, ExecCommand, CommandWrites,
           CommandEnds
<1>6. QED
  BY <1>5 DEF Printings, Waited

\* Before the first call nothing is printed and no child is there.
LEMMA ExecInvInit ==
  ASSUME ExecInit
  PROVE  ExecInv
<1> USE ExecAssumption DEF ExecInit
<1>1. ExecTyped
  BY DEF ExecTyped
<1>2. CallShape
  BY DEF CallShape, ChildFits, OutputFits, CopyFits, Running, Waited
<1>3. OutputStands /\ TextStands
  BY DEF OutputStands, TextStands, Waited
<1>4. {c \in Callers : Waited(c)} = {}
  BY DEF Waited
<1>5. Printings
  BY <1>4, FS_EmptySet DEF Printings
<1>6. QED
  BY <1>1, <1>2, <1>3, <1>5 DEF ExecInv

\* Every step of a caller, a child or the program keeps the invariant.
LEMMA ExecInvStep ==
  ASSUME ExecInv, [ExecNext]_execVars
  PROVE  ExecInv'
<1>1. CASE UNCHANGED execVars
  <2>1. ExecTyped' /\ CallShape'
    BY <1>1 DEF ExecInv, execVars, arguments, process, printing, ExecTyped,
       CallShape, ChildFits, OutputFits, CopyFits, Running, Waited
  <2>2. OutputStands' /\ Printings'
    BY <1>1 DEF ExecInv, execVars, arguments, process, printing,
       OutputStands, Printings, AloneOn, Waited
  <2>3. TextStands'
    BY <1>1 DEF ExecInv, execVars, arguments, process, printing,
       TextStands, NeverBecame
  <2>4. QED
    BY <2>1, <2>2, <2>3 DEF ExecInv
<1>2. CASE ExecNext
  BY <1>2, ExecTypedStep, CallShapeStep, OutputStandsStep,
     TextStandsStep, PrintingsStep DEF ExecInv
<1>3. QED
  BY <1>1, <1>2

\* The invariant of the calls.
LEMMA ExecInvHolds == ExecSpec => []ExecInv
BY ExecInvInit, ExecInvStep, PTL DEF ExecSpec

\* What it says of the types.
LEMMA ExecInvTypes ==
  ASSUME ExecInv
  PROVE  ExecTypeOK
<1> DEFINE Ended == {c \in Callers : Waited(c)}
<1>1. /\ IsFiniteSet(Callers) /\ Ended \subseteq Callers
      /\ Cardinality(Callers) \in Nat
  BY ExecAssumption, FS_CardinalityType
<1>2. Cardinality(Ended) <= Cardinality(Callers) /\ Cardinality(Ended) \in Nat
  BY <1>1, FS_Subset, FS_CardinalityType
<1>3. on_terminal \in Nat
        /\ on_terminal <= Cardinality(Ended) + (IF unwritten THEN 0 ELSE 1)
  BY DEF ExecInv, Printings, ExecTyped
<1> HIDE DEF Ended
<1>4. on_terminal <= Cardinality(Callers) + 1
  BY <1>1, <1>2, <1>3
<1>5. on_terminal \in 0 .. Cardinality(Callers) + 1
  BY <1>1, <1>3, <1>4
<1>6. QED
  BY <1>5 DEF ExecInv, ExecTyped, ExecTypeOK

\* The calls keep to the code's stages, and the text is printed once by the
\* program and once more by each child at most.
THEOREM CallsTyped == ExecSpec => []ExecTypeOK
BY ExecInvHolds, ExecInvTypes, PTL

\* TRUE is returned exactly when the caller's own command was started and
\* ended with status 0, for any number of callers (do_system, do_exec,
\* do_exec_redirect).
THEOREM ResultsAreDeserved == ExecSpec => []TrueMeansDone
<1>1. ExecInv => TrueMeansDone
  BY DEF ExecInv, CallShape, ChildFits, TrueMeansDone
<1>2. QED
  BY <1>1, ExecInvHolds, PTL

\* The file of a redirected call that is TRUE holds its command's output,
\* whatever the other callers do with other files (do_exec_redirect).
THEOREM RedirectedOutput == ExecSpec => []OutputIsTheCommands
<1>1. ExecInv => OutputIsTheCommands
  BY DEF ExecInv, CallShape, ChildFits, OutputStands, OutputIsTheCommands,
         AloneOn, Waited
<1>2. QED
  BY <1>1, ExecInvHolds, PTL

\* A second copy of the printed text comes from a child that never became its
\* command, and from nowhere else.
THEOREM TextIsNotDoubled == ExecSpec => []TextAppearsOnce
<1>1. ExecInv => TextAppearsOnce
  BY DEF ExecInv, TextStands, TextAppearsOnce
<1>2. QED
  BY <1>1, ExecInvHolds, PTL

-----------------------------------------------------------------------------
(***************************************************************************)
(* DeviceNode                                                              *)
(*                                                                         *)
(* What the name leads to follows from what the one run under way has done *)
(* so far: a run that nobody has overlapped knows the module's number from *)
(* its awk on, and that its node is the module's after its mknod.          *)
(***************************************************************************)

\* A run between its first command and its last.
Working(s) == step[s] \notin Over

\* ... that no other run has overlapped: then none does (OneRun).
Alone(s) == Working(s) /\ s \notin overlapped

OneRun == \A s, t \in Scripts : Alone(s) /\ Working(t) => t = s

\* What it read is the module's number, ...
KnowsNumber ==
  \A s \in Scripts :
    Alone(s) /\ step[s] \in {"rm", "mknod", "chgrp"} => major[s] = aesd_major

\* ... what it made is the module's node, ...
HasNode ==
  \A s \in Scripts :
    Alone(s) /\ Step(s, "chgrp") => Loaded /\ node = Device(aesd_major)

\* ... and what it has removed has not come back.
HasUnloaded == \A s \in Scripts : Alone(s) /\ Step(s, "rm_stale") => ~Loaded

\* A result stands only while nothing is under way.
Settled ==
  settled \in {"loaded", "unloaded"} => \A s \in Scripts : ~Working(s)

\* The inductive invariant.  The two invariants themselves lean on it: without
\* KnowsNumber a mknod may make a node of an older module.
NodeInv ==
  /\ OneRun /\ KnowsNumber /\ HasNode /\ HasUnloaded /\ Settled
  /\ NameIsTheDevice /\ NoStaleNode

-----------------------------------------------------------------------------

\* Each step of a script, the server or another driver keeps the types.
LEMMA NodeTypeStep ==
  ASSUME NodeTypeOK, [NodeNext]_nodeVars
  PROVE  NodeTypeOK'
<1> USE NodeAssumption DEF NodeTypeOK, Over
<1> USE DEF scripts, module, dev_file, begun
<1>1. CASE UNCHANGED nodeVars
  BY <1>1 DEF nodeVars
<1>2. ASSUME NEW s \in Scripts, Insert(s) PROVE NodeTypeOK'
  BY <1>2 DEF Insert, Step, ToStep, Begin, Finish, InitModule, UnderWay
<1>3. ASSUME NEW s \in Scripts, ReadMajor(s) PROVE NodeTypeOK'
  BY <1>3 DEF ReadMajor, ToStep
<1>4. ASSUME NEW s \in Scripts, RemoveNode(s) PROVE NodeTypeOK'
  BY <1>4 DEF RemoveNode, ToStep
<1>5. ASSUME NEW s \in Scripts, MakeNode(s) PROVE NodeTypeOK'
  BY <1>5 DEF MakeNode, ToStep, Finish
<1>6. ASSUME NEW s \in Scripts, SetAccess(s) PROVE NodeTypeOK'
  BY <1>6 DEF SetAccess, ToStep, Finish
<1>7. ASSUME NEW s \in Scripts, RemoveModule(s) PROVE NodeTypeOK'
  BY <1>7 DEF RemoveModule, ToStep, Begin, Finish, UnderWay
<1>8. ASSUME NEW s \in Scripts, RemoveStale(s) PROVE NodeTypeOK'
  BY <1>8 DEF RemoveStale, ToStep, Finish
<1>9. ASSUME NEW t \in Openers, ServerOpens(t) PROVE NodeTypeOK'
  BY <1>9 DEF ServerOpens
<1>10. ASSUME NEW t \in Openers, ServerCloses(t) PROVE NodeTypeOK'
  BY <1>10 DEF ServerCloses
<1>11. ASSUME NEW m \in Majors, OtherDriverLoads(m) PROVE NodeTypeOK'
  BY <1>11 DEF OtherDriverLoads
<1>12. QED
  BY <1>1, <1>2, <1>3, <1>4, <1>5, <1>6, <1>7, <1>8, <1>9, <1>10, <1>11
     DEF NodeNext

\* Only the steps, numbers and files the code has occur.
THEOREM NodeTyped == NodeSpec => []NodeTypeOK
<1>1. NodeInit => NodeTypeOK
  BY DEF NodeInit, NodeTypeOK, Over
<1>2. QED
  BY <1>1, NodeTypeStep, PTL DEF NodeSpec

-----------------------------------------------------------------------------

\* No step, of the run under way or of anybody else, breaks what it knows.
LEMMA NodeInvStep ==
  ASSUME NodeTypeOK, NodeInv, [NodeNext]_nodeVars
  PROVE  NodeInv'
<1> USE NodeAssumption DEF NodeTypeOK, NodeInv, Over, Working, Alone, OneRun,
        KnowsNumber, HasNode, HasUnloaded, Settled, NameIsTheDevice,
        NoStaleNode, Step, Loaded, Absent, Regular, Device
<1> USE DEF scripts, module, dev_file, begun
<1>1. CASE UNCHANGED nodeVars
  BY <1>1 DEF nodeVars
<1>2. ASSUME NEW s \in Scripts, Insert(s) PROVE NodeInv'
  BY <1>2 DEF Insert, ToStep, Begin, Finish, InitModule, UnderWay
<1>3. ASSUME NEW s \in Scripts, ReadMajor(s) PROVE NodeInv'
  BY <1>3 DEF ReadMajor, ToStep
<1>4. ASSUME NEW s \in Scripts, RemoveNode(s) PROVE NodeInv'
  BY <1>4 DEF RemoveNode, ToStep
<1>5. ASSUME NEW s \in Scripts, MakeNode(s) PROVE NodeInv'
  BY <1>5 DEF MakeNode, ToStep, Finish, UnderWay
<1>6. ASSUME NEW s \in Scripts, SetAccess(s) PROVE NodeInv'
  BY <1>6 DEF SetAccess, ToStep, Finish, UnderWay
<1>7. ASSUME NEW s \in Scripts, RemoveModule(s) PROVE NodeInv'
  BY <1>7 DEF RemoveModule, ToStep, Begin, Finish, UnderWay
<1>8. ASSUME NEW s \in Scripts, RemoveStale(s) PROVE NodeInv'
  BY <1>8 DEF RemoveStale, ToStep, Finish, UnderWay
<1>9. ASSUME NEW t \in Openers, ServerOpens(t) PROVE NodeInv'
  BY <1>9 DEF ServerOpens
<1>10. ASSUME NEW t \in Openers, ServerCloses(t) PROVE NodeInv'
  BY <1>10 DEF ServerCloses
<1>11. ASSUME NEW m \in Majors, OtherDriverLoads(m) PROVE NodeInv'
  BY <1>11 DEF OtherDriverLoads
<1>12. QED
  BY <1>1, <1>2, <1>3, <1>4, <1>5, <1>6, <1>7, <1>8, <1>9, <1>10, <1>11
     DEF NodeNext

\* The invariant of the scripts.
LEMMA NodeInvHolds == NodeSpec => []NodeInv
<1>1. NodeInit => NodeInv
  BY NodeAssumption
     DEF NodeInit, NodeInv, OneRun, KnowsNumber, HasNode, HasUnloaded, Settled,
         NameIsTheDevice, NoStaleNode, Alone, Working, Over, Absent
<1>2. QED
  BY <1>1, NodeTyped, NodeInvStep, PTL DEF NodeSpec

\* After a run that ended well, the name is the module's device or no device,
\* however many runs, openings and other drivers there were
\* (aesdchar_load, aesdchar_unload).
THEOREM NameLeadsToTheDevice == NodeSpec => []NameIsTheDevice
<1>1. NodeInv => NameIsTheDevice
  BY DEF NodeInv
<1>2. QED
  BY <1>1, NodeInvHolds, PTL

\* Runs that do not overlap leave no node of a module that has gone, except
\* between the rmmod and the rm of an unload.
THEOREM NodesAreFresh == NodeSpec => []NoStaleNode
<1>1. NodeInv => NoStaleNode
  BY DEF NodeInv
<1>2. QED
  BY <1>1, NodeInvHolds, PTL
-----------------------------------------------------------------------------
(***************************************************************************)
(* FinderTest                                                              *)
(*                                                                         *)
(* A run that nobody disturbs knows at every line which files there are    *)
(* below its directory, and that the lost writes are those it caused.      *)
(***************************************************************************)

\* An open file is in its directory, and a writer at work is below its bound.
FinderTyped ==
  /\ FinderTypeOK
  /\ \A r \in Runs : /\ opened[r] => File(r) \in files
                     /\ Line(r, "fclose") => i[r] <= NUMFILES[r]

\* Every step of a run keeps the types.
LEMMA FinderTypedStep ==
  ASSUME FinderTyped, FinderNext
  PROVE  FinderTyped'
<1> USE FinderAssumption
    DEF FinderTyped, FinderTypeOK, counting, filesystem, history, Line, ToLine, File,
        Dirs
<1>0. /\ files \subseteq (Subdirs \cup {Root}) \X Nat /\ written \subseteq files
      /\ IsFiniteSet(files)
  OBVIOUS
<1>1. ASSUME NEW r \in Runs, NEW d, RemoveTree(r, d), UNCHANGED i,
             UNCHANGED lost
      PROVE  /\ files' \subseteq (Subdirs \cup {Root}) \X Nat
             /\ written' \subseteq files' /\ IsFiniteSet(files')
             /\ opened' \in [Runs -> BOOLEAN] /\ disturbed' \in [Runs -> BOOLEAN]
             /\ dirs' \subseteq Subdirs \cup {Root}
             /\ \A o \in Runs : opened'[o] => File(o)' \in files'
  <2>1. files' \subseteq files /\ written' \subseteq files'
    BY <1>0, <1>1 DEF RemoveTree, FilesBelow
  <2>2. IsFiniteSet(files')
    BY <1>0, <2>1, FS_Subset
  <2>3. opened' \in [Runs -> BOOLEAN] /\ disturbed' \in [Runs -> BOOLEAN]
    BY <1>1 DEF RemoveTree, Disturbs
  <2>4. dirs' \subseteq Subdirs \cup {Root}
    BY <1>1 DEF RemoveTree
  <2>5. ASSUME NEW o \in Runs, opened'[o] PROVE File(o)' \in files'
    <3>1. opened[o] /\ ~Below(WRITEDIR[o], d)
      BY <1>1, <2>5 DEF RemoveTree
    <3>2. File(o) \in files /\ File(o)' = File(o) /\ File(o)[1] = WRITEDIR[o]
      BY <1>1, <3>1
    <3>3. QED
      BY <1>1, <3>1, <3>2 DEF RemoveTree, FilesBelow
  <2>6. QED
    BY <1>0, <2>1, <2>2, <2>3, <2>4, <2>5
<1>2. ASSUME NEW r \in Runs, RemoveOld(r) PROVE FinderTyped'
  <2>1. /\ files' \subseteq (Subdirs \cup {Root}) \X Nat
        /\ written' \subseteq files' /\ IsFiniteSet(files')
        /\ opened' \in [Runs -> BOOLEAN] /\ disturbed' \in [Runs -> BOOLEAN]
        /\ dirs' \subseteq Subdirs \cup {Root}
        /\ \A o \in Runs : opened'[o] => File(o)' \in files'
    BY <1>1, <1>2 DEF RemoveOld
  <2>2. QED
    BY <1>2, <2>1 DEF RemoveOld
<1>3. ASSUME NEW r \in Runs, MakeDir(r) PROVE FinderTyped'
  <2>1. WRITEDIR[r] \in Subdirs \cup {Root}
    OBVIOUS
  <2>2. QED
    BY <1>3, <2>1 DEF MakeDir, Abort
<1>4. ASSUME NEW r \in Runs, CheckDir(r) PROVE FinderTyped'
  BY <1>4 DEF CheckDir, Abort
<1>5. ASSUME NEW r \in Runs, WriterOpens(r) PROVE FinderTyped'
  <2>1. CASE Abort(r)
    BY <2>1 DEF Abort
  <2>2. CASE ~Abort(r)
    <3>1. /\ Line(r, "writer") /\ i[r] <= NUMFILES[r]
          /\ files' = files \cup {File(r)} /\ written' = written \ {File(r)}
          /\ opened' = [opened EXCEPT ![r] = TRUE]
          /\ line' = [line EXCEPT ![r] = "fclose"]
          /\ Disturbs(r, WRITEDIR[r]) /\ UNCHANGED <<i, counting, dirs, lost>>
      BY <1>5, <2>2 DEF WriterOpens
    <3>2. File(r) \in (Subdirs \cup {Root}) \X Nat
      OBVIOUS
    <3>3. IsFiniteSet(files')
      BY <1>0, <3>1, FS_AddElement
    <3>4. /\ files' \subseteq (Subdirs \cup {Root}) \X Nat
          /\ written' \subseteq files'
      BY <1>0, <3>1, <3>2
    <3>5. disturbed' \in [Runs -> BOOLEAN]
      BY <3>1 DEF Disturbs
    <3>6. QED
      BY <3>1, <3>3, <3>4, <3>5
  <2>3. QED
    BY <2>1, <2>2
<1>6. ASSUME NEW r \in Runs, WriterCloses(r) PROVE FinderTyped'
  <2>1. CASE Abort(r)
    BY <2>1 DEF Abort
  <2>2. CASE ~Abort(r)
    <3>1. /\ Line(r, "fclose")
          /\ \/ opened[r] /\ written' = written \cup {File(r)} /\ UNCHANGED lost
             \/ lost' = [lost EXCEPT ![r] = TRUE] /\ UNCHANGED written
          /\ i' = [i EXCEPT ![r] = @ + 1]
          /\ line' = [line EXCEPT ![r] = "writer"]
          /\ opened' = [opened EXCEPT ![r] = FALSE]
          /\ Disturbs(r, WRITEDIR[r]) /\ UNCHANGED <<counting, dirs, files>>
      BY <1>6, <2>2 DEF WriterCloses
    <3>2. written' \subseteq files'
      BY <3>1, <1>0
    <3>3. lost' \in [Runs -> BOOLEAN] /\ disturbed' \in [Runs -> BOOLEAN]
      BY <3>1 DEF Disturbs
    <3>4. i[r] \in Nat /\ i[r] + 1 \in 1 .. NUMFILES[r] + 1
      <4>1. i[r] \in Nat /\ NUMFILES[r] \in Nat
        OBVIOUS
      <4>2. i[r] <= NUMFILES[r]
        BY <3>1
      <4>3. QED
        BY <4>1, <4>2
    <3>5. i' \in [Runs -> Nat] /\ \A o \in Runs : i'[o] \in 1 .. NUMFILES[o] + 1
      BY <3>1, <3>4
    <3>6. ASSUME NEW o \in Runs
          PROVE  /\ opened'[o] => File(o)' \in files'
                 /\ Line(o, "fclose")' => i'[o] <= NUMFILES[o]
      BY <3>1
    <3>7. QED
      BY <3>1, <3>2, <3>3, <3>5, <3>6
  <2>3. QED
    BY <2>1, <2>2
<1>7. ASSUME NEW r \in Runs, CountFiles(r) PROVE FinderTyped'
  <2>1. Cardinality(FilesBelow(files, WRITEDIR[r])) \in Nat
    BY <1>0, FS_Subset, FS_CardinalityType DEF FilesBelow
  <2>2. QED
    BY <1>7, <2>1 DEF CountFiles, Abort
<1>8. ASSUME NEW r \in Runs, CountMatches(r) PROVE FinderTyped'
  <2>1. FilesBelow(written, WRITEDIR[r]) \subseteq files
    BY <1>0 DEF FilesBelow
  <2>2. Cardinality(FilesBelow(written, WRITEDIR[r])) \in Nat
    BY <1>0, <2>1, FS_Subset, FS_CardinalityType
  <2>3. QED
    BY <1>8, <2>2 DEF CountMatches
<1>9. ASSUME NEW r \in Runs, RemoveRoot(r) PROVE FinderTyped'
  <2>1. /\ files' \subseteq (Subdirs \cup {Root}) \X Nat
        /\ written' \subseteq files' /\ IsFiniteSet(files')
        /\ opened' \in [Runs -> BOOLEAN] /\ disturbed' \in [Runs -> BOOLEAN]
        /\ dirs' \subseteq Subdirs \cup {Root}
        /\ \A o \in Runs : opened'[o] => File(o)' \in files'
    BY <1>1, <1>9 DEF RemoveRoot
  <2>2. QED
    BY <1>9, <2>1 DEF RemoveRoot
<1>10. ASSUME NEW r \in Runs, Compare(r) PROVE FinderTyped'
  BY <1>10 DEF Compare
<1>11. QED
  BY <1>2, <1>3, <1>4, <1>5, <1>6, <1>7, <1>8, <1>9, <1>10 DEF FinderNext

\* At first there is no file.
LEMMA FinderTypedInit ==
  ASSUME FinderInit
  PROVE  FinderTyped
BY FinderAssumption, FS_EmptySet
   DEF FinderInit, FinderTyped, FinderTypeOK, Line, File, Dirs

\* A step of no run changes nothing.
LEMMA FinderTypedBox ==
  ASSUME FinderTyped, [FinderNext]_finderVars
  PROVE  FinderTyped'
<1>1. CASE UNCHANGED finderVars
  BY <1>1 DEF FinderTyped, FinderTypeOK, finderVars, counting, filesystem,
              history, Line, File
<1>2. QED
  BY <1>1, FinderTypedStep

\* Runs go through the lines of the script, and count what there is.
THEOREM FinderTypes == FinderSpec => []FinderTyped
BY FinderTypedInit, FinderTypedBox, PTL DEF FinderSpec

\* The files below a run's directory, those with the string, and the files of
\* its first n rounds.
Listing(r) == FilesBelow(files, WRITEDIR[r])
Filled(r)  == FilesBelow(written, WRITEDIR[r])
FirstFiles(r, n) == {WRITEDIR[r]} \X (1 .. n)

\* What an undisturbed run knows at each line of the script.
Fresh(r)  == i[r] = 1 /\ ~lost[r]
Cleared(r)  == Listing(r) = {}
Writes(r)   == /\ Listing(r) = FirstFiles(r, i[r] - 1)
               /\ lost[r] <=> Filled(r) # FirstFiles(r, i[r] - 1)
Closes(r)   == /\ Listing(r) = FirstFiles(r, i[r]) /\ File(r) \notin written
               /\ lost[r] <=> Filled(r) # FirstFiles(r, i[r] - 1)
Greps(r)    == /\ Listing(r) = FirstFiles(r, NUMFILES[r])
               /\ lost[r] <=> Filled(r) # FirstFiles(r, NUMFILES[r])
Counted(r)  == file_count[r] = NUMFILES[r]
Matched(r)  == /\ match_count[r] <= NUMFILES[r]
               /\ match_count[r] = NUMFILES[r] <=> ~lost[r]
Deserved(r) == line[r] = "success" <=> ~lost[r]

RunSoFar(r) ==
  /\ line[r] \in {"start", "mkdir", "check"} => Fresh(r)
  /\ line[r] \in {"mkdir", "check"} => Cleared(r)
  /\ line[r] = "writer" => Writes(r)
  /\ line[r] = "fclose" => Closes(r)
  /\ line[r] = "grep" => Greps(r)
  /\ line[r] \in {"grep", "rm", "compare"} => Counted(r)
  /\ line[r] \in {"rm", "compare"} => Matched(r)
  /\ line[r] \in {"success", "failed"} => Deserved(r)

RunsKnow == \A r \in Runs : ~disturbed[r] => RunSoFar(r)

-----------------------------------------------------------------------------

\* Directories are one level deep: what is below two of them makes one of them
\* be below the other.
LEMMA TreesMeet ==
  ASSUME NEW f, NEW d, NEW e, Below(f, d), Below(f, e)
  PROVE  Below(d, e) \/ Below(e, d)
BY DEF Below

\* What another run does in a directory apart leaves the files of r.
LEMMA ApartRemoves ==
  ASSUME NEW d, NEW e, ~Below(d, e), ~Below(e, d), NEW set
  PROVE  FilesBelow(set \ FilesBelow(set, d), e) = FilesBelow(set, e)
BY TreesMeet DEF FilesBelow

\* There are n of the first n files.
LEMMA FirstFilesCount ==
  ASSUME NEW r \in Runs, NEW n \in Nat
  PROVE  IsFiniteSet(FirstFiles(r, n)) /\ Cardinality(FirstFiles(r, n)) = n
<1> DEFINE Dir == {WRITEDIR[r]}
           Numbers == 1 .. n
<1>1. IsFiniteSet(Numbers) /\ Cardinality(Numbers) = n
  BY FS_Interval
<1>2. IsFiniteSet(Dir) /\ Cardinality(Dir) = 1
  BY FS_Singleton
<1>3. FirstFiles(r, n) = Dir \X Numbers
  BY DEF FirstFiles
<1> HIDE DEF Dir, Numbers
<1>4. /\ IsFiniteSet(Dir \X Numbers)
      /\ Cardinality(Dir \X Numbers) = Cardinality(Dir) * Cardinality(Numbers)
  BY <1>1, <1>2, FS_Product
<1>5. 1 * n = n
  OBVIOUS
<1>6. QED
  BY <1>1, <1>2, <1>3, <1>4, <1>5

\* Another run's step either disturbs r or leaves everything r knows.
LEMMA OthersStep ==
  ASSUME FinderTyped, NEW r \in Runs, NEW o \in Runs, o # r,
         ~disturbed'[r], RunSoFar(r),
         \/ RemoveOld(o) \/ MakeDir(o) \/ CheckDir(o) \/ WriterOpens(o)
         \/ WriterCloses(o) \/ CountFiles(o) \/ CountMatches(o)
         \/ RemoveRoot(o) \/ Compare(o)
  PROVE  RunSoFar(r)'
<1> USE DEF counting, filesystem, history, ToLine
<1>1. /\ line'[r] = line[r] /\ i'[r] = i[r] /\ lost'[r] = lost[r]
      /\ file_count'[r] = file_count[r] /\ match_count'[r] = match_count[r]
  BY DEF FinderTyped, FinderTypeOK, RemoveOld, MakeDir, CheckDir, WriterOpens,
         WriterCloses, CountFiles, CountMatches, RemoveRoot, Compare, Abort,
         RemoveTree
<1>2. ASSUME NEW d, Disturbs(o, d), Busy(r)
      PROVE  ~Below(d, WRITEDIR[r]) /\ ~Below(WRITEDIR[r], d)
  BY <1>2 DEF Disturbs
<1>3. ASSUME NEW d, RemoveTree(o, d), Busy(r)
      PROVE  Listing(r)' = Listing(r) /\ Filled(r)' = Filled(r)
  <2>1. ~Below(d, WRITEDIR[r]) /\ ~Below(WRITEDIR[r], d)
    BY <1>2, <1>3 DEF RemoveTree
  <2>2. files' = files \ FilesBelow(files, d)
    BY <1>3 DEF RemoveTree
  <2>3. written' = written \ FilesBelow(files, d)
    BY <1>3 DEF RemoveTree
  <2>4. written \ FilesBelow(files, d) = written \ FilesBelow(written, d)
    BY DEF FilesBelow, FinderTyped, FinderTypeOK
  <2>5. QED
    BY <2>1, <2>2, <2>3, <2>4, ApartRemoves DEF Listing, Filled
<1>4. ASSUME Disturbs(o, WRITEDIR[o]), Busy(r),
             files' \in {files, files \cup {File(o)}},
             written' \in {written, written \cup {File(o)}, written \ {File(o)}}
      PROVE  Listing(r)' = Listing(r) /\ Filled(r)' = Filled(r)
  <2>1. ~Below(WRITEDIR[o], WRITEDIR[r])
    BY <1>2, <1>4
  <2>2. /\ FilesBelow(files \cup {File(o)}, WRITEDIR[r]) = Listing(r)
        /\ FilesBelow(written \cup {File(o)}, WRITEDIR[r]) = Filled(r)
        /\ FilesBelow(written \ {File(o)}, WRITEDIR[r]) = Filled(r)
    BY <2>1 DEF Listing, Filled, File, FilesBelow
  <2>3. files' = files \/ files' = files \cup {File(o)}
    BY <1>4
  <2>4. \/ written' = written \/ written' = written \cup {File(o)}
        \/ written' = written \ {File(o)}
    BY <1>4
  <2>5. Listing(r)' = FilesBelow(files', WRITEDIR[r])
          /\ Filled(r)' = FilesBelow(written', WRITEDIR[r])
    BY DEF Listing, Filled, FilesBelow
  <2>6. QED
    BY <2>2, <2>3, <2>4, <2>5 DEF Listing, Filled
<1>5. Busy(r) => Listing(r)' = Listing(r) /\ Filled(r)' = Filled(r)
  <2>1. CASE UNCHANGED <<files, written>>
    BY <2>1 DEF Listing, Filled
  <2>2. CASE RemoveOld(o) \/ RemoveRoot(o)
    BY <2>2, <1>3 DEF RemoveOld, RemoveRoot
  <2>3. CASE WriterOpens(o) \/ WriterCloses(o)
    <3>1. CASE Abort(o)
      BY <2>1, <3>1 DEF Abort
    <3>2. CASE ~Abort(o)
      BY <2>3, <3>2, <1>4 DEF WriterOpens, WriterCloses
    <3>3. QED
      BY <3>1, <3>2
  <2>4. QED
    BY <2>1, <2>2, <2>3
       DEF MakeDir, CheckDir, CountFiles, CountMatches, Compare, Abort
<1>6. ASSUME line[r] = "fclose" PROVE File(r)' \notin written'
  <2>1. FilesBelow(written', WRITEDIR[r]) = FilesBelow(written, WRITEDIR[r])
    BY <1>5, <1>6 DEF Busy, Filled
  <2>2. File(r) \notin written /\ File(r)' = File(r)
    BY <1>1, <1>6 DEF RunSoFar, Closes, File
  <2>3. QED
    BY <2>1, <2>2 DEF FilesBelow, File, Below
<1>7. Fresh(r)' = Fresh(r) /\ Counted(r)' = Counted(r)
        /\ Matched(r)' = Matched(r) /\ Deserved(r)' = Deserved(r)
  BY <1>1 DEF Fresh, Counted, Matched, Deserved
<1>8. Busy(r) => /\ Cleared(r) => Cleared(r)'
                 /\ Writes(r) => Writes(r)'
                 /\ Greps(r) => Greps(r)'
  BY <1>1, <1>5 DEF Cleared, Writes, Greps, FirstFiles
<1>9. line[r] = "fclose" => Closes(r)'
  BY <1>1, <1>5, <1>6 DEF Closes, FirstFiles, RunSoFar, Busy
<1>10. QED
  BY <1>1, <1>7, <1>8, <1>9 DEF RunSoFar, Busy

\* Each line of the run's own adds to what it knows.
LEMMA OwnStep ==
  ASSUME FinderTyped, NEW r \in Runs, RunSoFar(r),
         \/ RemoveOld(r) \/ MakeDir(r) \/ CheckDir(r) \/ WriterOpens(r)
         \/ WriterCloses(r) \/ CountFiles(r) \/ CountMatches(r)
         \/ RemoveRoot(r) \/ Compare(r)
  PROVE  RunSoFar(r)'
<1> USE FinderAssumption DEF counting, filesystem, history, ToLine, Line
<1>t. /\ i[r] \in Nat /\ NUMFILES[r] \in Nat /\ i[r] <= NUMFILES[r] + 1
      /\ i[r] >= 1 /\ written \subseteq files
      /\ line[r] = "fclose" => i[r] <= NUMFILES[r]
  BY DEF FinderTyped, FinderTypeOK, Line
<1>u. /\ line \in [Runs -> {"start", "mkdir", "check", "writer", "fclose",
                            "grep", "rm", "compare", "success", "failed",
                            "aborted"}]
      /\ i \in [Runs -> Nat] /\ lost \in [Runs -> BOOLEAN]
      /\ file_count \in [Runs -> Nat] /\ match_count \in [Runs -> Nat]
  BY DEF FinderTyped, FinderTypeOK
<1>a. CASE Abort(r)
  <2>1. line'[r] = "aborted"
    BY <1>a, <1>u DEF Abort
  <2>2. QED
    BY <2>1 DEF RunSoFar
<1>1. CASE RemoveOld(r)
  <2>1. line[r] = "start" /\ line'[r] = "mkdir" /\ i' = i /\ lost' = lost
    BY <1>1, <1>u DEF RemoveOld
  <2>2. Fresh(r)'
    BY <2>1 DEF RunSoFar, Fresh
  <2>3. files' = files \ FilesBelow(files, WRITEDIR[r])
    BY <1>1 DEF RemoveOld, RemoveTree
  <2>4. Cleared(r)'
    BY <2>3 DEF Cleared, Listing, FilesBelow
  <2>5. QED
    BY <2>1, <2>2, <2>4 DEF RunSoFar
<1>2. CASE MakeDir(r) /\ ~Abort(r)
  <2>1. /\ line[r] = "mkdir" /\ line'[r] = "check"
        /\ UNCHANGED <<i, files, lost>>
    BY <1>2, <1>u DEF MakeDir
  <2>2. QED
    BY <2>1 DEF RunSoFar, Fresh, Cleared, Listing
<1>3. CASE CheckDir(r) /\ ~Abort(r)
  <2>1. /\ line[r] = "check" /\ line'[r] = "writer"
        /\ UNCHANGED <<i, files, written, lost>>
    BY <1>3, <1>u DEF CheckDir
  <2>2. i[r] = 1 /\ ~lost[r] /\ Listing(r) = {}
    BY <2>1 DEF RunSoFar, Fresh, Cleared
  <2>3. Filled(r) = {}
    BY <2>2, <1>t DEF Listing, Filled, FilesBelow
  <2>4. FirstFiles(r, 0) = {}
    BY DEF FirstFiles
  <2>5. Listing(r)' = {} /\ Filled(r)' = {} /\ ~lost'[r] /\ i'[r] - 1 = 0
    BY <2>1, <2>2, <2>3 DEF Listing, Filled
  <2>6. FirstFiles(r, i[r] - 1)' = {}
    BY <2>5, <2>4 DEF FirstFiles
  <2>7. Writes(r)'
    BY <2>5, <2>6 DEF Writes
  <2>8. QED
    BY <2>1, <2>7 DEF RunSoFar
<1>4. CASE WriterOpens(r) /\ ~Abort(r)
  <2>1. /\ line[r] = "writer" /\ line'[r] = "fclose"
        /\ files' = files \cup {File(r)} /\ written' = written \ {File(r)}
        /\ UNCHANGED <<i, lost>>
    BY <1>4, <1>u DEF WriterOpens
  <2>2. /\ Listing(r) = FirstFiles(r, i[r] - 1)
        /\ lost[r] <=> Filled(r) # FirstFiles(r, i[r] - 1)
    BY <2>1 DEF RunSoFar, Writes
  <2>3. 1 .. i[r] = (1 .. i[r] - 1) \cup {i[r]} /\ i[r] \notin 1 .. i[r] - 1
    BY <1>t
  <2>4. File(r) \notin FirstFiles(r, i[r] - 1)
    BY <2>3 DEF FirstFiles, File
  <2>5. File(r) \notin files
    BY <2>2, <2>4 DEF Listing, FilesBelow, File, Below
  <2>6. written' = written
    BY <2>1, <2>5, <1>t
  <2>7. Listing(r)' = Listing(r) \cup {File(r)}
    BY <2>1 DEF Listing, FilesBelow, File, Below
  <2>8. FirstFiles(r, i[r]) = FirstFiles(r, i[r] - 1) \cup {File(r)}
    BY <2>3 DEF FirstFiles, File
  <2>9. /\ FirstFiles(r, i[r])' = FirstFiles(r, i[r])
        /\ FirstFiles(r, i[r] - 1)' = FirstFiles(r, i[r] - 1)
        /\ Filled(r)' = Filled(r) /\ File(r)' = File(r)
    BY <2>1, <2>6 DEF FirstFiles, Filled, File
  <2>10. Closes(r)'
    BY <2>1, <2>2, <2>7, <2>8, <2>9 DEF Closes
  <2>11. QED
    BY <2>1, <2>10 DEF RunSoFar
<1>5. CASE WriterCloses(r) /\ ~Abort(r)
  <2>1. /\ line[r] = "fclose" /\ line'[r] = "writer" /\ i'[r] = i[r] + 1
        /\ \/ written' = written \cup {File(r)} /\ lost' = lost
           \/ lost'[r] = TRUE /\ written' = written
        /\ UNCHANGED files
    BY <1>5, <1>u DEF WriterCloses
  <2>2. /\ Listing(r) = FirstFiles(r, i[r]) /\ File(r) \notin written
        /\ lost[r] <=> Filled(r) # FirstFiles(r, i[r] - 1)
    BY <2>1 DEF RunSoFar, Closes
  <2>3. 1 .. i[r] = (1 .. i[r] - 1) \cup {i[r]} /\ i[r] \notin 1 .. i[r] - 1
    BY <1>t
  <2>4. File(r) \notin FirstFiles(r, i[r] - 1)
    BY <2>3 DEF FirstFiles, File
  <2>5. FirstFiles(r, i[r]) = FirstFiles(r, i[r] - 1) \cup {File(r)}
    BY <2>3 DEF FirstFiles, File
  <2>6. File(r) \notin Filled(r)
    BY <2>2 DEF Filled, FilesBelow
  <2>7. i'[r] - 1 = i[r]
    BY <2>1, <1>t
  <2>8. FirstFiles(r, i[r] - 1)' = FirstFiles(r, i[r]) /\ Listing(r)' = Listing(r)
    BY <2>1, <2>7 DEF FirstFiles, Listing
  <2>9. lost'[r] <=> Filled(r)' # FirstFiles(r, i[r])
    <3>1. CASE written' = written \cup {File(r)} /\ lost' = lost
      <4>1. Filled(r)' = Filled(r) \cup {File(r)}
        BY <3>1 DEF Filled, FilesBelow, File, Below
      <4>2. QED
        BY <3>1, <4>1, <2>2, <2>4, <2>5, <2>6
    <3>2. CASE lost'[r] = TRUE /\ written' = written
      <4>1. Filled(r)' = Filled(r)
        BY <3>2 DEF Filled
      <4>2. QED
        BY <3>2, <4>1, <2>5, <2>6
    <3>3. QED
      BY <2>1, <3>1, <3>2
  <2>10. Writes(r)'
    BY <2>2, <2>8, <2>9 DEF Writes
  <2>11. QED
    BY <2>1, <2>10 DEF RunSoFar
<1>6. CASE CountFiles(r) /\ ~Abort(r)
  <2>1. /\ line[r] = "writer" /\ line'[r] = "grep" /\ i[r] > NUMFILES[r]
        /\ file_count'[r] = Cardinality(Listing(r))
        /\ UNCHANGED <<i, files, written, lost>>
    BY <1>6, <1>u DEF CountFiles, Listing
  <2>2. i[r] - 1 = NUMFILES[r]
    BY <2>1, <1>t
  <2>3. /\ Listing(r) = FirstFiles(r, NUMFILES[r])
        /\ lost[r] <=> Filled(r) # FirstFiles(r, NUMFILES[r])
    BY <2>1, <2>2 DEF RunSoFar, Writes
  <2>4. file_count'[r] = NUMFILES[r]
    BY <2>1, <2>3, <1>t, FirstFilesCount
  <2>5. Greps(r)' /\ Counted(r)'
    BY <2>1, <2>3, <2>4 DEF Greps, Counted, Listing, Filled, FirstFiles
  <2>6. QED
    BY <2>1, <2>5 DEF RunSoFar
<1>7. CASE CountMatches(r)
  <2>1. /\ line[r] = "grep" /\ line'[r] = "rm"
        /\ match_count'[r] = Cardinality(Filled(r))
        /\ UNCHANGED <<lost, file_count>>
    BY <1>7, <1>u DEF CountMatches, Filled
  <2>2. /\ Listing(r) = FirstFiles(r, NUMFILES[r])
        /\ lost[r] <=> Filled(r) # FirstFiles(r, NUMFILES[r])
        /\ Counted(r)
    BY <2>1 DEF RunSoFar, Greps
  <2> DEFINE All == FirstFiles(r, NUMFILES[r])
  <2>3. IsFiniteSet(All) /\ Cardinality(All) = NUMFILES[r]
    BY <1>t, FirstFilesCount
  <2>4. Filled(r) \subseteq All
    BY <2>2, <1>t DEF Listing, Filled, FilesBelow
  <2> HIDE DEF All
  <2>5. /\ Cardinality(Filled(r)) <= NUMFILES[r]
        /\ Cardinality(Filled(r)) = NUMFILES[r] <=> Filled(r) = All
    BY <2>3, <2>4, FS_Subset
  <2>6. lost[r] <=> Filled(r) # All
    BY <2>2 DEF All
  <2>7. Matched(r)' /\ Counted(r)'
    BY <2>1, <2>2, <2>5, <2>6 DEF Matched, Counted
  <2>8. QED
    BY <2>1, <2>7 DEF RunSoFar
<1>8. CASE RemoveRoot(r)
  <2>1. /\ line[r] = "rm" /\ line'[r] = "compare"
        /\ UNCHANGED <<lost, file_count, match_count>>
    BY <1>8, <1>u DEF RemoveRoot
  <2>2. Matched(r)' /\ Counted(r)'
    BY <2>1 DEF RunSoFar, Matched, Counted
  <2>3. QED
    BY <2>1, <2>2 DEF RunSoFar
<1>9. CASE Compare(r)
  <2>1. /\ line[r] = "compare" /\ lost' = lost
        /\ line'[r] = IF file_count[r] = NUMFILES[r]
                           /\ Begins(NUMFILES[r], match_count[r])
                      THEN "success" ELSE "failed"
    BY <1>9, <1>u DEF Compare
  <2>2. /\ file_count[r] = NUMFILES[r] /\ match_count[r] <= NUMFILES[r]
        /\ match_count[r] = NUMFILES[r] <=> ~lost[r]
    BY <2>1 DEF RunSoFar, Matched, Counted
  <2>3. Begins(NUMFILES[r], match_count[r]) <=> match_count[r] = NUMFILES[r]
    <3>1. \A n, m, k \in Nat : k >= 1 /\ m >= n * k => m >= n
      OBVIOUS
    <3>2. match_count[r] \in Nat /\ NUMFILES[r] \in Nat
      BY <1>t, <1>u
    <3>3. ASSUME NEW scale \in 1 .. match_count[r],
                 match_count[r] \in NUMFILES[r] * scale
                                    .. NUMFILES[r] * scale + scale - 1
          PROVE  match_count[r] = NUMFILES[r]
      <4>1. scale \in Nat /\ scale >= 1 /\ match_count[r] >= NUMFILES[r] * scale
        BY <3>2, <3>3
      <4>2. QED
        BY <2>2, <3>1, <3>2, <4>1
    <3>4. QED
      BY <3>2, <3>3 DEF Begins
  <2>4. Deserved(r)'
    BY <2>1, <2>2, <2>3 DEF Deserved
  <2>5. QED
    BY <2>1, <2>4 DEF RunSoFar
<1>10. QED
  BY <1>a, <1>1, <1>2, <1>3, <1>4, <1>5, <1>6, <1>7, <1>8, <1>9

\* A run that nobody disturbed says success exactly when each of its strings
\* reached its file, for any number of runs, directories and files
\* (finder-test.sh, writer.c, finder.sh).
THEOREM VerdictsAreDeserved == FinderSpec => []VerdictIsDeserved
<1>1. FinderInit => RunsKnow
  BY DEF FinderInit, RunsKnow, RunSoFar, Fresh
<1>2. ASSUME FinderTyped, RunsKnow, [FinderNext]_finderVars PROVE RunsKnow'
  <2>1. CASE UNCHANGED finderVars
    BY <1>2, <2>1
       DEF finderVars, counting, filesystem, history, RunsKnow, RunSoFar,
           Fresh, Cleared, Writes, Closes, Greps, Counted, Matched, Deserved,
           Listing, Filled, File
  <2>2. ASSUME FinderNext, NEW r \in Runs, ~disturbed'[r] PROVE RunSoFar(r)'
    <3>1. ~disturbed[r]
      BY <1>2, <2>2
         DEF FinderNext, RemoveOld, MakeDir, CheckDir, WriterOpens,
             WriterCloses, CountFiles, CountMatches, RemoveRoot, Compare,
             Abort, RemoveTree, Disturbs, history
    <3>2. RunSoFar(r)
      BY <3>1, <1>2 DEF RunsKnow
    <3>3. PICK o \in Runs :
            \/ RemoveOld(o) \/ MakeDir(o) \/ CheckDir(o) \/ WriterOpens(o)
            \/ WriterCloses(o) \/ CountFiles(o) \/ CountMatches(o)
            \/ RemoveRoot(o) \/ Compare(o)
      BY <2>2 DEF FinderNext
    <3>4. CASE o = r
      BY <3>2, <3>3, <3>4, <1>2, OwnStep
    <3>5. CASE o # r
      BY <3>2, <3>3, <3>5, <1>2, <2>2, OthersStep
    <3>6. QED
      BY <3>4, <3>5
  <2>3. QED
    BY <1>2, <2>1, <2>2 DEF RunsKnow
<1>3. RunsKnow => VerdictIsDeserved
  BY DEF RunsKnow, RunSoFar, Deserved, VerdictIsDeserved, Line
<1>4. QED
  BY <1>1, <1>2, <1>3, FinderTypes, PTL DEF FinderSpec
-----------------------------------------------------------------------------
(***************************************************************************)
(* ServerMain                                                              *)
(*                                                                         *)
(* The descriptors are told by where main is until the first signal comes. *)
(* What one handler may have done meanwhile is told by its own place; two  *)
(* of them, or one beside main, leave nothing to be told (Few).            *)
(***************************************************************************)

\* Every set of numbers that is not empty has a least one.
LEMMA LeastNumber ==
  ASSUME NEW T, T \subseteq Nat, T # {}
  PROVE  \E x \in T : \A y \in T : x <= y
<1> DEFINE R == OpToRel(<, Nat)
<1>1. IsWellFoundedOn(R, Nat)
  BY NatLessThanWellFounded
<1>2. \A x, y \in Nat : y < x => <<y, x>> \in R
  BY DEF OpToRel
<1> HIDE DEF R
<1>3. PICK x \in T : \A y \in T : ~ (<<y, x>> \in R)
  BY <1>1, WFMin
<1>4. ASSUME NEW y \in T PROVE x <= y
  <2>1. ~ (y < x)
    BY <1>2, <1>3
  <2>2. QED
    BY <2>1
<1>5. QED
  BY <1>4

\* The descriptor the system gives is free, if one is.
LEMMA FreeFdIsFree ==
  ASSUME HasRoom
  PROVE  FreeFd \in MainFds /\ table[FreeFd] = "closed"
<1> DEFINE Free == {n \in MainFds : table[n] = "closed"}
<1>1. Free # {} /\ Free \subseteq Nat
  BY SetupAssumption DEF HasRoom, MainFds
<1> HIDE DEF Free
<1>2. Min(Free) \in Free
  BY <1>1, LeastNumber DEF Min
<1>3. QED
  BY <1>2 DEF FreeFd, Free

\* Where main goes behind a message.
LEMMA AfterLogIs ==
  /\ DOMAIN AfterLog = {"fail", "die", "log_client", "log_failed"}
  /\ AfterLog["fail"] = "undo" /\ AfterLog["die"] = "died"
  /\ AfterLog["log_client"] = "test" /\ AfterLog["log_failed"] = "test"
BY DEF AfterLog

\* Main is in syslog only where it logs.
LogsAtHome == log_holder = Main => at \in DOMAIN AfterLog

\* Who runs a handler has it on its stack until it is done.
Underway(s) == handler[s] \notin {"none", "done"}

HandlersStacked ==
  \A s \in Signals :
    /\ Underway(s) => by[s] \in Actors /\ s \in Range(stack[by[s]])
    /\ by[s] # NoHolder => handler[s] # "none"

\* Until main has its socket, descriptor 3 is free.
Before == {"parse", "getaddrinfo", "socket"}

RoomForSocket ==
  at \in Before => /\ server_fd = -1 /\ table[3] = "closed"
                   /\ \A s \in Signals : handler[s] # "clear"

\* A thread has a client, so main was in its loop; what it opens is marked.
ThreadsMarked ==
  /\ connected => at \in Loop \cup {"shutdown"}
  /\ \A n \in MainFds : table[n] = "thread" => connected

ServerTyped ==
  ServerTypeOK /\ LogsAtHome /\ HandlersStacked /\ RoomForSocket /\ ThreadsMarked

-----------------------------------------------------------------------------

\* What the sets of places are, for the provers.
Places == Setup \cup Loop \cup Gone \cup {"fail", "die", "undo"}

Entries == {"closed", "inherited", "null", "socket", "thread"}

\* Every step keeps the types of the server's variables.
LEMMA ServerTypeStep ==
  ASSUME ServerTyped, ServerNext
  PROVE  ServerTypeOK'
<1> USE SetupAssumption
    DEF config, fd_table, handlers, MainMoves, EnterSyslog, LeaveSyslog,
        ServerTyped, ServerTypeOK, Setup, Loop, Gone, Handles

<1>1. CASE Parse
  BY <1>1 DEF Parse
<1>2. CASE SetupFails
  BY <1>2 DEF SetupFails, CanFail
<1>3. CASE GetAddress
  BY <1>3 DEF GetAddress
<1>4. CASE MakeSocket
  <2>1. HasRoom
    BY <1>4 DEF MakeSocket, HasRoom, RoomForSocket, Before, MainFds
  <2>2. FreeFd \in MainFds
    BY <2>1, FreeFdIsFree
  <2>3. QED
    BY <1>4, <2>2 DEF MakeSocket
<1>5. CASE SetOption
  BY <1>5 DEF SetOption
<1>6. CASE BindSocket
  BY <1>6 DEF BindSocket
<1>7. CASE Daemonize
  BY <1>7 DEF Daemonize
<1>8. CASE CloseStd
  BY <1>8 DEF CloseStd
<1>9. CASE OpenNull
  BY <1>9 DEF OpenNull
<1>10. CASE Listen
  BY <1>10 DEF Listen
<1>11. CASE GiveBack
  BY <1>11 DEF GiveBack, CloseServer
<1>12. CASE TestTerminate
  BY <1>12 DEF TestTerminate
<1>13. CASE CallAccept
  BY <1>13 DEF CallAccept
<1>14. CASE AfterFailure
  BY <1>14 DEF AfterFailure
<1>15. CASE Stop
  BY <1>15 DEF Stop, CloseServer
<1>16. CASE MainLogged
  <2>1. at \in {"fail", "die", "log_client", "log_failed"}
    BY <1>16, AfterLogIs DEF MainLogged, LogsAtHome
  <2>2. AfterLog[at] \in {"undo", "died", "test"}
    BY <2>1, AfterLogIs
  <2>3. QED
    BY <1>16, <2>2 DEF MainLogged
<1>17. CASE AcceptClient
  BY <1>17 DEF AcceptClient
<1>18. CASE AcceptFails
  BY <1>18 DEF AcceptFails
<1>19. CASE MainLogs
  BY <1>19 DEF MainLogs, Actors
<1>20. CASE ThreadLogs
  BY <1>20 DEF ThreadLogs, Actors
<1>21. CASE ThreadLogged
  BY <1>21 DEF ThreadLogged
<1>22. CASE ThreadOpens
  BY <1>22 DEF ThreadOpens
<1>23. CASE ThreadCloses
  BY <1>23 DEF ThreadCloses
<1>24. ASSUME NEW s \in Signals, HandlerLogs(s) PROVE ServerTypeOK'
  BY <1>24 DEF HandlerLogs
<1>25. ASSUME NEW s \in Signals, HandlerLogged(s) PROVE ServerTypeOK'
  BY <1>25 DEF HandlerLogged
<1>26. ASSUME NEW s \in Signals, HandlerSets(s) PROVE ServerTypeOK'
  BY <1>26 DEF HandlerSets
<1>27. ASSUME NEW s \in Signals, HandlerCloses(s) PROVE ServerTypeOK'
  BY <1>27 DEF HandlerCloses, CloseServer
<1>28. ASSUME NEW s \in Signals, HandlerClears(s) PROVE ServerTypeOK'
  BY <1>28 DEF HandlerClears
<1>29. ASSUME NEW s \in Signals, HandlerReturns(s) PROVE ServerTypeOK'
  <2>1. by[s] \in Actors
    BY <1>29 DEF HandlerReturns, HandlersStacked, Underway
  <2>2. Front(stack[by[s]]) \in Seq(Signals)
    BY <2>1 DEF Front
  <2>3. QED
    BY <1>29, <2>1, <2>2 DEF HandlerReturns
<1>30. ASSUME NEW s \in Signals, NEW x \in Actors, Deliver(s, x)
      PROVE  ServerTypeOK'
  <2>1. Append(stack[x], s) \in Seq(Signals)
    OBVIOUS
  <2>2. QED
    BY <1>30, <2>1 DEF Deliver
<1>31. QED
  BY <1>1, <1>2, <1>3, <1>4, <1>5, <1>6, <1>7, <1>8, <1>9, <1>10, <1>11,
     <1>12, <1>13, <1>14, <1>15, <1>16, <1>17, <1>18, <1>19, <1>20,
     <1>21, <1>22, <1>23, <1>24, <1>25, <1>26, <1>27, <1>28, <1>29,
     <1>30
     DEF ServerNext, MainMove, HandlerStep
\* Main leaves its message's place only behind the message.
LEMMA LogsAtHomeStep ==
  ASSUME ServerTyped, ServerNext
  PROVE  LogsAtHome'
<1> USE SetupAssumption, AfterLogIs
    DEF config, fd_table, handlers, MainMoves, EnterSyslog, LeaveSyslog,
        ServerTyped, ServerTypeOK, LogsAtHome, Handles, Actors

<1>1. CASE Parse
  BY <1>1 DEF Parse
<1>2. CASE SetupFails
  BY <1>2 DEF SetupFails, CanFail
<1>3. CASE GetAddress
  BY <1>3 DEF GetAddress
<1>4. CASE MakeSocket
  BY <1>4 DEF MakeSocket
<1>5. CASE SetOption
  BY <1>5 DEF SetOption
<1>6. CASE BindSocket
  BY <1>6 DEF BindSocket
<1>7. CASE Daemonize
  BY <1>7 DEF Daemonize
<1>8. CASE CloseStd
  BY <1>8 DEF CloseStd
<1>9. CASE OpenNull
  BY <1>9 DEF OpenNull
<1>10. CASE Listen
  BY <1>10 DEF Listen
<1>11. CASE GiveBack
  BY <1>11 DEF GiveBack
<1>12. CASE TestTerminate
  BY <1>12 DEF TestTerminate
<1>13. CASE CallAccept
  BY <1>13 DEF CallAccept
<1>14. CASE AfterFailure
  BY <1>14 DEF AfterFailure
<1>15. CASE Stop
  BY <1>15 DEF Stop
<1>16. CASE MainLogged
  BY <1>16 DEF MainLogged
<1>17. CASE AcceptClient
  BY <1>17 DEF AcceptClient
<1>18. CASE AcceptFails
  BY <1>18 DEF AcceptFails
<1>19. CASE MainLogs
  BY <1>19 DEF MainLogs
<1>20. CASE ThreadLogs
  BY <1>20 DEF ThreadLogs
<1>21. CASE ThreadLogged
  BY <1>21 DEF ThreadLogged
<1>22. CASE ThreadOpens
  BY <1>22 DEF ThreadOpens
<1>23. CASE ThreadCloses
  BY <1>23 DEF ThreadCloses
<1>24. ASSUME NEW s \in Signals, HandlerLogs(s) PROVE LogsAtHome'
  BY <1>24 DEF HandlerLogs
<1>25. ASSUME NEW s \in Signals, HandlerLogged(s) PROVE LogsAtHome'
  BY <1>25 DEF HandlerLogged
<1>26. ASSUME NEW s \in Signals, HandlerSets(s) PROVE LogsAtHome'
  BY <1>26 DEF HandlerSets
<1>27. ASSUME NEW s \in Signals, HandlerCloses(s) PROVE LogsAtHome'
  BY <1>27 DEF HandlerCloses
<1>28. ASSUME NEW s \in Signals, HandlerClears(s) PROVE LogsAtHome'
  BY <1>28 DEF HandlerClears
<1>29. ASSUME NEW s \in Signals, HandlerReturns(s) PROVE LogsAtHome'
  BY <1>29 DEF HandlerReturns
<1>30. ASSUME NEW s \in Signals, NEW x \in Actors, Deliver(s, x)
      PROVE  LogsAtHome'
  BY <1>30 DEF Deliver
<1>31. QED
  BY <1>1, <1>2, <1>3, <1>4, <1>5, <1>6, <1>7, <1>8, <1>9, <1>10, <1>11,
     <1>12, <1>13, <1>14, <1>15, <1>16, <1>17, <1>18, <1>19, <1>20,
     <1>21, <1>22, <1>23, <1>24, <1>25, <1>26, <1>27, <1>28, <1>29,
     <1>30
     DEF ServerNext, MainMove, HandlerStep

\* Who runs which handler changes with Deliver and HandlerReturns only.
LEMMA HandlersStackedStep ==
  ASSUME ServerTyped, ServerNext
  PROVE  HandlersStacked'
<1> USE SetupAssumption
    DEF handlers, ServerTyped, ServerTypeOK
<1>a. HandlersStacked
  OBVIOUS
<1>1. CASE UNCHANGED <<stack, handler, by>>
  BY <1>1, <1>a DEF HandlersStacked, Underway
<1>2. ASSUME NEW s \in Signals, NEW now, now \notin {"none", "done"}, NEW next,
             next # "none", Handles(s, now, next), UNCHANGED <<stack, by>>
      PROVE  HandlersStacked'
  <2>1. handler' = [handler EXCEPT ![s] = next] /\ handler[s] = now
    BY <1>2 DEF Handles
  <2>2. Underway(s) /\ by[s] \in Actors /\ s \in Range(stack[by[s]])
    BY <1>2, <2>1, <1>a DEF HandlersStacked, Underway
  <2>3. QED
    BY <1>2, <2>1, <2>2, <1>a DEF HandlersStacked, Underway
<1>3. ASSUME NEW s \in Signals, HandlerReturns(s) PROVE HandlersStacked'
  <2>1. /\ handler[s] = "return" /\ handler' = [handler EXCEPT ![s] = "done"]
        /\ stack' = [stack EXCEPT ![by[s]] = Front(stack[by[s]])]
        /\ Last(stack[by[s]]) = s /\ by' = by
    BY <1>3 DEF HandlerReturns, Handles
  <2>2. by[s] \in Actors
    BY <2>1, <1>a DEF HandlersStacked, Underway
  <2>3. ASSUME NEW t \in Signals, Underway(t)'
        PROVE  by'[t] \in Actors /\ t \in Range(stack'[by'[t]])
    <3>1. t # s /\ Underway(t) /\ by'[t] = by[t]
      BY <2>1, <2>3 DEF Underway
    <3>2. by[t] \in Actors /\ t \in Range(stack[by[t]])
      BY <3>1, <1>a DEF HandlersStacked
    <3>3. CASE by[t] # by[s]
      BY <3>1, <3>2, <3>3, <2>1, <2>2
    <3>4. CASE by[t] = by[s]
      <4> DEFINE q == stack[by[s]]
      <4>1. q \in Seq(Signals) /\ q[Len(q)] = s
        BY <2>1, <2>2 DEF Last
      <4>2. PICK k \in 1 .. Len(q) : q[k] = t
        BY <3>2, <3>4, <4>1 DEF Range
      <4>3. k \in 1 .. Len(q) - 1
        BY <4>1, <4>2, <3>1
      <4> HIDE DEF q
      <4>4. Front(q)[k] = t /\ k \in DOMAIN Front(q)
        BY <4>1, <4>2, <4>3 DEF Front
      <4>5. t \in Range(Front(q))
        BY <4>4 DEF Range
      <4>6. stack'[by[t]] = Front(q)
        BY <2>1, <2>2, <3>4 DEF q
      <4>7. QED
        BY <3>1, <3>2, <4>5, <4>6
    <3>5. QED
      BY <3>3, <3>4
  <2>4. ASSUME NEW t \in Signals, by'[t] # NoHolder PROVE handler'[t] # "none"
    BY <2>1, <2>4, <1>a DEF HandlersStacked
  <2>5. QED
    BY <2>3, <2>4 DEF HandlersStacked
<1>4. ASSUME NEW s \in Signals, NEW x \in Actors, Deliver(s, x)
      PROVE  HandlersStacked'
  <2>1. /\ stack' = [stack EXCEPT ![x] = Append(stack[x], s)]
        /\ handler' = [handler EXCEPT ![s] = "log"]
        /\ by' = [by EXCEPT ![s] = x]
    BY <1>4 DEF Deliver
  <2>2. ASSUME NEW q \in Seq(Signals), NEW t \in Signals
        PROVE  /\ s \in Range(Append(q, s))
               /\ t \in Range(q) => t \in Range(Append(q, s))
    <3>1. /\ Len(Append(q, s)) = Len(q) + 1 /\ Append(q, s)[Len(q) + 1] = s
          /\ \A k \in 1 .. Len(q) : Append(q, s)[k] = q[k]
          /\ DOMAIN Append(q, s) = 1 .. Len(q) + 1 /\ DOMAIN q = 1 .. Len(q)
      OBVIOUS
    <3>2. Len(q) \in Nat
      OBVIOUS
    <3>3. Len(q) + 1 \in DOMAIN Append(q, s)
      BY <3>1, <3>2
    <3>4. s \in Range(Append(q, s))
      BY <3>1, <3>3 DEF Range
    <3>5. ASSUME t \in Range(q) PROVE t \in Range(Append(q, s))
      <4>1. PICK k \in 1 .. Len(q) : q[k] = t
        BY <3>1, <3>5 DEF Range
      <4>2. k \in DOMAIN Append(q, s) /\ Append(q, s)[k] = t
        BY <3>1, <3>2, <4>1
      <4>3. QED
        BY <4>2 DEF Range
    <3>6. QED
      BY <3>4, <3>5
  <2>3. ASSUME NEW t \in Signals, Underway(t)'
        PROVE  by'[t] \in Actors /\ t \in Range(stack'[by'[t]])
    <3>1. CASE t = s
      BY <2>1, <2>2, <3>1
    <3>2. CASE t # s
      <4>1. Underway(t) /\ by'[t] = by[t]
        BY <2>1, <2>3, <3>2 DEF Underway
      <4>2. by[t] \in Actors /\ t \in Range(stack[by[t]])
        BY <4>1, <1>a DEF HandlersStacked
      <4>3. CASE by[t] = x
        BY <2>1, <2>2, <4>1, <4>2, <4>3
      <4>4. CASE by[t] # x
        BY <2>1, <4>1, <4>2, <4>4
      <4>5. QED
        BY <4>3, <4>4
    <3>3. QED
      BY <3>1, <3>2
  <2>4. ASSUME NEW t \in Signals, by'[t] # NoHolder PROVE handler'[t] # "none"
    BY <2>1, <2>4, <1>a DEF HandlersStacked
  <2>5. QED
    BY <2>3, <2>4 DEF HandlersStacked
<1>5. CASE \E s \in Signals :
             HandlerLogs(s) \/ HandlerLogged(s) \/ HandlerSets(s)
               \/ HandlerCloses(s) \/ HandlerClears(s)
  BY <1>2, <1>5
     DEF HandlerLogs, HandlerLogged, HandlerSets, HandlerCloses, HandlerClears
<1>6. QED
  BY <1>1, <1>3, <1>4, <1>5
     DEF ServerNext, MainMove, HandlerStep, Parse, SetupFails, GetAddress,
         MakeSocket, SetOption, BindSocket, Daemonize, CloseStd, OpenNull,
         Listen, GiveBack, TestTerminate, CallAccept, AfterFailure, Stop,
         MainLogged, AcceptClient, AcceptFails, MainLogs, ThreadLogs,
         ThreadLogged, ThreadOpens, ThreadCloses

\* Before the socket is made nothing but the parent's closing takes
\* descriptors away, and no handler finds one to close.
LEMMA RoomForSocketStep ==
  ASSUME ServerTyped, ServerNext
  PROVE  RoomForSocket'
<1> USE SetupAssumption, AfterLogIs
    DEF config, fd_table, handlers, MainMoves, ServerTyped, ServerTypeOK, ThreadsMarked,
        RoomForSocket, Before, Handles, MainFds, Loop

<1>1. CASE Parse
  <2>1. PICK closed \in ClosedAtStart :
          table' = [n \in MainFds |-> IF n \in closed THEN "closed" ELSE table[n]]
    BY <1>1 DEF Parse
  <2>2. QED
    BY <1>1, <2>1 DEF Parse
<1>2. CASE SetupFails
  BY <1>2 DEF SetupFails, CanFail
<1>3. CASE GetAddress
  BY <1>3 DEF GetAddress
<1>4. CASE MakeSocket
  BY <1>4 DEF MakeSocket
<1>5. CASE SetOption
  BY <1>5 DEF SetOption
<1>6. CASE BindSocket
  BY <1>6 DEF BindSocket
<1>7. CASE Daemonize
  BY <1>7 DEF Daemonize
<1>8. CASE CloseStd
  BY <1>8 DEF CloseStd
<1>9. CASE OpenNull
  BY <1>9 DEF OpenNull
<1>10. CASE Listen
  BY <1>10 DEF Listen
<1>11. CASE GiveBack
  BY <1>11 DEF GiveBack
<1>12. CASE TestTerminate
  BY <1>12 DEF TestTerminate
<1>13. CASE CallAccept
  BY <1>13 DEF CallAccept
<1>14. CASE AfterFailure
  BY <1>14 DEF AfterFailure
<1>15. CASE Stop
  BY <1>15 DEF Stop
<1>16. CASE MainLogged
  <2>1. at \in {"fail", "die", "log_client", "log_failed"}
    BY <1>16 DEF MainLogged, LogsAtHome, LeaveSyslog
  <2>2. at' \in {"undo", "died", "test"}
    BY <1>16, <2>1 DEF MainLogged
  <2>3. QED
    BY <2>2
<1>17. CASE AcceptClient
  BY <1>17 DEF AcceptClient
<1>18. CASE AcceptFails
  BY <1>18 DEF AcceptFails
<1>19. CASE MainLogs
  BY <1>19 DEF MainLogs
<1>20. CASE ThreadLogs
  BY <1>20 DEF ThreadLogs
<1>21. CASE ThreadLogged
  BY <1>21 DEF ThreadLogged
<1>22. CASE ThreadOpens
  BY <1>22 DEF ThreadOpens, ThreadRuns
<1>23. CASE ThreadCloses
  BY <1>23 DEF ThreadCloses
<1>24. ASSUME NEW s \in Signals, HandlerLogs(s) PROVE RoomForSocket'
  BY <1>24 DEF HandlerLogs
<1>25. ASSUME NEW s \in Signals, HandlerLogged(s) PROVE RoomForSocket'
  BY <1>25 DEF HandlerLogged
<1>26. ASSUME NEW s \in Signals, HandlerSets(s) PROVE RoomForSocket'
  BY <1>26 DEF HandlerSets
<1>27. ASSUME NEW s \in Signals, HandlerCloses(s) PROVE RoomForSocket'
  BY <1>27 DEF HandlerCloses, CloseServer
<1>28. ASSUME NEW s \in Signals, HandlerClears(s) PROVE RoomForSocket'
  BY <1>28 DEF HandlerClears
<1>29. ASSUME NEW s \in Signals, HandlerReturns(s) PROVE RoomForSocket'
  BY <1>29 DEF HandlerReturns
<1>30. ASSUME NEW s \in Signals, NEW x \in Actors, Deliver(s, x)
      PROVE  RoomForSocket'
  BY <1>30 DEF Deliver
<1>31. QED
  BY <1>1, <1>2, <1>3, <1>4, <1>5, <1>6, <1>7, <1>8, <1>9, <1>10, <1>11,
     <1>12, <1>13, <1>14, <1>15, <1>16, <1>17, <1>18, <1>19, <1>20,
     <1>21, <1>22, <1>23, <1>24, <1>25, <1>26, <1>27, <1>28, <1>29,
     <1>30
     DEF ServerNext, MainMove, HandlerStep

\* A thread's descriptors come with the first client and stay its own.
LEMMA ThreadsMarkedStep ==
  ASSUME ServerTyped, ServerNext
  PROVE  ThreadsMarked'
<1> USE SetupAssumption, AfterLogIs
    DEF config, fd_table, handlers, MainMoves, ServerTyped, ServerTypeOK,
        ThreadsMarked, Handles, Loop

<1>1. CASE Parse
  <2>1. PICK closed \in ClosedAtStart :
          table' = [n \in MainFds |-> IF n \in closed THEN "closed" ELSE table[n]]
    BY <1>1 DEF Parse
  <2>2. QED
    BY <1>1, <2>1 DEF Parse
<1>2. CASE SetupFails
  BY <1>2 DEF SetupFails, CanFail
<1>3. CASE GetAddress
  BY <1>3 DEF GetAddress
<1>4. CASE MakeSocket
  <2>1. \A n \in MainFds : table'[n] = "thread" => table[n] = "thread"
    BY <1>4 DEF MakeSocket
  <2>2. QED
    BY <1>4, <2>1 DEF MakeSocket
<1>5. CASE SetOption
  BY <1>5 DEF SetOption
<1>6. CASE BindSocket
  BY <1>6 DEF BindSocket
<1>7. CASE Daemonize
  BY <1>7 DEF Daemonize
<1>8. CASE CloseStd
  BY <1>8 DEF CloseStd
<1>9. CASE OpenNull
  BY <1>9 DEF OpenNull
<1>10. CASE Listen
  BY <1>10 DEF Listen
<1>11. CASE GiveBack
  BY <1>11 DEF GiveBack, CloseServer
<1>12. CASE TestTerminate
  BY <1>12 DEF TestTerminate
<1>13. CASE CallAccept
  BY <1>13 DEF CallAccept
<1>14. CASE AfterFailure
  BY <1>14 DEF AfterFailure
<1>15. CASE Stop
  BY <1>15 DEF Stop, CloseServer
<1>16. CASE MainLogged
  <2>1. at \in {"fail", "die", "log_client", "log_failed"}
    BY <1>16 DEF MainLogged, LogsAtHome, LeaveSyslog
  <2>2. at \in {"log_client", "log_failed"} => at' = "test"
    BY <1>16, <2>1 DEF MainLogged
  <2>3. QED
    BY <1>16, <2>1, <2>2 DEF MainLogged
<1>17. CASE AcceptClient
  BY <1>17 DEF AcceptClient
<1>18. CASE AcceptFails
  BY <1>18 DEF AcceptFails
<1>19. CASE MainLogs
  BY <1>19 DEF MainLogs
<1>20. CASE ThreadLogs
  BY <1>20 DEF ThreadLogs
<1>21. CASE ThreadLogged
  BY <1>21 DEF ThreadLogged
<1>22. CASE ThreadOpens
  BY <1>22 DEF ThreadOpens, ThreadRuns
<1>23. CASE ThreadCloses
  BY <1>23 DEF ThreadCloses
<1>24. ASSUME NEW s \in Signals, HandlerLogs(s) PROVE ThreadsMarked'
  BY <1>24 DEF HandlerLogs
<1>25. ASSUME NEW s \in Signals, HandlerLogged(s) PROVE ThreadsMarked'
  BY <1>25 DEF HandlerLogged
<1>26. ASSUME NEW s \in Signals, HandlerSets(s) PROVE ThreadsMarked'
  BY <1>26 DEF HandlerSets
<1>27. ASSUME NEW s \in Signals, HandlerCloses(s) PROVE ThreadsMarked'
  BY <1>27 DEF HandlerCloses, CloseServer
<1>28. ASSUME NEW s \in Signals, HandlerClears(s) PROVE ThreadsMarked'
  BY <1>28 DEF HandlerClears
<1>29. ASSUME NEW s \in Signals, HandlerReturns(s) PROVE ThreadsMarked'
  BY <1>29 DEF HandlerReturns
<1>30. ASSUME NEW s \in Signals, NEW x \in Actors, Deliver(s, x)
      PROVE  ThreadsMarked'
  BY <1>30 DEF Deliver
<1>31. QED
  BY <1>1, <1>2, <1>3, <1>4, <1>5, <1>6, <1>7, <1>8, <1>9, <1>10, <1>11,
     <1>12, <1>13, <1>14, <1>15, <1>16, <1>17, <1>18, <1>19, <1>20,
     <1>21, <1>22, <1>23, <1>24, <1>25, <1>26, <1>27, <1>28, <1>29,
     <1>30
     DEF ServerNext, MainMove, HandlerStep
-----------------------------------------------------------------------------

\* The address list is there from getaddrinfo to bind, or to the way out.
AddressFreed ==
  servinfo = "live" => at \in {"socket", "setsockopt", "bind", "fail", "undo"}

\* There is one socket, main's, and none behind a close or at the way out.
SocketsOwned ==
  /\ \A n \in MainFds : table[n] = "socket" => n = server_fd
  /\ at = "exited" => \A n \in MainFds : table[n] # "socket"
  /\ \A s \in Signals :
       handler[s] = "clear" /\ server_fd \in MainFds
         => table[server_fd] # "socket"

\* No signal has come.
Quiet == \A s \in Signals : handler[s] = "none"

Nulls == \A n \in 0 .. 2 : table[n] = "null"

\* Before the first signal, main's loop has all it set up.
Ready ==
  /\ at = "listen" /\ daemon_mode /\ Quiet => Nulls
  /\ at \in Loop /\ Quiet => IsSocket /\ (daemon_mode => Nulls)

\* The flag is a handler's, and main leaves its loop for it only.
Ending ==
  /\ terminated
       => \E s \in Signals : handler[s] \in {"close", "clear", "return", "done"}
  /\ at = "stop" => terminated

\* At most one signal has come, and not to the thread.
Few ==
  /\ \A s, t \in Signals : handler[s] # "none" /\ handler[t] # "none" => s = t
  /\ \A s \in Signals : by[s] # Thread

\* Then the number in server_fd is the socket's, but between the two
\* statements of the handler, and main finds the handler done.
FewHold ==
  Few => /\ at = "shutdown" => \E s \in Signals : handler[s] = "done"
         /\ at \in Loop /\ server_fd \in MainFds /\ table[server_fd] # "socket"
              => \E s \in Signals : handler[s] = "clear"
         /\ ~stolen

ServerHolds == AddressFreed /\ SocketsOwned /\ Ready /\ Ending /\ FewHold

-----------------------------------------------------------------------------

\* A signal that has come has come, and its handler's stack stays the same.
LEMMA ArrivedStays ==
  ASSUME ServerTyped, ServerNext
  PROVE  /\ \A s \in Signals : handler[s] # "none"
                => handler'[s] # "none" /\ by'[s] = by[s]
         /\ Quiet' => Quiet
         /\ Few' => Few
<1> USE DEF handlers, ServerTyped, ServerTypeOK
<1>1. ASSUME NEW t \in Signals, handler[t] # "none"
      PROVE  handler'[t] # "none" /\ by'[t] = by[t]
  <2>1. CASE UNCHANGED <<handler, by>>
    BY <1>1, <2>1
  <2>2. ASSUME NEW s \in Signals, NEW now, NEW next, Handles(s, now, next),
               next # "none", by' = by
        PROVE  handler'[t] # "none" /\ by'[t] = by[t]
    BY <1>1, <2>2 DEF Handles
  <2>3. ASSUME NEW s \in Signals, NEW x \in Actors, Deliver(s, x)
        PROVE  handler'[t] # "none" /\ by'[t] = by[t]
    BY <1>1, <2>3 DEF Deliver
  <2>4. CASE \E s \in Signals :
               HandlerLogs(s) \/ HandlerLogged(s) \/ HandlerSets(s)
                 \/ HandlerCloses(s) \/ HandlerClears(s) \/ HandlerReturns(s)
    BY <2>2, <2>4
       DEF HandlerLogs, HandlerLogged, HandlerSets, HandlerCloses,
           HandlerClears, HandlerReturns
  <2>5. QED
    BY <2>1, <2>3, <2>4
       DEF ServerNext, MainMove, HandlerStep, Parse, SetupFails, GetAddress,
           MakeSocket, SetOption, BindSocket, Daemonize, CloseStd, OpenNull,
           Listen, GiveBack, TestTerminate, CallAccept, AfterFailure, Stop,
           MainLogged, AcceptClient, AcceptFails, MainLogs, ThreadLogs,
           ThreadLogged, ThreadOpens, ThreadCloses
<1>2. Quiet' => Quiet
  BY <1>1 DEF Quiet
<1>3. Few' => Few
  <2>1. \A s \in Signals : by[s] = Thread => handler[s] # "none"
    BY SetupAssumption DEF HandlersStacked, Actors
  <2>2. QED
    BY <1>1, <2>1 DEF Few
<1>4. QED
  BY <1>1, <1>2, <1>3

\* The address list is freed on every way to the loop and out.
LEMMA AddressFreedStep ==
  ASSUME ServerTyped, AddressFreed, ServerNext
  PROVE  AddressFreed'
<1> USE SetupAssumption, AfterLogIs
    DEF config, fd_table, handlers, MainMoves, ServerTyped, ServerTypeOK,
        AddressFreed, Handles

<1>1. CASE Parse
  BY <1>1 DEF Parse
<1>2. CASE SetupFails
  BY <1>2 DEF SetupFails, CanFail
<1>3. CASE GetAddress
  BY <1>3 DEF GetAddress
<1>4. CASE MakeSocket
  BY <1>4 DEF MakeSocket
<1>5. CASE SetOption
  BY <1>5 DEF SetOption
<1>6. CASE BindSocket
  BY <1>6 DEF BindSocket
<1>7. CASE Daemonize
  BY <1>7 DEF Daemonize
<1>8. CASE CloseStd
  BY <1>8 DEF CloseStd
<1>9. CASE OpenNull
  BY <1>9 DEF OpenNull
<1>10. CASE Listen
  BY <1>10 DEF Listen
<1>11. CASE GiveBack
  BY <1>11 DEF GiveBack
<1>12. CASE TestTerminate
  BY <1>12 DEF TestTerminate
<1>13. CASE CallAccept
  BY <1>13 DEF CallAccept
<1>14. CASE AfterFailure
  BY <1>14 DEF AfterFailure
<1>15. CASE Stop
  BY <1>15 DEF Stop
<1>16. CASE MainLogged
  <2>1. at \in {"fail", "die", "log_client", "log_failed"}
    BY <1>16 DEF MainLogged, LogsAtHome, LeaveSyslog
  <2>2. /\ at' \in {"undo", "died", "test"}
        /\ at' = "undo" => at = "fail"
        /\ at' = "test" => at \in {"log_client", "log_failed"}
    BY <1>16, <2>1 DEF MainLogged
  <2>3. QED
    BY <1>16, <2>1, <2>2 DEF MainLogged
<1>17. CASE AcceptClient
  BY <1>17 DEF AcceptClient
<1>18. CASE AcceptFails
  BY <1>18 DEF AcceptFails
<1>19. CASE MainLogs
  BY <1>19 DEF MainLogs
<1>20. CASE ThreadLogs
  BY <1>20 DEF ThreadLogs
<1>21. CASE ThreadLogged
  BY <1>21 DEF ThreadLogged
<1>22. CASE ThreadOpens
  BY <1>22 DEF ThreadOpens
<1>23. CASE ThreadCloses
  BY <1>23 DEF ThreadCloses
<1>24. ASSUME NEW s \in Signals, HandlerLogs(s) PROVE AddressFreed'
  BY <1>24 DEF HandlerLogs
<1>25. ASSUME NEW s \in Signals, HandlerLogged(s) PROVE AddressFreed'
  BY <1>25 DEF HandlerLogged
<1>26. ASSUME NEW s \in Signals, HandlerSets(s) PROVE AddressFreed'
  BY <1>26 DEF HandlerSets
<1>27. ASSUME NEW s \in Signals, HandlerCloses(s) PROVE AddressFreed'
  BY <1>27 DEF HandlerCloses
<1>28. ASSUME NEW s \in Signals, HandlerClears(s) PROVE AddressFreed'
  BY <1>28 DEF HandlerClears
<1>29. ASSUME NEW s \in Signals, HandlerReturns(s) PROVE AddressFreed'
  BY <1>29 DEF HandlerReturns
<1>30. ASSUME NEW s \in Signals, NEW x \in Actors, Deliver(s, x)
      PROVE  AddressFreed'
  BY <1>30 DEF Deliver
<1>31. QED
  BY <1>1, <1>2, <1>3, <1>4, <1>5, <1>6, <1>7, <1>8, <1>9, <1>10, <1>11,
     <1>12, <1>13, <1>14, <1>15, <1>16, <1>17, <1>18, <1>19, <1>20,
     <1>21, <1>22, <1>23, <1>24, <1>25, <1>26, <1>27, <1>28, <1>29,
     <1>30
     DEF ServerNext, MainMove, HandlerStep

\* Every socket made is closed or still main's.
LEMMA SocketsOwnedStep ==
  ASSUME ServerTyped, SocketsOwned, ServerNext
  PROVE  SocketsOwned'
<1> USE SetupAssumption, AfterLogIs
    DEF config, fd_table, handlers, MainMoves, ServerTyped, ServerTypeOK,
        SocketsOwned, Handles

<1>1. CASE Parse
  <2>1. PICK closed \in ClosedAtStart :
          table' = [n \in MainFds |-> IF n \in closed THEN "closed" ELSE table[n]]
    BY <1>1 DEF Parse
  <2>2. QED
    BY <1>1, <2>1 DEF Parse
<1>2. CASE SetupFails
  BY <1>2 DEF SetupFails, CanFail
<1>3. CASE GetAddress
  BY <1>3 DEF GetAddress
<1>4. CASE MakeSocket
  <2>1. HasRoom
    BY <1>4 DEF MakeSocket, HasRoom, RoomForSocket, Before, MainFds
  <2>2. FreeFd \in MainFds /\ table[FreeFd] = "closed"
    BY <2>1, FreeFdIsFree
  <2>3. /\ server_fd = -1 /\ \A s \in Signals : handler'[s] # "clear"
        /\ at' = "setsockopt"
    BY <1>4 DEF MakeSocket, RoomForSocket, Before
  <2>4. \A n \in MainFds : table[n] # "socket"
    BY <2>3 DEF MainFds
  <2>5. QED
    BY <1>4, <2>2, <2>3, <2>4 DEF MakeSocket
<1>5. CASE SetOption
  BY <1>5 DEF SetOption
<1>6. CASE BindSocket
  BY <1>6 DEF BindSocket
<1>7. CASE Daemonize
  BY <1>7 DEF Daemonize
<1>8. CASE CloseStd
  BY <1>8 DEF CloseStd
<1>9. CASE OpenNull
  BY <1>9 DEF OpenNull
<1>10. CASE Listen
  BY <1>10 DEF Listen
<1>11. CASE GiveBack
  BY <1>11 DEF GiveBack, CloseServer
<1>12. CASE TestTerminate
  BY <1>12 DEF TestTerminate
<1>13. CASE CallAccept
  BY <1>13 DEF CallAccept
<1>14. CASE AfterFailure
  BY <1>14 DEF AfterFailure
<1>15. CASE Stop
  BY <1>15 DEF Stop, CloseServer
<1>16. CASE MainLogged
  <2>1. at \in {"fail", "die", "log_client", "log_failed"}
    BY <1>16 DEF MainLogged, LogsAtHome, LeaveSyslog
  <2>2. /\ at' \in {"undo", "died", "test"}
        /\ at' = "undo" => at = "fail"
        /\ at' = "test" => at \in {"log_client", "log_failed"}
    BY <1>16, <2>1 DEF MainLogged
  <2>3. QED
    BY <1>16, <2>1, <2>2 DEF MainLogged
<1>17. CASE AcceptClient
  <2>1. FreeFd \in MainFds /\ table[FreeFd] = "closed"
    BY <1>17, FreeFdIsFree DEF AcceptClient
  <2>2. QED
    BY <1>17, <2>1 DEF AcceptClient
<1>18. CASE AcceptFails
  BY <1>18 DEF AcceptFails
<1>19. CASE MainLogs
  BY <1>19 DEF MainLogs
<1>20. CASE ThreadLogs
  BY <1>20 DEF ThreadLogs
<1>21. CASE ThreadLogged
  BY <1>21 DEF ThreadLogged
<1>22. CASE ThreadOpens
  <2>1. FreeFd \in MainFds /\ table[FreeFd] = "closed"
    BY <1>22, FreeFdIsFree DEF ThreadOpens
  <2>2. QED
    BY <1>22, <2>1 DEF ThreadOpens
<1>23. CASE ThreadCloses
  BY <1>23 DEF ThreadCloses
<1>24. ASSUME NEW s \in Signals, HandlerLogs(s) PROVE SocketsOwned'
  BY <1>24 DEF HandlerLogs
<1>25. ASSUME NEW s \in Signals, HandlerLogged(s) PROVE SocketsOwned'
  BY <1>25 DEF HandlerLogged
<1>26. ASSUME NEW s \in Signals, HandlerSets(s) PROVE SocketsOwned'
  BY <1>26 DEF HandlerSets
<1>27. ASSUME NEW s \in Signals, HandlerCloses(s) PROVE SocketsOwned'
  BY <1>27 DEF HandlerCloses, CloseServer
<1>28. ASSUME NEW s \in Signals, HandlerClears(s) PROVE SocketsOwned'
  BY <1>28 DEF HandlerClears
<1>29. ASSUME NEW s \in Signals, HandlerReturns(s) PROVE SocketsOwned'
  BY <1>29 DEF HandlerReturns
<1>30. ASSUME NEW s \in Signals, NEW x \in Actors, Deliver(s, x)
      PROVE  SocketsOwned'
  BY <1>30 DEF Deliver
<1>31. QED
  BY <1>1, <1>2, <1>3, <1>4, <1>5, <1>6, <1>7, <1>8, <1>9, <1>10, <1>11,
     <1>12, <1>13, <1>14, <1>15, <1>16, <1>17, <1>18, <1>19, <1>20,
     <1>21, <1>22, <1>23, <1>24, <1>25, <1>26, <1>27, <1>28, <1>29,
     <1>30
     DEF ServerNext, MainMove, HandlerStep
\* Until a signal comes nobody but main touches its descriptors.
LEMMA ReadyStep ==
  ASSUME ServerTyped, Ready, ServerNext
  PROVE  Ready'
<1> SUFFICES ASSUME Quiet' PROVE Ready'
  BY DEF Ready
<1>q. Quiet
  BY ArrivedStays
<1> USE <1>q, SetupAssumption, AfterLogIs
    DEF config, fd_table, handlers, MainMoves, ServerTyped, ServerTypeOK,
        Ready, Handles, Nulls, IsSocket, MainFds, Loop

<1>1. CASE Parse
  <2>1. PICK closed \in ClosedAtStart :
          table' = [n \in MainFds |-> IF n \in closed THEN "closed" ELSE table[n]]
    BY <1>1 DEF Parse
  <2>2. QED
    BY <1>1, <2>1 DEF Parse
<1>2. CASE SetupFails
  BY <1>2 DEF SetupFails, CanFail
<1>3. CASE GetAddress
  BY <1>3 DEF GetAddress
<1>4. CASE MakeSocket
  <2>1. at' = "setsockopt"
    BY <1>4 DEF MakeSocket
  <2>2. QED
    BY <2>1
<1>5. CASE SetOption
  BY <1>5 DEF SetOption
<1>6. CASE BindSocket
  BY <1>6 DEF BindSocket
<1>7. CASE Daemonize
  BY <1>7 DEF Daemonize
<1>8. CASE CloseStd
  BY <1>8 DEF CloseStd
<1>9. CASE OpenNull
  BY <1>9 DEF OpenNull
<1>10. CASE Listen
  BY <1>10 DEF Listen
<1>11. CASE GiveBack
  BY <1>11 DEF GiveBack
<1>12. CASE TestTerminate
  BY <1>12 DEF TestTerminate
<1>13. CASE CallAccept
  BY <1>13 DEF CallAccept
<1>14. CASE AfterFailure
  BY <1>14 DEF AfterFailure
<1>15. CASE Stop
  BY <1>15 DEF Stop
<1>16. CASE MainLogged
  <2>1. at \in {"fail", "die", "log_client", "log_failed"}
    BY <1>16 DEF MainLogged, LogsAtHome, LeaveSyslog
  <2>2. /\ at' \in {"undo", "died", "test"}
        /\ at' = "undo" => at = "fail"
        /\ at' = "test" => at \in {"log_client", "log_failed"}
    BY <1>16, <2>1 DEF MainLogged
  <2>3. QED
    BY <1>16, <2>1, <2>2 DEF MainLogged
<1>17. CASE AcceptClient
  <2>1. FreeFd \in MainFds /\ table[FreeFd] = "closed"
    BY <1>17, FreeFdIsFree DEF AcceptClient
  <2>2. QED
    BY <1>17, <2>1 DEF AcceptClient
<1>18. CASE AcceptFails
  BY <1>18 DEF AcceptFails
<1>19. CASE MainLogs
  BY <1>19 DEF MainLogs
<1>20. CASE ThreadLogs
  BY <1>20 DEF ThreadLogs
<1>21. CASE ThreadLogged
  BY <1>21 DEF ThreadLogged
<1>22. CASE ThreadOpens
  <2>1. FreeFd \in MainFds /\ table[FreeFd] = "closed"
    BY <1>22, FreeFdIsFree DEF ThreadOpens
  <2>2. QED
    BY <1>22, <2>1 DEF ThreadOpens
<1>23. CASE ThreadCloses
  BY <1>23 DEF ThreadCloses
<1>24. ASSUME NEW s \in Signals, HandlerLogs(s) PROVE Ready'
  BY <1>24 DEF HandlerLogs, Quiet
<1>25. ASSUME NEW s \in Signals, HandlerLogged(s) PROVE Ready'
  BY <1>25 DEF HandlerLogged, Quiet
<1>26. ASSUME NEW s \in Signals, HandlerSets(s) PROVE Ready'
  BY <1>26 DEF HandlerSets, Quiet
<1>27. ASSUME NEW s \in Signals, HandlerCloses(s) PROVE Ready'
  BY <1>27 DEF HandlerCloses, Quiet
<1>28. ASSUME NEW s \in Signals, HandlerClears(s) PROVE Ready'
  BY <1>28 DEF HandlerClears, Quiet
<1>29. ASSUME NEW s \in Signals, HandlerReturns(s) PROVE Ready'
  BY <1>29 DEF HandlerReturns, Quiet
<1>30. ASSUME NEW s \in Signals, NEW x \in Actors, Deliver(s, x)
      PROVE  Ready'
  BY <1>30 DEF Deliver, Quiet
<1>31. QED
  BY <1>1, <1>2, <1>3, <1>4, <1>5, <1>6, <1>7, <1>8, <1>9, <1>10, <1>11,
     <1>12, <1>13, <1>14, <1>15, <1>16, <1>17, <1>18, <1>19, <1>20,
     <1>21, <1>22, <1>23, <1>24, <1>25, <1>26, <1>27, <1>28, <1>29,
     <1>30
     DEF ServerNext, MainMove, HandlerStep

\* terminated is set once, by a handler, and never taken back.
LEMMA EndingStep ==
  ASSUME ServerTyped, Ending, ServerNext
  PROVE  Ending'
<1> USE SetupAssumption, AfterLogIs
    DEF config, fd_table, handlers, MainMoves, ServerTyped, ServerTypeOK,
        Ending, Handles

<1>1. CASE Parse
  BY <1>1 DEF Parse
<1>2. CASE SetupFails
  BY <1>2 DEF SetupFails, CanFail
<1>3. CASE GetAddress
  BY <1>3 DEF GetAddress
<1>4. CASE MakeSocket
  BY <1>4 DEF MakeSocket
<1>5. CASE SetOption
  BY <1>5 DEF SetOption
<1>6. CASE BindSocket
  BY <1>6 DEF BindSocket
<1>7. CASE Daemonize
  BY <1>7 DEF Daemonize
<1>8. CASE CloseStd
  BY <1>8 DEF CloseStd
<1>9. CASE OpenNull
  BY <1>9 DEF OpenNull
<1>10. CASE Listen
  BY <1>10 DEF Listen
<1>11. CASE GiveBack
  BY <1>11 DEF GiveBack
<1>12. CASE TestTerminate
  BY <1>12 DEF TestTerminate
<1>13. CASE CallAccept
  BY <1>13 DEF CallAccept
<1>14. CASE AfterFailure
  BY <1>14 DEF AfterFailure
<1>15. CASE Stop
  BY <1>15 DEF Stop
<1>16. CASE MainLogged
  <2>1. at \in {"fail", "die", "log_client", "log_failed"}
    BY <1>16 DEF MainLogged, LogsAtHome, LeaveSyslog
  <2>2. /\ at' \in {"undo", "died", "test"}
        /\ at' = "undo" => at = "fail"
        /\ at' = "test" => at \in {"log_client", "log_failed"}
    BY <1>16, <2>1 DEF MainLogged
  <2>3. QED
    BY <1>16, <2>1, <2>2 DEF MainLogged
<1>17. CASE AcceptClient
  BY <1>17 DEF AcceptClient
<1>18. CASE AcceptFails
  BY <1>18 DEF AcceptFails
<1>19. CASE MainLogs
  BY <1>19 DEF MainLogs
<1>20. CASE ThreadLogs
  BY <1>20 DEF ThreadLogs
<1>21. CASE ThreadLogged
  BY <1>21 DEF ThreadLogged
<1>22. CASE ThreadOpens
  BY <1>22 DEF ThreadOpens
<1>23. CASE ThreadCloses
  BY <1>23 DEF ThreadCloses
<1>24. ASSUME NEW s \in Signals, HandlerLogs(s) PROVE Ending'
  BY <1>24 DEF HandlerLogs
<1>25. ASSUME NEW s \in Signals, HandlerLogged(s) PROVE Ending'
  BY <1>25 DEF HandlerLogged
<1>26. ASSUME NEW s \in Signals, HandlerSets(s) PROVE Ending'
  BY <1>26 DEF HandlerSets
<1>27. ASSUME NEW s \in Signals, HandlerCloses(s) PROVE Ending'
  BY <1>27 DEF HandlerCloses
<1>28. ASSUME NEW s \in Signals, HandlerClears(s) PROVE Ending'
  BY <1>28 DEF HandlerClears
<1>29. ASSUME NEW s \in Signals, HandlerReturns(s) PROVE Ending'
  BY <1>29 DEF HandlerReturns
<1>30. ASSUME NEW s \in Signals, NEW x \in Actors, Deliver(s, x)
      PROVE  Ending'
  BY <1>30 DEF Deliver
<1>31. QED
  BY <1>1, <1>2, <1>3, <1>4, <1>5, <1>6, <1>7, <1>8, <1>9, <1>10, <1>11,
     <1>12, <1>13, <1>14, <1>15, <1>16, <1>17, <1>18, <1>19, <1>20,
     <1>21, <1>22, <1>23, <1>24, <1>25, <1>26, <1>27, <1>28, <1>29,
     <1>30
     DEF ServerNext, MainMove, HandlerStep

\* While Few, no descriptor of a thread is ever at server_fd when it is closed.
LEMMA FewHoldStep ==
  ASSUME ServerTyped, Ready, Ending, SocketsOwned, FewHold, ServerNext
  PROVE  FewHold'
<1> SUFFICES ASSUME Few' PROVE FewHold'
  BY DEF FewHold
<1>q. Few
  BY ArrivedStays
<1>t. /\ stolen \in BOOLEAN /\ ~stolen /\ server_fd \in MainFds \cup {-1}
      /\ table \in [MainFds -> Entries]
      /\ handler \in [Signals -> {"none", "log", "logging", "set", "close",
                                  "clear", "return", "done"}]
      /\ at = "shutdown" => \E s \in Signals : handler[s] = "done"
      /\ at \in Loop /\ server_fd \in MainFds /\ table[server_fd] # "socket"
           => \E s \in Signals : handler[s] = "clear"
  BY <1>q DEF ServerTyped, ServerTypeOK, FewHold, Entries
<1> USE <1>t, SetupAssumption, AfterLogIs
    DEF config, fd_table, handlers, MainMoves, FewHold, Handles, Loop
<1>m. ASSUME stack[Main] = <<>>, NEW s \in Signals
      PROVE  handler[s] \in {"none", "done"}
  <2>1. Underway(s) => by[s] \in Actors /\ s \in Range(stack[by[s]])
    BY DEF ServerTyped, HandlersStacked
  <2>2. Underway(s) => by[s] = Main
    BY <2>1, <1>q DEF Few, Actors
  <2>3. Range(<<>>) = {}
    BY DEF Range
  <2>4. QED
    BY <1>m, <2>1, <2>2, <2>3 DEF Underway
<1>c. ASSUME CloseServer, connected /\ server_fd \in MainFds => table[server_fd] # "thread"
      PROVE  ~stolen'
  BY <1>c DEF CloseServer, ServerTyped, ThreadsMarked

<1>1. CASE Parse
  <2>1. PICK closed \in ClosedAtStart :
          table' = [n \in MainFds |-> IF n \in closed THEN "closed" ELSE table[n]]
    BY <1>1 DEF Parse
  <2>2. QED
    BY <1>1, <2>1 DEF Parse
<1>2. CASE SetupFails
  BY <1>2 DEF SetupFails, CanFail
<1>3. CASE GetAddress
  BY <1>3 DEF GetAddress
<1>4. CASE MakeSocket
  <2>1. at' = "setsockopt" /\ UNCHANGED stolen
    BY <1>4 DEF MakeSocket
  <2>2. QED
    BY <2>1
<1>5. CASE SetOption
  BY <1>5 DEF SetOption
<1>6. CASE BindSocket
  BY <1>6 DEF BindSocket
<1>7. CASE Daemonize
  BY <1>7 DEF Daemonize
<1>8. CASE CloseStd
  BY <1>8 DEF CloseStd
<1>9. CASE OpenNull
  BY <1>9 DEF OpenNull
<1>10. CASE Listen
  BY <1>10 DEF Listen, IsSocket
<1>11. CASE GiveBack
  <2>1. ~connected /\ at' = "exited"
    BY <1>11 DEF GiveBack, ServerTyped, ThreadsMarked
  <2>2. ~stolen'
    BY <1>11, <2>1, <1>c DEF GiveBack
  <2>3. QED
    BY <2>1, <2>2
<1>12. CASE TestTerminate
  BY <1>12 DEF TestTerminate
<1>13. CASE CallAccept
  BY <1>13 DEF CallAccept
<1>14. CASE AfterFailure
  BY <1>14 DEF AfterFailure
<1>15. CASE Stop
  <2>1. at = "stop" /\ at' = "shutdown" /\ handler' = handler
    BY <1>15 DEF Stop
  <2>2. \E s \in Signals : handler[s] = "done"
    BY <1>15, <2>1, <1>m DEF Stop, Ending
  <2>3. server_fd \in MainFds => table[server_fd] # "thread"
    BY <1>15, <2>1, <1>m DEF Stop
  <2>4. ~stolen'
    BY <1>15, <2>3, <1>c DEF Stop
  <2>5. QED
    BY <2>1, <2>2, <2>4
<1>16. CASE MainLogged
  <2>1. at \in {"fail", "die", "log_client", "log_failed"}
    BY <1>16 DEF MainLogged, LogsAtHome, LeaveSyslog,
              ServerTyped
  <2>2. /\ at' \in {"undo", "died", "test"}
        /\ at' = "undo" => at = "fail"
        /\ at' = "test" => at \in {"log_client", "log_failed"}
    BY <1>16, <2>1 DEF MainLogged
  <2>3. QED
    BY <1>16, <2>1, <2>2 DEF MainLogged
<1>17. CASE AcceptClient
  <2>1. FreeFd \in MainFds /\ table[FreeFd] = "closed"
    BY <1>17, FreeFdIsFree DEF AcceptClient
  <2>2. QED
    BY <1>17, <2>1 DEF AcceptClient
<1>18. CASE AcceptFails
  BY <1>18 DEF AcceptFails
<1>19. CASE MainLogs
  BY <1>19 DEF MainLogs
<1>20. CASE ThreadLogs
  BY <1>20 DEF ThreadLogs
<1>21. CASE ThreadLogged
  BY <1>21 DEF ThreadLogged
<1>22. CASE ThreadOpens
  <2>1. FreeFd \in MainFds /\ table[FreeFd] = "closed"
    BY <1>22, FreeFdIsFree DEF ThreadOpens
  <2>2. QED
    BY <1>22, <2>1 DEF ThreadOpens, ThreadRuns
<1>23. CASE ThreadCloses
  BY <1>23 DEF ThreadCloses, ThreadRuns
<1>24. ASSUME NEW s \in Signals, HandlerLogs(s) PROVE FewHold'
  BY <1>24 DEF HandlerLogs
<1>25. ASSUME NEW s \in Signals, HandlerLogged(s) PROVE FewHold'
  BY <1>25 DEF HandlerLogged
<1>26. ASSUME NEW s \in Signals, HandlerSets(s) PROVE FewHold'
  BY <1>26 DEF HandlerSets
<1>27. ASSUME NEW s \in Signals, HandlerCloses(s) PROVE FewHold'
  <2>1. handler[s] = "close" /\ UNCHANGED <<at, server_fd>>
    BY <1>27 DEF HandlerCloses
  <2>2. \A t \in Signals : handler[t] # "none" => t = s
    BY <2>1, <1>q DEF Few
  <2>3. at # "shutdown"
    BY <2>1, <2>2
  <2>4. connected /\ server_fd \in MainFds => table[server_fd] # "thread"
    BY <2>1, <2>2, <2>3 DEF ServerTyped, ThreadsMarked
  <2>5. ~stolen'
    BY <1>27, <2>4, <1>c DEF HandlerCloses
  <2>6. server_fd \in MainFds => handler'[s] = "clear"
    BY <1>27 DEF HandlerCloses, MainFds
  <2>7. QED
    BY <2>1, <2>3, <2>5, <2>6
<1>28. ASSUME NEW s \in Signals, HandlerClears(s) PROVE FewHold'
  BY <1>28 DEF HandlerClears, MainFds
<1>29. ASSUME NEW s \in Signals, HandlerReturns(s) PROVE FewHold'
  BY <1>29 DEF HandlerReturns
<1>30. ASSUME NEW s \in Signals, NEW x \in Actors, Deliver(s, x)
      PROVE  FewHold'
  BY <1>30 DEF Deliver
<1>31. QED
  BY <1>1, <1>2, <1>3, <1>4, <1>5, <1>6, <1>7, <1>8, <1>9, <1>10, <1>11,
     <1>12, <1>13, <1>14, <1>15, <1>16, <1>17, <1>18, <1>19, <1>20,
     <1>21, <1>22, <1>23, <1>24, <1>25, <1>26, <1>27, <1>28, <1>29,
     <1>30
     DEF ServerNext, MainMove, HandlerStep

\* The types and places hold through every step.
LEMMA ServerTypedStep ==
  ASSUME ServerTyped, [ServerNext]_serverVars
  PROVE  ServerTyped'
<1>1. CASE UNCHANGED serverVars
  BY <1>1 DEF serverVars, config, fd_table, handlers, ServerTyped, ServerTypeOK,
         LogsAtHome, HandlersStacked, Underway, RoomForSocket, ThreadsMarked
<1>2. CASE ServerNext
  BY <1>2, ServerTypeStep, LogsAtHomeStep, HandlersStackedStep,
     RoomForSocketStep, ThreadsMarkedStep DEF ServerTyped
<1>3. QED
  BY <1>1, <1>2

\* ... from the start, or from a server that never ran.
LEMMA ServerTypedInit ==
  ASSUME NothingDone, at \in {"parse", "exited"}
  PROVE  ServerTyped
<1> USE SetupAssumption DEF NothingDone, MainFds
<1>1. ServerTypeOK
  <2>1. <<>> \in Seq(Signals)
    OBVIOUS
  <2>2. stack \in [Actors -> Seq(Signals)]
    BY <2>1
  <2>3. table \in [MainFds -> {"closed", "inherited", "null", "socket", "thread"}]
    OBVIOUS
  <2>4. /\ at \in Setup \cup Loop \cup Gone \cup {"fail", "die", "undo"}
        /\ {daemon_mode, terminated, connected, stolen} \subseteq BOOLEAN
        /\ servinfo \in {"none", "live", "freed"} /\ server_fd \in MainFds \cup {-1}
    BY DEF Setup, Gone
  <2>5. /\ handler \in [Signals -> {"none", "log", "logging", "set", "close",
                                    "clear", "return", "done"}]
        /\ by \in [Signals -> Actors \cup {NoHolder}]
        /\ log_holder \in Actors \cup Signals \cup {NoHolder}
    OBVIOUS
  <2>6. QED
    BY <2>2, <2>3, <2>4, <2>5 DEF ServerTypeOK
<1>2. LogsAtHome /\ ThreadsMarked
  BY DEF LogsAtHome, ThreadsMarked, Actors
<1>3. HandlersStacked /\ RoomForSocket
  BY DEF HandlersStacked, Underway, RoomForSocket, Before
<1>4. QED
  BY <1>1, <1>2, <1>3 DEF ServerTyped

\* The invariant of the server's main thread and its signals.
LEMMA ServerHoldsAlways == ServerSpec => [](ServerTyped /\ ServerHolds)
<1>1. ServerInit => ServerTyped /\ ServerHolds
  <2> SUFFICES ASSUME ServerInit PROVE ServerTyped /\ ServerHolds
    OBVIOUS
  <2>1. ServerTyped
    BY ServerTypedInit DEF ServerInit
  <2>2. ServerHolds
    BY SetupAssumption
       DEF ServerInit, NothingDone, ServerHolds, AddressFreed, SocketsOwned,
           Ready, Ending, FewHold, MainFds, Loop
  <2>3. QED
    BY <2>1, <2>2
<1>2. ASSUME ServerTyped, ServerHolds, [ServerNext]_serverVars
      PROVE  ServerTyped' /\ ServerHolds'
  <2>1. CASE UNCHANGED serverVars
    <3> USE <1>2, <2>1 DEF serverVars, config, fd_table, handlers
    <3>1. ServerTyped'
      BY ServerTypedStep
    <3>2. AddressFreed' /\ SocketsOwned' /\ Ending'
      BY DEF ServerHolds, AddressFreed, SocketsOwned, Ending
    <3>3. Ready' /\ FewHold'
      BY DEF ServerHolds, Ready, FewHold, Quiet, Nulls, IsSocket, Few
    <3>4. QED
      BY <3>1, <3>2, <3>3 DEF ServerHolds
  <2>2. CASE ServerNext
    BY <1>2, <2>2, ServerTypedStep, AddressFreedStep, SocketsOwnedStep,
       ReadyStep, EndingStep, FewHoldStep DEF ServerHolds
  <2>3. QED
    BY <1>2, <2>1, <2>2
<1>3. QED
  BY <1>1, <1>2, PTL DEF ServerSpec

\* main reaches its loop with a listening socket and, as a daemon, with all
\* three standard descriptors at /dev/null, or gives back what it took: for any
\* descriptors its parent had closed and any call that fails.
THEOREM ServerStartsWhole == ServerSpec => []StartsWholeOrNotAtAll
<1>1. ServerTyped /\ ServerHolds => StartsWholeOrNotAtAll
  <2> SUFFICES ASSUME ServerTyped, ServerHolds PROVE StartsWholeOrNotAtAll
    OBVIOUS
  <2>1. Arrived = {} => Quiet
    BY DEF Arrived, Quiet
  <2>2. at \in Loop /\ Arrived = {}
          => IsSocket /\ (daemon_mode => \A n \in 0 .. 2 : table[n] = "null")
    BY <2>1 DEF ServerHolds, Ready, Nulls
  <2>3. at \in Loop \cup {"exited"} => servinfo # "live"
    BY DEF ServerHolds, AddressFreed, Loop
  <2>4. at = "exited" => "socket" \notin Range(table)
    BY DEF ServerHolds, SocketsOwned, Range, ServerTyped, ServerTypeOK
  <2>5. QED
    BY <2>2, <2>3, <2>4 DEF StartsWholeOrNotAtAll
<1>2. QED
  BY <1>1, ServerHoldsAlways, PTL

\* One signal that main handles never closes a descriptor of a thread, for any
\* number of descriptors (signal_handler and the end of main).
THEOREM DescriptorsAreKept == ServerSpec => []ThreadsKeepTheirFiles
<1>1. ServerTyped /\ ServerHolds => ThreadsKeepTheirFiles
  <2> SUFFICES ASSUME ServerTyped, ServerHolds, stolen,
                      \A s \in Signals : by[s] # Thread
               PROVE  Cardinality(Arrived) > 1
    BY DEF ThreadsKeepTheirFiles
  <2>1. PICK s, t \in Signals :
          handler[s] # "none" /\ handler[t] # "none" /\ s # t
    BY DEF ServerHolds, FewHold, Few
  <2>2. IsFiniteSet(Arrived) /\ {s, t} \subseteq Arrived
    BY <2>1, SetupAssumption, FS_Subset DEF Arrived
  <2>3. Cardinality({s, t}) = 2
    <3>1. {s, t} = {s} \cup {t} /\ t \notin {s}
      BY <2>1
    <3>2. IsFiniteSet({s}) /\ Cardinality({s}) = 1
      BY FS_Singleton
    <3>3. QED
      BY <3>1, <3>2, FS_AddElement
  <2>4. Cardinality({s, t}) <= Cardinality(Arrived) /\ Cardinality(Arrived) \in Nat
    BY <2>2, FS_Subset, FS_CardinalityType
  <2>5. QED
    BY <2>3, <2>4
<1>2. QED
  BY <1>1, ServerHoldsAlways, PTL
-----------------------------------------------------------------------------
(***************************************************************************)
(* MCPrograms                                                              *)
(***************************************************************************)

\* Whichever program is chosen, the variables of all of them keep their types.
THEOREM ProgramsTyped == MCSpec => []MCTypeOK
<1> DEFINE Inv == /\ ThreadingTypeOK /\ ExecInv /\ FinderTyped /\ NodeTypeOK
                  /\ ServerTyped
<1>1. MCInit => Inv
  <2> SUFFICES ASSUME MCInit PROVE Inv
    OBVIOUS
  <2>1. ThreadingTypeOK /\ NodeTypeOK
    BY DEF MCInit, ThreadingInit, ThreadingTypeOK, NodeInit, NodeTypeOK, Over
  <2>2. ExecInv /\ FinderTyped
    BY ExecInvInit, FinderTypedInit DEF MCInit
  <2>3. ServerTyped
    BY ServerTypedInit DEF MCInit
  <2>4. QED
    BY <2>1, <2>2, <2>3
<1>2. Inv /\ [MCNext]_mcVars => Inv'
  <2> SUFFICES ASSUME Inv, [MCNext]_mcVars PROVE Inv'
    OBVIOUS
  <2>1. /\ [ThreadingNext]_threadingVars /\ [ExecNext]_execVars
        /\ [FinderNext]_finderVars /\ [NodeNext]_nodeVars
        /\ [ServerNext]_serverVars
    BY DEF MCNext, mcVars
  <2>2. QED
    BY <2>1, ThreadingTypeStep, ExecInvStep, FinderTypedBox, NodeTypeStep,
       ServerTypedStep
<1>3. Inv => MCTypeOK
  BY ExecInvTypes DEF MCTypeOK, FinderTyped, ServerTyped
<1>4. QED
  BY <1>1, <1>2, <1>3, PTL DEF MCSpec
=============================================================================
