---------------------------- MODULE SystemCalls -----------------------------
(***************************************************************************)
(* examples/systemcalls: do_system, do_exec and do_exec_redirect, called   *)
(* at the same time by several threads of one program.  Every call has a   *)
(* child process: fork, the child's own way to the command, its end, and   *)
(* waitpid in the parent.                                                  *)
(*                                                                         *)
(* The program also prints through stdio: text waits in a buffer, which    *)
(* fork copies, exec discards and exit writes out to whatever the child's  *)
(* standard output is by then.  Every write through a descriptor of its    *)
(* own starts at the beginning of a file, so one value stands for a file's *)
(* content: whose output it holds.  What goes to stderr is left out.       *)
(***************************************************************************)
EXTENDS Integers, FiniteSets

CONSTANTS
  Callers,     \* threads, one call each
  OutFiles,    \* output files
  Terminal,    \* the program's own standard output
  Text,        \* what the program prints, once
  Empty,       \* content of an empty file
  ExecFaults   \* the calls that may fail

\* How a process ends: with status 0, with another, by a signal.
Ends == {"zero", "nonzero", "signal"}
Functions == {"do_system", "do_exec", "do_exec_redirect"}
ExecFaultSites == {"fork", "open", "dup2", "waitpid"}

ASSUME ExecAssumption ==
  /\ Terminal \notin OutFiles /\ {Text, Empty} \cap Callers = {}
  /\ Text # Empty /\ ExecFaults \subseteq ExecFaultSites
  /\ IsFiniteSet(Callers)

VARIABLES
  caller,      \* where each caller is; its result at the end
  function, outputfile,  \* what it called
  child,       \* where its child is
  status,      \* what waitpid will say of the child
  executed,    \* history: the command was started
  child_out,   \* the child's standard output
  inherited,   \* unwritten text in the child's copy of the buffer
  unwritten,   \* the same in the program's own buffer
  on_terminal, \* how often the text has got to the terminal
  content      \* what each output file holds

arguments == <<function, outputfile>>
process   == <<child, status, executed, child_out, inherited>>
printing  == <<unwritten, on_terminal>>
execVars  == <<caller, arguments, process, printing, content>>

ExecInit ==
  /\ caller = [c \in Callers |-> "idle"]
  /\ function = [c \in Callers |-> "none"]
  /\ outputfile = [c \in Callers |-> Terminal]
  /\ child = [c \in Callers |-> "none"]
  /\ status = [c \in Callers |-> "none"]
  /\ executed = [c \in Callers |-> FALSE]
  /\ child_out = [c \in Callers |-> Terminal]
  /\ inherited = [c \in Callers |-> FALSE]
  /\ unwritten = FALSE /\ on_terminal = 0
  /\ content = [f \in OutFiles |-> Empty]

CallerTo(c, next) == caller' = [caller EXCEPT ![c] = next]

ChildTo(c, next) == child' = [child EXCEPT ![c] = next]

MayFail(call) == call \in ExecFaults

-----------------------------------------------------------------------------
\* The parent.

\* A NULL command, no command at all, or no file: FALSE at once.
Refuse(c) ==
  /\ caller[c] = "idle" /\ CallerTo(c, "false")
  /\ UNCHANGED <<arguments, process, printing, content>>

CallFunction(c) ==
  /\ caller[c] = "idle" /\ CallerTo(c, "fork")
  /\ \E f \in Functions, out \in OutFiles :
       /\ function' = [function EXCEPT ![c] = f]
       /\ outputfile' = [outputfile EXCEPT
                           ![c] = IF f = "do_exec_redirect" THEN out ELSE @]
  /\ UNCHANGED <<process, printing, content>>

\* Where a child starts.  That of system() is the shell, which has no copy of
\* the buffer and exits with 127 if it cannot start the command.
FirstStep(c) ==
  CASE function[c] = "do_system" -> "shell"
    [] function[c] = "do_exec" -> "exec"
    [] OTHER -> "open"

\* The shell of system() writes the caller's text when it ends.
BugForkChild(c) ==
  /\ caller[c] = "fork" /\ CallerTo(c, "wait") /\ ChildTo(c, FirstStep(c))
  /\ inherited' = [inherited EXCEPT ![c] = unwritten]
  /\ UNCHANGED <<arguments, status, executed, child_out, printing, content>>

ForkChild(c) ==
  /\ caller[c] = "fork"
  /\ \/ /\ CallerTo(c, "wait") /\ ChildTo(c, FirstStep(c))
        /\ inherited' = [inherited EXCEPT
                           ![c] = unwritten /\ function[c] # "do_system"]
     \/ /\ MayFail("fork") /\ CallerTo(c, "false")
        /\ UNCHANGED <<child, inherited>>
  /\ UNCHANGED <<arguments, status, executed, child_out, printing, content>>

\* WEXITSTATUS is 0 for a child that a signal has ended, too.
BugVerdict(c) == IF status[c] # "nonzero" THEN "true" ELSE "false"

\* WIFEXITED(status) && WEXITSTATUS(status) == 0
Verdict(c) == IF status[c] = "zero" THEN "true" ELSE "false"

WaitChild(c) ==
  /\ caller[c] = "wait" /\ child[c] = "zombie"
  /\ ChildTo(c, "reaped") /\ CallerTo(c, Verdict(c))
  /\ UNCHANGED <<arguments, status, executed, child_out, inherited, printing,
                 content>>

\* A signal interrupts waitpid: FALSE, and nobody waits for the child again.
\* system() waits on.
WaitFails(c) ==
  /\ caller[c] = "wait" /\ MayFail("waitpid") /\ function[c] # "do_system"
  /\ CallerTo(c, "false")
  /\ UNCHANGED <<arguments, process, printing, content>>

-----------------------------------------------------------------------------
\* The child.

OpenOutput(c) ==
  /\ child[c] = "open"
  /\ \/ /\ ChildTo(c, "dup2")
        /\ content' = [content EXCEPT ![outputfile[c]] = Empty]
     \/ MayFail("open") /\ ChildTo(c, "exit") /\ UNCHANGED content
  /\ UNCHANGED <<caller, arguments, status, executed, child_out, inherited,
                 printing>>

\* The file is opened, standard output stays what it was.
BugDupOutput(c) ==
  /\ child[c] = "dup2" /\ ChildTo(c, "exec")
  /\ UNCHANGED <<caller, arguments, status, executed, child_out, inherited,
                 printing, content>>

DupOutput(c) ==
  /\ child[c] = "dup2"
  /\ \/ /\ ChildTo(c, "exec")
        /\ child_out' = [child_out EXCEPT ![c] = outputfile[c]]
     \/ MayFail("dup2") /\ ChildTo(c, "exit") /\ UNCHANGED child_out
  /\ UNCHANGED <<caller, arguments, status, executed, inherited, printing,
                 content>>

\* A new image has a new, empty buffer; or there is no such command.
ExecCommand(c) ==
  /\ child[c] \in {"exec", "shell"}
  /\ \/ /\ ChildTo(c, "run")
        /\ executed' = [executed EXCEPT ![c] = TRUE]
        /\ inherited' = [inherited EXCEPT ![c] = FALSE]
     \/ ChildTo(c, "exit") /\ UNCHANGED <<executed, inherited>>
  /\ UNCHANGED <<caller, arguments, status, child_out, printing, content>>

\* The child writes to its standard output.
Puts(c, what) ==
  IF child_out[c] = Terminal
  THEN UNCHANGED content
  ELSE content' = [content EXCEPT ![child_out[c]] = what]

CommandWrites(c) ==
  /\ child[c] = "run" /\ ChildTo(c, "end") /\ Puts(c, c)
  /\ UNCHANGED <<caller, arguments, status, executed, child_out, inherited,
                 printing>>

\* A signal may come before the command has written anything.
CommandEnds(c) ==
  /\ \E end \in IF child[c] = "end" THEN Ends ELSE {"signal"} :
       status' = [status EXCEPT ![c] = end]
  /\ child[c] \in {"run", "end"} /\ ChildTo(c, "zombie")
  /\ UNCHANGED <<caller, arguments, executed, child_out, inherited, printing,
                 content>>

\* exit(EXIT_FAILURE) writes the copy of the buffer out.
ChildExits(c) ==
  /\ child[c] = "exit" /\ ChildTo(c, "zombie")
  /\ status' = [status EXCEPT ![c] = "nonzero"]
  /\ IF inherited[c]
     THEN /\ Puts(c, Text)
          /\ on_terminal' = on_terminal + (IF child_out[c] = Terminal THEN 1
                                                                      ELSE 0)
     ELSE UNCHANGED <<content, on_terminal>>
  /\ inherited' = [inherited EXCEPT ![c] = FALSE]
  /\ UNCHANGED <<caller, arguments, executed, child_out, unwritten>>

-----------------------------------------------------------------------------
\* The program prints its text, and stdio writes it out at some time.

ProgramPrints ==
  /\ on_terminal = 0 /\ ~unwritten /\ unwritten' = TRUE
  /\ UNCHANGED <<caller, arguments, process, on_terminal, content>>

ProgramFlushes ==
  /\ unwritten /\ unwritten' = FALSE /\ on_terminal' = on_terminal + 1
  /\ UNCHANGED <<caller, arguments, process, content>>

Child(c) ==
  \/ OpenOutput(c) \/ DupOutput(c) \/ ExecCommand(c)
  \/ CommandWrites(c) \/ CommandEnds(c) \/ ChildExits(c)

ExecNext ==
  \/ \E c \in Callers :
       \/ Refuse(c) \/ CallFunction(c) \/ ForkChild(c)
       \/ WaitChild(c) \/ WaitFails(c) \/ Child(c)
  \/ ProgramPrints \/ ProgramFlushes

ExecSpec == ExecInit /\ [][ExecNext]_execVars

-----------------------------------------------------------------------------

ExecTypeOK ==
  /\ caller \in [Callers -> {"idle", "fork", "wait", "true", "false"}]
  /\ function \in [Callers -> Functions \cup {"none"}]
  /\ outputfile \in [Callers -> OutFiles \cup {Terminal}]
  /\ child \in [Callers -> {"none", "open", "dup2", "exec", "shell", "run",
                           "end", "exit", "zombie", "reaped"}]
  /\ status \in [Callers -> Ends \cup {"none"}]
  /\ executed \in [Callers -> BOOLEAN] /\ inherited \in [Callers -> BOOLEAN]
  /\ child_out \in [Callers -> OutFiles \cup {Terminal}]
  /\ unwritten \in BOOLEAN /\ on_terminal \in 0 .. Cardinality(Callers) + 1
  /\ content \in [OutFiles -> Callers \cup {Text, Empty}]

\* "@return true if the command ... were executed successfully": TRUE says that
\* the caller's own command, nobody else's, was started and exited with 0, and
\* FALSE after a wait that worked says that it was not or did not, through any
\* failure in the child and any order of the children's ends (lines 70-86,
\* 124-153).
TrueMeansDone ==
  \A c \in Callers :
    /\ caller[c] = "true" => child[c] = "reaped"
    /\ child[c] = "reaped"
         => (caller[c] = "true" <=> executed[c] /\ status[c] = "zero")

\* "The full path to the file to write with command output": once a redirected
\* call is TRUE its file holds the command's output, unless another call was
\* given the same file (lines 127-139).
OutputIsTheCommands ==
  \A c \in Callers :
    /\ caller[c] = "true" /\ function[c] = "do_exec_redirect"
    /\ \A d \in Callers \ {c} : outputfile[d] # outputfile[c]
    => content[outputfile[c]] = c

\* A child of fork that ended, or is about to, without becoming its command.
NeverBecame(c) ==
  function[c] # "do_system" /\ child[c] \in {"exit", "zombie", "reaped"}
    /\ ~executed[c]

\* What the program printed appears once, and in no output file, but through a
\* child that fork gave a copy of the text and that could not become its
\* command: it leaves by exit, which writes the copy (lines 75, 131-142).
TextAppearsOnce ==
  /\ on_terminal > 1 => \E c \in Callers : NeverBecame(c)
  /\ \A f \in OutFiles :
       content[f] = Text => \E c \in Callers :
                              NeverBecame(c) /\ outputfile[c] = f
=============================================================================
