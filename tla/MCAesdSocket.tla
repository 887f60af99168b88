---------------------------- MODULE MCAesdSocket ----------------------------
(***************************************************************************)
(* Instances of the server for TLC.  A client's bytes are its own name and *)
(* newlines, so that what reaches a client tells whose it is.              *)
(***************************************************************************)
EXTENDS AesdSocket, TLC

MCData(bytes) == [kind |-> "data", bytes |-> bytes]

\* A line, a piece without newline, a line with a byte behind it, and seeks.
MCChunks == [c \in Conns |->
  {MCData(<<c, Newline>>), MCData(<<c>>), MCData(<<c, Newline, c>>),
   [kind |-> "seek"], [kind |-> "bad"]}]

MCLines == [c \in Conns |-> {MCData(<<c, Newline>>)}]

\* What leads to an answer, a line or a seek, and a piece, which does not.
MCAnswerChunks == [c \in Conns |->
  {MCData(<<c, Newline>>), MCData(<<c>>), [kind |-> "seek"]}]

\* One client sends a line, the others what is not answered.
MCOneLine == [c \in Conns |->
  IF c = CHOOSE d \in Conns : TRUE
  THEN {MCData(<<c, Newline>>)}
  ELSE {MCData(<<c, Newline, c>>), [kind |-> "bad"]}]

\* Another program has left a command in the device, or none has.
MCStored == {<<<<"x", Newline>>>>}
MCNothingStored == {<<>>}
MCPerhapsStored == MCStored \cup MCNothingStored

\* Clients differ only by name; not used where liveness is checked.
MCSymmetry == Permutations(Conns)
=============================================================================
