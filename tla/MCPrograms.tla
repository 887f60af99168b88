----------------------------- MODULE MCPrograms -----------------------------
(***************************************************************************)
(* Instances for TLC of the programs beside the driver and the server's    *)
(* threads.  They share no state: one is chosen and the others stand still.*)
(***************************************************************************)
EXTENDS ObtainMutex, SystemCalls, FinderTest, DeviceNode, ServerMain, TLC

VARIABLE program

mcVars == <<program, threadingVars, execVars, finderVars, nodeVars, serverVars>>

\* A server that is not chosen has exited, or its fairness would ask steps of
\* it that it cannot take; threads that were not started are asked nothing.
MCInit ==
  /\ program \in {"threading", "systemcalls", "finder", "node", "server"}
  /\ ThreadingInit /\ ExecInit /\ FinderInit /\ NodeInit
  /\ NothingDone /\ at = IF program = "server" THEN "parse" ELSE "exited"

MCNext ==
  /\ UNCHANGED program
  /\ \/ /\ program = "threading" /\ ThreadingNext
        /\ UNCHANGED <<execVars, finderVars, nodeVars, serverVars>>
     \/ /\ program = "systemcalls" /\ ExecNext
        /\ UNCHANGED <<threadingVars, finderVars, nodeVars, serverVars>>
     \/ /\ program = "finder" /\ FinderNext
        /\ UNCHANGED <<threadingVars, execVars, nodeVars, serverVars>>
     \/ /\ program = "node" /\ NodeNext
        /\ UNCHANGED <<threadingVars, execVars, finderVars, serverVars>>
     \/ /\ program = "server" /\ ServerNext
        /\ UNCHANGED <<threadingVars, execVars, finderVars, nodeVars>>

MCSpec ==
  /\ MCInit /\ [][MCNext]_mcVars
  /\ ThreadingFairness /\ ServerFairness

MCTypeOK ==
  /\ ThreadingTypeOK /\ ExecTypeOK /\ FinderTypeOK /\ NodeTypeOK
  /\ ServerTypeOK

\* Two runs of finder-test.sh, one without arguments and one with three.
MCWritedir == [r \in Runs |-> IF r = CHOOSE s \in Runs : TRUE
                              THEN Root ELSE CHOOSE d \in Subdirs : TRUE]
MCNumfiles == [r \in Runs |-> 2]

MCClosedAtStart == {{}, {0}}
=============================================================================
