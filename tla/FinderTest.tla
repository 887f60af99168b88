----------------------------- MODULE FinderTest -----------------------------
(***************************************************************************)
(* finder-app: runs of finder-test.sh, with the writer and the finder.sh   *)
(* they call, on the file system they share.  A run gets a number of files *)
(* and, with three arguments, a directory below /tmp/aeld-data; else that  *)
(* directory itself.  Every run removes all of /tmp/aeld-data at its end.  *)
(*                                                                         *)
(* conf/assignment.txt is not assignment1, so the script makes the         *)
(* directory.  All runs have one user and write one string: equal numbers  *)
(* in one directory are one file, and a line that got to a file matches.   *)
(***************************************************************************)
EXTENDS Integers, FiniteSets

CONSTANTS
  Runs,         \* runs of the script
  Root,         \* /tmp/aeld-data
  Subdirs,      \* directories below it
  WRITEDIR,     \* directory of each run
  NUMFILES,     \* number of files of each run
  FinderFaults  \* what may fail

Dirs == Subdirs \cup {Root}
FinderFaultSites == {"mkdir", "fopen", "fprintf", "fclose"}

ASSUME FinderAssumption ==
  /\ Root \notin Subdirs /\ WRITEDIR \in [Runs -> Dirs]
  /\ NUMFILES \in [Runs -> Nat] /\ FinderFaults \subseteq FinderFaultSites

VARIABLES
  line,          \* where each run is in the script
  i,             \* its loop variable
  opened,        \* the writer's file is the one in the directory
  file_count, match_count,  \* what finder.sh counted
  dirs,          \* directories that exist
  files,         \* files that exist: directory and number
  written,       \* those with the string in them
  lost,          \* history: a write of this run did not reach its file
  disturbed      \* history: another run changed what this one counts

counting   == <<file_count, match_count>>
filesystem == <<dirs, files, written>>
history    == <<lost, disturbed>>
finderVars == <<line, i, opened, counting, filesystem, history>>

FinderInit ==
  /\ line = [r \in Runs |-> "start"]
  /\ i = [r \in Runs |-> 1]
  /\ opened = [r \in Runs |-> FALSE]
  /\ file_count = [r \in Runs |-> 0] /\ match_count = [r \in Runs |-> 0]
  /\ dirs = {} /\ files = {} /\ written = {}
  /\ lost = [r \in Runs |-> FALSE] /\ disturbed = [r \in Runs |-> FALSE]

Line(r, l) == line[r] = l

ToLine(r, l) == line' = [line EXCEPT ![r] = l]

MayGoWrong(call) == call \in FinderFaults

Below(d, top) == d = top \/ top = Root

FilesBelow(set, d) == {f \in set : Below(f[1], d)}

\* The run is between its removal and its verdict.
Busy(r) == line[r] \in {"mkdir", "check", "writer", "fclose", "grep"}

\* What r does in d disturbs every other run that counts there.
Disturbs(r, d) ==
  disturbed' = [o \in Runs |->
    disturbed[o] \/ (o # r /\ Busy(o) /\ (Below(d, WRITEDIR[o])
                                           \/ Below(WRITEDIR[o], d)))]

\* rm -rf: an open file stays open, but in no directory.
RemoveTree(r, d) ==
  /\ dirs' = {e \in dirs : ~Below(e, d)}
  /\ files' = files \ FilesBelow(files, d)
  /\ written' = written \ FilesBelow(files, d)
  /\ opened' = [o \in Runs |-> opened[o] /\ ~Below(WRITEDIR[o], d)]
  /\ Disturbs(r, d)

-----------------------------------------------------------------------------
\* set -e: any command that fails ends the run.

Abort(r) ==
  /\ ToLine(r, "aborted")
  /\ UNCHANGED <<i, opened, counting, filesystem, history>>

RemoveOld(r) ==
  /\ Line(r, "start") /\ ToLine(r, "mkdir") /\ RemoveTree(r, WRITEDIR[r])
  /\ UNCHANGED <<i, counting, lost>>

MakeDir(r) ==
  /\ Line(r, "mkdir")
  /\ \/ /\ dirs' = dirs \cup {Root, WRITEDIR[r]} /\ ToLine(r, "check")
        /\ UNCHANGED <<i, opened, counting, files, written, history>>
     \/ MayGoWrong("mkdir") /\ Abort(r)

CheckDir(r) ==
  /\ Line(r, "check")
  /\ IF WRITEDIR[r] \in dirs
     THEN /\ ToLine(r, "writer")
          /\ UNCHANGED <<i, opened, counting, filesystem, history>>
     ELSE Abort(r)

File(r) == <<WRITEDIR[r], i[r]>>

\* One file more than asked for.
BugWriterOpens(r) ==
  /\ Line(r, "writer") /\ i[r] <= NUMFILES[r] + 1 /\ WRITEDIR[r] \in dirs
  /\ files' = files \cup {File(r)} /\ written' = written \ {File(r)}
  /\ opened' = [opened EXCEPT ![r] = TRUE] /\ ToLine(r, "fclose")
  /\ Disturbs(r, WRITEDIR[r])
  /\ UNCHANGED <<i, counting, dirs, lost>>

\* writer: fopen(writefile, "w") makes the file or empties it.
WriterOpens(r) ==
  /\ Line(r, "writer") /\ i[r] <= NUMFILES[r]
  /\ \/ /\ WRITEDIR[r] \in dirs
        /\ files' = files \cup {File(r)} /\ written' = written \ {File(r)}
        /\ opened' = [opened EXCEPT ![r] = TRUE] /\ ToLine(r, "fclose")
        /\ Disturbs(r, WRITEDIR[r])
        /\ UNCHANGED <<i, counting, dirs, lost>>
     \/ (WRITEDIR[r] \notin dirs \/ MayGoWrong("fopen")) /\ Abort(r)

\* The string is in stdio's buffer until fclose, whose result nobody looks at:
\* the writer says 0 whether or not the string has got to the file.
WriterCloses(r) ==
  /\ Line(r, "fclose")
  /\ \/ /\ \/ /\ opened[r] /\ written' = written \cup {File(r)}
              /\ UNCHANGED lost
           \/ /\ ~opened[r] \/ MayGoWrong("fclose")
              /\ lost' = [lost EXCEPT ![r] = TRUE] /\ UNCHANGED written
        /\ i' = [i EXCEPT ![r] = @ + 1] /\ ToLine(r, "writer")
        /\ opened' = [opened EXCEPT ![r] = FALSE]
        /\ Disturbs(r, WRITEDIR[r])
        /\ UNCHANGED <<counting, dirs, files>>
     \/ MayGoWrong("fprintf") /\ Abort(r)

\* finder.sh looks for the directory, then find | wc -l ...
CountFiles(r) ==
  /\ Line(r, "writer") /\ i[r] > NUMFILES[r]
  /\ IF WRITEDIR[r] \in dirs
     THEN /\ file_count' = [file_count EXCEPT
               ![r] = Cardinality(FilesBelow(files, WRITEDIR[r]))]
          /\ ToLine(r, "grep")
          /\ UNCHANGED <<i, opened, match_count, filesystem, history>>
     ELSE Abort(r)

\* The lines of the files are counted, not those that match.
BugCountMatches(r) ==
  /\ Line(r, "grep") /\ ToLine(r, "rm")
  /\ match_count' = [match_count EXCEPT
       ![r] = Cardinality(FilesBelow(files, WRITEDIR[r]))]
  /\ UNCHANGED <<i, opened, file_count, filesystem, history>>

\* ... and, later, grep -r | wc -l, which is silent about what has gone.
CountMatches(r) ==
  /\ Line(r, "grep") /\ ToLine(r, "rm")
  /\ match_count' = [match_count EXCEPT
       ![r] = Cardinality(FilesBelow(written, WRITEDIR[r]))]
  /\ UNCHANGED <<i, opened, file_count, filesystem, history>>

RemoveRoot(r) ==
  /\ Line(r, "rm") /\ ToLine(r, "compare") /\ RemoveTree(r, Root)
  /\ UNCHANGED <<i, counting, lost>>

\* grep looks for the expected line at the beginning of the printed one: more
\* digits, up to nine, may follow the second number.
Begins(n, m) ==
  \/ m = n
  \/ n > 0 /\ \E scale \in 1 .. m :
       /\ \E digits \in 1 .. 9 : scale = 10 ^ digits
       /\ m \in n * scale .. n * scale + scale - 1

Compare(r) ==
  /\ Line(r, "compare")
  /\ ToLine(r, IF file_count[r] = NUMFILES[r]
                    /\ Begins(NUMFILES[r], match_count[r])
               THEN "success" ELSE "failed")
  /\ UNCHANGED <<i, opened, counting, filesystem, history>>

FinderNext ==
  \E r \in Runs :
    \/ RemoveOld(r) \/ MakeDir(r) \/ CheckDir(r)
    \/ WriterOpens(r) \/ WriterCloses(r)
    \/ CountFiles(r) \/ CountMatches(r) \/ RemoveRoot(r) \/ Compare(r)

FinderSpec == FinderInit /\ [][FinderNext]_finderVars

-----------------------------------------------------------------------------

FinderTypeOK ==
  /\ line \in [Runs -> {"start", "mkdir", "check", "writer", "fclose", "grep",
                        "rm", "compare", "success", "failed", "aborted"}]
  /\ i \in [Runs -> Nat] /\ \A r \in Runs : i[r] \in 1 .. NUMFILES[r] + 1
  /\ opened \in [Runs -> BOOLEAN]
  /\ {file_count, match_count} \subseteq [Runs -> Nat]
  /\ dirs \subseteq Dirs /\ written \subseteq files
  /\ files \subseteq Dirs \X Nat /\ IsFiniteSet(files)
  /\ lost \in [Runs -> BOOLEAN] /\ disturbed \in [Runs -> BOOLEAN]

\* A verdict is about the run's own writes: a run nobody disturbed prints
\* "success" if each of its strings reached its file, and only then, although
\* the writer says nothing of a string lost in fclose (writer.c line 41,
\* finder-test.sh lines 55-74).
VerdictIsDeserved ==
  \A r \in Runs :
    line[r] \in {"success", "failed"} /\ ~disturbed[r]
      => (Line(r, "success") <=> ~lost[r])
=============================================================================
