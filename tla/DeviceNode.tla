----------------------------- MODULE DeviceNode -----------------------------
(***************************************************************************)
(* The name /dev/aesdchar and what it leads to: aesdchar_load and          *)
(* aesdchar_unload (which aesdchar-start-stop.sh calls), the module's init *)
(* and exit, and server threads that open the name with O_CREAT.           *)
(*                                                                         *)
(* Runs of the scripts overlap with one another, with the server and with  *)
(* other drivers, which may take a major number the module does not hold.  *)
(***************************************************************************)

CONSTANTS
  Scripts,     \* runs of the scripts
  Openers,     \* threads of the server
  Majors,      \* major numbers
  NoMajor,     \* no number
  NodeFaults   \* what may fail

NodeFaultSites == {"alloc_chrdev_region", "cdev_add", "chgrp", "chmod"}

ASSUME NodeAssumption ==
  NoMajor \notin Majors /\ NodeFaults \subseteq NodeFaultSites

VARIABLES
  step,         \* where each run of a script is
  major,        \* what a load read from /proc/devices
  aesd_major,   \* the module's number, if it is loaded
  others,       \* numbers of other drivers
  node,         \* what the name is: no file, a regular one, a device's number
  access,       \* group and mode of the node are set
  open_file,    \* what each thread has open
  settled,      \* history: result of the last run, if none has begun since
  overlapped    \* history: the runs that were under way with another

begun    == <<settled, overlapped>>
scripts  == <<step, major, begun>>
module   == <<aesd_major, others>>
dev_file == <<node, access>>
nodeVars == <<scripts, module, dev_file, open_file>>

Absent    == [kind |-> "absent"]
Regular   == [kind |-> "regular"]
Device(m) == [kind |-> "device", major |-> m]

NodeInit ==
  /\ step = [s \in Scripts |-> "idle"]
  /\ major = [s \in Scripts |-> NoMajor]
  /\ aesd_major = NoMajor /\ others = {}
  /\ node = Absent /\ access = FALSE
  /\ open_file = [t \in Openers |-> Absent]
  /\ settled = "nothing" /\ overlapped = {}

Step(s, now) == step[s] = now

Loaded == aesd_major # NoMajor

MayBreak(call) == call \in NodeFaults

ToStep(s, next) == step' = [step EXCEPT ![s] = next]

Over == {"idle", "over"}

UnderWay == {s \in Scripts : step[s] \notin Over}

Begin(s, next) ==
  /\ Step(s, "idle") /\ ToStep(s, next) /\ settled' = "nothing"
  /\ overlapped' = overlapped \cup (IF UnderWay = {} THEN {}
                                                   ELSE UnderWay \cup {s})
  /\ UNCHANGED major

\* The run ends, and its variables with it.  Its result stands if no other run
\* came between.
Finish(s, result) ==
  /\ ToStep(s, "over") /\ major' = [major EXCEPT ![s] = NoMajor]
  /\ settled' = IF UnderWay \subseteq {s} /\ s \notin overlapped
                THEN result ELSE "nothing"
  /\ UNCHANGED overlapped

-----------------------------------------------------------------------------
\* The module (main.c): insmod, modprobe, rmmod.

\* A number that is free, then the device; if that fails the number goes back.
InitModule ==
  \E m \in Majors \ others : aesd_major' = m

InitModuleFails ==
  \/ MayBreak("alloc_chrdev_region") \/ Majors \subseteq others
  \/ MayBreak("cdev_add")

InUse == \E t \in Openers : open_file[t].kind = "device"
                              /\ open_file[t].major = aesd_major

-----------------------------------------------------------------------------
\* aesdchar_load, under set -e.

\* insmod refuses a module that is loaded; modprobe, where there is no local
\* file, is content with it.
Insert(s) ==
  /\ Step(s, "idle")
  /\ \/ ~Loaded /\ InitModule /\ Begin(s, "awk")
     \/ Loaded /\ Begin(s, "awk") /\ UNCHANGED aesd_major
     \/ /\ Loaded \/ InitModuleFails
        /\ Finish(s, "error") /\ UNCHANGED aesd_major
  /\ UNCHANGED <<others, dev_file, open_file>>

ReadMajor(s) ==
  /\ Step(s, "awk") /\ ToStep(s, "rm")
  /\ major' = [major EXCEPT ![s] = aesd_major]
  /\ UNCHANGED <<begun, module, dev_file, open_file>>

RemoveNode(s) ==
  /\ Step(s, "rm") /\ ToStep(s, "mknod") /\ node' = Absent /\ access' = FALSE
  /\ UNCHANGED <<major, begun, module, open_file>>

\* mknod's failure is not looked at (no set -e).
BugMakeNode(s) ==
  /\ Step(s, "mknod") /\ ToStep(s, "chgrp")
  /\ node' = IF node = Absent /\ major[s] # NoMajor THEN Device(major[s])
                                                    ELSE node
  /\ UNCHANGED <<major, begun, module, access, open_file>>

\* mknod needs a number and a name that is free.
MakeNode(s) ==
  /\ Step(s, "mknod")
  /\ IF node = Absent /\ major[s] # NoMajor
     THEN node' = Device(major[s]) /\ ToStep(s, "chgrp")
          /\ UNCHANGED <<begun, major>>
     ELSE Finish(s, "error") /\ UNCHANGED node
  /\ UNCHANGED <<module, access, open_file>>

\* chgrp and chmod need the name.
SetAccess(s) ==
  /\ Step(s, "chgrp")
  /\ \/ node # Absent /\ access' = TRUE /\ Finish(s, "loaded")
     \/ /\ node = Absent \/ MayBreak("chgrp") \/ MayBreak("chmod")
        /\ Finish(s, "error") /\ UNCHANGED access
  /\ UNCHANGED <<module, node, open_file>>

-----------------------------------------------------------------------------
\* aesdchar_unload.

\* The kernel refuses to remove a module that is not there, or whose device
\* somebody has open: THIS_MODULE owns the file operations.
RemoveModule(s) ==
  /\ Step(s, "idle")
  /\ IF Loaded /\ ~InUse
     THEN aesd_major' = NoMajor /\ Begin(s, "rm_stale")
     ELSE Finish(s, "error") /\ UNCHANGED aesd_major
  /\ UNCHANGED <<others, dev_file, open_file>>

\* The node is left where it is.
BugRemoveStale(s) ==
  /\ Step(s, "rm_stale") /\ Finish(s, "unloaded")
  /\ UNCHANGED <<module, dev_file, open_file>>

RemoveStale(s) ==
  /\ Step(s, "rm_stale") /\ Finish(s, "unloaded")
  /\ node' = Absent /\ access' = FALSE
  /\ UNCHANGED <<module, open_file>>

-----------------------------------------------------------------------------
\* Everybody else.

\* open(FILE_PATH, O_CREAT | ...): without a node the server makes a regular
\* file; a number nobody holds is an error.
ServerOpens(t) ==
  /\ open_file[t] = Absent
  /\ node.kind = "device" => node.major \in others \cup {aesd_major}
  /\ node' = IF node = Absent THEN Regular ELSE node
  /\ open_file' = [open_file EXCEPT ![t] = node']
  /\ UNCHANGED <<scripts, module, access>>

ServerCloses(t) ==
  /\ open_file[t] # Absent /\ open_file' = [open_file EXCEPT ![t] = Absent]
  /\ UNCHANGED <<scripts, module, dev_file>>

OtherDriverLoads(m) ==
  /\ m \notin others \cup {aesd_major} /\ others' = others \cup {m}
  /\ UNCHANGED <<scripts, aesd_major, dev_file, open_file>>

NodeNext ==
  \/ \E s \in Scripts :
       \/ Insert(s) \/ ReadMajor(s) \/ RemoveNode(s) \/ MakeNode(s)
       \/ SetAccess(s)
       \/ RemoveModule(s) \/ RemoveStale(s)
  \/ \E t \in Openers : ServerOpens(t) \/ ServerCloses(t)
  \/ \E m \in Majors : OtherDriverLoads(m)

NodeSpec == NodeInit /\ [][NodeNext]_nodeVars

-----------------------------------------------------------------------------

NodeTypeOK ==
  /\ step \in [Scripts -> Over \cup {"awk", "rm", "mknod", "chgrp",
                                      "rm_stale"}]
  /\ major \in [Scripts -> Majors \cup {NoMajor}]
  /\ aesd_major \in Majors \cup {NoMajor} /\ others \subseteq Majors
  /\ node \in {Absent, Regular} \cup {Device(m) : m \in Majors}
  /\ access \in BOOLEAN
  /\ open_file \in [Openers -> {Absent, Regular}
                                 \cup {Device(m) : m \in Majors}]
  /\ settled \in {"nothing", "loaded", "unloaded", "error"}
  /\ overlapped \subseteq Scripts

\* Once a load has ended well, and until the next run begins, the name is the
\* module's device, whatever node or file was there before and whatever the
\* server did to it meanwhile; once an unload has, the name is no device.
NameIsTheDevice ==
  /\ settled = "loaded" => Loaded /\ node = Device(aesd_major) /\ access
  /\ settled = "unloaded" => ~Loaded /\ node.kind # "device"

\* "Remove stale nodes": as long as runs do not overlap, the name leads to the
\* number of a module that has gone, and by then perhaps to another driver,
\* only between the rmmod and the rm of an unload, however earlier runs failed
\* (aesdchar_unload lines 6-10, aesdchar_load lines 14-25).
NoStaleNode ==
  overlapped = {} /\ node.kind = "device"
    => node.major = aesd_major \/ \E s \in Scripts : Step(s, "rm_stale")
=============================================================================
