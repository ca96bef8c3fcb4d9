-------------------------- MODULE FirejailBandwidth --------------------------
(***************************************************************************)
(* bandwidth.c: firejail --bandwidth=<sandbox> set|clear changes a line of *)
(* the sandbox's bandwidth file and then runs the shaper script on the     *)
(* device.  Commands follow each other; any of them may be interrupted     *)
(* between two steps.                                                      *)
(***************************************************************************)
EXTENDS Integers, Sequences, FiniteSets, SequencesExt

CONSTANTS NetMap,      \* the netmap file: host device -> device in the sandbox
          OtherDevs,   \* devices that are not in the map
          Rates,       \* the rates a user asks for
          MaxCommands  \* bound on the commands of a behaviour

VARIABLES
  bwPhase,   \* idle, read, change, write, shape
  bwCmd,     \* the command in progress
  ifbw,      \* the list of the process: lines [dev, rate]
  bwFile,    \* the bandwidth file: lines, or NoFile
  shaped,    \* the rate the kernel applies to each device of the sandbox, 0 for none
  settled,   \* history: the devices whose line and rate were both brought up to date
  bwCount    \* commands started

bwVars == <<bwPhase, bwCmd, ifbw, bwFile, shaped, settled, bwCount>>

NoFile == << [dev |-> "none", rate |-> 0] >>
Lines(f) == IF f = NoFile THEN << >> ELSE f
HostDevs == DOMAIN NetMap
SandboxDevs == { NetMap[d] : d \in HostDevs }

-----------------------------------------------------------------------------
\* The list grows at its head, so reading a file turns it round.
ifbw_add(list, line) == << line >> \o list
ifbw_find(list, dev) == { i \in DOMAIN list : list[i].dev = dev }
ifbw_remove(list, i) == RemoveAt(list, i)

BwInit ==
  /\ bwPhase = "idle"
  /\ bwCmd = [what |-> "none", dev |-> "none", rate |-> 0]
  /\ ifbw = << >>
  /\ bwFile = NoFile
  /\ shaped = [d \in SandboxDevs |-> 0]
  /\ settled = SandboxDevs
  /\ bwCount = 0

\* bandwidth_pid: the device is looked up in the netmap file of the sandbox;
\* an unknown one ends the command.
bandwidth_pid(what, d, r) ==
  /\ bwPhase = "idle" /\ bwCount < MaxCommands
  /\ bwCount' = bwCount + 1
  /\ \/ /\ d \in HostDevs
        /\ bwCmd' = [what |-> what, dev |-> NetMap[d], rate |-> r]
        /\ bwPhase' = "read"
        /\ settled' = settled \ {NetMap[d]}
     \/ /\ d \notin HostDevs
        /\ UNCHANGED <<bwCmd, bwPhase, settled>>
  /\ UNCHANGED <<ifbw, bwFile, shaped>>

\* An empty file, unless there is one.
bandwidth_create_run_file == bwFile' = IF bwFile = NoFile THEN << >> ELSE bwFile

read_bandwidth_file ==
  /\ bwPhase = "read"
  /\ bandwidth_create_run_file
  /\ ifbw' = FoldLeft(LAMBDA l, line : ifbw_add(l, line), << >>, Lines(bwFile))
  /\ bwPhase' = "change"
  /\ UNCHANGED <<bwCmd, shaped, settled, bwCount>>

\* write_bandwidth_file, of a list with lines (its callers have one): opening
\* the file empties it, the lines follow when it is closed.
OpenToWrite == bwPhase' = "write" /\ bwFile' = << >>

write_bandwidth_file ==
  /\ bwPhase = "write"
  /\ bwFile' = ifbw
  /\ bwPhase' = "shape"
  /\ UNCHANGED <<bwCmd, ifbw, shaped, settled, bwCount>>

bandwidth_set ==
  /\ bwPhase = "change" /\ bwCmd.what = "set"
  /\ LET line == [dev |-> bwCmd.dev, rate |-> bwCmd.rate]
         old == ifbw_find(ifbw, bwCmd.dev) IN
       ifbw' = IF old = {} THEN ifbw_add(ifbw, line)
               ELSE [ifbw EXCEPT ![CHOOSE i \in old : \A j \in old : i <= j] = line]
  /\ OpenToWrite
  /\ UNCHANGED <<bwCmd, shaped, settled, bwCount>>

Without(dev) ==
  LET old == ifbw_find(ifbw, dev) IN
    IF old = {} THEN ifbw ELSE ifbw_remove(ifbw, CHOOSE i \in old : \A j \in old : i <= j)

\* Mutant: the file is not deleted with its last line.
BandwidthRemoveKeeps ==
  /\ bwPhase = "change" /\ bwCmd.what = "clear"
  /\ ifbw' = Without(bwCmd.dev)
  /\ bwPhase' = "shape" /\ UNCHANGED bwFile
  /\ UNCHANGED <<bwCmd, shaped, settled, bwCount>>

\* The file is written when a line was removed, and deleted with the last.
bandwidth_remove ==
  /\ bwPhase = "change" /\ bwCmd.what = "clear"
  /\ ifbw' = Without(bwCmd.dev)
  /\ \/ ifbw' = << >> /\ bwFile' = NoFile /\ bwPhase' = "shape"
     \/ ifbw' # << >> /\ ifbw' # ifbw /\ OpenToWrite
     \/ ifbw' # << >> /\ ifbw' = ifbw /\ bwPhase' = "shape" /\ UNCHANGED bwFile
  /\ UNCHANGED <<bwCmd, shaped, settled, bwCount>>

\* The process becomes fshaper.sh, and its list is gone with it.
RunShaper ==
  /\ bwPhase = "shape"
  /\ shaped' = [shaped EXCEPT ![bwCmd.dev] = IF bwCmd.what = "set" THEN bwCmd.rate ELSE 0]
  /\ settled' = settled \cup {bwCmd.dev}
  /\ bwPhase' = "idle" /\ ifbw' = << >>
  /\ UNCHANGED <<bwCmd, bwFile, bwCount>>

\* The user interrupts the command, or it fails.  While the file is open its
\* lines are lost, those of the other devices too.
BwInterrupted ==
  /\ bwPhase # "idle"
  /\ settled' = IF bwPhase = "write" THEN {} ELSE settled
  /\ bwPhase' = "idle" /\ ifbw' = << >>
  /\ UNCHANGED <<bwCmd, bwFile, shaped, bwCount>>

BwNext ==
  \/ \E what \in {"set", "clear"}, d \in HostDevs \cup OtherDevs, r \in Rates : bandwidth_pid(what, d, r)
  \/ read_bandwidth_file \/ bandwidth_set \/ bandwidth_remove \/ write_bandwidth_file
  \/ RunShaper \/ BwInterrupted

BwSpec == BwInit /\ [][BwNext]_bwVars

-----------------------------------------------------------------------------

\* Between commands the bandwidth file tells the rate the kernel applies, for
\* every device whose last command was not interrupted.  An interrupted command
\* spoils no line of another device, except while the file is being rewritten,
\* and the next command repairs its own line (bandwidth_set, bandwidth_remove,
\* write_bandwidth_file, the shaper script).
FileTellsRates ==
  bwPhase = "idle" =>
    \A d \in settled :
      LET rates == { Lines(bwFile)[i].rate : i \in { j \in DOMAIN Lines(bwFile) : Lines(bwFile)[j].dev = d } } IN
        rates = (IF shaped[d] = 0 THEN {} ELSE {shaped[d]})
=============================================================================
