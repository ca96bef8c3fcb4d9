---------------------------- MODULE SandboxService ----------------------------
(***************************************************************************)
(* What a sandbox promises to its user, without the processes, pipes and   *)
(* signals that bring it about.  It is set up or fails; programs run in it *)
(* only after it was set up; it goes away with everything that runs in it, *)
(* and not before nothing was left running, unless somebody or the         *)
(* options asked for it.                                                   *)
(***************************************************************************)
EXTENDS FiniteSets

CONSTANT Programs

VARIABLES
  service,  \* "setup", "open", "closing" or "down"
  members,  \* programs that run in the sandbox
  asked     \* somebody wants the sandbox to end

svars == <<service, members, asked>>

ServiceInit == service = "setup" /\ members = {} /\ asked = FALSE

Open ==
  /\ service = "setup" /\ service' = "open"
  /\ \E m \in Programs : members' = {m}
  /\ UNCHANGED asked

\* Set-up fails: nothing has run.
Fail ==
  /\ service = "setup" /\ service' = "down" /\ asked' \in {asked, TRUE}
  /\ UNCHANGED members

Enter ==
  /\ service \in {"open", "closing"}
  /\ \E m \in Programs \ members : members' = members \cup {m}
  /\ UNCHANGED <<service, asked>>

Leave ==
  /\ \E gone \in SUBSET members : members' = members \ gone
  /\ UNCHANGED <<service, asked>>

Ask == asked' = TRUE /\ UNCHANGED <<service, members>>

\* Nothing runs any more.  A program that enters from here on comes too late.
Close ==
  /\ service = "open" /\ members = {} /\ service' = "closing"
  /\ UNCHANGED <<members, asked>>

Down ==
  /\ service = "closing" \/ (service = "open" /\ asked)
  /\ service' = "down" /\ members' = {} /\ asked' \in {asked, TRUE}

ServiceNext == Open \/ Fail \/ Enter \/ Leave \/ Ask \/ Close \/ Down

ServiceSpec == ServiceInit /\ [][ServiceNext]_svars

=============================================================================
