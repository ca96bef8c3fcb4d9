-------------------------- MODULE MCFirejailHelpers --------------------------
(***************************************************************************)
(* What surrounds a sandbox: its services and the helper programs.  They   *)
(* share no state, so a behaviour is one of them from its idle state.      *)
(***************************************************************************)
EXTENDS MCFirejailServices, MCFirejailTools

Init == ServicesInit /\ ToolsInit
Next ==
  \/ ToolsIdle /\ ServicesNext /\ UNCHANGED toolsVars
  \/ ServicesIdle /\ ToolsNext /\ UNCHANGED servicesVars
Spec == Init /\ [][Next]_<<servicesVars, toolsVars>> /\ ServicesFairness /\ MonFairness

\* The parsers do what their grammars say, for every input of the bound: the
\* extra parameters of firejail.config reach the X server word by word and fit
\* the array, and dbus_check_name and dbus_check_call_rule accept exactly the
\* names of the grammar.
ParsersAgree == ServicesIdle /\ ToolsIdle => ExtraParamsPassed /\ NamesFollowGrammar

\* Whatever was started ends, in whatever order its parts end or fail: the
\* launcher of an X server leaves no child behind and signals none it has
\* reaped, a jail on a foreign display does not stay, the set-up of the network
\* settles, proxy and parent end after the sandbox, and so does the monitor.
HelpersEnd ==
  /\ [](FuneralLast /\ SignalsReachChildren) /\ EndTogether /\ ForeignJailEnds
  /\ NetworkSettles /\ ProxyEnds /\ ParentEnds /\ MonitorEnds
=============================================================================
