------------------------------ MODULE MCRuntime ------------------------------
(***************************************************************************)
(* The processes around the Runtime, checked in one run: the sidecar's     *)
(* life under one application through crashes, quits and a logout and      *)
(* under two applications that start one process each, the authority over  *)
(* the external Agents, and the intake of Chatmail messages.  A behaviour  *)
(* exercises one of them, the focus, under its own fairness; the others    *)
(* rest in their initial states.                                           *)
(***************************************************************************)
EXTENDS SidecarLifecycle, AgentAuthority, ChatmailIntake

VARIABLE focus  \* the part this behaviour exercises

MCSidecarSettings ==
  {[faults |-> {"crash"}, apps |-> {1}, spawns |-> 3],
   [faults |-> {"timeout", "logout", "hard_exit"}, apps |-> {1}, spawns |-> 2],
   [faults |-> {"quit"}, apps |-> {1, 2}, spawns |-> 1]}

\* Two applications of which one replaces a Runtime that has crashed: here the
\* lock fails, and the settings above leave this out.
MCCrossingSettings == {[faults |-> {"crash"}, apps |-> {1, 2}, spawns |-> 2]}

MCMailKinds == <<"attachment", "dependent", "bad", "status">>

RuntimeInit ==
  /\ focus \in {"sidecar", "agents", "mail"}
  /\ focus # "sidecar" => world = CHOOSE s \in SidecarSettings : TRUE
  /\ SidecarInit /\ AuthorityInit /\ IntakeInit

OnlyStep(part) ==
  /\ focus = part
  /\ UNCHANGED focus
  /\ part # "sidecar" => UNCHANGED sidecarVars
  /\ part # "agents"  => UNCHANGED authorityVars
  /\ part # "mail"    => UNCHANGED intakeVars

RuntimeNext ==
  \/ OnlyStep("sidecar") /\ SidecarNext
  \/ OnlyStep("agents")  /\ AuthorityNext
  \/ OnlyStep("mail")    /\ IntakeNext

RuntimeFairness ==
  \/ focus = "sidecar" /\ SidecarFairness
  \/ focus = "agents"  /\ AuthorityFairness
  \/ focus = "mail"    /\ IntakeFairness

RuntimeSpec ==
  /\ RuntimeInit /\ [][RuntimeNext]_<<focus, sidecarVars, authorityVars, intakeVars>>
  /\ RuntimeFairness
=============================================================================
