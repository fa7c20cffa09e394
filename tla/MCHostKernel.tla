---------------------------- MODULE MCHostKernel ----------------------------
\* One Child Agent for all Tasks, with three settings: a queue of one behind one
\* execution, two executions at a time, and no queue at all.
EXTENDS HostKernel
MCAgentOf == [t \in Tasks |-> "codex"]
MCSettings ==
  {[concurrent |-> 2, child |-> 1, queue |-> 1, epochs |-> 2,
    faults |-> {"cancel", "crash", "shutdown"}],
   [concurrent |-> 2, child |-> 2, queue |-> 0, epochs |-> 2, faults |-> {"cancel"}],
   [concurrent |-> 1, child |-> 1, queue |-> 0, epochs |-> 3, faults |-> {"timeout", "output_limit", "crash"}]}

ContractA == INSTANCE ExecutionContract WITH status <- record["a"], effect <- "a" \in Effects
ContractB == INSTANCE ExecutionContract WITH status <- record["b"], effect <- "b" \in Effects

\* The kernel, the registry and the records keep the contract of
\* ExecutionContract for both Tasks: one change of the Workspace at most,
\* completed only with it, ends are final, and begun work is answered.
KernelImplementsContract == ContractA!Spec /\ ContractB!Spec
=============================================================================
