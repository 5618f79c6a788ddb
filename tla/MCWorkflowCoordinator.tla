----------------------- MODULE MCWorkflowCoordinator -----------------------
EXTENDS WorkflowCoordinator

CONSTANTS k1, k2, s1

Do(kind) == [kind |-> kind, worker |-> Undefined, signature |-> Undefined]
By(kind, k) == [kind |-> kind, worker |-> k, signature |-> Undefined]
SubmitWith(s) == [kind |-> "submit", worker |-> Undefined, signature |-> s]

AllOps ==
  {SubmitWith(s1), By("claim", k1), By("execute", k1), By("execute", k2),
   Do("complete"), Do("fail"), Do("cancel"), Do("release")}

Executions == {By("execute", k1), By("execute", k2)}
=============================================================================
