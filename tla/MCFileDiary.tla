---------------------------- MODULE MCFileDiary ----------------------------
EXTENDS FileDiary, TLC

CONSTANTS t1, t2, s1, s2

MCSignatureOf == (t1 :> s1) @@ (t2 :> s2)

NoSnapshot == {EmptyState}

Once(t) == [kind |-> "executeOnce", titles |-> <<t>>, ttl |-> NoTtl]
Get(t) == [kind |-> "getTaskResult", titles |-> <<t>>, ttl |-> NoTtl]
OnceOps == {Once(t1), Once(t2)}
ReadOps == {Once(t1), Once(t2), Get(t1)}

Symmetry == Permutations(Call)
=============================================================================
