------------------------------ MODULE MCDbJobs ------------------------------
(* Small instances of DbJobs, one definition per constant and instance. *)
EXTENDS DbJobs, TLC

CONSTANTS j1, j2, j3, j4, k1, k2, p1, p2, w1, w2

\* Keys: two cleanup rows under one key, of which either may be a failed row of
\* an earlier release, an extraction that can be cancelled, and a consolidation.
KeysKind == (j1 :> "storage.cleanup") @@ (j2 :> "storage.cleanup")
            @@ (j3 :> "extraction.extract") @@ (j4 :> "memory.consolidate")
KeysAttempts == (j1 :> 2) @@ (j2 :> 1) @@ (j3 :> 2) @@ (j4 :> 2)
KeysClaims == (j1 :> 2) @@ (j2 :> 2) @@ (j3 :> 2) @@ (j4 :> 3)
KeysOf == (j1 :> k1) @@ (j2 :> k1) @@ (j3 :> k2) @@ (j4 :> NoKey)

\* Rows that come to be there together: those of one key, or two of different
\* kinds.
Together ==
  \E rows \in {{j1, j2}, {j1, j4}, {j3}} : \A j \in Job \ rows : jobs[j].status = "absent"

KeysNext == (\E j \in Job : enqueueDbJob(j) /\ Together') \/ Works

KeysSpec == Init /\ [][KeysNext]_vars /\ Fairness

\* Deliveries: an extraction that can be cancelled, and a row no build has a
\* handler for.
RedisKind == (j1 :> "extraction.extract") @@ (j2 :> "retired.kind")
RedisAttempts == (j1 :> 2) @@ (j2 :> 1)
RedisClaims == (j1 :> 2) @@ (j2 :> 2)
RedisKeys == (j1 :> k2) @@ (j2 :> NoKey)

WorkerSymmetry == Permutations({w1, w2})
=============================================================================
