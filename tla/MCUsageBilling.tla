-------------------------- MODULE MCUsageBilling ---------------------------
(* A small instance of UsageBilling for TLC: t1 and t2 are the same usage   *)
(* recorded twice, t3 carries their request id with another payload, t4 is  *)
(* a subscription request of another id with the same key and account.      *)
EXTENDS UsageBilling, TLC

CONSTANTS t1, t2, t3, t4, k1, k2, user, sub, key, account

MCKeyOf == (t1 :> k1) @@ (t2 :> k1) @@ (t3 :> k1) @@ (t4 :> k2)
MCPrintOf == [t \in Tasks |-> CASE t = t3 -> "other" [] t = t4 -> "sub" [] OTHER -> "same"]
MCTarget == [t \in Tasks |-> ("subscription" :> sub) @@ ("balance" :> user) @@ ("quota" :> key)
                                @@ ("rate" :> key) @@ ("account" :> account)]
MCCost == [t \in Tasks |-> ("subscription" :> IF t = t4 THEN 1 ELSE 0)
                              @@ ("balance" :> IF t = t4 THEN 0 ELSE 1)
                              @@ ("quota" :> IF t = t3 THEN 0 ELSE 1) @@ ("rate" :> IF t = t3 THEN 0 ELSE 1) @@ ("account" :> IF t = t3 THEN 0 ELSE 1)]
MCLimit == [r \in Rows |-> IF r = key THEN 1 ELSE IF r = account THEN 2 ELSE 0]
=============================================================================
