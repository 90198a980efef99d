---------------------------- MODULE MCRateLimits ----------------------------
(***************************************************************************)
(* The rate limiter and two services that charge it before they call an    *)
(* external provider, on small instances.  The three modules share no      *)
(* variable, so interleaving them would add states and no behaviour:       *)
(* `part' says which of them a behaviour exercises, and the others stay in *)
(* their initial states.                                                   *)
(***************************************************************************)
EXTENDS RateLimits, TurnCredentials, SignIn, TLC

CONSTANTS e1, e2, n1, m1, m2, v1, v2, v3, v4

VARIABLE part

\* Two accounts behind one network address: e1, e2 are e-mail buckets and n1 is
\* the bucket of the network, read and written after them.
MCBuckets == {e1, e2, n1}
MCWants == {<<e1, n1>>, <<e2, n1>>}
MCLimit == [b \in MCBuckets |-> IF b = n1 THEN 2 ELSE 1]

\* Up to two servers with every combination of URLs and login the parser tells
\* apart.
Servers ==
    [urls : {{}, {"stun"}, {"turn"}, {"turn", "other"}},
     login : {"absent", "partial", "l1", "l2"}]
MCPayloads == UNION {[1..n -> Servers] : n \in 0..2}

\* Two spellings of one address, another address, and one that is refused.
MCNormal == (v1 :> m1) @@ (v2 :> m1) @@ (v3 :> m2) @@ (v4 :> Invalid)

ServicesInit ==
    /\ part \in {"limiter", "turn", "sign_in"}
    /\ RInit
    /\ TurnInit
    /\ SignInInit

ServicesNext ==
    /\ UNCHANGED part
    /\ \/ part = "limiter" /\ RNext /\ UNCHANGED tvars /\ UNCHANGED svars
       \/ part = "turn" /\ TurnNext /\ UNCHANGED rvars /\ UNCHANGED svars
       \/ part = "sign_in" /\ SignInNext /\ UNCHANGED rvars /\ UNCHANGED tvars

ServicesSpec ==
    /\ ServicesInit
    /\ [][ServicesNext]_<<part, rvars, tvars, svars>>
    /\ RFairness

=============================================================================
