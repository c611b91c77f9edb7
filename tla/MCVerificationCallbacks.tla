------------------------ MODULE MCVerificationCallbacks ------------------------
(* A case with two steps.  Of the first the provider may report that it is    *)
(* in progress and under suspicion, declined, in review (by two bodies) and   *)
(* approved; of the second that it is a duplicate, with no status.            *)
EXTENDS VerificationCallbacks, TLC

CONSTANTS s1, s2, d1, d2, p1, b1, b2, b3, b4, b5, b6

Parsed(s, raw, fraud, duplicate) ==
  [step |-> s, raw |-> raw, fraud |-> fraud, duplicate |-> duplicate]

Contents == (b1 :> Parsed(s1, "processing", TRUE, FALSE))
         @@ (b2 :> Parsed(s1, "declined", FALSE, FALSE))
         @@ (b3 :> Parsed(s1, "needs_review", FALSE, FALSE))
         @@ (b4 :> Parsed(s1, "unmapped", FALSE, FALSE))
         @@ (b5 :> Parsed(s1, "approved", FALSE, FALSE))
         @@ (b6 :> Parsed(s2, "missing", FALSE, TRUE))

Together == [d \in Deliveries |-> p1]

===============================================================================
