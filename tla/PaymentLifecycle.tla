-------------------------- MODULE PaymentLifecycle --------------------------
(***************************************************************************)
(* What payment-service promises about one payment, with no concurrency, no *)
(* PSP and no copies: its status and its four amounts change together, in   *)
(* one of the following atomic steps.                                       *)
(***************************************************************************)
EXTENDS Integers

CONSTANT Amount     \* what the payer is to be charged, in minor units

VARIABLES
  status, authorized, captured, refunded,
  pending          \* reserved for refunds whose outcome is not known yet

lifecycle == <<status, authorized, captured, refunded, pending>>
amounts == <<authorized, captured, refunded, pending>>

Init ==
  /\ status = "none"
  /\ authorized = 0 /\ captured = 0 /\ refunded = 0 /\ pending = 0

Move(from, to) == status \in from /\ status' = to

Create == Move({"none"}, "created") /\ UNCHANGED amounts

Challenge == Move({"created"}, "requires_action") /\ UNCHANGED amounts

Reject == Move({"created", "requires_action"}, "failed") /\ UNCHANGED amounts

Approve ==
  /\ Move({"created", "requires_action"}, "authorized")
  /\ authorized' = Amount
  /\ UNCHANGED <<captured, refunded, pending>>

\* Automatic capture: authorization and capture become visible together.
ApproveAndTake(a) ==
  /\ Move({"created", "requires_action"}, "captured")
  /\ authorized' = Amount /\ captured' = a
  /\ UNCHANGED <<refunded, pending>>

\* One capture per payment, of at most what was authorized.
Take(a) ==
  /\ Move({"authorized"}, "captured")
  /\ captured' = a
  /\ UNCHANGED <<authorized, refunded, pending>>

Cancel == Move({"requires_action", "authorized"}, "voided") /\ UNCHANGED amounts

\* A refund first reserves its amount, out of what no other refund holds ...
Reserve(a) ==
  /\ status \in {"captured", "partially_refunded"}
  /\ refunded + pending + a <= captured
  /\ pending' = pending + a
  /\ UNCHANGED <<status, authorized, captured, refunded>>

\* ... and later either gives the reserved amount back to the payer ...
GiveBack(a) ==
  /\ a <= pending
  /\ Move({"captured", "partially_refunded"},
          IF refunded + a = captured THEN "refunded" ELSE "partially_refunded")
  /\ refunded' = refunded + a /\ pending' = pending - a
  /\ UNCHANGED <<authorized, captured>>

\* ... or frees it.
Release(a) ==
  /\ a <= pending
  /\ pending' = pending - a
  /\ UNCHANGED <<status, authorized, captured, refunded>>

Next ==
  \/ Create \/ Challenge \/ Reject \/ Approve \/ Cancel
  \/ \E a \in 1 .. Amount :
       ApproveAndTake(a) \/ Take(a) \/ Reserve(a) \/ GiveBack(a) \/ Release(a)

Spec == Init /\ [][Next]_lifecycle

\* Money is neither lost nor made: refunds given back or promised never exceed
\* what was captured, nor captures what the payer agreed to.
Conservation ==
  /\ refunded >= 0 /\ pending >= 0
  /\ refunded + pending <= captured
  /\ captured <= authorized
  /\ authorized \in {0, Amount}
=============================================================================
