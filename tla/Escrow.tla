-------------------------------- MODULE Escrow --------------------------------
(***************************************************************************)
(* What the exchange's escrows promise.  An order of the OmnibusDEX        *)
(* contract of some chain is locked once and leaves it once: back to its   *)
(* owner, or paid out, and paid out only after the order book has matched  *)
(* an order of the owner's that names its id.  Ids are chosen by the       *)
(* callers of each contract, so two chains may use the same one; whom the  *)
(* tokens are paid to is not promised (see the README).                    *)
(***************************************************************************)
CONSTANTS Chains, Ids

VARIABLES
  held,     \* state of each order of each contract
  matched   \* ids the order book has made a fill with

vars == <<held, matched>>

Orders == Chains \X Ids

Init ==
  /\ held = [o \in Orders |-> "empty"]
  /\ matched = {}

Lock(o) ==
  /\ held[o] = "empty"
  /\ held' = [held EXCEPT ![o] = "open"]
  /\ UNCHANGED matched

Match(i) ==
  /\ \E c \in Chains : held[<<c, i>>] # "empty"
  /\ matched' = matched \union {i}
  /\ UNCHANGED held

Pay(o) ==
  /\ held[o] = "open"
  /\ o[2] \in matched
  /\ held' = [held EXCEPT ![o] = "settled"]
  /\ UNCHANGED matched

Refund(o) ==
  /\ held[o] = "open"
  /\ held' = [held EXCEPT ![o] = "cancelled"]
  /\ UNCHANGED matched

Next ==
  \/ \E o \in Orders : Lock(o) \/ Pay(o) \/ Refund(o)
  \/ \E i \in Ids : Match(i)

Spec == Init /\ [][Next]_vars
===============================================================================
