-------------------------------- MODULE MCBot --------------------------------
\* A newcomer, a regular customer, an admin, and what each uses the bot for.
EXTENDS Bot, TLC

CONSTANTS newcomer, regular, admin

UsesDef ==
    newcomer :> {"start", "accept", "menu", "apply", "pitch"}
 @@ regular :> {"order", "link", "qty", "comments", "mentions", "coupon", "confirm", "cancel", "apply"}
 @@ admin :> {"accept", "pay", "payout", "admin", "credit", "user", "amount", "reason",
              "toggle", "approve", "reject", "role"}

AppliedDef == <<[u |-> regular, kind |-> "promoter", status |-> "pending"]>>

Symmetry == Permutations(Tasks)
==============================================================================
