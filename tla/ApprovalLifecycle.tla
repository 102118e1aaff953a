------------------------- MODULE ApprovalLifecycle -------------------------
(***************************************************************************)
(* What the broker promises about one tool approval: a prompt is opened    *)
(* once, is decided at most once or lapses, and nothing but using up or    *)
(* withdrawing an approval follows the decision.                           *)
(***************************************************************************)
CONSTANT Ids

VARIABLE life

LifecycleInit == life = [i \in Ids |-> "absent"]

Becomes(i, from, to) == life[i] = from /\ life' = [life EXCEPT ![i] = to]

OpenPrompt(i) == Becomes(i, "absent", "open")
ApprovePrompt(i) == \E p \in {"once", "session", "permanent"} : Becomes(i, "open", p)
DenyPrompt(i) == Becomes(i, "open", "denied")
LapsePrompt(i) == Becomes(i, "open", "lapsed")
SpendApproval(i) == Becomes(i, "once", "spent")
WithdrawApproval(i) == Becomes(i, "permanent", "denied")

LifecycleNext ==
    \E i \in Ids :
        \/ OpenPrompt(i)
        \/ ApprovePrompt(i)
        \/ DenyPrompt(i)
        \/ LapsePrompt(i)
        \/ SpendApproval(i)
        \/ WithdrawApproval(i)

LifecycleSpec == LifecycleInit /\ [][LifecycleNext]_life
=============================================================================
