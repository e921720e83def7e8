------------------------------- MODULE InvOnce -------------------------------
(***************************************************************************)
(* What an Inventory movement call promises its caller (docs/inventory-    *)
(* design.md, sections 6 and 7): a key moves stock at most once, a         *)
(* repeated call is answered with the movement the first one made, and a   *)
(* refused call moves nothing.  No locks, no sessions, no database: just   *)
(* the ledger and the answers people have received.                        *)
(***************************************************************************)
EXTENDS Naturals, Sequences

CONSTANT Movements        \* every movement call that can be made; a call carries its key

VARIABLES
    ledger,               \* inv_movements, in the order they were committed
    answers               \* <<call, n>>: the call was answered with movement n; n = 0 is a refusal

vars == <<ledger, answers>>

KeyUsed(k) == \E n \in DOMAIN ledger : ledger[n].key = k

Init ==
    /\ ledger = <<>>
    /\ answers = {}

(* The call moves stock, once.  The reply can be lost on the way. *)
Record(c) ==
    /\ ~KeyUsed(c.key)
    /\ ledger' = Append(ledger, c)
    /\ answers' \in {answers, answers \cup {<<c, Len(ledger) + 1>>}}

(* A retry gets the original movement back and changes nothing. *)
Replay(c) ==
    \E n \in DOMAIN ledger :
        /\ ledger[n] = c
        /\ answers' = answers \cup {<<c, n>>}
        /\ UNCHANGED ledger

(* Any call can be refused: not enough stock, a used key, a closed request. *)
Refuse(c) ==
    /\ answers' = answers \cup {<<c, 0>>}
    /\ UNCHANGED ledger

Next == \E c \in Movements : Record(c) \/ Replay(c) \/ Refuse(c)

Spec == Init /\ [][Next]_vars
==============================================================================
