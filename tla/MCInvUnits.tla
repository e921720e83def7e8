------------------------------- MODULE MCInvUnits -------------------------------
(* Small sets of equipment. *)
EXTENDS InvUnits, TLC
CONSTANTS box,                   \* a kit
          tool, spare,           \* other units
          kit, drill, saw,       \* items
          d1, d2, e1, e2, p1, p2,
          r1, r2, r3             \* requests: of the first project, of the second, of an employee

MCItemOf == [u \in Units |-> IF u \in Kits THEN kit ELSE drill]
MCFor == [r \in Requests |-> IF r = r1 THEN p1 ELSE IF r = r2 THEN p2 ELSE e1]
MCAsks == [r \in Requests |-> drill]
(* Two windows that touch; the third covers both. *)
MCWindow == [r \in Requests |-> IF r = r1 THEN <<1, 2>> ELSE IF r = r2 THEN <<2, 3>> ELSE <<1, 3>>]

(* Kits are interchangeable, and so are tools. *)
MCAlike == Permutations(Kits) \cup Permutations(Units \ Kits)
================================================================================
