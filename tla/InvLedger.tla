------------------------------- MODULE InvLedger -------------------------------
(* The stock book of one consumable item at one location: how many pieces each
   shelf row holds, and the ledger of movement lines that explains every one of
   them.

   A movement takes the item lock before it reads anything it decides on, so a
   call is one step.  A count is not one call: its lines are written over days,
   while other movements go on, and become stock when somebody confirms them.
   Neither is a correction final: it states the right total of an old line, and
   the line may be corrected again.

   Reservations, which bound what may leave, are those of InvPlanning; here
   everything in good condition on the shelf is free. *)
EXTENDS Integers, Sequences, FiniteSets, SequencesExt

CONSTANTS Bins,          \* the bins of the location
          People,        \* employees and projects that use the item up
          Nobody,
          Counts,
          MaxPieces,     \* bound: pieces one call brings, counts or states
          MaxTaken,      \* bound: pieces one call takes
          MaxLines       \* bound: lines of the ledger

ASSUME LedgerAssumption ==
    Nobody \notin People /\ IsFiniteSet(Bins) /\ {MaxPieces, MaxTaken, MaxLines} \subseteq Nat

Conditions == {"good", "needs_inspection"}    \* damaged is held like needs_inspection
Rows == Bins \X Conditions
External == <<"-", "external">>
Consumed == <<"-", "consumed">>
Adjustment == <<"-", "adjustment">>
Holder == <<"-", "holder">>                    \* the employee or the project
Outside == {External, Consumed, Adjustment, Holder}
Pieces == 1..MaxPieces

VARIABLES book,          \* the stock rows and the ledger
          counts         \* inv_counts with their lines

vars == <<book, counts>>

MovementLine == [kind : {"receipt", "opening", "count_adjust", "consume", "return_unused", "condition_check",
                         "adjust_missing", "adjust_found", "adjust_retire", "correction"},
                 qty : Nat \ {0}, from : Rows \cup Outside, to : Rows \cup Outside,
                 who : People \cup {Nobody},
                 of : Nat]                   \* corrects_line_id, 0 for none
Book == [qty : [Rows -> Nat], known : SUBSET Rows, verified : SUBSET Rows, ledger : Seq(MovementLine)]
CountLine == [counted : Nat, expected : Nat]

TypeOK ==
    /\ book \in Book /\ book.verified \subseteq book.known
    /\ DOMAIN counts = Counts
    /\ \A c \in Counts :
          /\ counts[c].status \in {"none", "open", "confirmed", "cancelled"}
          /\ counts[c].kind \in {"opening", "cycle"}
          /\ DOMAIN counts[c].lines \subseteq Rows \X BOOLEAN
          /\ \A s \in DOMAIN counts[c].lines : counts[c].lines[s] \in CountLine

--------------------------------------------------------------------------------
(* inv_bal_ensure with inv_bal_change, and inv_ml. *)

Change(b, r, d) ==
    [qty |-> [b.qty EXCEPT ![r] = @ + d], known |-> b.known \cup {r},
     verified |-> IF d > 0 THEN b.verified \cup {r} ELSE b.verified, ledger |-> b.ledger]
Write(b, kind, n, from, to, who, of) ==
    [b EXCEPT !.ledger = Append(@, [kind |-> kind, qty |-> n, from |-> from, to |-> to, who |-> who, of |-> of])]

RoomFor(n) == Len(book.ledger) + n <= MaxLines
Ln(i) == book.ledger[i]
Quantity(i) == Ln(i).qty
(* The pieces of the lines in I. *)
Moved(I) == MapThenSumSet(Quantity, I)
Lines == DOMAIN book.ledger
Of(kind) == {i \in Lines : Ln(i).kind = kind}
By(w) == {i \in Lines : Ln(i).who = w}

Receipt(kind, r, n, from, who) ==
    RoomFor(1) /\ book' = Write(Change(book, r, n), kind, n, from, r, who, 0) /\ UNCHANGED counts
Receive(r, n) == Receipt("receipt", r, n, External, Nobody)

(* inv_take_qty: the fullest row first. *)
Fullest(rows) ==
    {o \in SetToSeqs(rows) : \A j, k \in DOMAIN o : j < k => book.qty[o[j]] >= book.qty[o[k]]}
Held(o, K) == MapThenSumSet(LAMBDA k : book.qty[o[k]], K)
(* What the k-th of these rows gives of n pieces. *)
Gives(o, k, n) ==
    LET left == n - Held(o, 1..(k - 1))
    IN  IF left <= 0 THEN 0 ELSE IF left < book.qty[o[k]] THEN left ELSE book.qty[o[k]]
Carried(b, r, n, to) == IF to \in Rows THEN Change(Change(b, r, -n), to, n) ELSE Change(b, r, -n)
(* n pieces are taken from these rows, those of row r to place to[r]: one ledger
   line for each row that gives. *)
Take(kind, rows, n, to, who) ==
    /\ \E o \in Fullest(rows) :
          LET gives(k) == Gives(o, k, n)
              after[k \in 0..Len(o)] ==
                 IF k = 0 THEN book
                 ELSE IF gives(k) = 0 THEN after[k - 1]
                 ELSE Write(Carried(after[k - 1], o[k], gives(k), to[o[k]]), kind, gives(k), o[k], to[o[k]], who, 0)
          IN  /\ n <= Held(o, DOMAIN o)
              /\ RoomFor(Cardinality({k \in DOMAIN o : gives(k) > 0}))
              /\ book' = after[Len(o)]
    /\ UNCHANGED counts

Outward(place) == [r \in Rows |-> place]
(* Of these bins: all, unless the line names one. *)
Consume(bins, n, w) ==
    Take("consume", bins \X {"good"}, n, Outward(Consumed), w)
Missing(bins, conds, n) == Take("adjust_missing", bins \X conds, n, Outward(Adjustment), Nobody)
Retire(bins, conds, n) == Take("adjust_retire", bins \X conds, n, Outward(Adjustment), Nobody)
CheckCondition(bins, c, d, n) ==
    c # d /\ Take("condition_check", bins \X {c}, n, [r \in Rows |-> <<r[1], d>>], Nobody)

(* A label for a bin makes its row before any stock is in it. *)
EnsureBinLabel(p) ==
    /\ <<p, "good">> \notin book.known
    /\ book' = Change(book, <<p, "good">>, 0)
    /\ UNCHANGED counts

(* What this person has consumed and not returned, from the movements as they were recorded. *)
NetConsumed(w) == Moved(Of("consume") \cap By(w)) - Moved(Of("return_unused") \cap By(w))
ReturnUnused(r, n, w) == n <= NetConsumed(w) /\ Receipt("return_unused", r, n, Holder, w)

NetMissing == Moved(Of("adjust_missing")) - Moved(Of("adjust_found"))
Found(r, n) == n <= NetMissing /\ Receipt("adjust_found", r, n, Adjustment, Nobody)

--------------------------------------------------------------------------------
(* Corrections. *)

Used(i) == Ln(i).from \in Rows /\ Ln(i).to = Consumed
Came(i) == Ln(i).from \notin Rows /\ Ln(i).to \in Rows

(* Mutant: earlier corrections of the line are forgotten. *)
MutAsRecorded(i) == Quantity(i)
(* What line i says after the corrections that name it. *)
Effective(i) ==
    LET own  == {j \in Lines : Ln(j).of = i}
        more == {j \in own : IF Used(i) THEN Ln(j).to = Consumed ELSE Ln(j).from = Adjustment}
    IN  Quantity(i) + Moved(more) - Moved(own \ more)

(* Mutant: consumption is corrected with the sign of a receipt. *)
MutOnShelf(i, d) == d
(* What correcting line i by d does to its shelf row. *)
OnShelf(i, d) == IF Used(i) THEN -d ELSE d

(* The right quantity of line i is v. *)
Correct(i, v) ==
    LET r    == IF Used(i) THEN Ln(i).from ELSE Ln(i).to
        d    == v - Effective(i)
        n    == IF d > 0 THEN d ELSE -d
        onto == (d > 0 /\ Came(i)) \/ (d < 0 /\ Used(i))
    IN  /\ Ln(i).kind # "correction" /\ (Used(i) \/ Came(i)) /\ d # 0
        /\ RoomFor(1)
        /\ book.qty[r] + OnShelf(i, d) >= 0
        /\ book' = Write(Change(book, r, OnShelf(i, d)), "correction", n,
                         IF onto THEN Adjustment ELSE r,
                         IF onto THEN r ELSE IF Used(i) THEN Consumed ELSE Adjustment, Nobody, i)
        /\ UNCHANGED counts

--------------------------------------------------------------------------------
(* Counts. *)

StartCount(c, kind) ==
    /\ counts[c].status = "none"
    /\ counts' = [counts EXCEPT ![c] = [status |-> "open", kind |-> kind, lines |-> <<>>]]
    /\ UNCHANGED book

Open(c) == counts[c].status = "open"
Listing(c, lines) == [status |-> "open", kind |-> counts[c].kind, lines |-> lines]
(* The lines of a closed count stay on record and are never looked at again. *)
Closed(status) == [status |-> status, kind |-> "cycle", lines |-> <<>>]
(* The subject of a line: the row, and whether its stock row exists already. *)
Subject(r) == <<r, r \in book.known>>
Elsewhere(c, s) == \E d \in Counts \ {c} : Open(d) /\ s \in DOMAIN counts[d].lines

SaveCountLine(c, r, n) ==
    /\ Open(c)
    /\ counts[c].kind = "opening" => n > 0 /\ r \notin book.verified
    /\ ~Elsewhere(c, Subject(r))
    /\ LET line(s) == IF s = Subject(r) THEN [counted |-> n, expected |-> book.qty[r]] ELSE counts[c].lines[s]
       IN  counts' = [counts EXCEPT ![c] = Listing(c, [s \in DOMAIN counts[c].lines \cup {Subject(r)} |-> line(s)])]
    /\ UNCHANGED book

RemoveCountLine(c, s) ==
    /\ Open(c) /\ s \in DOMAIN counts[c].lines
    /\ counts' = [counts EXCEPT ![c] = Listing(c, Restrict(counts[c].lines, DOMAIN counts[c].lines \ {s}))]
    /\ UNCHANGED book

(* Mutant: only the check made when the line was saved. *)
MutMayOpen(b, r) == TRUE
MayOpen(b, r) == r \notin b.verified
Opened(b, r, n) == Write(Change(b, r, n), "opening", n, External, r, Nobody, 0)

(* Mutant: the difference shown when the line was saved. *)
MutDifference(b, r, x) == x.counted - x.expected
Difference(b, r, x) == x.counted - b.qty[r]
Adjusted(b, r, x) ==
    LET d == Difference(b, r, x)
        n == IF d > 0 THEN d ELSE -d
    IN  IF d = 0 THEN Change(b, r, 0)
        ELSE Write(Change(b, r, d), "count_adjust", n, IF d > 0 THEN Adjustment ELSE r,
                   IF d > 0 THEN r ELSE Adjustment, Nobody, 0)

(* A line s of the count e becomes stock. *)
Posted(b, e, s) ==
    IF e.kind = "opening" THEN Opened(b, s[1], e.lines[s].counted) ELSE Adjusted(b, s[1], e.lines[s])

(* The lines are applied in the order of their random identifiers. *)
ConfirmCount(c) ==
    /\ Open(c) /\ RoomFor(Cardinality(DOMAIN counts[c].lines))
    /\ \E o \in SetToSeqs(DOMAIN counts[c].lines) :
          LET after[k \in 0..Len(o)] == IF k = 0 THEN book ELSE Posted(after[k - 1], counts[c], o[k])
          IN  /\ counts[c].kind = "opening" => \A k \in DOMAIN o : MayOpen(after[k - 1], o[k][1])
              /\ \A k \in DOMAIN o : after[k].qty[o[k][1]] >= 0
              /\ book' = after[Len(o)]
    /\ counts' = [counts EXCEPT ![c] = Closed("confirmed")]

CancelCount(c) ==
    Open(c) /\ counts' = [counts EXCEPT ![c] = Closed("cancelled")] /\ UNCHANGED book

--------------------------------------------------------------------------------
Init ==
    /\ book = [qty |-> [r \in Rows |-> 0], known |-> {}, verified |-> {}, ledger |-> <<>>]
    /\ counts = [c \in Counts |-> Closed("none")]

(* A call names one bin or none. *)
Where == {Bins} \cup {{p} : p \in Bins}
Move ==
    \/ \E r \in Rows, n \in Pieces :
          \/ Receive(r, n) \/ Found(r, n)
          \/ \E w \in People : ReturnUnused(r, n, w)
    \/ \E bins \in Where, n \in 1..MaxTaken :
          \/ \E w \in People \cup {Nobody} : Consume(bins, n, w)
          \/ \E conds \in {Conditions, {"good"}, {"needs_inspection"}} : Missing(bins, conds, n) \/ Retire(bins, conds, n)
          \/ \E c, d \in Conditions : CheckCondition(bins, c, d, n)
    \/ \E i \in Lines, v \in {0} \cup Pieces : Correct(i, v)
    \/ \E p \in Bins : EnsureBinLabel(p)
Count ==
    \E c \in Counts :
       \/ \E kind \in {"opening", "cycle"} : StartCount(c, kind)
       \/ \E r \in Rows, n \in {0} \cup Pieces : SaveCountLine(c, r, n)
       \/ \E s \in DOMAIN counts[c].lines : RemoveCountLine(c, s)
       \/ ConfirmCount(c) \/ CancelCount(c)
Next == Move \/ Count
Spec == Init /\ [][Next]_vars

--------------------------------------------------------------------------------
(* What the lines in I brought to row r, less what they took from it. *)
Brought(I, r) == Moved({i \in I : Ln(i).to = r}) - Moved({i \in I : Ln(i).from = r})

(* inv_ledger_problems finds nothing: what a row holds is what the lines that
   went to it brought, less what the lines from it took, through corrections of
   corrections and counts confirmed late. *)
BooksAgree ==
    \A r \in Rows : book.qty[r] = Brought(Lines, r)

(* ... and no row holds less than nothing (TypeOK). *)
StockSound == TypeOK /\ BooksAgree

(* However often a line is corrected, by inv_correct_movement naming the right
   total, its corrections never take back more than the line brought to the
   shelf, or give back more than it took. *)
OnItsRow(i, r) ==
    Brought({i} \cup {j \in Lines : Ln(j).of = i}, r)
NeverReversed ==
    \A i \in Lines : Ln(i).kind # "correction" =>
        /\ Came(i) => OnItsRow(i, Ln(i).to) >= 0
        /\ Used(i) => OnItsRow(i, Ln(i).from) <= 0

(* Opening stock is the first stock of its place: a count that confirms it
   (inv_confirm_count) long after the line was saved never adds it to pieces
   that were received, found or opened in between. *)
OpeningIsFirst ==
    \A i \in Lines : Ln(i).kind = "opening" =>
        \A j \in 1..(i - 1) : Ln(j).to # Ln(i).to

(* When a cycle count is confirmed, each place on it holds a number somebody
   counted there, whatever moved since, and no other place changes. *)
Confirmed(c) == Open(c) /\ counts[c].kind = "cycle" /\ counts'[c].status = "confirmed"
CountDecides ==
    [][\A c \in Counts : Confirmed(c) =>
          \A r \in Rows :
             LET said == {s \in DOMAIN counts[c].lines : s[1] = r}
             IN  IF said = {} THEN book'.qty[r] = book.qty[r]
                 ELSE book'.qty[r] \in {counts[c].lines[s].counted : s \in said}]_vars

(* The header of inv_return_unused: "never more than that employee / project
   consumed".  Both sides as corrected. *)
ReturnedWithinUsed ==
    \A w \in People :
       LET of(kind) == Of(kind) \cap By(w)
       IN  MapThenSumSet(LAMBDA i : OnItsRow(i, Ln(i).to), of("return_unused"))
             <= MapThenSumSet(LAMBDA i : -OnItsRow(i, Ln(i).from), of("consume"))

(* The header of inv_save_count_line: "Saving the same subject again replaces
   the line": no count lists one place twice. *)
OneLinePerPlace ==
    \A c \in Counts : \A s, t \in DOMAIN counts[c].lines : s[1] = t[1] => s = t
================================================================================
