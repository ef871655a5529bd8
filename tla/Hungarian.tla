------------------------------ MODULE Hungarian ------------------------------
(***************************************************************************)
(* The assignment algorithm of the pairing engine (hungarianMax): a square *)
(* matrix of weights goes in, and every row is given a column of its own   *)
(* so that the total weight is as large as possible.  The arrays keep the  *)
(* code's names; column 0 is the code's place for the row being assigned.  *)
(* A step is one turn of the search loop or of the loop that shifts the    *)
(* assignment along the path found.                                        *)
(***************************************************************************)
EXTENDS Integers

VARIABLES
    n,        \* number of rows and columns
    weight,   \* [1..n -> [1..n -> Nat]]
    phase,    \* "search", "shift" or "done"
    i,        \* the row being assigned
    j0,       \* the column the search or the shift has reached
    u, v,     \* potentials of rows and columns
    p,        \* p[j]: the row column j belongs to, 0 if none
    way,      \* way[j]: the column from which column j was reached best
    minv,     \* minv[j]: the least slack seen in column j
    used      \* columns the search has passed through

input == <<n, weight>>
hvars == <<n, weight, phase, i, j0, u, v, p, way, minv, used>>

Lines == 1..n
Columns == 0..n

TypeOK ==
    /\ n \in Nat \ {0}
    /\ weight \in [Lines -> [Lines -> Nat]]
    /\ phase \in {"search", "shift", "done"}
    /\ i \in Lines
    /\ j0 \in Columns
    /\ u \in [Columns -> Int]
    /\ v \in [Columns -> Int]
    /\ p \in [Columns -> Columns]
    /\ way \in [Columns -> Columns]
    /\ minv \in [Columns -> Int]
    /\ used \subseteq Columns

-----------------------------------------------------------------------------
(* The largest weight, which turns weights into costs.                     *)
Top == CHOOSE t \in {0} \cup {weight[r][c] : r, c \in Lines} :
           \A r, c \in Lines : weight[r][c] <= t
Cost(r, c) == Top - weight[r][c]
Slack(r, c) == Cost(r, c) - u[r] - v[c]

(* The arrays as the search for a place for row r finds them.              *)
Start(k, w) ==
    /\ n = k
    /\ weight = w
    /\ phase = "search"
    /\ i = 1
    /\ j0 = 0
    /\ u = [c \in Columns |-> 0]
    /\ v = [c \in Columns |-> 0]
    /\ p = [c \in Columns |-> IF c = 0 THEN 1 ELSE 0]
    /\ way = [c \in Columns |-> 0]
    /\ minv = [c \in Columns |-> 0]
    /\ used = {}

Init == \E k \in Nat \ {0} : \E w \in [1..k -> [1..k -> Nat]] : Start(k, w)

-----------------------------------------------------------------------------
Passed == used \cup {j0}
Open == Columns \ Passed

(* Mutant: a slack that only equals the best one counts as better, and the *)
(* slack of earlier columns is forgotten.                                  *)
BetterAlways(c) == TRUE

(* The column just reached offers column c less slack than was known.  At  *)
(* the beginning of a search every minv is the largest integer.            *)
Better(c) == j0 = 0 \/ Slack(p[j0], c) < minv[c]

Least(c) == IF Better(c) THEN Slack(p[j0], c) ELSE minv[c]

(* The open column with the least slack, the first one of several. *)
Nearest(c) ==
    \A d \in Open : Least(c) < Least(d) \/ (Least(c) = Least(d) /\ c <= d)

(* One turn of the search: the potentials along the columns passed move by *)
(* the least slack, so that one more column can be reached without any.    *)
Search ==
    /\ phase = "search"
    /\ \E c \in Open :
         LET delta == Least(c) IN
         /\ Nearest(c)
         /\ u' = [r \in Columns |->
                    IF \E d \in Passed : p[d] = r THEN u[r] + delta ELSE u[r]]
         /\ v' = [d \in Columns |-> IF d \in Passed THEN v[d] - delta ELSE v[d]]
         /\ minv' = [d \in Columns |->
                       IF d \in Open THEN Least(d) - delta ELSE minv[d]]
         /\ way' = [d \in Columns |->
                      IF d \in Open /\ Better(d) THEN j0 ELSE way[d]]
         /\ used' = Passed
         /\ j0' = c
         /\ phase' = IF p[c] = 0 THEN "shift" ELSE "search"
    /\ UNCHANGED <<input, i, p>>

(* Mutant: the shift stops one column early. *)
LastShiftEarly == way[way[j0]] = 0

LastShift == way[j0] = 0

(* One turn of the shift: a column takes over the row of the column it was *)
(* reached from.  After the last one the next row is searched a place for. *)
Shift ==
    /\ phase = "shift"
    /\ IF ~LastShift
         THEN /\ p' = [p EXCEPT ![j0] = p[way[j0]]]
              /\ j0' = way[j0]
              /\ UNCHANGED <<phase, i, minv, used>>
         ELSE /\ p' = [p EXCEPT ![j0] = p[way[j0]],
                                ![0] = IF i < n THEN i + 1 ELSE p[0]]
              /\ j0' = 0
              /\ i' = IF i < n THEN i + 1 ELSE i
              /\ phase' = IF i < n THEN "search" ELSE "done"
              /\ minv' = [c \in Columns |-> 0]
              /\ used' = {}
    /\ UNCHANGED <<input, u, v, way>>

Step == Search \/ Shift

Spec == Init /\ [][Step]_hvars

-----------------------------------------------------------------------------
(* Properties *)

(* The potentials never claim more than a row and a column cost together,  *)
(* and claim all of it where a row has its column.                         *)
Feasible == \A r, c \in Lines : Slack(r, c) >= 0

(* The column that is being vacated, while the assignment is shifted.      *)
Hole == IF phase = "search" THEN {} ELSE {j0}
Tight == \A c \in Lines \ Hole : p[c] # 0 => Slack(p[c], c) = 0

(* Every row up to the current one has exactly one place, a column or the  *)
(* waiting place 0.                                                        *)
Placed ==
    /\ \A r \in 1..i : \E c \in Columns \ Hole : p[c] = r
    /\ \A c, d \in Columns \ Hole : p[c] = p[d] /\ p[c] # 0 => c = d

(* The certificate of an optimal assignment: each row has one column and   *)
(* each column one row, on pairs without slack, under potentials that are  *)
(* feasible.  It is what the engine's answer rests on.                     *)
Certified ==
    phase = "done" =>
        /\ \A r \in Lines : \E c \in Lines : p[c] = r
        /\ \A c, d \in Lines : p[c] = p[d] => c = d
        /\ \A c \in Lines : p[c] \in Lines /\ Slack(p[c], c) = 0
        /\ Feasible
=============================================================================
