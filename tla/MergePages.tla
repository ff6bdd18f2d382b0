----------------------------- MODULE MergePages -----------------------------
(***************************************************************************)
(* What folding the forum's rows of merged works promises.  Something a    *)
(* user left on a work stands there until the work is folded into another, *)
(* and is carried on by every fold of the work it stands on.  Undoing a    *)
(* fold takes back all that the fold carried, from wherever later folds    *)
(* have carried it since, and leaves the rest alone.  A page shows what    *)
(* stands on it: nothing is lost, and nothing shown or counted twice.      *)
(***************************************************************************)
EXTENDS Naturals, Sequences, FiniteSetsExt

CONSTANTS
    Works,
    Users

VARIABLES
    once,      \* does a user count once on a page?
    total,     \* does a page count all users together?
    merges,    \* the folds so far, and whether each has been undone
    weight,    \* what a user left on a work, 0 for nothing
    trail,     \* the folds that carried it, in order
    shown      \* what the page of a work shows of a user

vars == <<once, total, merges, weight, trail, shown>>

(* What a user left on a work: its origin never changes.                   *)
Row == Users \X Works
User(r) == r[1]
Origin(r) == r[2]

Stand(r) ==
    IF trail[r] = <<>> THEN Origin(r) ELSE merges[trail[r][Len(trail[r])]].new

Standing(u, w) == {r \in Row : User(r) = u /\ weight[r] > 0 /\ Stand(r) = w}

Page ==
    LET told(u, w) == IF total THEN UNION {Standing(v, w) : v \in Users} ELSE Standing(u, w)
        sum(u, w) == MapThenSumSet(LAMBDA r : weight[r], told(u, w))
    IN  [w \in Works |-> [u \in Users |->
            LET n == sum(u, w) IN IF once /\ n > 1 THEN 1 ELSE n]]

Init ==
    /\ once \in BOOLEAN /\ total \in BOOLEAN
    /\ merges = <<>>
    /\ weight \in [Row -> {0, 1}]
    /\ trail = [r \in Row |-> <<>>]
    /\ shown = Page

-----------------------------------------------------------------------------
(* The newest fold of a work that has not been undone, 0 if there is none. *)
Newest(w) ==
    Max({0} \cup {i \in DOMAIN merges : merges[i].old = w /\ ~merges[i].undone})

Carried(x) ==
    trail' = [r \in Row |-> IF weight[r] > 0 /\ Stand(r) = x
                            THEN Append(trail[r], Len(merges) + 1) ELSE trail[r]]

TakenBack(i) ==
    trail' = [r \in Row |->
        IF \E p \in DOMAIN trail[r] : trail[r][p] = i
        THEN SubSeq(trail[r], 1, (CHOOSE p \in DOMAIN trail[r] : trail[r][p] = i) - 1)
        ELSE trail[r]]

Fold(x, y) ==
    /\ x # y
    /\ merges' = Append(merges, [old |-> x, new |-> y, undone |-> FALSE])
    /\ Carried(x)
    /\ shown' = Page'
    /\ UNCHANGED <<once, total, weight>>

Undo(x) ==
    /\ Newest(x) # 0
    /\ merges' = [merges EXCEPT ![Newest(x)].undone = TRUE]
    /\ TakenBack(Newest(x))
    /\ shown' = Page'
    /\ UNCHANGED <<once, total, weight>>

(* A user adds to what stands on a work, or leaves something there.        *)
Add(r) ==
    /\ weight' = [weight EXCEPT ![r] = @ + 1]
    /\ shown' = Page'
    /\ UNCHANGED <<once, total, merges, trail>>

(* A user takes away what stands on a work: a row, or all that counts once. *)
TakeAway(u, w) ==
    /\ \E gone \in (SUBSET Standing(u, w)) \ {{}} :
        /\ once => gone = Standing(u, w)
        /\ weight' = [r \in Row |-> IF r \in gone THEN 0 ELSE weight[r]]
        /\ trail' = [r \in Row |-> IF r \in gone THEN <<>> ELSE trail[r]]
    /\ shown' = Page'
    /\ UNCHANGED <<once, total, merges>>

Next ==
    \/ \E x, y \in Works : Fold(x, y)
    \/ \E x \in Works : Undo(x)
    \/ \E r \in Row : Add(r)
    \/ \E u \in Users, w \in Works : TakeAway(u, w)

Spec == Init /\ [][Next]_vars

=============================================================================
