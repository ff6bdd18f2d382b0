---------------------------- MODULE MergeLedger -----------------------------
(***************************************************************************)
(* Folds and unfolds of the forum's rows in any order the catalog's merges *)
(* allow, while users add rows and take them away, against the promise of  *)
(* MergePages.                                                             *)
(***************************************************************************)
EXTENDS MergeFold

CONSTANTS
    Tables,       \* the tables a behaviour may be about
    Siblings,     \* may two works with peers be folded into one survivor?
    MaxFolds,     \* bound on folds
    MaxEdits,     \* bound on what users add
    MaxRemovals   \* bound on what users take away

ASSUME LedgerBoundsOK ==
    /\ Tables \subseteq {"resource", "like", "contributor", "daily", "work"}
    /\ Siblings \in BOOLEAN /\ MaxFolds \in Nat /\ MaxEdits \in Nat /\ MaxRemovals \in Nat

VARIABLES
    db,
    weight, trail,      \* what users left and the folds that carried it: history
    edits, removals

vars == <<db, weight, trail, edits, removals>>

(* What the page of a work shows of a user.                                *)
Shown(d) ==
    [w \in Works |-> [u \in Users |->
        CASE d.table = "daily" -> IF d.daily[w] = NoBucket THEN 0 ELSE d.daily[w]
          [] d.table = "work"  -> IF d.local[w] = NoRow THEN 0 ELSE d.local[w].view
          [] d.table = "contributor" ->
                MapThenSumSet(LAMBDA r : d.count[r], {r \in On(d, w) : User(r) = u})
          [] OTHER -> Cardinality({r \in On(d, w) : User(r) = u})]]

Merges(d) == [i \in DOMAIN d.folds |->
                [old |-> d.folds[i].old, new |-> d.folds[i].new, undone |-> d.folds[i].undone]]

Pages == INSTANCE MergePages WITH
    once   <- (db.table = "like"),
    total  <- (db.table \in {"daily", "work"}),
    merges <- Merges(db),
    shown  <- Shown(db)

(* Rows and counters with what users have left so far.                     *)
RowTable(t) == t \in {"resource", "like", "contributor"}

Init ==
    \E t \in Tables, local \in SUBSET Works :
        /\ weight \in [Row -> {0, 1}]
        /\ LET left(w) == MapThenSumSet(LAMBDA u : weight[<<u, w>>], Users) IN
           db = [table |-> t,
                 at    |-> [r \in Row |-> IF RowTable(t) /\ weight[r] = 1 THEN Origin(r) ELSE 0],
                 count |-> [r \in Row |-> IF t = "contributor" THEN weight[r] ELSE 0],
                 daily |-> [w \in Works |-> IF t = "daily" /\ left(w) > 0 THEN left(w) ELSE NoBucket],
                 local |-> [w \in Works |-> IF w \in local
                              THEN [view |-> IF t = "work" THEN left(w) ELSE 0, published |-> FALSE]
                              ELSE NoRow],
                 folds |-> <<>>]
        /\ t \in {"resource", "work"} \/ local = Works
        /\ t = "work" => \A r \in Row : weight[r] > 0 => Origin(r) \in local
    /\ trail = [r \in Row |-> <<>>]
    /\ edits = 0 /\ removals = 0

-----------------------------------------------------------------------------
(* Catalog's merges form a forest, and the sync undoes a fold into another *)
(* survivor first.                                                         *)
Fold(x, y) ==
    /\ x # y /\ Referenced(db, x)
    /\ Len(db.folds) < MaxFolds
    /\ ActiveFold(db, y) = 0
    /\ ActiveFold(db, x) # 0 => db.folds[ActiveFold(db, x)].new = y
    /\ Siblings \/ db.table \in {"resource", "daily"} \/ \A z \in Works \ {x} :
           ActiveFold(db, z) # 0 => db.folds[ActiveFold(db, z)].new # y
    /\ db' = FoldTx(db, x, y)
    /\ Pages!Carried(x)
    /\ UNCHANGED <<weight, edits, removals>>

Undo(x) ==
    /\ ActiveFold(db, x) # 0
    /\ db' = Unfold(db, x)
    /\ Pages!TakenBack(ActiveFold(db, x))
    /\ UNCHANGED <<weight, edits, removals>>

EnsureLocal(d, w) ==
    [d EXCEPT !.local[w] = IF @ = NoRow THEN [view |-> 0, published |-> FALSE] ELSE @]

(* A row is made on a work, a resource on one merged away too.  (A like    *)
(* made on a work revived before its fold is undone keeps the older one    *)
(* from coming back; that is reported as a conflict and left out.)         *)
Leave(r) ==
    /\ db.table \in {"resource", "like"} /\ weight[r] = 0 /\ edits < MaxEdits
    /\ Peers(db, r, Origin(r)) = {}
    /\ HasPeer(db) => ActiveFold(db, Origin(r)) = 0
    /\ removals = 0      \* the name of a deleted row is not used again
    /\ db' = EnsureLocal([db EXCEPT !.at[r] = Origin(r)], Origin(r))
    /\ weight' = [weight EXCEPT ![r] = 1]
    /\ edits' = edits + 1
    /\ UNCHANGED <<trail, removals>>

(* A revision of a work counts for the contributor's row there, or for a   *)
(* new one; a view counts on the day's bucket, or on the work's own row.   *)
(* (Not on a row that a fold made: an undone earlier fold leaves it with   *)
(* fewer views than the fold noted, a view may make up for it, and the row *)
(* is taken for one that nobody has written to.)                           *)
Edit(u, w) ==
    LET here == {q \in On(db, w) : User(q) = u}
        r == IF here = {} THEN <<u, w>> ELSE CHOOSE q \in here : TRUE
    IN
    /\ db.table \in {"contributor", "daily", "work"} /\ edits < MaxEdits
    /\ ActiveFold(db, w) = 0
    /\ db.table = "work" =>
        /\ db.local[w] # NoRow
        /\ \A i \in DOMAIN db.folds : db.folds[i].new = w => db.folds[i].before # NoRow
    /\ db' = CASE db.table = "contributor" -> [db EXCEPT !.at[r] = w, !.count[r] = @ + 1]
               [] db.table = "daily" -> [db EXCEPT !.daily[w] = Plus(@, 1)]
               [] db.table = "work" -> [db EXCEPT !.local[w].view = @ + 1]
    /\ weight' = [weight EXCEPT ![IF db.table = "contributor" THEN r ELSE <<u, w>>] = @ + 1]
    /\ edits' = edits + 1
    /\ UNCHANGED <<trail, removals>>

(* A user deletes a resource, or takes a like back: all it stood for goes. *)
(* (Of a user with no other like, who makes none after: any on the works   *)
(* the survivor was folded into passes for the one that was taken back.)   *)
TakeAway(r) ==
    LET gone == IF db.table = "like" THEN Pages!Standing(User(r), db.at[r]) ELSE {r} IN
    /\ db.table \in {"resource", "like"} /\ db.at[r] # 0 /\ removals < MaxRemovals
    /\ db.table = "like" =>
          \A q \in Row : User(q) = User(r) /\ weight[q] > 0 => q \in gone
    /\ db' = [db EXCEPT !.at[r] = 0]
    /\ weight' = [q \in Row |-> IF q \in gone THEN 0 ELSE weight[q]]
    /\ trail' = [q \in Row |-> IF q \in gone THEN <<>> ELSE trail[q]]
    /\ removals' = removals + 1
    /\ UNCHANGED edits

Next ==
    \/ \E x, y \in Works : Fold(x, y)
    \/ \E x \in Works : Undo(x)
    \/ \E r \in Row : Leave(r) \/ TakeAway(r)
    \/ \E u \in Users, w \in Works : Edit(u, w)

Spec == Init /\ [][Next]_vars

-----------------------------------------------------------------------------
(* Properties *)

(* A row that a fold moved is where the ledgers of the folds after it lead, *)
(* so that the undo, in whatever order undos come, finds it.               *)
LedgersLeadToRows ==
    \A f \in DOMAIN db.folds : ~db.folds[f].undone =>
        \A r \in db.folds[f].moved : weight[r] > 0 =>
            LET t == Trace(db, f, r) IN db.at[r] = IF t.dropped = 0 THEN t.at ELSE 0

(* With no fold in force, what users left is back on the works they left   *)
(* it on: "so an undone merge can be folded back".                         *)
AllUndoneAllBack ==
    (\A i \in DOMAIN db.folds : db.folds[i].undone) =>
        \A r \in Row : weight[r] > 0 /\ db.table \in {"resource", "like"} =>
            db.at[r] = Origin(r)

(* In whatever order folds are undone, each page shows what MergePages     *)
(* says stands on it.                                                      *)
PagesSpec == Pages!Spec

=============================================================================
