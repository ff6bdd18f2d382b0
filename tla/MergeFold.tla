----------------------------- MODULE MergeFold ------------------------------
(***************************************************************************)
(* The two transactions of GalgameMergeRepository, as functions of the     *)
(* database: FoldTx moves the rows of a merged work onto the work it was   *)
(* merged into and writes a ledger of what it did, Unfold reverses the     *)
(* newest fold of a work by that ledger and those of later folds.          *)
(*                                                                         *)
(* The tables fold in four ways and do not touch one another, so a         *)
(* database here is one of them: "resource" (and whatever has no peer:     *)
(* activities, comment maps, relocations, repointed feed rows), "like"     *)
(* (and whatever a user or a quiz has once per work), "contributor" (once  *)
(* per work, and edit counts add up), "daily" (view buckets), "work" (the  *)
(* galgame row itself).  Columns that are recounted, and dates, are left   *)
(* out.  A row is named by its user and the work it was made on.           *)
(***************************************************************************)
EXTENDS Integers, SequencesExt, FiniteSetsExt

CONSTANTS
    Works,     \* work ids, 0 for none
    Users

ASSUME WorksOK == Works \subseteq Nat \ {0} /\ IsFiniteSet(Works) /\ IsFiniteSet(Users)

Row == Users \X Works
User(r) == r[1]
Origin(r) == r[2]

NoRow == [view |-> -1, published |-> FALSE]
NoBucket == -1

(* GREATEST(a - b, 0), and ON CONFLICT DO UPDATE SET count = count + b.    *)
Less(a, b) == IF a > b THEN a - b ELSE 0
Plus(a, b) == IF a = NoBucket THEN b ELSE a + b

On(d, w) == {r \in Row : d.at[r] = w}
HasPeer(d) == d.table \in {"like", "contributor"}
Peers(d, r, w) == IF HasPeer(d) THEN {q \in On(d, w) : User(q) = User(r)} ELSE {}

ReferencedBeyondRow(d, w) == On(d, w) # {} \/ d.daily[w] # NoBucket
Referenced(d, w) == d.local[w] # NoRow \/ ReferencedBeyondRow(d, w)

-----------------------------------------------------------------------------
ActiveFold(d, w) ==
    Max({0} \cup {i \in DOMAIN d.folds : d.folds[i].old = w /\ ~d.folds[i].undone})

(* w and every work it has since been folded into.                         *)
FoldChain(d, w) ==
    LET step(chain, n) ==
            LET f == ActiveFold(d, Last(chain)) IN
            IF f = 0 \/ d.folds[f].new \in Range(chain) THEN chain
            ELSE Append(chain, d.folds[f].new)
    IN Range(FoldLeft(step, <<w>>, [n \in 1 .. Cardinality(Works) |-> n]))

FoldTx(d, old, new) ==
    LET gone    == d.local[old]
        before  == d.local[new]
        base    == IF before = NoRow THEN [view |-> 0, published |-> FALSE] ELSE before
        after   == IF gone = NoRow THEN before
                   ELSE [view |-> base.view + gone.view,
                         published |-> base.published \/ gone.published]
        drops   == {r \in On(d, old) : Peers(d, r, new) # {}}
        moves   == On(d, old) \ drops
        summed  == IF d.table = "contributor"
                   THEN UNION {{[into |-> q, absorbed |-> r, count |-> d.count[r]]
                                : q \in Peers(d, r, new)} : r \in drops}
                   ELSE {}
        added(q) == MapThenSumSet(LAMBDA s : s.count, {s \in summed : s.into = q})
    IN [d EXCEPT
        !.at    = [r \in Row |-> CASE r \in moves -> new [] r \in drops -> 0 [] OTHER -> @[r]],
        !.count = [r \in Row |-> IF r \in drops THEN 0 ELSE @[r] + added(r)],
        !.daily = [d.daily EXCEPT ![old] = NoBucket,
                                  ![new] = IF d.daily[old] = NoBucket THEN d.daily[new]
                                           ELSE Plus(d.daily[new], d.daily[old])],
        !.local = [@ EXCEPT ![old] = NoRow, ![new] = after],
        !.folds = Append(@, [old |-> old, new |-> new, undone |-> FALSE,
                             row |-> gone, before |-> before, after |-> after,
                             moved |-> moves, summed |-> summed, bucket |-> d.daily[old],
                             dropped |-> {[row |-> r, count |-> d.count[r]] : r \in drops}])]

-----------------------------------------------------------------------------
(* Unfold.  f is the fold being undone; g one of the folds after it.       *)

DropOf(d, g, r) == {e \in d.folds[g].dropped : e.row = r}

(* Fault: only the fold's own survivor is looked at.                       *)
TraceNowhere(d, f, r) == [at |-> d.folds[f].new, carried |-> {}, dropped |-> 0]

(* Where a row fold f left on its survivor is now, by the later ledgers:   *)
(* the folds that carried it on, and the one that dropped it, if any.      *)
Trace(d, f, r) ==
    LET step(t, g) ==
            IF t.dropped # 0 \/ d.folds[g].undone \/ d.folds[g].old # t.at THEN t
            ELSE IF r \in d.folds[g].moved
                 THEN [t EXCEPT !.at = d.folds[g].new, !.carried = @ \cup {g}]
            ELSE IF DropOf(d, g, r) # {} THEN [t EXCEPT !.dropped = g]
            ELSE t
        later == [n \in 1 .. Len(d.folds) - f |-> f + n]
    IN FoldLeft(step, [at |-> d.folds[f].new, carried |-> {}, dropped |-> 0], later)

(* Fault: later ledgers keep a row that an earlier undo has taken back.    *)
VoidMovesNever(d, r, gs) == d

VoidMoves(d, r, gs) ==
    FoldSet(LAMBDA g, c : [c EXCEPT !.folds[g].moved = @ \ {r}], d, gs)

VoidDrop(d, r, g) == [d EXCEPT !.folds[g].dropped = @ \ DropOf(d, g, r)]

(* A dropped row comes back while the row it was dropped for, or one that  *)
(* row was folded into, is still there, and its own place is free.         *)
RestoreSnapshot(d, f, e, into) ==
    LET old   == d.folds[f].old
        alive == HasPeer(d) => \E w \in FoldChain(d, into) : Peers(d, e.row, w) # {}
        free  == d.at[e.row] = 0 /\ Peers(d, e.row, old) = {}
    IN IF alive /\ free THEN [d EXCEPT !.at[e.row] = old, !.count[e.row] = e.count] ELSE d

(* What fold g added to another row from row r, which goes back.           *)
UnsumAbsorbedBy(d, g, r) ==
    LET entry == {s \in d.folds[g].summed : s.absorbed = r} IN
    IF entry = {} THEN d
    ELSE LET s == CHOOSE s \in entry : TRUE IN
         [d EXCEPT !.count[s.into] = Less(@, s.count),
                   !.folds[g].summed = @ \ {s}]

MoveBack(d, f, r) ==
    LET t == Trace(d, f, r)
        old == d.folds[f].old
        e == CHOOSE e \in DropOf(d, t.dropped, r) : TRUE
        restored == RestoreSnapshot(d, f, e, d.folds[t.dropped].new)
        unsummed == IF d.table = "contributor"
                    THEN UnsumAbsorbedBy(restored, t.dropped, r) ELSE restored
    IN IF t.dropped # 0 THEN VoidMoves(VoidDrop(unsummed, r, t.dropped), r, t.carried)
       ELSE IF d.at[r] = t.at /\ Peers(d, r, old) = {}
            THEN VoidMoves([d EXCEPT !.at[r] = old], r, t.carried)
            ELSE d

(* What fold f added to a contributor's row goes off it again, or off the  *)
(* row that one was dropped for, whose ledger then carries less.           *)
UnsumContributor(d, f, s) ==
    LET g == Trace(d, f, s.into).dropped
        later == IF g = 0 THEN {} ELSE {e \in d.folds[g].summed : e.absorbed = s.into}
        e == CHOOSE e \in later : TRUE
        lowered == [d EXCEPT
            !.folds[g].dropped = {IF x.row = s.into THEN [x EXCEPT !.count = Less(@, s.count)]
                                  ELSE x : x \in @},
            !.folds[g].summed = (@ \ {e}) \cup {[e EXCEPT !.count = Less(@, s.count)]}]
        takeOff(c, r) == IF c.at[r] = 0 THEN c ELSE [c EXCEPT !.count[r] = Less(@, s.count)]
    IN IF g = 0 THEN takeOff(d, s.into)
       ELSE IF later = {} THEN d
       ELSE takeOff(lowered, e.into)

(* The old work's views come off wherever later folds have summed them.    *)
UnsumViews(d, f) ==
    LET old == d.folds[f].old
        n == d.folds[f].bucket
        step(t, g) ==
            IF d.folds[g].undone \/ d.folds[g].old # t.at \/ d.folds[g].bucket = NoBucket THEN t
            ELSE [at |-> d.folds[g].new, through |-> t.through \cup {g}]
        t == FoldLeft(step, [at |-> d.folds[f].new, through |-> {}],
                      [i \in 1 .. Len(d.folds) - f |-> f + i])
        left == Less(d.daily[t.at], n)
        taken == [d.daily EXCEPT ![t.at] = IF left = 0 THEN NoBucket ELSE left]
    IN IF n = NoBucket THEN d
       ELSE [FoldSet(LAMBDA g, c : [c EXCEPT !.folds[g].bucket = Less(@, n)], d, t.through)
            EXCEPT !.daily = [taken EXCEPT ![old] = Plus(taken[old], n)]]

(* The old work's own row comes back, or adds to one made meanwhile.       *)
RestoreOldRow(d, f) ==
    LET old == d.folds[f].old
        row == d.folds[f].row
    IN IF row = NoRow THEN d
       ELSE IF d.local[old] = NoRow THEN [d EXCEPT !.local[old] = row]
       ELSE [d EXCEPT !.local[old].view = @ + row.view,
                      !.local[old].published = @ \/ row.published]

(* A survivor that a later fold has merged away: the views come off the    *)
(* row they ended up in and off the snapshots on the way, and the next     *)
(* fold's snapshot of the flag goes back to what it was.                   *)
RestoreFoldedSurvivor(d, f) ==
    LET fold == d.folds[f]
        step(t, g) ==
            IF d.folds[g].undone \/ d.folds[g].old # t.at THEN t
            ELSE [at |-> d.folds[g].new, through |-> Append(t.through, g)]
        t == FoldLeft(step, [at |-> fold.new, through |-> <<>>],
                      [i \in 1 .. Len(d.folds) - f |-> f + i])
        was == fold.before # NoRow /\ fold.before.published
        snapshot(g) ==
            LET row == d.folds[g].row IN
            IF row = NoRow THEN row
            ELSE [view |-> Less(row.view, fold.row.view),
                  published |-> IF g = Head(t.through) /\ row.published = fold.after.published
                                THEN was ELSE row.published]
    IN IF fold.row = NoRow THEN d
       ELSE [FoldSet(LAMBDA g, c : [c EXCEPT !.folds[g].row = snapshot(g)], d, Range(t.through))
            EXCEPT !.local[t.at] = IF @ = NoRow THEN @
                                   ELSE [@ EXCEPT !.view = Less(d.local[t.at].view, fold.row.view)]]

(* What the fold added to the survivor's row is taken back: views, and a   *)
(* flag nothing has changed since.  A row the fold made goes, if nothing   *)
(* references it and nobody has written to it.                             *)
RestoreSurvivor(d, f) ==
    LET fold == d.folds[f]
        w == fold.new
        made == fold.before = NoRow /\ fold.row # NoRow
        was == fold.before # NoRow /\ fold.before.published
        views == IF fold.row = NoRow THEN 0 ELSE fold.row.view
        resources == d.table = "resource" /\ On(d, w) # {}
        row == d.local[w]
    IN IF row = NoRow THEN RestoreFoldedSurvivor(d, f)
       ELSE IF made /\ row = fold.after /\ ~ReferencedBeyondRow(d, w)
            THEN [d EXCEPT !.local[w] = NoRow]
       ELSE [d EXCEPT !.local[w] =
                [view |-> Less(row.view, views),
                 published |-> IF fold.after # NoRow /\ row.published = fold.after.published
                               THEN was \/ resources ELSE row.published]]

(* One transaction; the sync repeats it until the work has no active fold. *)
Unfold(d, w) ==
    LET f == ActiveFold(d, w)
        rows(c) ==
            LET unsummed == FoldSet(LAMBDA s, x : UnsumContributor(x, f, s), c, d.folds[f].summed)
                moved    == FoldSet(LAMBDA r, x : MoveBack(x, f, r), unsummed, d.folds[f].moved)
            IN FoldSet(LAMBDA e, x : RestoreSnapshot(x, f, e, d.folds[f].new),
                       moved, d.folds[f].dropped)
    IN [RestoreSurvivor(UnsumViews(rows(RestoreOldRow(d, f)), f), f)
            EXCEPT !.folds[f].undone = TRUE]

=============================================================================
