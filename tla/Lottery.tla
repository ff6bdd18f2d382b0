------------------------------ MODULE Lottery ------------------------------
(***************************************************************************)
(* The life of one topic lottery: its row (topic_lottery), the entries     *)
(* (topic_lottery_entry), the redemption codes (topic_lottery_code) and    *)
(* the processes that touch them - readers' requests, the author's edits,  *)
(* the author's manual draw and the every-minute sweep.                    *)
(*                                                                         *)
(* A handler that decides on rows it read outside its transaction is split *)
(* at that point (EnterRead / EnterInsert / EnterCommit, ...), so that any *)
(* other handler may run in between.  A transaction is one action, except  *)
(* that the one statement whose snapshot may be older than its row lock,   *)
(* SyncEntryCount, is split into its snapshot and its commit.              *)
(***************************************************************************)
EXTENDS Naturals, FiniteSets

CONSTANTS
    Users,       \* readers who may enter; the author is not one of them
    Nobody,      \* claimed_by = 0
    Rank,        \* a user's place in the order of HMAC(seed, user)
    Bannable,    \* users whom Hydrate may report as banned at the draw
    Drawers,     \* "manual" (DrawOpen) and "sweep" (sweepDueLotteries)
    Modes,       \* entry modes edited between: "signup" (and reply), "floor"
    DrawModes,   \* "deadline", "threshold", "manual"
    Threshold,   \* draw_threshold
    Plans,       \* prize lists an author may store
    MaxSlots,    \* bound on the slots of a plan
    Slots,       \* Slots[p]: winners plan p has room for
    Delivery,    \* Delivery[p][i]: "code", "manual" or "point" for slot i
    Budget,      \* Budget[p]: lotteryShape.budget()
    Paid,        \* Paid[p][n]: points stampPointPayouts hands to n winners
    Overlap,     \* may the sweep find stale a row whose draw still runs?
    MaxEdits,    \* bound on edits
    MaxFailures  \* bound on failed draws, lost acknowledgements and crashes

ASSUME ConstantsOK ==
    /\ IsFiniteSet(Users) /\ Nobody \notin Users
    /\ Rank \in [Users -> Nat]
    /\ \A u, v \in Users : Rank[u] = Rank[v] => u = v
    /\ Bannable \subseteq Users
    /\ Drawers \subseteq {"manual", "sweep"}
    /\ Modes # {} /\ Modes \subseteq {"signup", "floor"}
    /\ DrawModes \subseteq {"deadline", "threshold", "manual"}
    /\ Threshold \in Nat
    /\ MaxSlots \in Nat /\ Plans # {}
    /\ Slots \in [Plans -> 1 .. MaxSlots]
    /\ Delivery \in [Plans -> [1 .. MaxSlots -> {"code", "manual", "point"}]]
    /\ Budget \in [Plans -> Nat]
    /\ Paid \in [Plans -> [0 .. MaxSlots -> Nat]]
    /\ Overlap \in BOOLEAN
    /\ MaxEdits \in Nat /\ MaxFailures \in Nat

(***************************************************************************)
(* However many slots are filled, the winners are paid no more than the    *)
(* author was charged.  Module LotteryPayout checks it of pointPayouts.    *)
(***************************************************************************)
ASSUME PaidWithinBudget ==
    \A p \in Plans : \A n \in 0 .. MaxSlots :
        n <= Slots[p] => Paid[p][n] <= Budget[p]

VARIABLES
    status, mode, drawMode, plan, escrow, entryCount,
    closed,     \* the deadline has passed
    stale,      \* updated is 15 minutes old (drawStaleAfter)
    seeded,     \* a seed was drawn and its hash published at creation
    entered,    \* users with an entry row
    prize,      \* prize[u]: the slot u's entry won, 0 for none
    code,       \* code[u]: the code u's entry holds, 0 for none
    ful,        \* ful[u]: fulfillment of u's entry
    claimedBy,  \* claimedBy[c]: who TakeCode handed code c to
    req,        \* req[u]: u's request in flight and what it read
    draw,       \* draw[d]: drawer d's draw in flight and what it read
    charged, refunded, paid,    \* author charged and refunded, winners paid
    told, revealed, returned,   \* what users and author have been shown
    edits, failures

rowVars    == <<status, mode, drawMode, plan, escrow, closed, stale, seeded>>
entryVars  == <<entered, prize, code, ful>>
ledgerVars == <<charged, refunded, paid>>
shownVars  == <<told, revealed, returned>>
boundVars  == <<edits, failures>>

vars == <<rowVars, entryCount, entryVars, claimedBy, req, draw,
          ledgerVars, shownVars, boundVars>>

-----------------------------------------------------------------------------
Statuses     == {"open", "drawing", "drawn", "cancelled", "deleted"}
Fulfillments == {"none", "pending", "shipped", "received", "forfeited"}
Codes        == 1 .. MaxSlots
SlotOrNone   == 0 .. MaxSlots

Request == [pc   : {"idle", "enter", "inserting", "withdraw", "deleting",
                    "reveal"},
            n    : Nat,              \* the COUNT(*) its UPDATE saw
            code : SlotOrNone, ful : Fulfillments]

Idle == [pc |-> "idle", n |-> 0, code |-> 0, ful |-> "none"]

DrawRecord == [pc   : {"idle", "flipped", "claimed", "picked", "failed",
                       "committed"},
               mode : Modes, escrow : Nat,     \* the lottery row it read
               plan : Plans, n : SlotOrNone,   \* the prizes, the winners' number
               pool : SUBSET Users,            \* who was eligible
               win  : [Users -> SlotOrNone]]   \* who won which slot

NotDrawing == [pc |-> "idle", mode |-> CHOOSE m \in Modes : TRUE, escrow |-> 0,
               plan |-> CHOOSE p \in Plans : TRUE, n |-> 0, pool |-> {},
               win |-> [u \in Users |-> 0]]

Drawing(d)   == draw[d].pc # "idle"
DrawInFlight == \E d \in Drawers : Drawing(d)

(***************************************************************************)
(* An INSERT into topic_lottery_entry holds FOR KEY SHARE on the lottery   *)
(* row until it commits; FOR UPDATE and DELETE on that row wait for it.    *)
(***************************************************************************)
RowShared == \E u \in Users : req[u].pc = "inserting"

Due == \/ drawMode = "deadline"  /\ closed
       \/ drawMode = "threshold" /\ entryCount >= Threshold

(* Fault: the refund is not clamped at zero.                               *)
ExcessUnclamped(a, b) == a - b

Excess(a, b) == IF a > b THEN a - b ELSE 0

(***************************************************************************)
(* createLottery: the row, its prizes and its codes are written in the     *)
(* transaction that takes the budget from the author's cached balance.     *)
(***************************************************************************)
Init ==
    /\ status = "open"
    /\ mode \in Modes /\ drawMode \in DrawModes /\ plan \in Plans
    /\ mode = "floor" => drawMode # "threshold"
    /\ drawMode = "threshold" => Threshold >= Slots[plan]
    /\ escrow = Budget[plan] /\ charged = Budget[plan]
    /\ refunded = 0 /\ paid = 0 /\ entryCount = 0
    /\ closed = FALSE /\ stale = FALSE /\ seeded = (mode # "floor")
    /\ entered = {}
    /\ prize = [u \in Users |-> 0] /\ code = [u \in Users |-> 0]
    /\ ful = [u \in Users |-> "none"]
    /\ claimedBy = [c \in Codes |-> Nobody]
    /\ req = [u \in Users |-> Idle]
    /\ draw = [d \in Drawers |-> NotDrawing]
    /\ told = [u \in Users |-> {}] /\ revealed = {} /\ returned = {}
    /\ edits = 0 /\ failures = 0

-----------------------------------------------------------------------------
(* Readers *)

EnterRead(u) ==
    /\ req[u].pc = "idle"
    /\ status = "open" /\ ~closed /\ mode = "signup"
    /\ u \notin entered
    /\ req' = [req EXCEPT ![u] = [Idle EXCEPT !.pc = "enter"]]
    /\ UNCHANGED <<rowVars, entryCount, entryVars, claimedBy, draw,
                   ledgerVars, shownVars, boundVars>>

(* Nothing is read again: not the status, not the entry mode. *)
EnterInsert(u) ==
    /\ req[u].pc = "enter"
    /\ req' = [req EXCEPT ![u] =
           IF u \in entered \/ status = "deleted"
           THEN Idle
           ELSE [Idle EXCEPT !.pc = "inserting",
                             !.n  = Cardinality(entered \cup {u})]]
    /\ UNCHANGED <<rowVars, entryCount, entryVars, claimedBy, draw,
                   ledgerVars, shownVars, boundVars>>

EnterCommit(u) ==
    /\ req[u].pc = "inserting"
    /\ entered' = entered \cup {u}
    /\ prize' = [prize EXCEPT ![u] = 0]
    /\ code'  = [code EXCEPT ![u] = 0]
    /\ ful'   = [ful EXCEPT ![u] = "none"]
    /\ entryCount' = req[u].n
    /\ req' = [req EXCEPT ![u] = Idle]
    /\ UNCHANGED <<rowVars, claimedBy, draw, ledgerVars, shownVars, boundVars>>

WithdrawRead(u) ==
    /\ req[u].pc = "idle"
    /\ u \in entered /\ prize[u] = 0
    /\ status = "open" /\ ~closed
    /\ req' = [req EXCEPT ![u] = [Idle EXCEPT !.pc = "withdraw"]]
    /\ UNCHANGED <<rowVars, entryCount, entryVars, claimedBy, draw,
                   ledgerVars, shownVars, boundVars>>

WithdrawDelete(u) ==
    /\ req[u].pc = "withdraw"
    /\ req' = [req EXCEPT ![u] =
           IF u \in entered /\ prize[u] = 0
           THEN [Idle EXCEPT !.pc = "deleting",
                             !.n  = Cardinality(entered \ {u})]
           ELSE Idle]
    /\ UNCHANGED <<rowVars, entryCount, entryVars, claimedBy, draw,
                   ledgerVars, shownVars, boundVars>>

WithdrawCommit(u) ==
    /\ req[u].pc = "deleting"
    /\ entered' = entered \ {u}
    /\ entryCount' = req[u].n
    /\ req' = [req EXCEPT ![u] = Idle]
    /\ UNCHANGED <<rowVars, prize, code, ful, claimedBy, draw, ledgerVars,
                   shownVars, boundVars>>

RevealRead(u) ==
    /\ req[u].pc = "idle"
    /\ u \in entered /\ prize[u] # 0 /\ code[u] # 0
    /\ ful[u] # "forfeited"
    /\ claimedBy[code[u]] = u
    /\ req' = [req EXCEPT ![u] = [Idle EXCEPT !.pc = "reveal",
                                              !.code = code[u], !.ful = ful[u]]]
    /\ UNCHANGED <<rowVars, entryCount, entryVars, claimedBy, draw,
                   ledgerVars, shownVars, boundVars>>

(* Fault: the move is not conditional on the fulfillment read.             *)
RevealableAlways(u) == u \in entered

(* MoveFulfillment is a compare-and-set unless the entry read received. *)
Revealable(u) == u \in entered /\ ful[u] \in {"pending", "shipped"}

RevealMove(u) ==
    /\ req[u].pc = "reveal"
    /\ \/ /\ req[u].ful = "received"
          /\ revealed' = revealed \cup {req[u].code}
          /\ UNCHANGED ful
       \/ /\ req[u].ful # "received" /\ Revealable(u)
          /\ revealed' = revealed \cup {req[u].code}
          /\ ful' = [ful EXCEPT ![u] = "received"]
       \/ /\ req[u].ful # "received" /\ ~Revealable(u)
          /\ UNCHANGED <<revealed, ful>>
    /\ req' = [req EXCEPT ![u] = Idle]
    /\ UNCHANGED <<rowVars, entryCount, entered, prize, code, claimedBy, draw,
                   ledgerVars, told, returned, boundVars>>

(* A request's transaction is rolled back, or its client gives up. *)
RequestFails(u) ==
    /\ req[u].pc # "idle"
    /\ req' = [req EXCEPT ![u] = Idle]
    /\ UNCHANGED <<rowVars, entryCount, entryVars, claimedBy, draw,
                   ledgerVars, shownVars, boundVars>>

OfflineMoves(from) ==
    CASE from = "pending" -> {"shipped", "received", "forfeited"}
      [] from = "shipped" -> {"pending", "received", "forfeited"}
      [] OTHER            -> {}

(* updateLotteryWinner, by the author, staff or the winner. *)
Fulfil(u) ==
    /\ u \in entered /\ prize[u] # 0
    /\ Delivery[plan][prize[u]] = "manual"
    /\ \E to \in OfflineMoves(ful[u]) : ful' = [ful EXCEPT ![u] = to]
    /\ UNCHANGED <<rowVars, entryCount, entered, prize, code, claimedBy, req,
                   draw, ledgerVars, shownVars, boundVars>>

(* ClaimExpiredCodeWins: seven days may pass at any point after the win. *)
ExpireClaim(u) ==
    /\ u \in entered /\ ful[u] = "pending" /\ code[u] # 0
    /\ ful' = [ful EXCEPT ![u] = "forfeited"]
    /\ UNCHANGED <<rowVars, entryCount, entered, prize, code, claimedBy, req,
                   draw, ledgerVars, shownVars, boundVars>>

-----------------------------------------------------------------------------
(* The author *)

PlanCodes(p) == {c \in 1 .. Slots[p] : Delivery[p][c] = "code"}

ReturnedCodes ==
    {c \in PlanCodes(plan) :
        \/ claimedBy[c] = Nobody
        \/ \E u \in entered : code[u] = c /\ ful[u] = "forfeited"}

RevealReturned ==
    /\ status \in {"drawn", "cancelled"}
    /\ returned' = returned \cup ReturnedCodes
    /\ UNCHANGED <<rowVars, entryCount, entryVars, claimedBy, req, draw,
                   ledgerVars, told, revealed, boundVars>>

(* What validateShape asks of the lottery as it would be stored. *)
ShapeOK(p, m, dm) ==
    /\ m = "floor" => dm # "threshold"
    /\ dm = "threshold" => Threshold >= Slots[p]

(* editLottery under the row lock; a rewrite replaces the prizes and codes *)
(* and settles the difference of the two budgets.                          *)
Edit(p, m, dm, rewrite, reopen) ==
    /\ status = "open" /\ ~RowShared
    /\ edits < MaxEdits
    /\ entryCount > 0 => ~rewrite /\ m = mode
    /\ ~rewrite => p = plan
    /\ ShapeOK(p, m, dm)
    /\ plan' = p /\ mode' = m /\ drawMode' = dm
    /\ closed' = (closed /\ ~reopen) /\ stale' = FALSE
    /\ \/ /\ rewrite
          /\ escrow' = Budget[p]
          /\ charged'  = charged  + Excess(Budget[p], escrow)
          /\ refunded' = refunded + Excess(escrow, Budget[p])
          /\ claimedBy' = [c \in Codes |-> Nobody]
       \/ /\ ~rewrite
          /\ UNCHANGED <<escrow, charged, refunded, claimedBy>>
    /\ edits' = edits + 1
    /\ UNCHANGED <<seeded, status, entryCount, entryVars, req, draw, paid, shownVars,
                   failures>>

(* Fault: a cancel refunds the escrow and leaves it on the row.            *)
CancelKeepsEscrow ==
    /\ status = "open" /\ ~RowShared
    /\ status' = "cancelled" /\ stale' = FALSE
    /\ refunded' = refunded + escrow
    /\ UNCHANGED <<seeded, mode, drawMode, plan, escrow, closed, entryCount, entryVars,
                   claimedBy, req, draw, charged, paid, shownVars, boundVars>>

Cancel ==
    /\ status = "open" /\ ~RowShared
    /\ status' = "cancelled" /\ escrow' = 0 /\ stale' = FALSE
    /\ refunded' = refunded + escrow
    /\ UNCHANGED <<seeded, mode, drawMode, plan, closed, entryCount, entryVars,
                   claimedBy, req, draw, charged, paid, shownVars, boundVars>>

(* Staff may delete a drawn lottery as well.  Entries and codes cascade;   *)
(* the functions keep what the deleted rows held, for the properties.      *)
Delete(staff) ==
    /\ status \notin {"drawing", "deleted"}
    /\ status = "drawn" => staff
    /\ ~RowShared
    /\ \A u \in Users : req[u].pc # "deleting"
    /\ status' = "deleted" /\ escrow' = 0
    /\ refunded' = refunded + escrow
    /\ entered' = {}
    /\ UNCHANGED <<seeded, mode, drawMode, plan, closed, stale, entryCount, prize,
                   code, ful, claimedBy, req, draw, charged, paid, shownVars,
                   boundVars>>

-----------------------------------------------------------------------------
(* The draw *)

(* DrawOpen flips the status by hand and leaves updated as it was. *)
ManualFlip ==
    /\ "manual" \in Drawers /\ ~Drawing("manual")
    /\ status = "open"
    /\ status' = "drawing"
    /\ draw' = [draw EXCEPT !["manual"] = [NotDrawing EXCEPT !.pc = "flipped"]]
    /\ UNCHANGED <<seeded, mode, drawMode, plan, escrow, closed, stale, entryCount,
                   entryVars, claimedBy, req, ledgerVars, shownVars, boundVars>>

(* The row DrawOpen reads back; a row no longer there ends the request. *)
ManualLoad ==
    /\ "manual" \in Drawers /\ draw["manual"].pc = "flipped"
    /\ draw' = [draw EXCEPT !["manual"] =
           IF status = "deleted"
           THEN NotDrawing
           ELSE [NotDrawing EXCEPT !.pc = "claimed", !.mode = mode,
                                   !.escrow = escrow]]
    /\ UNCHANGED <<rowVars, entryCount, entryVars, claimedBy, req, ledgerVars,
                   shownVars, boundVars>>

(* Fault: recovery picks up any stale row, a drawn one too.                *)
ClaimableAnyStale ==
    \/ status = "open" /\ Due
    \/ status \in {"drawing", "drawn"} /\ stale /\ (Overlap \/ ~DrawInFlight)

(* Fault: a lottery left in drawing is never picked up again.              *)
ClaimableOpenOnly == status = "open" /\ Due

(* A due lottery, or one left in drawing for fifteen minutes.              *)
Claimable ==
    \/ status = "open" /\ Due
    \/ status = "drawing" /\ stale /\ (Overlap \/ ~DrawInFlight)

(* ClaimDue.  SKIP LOCKED passes over a row an insert shares.              *)
SweepClaim ==
    /\ "sweep" \in Drawers /\ ~Drawing("sweep")
    /\ ~RowShared /\ Claimable
    /\ status' = "drawing" /\ stale' = FALSE
    /\ draw' = [draw EXCEPT !["sweep"] =
           [NotDrawing EXCEPT !.pc = "claimed", !.mode = mode,
                              !.escrow = escrow]]
    /\ UNCHANGED <<seeded, mode, drawMode, plan, escrow, closed, entryCount, entryVars,
                   claimedBy, req, ledgerVars, shownVars, boundVars>>

(* The lowest-ranked members of the pool, one to a slot (takeLowestRanked). *)
Place(u, pool) == Cardinality({v \in pool : Rank[v] <= Rank[u]})

WonBy(pool, n) ==
    [u \in Users |-> IF u \in pool /\ Place(u, pool) <= n
                     THEN Place(u, pool) ELSE 0]

Smaller(a, b) == IF a < b THEN a ELSE b

(* eligiblePool, or the distinct repliers pickFloorWinners found on the     *)
(* winning floors, at most one to a slot.                                   *)
PoolOK(m, pool) ==
    \/ m = "signup" /\ pool \subseteq entered /\ entered \ pool \subseteq Bannable
    \/ m = "floor"  /\ Cardinality(pool) <= Slots[plan]

Pick(d, pool) ==
    /\ draw[d].pc = "claimed"
    /\ PoolOK(draw[d].mode, pool)
    /\ LET n == Smaller(Cardinality(pool), Slots[plan])
       IN  draw' = [draw EXCEPT ![d] =
               [draw[d] EXCEPT !.pc = "picked", !.plan = plan, !.pool = pool,
                               !.n = n, !.win = WonBy(pool, n)]]
    /\ UNCHANGED <<rowVars, entryCount, entryVars, claimedBy, req, ledgerVars,
                   shownVars, boundVars>>

Winners(w) == {u \in Users : w.win[u] # 0}
Won(w, u)  == Delivery[w.plan][w.win[u]]

FreeCodes == {c \in PlanCodes(plan) : status # "deleted" /\ claimedBy[c] = Nobody}

(* Fault: a code is read and handed out without being marked as claimed.    *)
TakingsUnmarked(w) ==
    LET coded == {u \in Winners(w) : Won(w, u) = "code"}
    IN  {t \in [Users -> SlotOrNone] : \A u \in Users :
            IF u \in coded /\ FreeCodes # {}
            THEN t[u] \in FreeCodes /\ \A c \in FreeCodes : t[u] <= c
            ELSE t[u] = 0}

(* TakeCode, winner after winner: the k-th code winner gets the k-th free   *)
(* code, and nothing once they have run out.                                *)
Takings(w) ==
    LET coded == {u \in Winners(w) : Won(w, u) = "code"}
        nth(u) == Cardinality({v \in coded : w.win[v] <= w.win[u]})
        kth(c) == Cardinality({b \in FreeCodes : b <= c})
    IN  {t \in [Users -> SlotOrNone] : \A u \in Users :
            \/ /\ u \in coded /\ t[u] \in FreeCodes
               /\ kth(t[u]) = nth(u)
            \/ /\ t[u] = 0
               /\ u \in coded => \A c \in FreeCodes : kth(c) # nth(u)}

(* The rows the transaction writes.  An UPDATE by id of an entry withdrawn  *)
(* meanwhile touches nothing; a floor winner's row is created.              *)
RowsWritten(w) == IF w.mode = "floor" THEN Winners(w) ELSE Winners(w) \cap entered

(* UNIQUE (lottery_id, user_id), or the foreign key once the row is gone.   *)
CreateClashes(w) ==
    /\ w.mode = "floor"
    /\ Winners(w) \cap entered # {} \/ (status = "deleted" /\ Winners(w) # {})

(* An entry another transaction is deleting or inserting is waited for.     *)
EntryLocked(w) ==
    \E u \in Winners(w) :
        \/ req[u].pc = "deleting"
        \/ req[u].pc = "inserting" /\ w.mode = "floor"

(* The draw's one transaction; its acknowledgement may be lost.             *)
Commit(d, acked) ==
    LET w    == draw[d]
        rows == RowsWritten(w)
    IN
    /\ w.pc = "picked" /\ ~EntryLocked(w) /\ ~CreateClashes(w)
    /\ ~acked => failures < MaxFailures
    /\ \E t \in Takings(w) :
         /\ claimedBy' = [c \in Codes |->
                IF \E u \in Users : t[u] = c
                THEN CHOOSE u \in Users : t[u] = c ELSE claimedBy[c]]
         /\ code' = [u \in Users |->
                IF u \in rows /\ (t[u] # 0 \/ u \notin entered)
                THEN t[u] ELSE code[u]]
    /\ prize' = [u \in Users |-> IF u \in rows THEN w.win[u] ELSE prize[u]]
    /\ ful' = [u \in Users |->
          IF u \notin rows THEN ful[u]
          ELSE IF Won(w, u) = "point" THEN "received" ELSE "pending"]
    /\ entered' = entered \cup rows
    /\ entryCount' = Cardinality(entered \cup rows)
    /\ paid' = paid + Paid[w.plan][w.n]
    /\ refunded' = refunded + Excess(w.escrow, Paid[w.plan][w.n])
    /\ escrow' = 0 /\ stale' = FALSE
    /\ status' = IF status = "deleted" THEN "deleted" ELSE "drawn"
    /\ draw' = [draw EXCEPT ![d].pc = IF acked THEN "committed" ELSE "failed"]
    /\ failures' = IF acked THEN failures ELSE failures + 1
    /\ UNCHANGED <<seeded, mode, drawMode, plan, closed, req, charged, shownVars, edits>>

(* The transaction fails on a row that exists already, every time.          *)
CommitClash(d) ==
    /\ draw[d].pc = "picked" /\ ~EntryLocked(draw[d]) /\ CreateClashes(draw[d])
    /\ draw' = [draw EXCEPT ![d].pc = "failed"]
    /\ UNCHANGED <<rowVars, entryCount, entryVars, claimedBy, req, ledgerVars,
                   shownVars, boundVars>>

(* A query fails; DrawOpen gives up without a release if it cannot even     *)
(* read its row back.                                                       *)
DrawFails(d) ==
    /\ draw[d].pc \in {"flipped", "claimed", "picked"}
    /\ failures < MaxFailures
    /\ draw' = [draw EXCEPT ![d] =
           IF draw[d].pc = "flipped" THEN NotDrawing
           ELSE [draw[d] EXCEPT !.pc = "failed"]]
    /\ failures' = failures + 1
    /\ UNCHANGED <<rowVars, entryCount, entryVars, claimedBy, req, ledgerVars,
                   shownVars, edits>>

(* ReleaseDrawing *)
Release(d) ==
    /\ draw[d].pc = "failed"
    /\ status' = IF status = "drawing" THEN "open" ELSE status
    /\ draw' = [draw EXCEPT ![d] = NotDrawing]
    /\ UNCHANGED <<seeded, mode, drawMode, plan, escrow, closed, stale, entryCount,
                   entryVars, claimedBy, req, ledgerVars, shownVars, boundVars>>

(* afterDraw: payouts and notices, sent once the transaction is through. A  *)
(* floor draw has no pool, so it tells the winners alone.                   *)
AfterDraw(d) ==
    LET w == draw[d] IN
    /\ w.pc = "committed"
    /\ told' = [u \in Users |->
          CASE u \in Winners(w)                      -> told[u] \cup {"won"}
            [] u \in w.pool /\ u \notin Winners(w)
                            /\ w.mode = "signup"      -> told[u] \cup {"lost"}
            [] OTHER                                 -> told[u]]
    /\ draw' = [draw EXCEPT ![d] = NotDrawing]
    /\ UNCHANGED <<rowVars, entryCount, entryVars, claimedBy, req, ledgerVars,
                   revealed, returned, boundVars>>

(* The process restarts: what was in flight is gone or rolled back.         *)
Crash ==
    /\ failures < MaxFailures
    /\ failures' = failures + 1
    /\ req' = [u \in Users |-> Idle]
    /\ draw' = [d \in Drawers |-> NotDrawing]
    /\ UNCHANGED <<rowVars, entryCount, entryVars, claimedBy, ledgerVars,
                   shownVars, edits>>

-----------------------------------------------------------------------------
(* Time *)

(* Nobody asks for the deadline of a lottery that is over.                  *)
DeadlinePasses ==
    /\ ~closed /\ closed' = TRUE /\ status \in {"open", "drawing"}
    /\ UNCHANGED <<seeded, status, mode, drawMode, plan, escrow, stale, entryCount,
                   entryVars, claimedBy, req, draw, ledgerVars, shownVars,
                   boundVars>>

(* No draw takes fifteen minutes: the row ages between draws, not in one.   *)
(* (Of a row that is not being drawn nobody asks, unless draws overlap.)    *)
RowAges ==
    /\ ~stale /\ ~DrawInFlight
    /\ Overlap \/ status \in {"drawing", "drawn"}
    /\ stale' = TRUE
    /\ UNCHANGED <<seeded, status, mode, drawMode, plan, escrow, closed, entryCount,
                   entryVars, claimedBy, req, draw, ledgerVars, shownVars,
                   boundVars>>

-----------------------------------------------------------------------------
Reader(u) ==
    \/ EnterRead(u)    \/ EnterInsert(u)    \/ EnterCommit(u)
    \/ WithdrawRead(u) \/ WithdrawDelete(u) \/ WithdrawCommit(u)
    \/ RevealRead(u)   \/ RevealMove(u)     \/ RequestFails(u)
    \/ Fulfil(u)       \/ ExpireClaim(u)

Author ==
    \/ \E p \in Plans, m \in Modes, dm \in DrawModes :
          \E rewrite, reopen \in BOOLEAN : Edit(p, m, dm, rewrite, reopen)
    \/ Cancel
    \/ \E staff \in BOOLEAN : Delete(staff)
    \/ RevealReturned
    \/ ManualFlip

Drawer(d) ==
    \/ \E pool \in SUBSET Users : Pick(d, pool)
    \/ \E acked \in BOOLEAN : Commit(d, acked)
    \/ CommitClash(d) \/ DrawFails(d) \/ Release(d) \/ AfterDraw(d)

Next ==
    \/ \E u \in Users : Reader(u)
    \/ Author
    \/ ManualLoad \/ SweepClaim
    \/ \E d \in Drawers : Drawer(d)
    \/ Crash \/ DeadlinePasses \/ RowAges

Spec == Init /\ [][Next]_vars

(***************************************************************************)
(* Every minute cron starts a sweep, and not every sweep of a lottery runs *)
(* into an insert that shares its row: SweepClaim is strongly fair.      *)
(* A claimed draw runs on to its end, a transaction once begun ends, time  *)
(* passes.  Nothing makes a reader or an author act, or a failure happen.  *)
(***************************************************************************)
Fairness ==
    /\ SF_vars(SweepClaim) /\ WF_vars(ManualLoad) /\ WF_vars(RowAges)
    /\ \A d \in Drawers :
          WF_vars(\/ \E pool \in SUBSET Users : Pick(d, pool)
                  \/ Commit(d, TRUE) \/ CommitClash(d) \/ Release(d) \/ AfterDraw(d))
    /\ \A u \in Users :
          WF_vars(EnterInsert(u) \/ EnterCommit(u) \/ WithdrawCommit(u))

FairSpec == Spec /\ Fairness

-----------------------------------------------------------------------------
(* Properties *)

(* Every variable keeps its type: the columns hold what the code writes.   *)
TypeOK ==
    /\ status \in Statuses /\ mode \in Modes /\ drawMode \in DrawModes
    /\ plan \in Plans /\ escrow \in Nat /\ entryCount \in Nat
    /\ closed \in BOOLEAN /\ stale \in BOOLEAN /\ seeded \in BOOLEAN
    /\ entered \in SUBSET Users
    /\ prize \in [Users -> SlotOrNone] /\ code \in [Users -> SlotOrNone]
    /\ ful \in [Users -> Fulfillments]
    /\ claimedBy \in [Codes -> Users \cup {Nobody}]
    /\ req \in [Users -> Request] /\ draw \in [Drawers -> DrawRecord]
    /\ charged \in Nat /\ refunded \in Nat /\ paid \in Nat
    /\ told \in [Users -> SUBSET {"won", "lost"}]
    /\ revealed \in SUBSET Codes /\ returned \in SUBSET Codes
    /\ edits \in Nat /\ failures \in Nat

(* A redemption code is never shown both to its winner and to the author   *)
(* it went back to: revealLotteryCode and the expiry sweep race on the     *)
(* entry's fulfillment, and revealLotteryReturnedCodes reads the outcome.  *)
CodeGoesOneWay == revealed \cap returned = {}

(* The points an author was charged are in escrow, paid to winners or      *)
(* refunded - each point in one place - through edits, a cancel, a delete, *)
(* failed and recovered draws and restarts.                                *)
EscrowConserved == charged = escrow + refunded + paid

(* No reader is told both that they won and that they lost.                *)
OneAnswer == \A u \in Users : told[u] # {"won", "lost"}

(* A slot has one winner and a code one holder, the user it was claimed    *)
(* for, however draws, withdrawals and recoveries interleave.              *)
PrizesHandedOnce ==
    \A u, v \in entered :
        /\ prize[u] # 0 /\ prize[u] = prize[v] => u = v
        /\ code[u] # 0 => claimedBy[code[u]] = u

(* Once drawn a lottery is never drawn again: who won what, which codes    *)
(* are gone and what was paid stay, though requests and edits that began   *)
(* before the draw end after it.                                           *)
DrawnIsFinal ==
    [][status = "drawn" => /\ status' \in {"drawn", "deleted"}
                           /\ prize' = prize /\ claimedBy' = claimedBy
                           /\ paid' = paid]_vars

(* A lottery whose time has come is settled, unless its draw condition     *)
(* stops holding or it is a floor lottery with a sign-up in the way.       *)
Settled == status \in {"drawn", "cancelled", "deleted"}

FloorSignup == mode = "floor" /\ entered # {}

DueIsSettled ==
    (status = "drawing" \/ (status = "open" /\ Due))
        ~> (Settled \/ (status = "open" /\ ~Due) \/ FloorSignup)

-----------------------------------------------------------------------------
(* What comments in the repository say and the code does not keep *)

(* validateShape runs on every edit, since without it "a lottery could be  *)
(* turned into one that is never drawn": whatever is due is settled.       *)
EveryDueIsSettled ==
    (status = "drawing" \/ (status = "open" /\ Due))
        ~> (Settled \/ (status = "open" /\ ~Due))

(* "draw fixes the winner list once and writes it down": who is told they  *)
(* won has the winning entry.                                              *)
WinnersOnRecord ==
    \A u \in Users : "won" \in told[u] =>
        status = "deleted" \/ (u \in entered /\ prize[u] # 0)

(* seed_hash is "published when the lottery was created so the author      *)
(* cannot re-roll": every ranking is made under a committed seed.          *)
RankedUnderSeed ==
    \A d \in Drawers : draw[d].pc = "picked" /\ draw[d].mode = "signup" => seeded

(* DrawOpen "takes the same status flip the sweep takes, so the two cannot *)
(* both draw the same lottery": no draw commits on a drawn lottery.        *)
DrawnOnce ==
    [][status = "drawn" => \A d \in Drawers :
          ~(draw[d].pc = "picked" /\ draw'[d].pc = "committed")]_vars

(* "the draw already has a status transition that says whether the         *)
(* notification went out"                                                  *)
DrawnMeansTold ==
    status = "drawn" /\ ~DrawInFlight =>
        \A u \in entered : prize[u] # 0 => "won" \in told[u]

=============================================================================
