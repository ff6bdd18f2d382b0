--------------------------- MODULE LotteryProofs ---------------------------
(***************************************************************************)
(* Theorems about Lottery for every value of its constants.                *)
(***************************************************************************)
EXTENDS Lottery, TLAPS, FiniteSetTheorems

(* The rows a new request and a new draw start from are well typed.        *)
LEMMA IdleTyped == Idle \in Request
BY ConstantsOK DEF Idle, Request, SlotOrNone, Fulfillments

LEMMA NotDrawingTyped == NotDrawing \in DrawRecord
<1>1. Modes # {} /\ Plans # {}
  BY ConstantsOK
<1>2. 0 \in SlotOrNone
  BY ConstantsOK DEF SlotOrNone
<1> QED
  BY <1>1, <1>2 DEF NotDrawing, DrawRecord

(* The refund of escrowRefund and of an edit is never negative.            *)
LEMMA ExcessTyped ==
  ASSUME NEW a \in Nat, NEW b \in Nat
  PROVE  Excess(a, b) \in Nat /\ (b <= a => Excess(a, b) = a - b)
BY DEF Excess

(* A set of readers is finite, so its cardinality is a number.             *)
LEMMA ReadersCounted ==
  ASSUME NEW S \in SUBSET Users
  PROVE  IsFiniteSet(S) /\ Cardinality(S) \in Nat
BY ConstantsOK, FS_Subset, FS_CardinalityType

(* The slots won out of a pool: one to each of its n best ranked members.  *)
LEMMA WonByTyped ==
  ASSUME NEW pool \in SUBSET Users, NEW n \in SlotOrNone
  PROVE  WonBy(pool, n) \in [Users -> SlotOrNone]
<1> SUFFICES ASSUME NEW u \in Users, u \in pool, Place(u, pool) <= n
             PROVE  Place(u, pool) \in SlotOrNone
  BY ConstantsOK DEF WonBy, SlotOrNone
<1>1. {v \in pool : Rank[v] <= Rank[u]} \in SUBSET Users
  OBVIOUS
<1>2. Place(u, pool) \in Nat
  BY <1>1, ReadersCounted DEF Place
<1> QED
  BY <1>2, ConstantsOK DEF SlotOrNone

(* A draw has no more winners than the plan it read has slots.             *)
LEMMA WinnersFit ==
  ASSUME NEW pool \in SUBSET Users, NEW p \in Plans
  PROVE  LET n == Smaller(Cardinality(pool), Slots[p])
         IN  n \in SlotOrNone /\ n <= Slots[p]
<1>1. Cardinality(pool) \in Nat
  BY ReadersCounted
<1>2. Slots[p] \in 1 .. MaxSlots /\ MaxSlots \in Nat
  BY ConstantsOK
<1> QED
  BY <1>1, <1>2 DEF Smaller, SlotOrNone

-----------------------------------------------------------------------------
(* TypeOK in the four parts that different actions disturb, strengthened    *)
(* by what makes it inductive: a reveal carries a code.                    *)
RowOK == /\ status \in Statuses /\ mode \in Modes /\ drawMode \in DrawModes
         /\ plan \in Plans /\ escrow \in Nat /\ entryCount \in Nat
         /\ closed \in BOOLEAN /\ stale \in BOOLEAN /\ seeded \in BOOLEAN

EntriesOK == /\ entered \in SUBSET Users
             /\ prize \in [Users -> SlotOrNone] /\ code \in [Users -> SlotOrNone]
             /\ ful \in [Users -> Fulfillments]
             /\ claimedBy \in [Codes -> Users \cup {Nobody}]

FlightOK == /\ req \in [Users -> Request] /\ draw \in [Drawers -> DrawRecord]
            /\ \A u \in Users : req[u].pc = "reveal" => req[u].code # 0

BooksOK == /\ charged \in Nat /\ refunded \in Nat /\ paid \in Nat
           /\ told \in [Users -> SUBSET {"won", "lost"}]
           /\ revealed \in SUBSET Codes /\ returned \in SUBSET Codes
           /\ edits \in Nat /\ failures \in Nat

TypeInv == RowOK /\ EntriesOK /\ FlightOK /\ BooksOK

(* The typed state is what TypeOK says of it.                              *)
LEMMA TypeInvImplies == TypeInv => TypeOK
BY DEF TypeInv, TypeOK, RowOK, EntriesOK, FlightOK, BooksOK

(* What readers do keeps the types.                                        *)
LEMMA ReaderTyped ==
  ASSUME TypeInv, NEW u \in Users, Reader(u)
  PROVE  TypeInv'
<1> USE DEF TypeInv, rowVars, entryVars, ledgerVars, shownVars, boundVars
<1>a. 0 \in SlotOrNone /\ "none" \in Fulfillments
  BY ConstantsOK DEF SlotOrNone, Fulfillments
<1>0. ASSUME NEW r \in Request, r.pc = "reveal" => r.code # 0,
             \/ req' = [req EXCEPT ![u] = r]
             \/ req' = [req EXCEPT ![u] = Idle],
             draw' = draw
      PROVE  FlightOK'
  BY <1>0, IdleTyped DEF FlightOK, Idle
<1>1. CASE EnterRead(u)
  <2>1. [Idle EXCEPT !.pc = "enter"] \in Request
    BY IdleTyped DEF Request
  <2> QED BY <1>1, <2>1, <1>0 DEF EnterRead, RowOK, EntriesOK, FlightOK, BooksOK
<1>2. CASE EnterInsert(u)
  <2>1. entered \cup {u} \in SUBSET Users
    BY DEF EntriesOK
  <2>2. [Idle EXCEPT !.pc = "inserting", !.n = Cardinality(entered \cup {u})] \in Request
    BY <2>1, ReadersCounted, IdleTyped DEF Request
  <2>3. FlightOK'
    BY <1>2, <2>2, <1>0, IdleTyped DEF EnterInsert, Idle
  <2> QED BY <1>2, <2>3 DEF EnterInsert, RowOK, EntriesOK, BooksOK
<1>3. CASE EnterCommit(u)
  <2>1. req[u] \in Request
    BY DEF FlightOK
  <2>2. req[u].n \in Nat
    BY <2>1 DEF Request
  <2>3. RowOK'
    BY <1>3, <2>2 DEF EnterCommit, RowOK
  <2>4. EntriesOK'
    BY <1>3, <1>a DEF EnterCommit, EntriesOK
  <2>5. FlightOK'
    BY <1>3, <2>1, <1>0 DEF EnterCommit, FlightOK
  <2>6. BooksOK'
    BY <1>3 DEF EnterCommit, BooksOK
  <2> QED BY <2>3, <2>4, <2>5, <2>6
<1>4. CASE WithdrawRead(u)
  <2>1. [Idle EXCEPT !.pc = "withdraw"] \in Request
    BY IdleTyped DEF Request
  <2> QED BY <1>4, <2>1, <1>0 DEF WithdrawRead, RowOK, EntriesOK, FlightOK, BooksOK
<1>5. CASE WithdrawDelete(u)
  <2>1. entered \ {u} \in SUBSET Users
    BY DEF EntriesOK
  <2>2. [Idle EXCEPT !.pc = "deleting", !.n = Cardinality(entered \ {u})] \in Request
    BY <2>1, ReadersCounted, IdleTyped DEF Request
  <2>3. FlightOK'
    BY <1>5, <2>2, <1>0, IdleTyped DEF WithdrawDelete, Idle
  <2> QED BY <1>5, <2>3 DEF WithdrawDelete, RowOK, EntriesOK, BooksOK
<1>6. CASE WithdrawCommit(u)
  <2>1. req[u] \in Request
    BY DEF FlightOK
  <2>2. req[u].n \in Nat
    BY <2>1 DEF Request
  <2>3. RowOK' /\ EntriesOK'
    BY <1>6, <2>2 DEF WithdrawCommit, RowOK, EntriesOK
  <2>4. FlightOK' /\ BooksOK'
    BY <1>6, <2>1, <1>0 DEF WithdrawCommit, FlightOK, BooksOK
  <2> QED BY <2>3, <2>4
<1>7. CASE RevealRead(u)
  <2>1. code[u] \in SlotOrNone /\ ful[u] \in Fulfillments
    BY DEF EntriesOK
  <2>2. [Idle EXCEPT !.pc = "reveal", !.code = code[u], !.ful = ful[u]] \in Request
    BY <2>1, IdleTyped DEF Request
  <2> QED BY <1>7, <2>2, <1>0 DEF RevealRead, RowOK, EntriesOK, FlightOK, BooksOK
<1>9. CASE RequestFails(u)
  BY <1>9, <1>0, IdleTyped DEF RequestFails, RowOK, EntriesOK, FlightOK, BooksOK
<1>10. CASE Fulfil(u)
  <2>1. \A to \in OfflineMoves(ful[u]) : to \in Fulfillments
    BY DEF OfflineMoves, Fulfillments
  <2> QED BY <1>10, <2>1 DEF Fulfil, RowOK, EntriesOK, FlightOK, BooksOK
<1>11. CASE ExpireClaim(u)
  BY <1>11 DEF ExpireClaim, Fulfillments, RowOK, EntriesOK, FlightOK, BooksOK
<1>8. CASE RevealMove(u)
  <2>1. req[u].pc = "reveal" => req[u].code \in Codes
    BY ConstantsOK DEF FlightOK, Request, SlotOrNone, Codes
  <2>2. revealed' \in SUBSET Codes
    BY <1>8, <2>1 DEF RevealMove, BooksOK
  <2>3. FlightOK'
    BY <1>8, <1>0, IdleTyped DEF RevealMove, FlightOK
  <2>4. ful' \in [Users -> Fulfillments]
    BY <1>8 DEF RevealMove, EntriesOK, Fulfillments
  <2>5. RowOK' /\ EntriesOK' /\ BooksOK'
    BY <1>8, <2>2, <2>4 DEF RevealMove, RowOK, EntriesOK, BooksOK
  <2> QED BY <2>3, <2>5
<1> QED
  BY <1>1, <1>2, <1>3, <1>4, <1>5, <1>6, <1>7, <1>8, <1>9, <1>10, <1>11 DEF Reader

(* What the author does keeps the types.                                   *)
LEMMA AuthorTyped ==
  ASSUME TypeInv, Author
  PROVE  TypeInv'
<1> USE DEF TypeInv, rowVars, entryVars, ledgerVars, shownVars, boundVars
<1>1. ASSUME NEW p \in Plans, NEW m \in Modes, NEW dm \in DrawModes,
             NEW rewrite \in BOOLEAN, NEW reopen \in BOOLEAN,
             Edit(p, m, dm, rewrite, reopen)
      PROVE  TypeInv'
  <2>1. Budget[p] \in Nat /\ escrow \in Nat
    BY ConstantsOK DEF RowOK
  <2>2. Excess(Budget[p], escrow) \in Nat /\ Excess(escrow, Budget[p]) \in Nat
    BY <2>1, ExcessTyped
  <2>3. RowOK'
    BY <1>1, <2>1 DEF Edit, RowOK
  <2>4. EntriesOK' /\ FlightOK'
    BY <1>1 DEF Edit, EntriesOK, FlightOK
  <2>5. BooksOK'
    BY <1>1, <2>2 DEF Edit, BooksOK
  <2> QED BY <2>3, <2>4, <2>5
<1>2. CASE Cancel
  <2>1. RowOK' /\ EntriesOK' /\ FlightOK'
    BY <1>2 DEF Cancel, Statuses, RowOK, EntriesOK, FlightOK
  <2>2. BooksOK'
    BY <1>2 DEF Cancel, RowOK, BooksOK
  <2> QED BY <2>1, <2>2
<1>3. ASSUME NEW staff \in BOOLEAN, Delete(staff)
      PROVE  TypeInv'
  BY <1>3 DEF Delete, Statuses, RowOK, EntriesOK, FlightOK, BooksOK
<1>4. CASE RevealReturned
  <2>1. ReturnedCodes \in SUBSET Codes
    BY ConstantsOK DEF ReturnedCodes, PlanCodes, Codes, RowOK
  <2> QED BY <1>4, <2>1 DEF RevealReturned, RowOK, EntriesOK, FlightOK, BooksOK
<1>5. CASE ManualFlip
  <2>1. [NotDrawing EXCEPT !.pc = "flipped"] \in DrawRecord
    BY NotDrawingTyped DEF DrawRecord
  <2> QED BY <1>5, <2>1 DEF ManualFlip, Statuses, RowOK, EntriesOK, FlightOK, BooksOK
<1>6. CASE \E p \in Plans, m \in Modes, dm \in DrawModes :
             \E rewrite, reopen \in BOOLEAN : Edit(p, m, dm, rewrite, reopen)
  BY <1>1, <1>6
<1>7. CASE \E staff \in BOOLEAN : Delete(staff)
  BY <1>3, <1>7
<1> QED
  BY <1>2, <1>4, <1>5, <1>6, <1>7, Zenon DEF Author

(* What a drawer does keeps the types.                                     *)
LEMMA DrawerTyped ==
  ASSUME TypeInv, NEW d \in Drawers, Drawer(d)
  PROVE  TypeInv'
<1> USE DEF TypeInv, rowVars, entryVars, ledgerVars, shownVars, boundVars
<1> DEFINE w == draw[d]
<1>0. w \in DrawRecord
  BY DEF FlightOK
<1>1. ASSUME NEW pool \in SUBSET Users, Pick(d, pool)
      PROVE  TypeInv'
  <2> DEFINE n == Smaller(Cardinality(pool), Slots[plan])
             r == [draw[d] EXCEPT !.pc = "picked", !.plan = plan, !.pool = pool,
                                  !.n = n, !.win = WonBy(pool, n)]
  <2>1. n \in SlotOrNone
    BY WinnersFit DEF RowOK
  <2>2. WonBy(pool, n) \in [Users -> SlotOrNone]
    BY <2>1, WonByTyped
  <2>3. r \in DrawRecord
    BY <1>0, <2>1, <2>2 DEF DrawRecord, RowOK
  <2>4. draw' = [draw EXCEPT ![d] = r]
    BY <1>1 DEF Pick
  <2> QED BY <1>1, <2>3, <2>4 DEF Pick, RowOK, EntriesOK, FlightOK, BooksOK
<1>2. ASSUME NEW acked \in BOOLEAN, Commit(d, acked)
      PROVE  TypeInv'
  <2>1. w.plan \in Plans /\ w.n \in SlotOrNone /\ w.escrow \in Nat
        /\ w.win \in [Users -> SlotOrNone]
    BY <1>0 DEF DrawRecord
  <2>2. Paid[w.plan][w.n] \in Nat
    <3>1. Paid \in [Plans -> [SlotOrNone -> Nat]]
      BY ConstantsOK DEF SlotOrNone
    <3> HIDE DEF w
    <3> QED BY <2>1, <3>1
  <2>3. Excess(w.escrow, Paid[w.plan][w.n]) \in Nat
    BY <2>1, <2>2, ExcessTyped
  <2>4. Winners(w) \in SUBSET Users /\ RowsWritten(w) \in SUBSET Users
    BY DEF Winners, RowsWritten
  <2>5. Cardinality(entered \cup RowsWritten(w)) \in Nat
    BY <2>4, ReadersCounted DEF EntriesOK
  <2>6. RowOK'
    BY <1>2, <2>5, ConstantsOK DEF Commit, Statuses, RowOK
  <2>7. FlightOK'
    <3>1. [draw[d] EXCEPT !.pc = IF acked THEN "committed" ELSE "failed"] \in DrawRecord
      BY <1>0 DEF DrawRecord
    <3> QED BY <1>2, <3>1 DEF Commit, FlightOK
  <2>8. BooksOK'
    BY <1>2, <2>2, <2>3 DEF Commit, BooksOK
  <2>9. EntriesOK'
    <3>1. PICK t \in Takings(w) :
            /\ claimedBy' = [c \in Codes |->
                   IF \E u \in Users : t[u] = c
                   THEN CHOOSE u \in Users : t[u] = c ELSE claimedBy[c]]
            /\ code' = [u \in Users |->
                   IF u \in RowsWritten(w) /\ (t[u] # 0 \/ u \notin entered)
                   THEN t[u] ELSE code[u]]
      BY <1>2 DEF Commit
    <3>2. t \in [Users -> SlotOrNone]
      BY <3>1 DEF Takings
    <3>3. claimedBy' \in [Codes -> Users \cup {Nobody}]
      BY <3>1 DEF EntriesOK
    <3>4. code' \in [Users -> SlotOrNone]
      BY <3>1, <3>2 DEF EntriesOK
    <3>5. prize' \in [Users -> SlotOrNone]
      BY <1>2, <2>1 DEF Commit, EntriesOK
    <3>6. ful' \in [Users -> Fulfillments]
      BY <1>2 DEF Commit, EntriesOK, Fulfillments
    <3>7. entered' \in SUBSET Users
      BY <1>2, <2>4 DEF Commit, EntriesOK
    <3> QED BY <3>3, <3>4, <3>5, <3>6, <3>7 DEF EntriesOK
  <2> QED BY <2>6, <2>7, <2>8, <2>9
<1>3. CASE CommitClash(d)
  <2>1. [draw[d] EXCEPT !.pc = "failed"] \in DrawRecord
    BY <1>0 DEF DrawRecord
  <2> QED BY <1>3, <2>1 DEF CommitClash, RowOK, EntriesOK, FlightOK, BooksOK
<1>4. CASE DrawFails(d)
  <2>1. [draw[d] EXCEPT !.pc = "failed"] \in DrawRecord
    BY <1>0 DEF DrawRecord
  <2> QED BY <1>4, <2>1, NotDrawingTyped
          DEF DrawFails, RowOK, EntriesOK, FlightOK, BooksOK
<1>5. CASE Release(d)
  BY <1>5, NotDrawingTyped DEF Release, Statuses, RowOK, EntriesOK, FlightOK, BooksOK
<1>6. CASE AfterDraw(d)
  <2>1. told' \in [Users -> SUBSET {"won", "lost"}]
    BY <1>6, Zenon DEF AfterDraw, BooksOK
  <2> QED BY <1>6, <2>1, NotDrawingTyped
          DEF AfterDraw, RowOK, EntriesOK, FlightOK, BooksOK
<1> QED
  BY <1>1, <1>2, <1>3, <1>4, <1>5, <1>6 DEF Drawer

(* So do the claims, restarts and time.                                    *)
LEMMA RestTyped ==
  ASSUME TypeInv, \/ ManualLoad \/ SweepClaim \/ Crash
                  \/ DeadlinePasses \/ RowAges \/ UNCHANGED vars
  PROVE  TypeInv'
<1> USE DEF TypeInv, rowVars, entryVars, ledgerVars, shownVars, boundVars
<1>0. [NotDrawing EXCEPT !.pc = "claimed", !.mode = mode, !.escrow = escrow]
         \in DrawRecord
  BY NotDrawingTyped DEF DrawRecord, RowOK
<1>1. CASE ManualLoad
  BY <1>1, <1>0, NotDrawingTyped DEF ManualLoad, RowOK, EntriesOK, FlightOK, BooksOK
<1>2. CASE SweepClaim
  BY <1>2, <1>0 DEF SweepClaim, Statuses, RowOK, EntriesOK, FlightOK, BooksOK
<1>3. CASE Crash
  BY <1>3, IdleTyped, NotDrawingTyped
  DEF Crash, Idle, RowOK, EntriesOK, FlightOK, BooksOK
<1>4. CASE DeadlinePasses
  BY <1>4 DEF DeadlinePasses, RowOK, EntriesOK, FlightOK, BooksOK
<1>5. CASE RowAges
  BY <1>5 DEF RowAges, RowOK, EntriesOK, FlightOK, BooksOK
<1>6. CASE UNCHANGED vars
  BY <1>6 DEF vars, RowOK, EntriesOK, FlightOK, BooksOK
<1> QED
  BY <1>1, <1>2, <1>3, <1>4, <1>5, <1>6

(* A lottery is created well typed.                                        *)
LEMMA InitTyped == Init => TypeInv
<1> SUFFICES ASSUME Init PROVE TypeInv
  OBVIOUS
<1>1. RowOK
  BY ConstantsOK DEF Init, RowOK, Statuses
<1>2. EntriesOK
  BY ConstantsOK DEF Init, EntriesOK, SlotOrNone, Fulfillments
<1>3. FlightOK
  BY IdleTyped, NotDrawingTyped DEF Init, FlightOK, Idle
<1>4. BooksOK
  BY ConstantsOK DEF Init, BooksOK
<1> QED
  BY <1>1, <1>2, <1>3, <1>4 DEF TypeInv

(* The invariant behind type correctness, for the theorems below.          *)
LEMMA TypeInvAlways == Spec => []TypeInv
<1>1. TypeInv /\ [Next]_vars => TypeInv'
  BY ReaderTyped, AuthorTyped, DrawerTyped, RestTyped DEF Next
<1> QED
  BY InitTyped, <1>1, PTL DEF Spec

(* Every column and every request keeps its type, whatever the plans, the  *)
(* number of readers and the interleaving of requests, edits and draws.    *)
THEOREM TypeCorrect == Spec => []TypeOK
BY TypeInvAlways, TypeInvImplies, PTL

-----------------------------------------------------------------------------
(* The rest is about one draw at a time: the sweep does not find stale a   *)
(* row whose draw still runs.                                              *)

Working == {"flipped", "claimed", "picked"}

(* A draw that may still commit finds the lottery in drawing, an open      *)
(* lottery has no draw in flight, and one in drawing has at most one.      *)
DrawInv ==
    /\ \A d \in Drawers : draw[d].pc \in Working => status = "drawing"
    /\ status = "open" => \A d \in Drawers : draw[d].pc = "idle"
    /\ status = "drawing" => \A d, e \in Drawers :
          draw[d].pc # "idle" /\ draw[e].pc # "idle" => d = e

(* The escrow is the budget of the stored prizes until the lottery is      *)
(* settled, and a draw works with the escrow and the prizes on the row.    *)
EscrowInv ==
    /\ escrow = IF status \in {"open", "drawing"} THEN Budget[plan] ELSE 0
    /\ \A d \in Drawers :
          /\ draw[d].pc \in {"claimed", "picked"} => draw[d].escrow = escrow
          /\ draw[d].pc = "picked" => draw[d].plan = plan /\ draw[d].n <= Slots[plan]
    /\ EscrowConserved

(* Only who has an entry has won, and an entry being inserted or deleted   *)
(* is not there yet or has won nothing.                                    *)
EntryInv ==
    /\ \A u \in Users : req[u].pc = "inserting" => u \notin entered
    /\ \A u \in Users : req[u].pc = "deleting"  => prize[u] = 0
    /\ status # "deleted" => \A u \in Users : u \notin entered => prize[u] = 0

IInv == TypeInv /\ DrawInv /\ EscrowInv /\ EntryInv

(* Readers leave the draw and the escrow alone.                            *)
LEMMA ReaderKeeps ==
  ASSUME IInv, NEW u \in Users, Reader(u)
  PROVE  DrawInv' /\ EscrowInv' /\ EntryInv'
<1> USE DEF IInv, rowVars, entryVars, ledgerVars, shownVars, boundVars
<1>1. UNCHANGED <<status, plan, escrow, draw, charged, refunded, paid>>
  BY DEF Reader, EnterRead, EnterInsert, EnterCommit, WithdrawRead, WithdrawDelete,
         WithdrawCommit, RevealRead, RevealMove, RequestFails, Fulfil, ExpireClaim
<1>2. DrawInv'
  BY <1>1 DEF DrawInv
<1>3. EscrowInv'
  BY <1>1 DEF EscrowInv, EscrowConserved
<1>4. EntryInv'
  <2> USE DEF EntryInv
  <2>0. req \in [Users -> Request] /\ prize \in [Users -> SlotOrNone]
    BY DEF TypeInv, FlightOK, EntriesOK
  <2>1. CASE EnterRead(u)
    BY <2>1, <2>0 DEF EnterRead, Idle
  <2>2. CASE EnterInsert(u)
    BY <2>2, <2>0 DEF EnterInsert, Idle
  <2>3. CASE EnterCommit(u)
    BY <2>3, <2>0 DEF EnterCommit, Idle
  <2>4. CASE WithdrawRead(u)
    BY <2>4, <2>0 DEF WithdrawRead, Idle
  <2>5. CASE WithdrawDelete(u)
    BY <2>5, <2>0 DEF WithdrawDelete, Idle
  <2>6. CASE WithdrawCommit(u)
    BY <2>6, <2>0 DEF WithdrawCommit, Idle
  <2>7. CASE RevealRead(u)
    BY <2>7, <2>0 DEF RevealRead, Idle
  <2>8. CASE RevealMove(u)
    BY <2>8, <2>0 DEF RevealMove, Idle
  <2>9. CASE RequestFails(u)
    BY <2>9, <2>0 DEF RequestFails, Idle
  <2>10. CASE Fulfil(u) \/ ExpireClaim(u)
    BY <2>10, <2>0 DEF Fulfil, ExpireClaim
  <2> QED
    BY <2>1, <2>2, <2>3, <2>4, <2>5, <2>6, <2>7, <2>8, <2>9, <2>10 DEF Reader
<1> QED
  BY <1>2, <1>3, <1>4

(* An edit, a cancel or a delete finds no draw that may still commit, and  *)
(* settles the escrow of the prizes it replaces or removes.                *)
LEMMA AuthorKeeps ==
  ASSUME IInv, Author
  PROVE  DrawInv' /\ EscrowInv' /\ EntryInv'
<1> USE DEF IInv, rowVars, entryVars, ledgerVars, shownVars, boundVars
<1>0. /\ escrow \in Nat /\ charged \in Nat /\ refunded \in Nat /\ paid \in Nat
      /\ status \in Statuses /\ draw \in [Drawers -> DrawRecord]
      /\ \A p \in Plans : Budget[p] \in Nat
  BY ConstantsOK DEF TypeInv, RowOK, BooksOK, FlightOK
<1>1. ASSUME NEW p \in Plans, NEW m \in Modes, NEW dm \in DrawModes,
             NEW rewrite \in BOOLEAN, NEW reopen \in BOOLEAN,
             Edit(p, m, dm, rewrite, reopen)
      PROVE  DrawInv' /\ EscrowInv' /\ EntryInv'
  <2>1. status = "open" /\ UNCHANGED <<status, draw, paid, req, prize, entered>>
    BY <1>1 DEF Edit
  <2>2. DrawInv' /\ EntryInv'
    BY <2>1 DEF DrawInv, EntryInv
  <2>3. escrow' = Budget[plan']
    BY <1>1, <2>1 DEF Edit, EscrowInv
  <2>4. EscrowConserved'
    BY <1>0, <1>1, <2>1 DEF Edit, Excess, EscrowInv, EscrowConserved
  <2> QED BY <2>1, <2>2, <2>3, <2>4 DEF EscrowInv, DrawInv
<1>2. CASE Cancel
  <2>1. DrawInv' /\ EntryInv'
    BY <1>2 DEF Cancel, DrawInv, EntryInv, Working
  <2> QED BY <1>0, <1>2, <2>1 DEF Cancel, EscrowInv, EscrowConserved, DrawInv
<1>3. ASSUME NEW staff \in BOOLEAN, Delete(staff)
      PROVE  DrawInv' /\ EscrowInv' /\ EntryInv'
  <2>1. DrawInv' /\ EntryInv'
    BY <1>3 DEF Delete, DrawInv, EntryInv, Working
  <2>2. \A d \in Drawers : draw[d].pc \notin Working
    BY <1>3 DEF Delete, DrawInv
  <2> QED BY <1>0, <1>3, <2>1, <2>2
          DEF Delete, EscrowInv, EscrowConserved, Working
<1>4. CASE RevealReturned
  BY <1>4 DEF RevealReturned, DrawInv, EscrowInv, EscrowConserved, EntryInv
<1>5. CASE ManualFlip
  <2>1. draw' = [draw EXCEPT !["manual"] = [NotDrawing EXCEPT !.pc = "flipped"]]
        /\ "manual" \in Drawers /\ status = "open" /\ status' = "drawing"
    BY <1>5 DEF ManualFlip
  <2>2. \A d \in Drawers : IF d = "manual" THEN draw'[d].pc = "flipped"
                                           ELSE draw'[d] = draw[d] /\ draw[d].pc = "idle"
    BY <2>1, <1>0, NotDrawingTyped DEF DrawInv, DrawRecord
  <2>3. DrawInv'
    BY <2>1, <2>2 DEF DrawInv
  <2>4. EscrowInv' /\ EntryInv'
    BY <1>5, <2>1, <2>2 DEF ManualFlip, EscrowInv, EscrowConserved, EntryInv
  <2> QED BY <2>3, <2>4
<1>6. CASE \E p \in Plans, m \in Modes, dm \in DrawModes :
             \E rewrite, reopen \in BOOLEAN : Edit(p, m, dm, rewrite, reopen)
  BY <1>1, <1>6
<1>7. CASE \E staff \in BOOLEAN : Delete(staff)
  BY <1>3, <1>7
<1> QED
  BY <1>2, <1>4, <1>5, <1>6, <1>7, Zenon DEF Author

(* A draw that ends changes no other draw.                                 *)
LEMMA DrawEnds ==
  ASSUME IInv, NEW d \in Drawers, NEW r \in DrawRecord,
         r.pc \in {"idle", "failed", "committed"}, draw[d].pc # "idle",
         draw' = [draw EXCEPT ![d] = r], UNCHANGED <<status, plan, escrow>>
  PROVE  /\ DrawInv'
         /\ \A e \in Drawers :
               /\ draw'[e].pc \in {"claimed", "picked"} => draw'[e].escrow = escrow'
               /\ draw'[e].pc = "picked" =>
                     draw'[e].plan = plan' /\ draw'[e].n <= Slots[plan']
<1>1. \A e \in Drawers : draw'[e] = IF e = d THEN r ELSE draw[e]
  BY DEF IInv, TypeInv, FlightOK
<1>2. DrawInv'
  BY <1>1 DEF IInv, DrawInv, Working
<1> QED
  BY <1>1, <1>2 DEF IInv, EscrowInv

(* The commit of a draw empties the escrow: the winners get what the prizes *)
(* pay, the author the rest.                                               *)
LEMMA CommitKeeps ==
  ASSUME IInv, NEW d \in Drawers, NEW acked \in BOOLEAN, Commit(d, acked)
  PROVE  DrawInv' /\ EscrowInv' /\ EntryInv'
<1> DEFINE w == draw[d]
<1> USE DEF IInv
<1>0. /\ w \in DrawRecord /\ draw \in [Drawers -> DrawRecord]
      /\ escrow \in Nat /\ charged \in Nat /\ refunded \in Nat /\ paid \in Nat
      /\ entered \in SUBSET Users /\ plan \in Plans
  BY DEF TypeInv, FlightOK, RowOK, BooksOK, EntriesOK
<1>1. w.pc = "picked" /\ status = "drawing" /\ status' = "drawn" /\ escrow' = 0
  BY DEF Commit, DrawInv, Working
<1>2. w.escrow = Budget[plan] /\ w.plan = plan /\ w.n <= Slots[plan]
  BY <1>1 DEF EscrowInv
<1>3. Paid[plan][w.n] \in Nat /\ Budget[plan] \in Nat /\ Paid[plan][w.n] <= Budget[plan]
  <2>1. w.n \in 0 .. MaxSlots
    BY <1>0 DEF DrawRecord, SlotOrNone
  <2>2. Paid[plan] \in [0 .. MaxSlots -> Nat] /\ Budget[plan] \in Nat
    BY <1>0, ConstantsOK
  <2> QED BY <1>0, <1>2, <2>1, <2>2, PaidWithinBudget
<1>4. \A e \in Drawers : draw'[e].pc \notin Working
  <2>1. draw' = [draw EXCEPT ![d].pc = IF acked THEN "committed" ELSE "failed"]
    BY DEF Commit
  <2>2. \A e \in Drawers : e # d => draw[e].pc = "idle"
    BY <1>1 DEF DrawInv
  <2> QED BY <1>0, <2>1, <2>2 DEF Working, DrawRecord
<1>5. DrawInv'
  BY <1>1, <1>4 DEF DrawInv
<1>6. EscrowInv'
  <2>1. Excess(w.escrow, Paid[plan][w.n]) = Budget[plan] - Paid[plan][w.n]
    BY <1>2, <1>3, ExcessTyped
  <2>2. paid' = paid + Paid[plan][w.n]
    BY <1>2 DEF Commit
  <2>3. refunded' = refunded + Excess(w.escrow, Paid[plan][w.n])
    BY <1>2 DEF Commit
  <2>4. charged' = charged
    BY DEF Commit
  <2>5. charged = Budget[plan] + refunded + paid
    BY <1>1 DEF EscrowInv, EscrowConserved
  <2>6. charged' = 0 + refunded' + paid'
    BY <1>0, <1>3, <2>1, <2>2, <2>3, <2>4, <2>5
  <2> QED BY <1>1, <1>4, <2>6 DEF EscrowInv, EscrowConserved, Working
<1>7. EntryInv'
  <2>1. /\ entered' = entered \cup RowsWritten(w)
        /\ prize' = [u \in Users |-> IF u \in RowsWritten(w) THEN w.win[u] ELSE prize[u]]
        /\ req' = req /\ ~EntryLocked(w)
    BY DEF Commit
  <2>2. \A u \in RowsWritten(w) : u \in Winners(w) /\ (u \in entered \/ w.mode = "floor")
    BY DEF RowsWritten
  <2> QED BY <1>1, <2>1, <2>2 DEF EntryInv, EntryLocked
<1> QED
  BY <1>5, <1>6, <1>7

(* So does every other step of a draw.                                     *)
LEMMA DrawerKeeps ==
  ASSUME IInv, NEW d \in Drawers, Drawer(d)
  PROVE  DrawInv' /\ EscrowInv' /\ EntryInv'
<1> USE DEF IInv, rowVars, entryVars, ledgerVars, shownVars, boundVars
<1>0. draw[d] \in DrawRecord /\ draw \in [Drawers -> DrawRecord] /\ plan \in Plans
  BY DEF TypeInv, FlightOK, RowOK
<1>1. ASSUME NEW pool \in SUBSET Users, Pick(d, pool)
      PROVE  DrawInv' /\ EscrowInv' /\ EntryInv'
  <2> DEFINE n == Smaller(Cardinality(pool), Slots[plan])
  <2>1. n <= Slots[plan]
    BY <1>0, WinnersFit
  <2>2. \A e \in Drawers :
          IF e = d
          THEN /\ draw[e].pc = "claimed" /\ draw'[e].pc = "picked"
               /\ draw'[e].escrow = draw[e].escrow
               /\ draw'[e].plan = plan /\ draw'[e].n = n
          ELSE draw'[e] = draw[e]
    BY <1>0, <1>1 DEF Pick, DrawRecord
  <2> HIDE DEF n
  <2>3. UNCHANGED <<status, plan, escrow, charged, refunded, paid, req, prize, entered>>
    BY <1>1 DEF Pick
  <2>4. DrawInv' /\ EntryInv'
    BY <2>2, <2>3 DEF DrawInv, EntryInv, Working
  <2> QED BY <2>1, <2>2, <2>3, <2>4 DEF EscrowInv, EscrowConserved
<1>2. CASE \E acked \in BOOLEAN : Commit(d, acked)
  BY <1>2, CommitKeeps
<1>3. CASE CommitClash(d)
  <2>1. [draw[d] EXCEPT !.pc = "failed"] \in DrawRecord
    BY <1>0 DEF DrawRecord
  <2>2. [draw[d] EXCEPT !.pc = "failed"].pc = "failed"
    BY <1>0 DEF DrawRecord
  <2>3. draw' = [draw EXCEPT ![d] = [draw[d] EXCEPT !.pc = "failed"]]
    BY <1>3 DEF CommitClash
  <2> QED BY <1>3, <2>1, <2>2, <2>3, DrawEnds
          DEF CommitClash, EscrowInv, EscrowConserved, EntryInv
<1>4. CASE DrawFails(d)
  <2> DEFINE r == IF draw[d].pc = "flipped" THEN NotDrawing
                  ELSE [draw[d] EXCEPT !.pc = "failed"]
  <2>1. r \in DrawRecord /\ r.pc \in {"idle", "failed"}
    BY <1>0, NotDrawingTyped DEF DrawRecord, NotDrawing
  <2>2. draw' = [draw EXCEPT ![d] = r] /\ draw[d].pc # "idle"
    BY <1>4 DEF DrawFails
  <2> HIDE DEF r
  <2> QED BY <1>4, <2>1, <2>2, DrawEnds
          DEF DrawFails, EscrowInv, EscrowConserved, EntryInv
<1>5. CASE Release(d)
  <2>1. draw' = [draw EXCEPT ![d] = NotDrawing] /\ NotDrawing.pc = "idle"
    BY <1>5 DEF Release, NotDrawing
  <2>2. \A e \in Drawers : draw'[e] = IF e = d THEN NotDrawing ELSE draw[e]
    BY <1>0, <2>1
  <2>3. CASE status = "drawing"
    <3>1. \A e \in Drawers : draw'[e].pc = "idle"
      BY <1>5, <2>1, <2>2, <2>3 DEF Release, DrawInv
    <3> QED BY <1>5, <2>3, <3>1
            DEF Release, DrawInv, EscrowInv, EscrowConserved, EntryInv, Working
  <2>4. CASE status # "drawing"
    <3>1. UNCHANGED <<status, plan, escrow>>
      BY <1>5, <2>4 DEF Release
    <3> QED BY <1>5, <2>1, <3>1, DrawEnds, NotDrawingTyped
            DEF Release, EscrowInv, EscrowConserved, EntryInv
  <2> QED BY <2>3, <2>4
<1>6. CASE AfterDraw(d)
  <2>1. draw' = [draw EXCEPT ![d] = NotDrawing] /\ NotDrawing.pc = "idle"
    BY <1>6 DEF AfterDraw, NotDrawing
  <2>2. draw[d].pc # "idle"
        /\ UNCHANGED <<rowVars, entryCount, entryVars, req, ledgerVars>>
    BY <1>6 DEF AfterDraw
  <2> QED BY <2>1, <2>2, DrawEnds, NotDrawingTyped
          DEF EscrowInv, EscrowConserved, EntryInv
<1> QED
  BY <1>1, <1>2, <1>3, <1>4, <1>5, <1>6 DEF Drawer

(* The sweep takes a lottery no draw is at work on; a restart ends draws.  *)
LEMMA RestKeeps ==
  ASSUME Overlap = FALSE, IInv,
         \/ ManualLoad \/ SweepClaim \/ Crash
         \/ DeadlinePasses \/ RowAges \/ UNCHANGED vars
  PROVE  DrawInv' /\ EscrowInv' /\ EntryInv'
<1> USE DEF IInv, rowVars, entryVars, ledgerVars, shownVars, boundVars
<1>0. draw \in [Drawers -> DrawRecord] /\ NotDrawing \in DrawRecord
      /\ NotDrawing.pc = "idle"
  BY NotDrawingTyped DEF TypeInv, FlightOK, NotDrawing
<1> DEFINE r == [NotDrawing EXCEPT !.pc = "claimed", !.mode = mode, !.escrow = escrow]
<1>r. r.pc = "claimed" /\ r.escrow = escrow
  BY <1>0 DEF DrawRecord
<1> HIDE DEF r
<1>1. CASE ManualLoad
  <2>1. /\ draw["manual"].pc = "flipped" /\ "manual" \in Drawers
        /\ UNCHANGED <<status, plan, escrow, charged, refunded, paid, req, prize, entered>>
        /\ draw' = [draw EXCEPT !["manual"] = IF status = "deleted" THEN NotDrawing ELSE r]
    BY <1>1 DEF ManualLoad, r
  <2>2. status = "drawing"
    BY <2>1 DEF DrawInv, Working
  <2>3. \A e \in Drawers : draw'[e] = IF e = "manual" THEN r ELSE draw[e]
    BY <1>0, <2>1, <2>2
  <2>4. DrawInv' /\ EntryInv'
    BY <1>r, <2>1, <2>2, <2>3 DEF DrawInv, EntryInv
  <2> QED BY <1>r, <2>1, <2>3, <2>4 DEF EscrowInv, EscrowConserved
<1>2. CASE SweepClaim
  <2>1. /\ "sweep" \in Drawers /\ status \in {"open", "drawing"} /\ status' = "drawing"
        /\ UNCHANGED <<plan, escrow, charged, refunded, paid, req, prize, entered>>
        /\ draw' = [draw EXCEPT !["sweep"] = r]
    BY <1>2 DEF SweepClaim, Claimable, r
  <2>2. \A e \in Drawers : draw[e].pc = "idle"
    BY <1>2 DEF SweepClaim, Claimable, DrawInFlight, Drawing, DrawInv
  <2>3. \A e \in Drawers : draw'[e] = IF e = "sweep" THEN r ELSE draw[e]
    BY <1>0, <2>1
  <2>4. DrawInv' /\ EntryInv'
    BY <2>1, <2>2, <2>3 DEF DrawInv, EntryInv
  <2> QED BY <1>r, <2>1, <2>2, <2>3, <2>4 DEF EscrowInv, EscrowConserved
<1>3. CASE Crash
  <2>1. /\ UNCHANGED <<status, plan, escrow, charged, refunded, paid, prize, entered>>
        /\ \A e \in Drawers : draw'[e].pc = "idle"
        /\ \A u \in Users : req'[u].pc = "idle"
    BY <1>0, <1>3 DEF Crash, Idle
  <2> QED BY <2>1 DEF DrawInv, EscrowInv, EscrowConserved, EntryInv, Working
<1>4. CASE DeadlinePasses \/ RowAges \/ UNCHANGED vars
  BY <1>4 DEF DeadlinePasses, RowAges, vars, DrawInv, EscrowInv, EscrowConserved, EntryInv
<1> QED
  BY <1>1, <1>2, <1>3, <1>4

(* A lottery starts with its whole budget in escrow.                       *)
LEMMA InitKeeps == Init => DrawInv /\ EscrowInv /\ EntryInv
<1> SUFFICES ASSUME Init PROVE DrawInv /\ EscrowInv /\ EntryInv
  OBVIOUS
<1>1. \A d \in Drawers : draw[d].pc = "idle"
  BY DEF Init, NotDrawing
<1>2. \A u \in Users : req[u].pc = "idle" /\ prize[u] = 0
  BY DEF Init, Idle
<1>3. Budget[plan] \in Nat
  BY ConstantsOK DEF Init
<1> QED
  BY <1>1, <1>2, <1>3
  DEF Init, DrawInv, EscrowInv, EscrowConserved, EntryInv, Working

LEMMA IInvStep == Overlap = FALSE /\ IInv /\ [Next]_vars => IInv'
<1> SUFFICES ASSUME Overlap = FALSE, IInv, [Next]_vars
             PROVE  IInv'
  OBVIOUS
<1>1. TypeInv'
  BY ReaderTyped, AuthorTyped, DrawerTyped, RestTyped DEF IInv, Next
<1>2. DrawInv' /\ EscrowInv' /\ EntryInv'
  BY ReaderKeeps, AuthorKeeps, DrawerKeeps, RestKeeps DEF Next
<1> QED
  BY <1>1, <1>2 DEF IInv

LEMMA IInvAlways ==
  ASSUME Overlap = FALSE
  PROVE  Spec => []IInv
<1>1. Init => IInv
  BY InitTyped, InitKeeps DEF IInv
<1>2. IInv /\ [Next]_vars => IInv'
  BY IInvStep
<1> QED
  BY <1>1, <1>2, PTL DEF Spec

(* Every point charged to an author is in escrow, with a winner or back    *)
(* with the author, for any plans, any number of readers and any           *)
(* interleaving of edits, cancels, deletes, failing and recovered draws.   *)
THEOREM EscrowIsConserved ==
  ASSUME Overlap = FALSE
  PROVE  Spec => []EscrowConserved
<1>1. IInv => EscrowConserved
  BY DEF IInv, EscrowInv
<1> QED
  BY <1>1, IInvAlways, PTL

(* A settled lottery holds no points: none is stranded on its row.         *)
THEOREM NothingStranded ==
  ASSUME Overlap = FALSE
  PROVE  Spec => [](status \notin {"open", "drawing"} => escrow = 0)
<1>1. IInv => (status \notin {"open", "drawing"} => escrow = 0)
  BY DEF IInv, EscrowInv
<1> QED
  BY <1>1, IInvAlways, PTL

(* A step from a drawn lottery changes no result of the draw.              *)
LEMMA DrawnStep ==
  ASSUME IInv, Next, status = "drawn"
  PROVE  status' \in {"drawn", "deleted"} /\ UNCHANGED <<prize, claimedBy, paid>>
<1> USE DEF IInv, rowVars, entryVars, ledgerVars, shownVars, boundVars
<1>0. \A d \in Drawers : draw[d].pc \notin Working
  BY DEF DrawInv
<1>1. ASSUME NEW u \in Users, Reader(u)
      PROVE  UNCHANGED <<status, prize, claimedBy, paid>>
  <2>1. CASE EnterCommit(u)
    <3>1. prize[u] = 0 /\ prize \in [Users -> SlotOrNone]
      BY <2>1 DEF EnterCommit, EntryInv, TypeInv, EntriesOK
    <3>2. prize' = prize
      BY <2>1, <3>1 DEF EnterCommit
    <3> QED BY <2>1, <3>2 DEF EnterCommit
  <2> QED
    BY <1>1, <2>1
    DEF Reader, EnterRead, EnterInsert, WithdrawRead, WithdrawDelete, WithdrawCommit,
        RevealRead, RevealMove, RequestFails, Fulfil, ExpireClaim
<1>2. CASE Author
  BY <1>2 DEF Author, Edit, Cancel, Delete, RevealReturned, ManualFlip
<1>3. ASSUME NEW d \in Drawers, Drawer(d)
      PROVE  UNCHANGED <<status, prize, claimedBy, paid>>
  BY <1>0, <1>3
  DEF Drawer, Pick, Commit, CommitClash, DrawFails, Release, AfterDraw, Working
<1>4. CASE ManualLoad \/ SweepClaim \/ Crash \/ DeadlinePasses \/ RowAges
  BY <1>4 DEF ManualLoad, SweepClaim, Claimable, Crash, DeadlinePasses, RowAges
<1> QED
  BY <1>1, <1>2, <1>3, <1>4 DEF Next

(* A drawn lottery is never drawn again and its results stay, while the    *)
(* sweep does not recover a row whose draw still runs.                     *)
THEOREM DrawnStays ==
  ASSUME Overlap = FALSE
  PROVE  Spec => DrawnIsFinal
<1>1. IInv /\ [Next]_vars =>
        [status = "drawn" => /\ status' \in {"drawn", "deleted"}
                             /\ prize' = prize /\ claimedBy' = claimedBy
                             /\ paid' = paid]_vars
  BY DrawnStep
<1> QED
  BY <1>1, IInvAlways, PTL DEF Spec, DrawnIsFinal

-----------------------------------------------------------------------------
(* What a lottery hands out: a slot has one winner and a code one holder,  *)
(* a code goes to its winner or back to the author, and nobody is told two *)
(* things.  As above no draw outlives the recovery age, so a lottery is    *)
(* drawn once.                                                             *)

(* Whoever counts the members of S up to him counts a number of his own.   *)
LEMMA CountsDiffer ==
  ASSUME NEW S \in SUBSET Users, NEW f \in [Users -> Nat],
         \A x, y \in S : f[x] = f[y] => x = y,
         NEW u \in S, NEW v \in S,
         Cardinality({x \in S : f[x] <= f[u]}) = Cardinality({x \in S : f[x] <= f[v]})
  PROVE  u = v
<1>1. ASSUME NEW a \in S, NEW b \in S, f[a] <= f[b],
             Cardinality({x \in S : f[x] <= f[a]}) = Cardinality({x \in S : f[x] <= f[b]})
      PROVE  a = b
  <2> DEFINE A == {x \in S : f[x] <= f[a]}
             B == {x \in S : f[x] <= f[b]}
  <2>1. f[a] \in Nat /\ f[b] \in Nat /\ \A x \in S : f[x] \in Nat
    OBVIOUS
  <2>2. A \in SUBSET B /\ b \in B
    BY <1>1, <2>1
  <2>3. B \in SUBSET Users
    OBVIOUS
  <2>4. IsFiniteSet(B)
    BY <2>3, ReadersCounted
  <2>5. Cardinality(A) = Cardinality(B)
    BY <1>1
  <2> HIDE DEF A, B
  <2>6. A = B
    BY <2>2, <2>4, <2>5, FS_Subset
  <2>7. b \in A
    BY <2>2, <2>6
  <2>8. f[b] <= f[a]
    BY <2>7 DEF A
  <2> QED BY <1>1, <2>1, <2>8
<1>2. f[u] \in Nat /\ f[v] \in Nat
  OBVIOUS
<1>3. f[u] <= f[v] \/ f[v] <= f[u]
  BY <1>2
<1> QED
  BY <1>1, <1>3

(* Each winner of a pool wins a slot of his own.                           *)
Distinct(win) == \A u, v \in Users : win[u] # 0 /\ win[u] = win[v] => u = v

LEMMA WinsDiffer ==
  ASSUME NEW pool \in SUBSET Users, NEW n \in SlotOrNone
  PROVE  Distinct(WonBy(pool, n))
<1> SUFFICES ASSUME NEW u \in Users, NEW v \in Users,
                    WonBy(pool, n)[u] # 0, WonBy(pool, n)[u] = WonBy(pool, n)[v]
             PROVE  u = v
  BY DEF Distinct
<1>1. u \in pool /\ v \in pool /\ Place(u, pool) = Place(v, pool)
  BY DEF WonBy
<1>2. Rank \in [Users -> Nat] /\ \A x, y \in pool : Rank[x] = Rank[y] => x = y
  BY ConstantsOK
<1> QED
  BY <1>1, <1>2, CountsDiffer DEF Place

(* TakeCode hands no code to two winners of one draw.                      *)
LEMMA TakingsDiffer ==
  ASSUME NEW w \in DrawRecord, Distinct(w.win), NEW t \in Takings(w)
  PROVE  Distinct(t) /\ \A u \in Users : t[u] # 0 => u \in Winners(w)
<1> DEFINE coded == {u \in Winners(w) : Won(w, u) = "code"}
           nth(u) == Cardinality({v \in coded : w.win[v] <= w.win[u]})
           kth(c) == Cardinality({b \in FreeCodes : b <= c})
<1>1. \A u \in Users : t[u] # 0 => u \in coded /\ kth(t[u]) = nth(u)
  BY DEF Takings
<1>2. coded \in SUBSET Users /\ \A u \in coded : w.win[u] # 0
  BY DEF Winners
<1>3. w.win \in [Users -> Nat]
  BY ConstantsOK DEF DrawRecord, SlotOrNone
<1>4. \A x, y \in coded : w.win[x] = w.win[y] => x = y
  BY <1>2 DEF Distinct
<1>5. ASSUME NEW u \in coded, NEW v \in coded, nth(u) = nth(v)
      PROVE  u = v
  <2> HIDE DEF coded
  <2> QED BY <1>2, <1>3, <1>4, <1>5, CountsDiffer
<1> HIDE DEF nth, kth
<1>6. Distinct(t)
  BY <1>1, <1>5 DEF Distinct
<1> QED
  BY <1>1, <1>6

-----------------------------------------------------------------------------
After == {"drawn", "deleted"}

(* Nobody is told anything before the draw, nor while the one draw that    *)
(* committed has yet to tell.                                              *)
ToldInv ==
    /\ OneAnswer
    /\ status \notin After => \A u \in Users : told[u] = {}
    /\ \A d \in Drawers : draw[d].pc = "committed" =>
          /\ status \in After
          /\ \A u \in Users : told[u] = {}
          /\ \A e \in Drawers : draw[e].pc = "committed" => e = d

(* Nothing is won before the draw, and a draw picks a winner for each slot. *)
WonInv ==
    /\ status \notin After => \A u \in Users : prize[u] = 0 /\ code[u] = 0
    /\ \A d \in Drawers : draw[d].pc = "picked" => Distinct(draw[d].win)
    /\ PrizesHandedOnce

(* A code that was shown, or is about to be, has a holder who received it; *)
(* one that went back has none, or one who forfeited it.                   *)
Early ==
    /\ status \notin After => revealed = {} /\ \A u \in Users : req[u].pc # "reveal"
    /\ status \in {"open", "drawing"} => returned = {}

Asked(u) ==
    req[u].pc = "reveal" =>
        /\ claimedBy[req[u].code] = u
        /\ u \in entered => code[u] = req[u].code
        /\ req[u].ful = "received" => /\ u \in entered => ful[u] = "received"
                                      /\ req[u].code \notin returned

Shown(c) == claimedBy[c] # Nobody /\ \A u \in entered : code[u] = c => ful[u] = "received"

Back(c) == \A u \in entered : code[u] = c => ful[u] = "forfeited"

RevealInv ==
    /\ Early
    /\ \A u \in Users : Asked(u)
    /\ \A c \in revealed : Shown(c)
    /\ \A c \in returned : Back(c)
    /\ CodeGoesOneWay

OutcomeInv == ToldInv /\ WonInv /\ RevealInv

(* Readers: an entry begins with nothing, a code is shown to its holder    *)
(* once he received it, and only a holder who has not forfeits it.         *)
LEMMA ReaderOutcome ==
  ASSUME IInv, OutcomeInv, NEW u \in Users, Reader(u)
  PROVE  OutcomeInv'
<1> USE DEF IInv, rowVars, entryVars, ledgerVars, shownVars, boundVars
<1>0. /\ req \in [Users -> Request] /\ entered \in SUBSET Users
      /\ prize \in [Users -> SlotOrNone] /\ code \in [Users -> SlotOrNone]
      /\ ful \in [Users -> Fulfillments] /\ revealed \in SUBSET Codes
      /\ returned \in SUBSET Codes /\ Nobody \notin Users
  BY ConstantsOK DEF TypeInv, FlightOK, EntriesOK, BooksOK
<1>c. /\ \A c \in Codes : c # 0
      /\ \A v \in Users : req[v].pc = "reveal" => req[v].code \in Codes
  BY ConstantsOK DEF TypeInv, FlightOK, Request, Codes, SlotOrNone
<1>1. UNCHANGED <<status, draw, told, claimedBy, returned>>
  BY DEF Reader, EnterRead, EnterInsert, EnterCommit, WithdrawRead, WithdrawDelete,
         WithdrawCommit, RevealRead, RevealMove, RequestFails, Fulfil, ExpireClaim
<1>2. ToldInv'
  BY <1>1 DEF OutcomeInv, ToldInv, OneAnswer
<1>3. WonInv /\ RevealInv
  BY DEF OutcomeInv
<1>i. Idle.pc # "reveal" /\ \A v \in Users : v # u =>
          \A r : req' = [req EXCEPT ![u] = r] => req'[v] = req[v]
  BY <1>0 DEF Idle
<1>4. ASSUME NEW r, r.pc # "reveal", req' = [req EXCEPT ![u] = r],
             UNCHANGED <<entered, prize, code, ful, revealed>>
      PROVE  OutcomeInv'
  <2>1. req'[u] = r /\ \A v \in Users : v # u => req'[v] = req[v]
    BY <1>0, <1>4
  <2>2. WonInv' /\ CodeGoesOneWay'
    BY <1>1, <1>3, <1>4 DEF WonInv, PrizesHandedOnce, RevealInv, CodeGoesOneWay
  <2>3. Early' /\ \A v \in Users : Asked(v)'
    BY <1>1, <1>3, <1>4, <2>1 DEF RevealInv, Early, Asked
  <2>4. (\A c \in revealed' : Shown(c)') /\ (\A c \in returned' : Back(c)')
    BY <1>1, <1>3, <1>4 DEF RevealInv, Shown, Back
  <2> QED BY <1>2, <2>2, <2>3, <2>4 DEF RevealInv, OutcomeInv
<1>5. CASE EnterRead(u) \/ EnterInsert(u) \/ WithdrawRead(u) \/ WithdrawDelete(u)
           \/ RequestFails(u)
  <2>1. UNCHANGED <<entered, prize, code, ful, revealed>>
    BY <1>5 DEF EnterRead, EnterInsert, WithdrawRead, WithdrawDelete, RequestFails
  <2>2. CASE EnterRead(u)
    <3>1. [Idle EXCEPT !.pc = "enter"].pc # "reveal"
      BY DEF Idle
    <3> QED BY <1>4, <2>1, <2>2, <3>1 DEF EnterRead
  <2>3. CASE EnterInsert(u)
    <3> DEFINE r == IF u \in entered \/ status = "deleted" THEN Idle
                    ELSE [Idle EXCEPT !.pc = "inserting", !.n = Cardinality(entered \cup {u})]
    <3>1. r.pc # "reveal"
      BY DEF Idle
    <3>2. req' = [req EXCEPT ![u] = r]
      BY <2>3 DEF EnterInsert
    <3> HIDE DEF r
    <3> QED BY <1>4, <2>1, <3>1, <3>2
  <2>4. CASE WithdrawRead(u)
    <3>1. [Idle EXCEPT !.pc = "withdraw"].pc # "reveal"
      BY DEF Idle
    <3> QED BY <1>4, <2>1, <2>4, <3>1 DEF WithdrawRead
  <2>5. CASE WithdrawDelete(u)
    <3> DEFINE r == IF u \in entered /\ prize[u] = 0
                    THEN [Idle EXCEPT !.pc = "deleting", !.n = Cardinality(entered \ {u})]
                    ELSE Idle
    <3>1. r.pc # "reveal"
      BY DEF Idle
    <3>2. req' = [req EXCEPT ![u] = r]
      BY <2>5 DEF WithdrawDelete
    <3> HIDE DEF r
    <3> QED BY <1>4, <2>1, <3>1, <3>2
  <2>6. CASE RequestFails(u)
    BY <1>i, <1>4, <2>1, <2>6 DEF RequestFails
  <2> QED BY <1>5, <2>2, <2>3, <2>4, <2>5, <2>6
<1>6. CASE EnterCommit(u)
  <2>1. /\ entered' = entered \cup {u}
        /\ prize' = [prize EXCEPT ![u] = 0] /\ code' = [code EXCEPT ![u] = 0]
        /\ ful' = [ful EXCEPT ![u] = "none"]
        /\ req' = [req EXCEPT ![u] = Idle] /\ revealed' = revealed
    BY <1>6 DEF EnterCommit
  <2>2. WonInv'
    BY <1>0, <1>1, <1>3, <2>1 DEF WonInv, PrizesHandedOnce
  <2>3. /\ req'[u] = Idle /\ code'[u] = 0
        /\ \A v \in Users : v # u =>
              /\ req'[v] = req[v] /\ code'[v] = code[v] /\ ful'[v] = ful[v]
              /\ v \in entered' => v \in entered
    BY <1>0, <2>1
  <2>4. Early' /\ \A v \in Users : Asked(v)'
    BY <1>i, <1>1, <1>3, <2>1, <2>3 DEF RevealInv, Early, Asked
  <2>5. (\A c \in revealed' : Shown(c)') /\ (\A c \in returned' : Back(c)')
    BY <1>0, <1>c, <1>1, <1>3, <2>1, <2>3 DEF RevealInv, Shown, Back
  <2> QED BY <1>1, <1>2, <1>3, <2>1, <2>2, <2>4, <2>5
         DEF RevealInv, CodeGoesOneWay, OutcomeInv
<1>7. CASE WithdrawCommit(u)
  <2>1. /\ entered' = entered \ {u} /\ UNCHANGED <<prize, code, ful, revealed>>
        /\ req' = [req EXCEPT ![u] = Idle]
    BY <1>7 DEF WithdrawCommit
  <2>2. WonInv'
    BY <1>0, <1>1, <1>3, <2>1 DEF WonInv, PrizesHandedOnce
  <2>3. req'[u] = Idle /\ \A v \in Users : v # u => req'[v] = req[v]
    BY <1>0, <2>1
  <2>4. Early' /\ \A v \in Users : Asked(v)'
    BY <1>i, <1>1, <1>3, <2>1, <2>3 DEF RevealInv, Early, Asked
  <2>5. (\A c \in revealed' : Shown(c)') /\ (\A c \in returned' : Back(c)')
    BY <1>1, <1>3, <2>1 DEF RevealInv, Shown, Back
  <2> QED BY <1>1, <1>2, <1>3, <2>1, <2>2, <2>4, <2>5
         DEF RevealInv, CodeGoesOneWay, OutcomeInv
<1>8. CASE RevealRead(u)
  <2> DEFINE r == [Idle EXCEPT !.pc = "reveal", !.code = code[u], !.ful = ful[u]]
  <2>1. /\ req' = [req EXCEPT ![u] = r] /\ u \in entered /\ code[u] # 0 /\ prize[u] # 0
        /\ claimedBy[code[u]] = u /\ UNCHANGED <<entered, prize, code, ful, revealed>>
    BY <1>8 DEF RevealRead
  <2>2. r.pc = "reveal" /\ r.code = code[u] /\ r.ful = ful[u]
    BY DEF Idle
  <2>3. WonInv' /\ status \in After
    BY <1>1, <1>3, <2>1 DEF WonInv, PrizesHandedOnce
  <2>4. ful[u] = "received" => code[u] \notin returned
    BY <1>3, <2>1 DEF RevealInv, Back
  <2> HIDE DEF r
  <2>5. req'[u] = r /\ \A v \in Users : v # u => req'[v] = req[v]
    BY <1>0, <2>1
  <2>6. \A v \in Users : Asked(v)'
    BY <1>1, <1>3, <2>1, <2>2, <2>4, <2>5 DEF RevealInv, Asked
  <2>7. Early' /\ CodeGoesOneWay'
    BY <1>1, <1>3, <2>1, <2>3 DEF RevealInv, Early, After, CodeGoesOneWay
  <2>8. (\A c \in revealed' : Shown(c)') /\ (\A c \in returned' : Back(c)')
    BY <1>1, <1>3, <2>1 DEF RevealInv, Shown, Back
  <2> QED BY <1>2, <2>3, <2>6, <2>7, <2>8 DEF RevealInv, OutcomeInv
<1>9. CASE RevealMove(u)
  <2> DEFINE c == req[u].code
  <2>1. /\ req[u].pc = "reveal" /\ req' = [req EXCEPT ![u] = Idle]
        /\ UNCHANGED <<entered, prize, code>>
    BY <1>9 DEF RevealMove
  <2>2. c \in Codes /\ claimedBy[c] = u /\ (u \in entered => code[u] = c) /\ status \in After
    BY <1>c, <1>3, <2>1 DEF RevealInv, Early, Asked
  <2>3. WonInv'
    BY <1>1, <1>3, <2>1 DEF WonInv, PrizesHandedOnce
  <2>4. \A v \in entered : code[v] # 0 => claimedBy[code[v]] = v
    BY <1>3 DEF WonInv, PrizesHandedOnce
  <2>5. \A v \in entered : code[v] = c => v = u
    BY <1>c, <2>2, <2>4
  <2>0. req'[u] = Idle /\ \A v \in Users : v # u => req'[v] = req[v]
    BY <1>0, <2>1
  <2>6. CASE UNCHANGED <<revealed, ful>>
    BY <1>i, <1>4, <2>1, <2>6
  <2>7. ASSUME revealed' = revealed \cup {c}, c \notin returned,
               \/ ful' = ful /\ (u \in entered => ful[u] = "received")
               \/ ful' = [ful EXCEPT ![u] = "received"] /\ ful[u] # "forfeited"
        PROVE  RevealInv'
    <3>1. /\ u \in entered => ful'[u] = "received"
          /\ \A v \in Users : v # u => ful'[v] = ful[v]
          /\ ful[u] = "forfeited" => u \notin entered
      BY <1>0, <2>7
    <3> HIDE DEF c
    <3>2. Early' /\ CodeGoesOneWay'
      BY <1>i, <1>1, <1>3, <2>2, <2>7 DEF RevealInv, Early, After, CodeGoesOneWay
    <3>3. \A v \in Users : Asked(v)'
      BY <1>i, <1>1, <1>3, <2>0, <2>1, <3>1 DEF RevealInv, Asked
    <3>4. \A b \in revealed' : Shown(b)'
      BY <1>0, <1>1, <1>3, <2>1, <2>2, <2>5, <2>7, <3>1 DEF RevealInv, Shown
    <3>5. \A b \in returned' : Back(b)'
      BY <1>0, <1>1, <1>3, <2>1, <2>2, <2>7, <3>1 DEF RevealInv, Back
    <3> QED BY <3>2, <3>3, <3>4, <3>5 DEF RevealInv
  <2>8. CASE req[u].ful = "received" /\ revealed' = revealed \cup {c} /\ ful' = ful
    <3>1. c \notin returned /\ (u \in entered => ful[u] = "received")
      BY <1>3, <2>1, <2>8 DEF RevealInv, Asked
    <3> QED BY <1>2, <2>3, <2>7, <2>8, <3>1 DEF OutcomeInv
  <2>9. CASE /\ Revealable(u) /\ revealed' = revealed \cup {c}
             /\ ful' = [ful EXCEPT ![u] = "received"]
    <3>1. u \in entered /\ ful[u] # "forfeited" /\ code[u] = c
      BY <2>2, <2>9 DEF Revealable
    <3>2. c \notin returned
      BY <1>3, <3>1 DEF RevealInv, Back
    <3> QED BY <1>2, <2>3, <2>7, <2>9, <3>1, <3>2 DEF OutcomeInv
  <2> QED BY <1>9, <2>3, <2>6, <2>8, <2>9 DEF RevealMove
<1>10. CASE Fulfil(u) \/ ExpireClaim(u)
  <2>1. /\ UNCHANGED <<entered, prize, code, revealed, req>>
        /\ \E to \in Fulfillments : ful' = [ful EXCEPT ![u] = to]
        /\ ful[u] \in {"pending", "shipped"}
    BY <1>10 DEF Fulfil, ExpireClaim, OfflineMoves, Fulfillments
  <2>2. WonInv'
    BY <1>1, <1>3, <2>1 DEF WonInv, PrizesHandedOnce
  <2>3. \A v \in Users : ful[v] \in {"received", "forfeited"} => ful'[v] = ful[v]
    BY <1>0, <2>1
  <2>4. Early' /\ CodeGoesOneWay' /\ \A v \in Users : Asked(v)'
    BY <1>1, <1>3, <2>1, <2>3 DEF RevealInv, Early, Asked, CodeGoesOneWay
  <2>5. (\A c \in revealed' : Shown(c)') /\ (\A c \in returned' : Back(c)')
    BY <1>0, <1>1, <1>3, <2>1, <2>3 DEF RevealInv, Shown, Back
  <2> QED BY <1>2, <2>2, <2>4, <2>5 DEF RevealInv, OutcomeInv
<1> QED
  BY <1>2, <1>5, <1>6, <1>7, <1>8, <1>9, <1>10 DEF Reader

(* A step that neither begins nor ends the time after the draw, and brings *)
(* no draw further than to a claim, hands out nothing.                     *)
LEMMA NothingHandedOut ==
  ASSUME OutcomeInv, status' \in After <=> status \in After,
         status' \in {"open", "drawing"} => status \in {"open", "drawing"},
         UNCHANGED <<entryVars, claimedBy, req, shownVars>>,
         \A e \in Drawers : draw'[e] = draw[e] \/ draw'[e].pc \notin {"picked", "committed"}
  PROVE  OutcomeInv'
<1> USE DEF entryVars, shownVars
<1>1. ToldInv'
  BY DEF OutcomeInv, ToldInv, OneAnswer
<1>2. WonInv'
  BY DEF OutcomeInv, WonInv, PrizesHandedOnce
<1>3. RevealInv'
  BY DEF OutcomeInv, RevealInv, Early, Asked, Shown, Back, CodeGoesOneWay
<1> QED
  BY <1>1, <1>2, <1>3 DEF OutcomeInv

(* The author: what a code went back on has no holder or a forfeited one;  *)
(* an edit replaces the codes only while none is out.                      *)
LEMMA AuthorOutcome ==
  ASSUME IInv, OutcomeInv, Author
  PROVE  OutcomeInv'
<1> USE DEF IInv, rowVars, entryVars, ledgerVars, shownVars, boundVars
<1>0. /\ status \in Statuses /\ draw \in [Drawers -> DrawRecord]
      /\ entered \in SUBSET Users /\ Nobody \notin Users
      /\ \A v \in Users : req[v].pc = "reveal" => req[v].code # 0
  BY ConstantsOK DEF TypeInv, RowOK, FlightOK, EntriesOK
<1>3. ToldInv /\ WonInv /\ RevealInv
  BY DEF OutcomeInv
<1>1. ASSUME NEW p \in Plans, NEW m \in Modes, NEW dm \in DrawModes,
             NEW rewrite \in BOOLEAN, NEW reopen \in BOOLEAN,
             Edit(p, m, dm, rewrite, reopen)
      PROVE  OutcomeInv'
  <2>1. status = "open" /\ status' = "open"
        /\ UNCHANGED <<draw, req, prize, code, ful, entered, told, revealed, returned>>
    BY <1>1 DEF Edit
  <2>2. ToldInv' /\ WonInv'
    BY <1>0, <1>3, <2>1 DEF ToldInv, OneAnswer, WonInv, PrizesHandedOnce, After
  <2>3. RevealInv'
    BY <1>3, <2>1 DEF RevealInv, Early, Asked, CodeGoesOneWay, After
  <2> QED BY <2>2, <2>3 DEF OutcomeInv
<1>2. CASE Cancel
  BY <1>2, NothingHandedOut DEF Cancel, After
<1>4. ASSUME NEW staff \in BOOLEAN, Delete(staff)
      PROVE  OutcomeInv'
  <2>1. status' = "deleted" /\ status # "drawing" /\ entered' = {}
        /\ UNCHANGED <<draw, req, prize, code, ful, claimedBy, told, revealed, returned>>
    BY <1>4 DEF Delete
  <2>2. ToldInv' /\ WonInv'
    BY <1>3, <2>1 DEF ToldInv, OneAnswer, WonInv, PrizesHandedOnce, After
  <2>3. RevealInv'
    BY <1>3, <2>1 DEF RevealInv, Early, Asked, Shown, Back, CodeGoesOneWay, After
  <2> QED BY <2>2, <2>3 DEF OutcomeInv
<1>5. CASE RevealReturned
  <2>1. /\ status \in {"drawn", "cancelled"} /\ returned' = returned \cup ReturnedCodes
        /\ UNCHANGED <<status, draw, req, entered, prize, code, ful, claimedBy, told, revealed>>
    BY <1>5 DEF RevealReturned
  <2>2. ToldInv' /\ WonInv'
    BY <1>3, <2>1 DEF ToldInv, OneAnswer, WonInv, PrizesHandedOnce
  <2>3. \A u \in entered : code[u] # 0 => claimedBy[code[u]] = u
    BY <1>3 DEF WonInv, PrizesHandedOnce
  <2>4. ASSUME NEW c \in ReturnedCodes
        PROVE  /\ c \notin revealed /\ Back(c)
               /\ \A v \in Users : req[v].pc = "reveal" /\ req[v].ful = "received"
                                      => req[v].code # c
    <3>1. c # 0
      BY ConstantsOK DEF ReturnedCodes, PlanCodes
    <3>2. CASE claimedBy[c] = Nobody
      <4>1. \A u \in entered : code[u] # c
        BY <1>0, <2>3, <3>1, <3>2
      <4> QED BY <1>0, <1>3, <3>2, <4>1 DEF RevealInv, Shown, Back, Asked
    <3>3. ASSUME NEW u \in entered, code[u] = c, ful[u] = "forfeited"
          PROVE  /\ c \notin revealed /\ Back(c)
                 /\ \A v \in Users : req[v].pc = "reveal" /\ req[v].ful = "received"
                                        => req[v].code # c
      <4>1. \A v \in entered : code[v] = c => v = u
        BY <2>3, <3>1, <3>3
      <4>2. c \notin revealed /\ Back(c)
        BY <1>3, <3>3, <4>1 DEF RevealInv, Shown, Back
      <4>3. claimedBy[c] = u
        BY <2>3, <3>1, <3>3
      <4> QED BY <1>0, <1>3, <3>3, <4>2, <4>3 DEF RevealInv, Asked
    <3> QED BY <3>2, <3>3 DEF ReturnedCodes
  <2>5. Early' /\ \A v \in Users : Asked(v)'
    BY <1>3, <2>1, <2>4 DEF RevealInv, Early, Asked
  <2>6. (\A c \in revealed' : Shown(c)') /\ (\A c \in returned' : Back(c)')
    BY <1>3, <2>1, <2>4 DEF RevealInv, Shown, Back
  <2>7. CodeGoesOneWay'
    BY <1>3, <2>1, <2>4 DEF RevealInv, CodeGoesOneWay
  <2> QED BY <2>2, <2>5, <2>6, <2>7 DEF OutcomeInv, RevealInv
<1>6. CASE ManualFlip
  <2>1. status = "open" /\ status' = "drawing" /\ UNCHANGED <<entryVars, claimedBy, req, shownVars>>
        /\ draw' = [draw EXCEPT !["manual"] = [NotDrawing EXCEPT !.pc = "flipped"]]
    BY <1>6 DEF ManualFlip
  <2>2. [NotDrawing EXCEPT !.pc = "flipped"].pc = "flipped"
    BY NotDrawingTyped DEF DrawRecord
  <2>3. \A e \in Drawers : draw'[e] = draw[e] \/ draw'[e].pc = "flipped"
    BY <1>0, <2>1, <2>2
  <2> QED BY <2>1, <2>3, NothingHandedOut DEF After
<1>7. CASE \E p \in Plans, m \in Modes, dm \in DrawModes :
             \E rewrite, reopen \in BOOLEAN : Edit(p, m, dm, rewrite, reopen)
  BY <1>1, <1>7
<1>8. CASE \E staff \in BOOLEAN : Delete(staff)
  BY <1>4, <1>8
<1> QED
  BY <1>2, <1>5, <1>6, <1>7, <1>8, Zenon DEF Author

(* The draw's commit hands each slot to one winner, each code to one.      *)
LEMMA CommitOutcome ==
  ASSUME IInv, OutcomeInv, NEW d \in Drawers, NEW acked \in BOOLEAN, Commit(d, acked)
  PROVE  OutcomeInv'
<1> DEFINE w == draw[d]
<1> USE DEF IInv
<1>0. /\ w \in DrawRecord /\ draw \in [Drawers -> DrawRecord]
      /\ entered \in SUBSET Users /\ claimedBy \in [Codes -> Users \cup {Nobody}]
      /\ Nobody \notin Users
  BY ConstantsOK DEF TypeInv, FlightOK, EntriesOK
<1>1. w.pc = "picked" /\ status = "drawing" /\ status' = "drawn"
  BY DEF Commit, DrawInv, Working
<1>2. ToldInv /\ WonInv /\ RevealInv
  BY DEF OutcomeInv
<1>3. /\ \A u \in Users : told[u] = {} /\ prize[u] = 0 /\ code[u] = 0 /\ req[u].pc # "reveal"
      /\ revealed = {} /\ returned = {} /\ Distinct(w.win)
  BY <1>1, <1>2 DEF ToldInv, WonInv, RevealInv, Early, After
<1>4. UNCHANGED <<req, told, revealed, returned>>
  BY DEF Commit, shownVars
<1>5. ToldInv'
  <2>1. \A e \in Drawers : e # d => draw'[e].pc = "idle"
    BY <1>0, <1>1 DEF Commit, DrawInv
  <2> QED BY <1>1, <1>2, <1>3, <1>4, <2>1 DEF ToldInv, OneAnswer, After
<1>6. RevealInv'
  BY <1>1, <1>3, <1>4 DEF RevealInv, Early, Asked, CodeGoesOneWay, After
<1>7. WonInv'
  <2>1. PICK t \in Takings(w) :
          /\ claimedBy' = [c \in Codes |->
                 IF \E u \in Users : t[u] = c
                 THEN CHOOSE u \in Users : t[u] = c ELSE claimedBy[c]]
          /\ code' = [u \in Users |->
                 IF u \in RowsWritten(w) /\ (t[u] # 0 \/ u \notin entered)
                 THEN t[u] ELSE code[u]]
    BY DEF Commit
  <2>2. t \in [Users -> SlotOrNone]
    BY <2>1 DEF Takings
  <2>3. Distinct(t)
    BY <1>0, <1>3, <2>1, TakingsDiffer
  <2>4. ASSUME NEW u \in Users, code'[u] # 0
        PROVE  claimedBy'[code'[u]] = u
    <3>1. code'[u] = t[u] /\ t[u] # 0
      BY <1>3, <2>1, <2>4
    <3>2. t[u] \in Codes
      BY <2>2, <3>1, ConstantsOK DEF Codes, SlotOrNone
    <3>3. claimedBy'[t[u]] = CHOOSE v \in Users : t[v] = t[u]
      BY <2>1, <3>2
    <3>4. \A v \in Users : t[v] = t[u] => v = u
      BY <2>3, <3>1 DEF Distinct
    <3> QED BY <3>1, <3>3, <3>4
  <2>5. ASSUME NEW u \in Users, NEW v \in Users, prize'[u] # 0, prize'[u] = prize'[v]
        PROVE  u = v
    <3>1. prize' = [x \in Users |-> IF x \in RowsWritten(w) THEN w.win[x] ELSE prize[x]]
      BY DEF Commit
    <3>2. prize'[u] = w.win[u] /\ prize'[v] = w.win[v]
      BY <1>3, <2>5, <3>1
    <3> HIDE DEF w
    <3> QED BY <1>3, <2>5, <3>2 DEF Distinct
  <2>6. entered' \subseteq Users
    BY <1>0 DEF Commit, RowsWritten, Winners
  <2>7. PrizesHandedOnce'
    BY <2>4, <2>5, <2>6 DEF PrizesHandedOnce
  <2>8. \A e \in Drawers : draw'[e].pc = "picked" => draw'[e] = draw[e]
    <3>1. draw' = [draw EXCEPT ![d].pc = IF acked THEN "committed" ELSE "failed"]
      BY DEF Commit
    <3> QED BY <1>0, <3>1 DEF DrawRecord
  <2> QED BY <1>1, <1>2, <2>7, <2>8 DEF WonInv, After
<1> QED
  BY <1>5, <1>6, <1>7 DEF OutcomeInv

(* The rest of a draw: it picks, gives up, or tells, once.                 *)
LEMMA DrawerOutcome ==
  ASSUME IInv, OutcomeInv, NEW d \in Drawers, Drawer(d)
  PROVE  OutcomeInv'
<1> USE DEF IInv, rowVars, entryVars, ledgerVars, shownVars, boundVars
<1>0. /\ draw[d] \in DrawRecord /\ draw \in [Drawers -> DrawRecord] /\ plan \in Plans
      /\ status \in Statuses /\ NotDrawing.pc = "idle" /\ NotDrawing \in DrawRecord
  BY NotDrawingTyped DEF TypeInv, FlightOK, RowOK, NotDrawing
<1>1. ASSUME NEW pool \in SUBSET Users, Pick(d, pool)
      PROVE  OutcomeInv'
  <2> DEFINE n == Smaller(Cardinality(pool), Slots[plan])
  <2>1. n \in SlotOrNone
    BY <1>0, WinnersFit
  <2>2. Distinct(WonBy(pool, n))
    BY <2>1, WinsDiffer
  <2>3. \A e \in Drawers : IF e = d THEN draw'[e].pc = "picked" /\ draw'[e].win = WonBy(pool, n)
                                    ELSE draw'[e] = draw[e]
    BY <1>0, <1>1 DEF Pick, DrawRecord
  <2> HIDE DEF n
  <2>4. UNCHANGED <<status, entered, prize, code, ful, claimedBy, req, told, revealed, returned>>
    BY <1>1 DEF Pick
  <2>5. ToldInv'
    BY <2>3, <2>4 DEF OutcomeInv, ToldInv, OneAnswer
  <2>6. WonInv'
    BY <2>2, <2>3, <2>4 DEF OutcomeInv, WonInv, PrizesHandedOnce
  <2>7. RevealInv'
    BY <2>4 DEF OutcomeInv, RevealInv, Early, Asked, Shown, Back, CodeGoesOneWay
  <2> QED BY <2>5, <2>6, <2>7 DEF OutcomeInv
<1>2. CASE \E acked \in BOOLEAN : Commit(d, acked)
  BY <1>2, CommitOutcome
<1>3. CASE CommitClash(d) \/ DrawFails(d) \/ Release(d)
  <2>1. \A e \in Drawers : draw'[e] = draw[e] \/ draw'[e].pc \in {"idle", "failed"}
    BY <1>0, <1>3 DEF CommitClash, DrawFails, Release, DrawRecord
  <2>2. /\ UNCHANGED <<entryVars, claimedBy, req, shownVars>>
        /\ status' = status \/ (status = "drawing" /\ status' = "open")
    BY <1>3 DEF CommitClash, DrawFails, Release
  <2> QED BY <2>1, <2>2, NothingHandedOut DEF After
<1>4. CASE AfterDraw(d)
  <2>1. /\ draw[d].pc = "committed" /\ draw' = [draw EXCEPT ![d] = NotDrawing]
        /\ UNCHANGED <<status, entered, prize, code, ful, claimedBy, req, revealed, returned>>
    BY <1>4 DEF AfterDraw
  <2>2. /\ status \in After /\ \A u \in Users : told[u] = {}
        /\ \A e \in Drawers : e # d => draw[e].pc # "committed"
    BY <2>1 DEF OutcomeInv, ToldInv
  <2>3. \A e \in Drawers : draw'[e].pc # "committed" /\ (draw'[e] = draw[e] \/ draw'[e].pc = "idle")
    BY <1>0, <2>1, <2>2
  <2>4. \A u \in Users : told'[u] \in {{}, {"won"}, {"lost"}}
    BY <1>4, <2>2, Zenon DEF AfterDraw
  <2>5. ToldInv'
    BY <2>1, <2>2, <2>3, <2>4 DEF ToldInv, OneAnswer
  <2>6. WonInv' /\ RevealInv'
    BY <2>1, <2>3 DEF OutcomeInv, WonInv, PrizesHandedOnce, RevealInv, Early, Asked, Shown,
                      Back, CodeGoesOneWay
  <2> QED BY <2>5, <2>6 DEF OutcomeInv
<1> QED
  BY <1>1, <1>2, <1>3, <1>4 DEF Drawer

(* Claims, restarts and time hand out nothing either.                      *)
LEMMA RestOutcome ==
  ASSUME Overlap = FALSE, IInv, OutcomeInv,
         \/ ManualLoad \/ SweepClaim \/ Crash
         \/ DeadlinePasses \/ RowAges \/ UNCHANGED vars
  PROVE  OutcomeInv'
<1> USE DEF IInv, rowVars, entryVars, ledgerVars, shownVars, boundVars
<1>0. /\ draw \in [Drawers -> DrawRecord] /\ NotDrawing.pc = "idle"
      /\ [NotDrawing EXCEPT !.pc = "claimed", !.mode = mode, !.escrow = escrow].pc = "claimed"
  BY NotDrawingTyped DEF TypeInv, FlightOK, NotDrawing, DrawRecord
<1>1. CASE ManualLoad \/ SweepClaim
  <2>1. \A e \in Drawers : draw'[e] = draw[e] \/ draw'[e].pc \in {"idle", "claimed"}
    BY <1>0, <1>1 DEF ManualLoad, SweepClaim
  <2>2. /\ UNCHANGED <<entryVars, claimedBy, req, shownVars>>
        /\ status' = status \/ (status \in {"open", "drawing"} /\ status' = "drawing")
    BY <1>1 DEF ManualLoad, SweepClaim, Claimable
  <2> QED BY <2>1, <2>2, NothingHandedOut DEF After
<1>2. CASE Crash
  <2>1. /\ UNCHANGED <<status, entered, prize, code, ful, claimedBy, told, revealed, returned>>
        /\ \A e \in Drawers : draw'[e].pc = "idle"
        /\ \A u \in Users : req'[u].pc = "idle"
    BY <1>0, <1>2 DEF Crash, Idle
  <2>2. ToldInv' /\ WonInv'
    BY <2>1 DEF OutcomeInv, ToldInv, OneAnswer, WonInv, PrizesHandedOnce
  <2>3. RevealInv'
    BY <2>1 DEF OutcomeInv, RevealInv, Early, Asked, Shown, Back, CodeGoesOneWay
  <2> QED BY <2>2, <2>3 DEF OutcomeInv
<1>3. CASE DeadlinePasses \/ RowAges \/ UNCHANGED vars
  BY <1>3, NothingHandedOut DEF DeadlinePasses, RowAges, vars
<1> QED
  BY <1>1, <1>2, <1>3

(* A lottery starts with nothing handed out.                               *)
LEMMA InitOutcome == Init => OutcomeInv
<1> SUFFICES ASSUME Init PROVE OutcomeInv
  OBVIOUS
<1>1. /\ \A d \in Drawers : draw[d].pc = "idle"
      /\ \A u \in Users : req[u].pc = "idle" /\ prize[u] = 0 /\ code[u] = 0 /\ told[u] = {}
      /\ entered = {} /\ revealed = {} /\ returned = {}
  BY DEF Init, NotDrawing, Idle
<1> QED
  BY <1>1 DEF OutcomeInv, ToldInv, OneAnswer, WonInv, PrizesHandedOnce, RevealInv, Early,
              Asked, CodeGoesOneWay

LEMMA OutcomeAlways ==
  ASSUME Overlap = FALSE
  PROVE  Spec => []OutcomeInv
<1>1. IInv /\ OutcomeInv /\ [Next]_vars => OutcomeInv'
  BY ReaderOutcome, AuthorOutcome, DrawerOutcome, RestOutcome DEF Next
<1> QED
  BY InitOutcome, <1>1, IInvAlways, PTL DEF Spec

(* No reader is told both that they won and that they lost: one draw       *)
(* commits and tells, whatever draws fail, restart or are recovered.       *)
THEOREM ToldOneAnswer ==
  ASSUME Overlap = FALSE
  PROVE  Spec => []OneAnswer
<1>1. OutcomeInv => OneAnswer
  BY DEF OutcomeInv, ToldInv
<1> QED
  BY <1>1, OutcomeAlways, PTL

(* A slot has one winner and a code the holder it was claimed for, however *)
(* entries, withdrawals, draws and recoveries interleave.                  *)
THEOREM HandedOnce ==
  ASSUME Overlap = FALSE
  PROVE  Spec => []PrizesHandedOnce
<1>1. OutcomeInv => PrizesHandedOnce
  BY DEF OutcomeInv, WonInv
<1> QED
  BY <1>1, OutcomeAlways, PTL

(* A code is never shown to its winner and to the author it went back to:  *)
(* whoever reveals it received it, and who forfeited it never reveals.     *)
THEOREM CodesGoOneWay ==
  ASSUME Overlap = FALSE
  PROVE  Spec => []CodeGoesOneWay
<1>1. OutcomeInv => CodeGoesOneWay
  BY DEF OutcomeInv, RevealInv
<1> QED
  BY <1>1, OutcomeAlways, PTL

=============================================================================
