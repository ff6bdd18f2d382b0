--------------------------- MODULE LotteryFloors ---------------------------
(***************************************************************************)
(* A floor lottery: the replies of its topic take floors, the author edits *)
(* the rule and the prizes, and the draw turns the rule into winners.      *)
(*                                                                         *)
(* NextReplyFloor waits for the topic row with the MAX(floor) of an older  *)
(* snapshot: PostBegin takes that snapshot, PostCommit is the rest.        *)
(* updateLottery plans an edit on rows it read outside the transaction and *)
(* rewrites every field of the shape: PlanEdit reads, SaveEdit writes.     *)
(***************************************************************************)
EXTENDS Naturals, Sequences, SequencesExt, FiniteSets

CONSTANTS
    Readers, Author, None,
    Editors,     \* PATCH requests the author or staff may have in flight
    Rules,       \* [every, list]: "every:N" or a list of floors
    SlotCounts,  \* slots() of the prize lists the author may store
    MaxFloor,    \* bound on replies posted
    MaxEdits     \* bound on edits

ASSUME FloorConstantsOK ==
    /\ Author \notin Readers /\ None \notin Readers \cup {Author}
    /\ MaxFloor \in Nat /\ MaxEdits \in Nat
    /\ SlotCounts \subseteq Nat \ {0}
    /\ Rules \subseteq [every : Nat, list : Seq(Nat \ {0})]

VARIABLES
    status, rule, slots,   \* of the lottery
    lastFloor,             \* topic.last_reply_floor
    holder, visible,       \* topic_reply: who holds a floor, and status = 0
    post,                  \* post[u]: the MAX(floor) u's transaction has seen
    edit,                  \* edit[e]: the shape e read and is about to store
    picked, found, renderable, winners,   \* of the draw
    edits

draftVars == <<picked, found, renderable, winners>>
replyVars == <<lastFloor, holder, visible, post>>
floorVars == <<status, rule, slots, replyVars, edit, draftVars, edits>>

-----------------------------------------------------------------------------
Repliers == Readers \cup {Author}
AllFloors == 1 .. MaxFloor
NoPost    == [open |-> FALSE, max |-> 0]
NoEdit    == [open |-> FALSE, rewrite |-> FALSE, rule |-> CHOOSE r \in Rules : TRUE,
              slots |-> CHOOSE n \in SlotCounts : TRUE]

Bigger(a, b) == IF a > b THEN a ELSE b
MaxHeld == CHOOSE m \in 0 .. MaxFloor :
               /\ m = 0 \/ holder[m] # None
               /\ \A f \in AllFloors : holder[f] # None => f <= m

(* ParseFloorRule: a list names each floor once, as many as there are slots. *)
Parses(r, n)  == r.every > 0 \/ Cardinality(ToSet(r.list)) = n
Lowest(S, i)  == CHOOSE f \in S : Cardinality({g \in S : g <= f}) = i
FloorsOf(r, n) ==
    [i \in 1 .. n |-> IF r.every > 0 THEN r.every * i ELSE Lowest(ToSet(r.list), i)]

FloorsInit ==
    /\ status = "open"
    /\ slots \in SlotCounts /\ rule \in {r \in Rules : Parses(r, slots)}
    /\ lastFloor = 0
    /\ holder = [f \in AllFloors |-> None] /\ visible = [f \in AllFloors |-> FALSE]
    /\ post = [u \in Repliers |-> NoPost]
    /\ edit = [e \in Editors |-> NoEdit]
    /\ picked = FALSE /\ found = <<>> /\ renderable = {} /\ winners = <<>>
    /\ edits = 0

-----------------------------------------------------------------------------
(* Replies *)

PostBegin(u) ==
    /\ ~post[u].open
    /\ post' = [post EXCEPT ![u] = [open |-> TRUE, max |-> MaxHeld]]
    /\ UNCHANGED <<status, rule, slots, lastFloor, holder, visible, edit,
                   draftVars, edits>>

(* Fault: the next floor is the highest one seen plus one.                 *)
NextReplyFloorMax(seen) == seen + 1

(* The counter is read again once the lock is granted, the MAX is not.     *)
NextReplyFloor(seen) == Bigger(lastFloor, seen) + 1

(* UNIQUE (topic_id, floor) turns a floor in use into a failed request.    *)
PostCommit(u) ==
    /\ post[u].open
    /\ LET f == NextReplyFloor(post[u].max) IN
         \/ /\ f \in AllFloors /\ holder[f] = None
            /\ lastFloor' = f
            /\ holder' = [holder EXCEPT ![f] = u]
            /\ visible' = [visible EXCEPT ![f] = TRUE]
         \/ /\ f \in AllFloors => holder[f] # None
            /\ UNCHANGED <<lastFloor, holder, visible>>
    /\ post' = [post EXCEPT ![u] = NoPost]
    /\ UNCHANGED <<status, rule, slots, edit, draftVars, edits>>

DeleteReply(f) ==
    /\ holder[f] # None
    /\ holder' = [holder EXCEPT ![f] = None]
    /\ visible' = [visible EXCEPT ![f] = FALSE]
    /\ UNCHANGED <<status, rule, slots, lastFloor, post, edit, draftVars,
                   edits>>

(* Moderation hides a reply or shows it again. *)
SetStatus(f) ==
    /\ holder[f] # None
    /\ visible' = [visible EXCEPT ![f] = ~visible[f]]
    /\ UNCHANGED <<status, rule, slots, lastFloor, holder, post, edit,
                   draftVars, edits>>

-----------------------------------------------------------------------------
(* The author *)

(* A floor lottery has no entries while it is open: nothing is immutable.  *)
PlanEdit(e, r, n, rewrite) ==
    /\ ~edit[e].open /\ status = "open" /\ edits < MaxEdits
    /\ ~rewrite => n = slots
    /\ Parses(r, n)
    /\ edit' = [edit EXCEPT ![e] = [open |-> TRUE, rewrite |-> rewrite,
                                    rule |-> r, slots |-> n]]
    /\ edits' = edits + 1
    /\ UNCHANGED <<status, rule, slots, replyVars, draftVars>>

SaveEdit(e) ==
    /\ edit[e].open
    /\ IF status = "open"
       THEN /\ rule' = edit[e].rule
            /\ slots' = IF edit[e].rewrite THEN edit[e].slots ELSE slots
       ELSE UNCHANGED <<rule, slots>>
    /\ edit' = [edit EXCEPT ![e] = NoEdit]
    /\ UNCHANGED <<status, replyVars, draftVars, edits>>

-----------------------------------------------------------------------------
(* The draw *)

Claim ==
    /\ status = "open" /\ status' = "drawing"
    /\ UNCHANGED <<rule, slots, replyVars, edit, draftVars, edits>>

(* Fault: a reader who holds two winning floors wins on both.              *)
WinsAgain(u, before, ok) == u \notin {None, Author} /\ u \in ok

Wins(u, before, ok) ==
    /\ u \notin {None, Author} /\ u \in ok
    /\ \A i \in DOMAIN before : before[i].user # u

(* Floor after floor, upwards.                                              *)
WinnersOf(replies, ok) ==
    LET take(before, r) == IF Wins(r.user, before, ok) THEN Append(before, r)
                                                       ELSE before
    IN  FoldLeft(take, <<>>, replies)

(* The rule, the replies on its floors right now, and who may be shown; a  *)
(* rule that does not parse puts the lottery back in the queue.            *)
PickFloors(ok) ==
    /\ status = "drawing" /\ ~picked
    /\ IF Parses(rule, slots)
       THEN /\ found' = [i \in 1 .. slots |->
                   LET f == FloorsOf(rule, slots)[i]
                   IN  [floor |-> f,
                        user  |-> IF f \in AllFloors /\ visible[f]
                                  THEN holder[f] ELSE None]]
            /\ ok \subseteq {found'[i].user : i \in DOMAIN found'}   \* Hydrate
            /\ winners' = WinnersOf(found', ok)
            /\ picked' = TRUE /\ renderable' = ok
            /\ UNCHANGED status
       ELSE /\ ok = {} /\ status' = "open" /\ UNCHANGED draftVars
    /\ UNCHANGED <<rule, slots, replyVars, edit, edits>>

Commit ==
    /\ status = "drawing" /\ picked
    /\ status' = "drawn"
    /\ UNCHANGED <<rule, slots, replyVars, edit, draftVars, edits>>

FloorsNext ==
    \/ \E u \in Repliers : PostBegin(u) \/ PostCommit(u)
    \/ \E f \in AllFloors : DeleteReply(f) \/ SetStatus(f)
    \/ \E e \in Editors : SaveEdit(e)
    \/ \E e \in Editors, r \in Rules, n \in SlotCounts, rewrite \in BOOLEAN :
          PlanEdit(e, r, n, rewrite)
    \/ Claim \/ (\E ok \in SUBSET Repliers : PickFloors(ok)) \/ Commit

FloorsSpec == FloorsInit /\ [][FloorsNext]_floorVars

-----------------------------------------------------------------------------
(* Properties *)

(* The winners are who a reader counting the floors of the rule finds:     *)
(* each renderable reader on a winning floor, once, on their lowest one.   *)
WinnersByCounting ==
    status = "drawn" =>
        LET onFloors == {found[i].user : i \in DOMAIN found} \cap renderable IN
        /\ {winners[i].user : i \in DOMAIN winners} = onFloors \ {None, Author}
        /\ \A i, j \in DOMAIN winners : i < j => winners[i].floor < winners[j].floor
        /\ \A i \in DOMAIN winners : \A k \in DOMAIN found :
              found[k].user = winners[i].user => winners[i].floor <= found[k].floor

(* After the draw nobody but the winner is ever found on a winning floor.  *)
CountingVerifies ==
    status = "drawn" => \A i \in DOMAIN winners :
        holder[winners[i].floor] \in {winners[i].user, None}

(* validateShape "checks the lottery as it would be stored, whatever part  *)
(* of it this request supplied": the stored rule fits the stored prizes.   *)
StoredShapeFits == Parses(rule, slots)

=============================================================================
