----------------------------- MODULE RatingMirror -----------------------------
(***************************************************************************)
(* The forum's copy of the ratings of NextMoe, for one person's ratings of *)
(* two works.                                                              *)
(*                                                                         *)
(* NextMoe is external: it keeps at most one rating of a person on a work, *)
(* hides the ratings of a deleted work until it is restored, and, when one *)
(* work is merged into another, folds the older of a person's two ratings  *)
(* until the merge is undone, for thirty days.  Its feed lists each rating *)
(* once, as it is now, by the number of its last change; every rating that *)
(* is not shown is "gone", whatever the reason.  A person who clears the   *)
(* rating of a work clears what was folded under it.                       *)
(*                                                                         *)
(* The forum keeps what NextMoe does not: the likes of a rating, here one  *)
(* like each.  The mirror must tell the ratings that may come back, which  *)
(* are held with their likes, from those their author cleared.             *)
(*                                                                         *)
(* Scores and texts are a version number.  Account purges, moderators, an  *)
(* update that changes nothing and the listing flag that spares the sweep  *)
(* some questions are left out.                                            *)
(***************************************************************************)
EXTENDS Integers, FiniteSets

CONSTANTS
    Ratings,        \* ratings of one person
    From, Into,     \* the works; the first may be merged into the second
    Home,           \* Home[r]: the work r was written about
    PageSize,       \* ratings in a full page of the feed
    MaxChanges,     \* bound on the numbers of the feed
    MaxEdits,       \* bound on the versions of a rating
    MayOvertake,    \* works and authors do not wait for the mirror to catch up
    MaxFailures     \* bound on failed calls, lost cursors and restarts

Works == {From, Into}
NoWork == "none"

ASSUME RatingBoundsOK ==
    /\ From # Into /\ NoWork \notin Works /\ Home \in [Ratings -> Works]
    /\ \A r, s \in Ratings : Home[r] = Home[s] => r = s
    /\ MayOvertake \in BOOLEAN
    /\ PageSize \in Nat \ {0} /\ {MaxChanges, MaxEdits, MaxFailures} \subseteq Nat

VARIABLES
    work,       \* NextMoe: live, deleted or merged
    young,      \* NextMoe: the merge can still be undone
    rating,     \* NextMoe: state, work, version, number of the last change
    seqno,      \* NextMoe: the last number given
    row,        \* galgame_rating: there, work, version, likes
    held,       \* galgame_rating_held: reason ("" for no row), work, likes, old
    parked,     \* galgame_rating_gone_retry: the works of ratings to ask about again
    cursor,     \* Redis: catalog:ratings:changes:cursor
    run,        \* the mirror, one run at a time (running.TryLock)
    sweep,      \* the hourly sweep of held ratings
    write,      \* a request that has NextMoe's answer and not yet written it
    liked,      \* history: ratings that have a like
    turns,      \* history: ratings of decisions the mirror has not seen
    failures

nextmoe == <<work, young, rating, seqno>>
forum == <<row, held, parked>>
history == <<liked, turns>>
vars == <<nextmoe, forum, cursor, run, sweep, write, history, failures>>

NoRow == [there |-> FALSE, work |-> From, ver |-> 0, likes |-> FALSE]
NoHold == [reason |-> "", work |-> From, likes |-> FALSE, old |-> FALSE]
NoWrite == [pc |-> "idle", ids |-> {}, work |-> From, ver |-> 0]
Unasked == [w \in Works |-> "unasked"]
Idle == [pc |-> "idle", todo |-> {}, live |-> {}, reason |-> "", fates |-> Unasked, next |-> 0]
SweepIdle == [pc |-> "idle", at |-> {}, work |-> From]

Shown(r) == rating[r].state = "live" /\ work[rating[r].work] = "live"

Mirrored(r) ==
    IF Shown(r) THEN row[r].there /\ row[r].work = rating[r].work /\ row[r].ver = rating[r].ver
    ELSE ~row[r].there

(* Some ratings are written, mirrored and liked before the feed begins.    *)
Init ==
    /\ work = [w \in Works |-> "live"] /\ young = FALSE
    /\ seqno = 0 /\ cursor = 0
    /\ liked \in SUBSET Ratings \ {{}}
    /\ rating = [r \in Ratings |->
         [state |-> IF r \in liked THEN "live" ELSE "none", work |-> Home[r], ver |-> 0, seq |-> 0]]
    /\ row = [r \in Ratings |->
         IF r \in liked THEN [there |-> TRUE, work |-> Home[r], ver |-> 0, likes |-> TRUE] ELSE NoRow]
    /\ held = [r \in Ratings |-> NoHold] /\ parked = [r \in Ratings |-> NoWork]
    /\ run = Idle /\ sweep = SweepIdle /\ write = NoWrite
    /\ turns = {}
    /\ failures = 0

Fails == failures < MaxFailures /\ failures' = failures + 1

-----------------------------------------------------------------------------
(* NextMoe *)

(* Ratings are given new states and, in any order, the next numbers.       *)
Changed(R, now) ==
    /\ seqno + Cardinality(R) <= MaxChanges /\ seqno' = seqno + Cardinality(R)
    /\ \E n \in [R -> seqno + 1 .. seqno + Cardinality(R)] :
        /\ \A r, s \in R : n[r] = n[s] => r = s
        /\ rating' = [r \in Ratings |-> IF r \in R THEN [now[r] EXCEPT !.seq = n[r]] ELSE rating[r]]

Asked == (\E w \in Works : run.fates[w] # "unasked") \/ sweep # SweepIdle
Outdated == \/ \E e \in run.todo : e.seq \notin {0, rating[e.id].seq}
            \/ \E r \in Ratings : Shown(r) /\ ~Mirrored(r)
MirrorIsBehind == turns # {} \/ Asked \/ Outdated \/ write # NoWrite

(* NextMoe takes or brings back ratings, for the forum to see.             *)
Decided(R) ==
    /\ MayOvertake \/ ~MirrorIsBehind
    /\ turns' = turns \cup R
    /\ UNCHANGED <<forum, cursor, run, sweep, write, liked, failures>>

On(w) == {r \in Ratings : rating[r].state = "live" /\ rating[r].work = w}

DeleteWork(w) ==
    /\ work[w] = "live" /\ On(w) # {} /\ work' = [work EXCEPT ![w] = "deleted"]
    /\ Changed(On(w), rating) /\ Decided(On(w))
    /\ UNCHANGED young

RestoreWork(w) ==
    /\ work[w] = "deleted" /\ work' = [work EXCEPT ![w] = "live"]
    /\ Changed(On(w), rating) /\ Decided(On(w))
    /\ UNCHANGED young

(* With a rating on each work, either may be the older.  A work without    *)
(* ratings is left alone.                                                  *)
Merge ==
    /\ work[From] = "live" /\ work[Into] = "live" /\ On(From) # {}
    /\ work' = [work EXCEPT ![From] = "merged"] /\ young' = TRUE
    /\ LET both == On(From) # {} /\ On(Into) # {}
           moves(f) == On(From) \ f IN
       \E f \in IF both THEN {{r} : r \in On(From) \cup On(Into)} ELSE {{}} :
          /\ Changed(f \cup moves(f), [r \in Ratings |->
               IF r \in f THEN [rating[r] EXCEPT !.state = "folded"]
               ELSE [rating[r] EXCEPT !.work = Into]])
          /\ Decided(f \cup moves(f))

(* Unless the survivor was deleted meanwhile, with what was folded under it. *)
Undo ==
    /\ work[From] = "merged" /\ young /\ young' = FALSE
    /\ work' = [work EXCEPT ![From] = "live"]
    /\ MayOvertake \/ work[Into] = "live"
    /\ LET back == {r \in Ratings : \/ rating[r].state = "folded"
                                    \/ rating[r].state = "live" /\ rating[r].work # Home[r]} IN
       /\ Changed(back, [r \in Ratings |-> [rating[r] EXCEPT !.state = "live", !.work = Home[r]]])
       /\ Decided(back)

(* Thirty-one days: the mirror and the requests are not behind by that much. *)
MonthPasses ==
    /\ turns = {} /\ run = Idle /\ sweep = SweepIdle /\ write = NoWrite
    /\ \A r \in Ratings : Mirrored(r)
    /\ young \/ \E r \in Ratings : held[r].reason # "" /\ ~held[r].old
    /\ young' = FALSE
    /\ held' = [r \in Ratings |-> [held[r] EXCEPT !.old = held[r].reason # ""]]
    /\ UNCHANGED <<work, rating, seqno, row, parked, cursor, run, sweep, write, history, failures>>

Current(w) == {r \in On(w) : Shown(r)}

Rated(r) ==
    /\ rating[r].state = "none" /\ Current(Home[r]) = {} /\ work[Home[r]] = "live"
    /\ Changed({r}, [rating EXCEPT ![r].state = "live"])
    /\ UNCHANGED <<work, young>>

Edited(r) ==
    /\ Shown(r) /\ rating[r].ver < MaxEdits
    /\ Changed({r}, [rating EXCEPT ![r].ver = @ + 1])
    /\ UNCHANGED <<work, young>>

(* Of a deleted work too; what was folded under the rating goes with it.    *)
Cleared(r) ==
    /\ rating[r].state = "live"
    /\ LET all == {r} \cup {s \in Ratings : rating[s].state = "folded"} IN
       Changed(all, [s \in Ratings |-> [rating[s] EXCEPT !.state = "cleared"]])
    /\ UNCHANGED <<work, young>>

(* On another site of NextMoe's; a rating written there is as one written  *)
(* here whose answer is not mirrored.                                      *)
ClearedElsewhere ==
    /\ MayOvertake \/ write = NoWrite
    /\ \E r \in Ratings : Cleared(r)
    /\ UNCHANGED <<forum, cursor, run, sweep, write, history, failures>>

-----------------------------------------------------------------------------
(* The tables *)

Held(r, reason) ==
    IF ~row[r].there \/ held[r].reason # "" THEN held[r]
    ELSE [reason |-> reason, work |-> row[r].work, likes |-> row[r].likes, old |-> FALSE]

(* Fault: a rating that is replaced is dropped, or left.                   *)
ReplacedNone(r, w) == {}
Replaced(r, w) == {s \in Ratings \ {r} : row[s].there /\ row[s].work = w}

MirrorRating(r, w, v) ==
    /\ row' = [s \in Ratings |->
        IF s = r THEN [there |-> TRUE, work |-> w, ver |-> v,
                       likes |-> (row[r].there /\ row[r].likes) \/ held[r].likes]
        ELSE IF s \in Replaced(r, w) THEN NoRow ELSE row[s]]
    /\ held' = [s \in Ratings |->
        IF s = r THEN NoHold ELSE IF s \in Replaced(r, w) THEN Held(s, "merged") ELSE held[s]]

(* Fault: what may come back is dropped.                                   *)
HoldRatingDrops(r, reason) == row' = [row EXCEPT ![r] = NoRow] /\ UNCHANGED held

HoldRating(r, reason) ==
    row' = [row EXCEPT ![r] = NoRow] /\ held' = [held EXCEPT ![r] = Held(r, reason)]

DropRating(r) == row' = [row EXCEPT ![r] = NoRow] /\ UNCHANGED held

(* Once a merge can no longer be undone.                                   *)
PurgeHeldRatings ==
    held' = [r \in Ratings |-> IF held[r].reason = "merged" /\ held[r].old THEN NoHold ELSE held[r]]

-----------------------------------------------------------------------------
(* The author on the forum *)

Answered(r, v) == write' = [pc |-> "mirror", ids |-> {r}, work |-> rating[r].work, ver |-> v]

(* createRating, updateRating: NextMoe is written first.                   *)
PutMyRating ==
    /\ write = NoWrite
    /\ MayOvertake \/ turns = {}
    /\ \/ \E r \in Ratings : Rated(r) /\ Answered(r, 0)
       \/ \E r \in Ratings : Edited(r) /\ Answered(r, rating[r].ver + 1)
    /\ UNCHANGED <<forum, cursor, run, sweep, history, failures>>

(* deleteRating: NextMoe clears the author's rating of the row's work, and *)
(* is content if there is none.                                            *)
DeleteMyRating ==
    /\ write = NoWrite
    /\ MayOvertake \/ turns = {}
    /\ \E r \in Ratings :
        /\ row[r].there
        /\ write' = [NoWrite EXCEPT !.pc = "drop", !.ids = {r}]
        /\ \/ \E c \in On(row[r].work) : Cleared(c)
           \/ On(row[r].work) = {} /\ UNCHANGED nextmoe
    /\ UNCHANGED <<forum, cursor, run, sweep, history, failures>>

WriteThrough ==
    \E r \in write.ids :
        /\ \/ write.pc = "mirror" /\ MirrorRating(r, write.work, write.ver)
           \/ write.pc = "drop" /\ DropRating(r)
        /\ write' = NoWrite
        /\ UNCHANGED <<nextmoe, parked, cursor, run, sweep, history, failures>>

(* The database refuses, and the mirror is to bring the rating.            *)
WriteFails ==
    /\ write # NoWrite /\ write' = NoWrite
    /\ UNCHANGED <<nextmoe, forum, cursor, run, sweep, history, failures>>

-----------------------------------------------------------------------------
(* RatingMirror.Run *)

Entry(r) == [id |-> r, gone |-> ~Shown(r), work |-> rating[r].work, ver |-> rating[r].ver,
             seq |-> rating[r].seq, own |-> NoWork]
Parked(r) == [id |-> r, gone |-> TRUE, work |-> parked[r], ver |-> 0, seq |-> 0, own |-> NoWork]

(* Fault: a parked rating is never asked about again.                      *)
AllParkedNone == {}

AllParked == {Parked(r) : r \in {s \in Ratings : parked[s] # NoWork}}

RetryGone ==
    /\ run.pc = "idle" /\ AllParked # {}
    /\ run' = [Idle EXCEPT !.pc = "retry", !.todo = AllParked]
    /\ UNCHANGED <<nextmoe, forum, cursor, sweep, write, history, failures>>

Ahead == {r \in Ratings : rating[r].seq > cursor}

(* Only a full page carries a cursor.                                      *)
RatingChanges ==
    /\ \/ run.pc \in {"retry", "next"} /\ run.todo = {}
       \/ run.pc = "idle" /\ AllParked = {}
    /\ \E first \in SUBSET Ahead :
        /\ Cardinality(first) <= PageSize
        /\ Cardinality(first) < PageSize => first = Ahead
        /\ \A r \in first, s \in Ahead : rating[s].seq <= rating[r].seq => s \in first
        /\ \E n \in 0 .. seqno :
            /\ IF Cardinality(first) < PageSize THEN n = 0
               ELSE (\E r \in first : n = rating[r].seq) /\ \A r \in first : rating[r].seq <= n
            /\ run' = [Idle EXCEPT !.pc = "page", !.todo = {Entry(r) : r \in first}, !.next = n,
                         !.live = {[id |-> r, work |-> rating[r].work] : r \in {s \in first : Shown(s)}}]
    /\ UNCHANGED <<nextmoe, forum, cursor, sweep, write, history, failures>>

(* The next entry: the first of a page, any of those to be retried.        *)
Now(e) == run.reason = "" /\ e \in run.todo /\ \A f \in run.todo : e.seq <= f.seq

Handled(e) ==
    /\ run' = [run EXCEPT !.todo = {f \in @ : f.id # e.id}, !.reason = ""]
    /\ turns' = IF e.seq \in {0, rating[e.id].seq} THEN turns \ {e.id} ELSE turns
    /\ UNCHANGED <<nextmoe, cursor, sweep, write, liked, failures>>

Upsert ==
    \E e \in run.todo :
        /\ Now(e) /\ ~e.gone
        /\ MirrorRating(e.id, e.work, e.ver)
        /\ UNCHANGED parked /\ Handled(e)

Unpark(r) == parked' = [parked EXCEPT ![r] = NoWork]

(* RatingOwner finds no row.                                               *)
GoneUnknown ==
    \E e \in run.todo :
        /\ Now(e) /\ e.gone /\ e.own = NoWork /\ ~row[e.id].there
        /\ Unpark(e.id) /\ UNCHANGED <<row, held>> /\ Handled(e)

(* What catalog says of a work: deleted, merged, or neither.               *)
Fate(w) == IF work[w] = "live" THEN "" ELSE work[w]

(* Of the entry at hand, once in a page for each work.                     *)
WorkFate ==
    /\ \E e \in run.todo :
        /\ Now(e) /\ e.gone /\ row[e.id].there
        /\ LET fate == IF run.fates[e.work] = "unasked" THEN Fate(e.work) ELSE run.fates[e.work]
               own == row[e.id].work
               newer == \E l \in run.live : l.work = own /\ l.id # e.id IN
           run' = [run EXCEPT !.todo = (@ \ {e}) \cup {[e EXCEPT !.own = own]},
                   !.fates[e.work] = fate,
                   !.reason = IF fate # "" THEN fate ELSE IF newer THEN "merged" ELSE "current"]
    /\ UNCHANGED <<nextmoe, forum, cursor, sweep, write, history, failures>>

Owned(e) == e \in run.todo /\ e.own # NoWork

CurrentRating ==
    /\ \E e \in run.todo :
        /\ Owned(e) /\ run.reason = "current"
        /\ run' = [run EXCEPT !.reason =
             IF e.id \in Current(e.own) THEN "live"
             ELSE IF Current(e.own) # {} THEN "merged" ELSE "cleared"]
    /\ UNCHANGED <<nextmoe, forum, cursor, sweep, write, history, failures>>

(* Catalog does not answer: the rating is parked.                          *)
ParkGoneRating ==
    \E e \in run.todo :
        /\ \/ Owned(e) /\ run.reason = "current"
           \/ Now(e) /\ e.gone /\ row[e.id].there /\ run.fates[e.work] = "unasked"
        /\ Fails
        /\ parked' = [parked EXCEPT ![e.id] = e.work]
        /\ run' = [run EXCEPT !.todo = @ \ {e}, !.reason = ""]
        /\ UNCHANGED <<nextmoe, row, held, cursor, sweep, write, history>>

SettleGone ==
    \E e \in run.todo :
        /\ Owned(e)
        /\ \/ run.reason = "live" /\ UNCHANGED <<row, held>>
           \/ run.reason \in {"deleted", "merged"} /\ HoldRating(e.id, run.reason)
           \/ run.reason = "cleared" /\ DropRating(e.id)
        /\ Unpark(e.id) /\ Handled(e)

Advance ==
    /\ run.pc = "page" /\ run.todo = {} /\ run.next # 0
    /\ run' = [Idle EXCEPT !.pc = "next"] /\ cursor' = run.next
    /\ UNCHANGED <<nextmoe, forum, sweep, write, history, failures>>

(* After the last page, or when a call, a write, the cursor or the process *)
(* fails.                                                                  *)
Ends ==
    /\ run' = Idle /\ PurgeHeldRatings
    /\ \/ run.pc = "page" /\ run.todo = {} /\ run.next = 0 /\ UNCHANGED failures
       \/ run.pc # "idle" /\ Fails
    /\ UNCHANGED <<nextmoe, row, parked, cursor, sweep, write, history>>

CursorLost ==
    /\ cursor # 0 /\ Fails /\ cursor' = 0
    /\ UNCHANGED <<nextmoe, forum, run, sweep, write, history>>

Run == RetryGone \/ RatingChanges \/ Upsert \/ GoneUnknown \/ WorkFate \/ CurrentRating
       \/ SettleGone \/ Advance \/ Ends

-----------------------------------------------------------------------------
(* HeldRatingSweep.Run *)

(* One hold; a run is a series of these, with holds and fates read before. *)
SweepStarts(r) ==
    /\ sweep = SweepIdle /\ held[r].reason = "deleted"
    /\ sweep' = [pc |-> "fate", at |-> {r}, work |-> held[r].work]
    /\ UNCHANGED <<nextmoe, forum, cursor, run, write, history, failures>>

(* A work catalog cannot answer about is taken for deleted.                *)
SweepAsksFate ==
    /\ sweep.pc = "fate"
    /\ \/ Fate(sweep.work) = "" /\ sweep' = [sweep EXCEPT !.pc = "current"] /\ UNCHANGED failures
       \/ Fate(sweep.work) # "" /\ sweep' = SweepIdle /\ UNCHANGED failures
       \/ sweep' = SweepIdle /\ Fails
    /\ UNCHANGED <<nextmoe, forum, cursor, run, write, history>>

SweepAsksCurrent ==
    /\ sweep.pc = "current"
    /\ \/ sweep.at \cap Current(sweep.work) = {} /\ sweep' = [sweep EXCEPT !.pc = "drop"] /\ UNCHANGED failures
       \/ sweep.at \subseteq Current(sweep.work) /\ sweep' = SweepIdle /\ UNCHANGED failures
       \/ sweep' = SweepIdle /\ Fails
    /\ UNCHANGED <<nextmoe, forum, cursor, run, write, history>>

(* The hold may have been written back, or held again, meanwhile.          *)
DropDeletedHold ==
    /\ sweep.pc = "drop" /\ sweep' = SweepIdle
    /\ held' = [r \in Ratings |-> IF r \in sweep.at /\ held[r].reason = "deleted" THEN NoHold ELSE held[r]]
    /\ UNCHANGED <<nextmoe, row, parked, cursor, run, write, history, failures>>

Sweep == (\E r \in Ratings : SweepStarts(r)) \/ SweepAsksFate \/ SweepAsksCurrent \/ DropDeletedHold

-----------------------------------------------------------------------------
NextMoe ==
    \/ \E w \in Works : DeleteWork(w) \/ RestoreWork(w)
    \/ Merge \/ Undo \/ MonthPasses \/ ClearedElsewhere

Next ==
    \/ NextMoe
    \/ PutMyRating \/ DeleteMyRating \/ WriteThrough \/ WriteFails
    \/ Run \/ ParkGoneRating \/ CursorLost
    \/ Sweep

(* The mirror runs every few minutes, and the sweep visits every hold each *)
(* hour; a request goes on.                                                *)
Fairness ==
    /\ WF_vars(Run) /\ WF_vars(Sweep) /\ WF_vars(WriteThrough)
    /\ \A r \in Ratings : SF_vars(SweepStarts(r))

Spec == Init /\ [][Next]_vars /\ Fairness

-----------------------------------------------------------------------------
(* Properties *)

Numbers == 0 .. MaxChanges
MaybeWork == Works \cup {NoWork}
Entries == [id : Ratings, gone : BOOLEAN, work : Works, ver : 0 .. MaxEdits, seq : Numbers, own : MaybeWork]
Fates == {"unasked", "", "deleted", "merged"}
Pairs == [id : Ratings, work : Works]

(* Every variable keeps its type, no two rows are of one work, as the      *)
(* unique key of galgame_rating demands, and no rating is both listed and  *)
(* held.                                                                   *)
TypeOK ==
    /\ work \in [Works -> {"live", "deleted", "merged"}] /\ young \in BOOLEAN
    /\ rating \in [Ratings -> [state : {"none", "live", "folded", "cleared"}, work : Works,
                               ver : 0 .. MaxEdits, seq : Numbers]]
    /\ seqno \in Numbers /\ cursor \in Numbers
    /\ row \in [Ratings -> [there : BOOLEAN, work : Works, ver : 0 .. MaxEdits, likes : BOOLEAN]]
    /\ held \in [Ratings -> [reason : {"", "deleted", "merged"}, work : Works, likes : BOOLEAN, old : BOOLEAN]]
    /\ parked \in [Ratings -> MaybeWork]
    /\ run \in [pc : {"idle", "retry", "page", "next"}, todo : SUBSET Entries, live : SUBSET Pairs,
                reason : {"", "current", "live", "deleted", "merged", "cleared"},
                fates : [Works -> Fates], next : Numbers]
    /\ sweep \in [pc : {"idle", "fate", "current", "drop"}, at : SUBSET Ratings, work : Works]
    /\ write \in [pc : {"idle", "mirror", "drop"}, ids : SUBSET Ratings, work : Works, ver : 0 .. MaxEdits]
    /\ {liked, turns} \subseteq SUBSET Ratings /\ failures \in Nat
    /\ \A r, s \in Ratings : row[r].there /\ row[s].there /\ row[r].work = row[s].work => r = s
    /\ \A r \in Ratings : row[r].there => held[r].reason = ""

MayComeBack(r) == rating[r].state = "live" \/ (rating[r].state = "folded" /\ young)

(* "the last two come back when the deletion or merge is undone, so they   *)
(* are held, not dropped": whatever NextMoe has, or may send back, has its *)
(* likes on the forum.                                                     *)
LikesSurvive ==
    \A r \in liked : MayComeBack(r) => row[r].likes \/ held[r].likes

(* "RatingMirror keeps galgame_rating equal to NextMoe's ratings": in the  *)
(* end the forum shows what NextMoe shows, and holds nothing for a deleted *)
(* work that is back.                                                      *)
Converges ==
    <>[]\A r \in Ratings :
        /\ Mirrored(r)
        /\ held[r].reason = "deleted" => work[held[r].work] # "live"
=============================================================================
