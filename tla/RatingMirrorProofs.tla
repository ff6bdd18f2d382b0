------------------------- MODULE RatingMirrorProofs -------------------------
(***************************************************************************)
(* Proofs about RatingMirror, for any page size and bounds.                *)
(***************************************************************************)
EXTENDS RatingMirror, FiniteSetTheorems, FunctionTheorems, TLAPS

RatingRecords == [state : {"none", "live", "folded", "cleared"}, work : Works,
                  ver : 0 .. MaxEdits, seq : Numbers]
Rows  == [there : BOOLEAN, work : Works, ver : 0 .. MaxEdits, likes : BOOLEAN]
Holds == [reason : {"", "deleted", "merged"}, work : Works, likes : BOOLEAN, old : BOOLEAN]
Runs  == [pc : {"idle", "retry", "page", "next"}, todo : SUBSET Entries, live : SUBSET Pairs,
          reason : {"", "current", "live", "deleted", "merged", "cleared"},
          fates : [Works -> Fates], next : Numbers]
Sweeps == [pc : {"idle", "fate", "current", "drop"}, at : SUBSET Ratings, work : Works]
Writes == [pc : {"idle", "mirror", "drop"}, ids : SUBSET Ratings, work : Works, ver : 0 .. MaxEdits]

NextMoeTyped == /\ work \in [Works -> {"live", "deleted", "merged"}] /\ young \in BOOLEAN
                /\ rating \in [Ratings -> RatingRecords] /\ seqno \in Numbers
TablesTyped  == /\ row \in [Ratings -> Rows] /\ held \in [Ratings -> Holds]
                /\ parked \in [Ratings -> MaybeWork]
OneRow       == \A r, s \in Ratings :
                   row[r].there /\ row[s].there /\ row[r].work = row[s].work => r = s
NotBoth      == \A r \in Ratings : row[r].there => held[r].reason = ""
StepsTyped   == /\ cursor \in Numbers /\ run \in Runs /\ sweep \in Sweeps /\ write \in Writes
                /\ {liked, turns} \subseteq SUBSET Ratings /\ failures \in Nat

LEMMA TypeParts ==
  /\ TypeOK <=> NextMoeTyped /\ TablesTyped /\ OneRow /\ NotBoth /\ StepsTyped
  /\ TypeOK' <=> NextMoeTyped' /\ TablesTyped' /\ OneRow' /\ NotBoth' /\ StepsTyped'
BY DEF TypeOK, NextMoeTyped, TablesTyped, OneRow, NotBoth, StepsTyped, RatingRecords, Rows, Holds,
       Runs, Sweeps, Writes

LEMMA Bounds ==
  /\ PageSize \in Nat \ {0} /\ MaxChanges \in Nat /\ MaxEdits \in Nat /\ MaxFailures \in Nat
  /\ From # Into /\ From \in Works /\ Into \in Works /\ NoWork \notin Works /\ \A r \in Ratings : Home[r] \in Works
  /\ \A r, s \in Ratings : Home[r] = Home[s] => r = s
BY RatingBoundsOK DEF Works

(* One rating at most of each work, so there are two.                      *)
LEMMA FewRatings ==
  \A R \in SUBSET Ratings : IsFiniteSet(R) /\ Cardinality(R) \in Nat
<1>1. IsFiniteSet(Works)
  <2>1. IsFiniteSet({From}) /\ IsFiniteSet({Into})
    BY FS_Singleton
  <2>2. Works = {From} \cup {Into}
    BY DEF Works
  <2> QED BY <2>1, <2>2, FS_Union
<1>2. Home \in Injection(Ratings, Works)
  BY RatingBoundsOK DEF Injection, IsInjective
<1>3. IsFiniteSet(Ratings)
  BY <1>1, <1>2, FS_Injection
<1> QED
  BY <1>3, FS_Subset, FS_CardinalityType

(* What Changed leaves of the ratings in R, and of the others.             *)
Renewed(R, now) ==
    /\ seqno' \in Numbers /\ seqno' >= seqno
    /\ rating' \in [Ratings -> RatingRecords]
    /\ \A r \in Ratings \ R : rating'[r] = rating[r]
    /\ \A r \in R :
         /\ rating'[r].state = now[r].state /\ rating'[r].work = now[r].work
         /\ rating'[r].ver = now[r].ver
         /\ rating'[r].seq > seqno /\ rating'[r].seq <= seqno'

LEMMA ChangedRenews ==
  ASSUME NextMoeTyped, NEW R \in SUBSET Ratings, NEW now, \A r \in R : now[r] \in RatingRecords,
         Changed(R, now)
  PROVE  Renewed(R, now)
<1> DEFINE c == Cardinality(R)
<1>1. c \in Nat /\ seqno \in Nat /\ seqno <= MaxChanges /\ MaxChanges \in Nat
  BY FewRatings, Bounds DEF NextMoeTyped, Numbers
<1>2. seqno' = seqno + c /\ seqno + c <= MaxChanges
  BY DEF Changed
<1>3. PICK n \in [R -> seqno + 1 .. seqno + c] :
        rating' = [r \in Ratings |-> IF r \in R THEN [now[r] EXCEPT !.seq = n[r]] ELSE rating[r]]
  BY DEF Changed
<1> HIDE DEF c
<1>4. \A r \in R : n[r] \in Numbers /\ n[r] > seqno /\ n[r] <= seqno'
  BY <1>1, <1>2, <1>3 DEF Numbers
<1>5. ASSUME NEW r \in R
      PROVE  /\ rating'[r] = [now[r] EXCEPT !.seq = n[r]] /\ rating'[r] \in RatingRecords
             /\ rating'[r].state = now[r].state /\ rating'[r].work = now[r].work
             /\ rating'[r].ver = now[r].ver /\ rating'[r].seq = n[r]
  <2>1. rating'[r] = [now[r] EXCEPT !.seq = n[r]]
    BY <1>3
  <2>2. now[r] \in RatingRecords /\ n[r] \in Numbers
    BY <1>4
  <2> QED BY <2>1, <2>2 DEF RatingRecords
<1>6. \A r \in Ratings \ R : rating'[r] = rating[r] /\ rating[r] \in RatingRecords
  BY <1>3 DEF NextMoeTyped
<1>7. rating' \in [Ratings -> RatingRecords]
  BY <1>3, <1>5, <1>6
<1>8. seqno' \in Numbers /\ seqno' >= seqno
  BY <1>1, <1>2 DEF Numbers
<1> QED
  BY <1>4, <1>5, <1>6, <1>7, <1>8 DEF Renewed

-----------------------------------------------------------------------------
(* Types *)

LEMMA NextMoeTypes ==
  ASSUME TypeOK, NextMoe
  PROVE  TypeOK'
<1> USE DEF TablesTyped, OneRow, NotBoth
<1>0. NextMoeTyped /\ TablesTyped /\ OneRow /\ NotBoth /\ StepsTyped
  BY TypeParts
<1>1. ASSUME NEW w \in Works, DeleteWork(w) \/ RestoreWork(w)
      PROVE  TypeOK'
  <2>1. On(w) \in SUBSET Ratings /\ \A r \in On(w) : rating[r] \in RatingRecords
    BY <1>0 DEF On, NextMoeTyped
  <2>2. Changed(On(w), rating) /\ Decided(On(w)) /\ young' = young
        /\ work' \in [Works -> {"live", "deleted", "merged"}]
    BY <1>0, <1>1 DEF DeleteWork, RestoreWork, NextMoeTyped
  <2>3. NextMoeTyped'
    BY <1>0, <2>1, <2>2, ChangedRenews DEF Renewed, NextMoeTyped
  <2> QED BY <1>0, <2>1, <2>2, <2>3, TypeParts DEF Decided, StepsTyped, forum
<1>2. ASSUME NEW R \in SUBSET Ratings, NEW now, \A r \in R : now[r] \in RatingRecords,
             Changed(R, now), Decided(R), young' \in BOOLEAN,
             work' \in [Works -> {"live", "deleted", "merged"}]
      PROVE  TypeOK'
  <2>1. NextMoeTyped'
    BY <1>0, <1>2, ChangedRenews DEF Renewed, NextMoeTyped
  <2> QED BY <1>0, <1>2, <2>1, TypeParts DEF Decided, StepsTyped, forum
<1>3. CASE Merge
  <2>1. work' \in [Works -> {"live", "deleted", "merged"}] /\ young' \in BOOLEAN
    BY <1>0, <1>3 DEF Merge, NextMoeTyped
  <2>2. \A w : On(w) \in SUBSET Ratings
    BY DEF On
  <2>3. PICK f \in IF On(From) # {} /\ On(Into) # {} THEN {{r} : r \in On(From) \cup On(Into)}
                   ELSE {{}} :
          LET R == f \cup (On(From) \ f) IN
          /\ Changed(R, [r \in Ratings |->
               IF r \in f THEN [rating[r] EXCEPT !.state = "folded"]
               ELSE [rating[r] EXCEPT !.work = Into]])
          /\ Decided(R)
    BY <1>3 DEF Merge
  <2> DEFINE R == f \cup (On(From) \ f)
             now == [r \in Ratings |-> IF r \in f THEN [rating[r] EXCEPT !.state = "folded"]
                                       ELSE [rating[r] EXCEPT !.work = Into]]
  <2>4. R \in SUBSET Ratings
    BY <2>2, <2>3
  <2>5. \A r \in Ratings : /\ [rating[r] EXCEPT !.state = "folded"] \in RatingRecords
                           /\ [rating[r] EXCEPT !.work = Into] \in RatingRecords
    BY <1>0, Bounds DEF NextMoeTyped, RatingRecords
  <2>6. \A r \in R : now[r] \in RatingRecords
    BY <2>4, <2>5
  <2>7. Changed(R, now) /\ Decided(R)
    BY <2>3
  <2> HIDE DEF R, now
  <2> QED BY <1>2, <2>1, <2>4, <2>6, <2>7
<1>4. CASE Undo
  <2> DEFINE R == {r \in Ratings : \/ rating[r].state = "folded"
                                   \/ rating[r].state = "live" /\ rating[r].work # Home[r]}
             now == [r \in Ratings |-> [rating[r] EXCEPT !.state = "live", !.work = Home[r]]]
  <2>1. work' \in [Works -> {"live", "deleted", "merged"}] /\ young' \in BOOLEAN
    BY <1>0, <1>4 DEF Undo, NextMoeTyped
  <2>2. \A r \in R : now[r] \in RatingRecords
    BY <1>0, Bounds DEF NextMoeTyped, RatingRecords
  <2>3. Changed(R, now) /\ Decided(R)
    BY <1>4 DEF Undo
  <2> HIDE DEF now
  <2> QED BY <1>2, <2>1, <2>2, <2>3
<1>5. CASE MonthPasses
  <2>1. UNCHANGED <<work, rating, seqno, row, parked, cursor, run, sweep, write, liked, turns, failures>>
        /\ young' \in BOOLEAN
    BY <1>5 DEF MonthPasses, history
  <2>2. held' = [r \in Ratings |-> [held[r] EXCEPT !.old = held[r].reason # ""]]
    BY <1>5 DEF MonthPasses
  <2>3. \A r \in Ratings : held'[r] \in Holds /\ held'[r].reason = held[r].reason
    BY <1>0, <2>2 DEF Holds
  <2>4. held' \in [Ratings -> Holds]
    BY <2>2, <2>3
  <2>5. NextMoeTyped' /\ TablesTyped' /\ StepsTyped'
    BY <1>0, <2>1, <2>4 DEF NextMoeTyped, StepsTyped
  <2>6. OneRow' /\ NotBoth'
    BY <1>0, <2>1, <2>3
  <2> QED BY <2>5, <2>6, TypeParts
<1>6. CASE ClearedElsewhere
  <2>1. PICK r \in Ratings : Cleared(r)
    BY <1>6 DEF ClearedElsewhere
  <2> DEFINE R == {r} \cup {s \in Ratings : rating[s].state = "folded"}
             now == [s \in Ratings |-> [rating[s] EXCEPT !.state = "cleared"]]
  <2>2. Changed(R, now) /\ work' = work /\ young' = young
    BY <2>1 DEF Cleared
  <2>3. R \in SUBSET Ratings /\ \A s \in R : now[s] \in RatingRecords
    BY <1>0 DEF NextMoeTyped, RatingRecords
  <2> HIDE DEF R, now
  <2>4. NextMoeTyped'
    BY <1>0, <2>2, <2>3, ChangedRenews DEF Renewed, NextMoeTyped
  <2> QED BY <1>0, <1>6, <2>4, TypeParts DEF ClearedElsewhere, StepsTyped, forum, history
<1> QED
  BY <1>1, <1>3, <1>4, <1>5, <1>6 DEF NextMoe

(* The author's changes at NextMoe.                                        *)
LEMMA AuthorTypes ==
  ASSUME TypeOK, NEW r \in Ratings, Rated(r) \/ Edited(r) \/ Cleared(r)
  PROVE  NextMoeTyped' /\ UNCHANGED <<work, young>>
<1>0. NextMoeTyped
  BY TypeParts
<1>1. UNCHANGED <<work, young>>
  BY DEF Rated, Edited, Cleared
<1>2. CASE Rated(r)
  <2> DEFINE now == [rating EXCEPT ![r].state = "live"]
  <2>1. Changed({r}, now) /\ {r} \in SUBSET Ratings
    BY <1>2 DEF Rated
  <2>2. \A s \in {r} : now[s] \in RatingRecords
    BY <1>0 DEF NextMoeTyped, RatingRecords
  <2> HIDE DEF now
  <2> QED BY <1>0, <1>1, <2>1, <2>2, ChangedRenews DEF Renewed, NextMoeTyped
<1>3. CASE Edited(r)
  <2> DEFINE now == [rating EXCEPT ![r].ver = @ + 1]
  <2>1. Changed({r}, now) /\ {r} \in SUBSET Ratings
    BY <1>3 DEF Edited
  <2>2. rating[r].ver \in 0 .. MaxEdits /\ rating[r].ver < MaxEdits /\ MaxEdits \in Nat
    BY <1>0, <1>3, Bounds DEF Edited, NextMoeTyped, RatingRecords
  <2>3. rating[r].ver + 1 \in 0 .. MaxEdits
    BY <2>2
  <2>4. \A s \in {r} : now[s] \in RatingRecords
    BY <1>0, <2>3 DEF NextMoeTyped, RatingRecords
  <2> HIDE DEF now
  <2> QED BY <1>0, <1>1, <2>1, <2>4, ChangedRenews DEF Renewed, NextMoeTyped
<1>4. CASE Cleared(r)
  <2> DEFINE R == {r} \cup {s \in Ratings : rating[s].state = "folded"}
             now == [s \in Ratings |-> [rating[s] EXCEPT !.state = "cleared"]]
  <2>1. Changed(R, now)
    BY <1>4 DEF Cleared
  <2>2. R \in SUBSET Ratings /\ \A s \in R : now[s] \in RatingRecords
    BY <1>0 DEF NextMoeTyped, RatingRecords
  <2> HIDE DEF R, now
  <2> QED BY <1>0, <1>1, <2>1, <2>2, ChangedRenews DEF Renewed, NextMoeTyped
<1> QED
  BY <1>2, <1>3, <1>4

LEMMA MirrorTypes ==
  ASSUME TablesTyped, OneRow, NotBoth, NEW r \in Ratings, NEW w \in Works, NEW v \in 0 .. MaxEdits,
         MirrorRating(r, w, v)
  PROVE  /\ row' \in [Ratings -> Rows] /\ held' \in [Ratings -> Holds] /\ OneRow' /\ NotBoth'
         /\ row'[r].there /\ row'[r].work = w /\ held'[r] = NoHold
         /\ row'[r].likes = ((row[r].there /\ row[r].likes) \/ held[r].likes)
         /\ \A s \in Ratings \ {r} :
              \/ /\ row[s].there /\ row[s].work = w /\ row'[s] = NoRow
                 /\ held'[s] = [reason |-> "merged", work |-> row[s].work, likes |-> row[s].likes,
                                old |-> FALSE]
              \/ /\ ~(row[s].there /\ row[s].work = w)
                 /\ row'[s] = row[s] /\ held'[s] = held[s]
<1>1. row'[r] = [there |-> TRUE, work |-> w, ver |-> v,
                 likes |-> (row[r].there /\ row[r].likes) \/ held[r].likes]
      /\ held'[r] = NoHold
  BY DEF MirrorRating
<1>2. \A s \in Ratings \ {r} :
        /\ row'[s] = IF s \in Replaced(r, w) THEN NoRow ELSE row[s]
        /\ held'[s] = IF s \in Replaced(r, w) THEN Held(s, "merged") ELSE held[s]
  BY DEF MirrorRating
<1>3. \A s \in Replaced(r, w) :
        Held(s, "merged") = [reason |-> "merged", work |-> row[s].work, likes |-> row[s].likes,
                             old |-> FALSE]
  BY DEF Held, Replaced, NotBoth
<1>4. \A s \in Ratings \ {r} :
              \/ /\ row[s].there /\ row[s].work = w /\ row'[s] = NoRow
                 /\ held'[s] = [reason |-> "merged", work |-> row[s].work, likes |-> row[s].likes,
                                old |-> FALSE]
              \/ /\ ~(row[s].there /\ row[s].work = w)
                 /\ row'[s] = row[s] /\ held'[s] = held[s]
  BY <1>2, <1>3 DEF Replaced
<1>5. NoRow \in Rows /\ NoHold \in Holds
  BY Bounds DEF NoRow, NoHold, Rows, Holds
<1>6. \A s \in Ratings : /\ row[s] \in Rows /\ held[s] \in Holds
  BY DEF TablesTyped
<1>7. row'[r] \in Rows
  <2>1. ((row[r].there /\ row[r].likes) \/ held[r].likes) \in BOOLEAN
    OBVIOUS
  <2> QED BY <1>1, <2>1 DEF Rows
<1>8. ASSUME NEW s \in Ratings \ {r}
      PROVE  row'[s] \in Rows /\ held'[s] \in Holds
  <2>1. [reason |-> "merged", work |-> row[s].work, likes |-> row[s].likes, old |-> FALSE] \in Holds
    BY <1>6 DEF Rows, Holds
  <2> QED BY <1>4, <1>5, <1>6, <2>1
<1>9. row' \in [Ratings -> Rows] /\ held' \in [Ratings -> Holds]
  <2>1. row' = [s \in Ratings |-> row'[s]] /\ held' = [s \in Ratings |-> held'[s]]
    BY DEF MirrorRating
  <2> QED BY <1>1, <1>5, <1>7, <1>8, <2>1
<1>10. OneRow' /\ NotBoth'
  <2>1. row'[r].there /\ row'[r].work = w /\ held'[r].reason = ""
    <3>1. NoHold.reason = ""
      BY DEF NoHold
    <3>2. held'[r] = NoHold
      BY <1>1
    <3>3. row'[r] = [there |-> TRUE, work |-> w, ver |-> v,
                     likes |-> (row[r].there /\ row[r].likes) \/ held[r].likes]
      BY <1>1
    <3>4. row'[r].there = TRUE /\ row'[r].work = w
      BY <3>3
    <3> QED BY <3>1, <3>2, <3>4
  <2>2. ASSUME NEW s \in Ratings \ {r}, row'[s].there
        PROVE  row'[s] = row[s] /\ held'[s] = held[s] /\ row[s].work # w
    <3>1. NoRow.there = FALSE
      BY DEF NoRow
    <3>2. row'[s] # NoRow
      BY <2>2, <3>1
    <3>3. row'[s] = row[s] /\ held'[s] = held[s] /\ ~(row[s].there /\ row[s].work = w)
      BY <1>4, <3>2
    <3> QED BY <2>2, <3>3
  <2>3. OneRow'
    BY <2>1, <2>2 DEF OneRow
  <2>4. NotBoth'
    BY <2>1, <2>2 DEF NotBoth
  <2> QED BY <2>3, <2>4
<1>11. /\ row'[r].there /\ row'[r].work = w
       /\ row'[r].likes = ((row[r].there /\ row[r].likes) \/ held[r].likes)
  BY <1>1
<1> QED
  BY <1>1, <1>4, <1>9, <1>10, <1>11

(* A row that goes, with or without a hold.                                *)
LEMMA GoneTypes ==
  ASSUME TablesTyped, OneRow, NotBoth, NEW r \in Ratings,
         (\E reason \in {"deleted", "merged"} : HoldRating(r, reason)) \/ DropRating(r)
  PROVE  /\ row' \in [Ratings -> Rows] /\ held' \in [Ratings -> Holds] /\ OneRow' /\ NotBoth'
         /\ row'[r] = NoRow
         /\ \A s \in Ratings \ {r} : row'[s] = row[s] /\ held'[s] = held[s]
<1>1. NoRow \in Rows
  BY Bounds DEF NoRow, Rows
<1>2. row' = [row EXCEPT ![r] = NoRow]
  BY DEF HoldRating, DropRating
<1>3. row' \in [Ratings -> Rows] /\ row'[r] = NoRow /\ \A s \in Ratings \ {r} : row'[s] = row[s]
  BY <1>1, <1>2 DEF TablesTyped
<1>4. held' \in [Ratings -> Holds] /\ \A s \in Ratings \ {r} : held'[s] = held[s]
  <2>1. CASE DropRating(r)
    BY <2>1 DEF DropRating, TablesTyped
  <2>2. ASSUME NEW reason \in {"deleted", "merged"}, HoldRating(r, reason)
        PROVE  held' \in [Ratings -> Holds] /\ \A s \in Ratings \ {r} : held'[s] = held[s]
    <3>1. row[r] \in Rows /\ held[r] \in Holds
      BY DEF TablesTyped
    <3>2. Held(r, reason) \in Holds
      BY <3>1 DEF Held, Holds, Rows
    <3> QED BY <2>2, <3>2 DEF HoldRating, TablesTyped
  <2> QED BY <2>1, <2>2
<1>5. OneRow' /\ NotBoth'
  <2>1. ~row'[r].there
    BY <1>3 DEF NoRow
  <2>2. OneRow'
    BY <1>3, <2>1 DEF OneRow
  <2>3. NotBoth'
    BY <1>3, <1>4, <2>1 DEF NotBoth
  <2> QED BY <2>2, <2>3
<1> QED
  BY <1>3, <1>4, <1>5

LEMMA WriteTypes ==
  ASSUME TypeOK, PutMyRating \/ DeleteMyRating \/ WriteThrough \/ WriteFails
  PROVE  TypeOK'
<1>0. NextMoeTyped /\ TablesTyped /\ OneRow /\ NotBoth /\ StepsTyped
  BY TypeParts
<1>9. NoWrite \in Writes
  BY Bounds DEF NoWrite, Writes
<1> USE DEF TablesTyped, OneRow, NotBoth
<1>1. CASE PutMyRating
  <2>1. UNCHANGED <<row, held, parked, cursor, run, sweep, liked, turns, failures>>
    BY <1>1 DEF PutMyRating, forum, history
  <2>2. PICK r \in Ratings : \/ Rated(r) /\ Answered(r, 0)
                             \/ Edited(r) /\ Answered(r, rating[r].ver + 1)
    <3>1. CASE \E r \in Ratings : Rated(r) /\ Answered(r, 0)
      BY <3>1
    <3>2. CASE \E r \in Ratings : Edited(r) /\ Answered(r, rating[r].ver + 1)
      BY <3>2
    <3> QED BY <1>1, <3>1, <3>2 DEF PutMyRating
  <2>3. NextMoeTyped'
    BY <2>2, AuthorTypes
  <2>4. rating[r] \in RatingRecords /\ MaxEdits \in Nat
    BY <1>0, Bounds DEF NextMoeTyped
  <2>5. write' \in Writes
    <3>1. CASE Rated(r) /\ Answered(r, 0)
      BY <2>4, <3>1 DEF Answered, Writes, RatingRecords
    <3>2. CASE Edited(r) /\ Answered(r, rating[r].ver + 1)
      <4>1. rating[r].ver + 1 \in 0 .. MaxEdits
        BY <2>4, <3>2 DEF Edited, RatingRecords
      <4> QED BY <2>4, <3>2, <4>1 DEF Answered, Writes, RatingRecords
    <3> QED BY <2>2, <3>1, <3>2
  <2> QED BY <1>0, <2>1, <2>3, <2>5, TypeParts DEF StepsTyped
<1>2. CASE DeleteMyRating
  <2>1. UNCHANGED <<row, held, parked, cursor, run, sweep, liked, turns, failures>>
    BY <1>2 DEF DeleteMyRating, forum, history
  <2>2. PICK r \in Ratings :
          /\ write' = [NoWrite EXCEPT !.pc = "drop", !.ids = {r}]
          /\ (\E c \in On(row[r].work) : Cleared(c)) \/ UNCHANGED nextmoe
    BY <1>2 DEF DeleteMyRating
  <2>3. NextMoeTyped'
    <3>1. CASE UNCHANGED nextmoe
      BY <1>0, <3>1 DEF nextmoe, NextMoeTyped
    <3>2. CASE \E c \in On(row[r].work) : Cleared(c)
      BY <3>2, AuthorTypes DEF On
    <3> QED BY <2>2, <3>1, <3>2
  <2>4. write' \in Writes
    <3>1. write' = [pc |-> "drop", ids |-> {r}, work |-> From, ver |-> 0]
      BY <2>2 DEF NoWrite
    <3> QED BY <3>1, Bounds DEF Writes
  <2> QED BY <1>0, <2>1, <2>3, <2>4, TypeParts DEF StepsTyped
<1>3. CASE WriteThrough
  <2>1. UNCHANGED <<work, young, rating, seqno, parked, cursor, run, sweep, liked, turns, failures>>
        /\ write' = NoWrite
    BY <1>3 DEF WriteThrough, nextmoe, history
  <2>2. NextMoeTyped' /\ StepsTyped'
    BY <1>0, <2>1, <1>9 DEF NextMoeTyped, StepsTyped
  <2>3. PICK r \in Ratings : MirrorRating(r, write.work, write.ver) \/ DropRating(r)
    BY <1>0, <1>3 DEF WriteThrough, StepsTyped, Writes
  <2>4. write.work \in Works /\ write.ver \in 0 .. MaxEdits
    BY <1>0 DEF StepsTyped, Writes
  <2>5. row' \in [Ratings -> Rows] /\ held' \in [Ratings -> Holds] /\ OneRow' /\ NotBoth'
    BY <1>0, <2>3, <2>4, MirrorTypes, GoneTypes
  <2> QED BY <1>0, <2>1, <2>2, <2>5, TypeParts
<1>4. CASE WriteFails
  <2>1. UNCHANGED <<work, young, rating, seqno, row, held, parked, cursor, run, sweep, liked, turns,
                    failures>> /\ write' = NoWrite
    BY <1>4 DEF WriteFails, nextmoe, forum, history
  <2>2. NextMoeTyped' /\ StepsTyped'
    BY <1>0, <2>1, <1>9 DEF NextMoeTyped, StepsTyped
  <2> QED BY <1>0, <2>1, <2>2, TypeParts
<1> QED
  BY <1>1, <1>2, <1>3, <1>4

LEMMA SweepTypes ==
  ASSUME TypeOK, Sweep
  PROVE  TypeOK'
<1>0. NextMoeTyped /\ TablesTyped /\ OneRow /\ NotBoth /\ StepsTyped
  BY TypeParts
<1>1. UNCHANGED <<work, young, rating, seqno, row, parked, cursor, run, write, liked, turns>>
  BY DEF Sweep, SweepStarts, SweepAsksFate, SweepAsksCurrent, DropDeletedHold, nextmoe, forum, history
<1>2. held' \in [Ratings -> Holds] /\ \A r \in Ratings : held'[r] \in {held[r], NoHold}
  <2>1. CASE held' = held
    BY <1>0, <2>1 DEF TablesTyped
  <2>2. CASE DropDeletedHold
    <3>1. NoHold \in Holds
      BY Bounds DEF NoHold, Holds
    <3> QED BY <1>0, <2>2, <3>1 DEF DropDeletedHold, TablesTyped
  <2> QED BY <2>1, <2>2
          DEF Sweep, SweepStarts, SweepAsksFate, SweepAsksCurrent, forum
<1>3. sweep' \in Sweeps /\ failures' \in Nat
  <2>1. SweepIdle \in Sweeps /\ sweep \in Sweeps /\ failures \in Nat
    BY <1>0, Bounds DEF SweepIdle, Sweeps, StepsTyped
  <2>2. ASSUME NEW r \in Ratings, SweepStarts(r)
        PROVE  sweep' \in Sweeps /\ failures' = failures
    BY <1>0, <2>2 DEF SweepStarts, TablesTyped, Holds, Sweeps
  <2>3. CASE SweepAsksFate \/ SweepAsksCurrent
    <3>1. \A p \in {"current", "drop"} : [sweep EXCEPT !.pc = p] \in Sweeps
      BY <2>1 DEF Sweeps
    <3>2. failures' \in Nat
      <4>1. failures' \in {failures, failures + 1}
        BY <2>3 DEF SweepAsksFate, SweepAsksCurrent, Fails
      <4> QED BY <2>1, <4>1
    <3>3. sweep' \in {SweepIdle, [sweep EXCEPT !.pc = "current"], [sweep EXCEPT !.pc = "drop"]}
      BY <2>3 DEF SweepAsksFate, SweepAsksCurrent
    <3> QED BY <2>1, <3>1, <3>2, <3>3
  <2>5. CASE DropDeletedHold
    BY <2>1, <2>5 DEF DropDeletedHold
  <2> QED BY <2>1, <2>2, <2>3, <2>5 DEF Sweep
<1>4. OneRow' /\ NotBoth'
  <2>1. NoHold.reason = ""
    BY DEF NoHold
  <2>2. \A r \in Ratings : held'[r].reason \in {"", held[r].reason}
    BY <1>2, <2>1
  <2> QED BY <1>0, <1>1, <2>2 DEF OneRow, NotBoth
<1>5. NextMoeTyped' /\ TablesTyped' /\ StepsTyped'
  BY <1>0, <1>1, <1>2, <1>3 DEF NextMoeTyped, TablesTyped, StepsTyped
<1> QED
  BY <1>4, <1>5, TypeParts

LEMMA EntryTypes ==
  ASSUME TypeOK
  PROVE  /\ \A r \in Ratings : Entry(r) \in Entries
         /\ AllParked \in SUBSET Entries
         /\ Idle \in Runs /\ Unasked \in [Works -> Fates]
<1>0. NextMoeTyped /\ TablesTyped
  BY TypeParts
<1>1. ASSUME NEW r \in Ratings
      PROVE  Entry(r) \in Entries
  <2>1. rating[r] \in RatingRecords /\ (~Shown(r)) \in BOOLEAN
    BY <1>0 DEF NextMoeTyped, Shown
  <2> QED BY <2>1 DEF Entry, Entries, RatingRecords, MaybeWork
<1>2. ASSUME NEW r \in Ratings, parked[r] # NoWork
      PROVE  Parked(r) \in Entries
  <2>1. parked[r] \in Works
    BY <1>0, <1>2 DEF TablesTyped, MaybeWork
  <2>2. 0 \in 0 .. MaxEdits /\ 0 \in Numbers
    BY Bounds DEF Numbers
  <2> QED BY <2>1, <2>2 DEF Parked, Entries, MaybeWork
<1>3. AllParked \in SUBSET Entries
  BY <1>2 DEF AllParked
<1>4. Unasked \in [Works -> Fates]
  BY DEF Unasked, Fates
<1>5. Idle \in Runs
  <2>1. 0 \in Numbers
    BY Bounds DEF Numbers
  <2> QED BY <1>4, <2>1 DEF Idle, Runs
<1> QED
  BY <1>1, <1>3, <1>4, <1>5

(* What a step that handles an entry leaves.                               *)
LEMMA HandledTypes ==
  ASSUME TypeOK, NEW e \in run.todo, Handled(e), NEW p \in [Ratings -> MaybeWork], parked' = p,
         row' \in [Ratings -> Rows], held' \in [Ratings -> Holds], OneRow', NotBoth'
  PROVE  TypeOK'
<1>0. NextMoeTyped /\ TablesTyped /\ OneRow /\ NotBoth /\ StepsTyped
  BY TypeParts
<1>1. UNCHANGED <<work, young, rating, seqno, cursor, sweep, write, liked, failures>>
  BY DEF Handled, nextmoe
<1>2. run' = [run EXCEPT !.todo = {f \in run.todo : f.id # e.id}, !.reason = ""]
  BY DEF Handled
<1>3. run' \in Runs
  <2>1. run \in Runs
    BY <1>0 DEF StepsTyped
  <2>2. {f \in run.todo : f.id # e.id} \in SUBSET Entries
    BY <2>1 DEF Runs
  <2> HIDE DEF Runs
  <2> QED BY <1>2, <2>1, <2>2 DEF Runs
<1>4. turns' \in SUBSET Ratings
  BY <1>0 DEF Handled, StepsTyped
<1>5. NextMoeTyped' /\ TablesTyped' /\ StepsTyped'
  BY <1>0, <1>1, <1>3, <1>4 DEF NextMoeTyped, TablesTyped, StepsTyped
<1> QED
  BY <1>5, TypeParts

(* A step of the mirror that changes no table, but its own state.          *)
LEMMA StepTypes ==
  ASSUME TypeOK, run' \in Runs, cursor' \in Numbers, failures' \in Nat,
         parked' \in [Ratings -> MaybeWork],
         UNCHANGED <<nextmoe, row, held, sweep, write, history>>
  PROVE  TypeOK'
<1>0. NextMoeTyped /\ TablesTyped /\ OneRow /\ NotBoth /\ StepsTyped
  BY TypeParts
<1>1. UNCHANGED <<work, young, rating, seqno, row, held, sweep, write, liked, turns>>
  BY DEF nextmoe, history
<1>2. NextMoeTyped' /\ TablesTyped' /\ StepsTyped'
  BY <1>0, <1>1 DEF NextMoeTyped, TablesTyped, StepsTyped
<1>3. OneRow' /\ NotBoth'
  BY <1>0, <1>1 DEF OneRow, NotBoth
<1> QED
  BY <1>2, <1>3, TypeParts

LEMMA RunTypes ==
  ASSUME TypeOK, Run \/ ParkGoneRating \/ CursorLost
  PROVE  TypeOK'
<1>0. NextMoeTyped /\ TablesTyped /\ OneRow /\ NotBoth /\ StepsTyped
  BY TypeParts
<1>1. run \in Runs /\ cursor \in Numbers /\ failures \in Nat /\ parked \in [Ratings -> MaybeWork]
  BY <1>0 DEF StepsTyped, TablesTyped
<1>2. run.todo \in SUBSET Entries /\ \A e \in run.todo : e.id \in Ratings /\ e.work \in Works
  BY <1>1 DEF Runs, Entries
<1>3. CASE RetryGone
  <2>1. run' = [Idle EXCEPT !.pc = "retry", !.todo = AllParked] /\ cursor' = cursor
        /\ failures' = failures /\ UNCHANGED <<nextmoe, row, held, parked, sweep, write, history>>
    BY <1>3 DEF RetryGone, forum
  <2>2. run' \in Runs
    BY <2>1, EntryTypes DEF Runs
  <2> QED BY <1>1, <2>1, <2>2, StepTypes
<1>4. CASE RatingChanges
  <2>1. cursor' = cursor /\ failures' = failures
        /\ UNCHANGED <<nextmoe, row, held, parked, sweep, write, history>>
    BY <1>4 DEF RatingChanges, forum
  <2>2. PICK first \in SUBSET Ahead, n \in 0 .. seqno :
          run' = [Idle EXCEPT !.pc = "page", !.todo = {Entry(r) : r \in first}, !.next = n,
                         !.live = {[id |-> r, work |-> rating[r].work] : r \in {s \in first : Shown(s)}}]
    BY <1>4 DEF RatingChanges
  <2>3. n \in Numbers
    BY <1>0, Bounds DEF NextMoeTyped, Numbers
  <2>4. first \in SUBSET Ratings
    BY DEF Ahead
  <2>5. {Entry(r) : r \in first} \in SUBSET Entries
    BY <2>4, EntryTypes
  <2>6. {[id |-> r, work |-> rating[r].work] : r \in {s \in first : Shown(s)}} \in SUBSET Pairs
    BY <1>0, <2>4 DEF NextMoeTyped, RatingRecords, Pairs
  <2>7. run' \in Runs
    BY <2>2, <2>3, <2>5, <2>6, EntryTypes DEF Runs
  <2> QED BY <1>1, <2>1, <2>7, StepTypes
<1>5. CASE Upsert
  <2>1. PICK e \in run.todo : MirrorRating(e.id, e.work, e.ver) /\ parked' = parked /\ Handled(e)
    BY <1>5 DEF Upsert
  <2>2. e.id \in Ratings /\ e.work \in Works /\ e.ver \in 0 .. MaxEdits
    BY <1>2 DEF Entries
  <2>3. row' \in [Ratings -> Rows] /\ held' \in [Ratings -> Holds] /\ OneRow' /\ NotBoth'
    BY <1>0, <2>1, <2>2, MirrorTypes
  <2> QED BY <1>1, <2>1, <2>3, HandledTypes
<1>6. CASE GoneUnknown
  <2>1. PICK e \in run.todo : Unpark(e.id) /\ row' = row /\ held' = held /\ Handled(e)
    BY <1>6 DEF GoneUnknown
  <2>2. parked' \in [Ratings -> MaybeWork]
    BY <1>1, <2>1 DEF Unpark, MaybeWork
  <2>3. row' \in [Ratings -> Rows] /\ held' \in [Ratings -> Holds] /\ OneRow' /\ NotBoth'
    BY <1>0, <2>1 DEF TablesTyped, OneRow, NotBoth
  <2> QED BY <2>1, <2>2, <2>3, HandledTypes
<1>7. CASE WorkFate
  <2>1. cursor' = cursor /\ failures' = failures
        /\ UNCHANGED <<nextmoe, row, held, parked, sweep, write, history>>
    BY <1>7 DEF WorkFate, forum
  <2>2. PICK e \in run.todo : 
          LET fate == IF run.fates[e.work] = "unasked" THEN Fate(e.work) ELSE run.fates[e.work]
              own == row[e.id].work
              newer == \E l \in run.live : l.work = own /\ l.id # e.id IN
          run' = [run EXCEPT !.todo = (@ \ {e}) \cup {[e EXCEPT !.own = own]},
                   !.fates[e.work] = fate,
                   !.reason = IF fate # "" THEN fate ELSE IF newer THEN "merged" ELSE "current"]
    BY <1>7 DEF WorkFate
  <2> DEFINE fate == IF run.fates[e.work] = "unasked" THEN Fate(e.work) ELSE run.fates[e.work]
             own == row[e.id].work
             newer == \E l \in run.live : l.work = own /\ l.id # e.id
             reason == IF fate # "" THEN fate ELSE IF newer THEN "merged" ELSE "current"
             todo == (run.todo \ {e}) \cup {[e EXCEPT !.own = own]}
  <2>3. fate \in Fates \ {"unasked"}
    <3>1. Fate(e.work) \in {"", "deleted", "merged"}
      BY <1>0, <1>2 DEF Fate, NextMoeTyped
    <3>2. run.fates[e.work] \in Fates
      BY <1>1, <1>2 DEF Runs
    <3> QED BY <3>1, <3>2 DEF Fates
  <2>4. reason \in {"", "current", "live", "deleted", "merged", "cleared"}
    BY <2>3 DEF Fates
  <2>5. todo \in SUBSET Entries
    <3>1. e \in Entries /\ own \in MaybeWork
      BY <1>0, <1>2 DEF TablesTyped, Rows, MaybeWork
    <3>2. [e EXCEPT !.own = own] \in Entries
      BY <3>1 DEF Entries
    <3> QED BY <1>2, <3>2
  <2>6. run' = [run EXCEPT !.todo = todo, !.fates[e.work] = fate, !.reason = reason]
    BY <2>2
  <2> HIDE DEF fate, reason, todo
  <2>7. [run.fates EXCEPT ![e.work] = fate] \in [Works -> Fates]
    BY <1>1, <2>3 DEF Runs
  <2>8. run' \in Runs
    BY <1>1, <2>4, <2>5, <2>6, <2>7 DEF Runs
  <2> QED BY <1>1, <2>1, <2>8, StepTypes
<1>8. CASE CurrentRating
  <2>1. cursor' = cursor /\ failures' = failures
        /\ UNCHANGED <<nextmoe, row, held, parked, sweep, write, history>>
    BY <1>8 DEF CurrentRating, forum
  <2>2. PICK reason \in {"live", "merged", "cleared"} : run' = [run EXCEPT !.reason = reason]
    BY <1>8 DEF CurrentRating
  <2>3. run' \in Runs
    BY <1>1, <2>2 DEF Runs
  <2> QED BY <1>1, <2>1, <2>3, StepTypes
<1>9. CASE ParkGoneRating
  <2>1. cursor' = cursor /\ UNCHANGED <<nextmoe, row, held, sweep, write, history>>
    BY <1>9 DEF ParkGoneRating
  <2>2. PICK e \in run.todo : /\ failures' = failures + 1
                              /\ parked' = [parked EXCEPT ![e.id] = e.work]
                              /\ run' = [run EXCEPT !.todo = @ \ {e}, !.reason = ""]
    BY <1>9 DEF ParkGoneRating, Fails
  <2>3. parked' \in [Ratings -> MaybeWork]
    BY <1>1, <1>2, <2>2 DEF MaybeWork
  <2>4. run' \in Runs
    BY <1>1, <1>2, <2>2 DEF Runs
  <2>5. failures' \in Nat
    BY <1>1, <2>2
  <2> QED BY <1>1, <2>1, <2>3, <2>4, <2>5, StepTypes
<1>10. CASE SettleGone
  <2>1. PICK e \in run.todo :
          /\ \/ row' = row /\ held' = held
             \/ \E reason \in {"deleted", "merged"} : HoldRating(e.id, reason)
             \/ DropRating(e.id)
          /\ Unpark(e.id) /\ Handled(e)
    BY <1>10 DEF SettleGone
  <2>2. parked' \in [Ratings -> MaybeWork]
    BY <1>1, <2>1 DEF Unpark, MaybeWork
  <2>3. row' \in [Ratings -> Rows] /\ held' \in [Ratings -> Holds] /\ OneRow' /\ NotBoth'
    <3>1. CASE row' = row /\ held' = held
      BY <1>0, <3>1 DEF TablesTyped, OneRow, NotBoth
    <3>2. CASE (\E reason \in {"deleted", "merged"} : HoldRating(e.id, reason)) \/ DropRating(e.id)
      BY <1>0, <1>2, <3>2, GoneTypes
    <3> QED BY <2>1, <3>1, <3>2
  <2> QED BY <2>1, <2>2, <2>3, HandledTypes
<1>11. CASE Advance
  <2>1. failures' = failures /\ UNCHANGED <<nextmoe, row, held, parked, sweep, write, history>>
        /\ run' = [Idle EXCEPT !.pc = "next"] /\ cursor' = run.next
    BY <1>11 DEF Advance, forum
  <2>2. run' \in Runs /\ cursor' \in Numbers
    BY <1>1, <2>1, EntryTypes DEF Runs
  <2> QED BY <1>1, <2>1, <2>2, StepTypes
<1>12. CASE Ends
  <2>1. UNCHANGED <<work, young, rating, seqno, row, parked, cursor, sweep, write, liked, turns>>
    BY <1>12 DEF Ends, nextmoe, history
  <2>2. run' \in Runs /\ failures' \in Nat
    <3>1. failures' \in {failures, failures + 1}
      BY <1>12 DEF Ends, Fails
    <3> QED BY <1>1, <1>12, <3>1, EntryTypes DEF Ends
  <2>3. held' \in [Ratings -> Holds] /\ \A r \in Ratings : held'[r].reason \in {"", held[r].reason}
    <3>1. NoHold \in Holds /\ NoHold.reason = ""
      BY Bounds DEF NoHold, Holds
    <3>2. held' = [r \in Ratings |-> IF held[r].reason = "merged" /\ held[r].old
                                     THEN NoHold ELSE held[r]]
      BY <1>12 DEF Ends, PurgeHeldRatings
    <3> QED BY <1>0, <3>1, <3>2 DEF TablesTyped
  <2>4. OneRow' /\ NotBoth'
    BY <1>0, <2>1, <2>3 DEF OneRow, NotBoth
  <2>5. NextMoeTyped' /\ TablesTyped' /\ StepsTyped'
    BY <1>0, <2>1, <2>2, <2>3 DEF NextMoeTyped, TablesTyped, StepsTyped
  <2> QED BY <2>4, <2>5, TypeParts
<1>13. CASE CursorLost
  <2>1. UNCHANGED <<nextmoe, row, held, parked, run, sweep, write, history>>
        /\ failures' = failures + 1 /\ cursor' = 0
    BY <1>13 DEF CursorLost, forum, Fails
  <2>2. cursor' \in Numbers /\ failures' \in Nat
    BY <1>1, <2>1, Bounds DEF Numbers
  <2> QED BY <1>1, <2>1, <2>2, StepTypes
<1> QED
  BY <1>3, <1>4, <1>5, <1>6, <1>7, <1>8, <1>9, <1>10, <1>11, <1>12, <1>13 DEF Run

LEMMA InitTypes ==
  ASSUME Init
  PROVE  TypeOK
<1>1. NextMoeTyped
  <2>1. 0 \in Numbers /\ 0 \in 0 .. MaxEdits
    BY Bounds DEF Numbers
  <2>2. rating \in [Ratings -> RatingRecords]
    BY <2>1, Bounds DEF Init, RatingRecords
  <2> QED BY <2>1, <2>2 DEF Init, NextMoeTyped
<1>2. /\ liked \in SUBSET Ratings
      /\ row = [r \in Ratings |-> IF r \in liked
                  THEN [there |-> TRUE, work |-> Home[r], ver |-> 0, likes |-> TRUE] ELSE NoRow]
      /\ held = [r \in Ratings |-> NoHold] /\ parked = [r \in Ratings |-> NoWork]
  BY DEF Init
<1>3. TablesTyped
  <2>1. NoRow \in Rows /\ NoHold \in Holds /\ NoWork \in MaybeWork
    BY Bounds DEF NoRow, NoHold, Rows, Holds, MaybeWork
  <2>2. \A r \in Ratings : [there |-> TRUE, work |-> Home[r], ver |-> 0, likes |-> TRUE] \in Rows
    BY Bounds DEF Rows
  <2> QED BY <1>2, <2>1, <2>2 DEF TablesTyped
<1>4. \A r \in Ratings : /\ row[r].there => row[r].work = Home[r]
                         /\ held[r].reason = ""
  <2>1. NoRow.there = FALSE /\ NoHold.reason = ""
    BY DEF NoRow, NoHold
  <2> QED BY <1>2, <2>1
<1>5. OneRow /\ NotBoth
  <2>1. \A r, s \in Ratings : Home[r] = Home[s] => r = s
    BY Bounds
  <2> QED BY <1>4, <2>1, ZenonT(40) DEF OneRow, NotBoth
<1>6. StepsTyped
  <2>1. Idle \in Runs
    <3>1. 0 \in Numbers /\ Unasked \in [Works -> Fates]
      BY Bounds DEF Numbers, Unasked, Fates
    <3> QED BY <3>1 DEF Idle, Runs
  <2>2. SweepIdle \in Sweeps /\ NoWrite \in Writes /\ 0 \in Numbers
    BY Bounds DEF SweepIdle, Sweeps, NoWrite, Writes, Numbers
  <2> QED BY <1>2, <2>1, <2>2 DEF Init, StepsTyped
<1> QED
  BY <1>1, <1>3, <1>5, <1>6, TypeParts

LEMMA StepKeepsTypes ==
  TypeOK /\ [Next]_vars => TypeOK'
<1> SUFFICES ASSUME TypeOK, [Next]_vars
             PROVE  TypeOK'
  OBVIOUS
<1>1. CASE UNCHANGED vars
  BY <1>1, ZenonT(40) DEF TypeOK, vars, nextmoe, forum, history
<1> QED
  BY <1>1, NextMoeTypes, WriteTypes, RunTypes, SweepTypes DEF Next

(* Every variable keeps its type, galgame_rating never has two rows of the *)
(* person for one work, which its unique key would refuse, and no rating   *)
(* is listed and held at once: for any page size, however the feed, the    *)
(* author's requests, the mirror and the sweep interleave.                 *)
THEOREM TypeCorrect == Spec => []TypeOK
<1>1. Init => TypeOK
  BY InitTypes
<1>2. TypeOK /\ [Next]_vars => TypeOK'
  BY StepKeepsTypes
<1> QED
  BY <1>1, <1>2, PTL DEF Spec

-----------------------------------------------------------------------------
(* The likes: an invariant of works and authors that wait for the mirror.  *)

Live(r)   == rating[r].state = "live"
Folded(r) == rating[r].state = "folded" /\ young
Hidden(r) == Live(r) /\ ~Shown(r)

(* One live rating of a work; a rating is folded under the survivor's.     *)
NextMoeInv ==
    /\ work[Into] # "merged"
    /\ \A r \in Ratings : rating[r].seq <= seqno
    /\ \A r \in Ratings : rating[r].state = "none" =>
          rating[r].work = Home[r] /\ rating[r].seq = 0 /\ r \notin liked
    /\ \A r, s \in Ratings : Live(r) /\ Live(s) /\ rating[r].work = rating[s].work => r = s
    /\ work[From] = "merged" => \A r \in Ratings : Live(r) => rating[r].work = Into
    /\ \A r \in Ratings : rating[r].state = "folded" =>
          work[From] = "merged" /\ \E s \in Ratings : Live(s) /\ rating[s].work = Into

(* An entry that is not overtaken says what NextMoe has.  One that is, of  *)
(* a rating that may come back, is of a decision still to be mirrored; it  *)
(* never takes the place of a hidden rating.                               *)
EntryOK(e) ==
    /\ e.seq <= rating[e.id].seq
    /\ e.seq = 0 => e.gone /\ parked[e.id] = e.work
    /\ e.seq = rating[e.id].seq /\ e.seq # 0 => e.gone = ~Shown(e.id) /\ e.work = rating[e.id].work
    /\ e.gone /\ e.seq \notin {0, rating[e.id].seq} /\ MayComeBack(e.id) =>
          e.id \in turns /\ ~row[e.id].there
    /\ ~e.gone /\ MayComeBack(e.id) =>
          \/ e.work = rating[e.id].work /\ (Shown(e.id) \/ e.id \in turns)
          \/ Shown(e.id) /\ e.id \in turns
    /\ ~e.gone => \A r \in Ratings \ {e.id} : Hidden(r) => e.work # rating[r].work
    /\ rating[e.id].state # "none"

EntryInv ==
    /\ \A e, f \in run.todo : e.id = f.id => e = f
    /\ \A e \in run.todo : EntryOK(e)

(* What the mirror has been told of the gone entry at hand, if it may come *)
(* back: a hidden rating's work is deleted, a folded one's was merged, or  *)
(* is the survivor, of which catalog has another rating.                   *)
OwnedOK(e) ==
    /\ run.reason # "" /\ e.gone
    /\ \A f \in run.todo : f.own # NoWork => f = e
    /\ Live(e.id) => run.reason = "deleted" /\ ~Shown(e.id)
    /\ Folded(e.id) => \/ run.reason = "merged"
                       \/ run.reason = "current" /\ e.own = Into /\ work[Into] = "live"
    /\ MayComeBack(e.id) => e.id \in turns /\ e.work = rating[e.id].work

RunInv ==
    /\ \A w \in Works : run.fates[w] \in {"unasked", Fate(w)}
    /\ run.reason # "" => \E w \in Works : run.fates[w] # "unasked"
    /\ \A e \in run.todo : e.own # NoWork => OwnedOK(e)

(* The rows of a rating.  One that may come back and is not shown has a    *)
(* row only until the decision is mirrored; a hidden one has its row or a  *)
(* hold of the deleted work; an old hold of a merge is of none that may    *)
(* come back.                                                              *)
RowOK(r) ==
    /\ ~row[r].there => ~row[r].likes
    /\ held[r].reason = "" => ~held[r].likes
    /\ MayComeBack(r) /\ ~Shown(r) /\ r \notin turns => ~row[r].there
    /\ Shown(r) /\ r \notin turns /\ row[r].there => row[r].work = rating[r].work
    /\ Hidden(r) => \/ row[r].there /\ row[r].work = rating[r].work
                    \/ held[r].reason = "deleted"
    /\ Live(r) /\ held[r].reason = "deleted" => held[r].work = rating[r].work
    /\ Folded(r) => /\ row[r].there => row[r].work = rating[r].work
                    /\ held[r].reason # "deleted"
                    /\ r \in turns => work[Into] = "live"
    /\ parked[r] # NoWork /\ MayComeBack(r) =>
          r \in turns /\ ~Shown(r) /\ parked[r] = rating[r].work
    /\ held[r].reason = "merged" /\ held[r].old => ~MayComeBack(r)
    /\ rating[r].state = "none" => ~row[r].there /\ held[r].reason = "" /\ parked[r] = NoWork
    /\ r \in liked /\ MayComeBack(r) => row[r].likes \/ held[r].likes

TableInv == \A r \in Ratings : RowOK(r)

(* The sweep is to drop holds of ratings that are gone from a live work.   *)
SweepInv ==
    /\ sweep.pc \in {"current", "drop"} => work[sweep.work] = "live"
    /\ \A r \in sweep.at : Live(r) => sweep.work = rating[r].work /\ sweep.pc # "drop"
    /\ \A r \in sweep.at : rating[r].state # "none"

(* A request is to write a rating that is shown, or to drop one for good.  *)
WriteInv ==
    /\ write # NoWrite => turns = {}
    /\ write.pc = "mirror" => \A r \in write.ids : Shown(r) /\ rating[r].work = write.work
    /\ write.pc = "drop" => \A r \in write.ids : ~MayComeBack(r) /\ rating[r].state # "none"

MirrorInv == TypeOK /\ NextMoeInv /\ EntryInv /\ RunInv /\ TableInv /\ SweepInv /\ WriteInv

LEMMA Kinds ==
  \A r : /\ Shown(r) => Live(r)
         /\ Hidden(r) <=> Live(r) /\ ~Shown(r)
         /\ MayComeBack(r) <=> Live(r) \/ Folded(r)
         /\ ~(Live(r) /\ Folded(r))
         /\ rating[r].state \in {"none", "cleared"} => ~MayComeBack(r)
         /\ Live(r) <=> rating[r].state = "live"
BY DEF Live, Folded, Hidden, Shown, MayComeBack

LEMMA NextKinds ==
  \A r : /\ Shown(r)' => Live(r)'
         /\ Hidden(r)' <=> Live(r)' /\ ~Shown(r)'
         /\ MayComeBack(r)' <=> Live(r)' \/ Folded(r)'
         /\ ~(Live(r)' /\ Folded(r)')
         /\ rating'[r].state \in {"none", "cleared"} => ~MayComeBack(r)'
         /\ Live(r)' <=> rating'[r].state = "live"
BY DEF Live, Folded, Hidden, Shown, MayComeBack

LEMMA EntryFields ==
  ASSUME TypeOK
  PROVE  \A e \in run.todo : /\ e.id \in Ratings /\ e.work \in Works /\ e.gone \in BOOLEAN
                             /\ e.seq \in Nat /\ e.ver \in 0 .. MaxEdits
                             /\ e.work # NoWork
<1>1. run.todo \in SUBSET Entries
  BY TypeParts DEF StepsTyped, Runs
<1>2. \A e \in Entries : /\ e.id \in Ratings /\ e.work \in Works /\ e.gone \in BOOLEAN
                         /\ e.seq \in Nat /\ e.ver \in 0 .. MaxEdits
  BY Bounds DEF Entries, Numbers
<1> QED
  BY <1>1, <1>2, Bounds

LEMMA RatingFields ==
  ASSUME TypeOK
  PROVE  /\ seqno \in Nat /\ cursor \in Nat
         /\ \A r \in Ratings : rating[r].seq \in Nat /\ rating[r].work \in Works
BY TypeParts, Bounds DEF NextMoeTyped, StepsTyped, RatingRecords, Numbers

(* What a decision of NextMoe's finds, the mirror waiting for none, and    *)
(* what it may do to the ratings R: take a rating that was shown, or bring *)
(* back, shown, one that may come back.                                    *)
Turn(R) ==
    /\ turns = {} /\ turns' = R
    /\ UNCHANGED <<row, held, parked, run, sweep, write, liked>>
    /\ \A w \in Works : run.fates[w] = "unasked"
    /\ sweep = SweepIdle /\ write = NoWrite
    /\ \A e \in run.todo : e.seq \in {0, rating[e.id].seq}
    /\ \A r \in Ratings : Shown(r) => Mirrored(r)
    /\ \A r \in Ratings \ R :
         /\ rating'[r] = rating[r] /\ (Shown(r)' <=> Shown(r))
         /\ MayComeBack(r)' => MayComeBack(r)
    /\ \A r \in R :
         /\ rating'[r].seq \in Nat /\ rating'[r].seq > seqno /\ rating'[r].state # "none"
         /\ MayComeBack(r) /\ (Shown(r) \/ Shown(r)')
         /\ ~Shown(r)' => rating'[r].work = rating[r].work
         /\ Hidden(r) => rating'[r].work = rating[r].work
         /\ Folded(r)' => work'[Into] = "live"

LEMMA TurnKeepsRows ==
  ASSUME TypeOK, TableInv, NEW R \in SUBSET Ratings, Turn(R)
  PROVE  TableInv'
<1> SUFFICES ASSUME NEW r \in Ratings
             PROVE  RowOK(r)'
  BY DEF TableInv
<1>1. RowOK(r) /\ (row[r].there => held[r].reason = "")
  BY TypeParts DEF TableInv, NotBoth
<1>2. /\ row'[r] = row[r] /\ held'[r] = held[r] /\ parked'[r] = parked[r] /\ liked' = liked
      /\ r \notin turns /\ (r \in turns' <=> r \in R)
  BY DEF Turn
<1>3. CASE r \notin R
  <2>1. rating'[r] = rating[r] /\ (Shown(r)' <=> Shown(r)) /\ (MayComeBack(r)' => MayComeBack(r))
    BY <1>3 DEF Turn
  <2>2. (Live(r)' <=> Live(r)) /\ (Hidden(r)' <=> Hidden(r)) /\ (Folded(r)' => Folded(r))
    BY <2>1, Kinds, NextKinds
  <2> QED BY <1>1, <1>2, <1>3, <2>1, <2>2 DEF RowOK
<1>4. CASE r \in R
  <2>1. /\ rating'[r].state # "none" /\ MayComeBack(r) /\ (Shown(r) \/ Shown(r)')
        /\ ~Shown(r)' => rating'[r].work = rating[r].work
        /\ Hidden(r) => rating'[r].work = rating[r].work
        /\ Folded(r)' => work'[Into] = "live"
        /\ Shown(r) => row[r].there /\ row[r].work = rating[r].work
    BY <1>4 DEF Turn, Mirrored
  <2>2. parked[r] = NoWork
    BY <1>1, <1>2, <2>1 DEF RowOK
  <2>3. Hidden(r)' => row[r].there /\ row[r].work = rating'[r].work
    BY <2>1, NextKinds
  <2>4. Live(r)' /\ held[r].reason = "deleted" => held[r].work = rating'[r].work
    BY <1>1, <2>1, Kinds DEF RowOK
  <2>5. Folded(r)' => /\ row[r].there => row[r].work = rating'[r].work
                      /\ held[r].reason # "deleted" /\ work'[Into] = "live"
    BY <1>1, <2>1, NextKinds
  <2> QED BY <1>1, <1>2, <1>4, <2>1, <2>2, <2>3, <2>4, <2>5 DEF RowOK
<1> QED
  BY <1>3, <1>4

LEMMA TurnKeepsSteps ==
  ASSUME TypeOK, NextMoeInv, EntryInv, RunInv, TableInv, NEW R \in SUBSET Ratings, Turn(R)
  PROVE  EntryInv' /\ RunInv' /\ SweepInv' /\ WriteInv'
<1>0. run' = run /\ row' = row /\ parked' = parked /\ turns = {} /\ turns' = R
      /\ sweep' = SweepIdle /\ write' = NoWrite
  BY DEF Turn
<1>1. ASSUME NEW e \in run.todo
      PROVE  EntryOK(e)'
  <2>1. EntryOK(e) /\ e.id \in Ratings /\ e.seq \in {0, rating[e.id].seq} /\ e.seq \in Nat
        /\ rating[e.id].seq <= seqno /\ rating[e.id].seq \in Nat /\ seqno \in Nat
    BY EntryFields, RatingFields DEF EntryInv, Turn, NextMoeInv
  <2>2. RowOK(e.id)
    BY <2>1 DEF TableInv
  <2>3. \A r \in Ratings \ {e.id} : ~e.gone /\ Hidden(r)' => e.work # rating'[r].work
    <3> SUFFICES ASSUME NEW r \in Ratings \ {e.id}, ~e.gone, Hidden(r)'
                 PROVE  e.work # rating'[r].work
      OBVIOUS
    <3>1. rating'[r].work = rating[r].work /\ Live(r)
      <4>1. CASE r \in R
        BY <4>1, Kinds, NextKinds DEF Turn
      <4>2. CASE r \notin R
        <5>1. rating'[r] = rating[r]
          BY <4>2 DEF Turn
        <5> QED BY <5>1, Kinds, NextKinds
      <4> QED BY <4>1, <4>2
    <3>2. Shown(e.id) /\ e.work = rating[e.id].work
      BY <2>1 DEF EntryOK
    <3>3. rating[e.id].work # rating[r].work
      BY <2>1, <3>1, <3>2, Kinds DEF NextMoeInv
    <3> QED BY <3>1, <3>2, <3>3
  <2>4. CASE e.id \notin R
    <3>1. rating'[e.id] = rating[e.id] /\ (Shown(e.id)' <=> Shown(e.id))
          /\ (MayComeBack(e.id)' => MayComeBack(e.id))
      BY <2>1, <2>4 DEF Turn
    <3> QED BY <1>0, <2>1, <2>3, <2>4, <3>1 DEF EntryOK
  <2>5. CASE e.id \in R
    <3>1. /\ rating'[e.id].seq > seqno /\ rating'[e.id].state # "none" /\ rating'[e.id].seq \in Nat
          /\ MayComeBack(e.id) /\ (~Shown(e.id)' => rating'[e.id].work = rating[e.id].work)
      BY <2>5 DEF Turn
    <3>2. e.seq # rating'[e.id].seq /\ e.seq <= rating'[e.id].seq /\ e.id \in turns'
      BY <1>0, <2>1, <2>5, <3>1
    <3>3. e.gone /\ e.seq # 0 => ~row[e.id].there
      BY <1>0, <2>1, <2>2, <3>1 DEF EntryOK, RowOK
    <3>4. ~e.gone => e.work = rating'[e.id].work \/ Shown(e.id)'
      BY <1>0, <2>1, <3>1 DEF EntryOK
    <3> QED BY <1>0, <2>1, <2>3, <3>1, <3>2, <3>3, <3>4 DEF EntryOK
  <2> QED BY <2>4, <2>5
<1>2. EntryInv'
  BY <1>0, <1>1 DEF EntryInv
<1>3. RunInv'
  <2>1. \A w \in Works : run.fates[w] = "unasked"
    BY DEF Turn
  <2>2. run.reason = ""
    BY <2>1 DEF RunInv
  <2>3. \A e \in run.todo : e.own = NoWork
    BY <2>2 DEF RunInv, OwnedOK
  <2> QED BY <1>0, <2>1, <2>2, <2>3 DEF RunInv
<1>4. SweepInv'
  BY <1>0 DEF SweepInv, SweepIdle
<1>5. WriteInv'
  BY <1>0 DEF WriteInv, NoWrite
<1> QED
  BY <1>2, <1>3, <1>4, <1>5

(* What the author does to the ratings R: clears them, with all that was   *)
(* folded if one is live, edits one that is shown, or writes one of a work *)
(* without a live one.                                                     *)
Authored(R) ==
    /\ UNCHANGED <<work, young>>
    /\ seqno' \in Nat /\ seqno' >= seqno
    /\ \A r \in Ratings \ R : rating'[r] = rating[r]
    /\ \A r \in R :
         /\ rating'[r].seq \in Nat /\ rating'[r].seq > seqno /\ rating'[r].seq <= seqno'
         /\ \/ rating'[r].state = "cleared" /\ rating[r].state # "none"
            \/ /\ Shown(r)' /\ rating'[r].work = rating[r].work
               /\ \/ Shown(r)
                  \/ /\ rating[r].state = "none"
                     /\ \A s \in Ratings : Live(s) => rating[s].work # rating[r].work
    /\ \A r \in R : Live(r) /\ ~Live(r)' => \A s \in Ratings : rating'[s].state # "folded"

LEMMA Rates ==
  ASSUME TypeOK, NextMoeInv, NEW r \in Ratings, Rated(r)
  PROVE  Authored({r}) /\ Shown(r)' /\ rating'[r].work = rating[r].work
<1>0. NextMoeTyped /\ UNCHANGED <<work, young>>
  BY TypeParts DEF Rated
<1> DEFINE now == [rating EXCEPT ![r].state = "live"]
<1>1. Changed({r}, now) /\ {r} \in SUBSET Ratings
  BY DEF Rated
<1>2. \A s \in {r} : now[s] \in RatingRecords
  BY <1>0 DEF NextMoeTyped, RatingRecords
<1>3. now[r].state = "live" /\ now[r].work = rating[r].work
  BY <1>0 DEF NextMoeTyped, RatingRecords
<1> HIDE DEF now
<1>4. /\ rating'[r].state = "live" /\ rating'[r].work = rating[r].work
      /\ rating'[r].seq > seqno /\ rating'[r].seq <= seqno' /\ seqno' >= seqno
      /\ \A s \in Ratings \ {r} : rating'[s] = rating[s]
      /\ rating'[r].seq \in Nat /\ seqno' \in Nat
  <2>1. Renewed({r}, now)
    BY <1>0, <1>1, <1>2, ChangedRenews
  <2>2. rating'[r].seq \in Nat /\ seqno' \in Nat
    BY <2>1, Bounds DEF Renewed, RatingRecords, Numbers
  <2> QED BY <1>3, <2>1, <2>2 DEF Renewed
<1>5. rating[r].state = "none" /\ rating[r].work = Home[r] /\ work[Home[r]] = "live"
      /\ Current(Home[r]) = {}
  BY DEF Rated, NextMoeInv
<1>6. Shown(r)'
  BY <1>0, <1>4, <1>5 DEF Shown
<1>7. \A s \in Ratings : Live(s) => rating[s].work # rating[r].work
  BY <1>5 DEF Current, On, Live, Shown
<1>8. Authored({r})
  BY <1>0, <1>4, <1>5, <1>6, <1>7 DEF Authored, Live
<1> QED
  BY <1>4, <1>6, <1>8

LEMMA Edits ==
  ASSUME TypeOK, NEW r \in Ratings, Edited(r)
  PROVE  Authored({r}) /\ Shown(r)' /\ rating'[r].work = rating[r].work
<1>0. NextMoeTyped /\ Shown(r) /\ UNCHANGED <<work, young>>
  BY TypeParts DEF Edited
<1> DEFINE now == [rating EXCEPT ![r].ver = @ + 1]
<1>1. Changed({r}, now) /\ {r} \in SUBSET Ratings
  BY DEF Edited
<1>2. \A s \in {r} : now[s] \in RatingRecords
  <2>1. rating[r].ver \in 0 .. MaxEdits /\ rating[r].ver < MaxEdits /\ MaxEdits \in Nat
    BY <1>0, Bounds DEF Edited, NextMoeTyped, RatingRecords
  <2>2. rating[r].ver + 1 \in 0 .. MaxEdits
    BY <2>1
  <2> QED BY <1>0, <2>2 DEF NextMoeTyped, RatingRecords
<1>3. now[r].state = rating[r].state /\ now[r].work = rating[r].work
  BY <1>0 DEF NextMoeTyped, RatingRecords
<1> HIDE DEF now
<1>4. /\ rating'[r].state = rating[r].state /\ rating'[r].work = rating[r].work
      /\ rating'[r].seq > seqno /\ rating'[r].seq <= seqno' /\ seqno' >= seqno
      /\ \A s \in Ratings \ {r} : rating'[s] = rating[s]
      /\ rating'[r].seq \in Nat /\ seqno' \in Nat
  <2>1. Renewed({r}, now)
    BY <1>0, <1>1, <1>2, ChangedRenews
  <2>2. rating'[r].seq \in Nat /\ seqno' \in Nat
    BY <2>1, Bounds DEF Renewed, RatingRecords, Numbers
  <2> QED BY <1>3, <2>1, <2>2 DEF Renewed
<1>5. Shown(r)'
  BY <1>0, <1>4 DEF Shown
<1>6. Authored({r})
  BY <1>0, <1>4, <1>5 DEF Authored, Live
<1> QED
  BY <1>4, <1>5, <1>6

LEMMA Clears ==
  ASSUME TypeOK, NEW r \in Ratings, Cleared(r)
  PROVE  /\ rating'[r].state = "cleared"
         /\ \E R \in SUBSET Ratings : Authored(R)
<1>0. NextMoeTyped /\ rating[r].state = "live" /\ UNCHANGED <<work, young>>
  BY TypeParts DEF Cleared
<1> DEFINE R == {r} \cup {s \in Ratings : rating[s].state = "folded"}
           now == [s \in Ratings |-> [rating[s] EXCEPT !.state = "cleared"]]
<1>1. Changed(R, now) /\ R \in SUBSET Ratings
  BY DEF Cleared
<1>2. \A s \in Ratings : now[s] \in RatingRecords /\ now[s].state = "cleared"
  BY <1>0 DEF NextMoeTyped, RatingRecords
<1>3. r \in R /\ \A s \in Ratings : rating[s].state = "folded" => s \in R
  OBVIOUS
<1>4. \A s \in R : rating[s].state # "none"
  BY <1>0
<1> HIDE DEF R, now
<1>5. Renewed(R, now)
  BY <1>0, <1>1, <1>2, ChangedRenews
<1>6. /\ seqno' \in Nat /\ seqno' >= seqno
      /\ \A s \in Ratings \ R : rating'[s] = rating[s]
      /\ \A s \in R : /\ rating'[s].state = "cleared" /\ rating'[s].seq \in Nat
                      /\ rating'[s].seq > seqno /\ rating'[s].seq <= seqno'
  <2>1. seqno' \in Nat /\ \A s \in R : rating'[s].seq \in Nat
    BY <1>1, <1>5, Bounds DEF Renewed, RatingRecords, Numbers
  <2> QED BY <1>1, <1>2, <1>5, <2>1 DEF Renewed
<1>7. \A s \in Ratings : rating'[s].state # "folded"
  BY <1>3, <1>6
<1>8. Authored(R)
  BY <1>0, <1>4, <1>6, <1>7 DEF Authored
<1> QED
  BY <1>1, <1>3, <1>6, <1>8

LEMMA AuthorKeepsNextMoe ==
  ASSUME TypeOK, TypeOK', NextMoeInv, NEW R \in SUBSET Ratings, Authored(R), liked' = liked
  PROVE  NextMoeInv'
<1>0. /\ UNCHANGED <<work, young>> /\ seqno \in Nat /\ seqno' \in Nat /\ seqno' >= seqno
      /\ \A r \in Ratings : rating[r].seq \in Nat /\ rating[r].seq <= seqno
      /\ \A r \in Ratings : rating'[r].work \in Works
  BY RatingFields, TypeParts DEF Authored, NextMoeInv, NextMoeTyped, RatingRecords
<1>1. ASSUME NEW r \in Ratings
      PROVE  \/ rating'[r] = rating[r]
             \/ /\ r \in R /\ rating'[r].seq <= seqno' /\ rating'[r].state = "cleared"
                /\ rating[r].state # "none"
             \/ /\ r \in R /\ rating'[r].seq <= seqno' /\ rating'[r].state = "live"
                /\ Shown(r)' /\ rating'[r].work = rating[r].work
                /\ \/ Shown(r)
                   \/ /\ rating[r].state = "none" /\ rating[r].work = Home[r]
                      /\ \A s \in Ratings : Live(s) => rating[s].work # rating[r].work
  <2>1. Shown(r)' => rating'[r].state = "live"
    BY DEF Shown
  <2> QED BY <2>1 DEF Authored, NextMoeInv
<1>2. \A r \in Ratings : /\ rating'[r].seq <= seqno'
                         /\ rating'[r].state = "none" =>
                              rating'[r].work = Home[r] /\ rating'[r].seq = 0 /\ r \notin liked'
  BY <1>0, <1>1 DEF NextMoeInv
<1>3. ASSUME NEW r \in Ratings, Live(r)'
      PROVE  /\ rating'[r].work = rating[r].work
             /\ \/ Live(r)
                \/ /\ Shown(r)' /\ rating[r].state = "none" /\ rating[r].work = Home[r]
                   /\ \A s \in Ratings : Live(s) => rating[s].work # rating[r].work
  <2>1. rating'[r].state = "live"
    BY <1>3 DEF Live
  <2> QED BY <1>1, <2>1, Kinds
<1>4. ASSUME NEW r \in Ratings, NEW s \in Ratings, Live(r)', Live(s)', rating'[r].work = rating'[s].work
      PROVE  r = s
  <2>1. CASE Live(r) /\ Live(s)
    BY <1>3, <1>4, <2>1 DEF NextMoeInv
  <2>2. CASE ~Live(r) /\ ~Live(s)
    BY <1>3, <1>4, <2>2, Bounds
  <2>3. CASE (Live(r) /\ ~Live(s)) \/ (~Live(r) /\ Live(s))
    BY <1>3, <1>4, <2>3
  <2> QED BY <2>1, <2>2, <2>3
<1>5. ASSUME work'[From] = "merged", NEW r \in Ratings, Live(r)'
      PROVE  rating'[r].work = Into
  <2>1. CASE Live(r)
    BY <1>0, <1>3, <1>5, <2>1 DEF NextMoeInv
  <2>2. CASE ~Live(r)
    <3>1. work'[rating'[r].work] = "live"
      BY <1>3, <1>5, <2>2 DEF Shown
    <3> QED BY <1>0, <1>5, <3>1 DEF Works
  <2> QED BY <2>1, <2>2
<1>6. ASSUME NEW r \in Ratings, rating'[r].state = "folded"
      PROVE  work'[From] = "merged" /\ \E s \in Ratings : Live(s)' /\ rating'[s].work = Into
  <2>1. rating[r].state = "folded"
    BY <1>1, <1>6
  <2>2. PICK s \in Ratings : work[From] = "merged" /\ Live(s) /\ rating[s].work = Into
    BY <2>1 DEF NextMoeInv
  <2>3. Live(s)'
    <3>1. CASE s \in R
      BY <1>6, <2>2, <3>1 DEF Authored
    <3>2. CASE s \notin R
      BY <2>2, <3>2 DEF Authored, Live
    <3> QED BY <3>1, <3>2
  <2> QED BY <1>0, <1>3, <2>2, <2>3
<1>7. work'[Into] # "merged"
  BY <1>0 DEF NextMoeInv
<1> QED
  BY <1>2, <1>4, <1>5, <1>6, <1>7 DEF NextMoeInv

(* The author changes nothing the mirror or the sweep has in hand.         *)
LEMMA AuthorKeepsRows ==
  ASSUME TypeOK, NextMoeInv, TableInv, NEW R \in SUBSET Ratings, Authored(R),
         UNCHANGED <<forum, history>>
  PROVE  TableInv' /\ \A r \in Ratings : MayComeBack(r)' => MayComeBack(r) \/ rating[r].state = "none"
<1>0. UNCHANGED <<row, held, parked, liked, turns, work, young>>
  BY DEF forum, history, Authored
<1>1. ASSUME NEW r \in Ratings
      PROVE  RowOK(r)' /\ (MayComeBack(r)' => MayComeBack(r) \/ rating[r].state = "none")
  <2>1. RowOK(r)
    BY DEF TableInv
  <2>2. CASE r \notin R
    <3>1. rating'[r] = rating[r]
      BY <2>2 DEF Authored
    <3>2. (Shown(r)' <=> Shown(r)) /\ (Live(r)' <=> Live(r)) /\ (Folded(r)' <=> Folded(r))
          /\ (Hidden(r)' <=> Hidden(r)) /\ (MayComeBack(r)' <=> MayComeBack(r))
      BY <1>0, <3>1 DEF Shown, Live, Folded, Hidden, MayComeBack
    <3> QED BY <1>0, <2>1, <3>1, <3>2 DEF RowOK
  <2>3. CASE rating'[r].state = "cleared" /\ rating[r].state # "none"
    <3>1. ~MayComeBack(r)' /\ ~Shown(r)' /\ ~Hidden(r)' /\ ~Live(r)' /\ ~Folded(r)'
          /\ rating'[r].state # "none"
      BY <2>3, NextKinds
    <3> QED BY <1>0, <2>1, <3>1 DEF RowOK
  <2>4. CASE Shown(r)' /\ Shown(r) /\ rating'[r].work = rating[r].work
    <3>1. /\ Live(r) /\ MayComeBack(r) /\ ~Folded(r) /\ ~Hidden(r)
          /\ Live(r)' /\ MayComeBack(r)' /\ ~Folded(r)' /\ ~Hidden(r)' /\ rating'[r].state # "none"
      BY <2>4, Kinds, NextKinds
    <3> QED BY <1>0, <2>1, <2>4, <3>1 DEF RowOK
  <2>5. CASE Shown(r)' /\ rating[r].state = "none"
    <3>1. Live(r)' /\ MayComeBack(r)' /\ ~Folded(r)' /\ ~Hidden(r)' /\ rating'[r].state # "none"
      BY <2>5, Kinds, NextKinds
    <3>2. ~row[r].there /\ held[r].reason = "" /\ r \notin liked /\ parked[r] = NoWork
      BY <2>1, <2>5 DEF RowOK, NextMoeInv
    <3> QED BY <1>0, <2>1, <2>5, <3>1, <3>2 DEF RowOK
  <2> QED BY <2>2, <2>3, <2>4, <2>5 DEF Authored
<1> QED
  BY <1>1 DEF TableInv

LEMMA AuthorKeepsSteps ==
  ASSUME TypeOK, NextMoeInv, EntryInv, RunInv, SweepInv, NEW R \in SUBSET Ratings, Authored(R),
         UNCHANGED <<forum, history, run, sweep>>
  PROVE  EntryInv' /\ RunInv' /\ SweepInv'
<1>0. UNCHANGED <<row, held, parked, liked, turns, work, young, run, sweep>>
  BY DEF forum, history, Authored
<1>1. ASSUME NEW r \in Ratings, rating[r].state # "none"
      PROVE  /\ rating'[r].state # "none"
             /\ \/ rating'[r] = rating[r] /\ (Shown(r)' <=> Shown(r))
                \/ rating'[r].seq \in Nat /\ rating'[r].seq > seqno /\ ~MayComeBack(r)'
                \/ /\ rating'[r].seq \in Nat /\ rating'[r].seq > seqno
                   /\ Shown(r) /\ Shown(r)' /\ rating'[r].work = rating[r].work
  <2>1. rating'[r] = rating[r] => (Shown(r)' <=> Shown(r))
    BY <1>0 DEF Shown
  <2> QED BY <1>1, <2>1, NextKinds DEF Authored
<1>2. ASSUME NEW r \in Ratings, Hidden(r)'
      PROVE  Hidden(r) /\ rating'[r].work = rating[r].work
  <2>1. CASE r \in R
    BY <1>2, <2>1, NextKinds DEF Authored
  <2>2. CASE r \notin R
    BY <1>0, <1>2, <2>2 DEF Authored, Hidden, Live, Shown
  <2> QED BY <2>1, <2>2
<1>3. ASSUME NEW e \in run.todo
      PROVE  EntryOK(e)' /\ e.id \in Ratings /\ rating[e.id].state # "none"
  <2>1. EntryOK(e) /\ e.id \in Ratings /\ e.seq \in Nat /\ rating[e.id].seq \in Nat /\ seqno \in Nat
        /\ rating[e.id].seq <= seqno
    BY EntryFields, RatingFields DEF EntryInv, NextMoeInv
  <2>2. rating[e.id].state # "none"
    BY <2>1 DEF EntryOK
  <2>3. \A r \in Ratings \ {e.id} : ~e.gone /\ Hidden(r)' => e.work # rating'[r].work
    BY <1>2, <2>1 DEF EntryOK
  <2>4. CASE rating'[e.id] = rating[e.id] /\ (Shown(e.id)' <=> Shown(e.id))
    <3>1. MayComeBack(e.id)' <=> MayComeBack(e.id)
      BY <1>0, <2>4 DEF MayComeBack
    <3> QED BY <1>0, <2>1, <2>2, <2>3, <2>4, <3>1 DEF EntryOK
  <2>5. CASE rating'[e.id].seq \in Nat /\ rating'[e.id].seq > seqno /\ ~MayComeBack(e.id)'
    <3>1. e.seq # rating'[e.id].seq /\ e.seq <= rating'[e.id].seq
      BY <2>1, <2>5 DEF EntryOK
    <3> QED BY <1>0, <1>1, <2>1, <2>2, <2>3, <2>5, <3>1 DEF EntryOK
  <2>6. CASE /\ rating'[e.id].seq \in Nat /\ rating'[e.id].seq > seqno
             /\ Shown(e.id) /\ Shown(e.id)' /\ rating'[e.id].work = rating[e.id].work
    <3>1. e.seq # rating'[e.id].seq /\ e.seq <= rating'[e.id].seq
      BY <2>1, <2>6 DEF EntryOK
    <3>2. MayComeBack(e.id)
      BY <2>6, Kinds
    <3>3. e.gone /\ e.seq # 0 => e.id \in turns /\ ~row[e.id].there
      BY <2>1, <2>6, <3>2 DEF EntryOK
    <3> QED BY <1>0, <1>1, <2>1, <2>2, <2>3, <2>6, <3>1, <3>2, <3>3 DEF EntryOK
  <2> QED BY <1>1, <2>1, <2>2, <2>4, <2>5, <2>6
<1>4. EntryInv'
  BY <1>0, <1>3 DEF EntryInv
<1>5. RunInv'
  <2>1. \A w : Fate(w)' = Fate(w)
    BY <1>0 DEF Fate
  <2>2. ASSUME NEW e \in run.todo, e.own # NoWork
        PROVE  OwnedOK(e)'
    <3>1. OwnedOK(e) /\ e.id \in Ratings /\ rating[e.id].state # "none"
      BY <1>3, <2>2 DEF RunInv
    <3>2. MayComeBack(e.id)' => rating'[e.id] = rating[e.id] /\ ~Shown(e.id)'
      BY <1>1, <3>1, Kinds, NextKinds DEF OwnedOK
    <3>3. rating'[e.id] = rating[e.id] =>
            (Live(e.id)' <=> Live(e.id)) /\ (Folded(e.id)' <=> Folded(e.id))
            /\ (MayComeBack(e.id)' <=> MayComeBack(e.id))
      BY <1>0 DEF Live, Folded, MayComeBack
    <3> QED BY <1>0, <3>1, <3>2, <3>3, NextKinds DEF OwnedOK
  <2> QED BY <1>0, <2>1, <2>2 DEF RunInv
<1>6. SweepInv'
  <2>1. sweep.at \in SUBSET Ratings
    BY TypeParts DEF StepsTyped, Sweeps
  <2>2. \A r \in sweep.at : Live(r)' => Live(r) /\ rating'[r].work = rating[r].work
    BY <1>1, <2>1, Kinds, NextKinds DEF SweepInv
  <2> QED BY <1>0, <1>1, <2>1, <2>2 DEF SweepInv
<1> QED
  BY <1>4, <1>5, <1>6

(* NextMoe decides nothing while the mirror is behind.                     *)
LEMMA DecisionsWait ==
  ASSUME MayOvertake = FALSE, TypeOK, NEW R, Decided(R)
  PROVE  /\ turns = {} /\ turns' = R
         /\ UNCHANGED <<row, held, parked, run, sweep, write, liked>>
         /\ \A w \in Works : run.fates[w] = "unasked"
         /\ sweep = SweepIdle /\ write = NoWrite
         /\ \A e \in run.todo : e.seq \in {0, rating[e.id].seq}
         /\ \A r \in Ratings : Shown(r) => Mirrored(r)
<1>1. turns = {} /\ ~Asked /\ ~Outdated /\ write = NoWrite
  BY DEF Decided, MirrorIsBehind
<1>2. (\A w \in Works : run.fates[w] = "unasked") /\ sweep = SweepIdle
  BY <1>1 DEF Asked
<1>3. /\ \A e \in run.todo : e.seq \in {0, rating[e.id].seq}
      /\ \A r \in Ratings : Shown(r) => Mirrored(r)
  BY <1>1 DEF Outdated
<1>4. turns' = turns \cup R /\ UNCHANGED <<row, held, parked, run, sweep, write, liked>>
  BY DEF Decided, forum
<1> QED
  BY <1>1, <1>2, <1>3, <1>4

LEMMA RenewedNumbers ==
  ASSUME TypeOK, NextMoeInv, NEW R \in SUBSET Ratings, NEW now, Renewed(R, now)
  PROVE  /\ \A r \in Ratings : rating'[r].seq \in Nat /\ rating'[r].seq <= seqno'
         /\ \A r \in Ratings : rating'[r].work \in Works
         /\ \A r \in R : rating'[r].seq > seqno
<1>1. seqno \in Nat /\ seqno' \in Nat /\ seqno <= seqno'
  BY RatingFields, Bounds DEF Renewed, Numbers
<1>2. \A r \in Ratings : /\ rating[r].seq <= seqno /\ rating[r].seq \in Nat
                         /\ rating'[r].seq \in Nat /\ rating'[r].work \in Works
  BY RatingFields, Bounds DEF Renewed, Numbers, RatingRecords, NextMoeInv
<1> QED
  BY <1>1, <1>2 DEF Renewed

LEMMA WorkDecision ==
  ASSUME MayOvertake = FALSE, TypeOK, NextMoeInv, NEW w \in Works, DeleteWork(w) \/ RestoreWork(w)
  PROVE  NextMoeInv' /\ Turn(On(w))
<1> DEFINE R == On(w)
<1>0. NextMoeTyped /\ R \in SUBSET Ratings
  BY TypeParts DEF On
<1>1. /\ Changed(R, rating) /\ Decided(R) /\ young' = young
      /\ \/ work[w] = "live" /\ work' = [work EXCEPT ![w] = "deleted"]
         \/ work[w] = "deleted" /\ work' = [work EXCEPT ![w] = "live"]
  BY DEF DeleteWork, RestoreWork
<1>2. \A r \in R : rating[r] \in RatingRecords /\ rating[r].state = "live" /\ rating[r].work = w
  BY <1>0 DEF NextMoeTyped, On
<1>3. \A r \in Ratings \ R : ~(rating[r].state = "live" /\ rating[r].work = w)
  BY DEF On
<1> HIDE DEF R
<1>4. Renewed(R, rating)
  BY <1>0, <1>1, <1>2, ChangedRenews
<1>5. liked' = liked
  BY <1>1 DEF Decided
<1>6. /\ \A r \in Ratings : /\ rating'[r].state = rating[r].state /\ rating'[r].work = rating[r].work
                            /\ rating'[r].seq \in Nat /\ rating'[r].seq <= seqno'
      /\ \A r \in R : rating'[r].seq > seqno
      /\ \A r \in Ratings \ R : rating'[r] = rating[r]
  BY <1>0, <1>4, RenewedNumbers DEF Renewed
<1>7. (work'[w] = "deleted" \/ work'[w] = "live") /\ work[w] # "merged"
      /\ \A v \in Works \ {w} : work'[v] = work[v]
  BY <1>0, <1>1 DEF NextMoeTyped
<1>8. NextMoeInv'
  <2>1. \A r \in Ratings : Live(r)' <=> Live(r)
    BY <1>6 DEF Live
  <2>2. work'[From] = "merged" <=> work[From] = "merged"
    BY <1>7, Bounds
  <2>3. work'[Into] # "merged"
    BY <1>7, Bounds DEF NextMoeInv
  <2>4. \A r \in Ratings : rating'[r].state = "none" => rating'[r] = rating[r]
    BY <1>2, <1>6
  <2>5. \A r \in Ratings : rating'[r].state = "none" =>
          rating'[r].work = Home[r] /\ rating'[r].seq = 0 /\ r \notin liked'
    BY <1>5, <1>6, <2>4 DEF NextMoeInv
  <2>6. \A r, s \in Ratings : Live(r)' /\ Live(s)' /\ rating'[r].work = rating'[s].work => r = s
    BY <1>6, <2>1 DEF NextMoeInv
  <2>7. work'[From] = "merged" => \A r \in Ratings : Live(r)' => rating'[r].work = Into
    BY <1>6, <2>1, <2>2 DEF NextMoeInv
  <2>8. \A r \in Ratings : rating'[r].state = "folded" =>
          work'[From] = "merged" /\ \E s \in Ratings : Live(s)' /\ rating'[s].work = Into
    BY <1>6, <2>1, <2>2 DEF NextMoeInv
  <2> QED BY <1>6, <2>3, <2>5, <2>6, <2>7, <2>8 DEF NextMoeInv
<1>9. \A r \in Ratings \ R :
        (Shown(r)' <=> Shown(r)) /\ (MayComeBack(r)' => MayComeBack(r))
  <2> SUFFICES ASSUME NEW r \in Ratings \ R
               PROVE  (Shown(r)' <=> Shown(r)) /\ (MayComeBack(r)' => MayComeBack(r))
    OBVIOUS
  <2>1. rating'[r] = rating[r] /\ rating[r].work \in Works
    BY <1>6, RatingFields
  <2>2. rating[r].state = "live" => work'[rating[r].work] = work[rating[r].work]
    BY <1>3, <1>7, <2>1
  <2> QED BY <1>1, <2>1, <2>2 DEF Shown, MayComeBack
<1>10. \A r \in R : /\ rating'[r].seq > seqno /\ rating'[r].seq \in Nat /\ rating'[r].state # "none"
                    /\ MayComeBack(r) /\ (Shown(r) \/ Shown(r)')
                    /\ rating'[r].work = rating[r].work /\ ~Folded(r)'
  <2> SUFFICES ASSUME NEW r \in R
               PROVE  /\ rating'[r].seq > seqno /\ rating'[r].seq \in Nat /\ rating'[r].state # "none"
                      /\ MayComeBack(r) /\ (Shown(r) \/ Shown(r)')
                      /\ rating'[r].work = rating[r].work /\ ~Folded(r)'
    OBVIOUS
  <2>1. /\ rating'[r].seq > seqno /\ rating'[r].seq \in Nat /\ rating'[r].state = "live"
        /\ rating[r].state = "live" /\ rating'[r].work = rating[r].work /\ rating[r].work = w
    BY <1>0, <1>2, <1>6
  <2>2. work[w] = "live" \/ work'[w] = "live"
    BY <1>0, <1>1 DEF NextMoeTyped
  <2> QED BY <2>1, <2>2 DEF Shown, MayComeBack, Folded
<1>11. Turn(R)
  BY <1>1, <1>6, <1>9, <1>10, DecisionsWait DEF Turn
<1> QED
  BY <1>8, <1>11 DEF R

LEMMA MergeDecision ==
  ASSUME MayOvertake = FALSE, TypeOK, NextMoeInv, Merge
  PROVE  NextMoeInv' /\ \E R \in SUBSET Ratings : Turn(R)
<1>0. /\ NextMoeTyped /\ work[From] = "live" /\ work[Into] = "live" /\ On(From) # {}
      /\ work' = [work EXCEPT ![From] = "merged"] /\ young' = TRUE
  BY TypeParts DEF Merge
<1>1. PICK f \in IF On(From) # {} /\ On(Into) # {} THEN {{r} : r \in On(From) \cup On(Into)}
                 ELSE {{}} :
        LET R == f \cup (On(From) \ f) IN
        /\ Changed(R, [r \in Ratings |->
             IF r \in f THEN [rating[r] EXCEPT !.state = "folded"]
             ELSE [rating[r] EXCEPT !.work = Into]])
        /\ Decided(R)
  BY DEF Merge
<1> DEFINE R == f \cup (On(From) \ f)
           now == [r \in Ratings |-> IF r \in f THEN [rating[r] EXCEPT !.state = "folded"]
                                     ELSE [rating[r] EXCEPT !.work = Into]]
<1>2. Changed(R, now) /\ Decided(R)
  BY <1>1
<1>3. \A w \in Works : \A r : r \in On(w) <=> r \in Ratings /\ Live(r) /\ rating[r].work = w
  BY DEF On, Live
<1>4. f \in SUBSET (On(From) \cup On(Into)) /\ f \in SUBSET Ratings /\ R \in SUBSET Ratings
  BY <1>1, <1>3, Bounds
<1>5. \A r \in Ratings : /\ r \in R <=> r \in f \/ (Live(r) /\ rating[r].work = From)
                         /\ r \in f => Live(r)
                         /\ r \in R => Live(r)
  BY <1>3, <1>4, Bounds
<1>6. \A r \in Ratings :
        /\ now[r] \in RatingRecords
        /\ r \in f => now[r].state = "folded" /\ now[r].work = rating[r].work
        /\ r \notin f => now[r].state = rating[r].state /\ now[r].work = Into
  <2> SUFFICES ASSUME NEW r \in Ratings
               PROVE  /\ now[r] \in RatingRecords
                      /\ r \in f => now[r].state = "folded" /\ now[r].work = rating[r].work
                      /\ r \notin f => now[r].state = rating[r].state /\ now[r].work = Into
    OBVIOUS
  <2>1. rating[r] \in RatingRecords
    BY <1>0 DEF NextMoeTyped
  <2>2. r \in f => now[r] = [rating[r] EXCEPT !.state = "folded"]
    OBVIOUS
  <2>3. r \notin f => now[r] = [rating[r] EXCEPT !.work = Into]
    OBVIOUS
  <2> HIDE DEF now
  <2> QED BY <2>1, <2>2, <2>3, Bounds DEF RatingRecords
<1> HIDE DEF R, now
<1>7. Renewed(R, now)
  BY <1>0, <1>2, <1>4, <1>6, ChangedRenews
<1>8. ASSUME NEW r \in Ratings
      PROVE  /\ rating'[r].seq \in Nat /\ rating'[r].seq <= seqno'
             /\ \/ r \notin R /\ rating'[r] = rating[r] /\ (Live(r) => rating[r].work = Into)
                \/ /\ r \in f /\ rating'[r].seq > seqno /\ Live(r) /\ Shown(r)
                   /\ rating'[r].state = "folded" /\ rating'[r].work = rating[r].work
                \/ /\ r \in R /\ r \notin f /\ rating'[r].seq > seqno /\ Live(r) /\ Shown(r)
                   /\ rating[r].work = From /\ rating'[r].state = "live" /\ rating'[r].work = Into
             /\ r \in f => r \in R
  <2>1. rating'[r].seq \in Nat /\ rating'[r].seq <= seqno'
        /\ (r \in R => rating'[r].seq > seqno)
    BY <1>4, <1>7, RenewedNumbers
  <2>2. Live(r) => Shown(r) /\ rating[r].work \in {From, Into}
    BY <1>0, RatingFields DEF Live, Shown, Works
  <2>3. r \in R => rating'[r].state = now[r].state /\ rating'[r].work = now[r].work
    BY <1>7 DEF Renewed
  <2>4. r \notin R => rating'[r] = rating[r]
    BY <1>7 DEF Renewed
  <2>5. Live(r) <=> rating[r].state = "live"
    BY DEF Live
  <2> QED BY <1>5, <1>6, <2>1, <2>2, <2>3, <2>4, <2>5
<1>9. work'[From] = "merged" /\ work'[Into] = "live" /\ liked' = liked
  BY <1>0, <1>2, Bounds DEF NextMoeTyped, Decided
<1>10. NextMoeInv'
  <2>1. ASSUME NEW r \in Ratings, Live(r)'
        PROVE  rating'[r].work = Into /\ Live(r) /\ r \notin f
    <3>1. rating'[r].state = "live"
      BY <2>1 DEF Live
    <3>2. r \notin f
      BY <1>8, <3>1
    <3>3. r \notin R => Live(r)
      BY <1>8, <3>1 DEF Live
    <3> QED BY <1>8, <3>1, <3>2, <3>3
  <2>2. ASSUME NEW r \in Ratings, NEW s \in Ratings, Live(r)', Live(s)'
        PROVE  r = s
    <3>1. Live(r) /\ Live(s) /\ r \notin f /\ s \notin f
      BY <2>1, <2>2
    <3>2. CASE rating[r].work = rating[s].work
      BY <3>1, <3>2 DEF NextMoeInv
    <3>3. CASE rating[r].work # rating[s].work
      <4>1. r \in On(From) \cup On(Into) /\ s \in On(From) \cup On(Into)
            /\ On(From) # {} /\ On(Into) # {}
        BY <1>3, <3>1, <3>3, RatingFields, Bounds DEF Works
      <4>2. PICK x \in On(From) \cup On(Into) : f = {x}
        BY <1>1, <4>1
      <4>3. x \in Ratings /\ Live(x) /\ rating[x].work \in Works
        BY <1>3, <4>2, RatingFields, Bounds
      <4>4. rating[x].work = rating[r].work \/ rating[x].work = rating[s].work
        BY <3>3, <4>3, RatingFields DEF Works
      <4>5. x = r \/ x = s
        BY <3>1, <4>3, <4>4 DEF NextMoeInv
      <4> QED BY <3>1, <4>2, <4>5
    <3> QED BY <3>2, <3>3
  <2>3. ASSUME NEW r \in Ratings, rating'[r].state = "folded"
        PROVE  \E s \in Ratings : Live(s)' /\ rating'[s].work = Into
    <3>1. r \in f
      <4>1. rating[r].state # "folded"
        BY <1>0 DEF NextMoeInv
      <4> QED BY <1>8, <2>3, <4>1
    <3>2. On(From) # {} /\ On(Into) # {}
      BY <1>1, <3>1
    <3>3. PICK x \in On(From) \cup On(Into) : f = {x}
      BY <1>1, <3>2
    <3>4. PICK y \in On(From), z \in On(Into) : TRUE
      BY <3>2
    <3>5. /\ y \in Ratings /\ Live(y) /\ rating[y].work = From
          /\ z \in Ratings /\ Live(z) /\ rating[z].work = Into
      BY <1>3, <3>4, Bounds
    <3>6. y \notin f \/ z \notin f
      BY <3>3, <3>5, Bounds
    <3>7. \A s \in Ratings \ f : Live(s) => Live(s)'
      BY <1>8 DEF Live
    <3> QED BY <2>1, <3>5, <3>6, <3>7
  <2>4. \A r \in Ratings : rating'[r].state = "none" =>
          rating'[r].work = Home[r] /\ rating'[r].seq = 0 /\ r \notin liked'
    BY <1>8, <1>9 DEF NextMoeInv
  <2> QED BY <1>8, <1>9, <2>1, <2>2, <2>3, <2>4 DEF NextMoeInv
<1>11. \A r \in Ratings \ R : /\ rating'[r] = rating[r] /\ (Shown(r)' <=> Shown(r))
                              /\ MayComeBack(r)' => MayComeBack(r)
  <2> SUFFICES ASSUME NEW r \in Ratings \ R
               PROVE  /\ rating'[r] = rating[r] /\ (Shown(r)' <=> Shown(r))
                      /\ MayComeBack(r)' => MayComeBack(r)
    OBVIOUS
  <2>1. rating'[r] = rating[r] /\ (Live(r) => rating[r].work = Into)
    BY <1>8
  <2>2. rating[r].state # "folded"
    BY <1>0 DEF NextMoeInv
  <2> QED BY <1>0, <1>9, <2>1, <2>2 DEF Shown, MayComeBack, Live
<1>12. \A r \in R :
         /\ rating'[r].seq \in Nat /\ rating'[r].seq > seqno /\ rating'[r].state # "none"
         /\ MayComeBack(r) /\ Shown(r) /\ ~Hidden(r)
         /\ ~Shown(r)' => rating'[r].work = rating[r].work
  <2> SUFFICES ASSUME NEW r \in R
               PROVE  /\ rating'[r].seq \in Nat /\ rating'[r].seq > seqno /\ rating'[r].state # "none"
                      /\ MayComeBack(r) /\ Shown(r) /\ ~Hidden(r)
                      /\ ~Shown(r)' => rating'[r].work = rating[r].work
    OBVIOUS
  <2>1. r \in Ratings
    BY <1>4
  <2>2. Shown(r) /\ rating'[r].seq \in Nat /\ rating'[r].seq > seqno
        /\ \/ rating'[r].state = "folded" /\ rating'[r].work = rating[r].work
           \/ rating'[r].state = "live" /\ rating'[r].work = Into
    BY <1>8, <2>1
  <2>3. rating'[r].state = "live" /\ rating'[r].work = Into => Shown(r)'
    BY <1>9 DEF Shown
  <2> QED BY <2>2, <2>3, Kinds
<1>13. Turn(R)
  BY <1>2, <1>9, <1>11, <1>12, DecisionsWait DEF Turn
<1> QED
  BY <1>4, <1>10, <1>13

LEMMA UndoDecision ==
  ASSUME MayOvertake = FALSE, TypeOK, NextMoeInv, Undo
  PROVE  NextMoeInv' /\ \E R \in SUBSET Ratings : Turn(R)
<1> DEFINE R == {r \in Ratings : \/ rating[r].state = "folded"
                                 \/ rating[r].state = "live" /\ rating[r].work # Home[r]}
           now == [r \in Ratings |-> [rating[r] EXCEPT !.state = "live", !.work = Home[r]]]
<1>0. /\ NextMoeTyped /\ work[From] = "merged" /\ work[Into] = "live" /\ young = TRUE
      /\ work' = [work EXCEPT ![From] = "live"] /\ young' = FALSE
  BY TypeParts DEF Undo, NextMoeTyped
<1>1. Changed(R, now) /\ Decided(R) /\ R \in SUBSET Ratings
  BY DEF Undo
<1>2. \A r \in Ratings : now[r] \in RatingRecords /\ now[r].state = "live" /\ now[r].work = Home[r]
  BY <1>0, Bounds DEF NextMoeTyped, RatingRecords
<1>3. \A r \in Ratings :
        r \in R <=> rating[r].state = "folded" \/ (rating[r].state = "live" /\ rating[r].work # Home[r])
  OBVIOUS
<1> HIDE DEF R, now
<1>4. Renewed(R, now)
  BY <1>0, <1>1, <1>2, ChangedRenews
<1>5. ASSUME NEW r \in Ratings
      PROVE  /\ rating'[r].seq \in Nat /\ rating'[r].seq <= seqno'
             /\ r \in R => /\ rating'[r].seq > seqno
                           /\ rating'[r].state = "live" /\ rating'[r].work = Home[r]
             /\ r \notin R => rating'[r] = rating[r]
  BY <1>1, <1>2, <1>4, <1>5, RenewedNumbers DEF Renewed
<1>6. work'[From] = "live" /\ work'[Into] = "live" /\ liked' = liked
      /\ \A w \in Works : work'[w] = "live"
  BY <1>0, <1>1, Bounds DEF NextMoeTyped, Decided, Works
<1>7. NextMoeInv'
  <2>1. \A r \in Ratings : Live(r)' => rating'[r].work = Home[r]
    BY <1>3, <1>5 DEF Live
  <2>2. \A r \in Ratings : rating'[r].state # "folded"
    BY <1>3, <1>5
  <2>3. \A r \in Ratings : rating'[r].state = "none" => 
          rating'[r].work = Home[r] /\ rating'[r].seq = 0 /\ r \notin liked'
    BY <1>5, <1>6 DEF NextMoeInv
  <2>4. \A r, s \in Ratings : Live(r)' /\ Live(s)' /\ rating'[r].work = rating'[s].work => r = s
    BY <2>1, Bounds
  <2> QED BY <1>5, <1>6, <2>2, <2>3, <2>4 DEF NextMoeInv
<1>8. ASSUME NEW r \in Ratings
      PROVE  /\ Shown(r)' <=> rating'[r].state = "live"
             /\ Shown(r) <=> Live(r)
             /\ MayComeBack(r)' <=> rating'[r].state = "live"
             /\ MayComeBack(r) <=> Live(r) \/ rating[r].state = "folded"
             /\ ~Folded(r)' /\ ~Hidden(r)
  <2>1. Live(r) => rating[r].work = Into
    BY <1>0 DEF NextMoeInv
  <2>2. rating'[r].work \in Works
    BY <1>1, <1>4, RenewedNumbers
  <2> QED BY <1>0, <1>6, <2>1, <2>2 DEF Shown, MayComeBack, Live, Folded, Hidden
<1>9. Turn(R)
  <2>1. \A r \in Ratings \ R : /\ rating'[r] = rating[r] /\ (Shown(r)' <=> Shown(r))
                               /\ MayComeBack(r)' => MayComeBack(r)
    BY <1>5, <1>8 DEF Live
  <2>2. \A r \in R :
         /\ rating'[r].seq \in Nat /\ rating'[r].seq > seqno /\ rating'[r].state # "none"
         /\ MayComeBack(r) /\ Shown(r)' /\ ~Hidden(r) /\ ~Folded(r)'
    BY <1>1, <1>3, <1>5, <1>8 DEF Live
  <2> QED BY <1>1, <2>1, <2>2, DecisionsWait DEF Turn
<1> QED
  BY <1>1, <1>7, <1>9

LEMMA MonthKeeps ==
  ASSUME MirrorInv, MonthPasses
  PROVE  NextMoeInv' /\ EntryInv' /\ RunInv' /\ TableInv' /\ SweepInv' /\ WriteInv'
<1>0. TypeOK /\ NextMoeInv /\ TableInv
  BY DEF MirrorInv
<1>1. /\ UNCHANGED <<work, rating, seqno, row, parked, run, sweep, write, liked, turns>>
      /\ young' = FALSE /\ turns = {} /\ run = Idle /\ sweep = SweepIdle /\ write = NoWrite
      /\ \A r \in Ratings : Mirrored(r)
  BY DEF MonthPasses, history
<1>2. \A r \in Ratings : /\ (Live(r)' <=> Live(r)) /\ (Shown(r)' <=> Shown(r)) /\ ~Folded(r)'
                         /\ (Hidden(r)' <=> Hidden(r)) /\ (MayComeBack(r)' <=> Live(r))
  BY <1>1 DEF Live, Shown, Folded, Hidden, MayComeBack
<1>3. NextMoeInv'
  BY <1>0, <1>1, <1>2 DEF NextMoeInv
<1>4. EntryInv' /\ RunInv' /\ SweepInv' /\ WriteInv'
  <2>1. run'.todo = {} /\ run'.reason = "" /\ \A w \in Works : run'.fates[w] = "unasked"
    BY <1>1 DEF Idle, Unasked
  <2>2. sweep'.pc = "idle" /\ sweep'.at = {}
    BY <1>1 DEF SweepIdle
  <2>3. write' = NoWrite /\ write'.pc = "idle"
    BY <1>1 DEF NoWrite
  <2> QED BY <2>1, <2>2, <2>3 DEF EntryInv, RunInv, SweepInv, WriteInv
<1>5. ASSUME NEW r \in Ratings
      PROVE  RowOK(r)'
  <2>1. RowOK(r) /\ (row[r].there => held[r].reason = "") /\ held[r] \in Holds
    BY <1>0, TypeParts DEF TableInv, NotBoth, TablesTyped
  <2>2. held'[r] = [held[r] EXCEPT !.old = held[r].reason # ""]
    BY DEF MonthPasses
  <2>3. /\ held'[r].reason = held[r].reason /\ held'[r].work = held[r].work
        /\ held'[r].likes = held[r].likes
    BY <2>1, <2>2 DEF Holds
  <2>5. Live(r) => held[r].reason # "merged"
    <3>1. Shown(r) => row[r].there
      BY <1>1 DEF Mirrored
    <3>2. ~Shown(r) => ~row[r].there
      BY <1>1 DEF Mirrored
    <3> QED BY <2>1, <3>1, <3>2, Kinds DEF RowOK
  <2>6. ~Live(r) => rating[r].state # "live"
    BY DEF Live
  <2> QED BY <1>1, <1>2, <2>1, <2>3, <2>5, Kinds DEF RowOK
<1> QED
  BY <1>3, <1>4, <1>5 DEF TableInv

(* The steps of the forum: NextMoe's part stays as it is.                  *)
LEMMA SameKinds ==
  ASSUME UNCHANGED nextmoe
  PROVE  /\ UNCHANGED <<work, young, rating, seqno>>
         /\ \A r : /\ Live(r)' <=> Live(r)
                   /\ Shown(r)' <=> Shown(r)
                   /\ Folded(r)' <=> Folded(r)
                   /\ Hidden(r)' <=> Hidden(r)
                   /\ MayComeBack(r)' <=> MayComeBack(r)
         /\ \A w : Fate(w)' = Fate(w)
<1>1. UNCHANGED <<work, young, rating, seqno>>
  BY DEF nextmoe
<1> QED
  BY <1>1 DEF Live, Shown, Folded, Hidden, MayComeBack, Fate

LEMMA NextMoeWaits ==
  ASSUME NextMoeInv, UNCHANGED <<nextmoe, liked>>
  PROVE  NextMoeInv'
BY SameKinds DEF NextMoeInv

LEMMA OthersWait ==
  ASSUME NextMoeInv, SweepInv, WriteInv, UNCHANGED <<nextmoe, liked, sweep, write>>,
         turns' \in SUBSET turns
  PROVE  NextMoeInv' /\ SweepInv' /\ WriteInv'
<1>1. SweepInv'
  BY SameKinds DEF SweepInv
<1>2. WriteInv'
  BY SameKinds DEF WriteInv
<1> QED
  BY <1>1, <1>2, NextMoeWaits

LEMMA RowStays ==
  ASSUME UNCHANGED <<nextmoe, liked>>, NEW r \in Ratings, RowOK(r), row'[r] = row[r],
         held'[r] = held[r], parked'[r] = parked[r], r \in turns' <=> r \in turns
  PROVE  RowOK(r)'
<1>1. work' = work /\ rating' = rating /\ liked' = liked
  BY SameKinds
<1>2. /\ Live(r)' <=> Live(r)
      /\ Shown(r)' <=> Shown(r)
      /\ Folded(r)' <=> Folded(r)
      /\ Hidden(r)' <=> Hidden(r)
      /\ MayComeBack(r)' <=> MayComeBack(r)
  BY SameKinds
<1> QED
  BY <1>1, <1>2, ZenonT(40) DEF RowOK

(* A row of a rating that is written, of a work none hidden is of, with a  *)
(* decision that stays to be mirrored if the row is not what NextMoe has.  *)
LEMMA MirrorKeepsRows ==
  ASSUME TypeOK, TableInv, UNCHANGED <<nextmoe, parked, liked>>,
         NEW r \in Ratings, NEW w \in Works, NEW v \in 0 .. MaxEdits, MirrorRating(r, w, v),
         turns' \in SUBSET turns, turns \ {r} \in SUBSET turns', rating[r].state # "none",
         MayComeBack(r) => \/ rating[r].work = w /\ (Shown(r) \/ r \in turns)
                           \/ Shown(r) /\ r \in turns,
         r \notin turns' /\ MayComeBack(r) => Shown(r) /\ rating[r].work = w,
         \A s \in Ratings \ {r} : Hidden(s) => w # rating[s].work
  PROVE  TableInv'
<1>0. UNCHANGED <<work, young, rating>> /\ TablesTyped /\ OneRow /\ NotBoth
  BY SameKinds, TypeParts
<1>1. /\ row'[r].there /\ row'[r].work = w /\ held'[r] = NoHold
      /\ row'[r].likes = ((row[r].there /\ row[r].likes) \/ held[r].likes)
      /\ \A s \in Ratings \ {r} :
              \/ /\ row[s].there /\ row[s].work = w /\ row'[s] = NoRow
                 /\ held'[s] = [reason |-> "merged", work |-> row[s].work, likes |-> row[s].likes,
                                old |-> FALSE]
              \/ /\ ~(row[s].there /\ row[s].work = w)
                 /\ row'[s] = row[s] /\ held'[s] = held[s]
  BY <1>0, MirrorTypes
<1>2. NoHold.reason = "" /\ NoHold.likes = FALSE /\ NoRow.there = FALSE /\ NoRow.likes = FALSE
  BY DEF NoHold, NoRow
<1>3. RowOK(r)'
  <2>1. RowOK(r)
    BY DEF TableInv
  <2>2. held'[r].reason = "" /\ held'[r].likes = FALSE
    BY <1>1, <1>2
  <2>3. r \in turns' => r \in turns
    OBVIOUS
  <2>4. r \in liked /\ MayComeBack(r) => row'[r].likes \/ held'[r].likes
    BY <1>1, <2>1 DEF RowOK
  <2>5. Folded(r) => row'[r].work = rating[r].work
    BY <1>1, Kinds
  <2> QED BY <1>0, <1>1, <2>1, <2>2, <2>3, <2>4, <2>5, SameKinds, Kinds DEF RowOK
<1>4. ASSUME NEW s \in Ratings \ {r}
      PROVE  RowOK(s)'
  <2>1. RowOK(s) /\ (s \in turns' <=> s \in turns) /\ (row[s].there => held[s].reason = "")
    BY <1>0 DEF TableInv, NotBoth
  <2>2. CASE row'[s] = row[s] /\ held'[s] = held[s]
    BY <2>1, <2>2, RowStays
  <2>3. CASE /\ row[s].there /\ row[s].work = w /\ row'[s] = NoRow
             /\ held'[s] = [reason |-> "merged", work |-> row[s].work, likes |-> row[s].likes,
                            old |-> FALSE]
    <3>1. ~row'[s].there /\ ~row'[s].likes /\ held'[s].reason = "merged" /\ ~held'[s].old
          /\ held'[s].likes = row[s].likes
      <4>1. ~row'[s].there /\ ~row'[s].likes
        BY <1>2, <2>3
      <4>2. held'[s] = [reason |-> "merged", work |-> row[s].work, likes |-> row[s].likes,
                        old |-> FALSE]
        BY <2>3
      <4>3. held'[s].reason = "merged" /\ held'[s].old = FALSE /\ held'[s].likes = row[s].likes
        BY <4>2
      <4> QED BY <4>1, <4>3
    <3>2. ~Hidden(s)
      BY <2>1, <2>3 DEF RowOK
    <3> QED BY <1>0, <2>1, <2>3, <3>1, <3>2, SameKinds DEF RowOK
  <2> QED BY <1>1, <2>2, <2>3
<1> QED
  BY <1>3, <1>4 DEF TableInv

(* A row that goes: without its likes if the rating is gone for good, into *)
(* a hold of the deletion if it is hidden, of the merge if it is folded.   *)
LEMMA GoneKeepsRows ==
  ASSUME TypeOK, TableInv, UNCHANGED <<nextmoe, liked>>, NEW r \in Ratings,
         \/ DropRating(r) /\ ~MayComeBack(r)
         \/ HoldRating(r, "deleted") /\ (MayComeBack(r) => Hidden(r))
         \/ HoldRating(r, "merged") /\ (MayComeBack(r) => Folded(r)),
         \/ parked' = parked /\ ~MayComeBack(r)
         \/ parked' = [parked EXCEPT ![r] = NoWork],
         rating[r].state # "none",
         turns' \in SUBSET turns, turns \ {r} \in SUBSET turns'
  PROVE  TableInv'
<1>0. UNCHANGED <<work, young, rating>> /\ TablesTyped /\ OneRow /\ NotBoth
  BY SameKinds, TypeParts
<1>1. /\ row'[r] = NoRow
      /\ \A s \in Ratings \ {r} : row'[s] = row[s] /\ held'[s] = held[s] /\ parked'[s] = parked[s]
  BY <1>0, GoneTypes DEF TablesTyped
<1>2. ~row'[r].there /\ ~row'[r].likes
  BY <1>1 DEF NoRow
<1>3. RowOK(r)'
  <2>1. RowOK(r) /\ (row[r].there => held[r].reason = "")
    BY <1>0 DEF TableInv, NotBoth
  <2>2. parked'[r] = NoWork \/ (parked'[r] = parked[r] /\ ~MayComeBack(r))
    BY <1>0 DEF TablesTyped
  <2>3. CASE DropRating(r) /\ ~MayComeBack(r)
    BY <1>0, <1>2, <2>1, <2>2, <2>3, SameKinds, Kinds DEF RowOK, DropRating
  <2>4. ASSUME NEW reason \in {"deleted", "merged"}, HoldRating(r, reason)
        PROVE  \/ held'[r] = held[r] /\ (~row[r].there \/ held[r].reason # "")
               \/ /\ row[r].there /\ held[r].reason = "" /\ held'[r].reason = reason
                  /\ held'[r].work = row[r].work /\ held'[r].likes = row[r].likes
                  /\ ~held'[r].old
    <3>1. held'[r] = Held(r, reason)
      BY <1>0, <2>4 DEF HoldRating, TablesTyped
    <3>2. CASE ~row[r].there \/ held[r].reason # ""
      BY <3>1, <3>2 DEF Held
    <3>3. CASE ~(~row[r].there \/ held[r].reason # "")
      <4>1. held'[r] = [reason |-> reason, work |-> row[r].work, likes |-> row[r].likes, old |-> FALSE]
        BY <3>1, <3>3 DEF Held
      <4>2. /\ held'[r].reason = reason /\ held'[r].work = row[r].work
            /\ held'[r].likes = row[r].likes /\ held'[r].old = FALSE
        BY <4>1
      <4> QED BY <3>3, <4>2
    <3> QED BY <3>2, <3>3
  <2>5. CASE HoldRating(r, "deleted") /\ (MayComeBack(r) => Hidden(r))
    <3>1. MayComeBack(r) => held'[r].reason = "deleted" /\ held'[r].work = rating[r].work
      BY <2>1, <2>4, <2>5, Kinds DEF RowOK
    <3> QED BY <1>0, <1>2, <2>1, <2>2, <2>4, <2>5, <3>1, SameKinds, Kinds DEF RowOK
  <2>6. CASE HoldRating(r, "merged") /\ (MayComeBack(r) => Folded(r))
    <3>1. ~Live(r)
      BY <2>6, Kinds
    <3>2. \/ held'[r].reason = held[r].reason /\ held'[r].likes = held[r].likes
             /\ held'[r].old = held[r].old /\ (~row[r].there \/ held[r].reason # "")
          \/ /\ row[r].there /\ held[r].reason = "" /\ held'[r].reason = "merged"
             /\ held'[r].likes = row[r].likes /\ ~held'[r].old
      BY <2>4, <2>6
    <3> QED BY <1>0, <1>2, <2>1, <2>2, <3>1, <3>2, SameKinds, Kinds DEF RowOK
  <2> QED BY <2>3, <2>5, <2>6
<1>4. ASSUME NEW s \in Ratings \ {r}
      PROVE  RowOK(s)'
  <2>1. RowOK(s) /\ (s \in turns' <=> s \in turns)
    BY DEF TableInv
  <2> QED BY <1>1, <2>1, RowStays
<1> QED
  BY <1>3, <1>4 DEF TableInv

(* The entries that are left when one is done with.                        *)
LEMMA DoneKeepsEntries ==
  ASSUME TypeOK, EntryInv, RunInv, UNCHANGED nextmoe, NEW e \in run.todo,
         run'.todo \in SUBSET {f \in run.todo : f.id # e.id}, run'.reason = "",
         run'.fates = run.fates,
         \A f \in run.todo : f.own # NoWork => f = e,
         \A r \in Ratings \ {e.id} : /\ parked'[r] = parked[r] /\ (r \in turns' <=> r \in turns)
                                     /\ ~row[r].there => ~row'[r].there
  PROVE  EntryInv' /\ RunInv'
<1>0. UNCHANGED <<work, young, rating>>
  BY SameKinds
<1>1. ASSUME NEW f \in run'.todo
      PROVE  EntryOK(f)'
  <2>1. f \in run.todo /\ f.id \in Ratings \ {e.id} /\ EntryOK(f)
    BY EntryFields DEF EntryInv
  <2> QED BY <1>0, <2>1, SameKinds DEF EntryOK
<1>2. EntryInv'
  BY <1>1 DEF EntryInv
<1>3. RunInv'
  BY SameKinds DEF RunInv
<1> QED
  BY <1>2, <1>3

(* What NextMoe and the forum have of a gone entry's rating with a row.    *)
LEMMA GoneAtHand ==
  ASSUME TypeOK, NextMoeInv, EntryInv, TableInv, NEW e \in run.todo, e.gone, row[e.id].there,
         MayComeBack(e.id)
  PROVE  /\ e.id \in turns /\ ~Shown(e.id) /\ e.work = rating[e.id].work
         /\ Live(e.id) => work[e.work] = "deleted"
         /\ Folded(e.id) => row[e.id].work = e.work /\ work[Into] = "live" /\ work[From] = "merged"
<1>1. EntryOK(e) /\ RowOK(e.id) /\ e.id \in Ratings /\ e.work \in Works /\ e.work # NoWork
  BY EntryFields DEF EntryInv, TableInv
<1>2. ~Shown(e.id) /\ e.work = rating[e.id].work
  BY <1>1 DEF EntryOK, RowOK
<1>3. e.id \in turns
  BY <1>1, <1>2 DEF RowOK
<1>4. Live(e.id) => work[e.work] = "deleted"
  <2> SUFFICES ASSUME Live(e.id)
               PROVE  work[e.work] = "deleted"
    OBVIOUS
  <2>1. work[e.work] # "live"
    BY <1>2 DEF Live, Shown
  <2>2. work[e.work] \in {"live", "deleted", "merged"}
    BY <1>1, TypeParts DEF NextMoeTyped
  <2>3. work[e.work] # "merged"
    <3>1. CASE e.work = Into
      BY <3>1 DEF NextMoeInv
    <3>2. CASE e.work = From
      BY <1>1, <1>2, <3>2, Bounds DEF NextMoeInv
    <3> QED BY <1>1, <3>1, <3>2 DEF Works
  <2> QED BY <2>1, <2>2, <2>3
<1>5. Folded(e.id) => row[e.id].work = e.work /\ work[Into] = "live" /\ work[From] = "merged"
  BY <1>1, <1>2, <1>3 DEF RowOK, Folded, NextMoeInv
<1> QED
  BY <1>2, <1>3, <1>4, <1>5

LEMMA NextMoeKeeps ==
  ASSUME MayOvertake = FALSE, MirrorInv, NextMoe, TypeOK'
  PROVE  MirrorInv'
<1>0. TypeOK /\ NextMoeInv /\ EntryInv /\ RunInv /\ TableInv /\ SweepInv /\ WriteInv
  BY DEF MirrorInv
<1>1. ASSUME NextMoeInv', \E R \in SUBSET Ratings : Turn(R)
      PROVE  MirrorInv'
  BY <1>0, <1>1, TurnKeepsRows, TurnKeepsSteps DEF MirrorInv
<1>2. ASSUME NEW w \in Works, DeleteWork(w) \/ RestoreWork(w)
      PROVE  MirrorInv'
  <2>1. On(w) \in SUBSET Ratings
    BY DEF On
  <2> QED BY <1>0, <1>1, <1>2, <2>1, WorkDecision
<1>3. CASE Merge
  BY <1>0, <1>1, <1>3, MergeDecision
<1>4. CASE Undo
  BY <1>0, <1>1, <1>4, UndoDecision
<1>5. CASE MonthPasses
  BY <1>5, MonthKeeps DEF MirrorInv
<1>6. CASE ClearedElsewhere
  <2>1. PICK r \in Ratings : Cleared(r)
    BY <1>6 DEF ClearedElsewhere
  <2>2. write = NoWrite /\ write' = write /\ UNCHANGED <<forum, history, run, sweep>> /\ liked' = liked
    BY <1>6 DEF ClearedElsewhere, history
  <2>3. PICK R \in SUBSET Ratings : Authored(R)
    BY <1>0, <2>1, Clears
  <2>4. NextMoeInv'
    BY <1>0, <2>2, <2>3, AuthorKeepsNextMoe
  <2>5. TableInv' /\ EntryInv' /\ RunInv' /\ SweepInv'
    BY <1>0, <2>2, <2>3, AuthorKeepsRows, AuthorKeepsSteps
  <2>6. WriteInv'
    <3>1. write' = NoWrite /\ NoWrite.pc = "idle"
      BY <2>2 DEF NoWrite
    <3> QED BY <3>1 DEF WriteInv
  <2> QED BY <2>4, <2>5, <2>6 DEF MirrorInv
<1> QED
  BY <1>2, <1>3, <1>4, <1>5, <1>6 DEF NextMoe

LEMMA RequestKeeps ==
  ASSUME MayOvertake = FALSE, MirrorInv, TypeOK',
         PutMyRating \/ DeleteMyRating \/ WriteThrough \/ WriteFails
  PROVE  MirrorInv'
<1>0. TypeOK /\ NextMoeInv /\ EntryInv /\ RunInv /\ TableInv /\ SweepInv /\ WriteInv
  BY DEF MirrorInv
<1>1. CASE PutMyRating
  <2>1. UNCHANGED <<forum, history, run, sweep>> /\ liked' = liked /\ turns = {} /\ turns' = turns
    BY <1>1 DEF PutMyRating, history
  <2>2. PICK r \in Ratings, v \in Int : (Rated(r) \/ Edited(r)) /\ Answered(r, v)
    <3>1. ASSUME NEW r \in Ratings, Edited(r), Answered(r, rating[r].ver + 1)
          PROVE  rating[r].ver + 1 \in Int
      BY <1>0, TypeParts, Bounds DEF NextMoeTyped, RatingRecords
    <3>2. CASE \E r \in Ratings : Rated(r) /\ Answered(r, 0)
      BY <3>2
    <3>3. CASE \E r \in Ratings : Edited(r) /\ Answered(r, rating[r].ver + 1)
      BY <3>1, <3>3
    <3> QED BY <1>1, <3>2, <3>3 DEF PutMyRating
  <2>3. Authored({r}) /\ Shown(r)' /\ rating'[r].work = rating[r].work
    BY <1>0, <2>2, Rates, Edits
  <2>4. NextMoeInv' /\ TableInv' /\ EntryInv' /\ RunInv' /\ SweepInv'
    BY <1>0, <2>1, <2>3, AuthorKeepsNextMoe, AuthorKeepsRows, AuthorKeepsSteps
  <2>5. WriteInv'
    <3>1. write'.pc = "mirror" /\ write'.ids = {r} /\ write'.work = rating[r].work
      BY <2>2 DEF Answered
    <3> QED BY <2>1, <2>3, <3>1 DEF WriteInv
  <2> QED BY <2>4, <2>5 DEF MirrorInv
<1>2. CASE DeleteMyRating
  <2>1. UNCHANGED <<forum, history, run, sweep>> /\ liked' = liked /\ turns = {} /\ turns' = turns
    BY <1>2 DEF DeleteMyRating, history
  <2>2. PICK r \in Ratings :
          /\ row[r].there
          /\ write' = [NoWrite EXCEPT !.pc = "drop", !.ids = {r}]
          /\ \/ \E c \in On(row[r].work) : Cleared(c)
             \/ On(row[r].work) = {} /\ UNCHANGED nextmoe
    BY <1>2 DEF DeleteMyRating
  <2>3. rating[r].state # "none" /\ (MayComeBack(r) => r \in On(row[r].work))
    <3>1. RowOK(r)
      BY <1>0 DEF TableInv
    <3>2. MayComeBack(r) => Shown(r) /\ row[r].work = rating[r].work
      BY <2>1, <2>2, <3>1 DEF RowOK
    <3> QED BY <2>2, <3>1, <3>2, Kinds DEF RowOK, On
  <2>4. /\ NextMoeInv' /\ TableInv' /\ EntryInv' /\ RunInv' /\ SweepInv'
        /\ rating'[r].state # "none" /\ ~MayComeBack(r)'
    <3>1. CASE UNCHANGED nextmoe /\ On(row[r].work) = {}
      <4>1. UNCHANGED <<row, held, parked, run, sweep, liked, turns>>
        BY <2>1 DEF forum, history
      <4>2. NextMoeInv' /\ SweepInv'
        BY <1>0, <3>1, <4>1, SameKinds, NextMoeWaits DEF SweepInv
      <4>3. TableInv'
        BY <1>0, <3>1, <4>1, RowStays DEF TableInv
      <4>4. RunInv'
        BY <1>0, <3>1, <4>1, SameKinds DEF RunInv, OwnedOK
      <4>5. EntryInv'
        BY <1>0, <3>1, <4>1, SameKinds DEF EntryInv, EntryOK
      <4>6. rating'[r].state # "none" /\ ~MayComeBack(r)'
        BY <2>3, <3>1, SameKinds
      <4> QED BY <4>2, <4>3, <4>4, <4>5, <4>6
    <3>2. ASSUME NEW c \in On(row[r].work), Cleared(c)
          PROVE  /\ NextMoeInv' /\ TableInv' /\ EntryInv' /\ RunInv' /\ SweepInv'
                 /\ rating'[r].state # "none" /\ ~MayComeBack(r)'
      <4>1. c \in Ratings /\ Live(c) /\ rating[c].work = row[r].work
        BY DEF On, Live
      <4>2. PICK R \in SUBSET Ratings : Authored(R)
        BY <1>0, <3>2, <4>1, Clears
      <4>3. NextMoeInv' /\ TableInv' /\ EntryInv' /\ RunInv' /\ SweepInv'
        BY <1>0, <2>1, <4>2, AuthorKeepsNextMoe, AuthorKeepsRows, AuthorKeepsSteps
      <4>4. rating'[r].state # "none"
        <5>1. Shown(r)' => rating'[r].state = "live"
          BY DEF Shown
        <5> QED BY <2>3, <4>2, <5>1 DEF Authored
      <4>5. ~MayComeBack(r)'
        <5> SUFFICES ASSUME MayComeBack(r)'
                     PROVE  FALSE
          OBVIOUS
        <5>1. MayComeBack(r)
          BY <1>0, <2>1, <2>3, <4>2, AuthorKeepsRows
        <5>2. r = c
          BY <1>0, <2>3, <4>1, <5>1 DEF On, Live, NextMoeInv
        <5>3. rating'[r].state = "cleared"
          BY <1>0, <3>2, <5>2, Clears
        <5> QED BY <5>3, NextKinds
      <4> QED BY <4>3, <4>4, <4>5
    <3> QED BY <2>2, <3>1, <3>2
  <2>5. WriteInv'
    <3>1. write' = [pc |-> "drop", ids |-> {r}, work |-> From, ver |-> 0]
      BY <2>2 DEF NoWrite
    <3>2. write'.pc = "drop" /\ write'.ids = {r}
      BY <3>1
    <3> QED BY <2>1, <2>4, <3>2 DEF WriteInv
  <2> QED BY <2>4, <2>5 DEF MirrorInv
<1>3. CASE WriteThrough
  <2>1. /\ UNCHANGED <<nextmoe, parked, run, sweep, liked, turns>> /\ write' = NoWrite
        /\ liked' = liked /\ parked' = parked /\ run' = run /\ sweep' = sweep /\ turns' = turns
    BY <1>3 DEF WriteThrough, history
  <2>2. PICK r \in write.ids : \/ write.pc = "mirror" /\ MirrorRating(r, write.work, write.ver)
                               \/ write.pc = "drop" /\ DropRating(r)
    BY <1>3 DEF WriteThrough
  <2>3. r \in Ratings /\ write.work \in Works /\ write.ver \in 0 .. MaxEdits
    BY <1>0, TypeParts DEF StepsTyped, Writes
  <2>4. turns = {}
    <3>1. NoWrite.pc = "idle"
      BY DEF NoWrite
    <3> QED BY <1>0, <2>2, <3>1 DEF WriteInv
  <2>5. NextMoeInv' /\ SweepInv'
    BY <1>0, <2>1, SameKinds, NextMoeWaits DEF SweepInv
  <2>6. WriteInv'
    <3>1. NoWrite.pc = "idle"
      BY DEF NoWrite
    <3> QED BY <2>1, <3>1 DEF WriteInv
  <2>7. RunInv'
    BY <1>0, <2>1, SameKinds DEF RunInv, OwnedOK
  <2>8. EntryInv'
    BY <1>0, <2>1, <2>4, SameKinds DEF EntryInv, EntryOK
  <2>9. TableInv'
    <3>1. CASE write.pc = "mirror" /\ MirrorRating(r, write.work, write.ver)
      <4>1. Shown(r) /\ rating[r].work = write.work
        BY <1>0, <2>2, <3>1 DEF WriteInv
      <4>2. rating[r].state # "none"
        BY <4>1, Kinds
      <4>3. \A s \in Ratings \ {r} : Hidden(s) => write.work # rating[s].work
        BY <1>0, <2>3, <4>1, Kinds DEF NextMoeInv
      <4> QED BY <1>0, <2>1, <2>3, <2>4, <3>1, <4>1, <4>2, <4>3, MirrorKeepsRows
    <3>2. CASE write.pc = "drop" /\ DropRating(r)
      <4>1. ~MayComeBack(r) /\ rating[r].state # "none"
        BY <1>0, <2>2, <3>2 DEF WriteInv
      <4> QED BY <1>0, <2>1, <2>3, <3>2, <4>1, GoneKeepsRows
    <3> QED BY <2>2, <3>1, <3>2
  <2> QED BY <2>5, <2>6, <2>7, <2>8, <2>9 DEF MirrorInv
<1>4. CASE WriteFails
  <2>1. /\ UNCHANGED <<nextmoe, liked>> /\ write' = NoWrite /\ UNCHANGED <<row, held, parked>>
        /\ liked' = liked /\ run' = run /\ sweep' = sweep /\ turns' = turns
    BY <1>4 DEF WriteFails, history, forum
  <2>2. NextMoeInv' /\ SweepInv'
    BY <1>0, <2>1, SameKinds, NextMoeWaits DEF SweepInv
  <2>3. WriteInv'
    <3>1. NoWrite.pc = "idle"
      BY DEF NoWrite
    <3> QED BY <2>1, <3>1 DEF WriteInv
  <2>4. RunInv'
    BY <1>0, <2>1, SameKinds DEF RunInv, OwnedOK
  <2>5. EntryInv'
    BY <1>0, <2>1, SameKinds DEF EntryInv, EntryOK
  <2>6. TableInv'
    BY <1>0, <2>1, RowStays DEF TableInv
  <2> QED BY <2>2, <2>3, <2>4, <2>5, <2>6 DEF MirrorInv
<1> QED
  BY <1>1, <1>2, <1>3, <1>4

LEMMA SweepKeeps ==
  ASSUME MirrorInv, TypeOK', Sweep
  PROVE  MirrorInv'
<1>0. TypeOK /\ NextMoeInv /\ EntryInv /\ RunInv /\ TableInv /\ SweepInv /\ WriteInv
  BY DEF MirrorInv
<1>1. /\ UNCHANGED <<nextmoe, liked>> /\ row' = row /\ parked' = parked /\ run' = run
      /\ write' = write /\ liked' = liked /\ turns' = turns
  BY DEF Sweep, SweepStarts, SweepAsksFate, SweepAsksCurrent, DropDeletedHold, forum, history
<1>2. UNCHANGED <<work, rating, young>>
  BY <1>1, SameKinds
<1>3. NextMoeInv'
  BY <1>0, <1>1, NextMoeWaits
<1>4. RunInv'
  BY <1>0, <1>1, SameKinds DEF RunInv, OwnedOK
<1>5. EntryInv'
  BY <1>0, <1>1, SameKinds DEF EntryInv, EntryOK
<1>6. WriteInv'
  BY <1>0, <1>1, SameKinds DEF WriteInv
<1>7. sweep.at \in SUBSET Ratings /\ sweep.work \in Works /\ sweep \in Sweeps
  BY <1>0, TypeParts DEF StepsTyped, Sweeps
<1>8. SweepIdle.pc = "idle" /\ SweepIdle.at = {}
  BY DEF SweepIdle
<1>9. SweepInv'
  <2>1. CASE sweep' = SweepIdle
    BY <1>8, <2>1 DEF SweepInv
  <2>2. ASSUME NEW r \in Ratings, SweepStarts(r)
        PROVE  SweepInv'
    <3>1. held[r].reason = "deleted" /\ sweep' = [pc |-> "fate", at |-> {r}, work |-> held[r].work]
      BY <2>2 DEF SweepStarts
    <3>2. sweep'.pc = "fate" /\ sweep'.at = {r} /\ sweep'.work = held[r].work
      BY <3>1
    <3>3. RowOK(r)
      BY <1>0 DEF TableInv
    <3>4. rating[r].state # "none" /\ (Live(r) => held[r].work = rating[r].work)
      BY <3>1, <3>3 DEF RowOK
    <3> QED BY <1>1, <1>2, <3>2, <3>4, SameKinds DEF SweepInv
  <2>3. CASE sweep.pc = "fate" /\ Fate(sweep.work) = "" /\ sweep' = [sweep EXCEPT !.pc = "current"]
    <3>1. sweep'.pc = "current" /\ sweep'.at = sweep.at /\ sweep'.work = sweep.work
      BY <1>7, <2>3 DEF Sweeps
    <3>2. work[sweep.work] = "live"
      <4>1. work[sweep.work] \in {"live", "deleted", "merged"}
        BY <1>0, <1>7, TypeParts DEF NextMoeTyped
      <4> QED BY <2>3, <4>1 DEF Fate
    <3> QED BY <1>0, <1>1, <1>2, <3>1, <3>2, SameKinds DEF SweepInv
  <2>4. CASE sweep.pc = "current" /\ sweep.at \cap Current(sweep.work) = {}
             /\ sweep' = [sweep EXCEPT !.pc = "drop"]
    <3>1. sweep'.pc = "drop" /\ sweep'.at = sweep.at /\ sweep'.work = sweep.work
      BY <1>7, <2>4 DEF Sweeps
    <3>2. work[sweep.work] = "live" /\ \A r \in sweep.at : Live(r) => rating[r].work = sweep.work
      BY <1>0, <2>4 DEF SweepInv
    <3>3. \A r \in sweep.at : ~Live(r)
      BY <1>7, <2>4, <3>2 DEF Current, On, Live, Shown
    <3> QED BY <1>0, <1>1, <1>2, <3>1, <3>2, <3>3, SameKinds DEF SweepInv
  <2> QED BY <2>1, <2>2, <2>3, <2>4 DEF Sweep, SweepAsksFate, SweepAsksCurrent, DropDeletedHold
<1>10. TableInv'
  <2>1. CASE held' = held
    BY <1>0, <1>1, <2>1, RowStays DEF TableInv
  <2>2. CASE DropDeletedHold
    <3>1. sweep.pc = "drop" /\ \A r \in Ratings :
            held'[r] = IF r \in sweep.at /\ held[r].reason = "deleted" THEN NoHold ELSE held[r]
      BY <2>2 DEF DropDeletedHold
    <3> SUFFICES ASSUME NEW r \in Ratings
                 PROVE  RowOK(r)'
      BY DEF TableInv
    <3>2. RowOK(r)
      BY <1>0 DEF TableInv
    <3>3. CASE held'[r] = held[r]
      BY <1>1, <3>2, <3>3, RowStays
    <3>4. CASE r \in sweep.at /\ held[r].reason = "deleted" /\ held'[r] = NoHold
      <4>1. held'[r].reason = "" /\ held'[r].likes = FALSE
        <5>1. NoHold.reason = "" /\ NoHold.likes = FALSE
          BY DEF NoHold
        <5> QED BY <3>4, <5>1
      <4>2. ~Live(r) /\ ~Folded(r)
        BY <1>0, <3>1, <3>2, <3>4 DEF SweepInv, RowOK
      <4>3. ~MayComeBack(r) /\ ~Shown(r) /\ ~Hidden(r)
        BY <4>2, Kinds
      <4> QED BY <1>1, <1>2, <3>2, <4>1, <4>2, <4>3, SameKinds DEF RowOK
    <3> QED BY <3>1, <3>3, <3>4
  <2> QED BY <2>1, <2>2 DEF Sweep, SweepStarts, SweepAsksFate, SweepAsksCurrent, forum
<1> QED
  BY <1>3, <1>4, <1>5, <1>6, <1>9, <1>10 DEF MirrorInv

LEMMA PagesKeep ==
  ASSUME MirrorInv, TypeOK', RetryGone \/ RatingChanges \/ Advance \/ CursorLost
  PROVE  MirrorInv'
<1>0. TypeOK /\ NextMoeInv /\ EntryInv /\ RunInv /\ TableInv /\ SweepInv /\ WriteInv
  BY DEF MirrorInv
<1>1. /\ UNCHANGED <<nextmoe, liked, sweep, write>> /\ row' = row /\ held' = held /\ parked' = parked
      /\ liked' = liked /\ turns' = turns
  BY DEF RetryGone, RatingChanges, Advance, CursorLost, forum, history
<1>2. NextMoeInv' /\ SweepInv' /\ WriteInv'
  BY <1>0, <1>1, OthersWait
<1>3. TableInv'
  BY <1>0, <1>1, RowStays DEF TableInv
<1>4. Idle.todo = {} /\ Idle.reason = "" /\ Idle.fates = Unasked /\ \A w \in Works : Unasked[w] = "unasked"
  BY DEF Idle, Unasked
<1>5. ASSUME run'.reason = "", run'.fates = Unasked, \A e \in run'.todo : e.own = NoWork
      PROVE  RunInv'
  BY <1>4, <1>5 DEF RunInv
<1>6. CASE RetryGone
  <2>1. run' = [Idle EXCEPT !.pc = "retry", !.todo = AllParked]
    BY <1>6 DEF RetryGone
  <2>2. run'.todo = AllParked /\ run'.reason = "" /\ run'.fates = Unasked
    BY <2>1 DEF Idle
  <2>3. ASSUME NEW e \in AllParked
        PROVE  EntryOK(e)' /\ e.own = NoWork
    <3>1. PICK r \in Ratings : parked[r] # NoWork /\ e = Parked(r)
      BY DEF AllParked
    <3>2. e.id = r /\ e.gone /\ e.work = parked[r] /\ e.seq = 0 /\ e.own = NoWork
      BY <3>1 DEF Parked
    <3>3. rating[r].seq \in Nat /\ RowOK(r)
      BY <1>0, RatingFields DEF TableInv
    <3>4. rating[r].state # "none"
      BY <3>1, <3>3 DEF RowOK
    <3> QED BY <1>1, <3>2, <3>3, <3>4, SameKinds DEF EntryOK
  <2>4. \A e, f \in AllParked : e.id = f.id => e = f
    <3>1. \A r : Parked(r).id = r
      BY DEF Parked
    <3> QED BY <3>1 DEF AllParked
  <2>5. EntryInv' /\ RunInv'
    BY <1>5, <2>2, <2>3, <2>4 DEF EntryInv
  <2> QED BY <1>2, <1>3, <2>5 DEF MirrorInv
<1>7. CASE RatingChanges
  <2>1. PICK first \in SUBSET Ahead, n \in 0 .. seqno :
          run' = [Idle EXCEPT !.pc = "page", !.todo = {Entry(r) : r \in first}, !.next = n,
                         !.live = {[id |-> r, work |-> rating[r].work] : r \in {s \in first : Shown(s)}}]
    BY <1>7 DEF RatingChanges
  <2>2. run'.todo = {Entry(r) : r \in first} /\ run'.reason = "" /\ run'.fates = Unasked
    BY <2>1 DEF Idle
  <2>3. ASSUME NEW e \in run'.todo, NEW r \in first, e = Entry(r)
        PROVE  EntryOK(e)' /\ e.own = NoWork /\ e.id = r
    <3>1. r \in Ratings /\ rating[r].seq > cursor
      BY DEF Ahead
    <3>2. rating[r].seq # 0 /\ rating[r].seq \in Nat
      BY <1>0, <3>1, RatingFields
    <3>3. rating[r].state # "none"
      BY <1>0, <3>1, <3>2 DEF NextMoeInv
    <3>4. /\ e.id = r /\ e.gone = ~Shown(r) /\ e.work = rating[r].work /\ e.seq = rating[r].seq
          /\ e.own = NoWork
      BY <2>3 DEF Entry
    <3>5. \A s \in Ratings \ {r} : ~e.gone /\ Hidden(s) => e.work # rating[s].work
      BY <1>0, <3>1, <3>4, Kinds, ZenonT(40) DEF NextMoeInv
    <3>6. rating' = rating /\ e.gone = ~Shown(r)' /\ (MayComeBack(r)' <=> MayComeBack(r))
          /\ \A s : Hidden(s)' <=> Hidden(s)
      BY <1>1, <3>4, SameKinds
    <3>7. ~e.gone <=> Shown(r)'
      BY <3>6
    <3>8. EntryOK(e)'
      BY <3>2, <3>3, <3>4, <3>5, <3>6, <3>7 DEF EntryOK
    <3> QED BY <3>4, <3>8
  <2>4. \A e \in run'.todo : \E r \in first : e = Entry(r)
    BY <2>2
  <2>5. EntryInv'
    <3>1. \A e \in run'.todo : EntryOK(e)'
      BY <2>3, <2>4
    <3>2. ASSUME NEW e \in run'.todo, NEW f \in run'.todo, e.id = f.id
          PROVE  e = f
      <4>1. PICK r \in first, q \in first : e = Entry(r) /\ f = Entry(q)
        BY <2>4
      <4>2. e.id = r /\ f.id = q
        BY <2>3, <4>1
      <4> QED BY <3>2, <4>1, <4>2
    <3> QED BY <3>1, <3>2 DEF EntryInv
  <2>6. RunInv'
    BY <1>5, <2>2, <2>3, <2>4
  <2> QED BY <1>2, <1>3, <2>5, <2>6 DEF MirrorInv
<1>8. CASE Advance
  <2>1. run' = [Idle EXCEPT !.pc = "next"]
    BY <1>8 DEF Advance
  <2>2. run'.todo = {} /\ run'.reason = "" /\ run'.fates = Unasked
    BY <2>1 DEF Idle
  <2>3. EntryInv' /\ RunInv'
    BY <1>5, <2>2 DEF EntryInv
  <2> QED BY <1>2, <1>3, <2>3 DEF MirrorInv
<1>9. CASE CursorLost
  <2>1. run' = run
    BY <1>9 DEF CursorLost
  <2>2. RunInv'
    BY <1>0, <1>1, <2>1, SameKinds DEF RunInv, OwnedOK
  <2>3. EntryInv'
    BY <1>0, <1>1, <2>1, SameKinds DEF EntryInv, EntryOK
  <2> QED BY <1>2, <1>3, <2>2, <2>3 DEF MirrorInv
<1> QED
  BY <1>6, <1>7, <1>8, <1>9

LEMMA EndKeeps ==
  ASSUME MirrorInv, TypeOK', Ends
  PROVE  MirrorInv'
<1>0. TypeOK /\ NextMoeInv /\ EntryInv /\ RunInv /\ TableInv /\ SweepInv /\ WriteInv
  BY DEF MirrorInv
<1>1. /\ UNCHANGED <<nextmoe, liked, sweep, write>> /\ row' = row /\ parked' = parked
      /\ liked' = liked /\ turns' = turns /\ run' = Idle
  BY DEF Ends, history
<1>2. NextMoeInv' /\ SweepInv' /\ WriteInv'
  BY <1>0, <1>1, OthersWait
<1>3. EntryInv' /\ RunInv'
  <2>1. Idle.todo = {} /\ Idle.reason = "" /\ \A w \in Works : Idle.fates[w] = "unasked"
    BY DEF Idle, Unasked
  <2> QED BY <1>1, <2>1 DEF EntryInv, RunInv
<1>4. ASSUME NEW r \in Ratings
      PROVE  RowOK(r)'
  <2>1. RowOK(r)
    BY <1>0 DEF TableInv
  <2>2. held'[r] = IF held[r].reason = "merged" /\ held[r].old THEN NoHold ELSE held[r]
    BY DEF Ends, PurgeHeldRatings
  <2>3. CASE held'[r] = held[r]
    BY <1>1, <2>1, <2>3, RowStays
  <2>4. CASE held[r].reason = "merged" /\ held[r].old /\ held'[r] = NoHold
    <3>1. held'[r].reason = "" /\ held'[r].likes = FALSE
      <4>1. NoHold.reason = "" /\ NoHold.likes = FALSE
        BY DEF NoHold
      <4> QED BY <2>4, <4>1
    <3>2. ~MayComeBack(r)
      BY <2>1, <2>4 DEF RowOK
    <3>3. ~Live(r) /\ ~Folded(r) /\ ~Shown(r) /\ ~Hidden(r)
      BY <3>2, Kinds
    <3>4. rating' = rating
      BY <1>1, SameKinds
    <3> QED BY <1>1, <2>1, <3>1, <3>2, <3>3, <3>4, SameKinds DEF RowOK
  <2> QED BY <2>2, <2>3, <2>4
<1> QED
  BY <1>2, <1>3, <1>4 DEF TableInv, MirrorInv

LEMMA EntryKeeps ==
  ASSUME MirrorInv, TypeOK', Upsert \/ GoneUnknown \/ SettleGone \/ ParkGoneRating
  PROVE  MirrorInv'
<1>0. TypeOK /\ NextMoeInv /\ EntryInv /\ RunInv /\ TableInv /\ SweepInv /\ WriteInv
  BY DEF MirrorInv
<1>1. /\ UNCHANGED <<nextmoe, liked, sweep, write>> /\ liked' = liked
      /\ turns' \in SUBSET turns
  BY DEF Upsert, GoneUnknown, SettleGone, ParkGoneRating, Handled, history
<1>2. NextMoeInv' /\ SweepInv' /\ WriteInv' /\ UNCHANGED <<work, rating, young>>
  BY <1>0, <1>1, OthersWait, SameKinds
<1>3. run \in Runs /\ parked \in [Ratings -> MaybeWork]
  BY <1>0, TypeParts DEF StepsTyped, TablesTyped
<1>4. ASSUME NEW e \in run.todo, Handled(e)
      PROVE  /\ run'.todo = {f \in run.todo : f.id # e.id} /\ run'.reason = ""
             /\ run'.fates = run.fates /\ turns \ {e.id} \in SUBSET turns'
             /\ e.seq \in {0, rating[e.id].seq} => e.id \notin turns'
             /\ e.seq \notin {0, rating[e.id].seq} => turns' = turns
  BY <1>3, <1>4 DEF Handled, Runs
<1>5. ASSUME NEW e \in run.todo, Now(e)
      PROVE  \A f \in run.todo : f.own = NoWork
  BY <1>0, <1>5 DEF Now, RunInv, OwnedOK
<1>6. CASE Upsert
  <2>1. PICK e \in run.todo : /\ Now(e) /\ ~e.gone /\ MirrorRating(e.id, e.work, e.ver)
                              /\ parked' = parked /\ Handled(e)
    BY <1>6 DEF Upsert
  <2>2. /\ e.id \in Ratings /\ e.work \in Works /\ e.ver \in 0 .. MaxEdits /\ EntryOK(e)
        /\ RowOK(e.id)
    BY <1>0, EntryFields DEF EntryInv, TableInv
  <2>3. e.id \notin turns' /\ MayComeBack(e.id) => Shown(e.id) /\ rating[e.id].work = e.work
    BY <1>4, <2>1, <2>2 DEF EntryOK
  <2>4. TableInv'
    <3>1. turns \ {e.id} \in SUBSET turns'
      BY <1>4, <2>1
    <3>2. MayComeBack(e.id) => \/ rating[e.id].work = e.work /\ (Shown(e.id) \/ e.id \in turns)
                               \/ Shown(e.id) /\ e.id \in turns
      BY <2>1, <2>2 DEF EntryOK
    <3>3. (\A s \in Ratings \ {e.id} : Hidden(s) => e.work # rating[s].work)
          /\ rating[e.id].state # "none"
      BY <2>1, <2>2 DEF EntryOK
    <3> QED BY <1>0, <1>1, <2>1, <2>2, <2>3, <3>1, <3>2, <3>3, MirrorKeepsRows
  <2>5. EntryInv' /\ RunInv'
    <3>1. \A r \in Ratings \ {e.id} : ~row[r].there => ~row'[r].there
      <4>1. \A r \in Ratings \ {e.id} : row'[r] = NoRow \/ row'[r] = row[r]
        BY <1>0, <2>1, <2>2, MirrorTypes, TypeParts, ZenonT(40)
      <4>2. NoRow.there = FALSE
        BY DEF NoRow
      <4> QED BY <4>1, <4>2
    <3>2. \A r \in Ratings \ {e.id} : parked'[r] = parked[r] /\ (r \in turns' <=> r \in turns)
      BY <1>1, <1>4, <2>1
    <3>3. /\ run'.todo \in SUBSET {f \in run.todo : f.id # e.id} /\ run'.reason = ""
          /\ run'.fates = run.fates /\ \A f \in run.todo : f.own # NoWork => f = e
      BY <1>4, <1>5, <2>1
    <3> QED BY <1>0, <1>1, <3>1, <3>2, <3>3, DoneKeepsEntries
  <2> QED BY <1>2, <2>4, <2>5 DEF MirrorInv
<1>7. CASE GoneUnknown
  <2>1. PICK e \in run.todo : /\ Now(e) /\ e.gone /\ ~row[e.id].there /\ Unpark(e.id)
                              /\ row' = row /\ held' = held /\ Handled(e)
    BY <1>7 DEF GoneUnknown
  <2>2. e.id \in Ratings /\ parked' = [parked EXCEPT ![e.id] = NoWork] /\ EntryOK(e)
    BY <1>0, <2>1, EntryFields DEF Unpark, EntryInv
  <2>3. \A r \in Ratings : /\ parked'[r] = IF r = e.id THEN NoWork ELSE parked[r]
                           /\ r # e.id => (r \in turns' <=> r \in turns)
    BY <1>1, <1>3, <1>4, <2>1, <2>2
  <2>4. TableInv'
    <3> SUFFICES ASSUME NEW r \in Ratings
                 PROVE  RowOK(r)'
      BY DEF TableInv
    <3>1. RowOK(r)
      BY <1>0 DEF TableInv
    <3>2. CASE r # e.id
      BY <1>1, <2>1, <2>3, <3>1, <3>2, RowStays
    <3>3. CASE r = e.id
      BY <1>1, <1>2, <2>1, <2>3, <3>1, <3>3, SameKinds DEF RowOK
    <3> QED BY <3>2, <3>3
  <2>5. EntryInv' /\ RunInv'
    <3>1. /\ run'.todo \in SUBSET {f \in run.todo : f.id # e.id} /\ run'.reason = ""
          /\ run'.fates = run.fates /\ \A f \in run.todo : f.own # NoWork => f = e
      BY <1>4, <1>5, <2>1
    <3> QED BY <1>0, <1>1, <2>1, <2>3, <3>1, DoneKeepsEntries
  <2> QED BY <1>2, <2>4, <2>5 DEF MirrorInv
<1>8. CASE SettleGone
  <2>1. PICK e \in run.todo :
          /\ e.own # NoWork
          /\ \/ run.reason = "live" /\ row' = row /\ held' = held
             \/ run.reason \in {"deleted", "merged"} /\ HoldRating(e.id, run.reason)
             \/ run.reason = "cleared" /\ DropRating(e.id)
          /\ Unpark(e.id) /\ Handled(e)
    BY <1>8 DEF SettleGone, Owned
  <2>2. /\ e.id \in Ratings /\ parked' = [parked EXCEPT ![e.id] = NoWork] /\ EntryOK(e)
        /\ OwnedOK(e) /\ rating[e.id].state # "none"
    BY <1>0, <2>1, EntryFields DEF Unpark, EntryInv, RunInv, EntryOK
  <2>3. \A r \in Ratings : /\ parked'[r] = IF r = e.id THEN NoWork ELSE parked[r]
                           /\ r # e.id => (r \in turns' <=> r \in turns)
    BY <1>1, <1>3, <1>4, <2>1, <2>2
  <2>4. /\ run.reason \in {"live", "cleared"} => ~MayComeBack(e.id)
        /\ run.reason = "deleted" => (MayComeBack(e.id) => Hidden(e.id))
        /\ run.reason = "merged" => (MayComeBack(e.id) => Folded(e.id))
    BY <2>2, Kinds DEF OwnedOK
  <2>5. turns \ {e.id} \in SUBSET turns'
    BY <1>4, <2>1
  <2>6. ASSUME run.reason = "live", row' = row, held' = held
        PROVE  TableInv' /\ \A r \in Ratings \ {e.id} : ~row[r].there => ~row'[r].there
    <3>1. TableInv'
      <4> SUFFICES ASSUME NEW r \in Ratings
                   PROVE  RowOK(r)'
        BY DEF TableInv
      <4>1. RowOK(r)
        BY <1>0 DEF TableInv
      <4>2. CASE r # e.id
        BY <1>1, <2>3, <2>6, <4>1, <4>2, RowStays
      <4>3. CASE r = e.id
        <5>1. ~MayComeBack(r) /\ ~Live(r) /\ ~Folded(r) /\ ~Shown(r) /\ ~Hidden(r)
          BY <2>4, <2>6, <4>3, Kinds
        <5> QED BY <1>1, <1>2, <2>2, <2>3, <2>6, <4>1, <4>3, <5>1, SameKinds DEF RowOK
      <4> QED BY <4>2, <4>3
    <3>2. \A r \in Ratings \ {e.id} : ~row[r].there => ~row'[r].there
      BY <2>6
    <3> QED BY <3>1, <3>2
  <2>7. ASSUME \/ run.reason \in {"deleted", "merged"} /\ HoldRating(e.id, run.reason)
               \/ run.reason = "cleared" /\ DropRating(e.id)
        PROVE  TableInv' /\ \A r \in Ratings \ {e.id} : ~row[r].there => ~row'[r].there
    <3>1. \/ DropRating(e.id) /\ ~MayComeBack(e.id)
          \/ HoldRating(e.id, "deleted") /\ (MayComeBack(e.id) => Hidden(e.id))
          \/ HoldRating(e.id, "merged") /\ (MayComeBack(e.id) => Folded(e.id))
      BY <2>4, <2>7
    <3>2. TableInv'
      BY <1>0, <1>1, <2>2, <2>5, <3>1, GoneKeepsRows
    <3>3. \A r \in Ratings \ {e.id} : ~row[r].there => ~row'[r].there
      BY <1>0, <2>2, <3>1, GoneTypes, TypeParts
    <3> QED BY <3>2, <3>3
  <2>8. TableInv' /\ \A r \in Ratings \ {e.id} : ~row[r].there => ~row'[r].there
    BY <2>1, <2>6, <2>7
  <2>9. EntryInv' /\ RunInv'
    <3>1. /\ run'.todo \in SUBSET {f \in run.todo : f.id # e.id} /\ run'.reason = ""
          /\ run'.fates = run.fates /\ \A f \in run.todo : f.own # NoWork => f = e
      BY <1>4, <2>1, <2>2 DEF OwnedOK
    <3> QED BY <1>0, <1>1, <2>3, <2>8, <3>1, DoneKeepsEntries
  <2> QED BY <1>2, <2>8, <2>9 DEF MirrorInv
<1>9. CASE ParkGoneRating
  <2>1. PICK e \in run.todo :
          /\ \/ e.own # NoWork /\ run.reason = "current"
             \/ Now(e) /\ e.gone /\ row[e.id].there
          /\ parked' = [parked EXCEPT ![e.id] = e.work]
          /\ run' = [run EXCEPT !.todo = @ \ {e}, !.reason = ""]
          /\ row' = row /\ held' = held /\ turns' = turns
    BY <1>9 DEF ParkGoneRating, Owned, history
  <2>2. e.id \in Ratings /\ EntryOK(e) /\ rating[e.id].state # "none"
    BY <1>0, <2>1, EntryFields DEF EntryInv, EntryOK
  <2>3. \A r \in Ratings : parked'[r] = IF r = e.id THEN e.work ELSE parked[r]
    BY <1>3, <2>1, <2>2
  <2>4. MayComeBack(e.id) => e.id \in turns /\ ~Shown(e.id) /\ e.work = rating[e.id].work
    <3>1. CASE e.own # NoWork /\ run.reason = "current"
      <4>1. OwnedOK(e)
        BY <1>0, <3>1 DEF RunInv
      <4> QED BY <3>1, <4>1, Kinds DEF OwnedOK
    <3>2. CASE Now(e) /\ e.gone /\ row[e.id].there
      BY <1>0, <3>2, GoneAtHand
    <3> QED BY <2>1, <3>1, <3>2
  <2>5. TableInv'
    <3> SUFFICES ASSUME NEW r \in Ratings
                 PROVE  RowOK(r)'
      BY DEF TableInv
    <3>1. RowOK(r)
      BY <1>0 DEF TableInv
    <3>2. CASE r # e.id
      BY <1>1, <2>1, <2>3, <3>1, <3>2, RowStays
    <3>3. CASE r = e.id
      BY <1>1, <1>2, <2>1, <2>2, <2>3, <2>4, <3>1, <3>3, SameKinds, ZenonT(40) DEF RowOK
    <3> QED BY <3>2, <3>3
  <2>6. EntryInv' /\ RunInv'
    <3>1. run'.todo = run.todo \ {e} /\ run'.reason = "" /\ run'.fates = run.fates
      BY <1>3, <2>1 DEF Runs
    <3>2. run'.todo \in SUBSET {f \in run.todo : f.id # e.id}
      BY <1>0, <3>1 DEF EntryInv
    <3>3. \A f \in run.todo : f.own # NoWork => f = e
      BY <1>0, <1>5, <2>1 DEF RunInv, OwnedOK
    <3> QED BY <1>0, <1>1, <2>1, <2>3, <3>1, <3>2, <3>3, DoneKeepsEntries
  <2> QED BY <1>2, <2>5, <2>6 DEF MirrorInv
<1> QED
  BY <1>6, <1>7, <1>8, <1>9

LEMMA QuestionsKeep ==
  ASSUME MirrorInv, TypeOK', WorkFate \/ CurrentRating
  PROVE  MirrorInv'
<1>0. TypeOK /\ NextMoeInv /\ EntryInv /\ RunInv /\ TableInv /\ SweepInv /\ WriteInv
  BY DEF MirrorInv
<1>1. /\ UNCHANGED <<nextmoe, liked, sweep, write>> /\ row' = row /\ held' = held /\ parked' = parked
      /\ liked' = liked /\ turns' = turns
  BY DEF WorkFate, CurrentRating, forum, history
<1>2. NextMoeInv' /\ SweepInv' /\ WriteInv' /\ UNCHANGED <<work, rating, young>>
  BY <1>0, <1>1, OthersWait, SameKinds
<1>3. TableInv'
  BY <1>0, <1>1, RowStays DEF TableInv
<1>4. run \in Runs /\ run.fates \in [Works -> Fates]
  BY <1>0, TypeParts DEF StepsTyped, Runs
<1>5. CASE WorkFate
  <2>1. PICK e \in run.todo :
          /\ Now(e) /\ e.gone /\ row[e.id].there
          /\ LET fate == IF run.fates[e.work] = "unasked" THEN Fate(e.work) ELSE run.fates[e.work]
                 own == row[e.id].work
                 newer == \E l \in run.live : l.work = own /\ l.id # e.id IN
             run' = [run EXCEPT !.todo = (@ \ {e}) \cup {[e EXCEPT !.own = own]},
                     !.fates[e.work] = fate,
                     !.reason = IF fate # "" THEN fate ELSE IF newer THEN "merged" ELSE "current"]
    BY <1>5 DEF WorkFate
  <2> DEFINE fate == IF run.fates[e.work] = "unasked" THEN Fate(e.work) ELSE run.fates[e.work]
             own == row[e.id].work
             newer == \E l \in run.live : l.work = own /\ l.id # e.id
             reason == IF fate # "" THEN fate ELSE IF newer THEN "merged" ELSE "current"
  <2>2. /\ e.id \in Ratings /\ e.work \in Works /\ EntryOK(e) /\ e \in Entries /\ run.reason = ""
        /\ \A f \in run.todo : f.own = NoWork
    <3>1. run.reason = ""
      BY <2>1 DEF Now
    <3>2. e \in Entries
      BY <1>4 DEF Runs
    <3> QED BY <1>0, <3>1, <3>2, EntryFields DEF EntryInv, RunInv, OwnedOK
  <2>3. fate = Fate(e.work)
    BY <1>0, <2>2 DEF RunInv
  <2> PICK told : told = [e EXCEPT !.own = own]
    OBVIOUS
  <2>4. /\ told.id = e.id /\ told.gone = e.gone /\ told.work = e.work /\ told.ver = e.ver
        /\ told.seq = e.seq /\ told.own = row[e.id].work
    BY <2>2 DEF Entries
  <2>5. /\ run'.todo = (run.todo \ {e}) \cup {told}
        /\ run'.fates = [run.fates EXCEPT ![e.work] = fate]
        /\ run'.reason = reason
    BY <1>4, <2>1 DEF Runs
  <2>6. Fate(e.work) # "unasked" /\ reason # ""
        /\ (Fate(e.work) # "" => reason = Fate(e.work))
        /\ (Fate(e.work) = "" => reason \in {"merged", "current"})
    <3>1. work[e.work] \in {"live", "deleted", "merged"}
      BY <1>0, <2>2, TypeParts DEF NextMoeTyped
    <3> QED BY <2>3, <3>1 DEF Fate
  <2> HIDE DEF fate, reason, own, newer
  <2>7. EntryInv'
    <3>1. \A f, g \in run'.todo : f.id = g.id => f = g
      BY <1>0, <2>4, <2>5, ZenonT(40) DEF EntryInv
    <3>2. \A f \in run.todo : EntryOK(f)'
      BY <1>0, <1>1, <1>2, SameKinds DEF EntryInv, EntryOK
    <3>3. EntryOK(told)'
      <4>1. EntryOK(e)'
        BY <3>2
      <4> QED BY <2>4, <4>1 DEF EntryOK
    <3> QED BY <2>5, <3>1, <3>2, <3>3 DEF EntryInv
  <2>8. RunInv'
    <3>1. \A w \in Works : run'.fates[w] \in {"unasked", Fate(w)}
      BY <1>0, <1>4, <2>2, <2>3, <2>5 DEF RunInv
    <3>2. run'.fates[e.work] # "unasked"
      BY <1>4, <2>2, <2>3, <2>5, <2>6
    <3>3. OwnedOK(told)'
      <4>1. run'.reason # "" /\ told.gone
        BY <2>1, <2>4, <2>5, <2>6
      <4>2. \A f \in run'.todo : f.own # NoWork => f = told
        BY <2>2, <2>5
      <4>3. MayComeBack(e.id) =>
              /\ e.id \in turns /\ ~Shown(e.id) /\ e.work = rating[e.id].work
              /\ Live(e.id) => work[e.work] = "deleted"
              /\ Folded(e.id) => /\ row[e.id].work = e.work /\ work[Into] = "live"
                                 /\ work[From] = "merged"
        BY <1>0, <2>1, GoneAtHand
      <4>4. Live(e.id) => run'.reason = "deleted" /\ ~Shown(e.id)
        BY <2>5, <2>6, <4>3, Kinds DEF Fate
      <4>5. Folded(e.id) => \/ run'.reason = "merged"
                            \/ run'.reason = "current" /\ told.own = Into /\ work[Into] = "live"
        <5> SUFFICES ASSUME Folded(e.id)
                     PROVE  \/ run'.reason = "merged"
                            \/ run'.reason = "current" /\ told.own = Into /\ work[Into] = "live"
          OBVIOUS
        <5>1. row[e.id].work = e.work /\ work[Into] = "live" /\ work[From] = "merged"
          BY <4>3, Kinds
        <5>2. CASE e.work = From
          BY <2>5, <2>6, <5>1, <5>2 DEF Fate
        <5>3. CASE e.work = Into
          BY <2>4, <2>5, <2>6, <5>1, <5>3 DEF Fate
        <5> QED BY <2>2, <5>2, <5>3 DEF Works
      <4>6. /\ told.id = e.id /\ told.work = e.work /\ turns' = turns /\ rating' = rating
            /\ work' = work
        BY <1>1, <1>2, <2>4
      <4>7. /\ Live(told.id)' <=> Live(e.id)
            /\ Shown(told.id)' <=> Shown(e.id)
            /\ Folded(told.id)' <=> Folded(e.id)
            /\ MayComeBack(told.id)' <=> MayComeBack(e.id)
        BY <1>1, <4>6, SameKinds
      <4>8. MayComeBack(e.id) => e.id \in turns /\ e.work = rating[e.id].work
        BY <4>3
      <4>9. Live(told.id)' => run'.reason = "deleted" /\ ~Shown(told.id)'
        BY <4>4, <4>7
      <4>10. Folded(told.id)' => \/ run'.reason = "merged"
                                 \/ run'.reason = "current" /\ told.own = Into /\ work'[Into] = "live"
        BY <4>5, <4>6, <4>7
      <4>11. MayComeBack(told.id)' => told.id \in turns' /\ told.work = rating'[told.id].work
        BY <4>6, <4>7, <4>8
      <4> QED BY <4>1, <4>2, <4>9, <4>10, <4>11 DEF OwnedOK
    <3>4. \A f \in run'.todo : f.own # NoWork => f = told
      BY <2>2, <2>5
    <3> QED BY <1>1, <2>2, <3>1, <3>2, <3>3, <3>4, SameKinds DEF RunInv
  <2> QED BY <1>2, <1>3, <2>7, <2>8 DEF MirrorInv
<1>6. CASE CurrentRating
  <2>1. PICK e \in run.todo :
          /\ e.own # NoWork /\ run.reason = "current"
          /\ run' = [run EXCEPT !.reason =
               IF e.id \in Current(e.own) THEN "live"
               ELSE IF Current(e.own) # {} THEN "merged" ELSE "cleared"]
    BY <1>6 DEF CurrentRating, Owned
  <2>2. OwnedOK(e) /\ e.id \in Ratings
    BY <1>0, <2>1, EntryFields DEF RunInv
  <2>3. /\ run'.todo = run.todo /\ run'.fates = run.fates /\ run'.reason # ""
        /\ run'.reason = IF e.id \in Current(e.own) THEN "live"
                         ELSE IF Current(e.own) # {} THEN "merged" ELSE "cleared"
    BY <1>4, <2>1 DEF Runs
  <2>4. ~Live(e.id)
    BY <2>1, <2>2 DEF OwnedOK
  <2>5. Folded(e.id) => run'.reason = "merged"
    <3> SUFFICES ASSUME Folded(e.id)
                 PROVE  run'.reason = "merged"
      OBVIOUS
    <3>1. e.own = Into /\ work[Into] = "live"
      BY <2>1, <2>2 DEF OwnedOK
    <3>2. PICK s \in Ratings : Live(s) /\ rating[s].work = Into
      BY <1>0, <2>2 DEF NextMoeInv, Folded
    <3>3. s \in Current(e.own)
      BY <3>1, <3>2 DEF Current, On, Live, Shown
    <3>4. e.id \notin Current(e.own)
      BY <2>4 DEF Current, On, Live
    <3> QED BY <2>3, <3>3, <3>4
  <2>6. EntryInv'
    BY <1>0, <1>1, <1>2, <2>3, SameKinds DEF EntryInv, EntryOK
  <2>7. OwnedOK(e)'
    BY <1>1, <1>2, <2>2, <2>3, <2>4, <2>5, SameKinds DEF OwnedOK
  <2>8. RunInv'
    <3>1. \A f \in run.todo : f.own # NoWork => f = e
      BY <2>2 DEF OwnedOK
    <3>2. \E w \in Works : run.fates[w] # "unasked"
      BY <1>0, <2>1 DEF RunInv
    <3> QED BY <1>0, <1>1, <2>3, <2>7, <3>1, <3>2, SameKinds DEF RunInv
  <2> QED BY <1>2, <1>3, <2>6, <2>8 DEF MirrorInv
<1> QED
  BY <1>5, <1>6

LEMMA InitMirror ==
  ASSUME Init
  PROVE  MirrorInv
<1>0. TypeOK
  BY InitTypes
<1>1. /\ run = Idle /\ sweep = SweepIdle /\ write = NoWrite /\ turns = {}
      /\ \A w \in Works : work[w] = "live"
  BY DEF Init
<1>2. \A r \in Ratings :
        /\ rating[r].state = IF r \in liked THEN "live" ELSE "none"
        /\ rating[r].work = Home[r] /\ rating[r].seq = 0
        /\ row[r] = IF r \in liked THEN [there |-> TRUE, work |-> Home[r], ver |-> 0, likes |-> TRUE]
                    ELSE NoRow
        /\ held[r] = NoHold /\ parked[r] = NoWork
  BY DEF Init
<1>3. NoHold.reason = "" /\ NoHold.likes = FALSE /\ NoRow.there = FALSE /\ NoRow.likes = FALSE
  BY DEF NoHold, NoRow
<1>4. NextMoeInv
  <2>1. \A r \in Ratings : rating[r].state # "folded" /\ (Live(r) => r \in liked)
    BY <1>2 DEF Live
  <2>2. seqno = 0
    BY DEF Init
  <2>3. \A r, s \in Ratings : Live(r) /\ Live(s) /\ rating[r].work = rating[s].work => r = s
    <3> SUFFICES ASSUME NEW r \in Ratings, NEW s \in Ratings, rating[r].work = rating[s].work
                 PROVE  r = s
      OBVIOUS
    <3>1. rating[r].work = Home[r] /\ rating[s].work = Home[s]
      BY <1>2
    <3> QED BY <3>1, Bounds
  <2>4. /\ work[Into] # "merged" /\ work[From] # "merged"
        /\ \A r \in Ratings : rating[r].seq <= seqno
        /\ \A r \in Ratings : rating[r].state = "none" =>
              rating[r].work = Home[r] /\ rating[r].seq = 0 /\ r \notin liked
    <3>1. work[Into] # "merged" /\ work[From] # "merged"
      BY <1>1, Bounds
    <3>2. \A r \in Ratings : rating[r].seq = 0 /\ rating[r].work = Home[r]
                            /\ (rating[r].state = "none" => r \notin liked)
      BY <1>2
    <3> QED BY <2>2, <3>1, <3>2
  <2> QED BY <2>1, <2>3, <2>4 DEF NextMoeInv
<1>5. TableInv
  <2> SUFFICES ASSUME NEW r \in Ratings
               PROVE  RowOK(r)
    BY DEF TableInv
  <2>1. held[r].reason = "" /\ held[r].likes = FALSE /\ parked[r] = NoWork
    BY <1>2, <1>3
  <2>2. CASE r \in liked
    <3>1. row[r].there = TRUE /\ row[r].work = rating[r].work /\ row[r].likes = TRUE
      <4>1. row[r] = [there |-> TRUE, work |-> Home[r], ver |-> 0, likes |-> TRUE]
        BY <1>2, <2>2
      <4>2. row[r].there = TRUE /\ row[r].work = Home[r] /\ row[r].likes = TRUE
        BY <4>1
      <4> QED BY <1>2, <4>2
    <3>2. rating[r].state = "live" /\ Shown(r)
      BY <1>1, <1>2, <2>2, Bounds DEF Shown
    <3>3. ~Folded(r) /\ ~Hidden(r)
      BY <3>2, Kinds
    <3> QED BY <1>1, <2>1, <3>1, <3>2, <3>3 DEF RowOK
  <2>3. CASE r \notin liked
    <3>1. ~row[r].there /\ ~row[r].likes /\ rating[r].state = "none"
      BY <1>2, <1>3, <2>3
    <3>2. ~MayComeBack(r) /\ ~Live(r) /\ ~Folded(r) /\ ~Hidden(r) /\ ~Shown(r)
      BY <3>1, Kinds
    <3> QED BY <1>1, <2>1, <2>3, <3>1, <3>2 DEF RowOK
  <2> QED BY <2>2, <2>3
<1>6. EntryInv /\ RunInv
  <2>1. Idle.todo = {} /\ Idle.reason = "" /\ \A w \in Works : Idle.fates[w] = "unasked"
    BY DEF Idle, Unasked
  <2> QED BY <1>1, <2>1 DEF EntryInv, RunInv
<1>7. SweepInv /\ WriteInv
  <2>1. SweepIdle.pc = "idle" /\ SweepIdle.at = {} /\ NoWrite.pc = "idle"
    BY DEF SweepIdle, NoWrite
  <2> QED BY <1>1, <2>1 DEF SweepInv, WriteInv
<1> QED
  BY <1>0, <1>4, <1>5, <1>6, <1>7 DEF MirrorInv

LEMMA StepKeepsMirror ==
  ASSUME MayOvertake = FALSE, MirrorInv, [Next]_vars
  PROVE  MirrorInv'
<1>0. TypeOK'
  BY StepKeepsTypes DEF MirrorInv
<1>1. CASE UNCHANGED vars
  <2>1. UNCHANGED <<work, young, rating, seqno, row, held, parked, run, sweep, write, liked, turns>>
    BY <1>1 DEF vars, nextmoe, forum, history
  <2>2. UNCHANGED nextmoe
    BY <2>1 DEF nextmoe
  <2>3. NextMoeInv' /\ SweepInv' /\ WriteInv'
    BY <2>1, <2>2, OthersWait DEF MirrorInv
  <2>4. TableInv'
    BY <2>1, <2>2, RowStays DEF TableInv, MirrorInv
  <2>5. EntryInv'
    BY <2>1, <2>2, SameKinds DEF EntryInv, EntryOK, MirrorInv
  <2>6. RunInv'
    BY <2>1, <2>2, SameKinds DEF RunInv, OwnedOK, MirrorInv
  <2> QED BY <1>0, <2>3, <2>4, <2>5, <2>6 DEF MirrorInv
<1> QED
  BY <1>0, <1>1, NextMoeKeeps, RequestKeeps, SweepKeeps, PagesKeep, EndKeeps, EntryKeeps, QuestionsKeep
  DEF Next, Run

(* "the last two come back when the deletion or merge is undone, so they   *)
(* are held, not dropped": a liked rating that NextMoe has, or may send    *)
(* back, has its likes in its row or its hold, if works and authors wait   *)
(* for the mirror: the fates it asks for a page, the decisions it reads in *)
(* a stale entry, the retries, the purge and the sweep never take a rating *)
(* that may come back for one that is gone.                                *)
THEOREM LikesAreKept ==
  ASSUME MayOvertake = FALSE
  PROVE  Spec => []LikesSurvive
<1>1. Init => MirrorInv
  BY InitMirror
<1>2. MirrorInv /\ [Next]_vars => MirrorInv'
  BY StepKeepsMirror
<1>3. MirrorInv => LikesSurvive
  <2> SUFFICES ASSUME MirrorInv, NEW r \in liked, MayComeBack(r)
               PROVE  row[r].likes \/ held[r].likes
    BY DEF LikesSurvive
  <2>1. r \in Ratings /\ RowOK(r)
    BY TypeParts DEF MirrorInv, TableInv, StepsTyped
  <2> QED BY <2>1 DEF RowOK
<1> QED
  BY <1>1, <1>2, <1>3, PTL DEF Spec

=============================================================================
