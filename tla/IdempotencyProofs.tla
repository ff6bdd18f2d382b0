-------------------------- MODULE IdempotencyProofs ---------------------------
(***************************************************************************)
(* Proofs about Idempotency, for any finite set of requests, any bodies    *)
(* and any bounds.                                                         *)
(*                                                                         *)
(* The argument counts what may still happen: a request that holds a claim *)
(* and has not taken effect may yet do so, or delete somebody else's claim *)
(* and let another in.  Effects and such requests together exceed the      *)
(* faults by one at most, and by none while the key is free to be claimed. *)
(* Answers and requests that have not given theirs count the same way.     *)
(***************************************************************************)
EXTENDS Idempotency, FiniteSetTheorems, TLAPS

Undone == {r \in Requests : pc[r] \in {"run", "refused", "release"}}
Unanswered == {r \in Requests : Live(r)}

(* Free, or to be free without a fault.                                    *)
Free == rec.state = "none" \/ Orphan

Bound(n) == n <= faults + 1 /\ (Free => n <= faults)

IInv ==
    /\ TypeOK
    /\ IsFiniteSet(answers)
    /\ rec.state = "done" => [body |-> rec.body, answer |-> rec.answer] \in answers
    /\ Bound(effects + Cardinality(Undone))
    /\ Bound(Cardinality(answers) + Cardinality(Unanswered))

-----------------------------------------------------------------------------
(* Requests that hold a claim are finitely many.                           *)
LEMMA Counted ==
    ASSUME IInv
    PROVE  /\ IsFiniteSet(Undone) /\ Cardinality(Undone) \in Nat
           /\ IsFiniteSet(Unanswered) /\ Cardinality(Unanswered) \in Nat
           /\ Cardinality(answers) \in Nat
<1>1. Undone \in SUBSET Requests /\ Unanswered \in SUBSET Requests
  BY DEF Undone, Unanswered
<1>2. IsFiniteSet(Undone) /\ IsFiniteSet(Unanswered)
  BY <1>1, FS_Subset, IdempotencyBoundsOK
<1> QED
  BY <1>2, FS_CardinalityType DEF IInv

(* What a record is.                                                       *)
LEMMA RecordIs ==
    ASSUME TypeOK
    PROVE  /\ rec.state \in {"none", "pending", "done"}
           /\ rec.state = "pending" => rec.owner \in Requests
           /\ rec.state = "done" => rec.body \in Bodies /\ rec.answer \in Nat
BY DEF TypeOK, Records, NoRecord

(* A free key is claimed: the bound has room for one.                      *)
LEMMA ClaimFreeKeeps ==
    ASSUME IInv, NEW r \in Requests, NEW b \in Bodies, rec.state = "none", Claim(r, b)
    PROVE  IInv'
<1> USE DEF Claim, Goes, Forgets, Fault, Failure
<1>0. TypeOK /\ TypeOK'
  BY DEF IInv, TypeOK, Records, NoRecord, PendingOf, DoneWith, Answer, Stored, Replays,
         NotStored, Live, Orphan
<1>1. Undone' = Undone \cup {r} /\ r \notin Undone
  BY <1>0 DEF TypeOK, Undone, Live, NotStored
<1>2. Unanswered' = Unanswered \cup {r} /\ r \notin Unanswered
  BY <1>0 DEF TypeOK, Unanswered, Live, NotStored
<1>3. /\ Cardinality(Undone') = Cardinality(Undone) + 1
      /\ Cardinality(Unanswered') = Cardinality(Unanswered) + 1
      /\ Cardinality(Undone') \in Nat /\ Cardinality(Unanswered') \in Nat
  BY <1>1, <1>2, Counted, FS_AddElement, FS_RemoveElement, FS_CardinalityType
<1>4. answers' = answers
  OBVIOUS
<1>5. IsFiniteSet(answers') /\ Cardinality(answers') = Cardinality(answers)
  BY <1>4 DEF IInv
<1>6. rec'.state = "done" => [body |-> rec'.body, answer |-> rec'.answer] \in answers'
  BY <1>0, <1>4, RecordIs DEF IInv, NoRecord, PendingOf, DoneWith, Answer, Stored
<1>7. Bound(effects + Cardinality(Undone))'
  BY <1>0, <1>1, <1>3, Counted, RecordIs
  DEF IInv, TypeOK, Bound, Free, Orphan, Live, NoRecord, PendingOf, DoneWith, Stored,
      NotStored, Undone
<1>8. Bound(Cardinality(answers) + Cardinality(Unanswered))'
  BY <1>0, <1>2, <1>3, <1>5, Counted, RecordIs
  DEF IInv, TypeOK, Bound, Free, Orphan, Live, NoRecord, PendingOf, DoneWith, Stored,
      NotStored, Unanswered
<1> QED
  BY <1>0, <1>5, <1>6, <1>7, <1>8 DEF IInv

(* A key that is taken gives no claim.                                     *)
LEMMA ClaimTakenKeeps ==
    ASSUME IInv, NEW r \in Requests, NEW b \in Bodies, rec.state # "none", Claim(r, b)
    PROVE  IInv'
<1> USE DEF Claim, Goes, Forgets, Fault, Failure
<1>0. TypeOK /\ TypeOK'
  BY DEF IInv, TypeOK, Records, NoRecord, PendingOf, DoneWith, Answer, Stored, Replays,
         NotStored, Live, Orphan
<1>1. Undone' = Undone
  BY <1>0 DEF TypeOK, Undone, Live, NotStored
<1>2. Unanswered' = Unanswered
  BY <1>0 DEF TypeOK, Unanswered, Live, NotStored
<1>3. /\ Cardinality(Undone') = Cardinality(Undone)
      /\ Cardinality(Unanswered') = Cardinality(Unanswered)
      /\ Cardinality(Undone') \in Nat /\ Cardinality(Unanswered') \in Nat
  BY <1>1, <1>2, Counted, FS_AddElement, FS_RemoveElement, FS_CardinalityType
<1>4. answers' = answers
  OBVIOUS
<1>5. IsFiniteSet(answers') /\ Cardinality(answers') = Cardinality(answers)
  BY <1>4 DEF IInv
<1>6. rec'.state = "done" => [body |-> rec'.body, answer |-> rec'.answer] \in answers'
  BY <1>0, <1>4, RecordIs DEF IInv, NoRecord, PendingOf, DoneWith, Answer, Stored
<1>7. Bound(effects + Cardinality(Undone))'
  BY <1>0, <1>1, <1>3, Counted, RecordIs
  DEF IInv, TypeOK, Bound, Free, Orphan, Live, NoRecord, PendingOf, DoneWith, Stored,
      NotStored, Undone
<1>8. Bound(Cardinality(answers) + Cardinality(Unanswered))'
  BY <1>0, <1>2, <1>3, <1>5, Counted, RecordIs
  DEF IInv, TypeOK, Bound, Free, Orphan, Live, NoRecord, PendingOf, DoneWith, Stored,
      NotStored, Unanswered
<1> QED
  BY <1>0, <1>5, <1>6, <1>7, <1>8 DEF IInv

(* A claim nobody holds is as good as none.                                *)
LEMMA ClaimFailsKeeps ==
    ASSUME IInv, NEW r \in Requests, NEW b \in Bodies, ClaimFails(r, b)
    PROVE  IInv'
<1> USE DEF ClaimFails, Goes, Forgets, Fault, Failure
<1>0. TypeOK /\ TypeOK'
  BY DEF IInv, TypeOK, Records, NoRecord, PendingOf, DoneWith, Answer, Stored, Replays,
         NotStored, Live, Orphan
<1>1. Undone' = Undone
  BY <1>0 DEF TypeOK, Undone, Live, NotStored
<1>2. Unanswered' = Unanswered
  BY <1>0 DEF TypeOK, Unanswered, Live, NotStored
<1>3. /\ Cardinality(Undone') = Cardinality(Undone)
      /\ Cardinality(Unanswered') = Cardinality(Unanswered)
      /\ Cardinality(Undone') \in Nat /\ Cardinality(Unanswered') \in Nat
  BY <1>1, <1>2, Counted, FS_AddElement, FS_RemoveElement, FS_CardinalityType
<1>4. answers' = answers
  OBVIOUS
<1>5. IsFiniteSet(answers') /\ Cardinality(answers') = Cardinality(answers)
  BY <1>4 DEF IInv
<1>6. rec'.state = "done" => [body |-> rec'.body, answer |-> rec'.answer] \in answers'
  BY <1>0, <1>4, RecordIs DEF IInv, NoRecord, PendingOf, DoneWith, Answer, Stored
<1>7. Bound(effects + Cardinality(Undone))'
  BY <1>0, <1>1, <1>3, Counted, RecordIs
  DEF IInv, TypeOK, Bound, Free, Orphan, Live, NoRecord, PendingOf, DoneWith, Stored,
      NotStored, Undone
<1>8. Bound(Cardinality(answers) + Cardinality(Unanswered))'
  BY <1>0, <1>2, <1>3, <1>5, Counted, RecordIs
  DEF IInv, TypeOK, Bound, Free, Orphan, Live, NoRecord, PendingOf, DoneWith, Stored,
      NotStored, Unanswered
<1> QED
  BY <1>0, <1>5, <1>6, <1>7, <1>8 DEF IInv

(* What is replayed was answered before.                                   *)
LEMMA ReplayKeeps ==
    ASSUME IInv, NEW r \in Requests, Replay(r)
    PROVE  IInv'
<1> USE DEF Replay, Goes, Forgets, Fault, Failure
<1>0. TypeOK /\ TypeOK'
  BY DEF IInv, TypeOK, Records, NoRecord, PendingOf, DoneWith, Answer, Stored, Replays,
         NotStored, Live, Orphan
<1>1. Undone' = Undone
  BY <1>0 DEF TypeOK, Undone, Live, NotStored
<1>2. Unanswered' = Unanswered
  BY <1>0 DEF TypeOK, Unanswered, Live, NotStored
<1>3. /\ Cardinality(Undone') = Cardinality(Undone)
      /\ Cardinality(Unanswered') = Cardinality(Unanswered)
      /\ Cardinality(Undone') \in Nat /\ Cardinality(Unanswered') \in Nat
  BY <1>1, <1>2, Counted, FS_AddElement, FS_RemoveElement, FS_CardinalityType
<1>4. answers' = answers
  BY <1>0, RecordIs DEF IInv, Replays
<1>5. IsFiniteSet(answers') /\ Cardinality(answers') = Cardinality(answers)
  BY <1>4 DEF IInv
<1>6. rec'.state = "done" => [body |-> rec'.body, answer |-> rec'.answer] \in answers'
  BY <1>0, <1>4, RecordIs DEF IInv, NoRecord, PendingOf, DoneWith, Answer, Stored
<1>7. Bound(effects + Cardinality(Undone))'
  BY <1>0, <1>1, <1>3, Counted, RecordIs
  DEF IInv, TypeOK, Bound, Free, Orphan, Live, NoRecord, PendingOf, DoneWith, Stored,
      NotStored, Undone
<1>8. Bound(Cardinality(answers) + Cardinality(Unanswered))'
  BY <1>0, <1>2, <1>3, <1>5, Counted, RecordIs
  DEF IInv, TypeOK, Bound, Free, Orphan, Live, NoRecord, PendingOf, DoneWith, Stored,
      NotStored, Unanswered
<1> QED
  BY <1>0, <1>5, <1>6, <1>7, <1>8 DEF IInv

(* An answer is stored and given.                                          *)
LEMMA StoreKeeps ==
    ASSUME IInv, NEW r \in Requests, Store(r)
    PROVE  IInv'
<1> USE DEF Store, Goes, Forgets, Fault, Failure
<1>0. TypeOK /\ TypeOK'
  BY DEF IInv, TypeOK, Records, NoRecord, PendingOf, DoneWith, Answer, Stored, Replays,
         NotStored, Live, Orphan
<1>1. Undone' = Undone \ {r}
  BY <1>0 DEF TypeOK, Undone, Live, NotStored
<1>2. Unanswered' = Unanswered \ {r} /\ r \in Unanswered
  BY <1>0 DEF TypeOK, Unanswered, Live, NotStored
<1>3. /\ Cardinality(Undone') = IF r \in Undone THEN Cardinality(Undone) - 1 ELSE Cardinality(Undone)
      /\ Cardinality(Unanswered') = Cardinality(Unanswered) - 1
      /\ Cardinality(Undone') \in Nat /\ Cardinality(Unanswered') \in Nat
  <2>1. IsFiniteSet(Undone) /\ IsFiniteSet(Unanswered)
    BY Counted
  <2>2. Cardinality(Undone') = IF r \in Undone THEN Cardinality(Undone) - 1 ELSE Cardinality(Undone)
    BY <1>1, <2>1, FS_RemoveElement
  <2>3. Cardinality(Unanswered') = Cardinality(Unanswered) - 1
    BY <1>2, <2>1, FS_RemoveElement
  <2>4. IsFiniteSet(Undone') /\ IsFiniteSet(Unanswered')
    BY <1>1, <1>2, <2>1, FS_AddElement, FS_RemoveElement
  <2> QED
    BY <2>2, <2>3, <2>4, FS_CardinalityType
<1>4. answers' = answers \cup {Answer(r)}
  OBVIOUS
<1>5. /\ IsFiniteSet(answers') /\ Cardinality(answers') \in Nat
      /\ Cardinality(answers') <= Cardinality(answers) + 1
  <2> DEFINE a == Answer(r)
  <2>1. IsFiniteSet(answers) /\ Cardinality(answers) \in Nat
    BY Counted DEF IInv
  <2> HIDE DEF a
  <2>2. /\ IsFiniteSet(answers \cup {a})
        /\ Cardinality(answers \cup {a}) =
               IF a \in answers THEN Cardinality(answers) ELSE Cardinality(answers) + 1
    BY <2>1, FS_AddElement
  <2>3. answers' = answers \cup {a}
    BY <1>4 DEF a
  <2>4. /\ Cardinality(answers \cup {a}) \in Nat
        /\ Cardinality(answers \cup {a}) <= Cardinality(answers) + 1
    BY <2>1, <2>2
  <2> QED
    BY <2>2, <2>3, <2>4
<1>6. rec'.state = "done" => [body |-> rec'.body, answer |-> rec'.answer] \in answers'
  BY <1>0, <1>4, RecordIs DEF IInv, NoRecord, PendingOf, DoneWith, Answer, Stored
<1>7. Bound(effects + Cardinality(Undone))'
  BY <1>0, <1>1, <1>3, Counted, RecordIs
  DEF IInv, TypeOK, Bound, Free, Orphan, Live, NoRecord, PendingOf, DoneWith, Stored,
      NotStored, Undone
<1>8. Bound(Cardinality(answers) + Cardinality(Unanswered))'
  BY <1>0, <1>2, <1>3, <1>5, Counted, RecordIs
  DEF IInv, TypeOK, Bound, Free, Orphan, Live, NoRecord, PendingOf, DoneWith, Stored,
      NotStored, Unanswered
<1> QED
  BY <1>0, <1>5, <1>6, <1>7, <1>8 DEF IInv

(* An answer is given and its store fails, a fault.                        *)
LEMMA StoreFailsKeeps ==
    ASSUME IInv, NEW r \in Requests, StoreFails(r)
    PROVE  IInv'
<1> USE DEF StoreFails, Goes, Forgets, Fault, Failure
<1>0. TypeOK /\ TypeOK'
  BY DEF IInv, TypeOK, Records, NoRecord, PendingOf, DoneWith, Answer, Stored, Replays,
         NotStored, Live, Orphan
<1>1. Undone' = Undone \cup {r}
  BY <1>0 DEF TypeOK, Undone, Live, NotStored
<1>2. Unanswered' = Unanswered
  BY <1>0 DEF TypeOK, Unanswered, Live, NotStored
<1>3. /\ Cardinality(Undone') = IF r \in Undone THEN Cardinality(Undone) ELSE Cardinality(Undone) + 1
      /\ Cardinality(Unanswered') = Cardinality(Unanswered)
      /\ Cardinality(Undone') \in Nat /\ Cardinality(Unanswered') \in Nat
  <2>1. IsFiniteSet(Undone) /\ IsFiniteSet(Unanswered)
    BY Counted
  <2>2. Cardinality(Undone') = IF r \in Undone THEN Cardinality(Undone) ELSE Cardinality(Undone) + 1
    BY <1>1, <2>1, FS_AddElement
  <2>3. Cardinality(Unanswered') = Cardinality(Unanswered)
    BY <1>2, <2>1, FS_RemoveElement
  <2>4. IsFiniteSet(Undone') /\ IsFiniteSet(Unanswered')
    BY <1>1, <1>2, <2>1, FS_AddElement, FS_RemoveElement
  <2> QED
    BY <2>2, <2>3, <2>4, FS_CardinalityType
<1>4. answers' = answers \cup {Answer(r)}
  OBVIOUS
<1>5. /\ IsFiniteSet(answers') /\ Cardinality(answers') \in Nat
      /\ Cardinality(answers') <= Cardinality(answers) + 1
  <2> DEFINE a == Answer(r)
  <2>1. IsFiniteSet(answers) /\ Cardinality(answers) \in Nat
    BY Counted DEF IInv
  <2> HIDE DEF a
  <2>2. /\ IsFiniteSet(answers \cup {a})
        /\ Cardinality(answers \cup {a}) =
               IF a \in answers THEN Cardinality(answers) ELSE Cardinality(answers) + 1
    BY <2>1, FS_AddElement
  <2>3. answers' = answers \cup {a}
    BY <1>4 DEF a
  <2>4. /\ Cardinality(answers \cup {a}) \in Nat
        /\ Cardinality(answers \cup {a}) <= Cardinality(answers) + 1
    BY <2>1, <2>2
  <2> QED
    BY <2>2, <2>3, <2>4
<1>6. rec'.state = "done" => [body |-> rec'.body, answer |-> rec'.answer] \in answers'
  BY <1>0, <1>4, RecordIs DEF IInv, NoRecord, PendingOf, DoneWith, Answer, Stored
<1>7. Bound(effects + Cardinality(Undone))'
  BY <1>0, <1>1, <1>3, Counted, RecordIs
  DEF IInv, TypeOK, Bound, Free, Orphan, Live, NoRecord, PendingOf, DoneWith, Stored,
      NotStored, Undone
<1>8. Bound(Cardinality(answers) + Cardinality(Unanswered))'
  BY <1>0, <1>2, <1>3, <1>5, Counted, RecordIs
  DEF IInv, TypeOK, Bound, Free, Orphan, Live, NoRecord, PendingOf, DoneWith, Stored,
      NotStored, Unanswered
<1> QED
  BY <1>0, <1>5, <1>6, <1>7, <1>8 DEF IInv

(* Whoever's claim is deleted, one request less holds one.                 *)
LEMMA ReleaseKeeps ==
    ASSUME IInv, NEW r \in Requests, Release(r)
    PROVE  IInv'
<1> USE DEF Release, Goes, Forgets, Fault, Failure
<1>0. TypeOK /\ TypeOK'
  BY DEF IInv, TypeOK, Records, NoRecord, PendingOf, DoneWith, Answer, Stored, Replays,
         NotStored, Live, Orphan
<1>1. Undone' = Undone \ {r} /\ r \in Undone
  BY <1>0 DEF TypeOK, Undone, Live, NotStored
<1>2. Unanswered' = Unanswered \ {r} /\ r \in Unanswered
  BY <1>0 DEF TypeOK, Unanswered, Live, NotStored
<1>3. /\ Cardinality(Undone') = Cardinality(Undone) - 1
      /\ Cardinality(Unanswered') = Cardinality(Unanswered) - 1
      /\ Cardinality(Undone') \in Nat /\ Cardinality(Unanswered') \in Nat
  BY <1>1, <1>2, Counted, FS_AddElement, FS_RemoveElement, FS_CardinalityType
<1>4. answers' = answers
  OBVIOUS
<1>5. IsFiniteSet(answers') /\ Cardinality(answers') = Cardinality(answers)
  BY <1>4 DEF IInv
<1>6. rec'.state = "done" => [body |-> rec'.body, answer |-> rec'.answer] \in answers'
  BY <1>0, <1>4, RecordIs DEF IInv, NoRecord, PendingOf, DoneWith, Answer, Stored
<1>7. Bound(effects + Cardinality(Undone))'
  BY <1>0, <1>1, <1>3, Counted, RecordIs
  DEF IInv, TypeOK, Bound, Free, Orphan, Live, NoRecord, PendingOf, DoneWith, Stored,
      NotStored, Undone
<1>8. Bound(Cardinality(answers) + Cardinality(Unanswered))'
  BY <1>0, <1>2, <1>3, <1>5, Counted, RecordIs
  DEF IInv, TypeOK, Bound, Free, Orphan, Live, NoRecord, PendingOf, DoneWith, Stored,
      NotStored, Unanswered
<1> QED
  BY <1>0, <1>5, <1>6, <1>7, <1>8 DEF IInv

(* A claim that is not deleted is nobody's.                                *)
LEMMA ReleaseFailsKeeps ==
    ASSUME IInv, NEW r \in Requests, ReleaseFails(r)
    PROVE  IInv'
<1> USE DEF ReleaseFails, Goes, Forgets, Fault, Failure
<1>0. TypeOK /\ TypeOK'
  BY DEF IInv, TypeOK, Records, NoRecord, PendingOf, DoneWith, Answer, Stored, Replays,
         NotStored, Live, Orphan
<1>1. Undone' = Undone \ {r} /\ r \in Undone
  BY <1>0 DEF TypeOK, Undone, Live, NotStored
<1>2. Unanswered' = Unanswered \ {r} /\ r \in Unanswered
  BY <1>0 DEF TypeOK, Unanswered, Live, NotStored
<1>3. /\ Cardinality(Undone') = Cardinality(Undone) - 1
      /\ Cardinality(Unanswered') = Cardinality(Unanswered) - 1
      /\ Cardinality(Undone') \in Nat /\ Cardinality(Unanswered') \in Nat
  BY <1>1, <1>2, Counted, FS_AddElement, FS_RemoveElement, FS_CardinalityType
<1>4. answers' = answers
  OBVIOUS
<1>5. IsFiniteSet(answers') /\ Cardinality(answers') = Cardinality(answers)
  BY <1>4 DEF IInv
<1>6. rec'.state = "done" => [body |-> rec'.body, answer |-> rec'.answer] \in answers'
  BY <1>0, <1>4, RecordIs DEF IInv, NoRecord, PendingOf, DoneWith, Answer, Stored
<1>7. Bound(effects + Cardinality(Undone))'
  BY <1>0, <1>1, <1>3, Counted, RecordIs
  DEF IInv, TypeOK, Bound, Free, Orphan, Live, NoRecord, PendingOf, DoneWith, Stored,
      NotStored, Undone
<1>8. Bound(Cardinality(answers) + Cardinality(Unanswered))'
  BY <1>0, <1>2, <1>3, <1>5, Counted, RecordIs
  DEF IInv, TypeOK, Bound, Free, Orphan, Live, NoRecord, PendingOf, DoneWith, Stored,
      NotStored, Unanswered
<1> QED
  BY <1>0, <1>5, <1>6, <1>7, <1>8 DEF IInv

(* An effect takes the place of the request that might have it.            *)
LEMMA CommitsKeeps ==
    ASSUME IInv, NEW r \in Requests, Commits(r)
    PROVE  IInv'
<1> USE DEF Commits, Goes, Forgets, Fault, Failure
<1>0. TypeOK /\ TypeOK'
  BY DEF IInv, TypeOK, Records, NoRecord, PendingOf, DoneWith, Answer, Stored, Replays,
         NotStored, Live, Orphan
<1>1. Undone' = Undone \ {r} /\ r \in Undone
  BY <1>0 DEF TypeOK, Undone, Live, NotStored
<1>2. Unanswered' = Unanswered
  BY <1>0 DEF TypeOK, Unanswered, Live, NotStored
<1>3. /\ Cardinality(Undone') = Cardinality(Undone) - 1
      /\ Cardinality(Unanswered') = Cardinality(Unanswered)
      /\ Cardinality(Undone') \in Nat /\ Cardinality(Unanswered') \in Nat
  BY <1>1, <1>2, Counted, FS_AddElement, FS_RemoveElement, FS_CardinalityType
<1>4. answers' = answers
  OBVIOUS
<1>5. IsFiniteSet(answers') /\ Cardinality(answers') = Cardinality(answers)
  BY <1>4 DEF IInv
<1>6. rec'.state = "done" => [body |-> rec'.body, answer |-> rec'.answer] \in answers'
  BY <1>0, <1>4, RecordIs DEF IInv, NoRecord, PendingOf, DoneWith, Answer, Stored
<1>7. Bound(effects + Cardinality(Undone))'
  BY <1>0, <1>1, <1>3, Counted, RecordIs
  DEF IInv, TypeOK, Bound, Free, Orphan, Live, NoRecord, PendingOf, DoneWith, Stored,
      NotStored, Undone
<1>8. Bound(Cardinality(answers) + Cardinality(Unanswered))'
  BY <1>0, <1>2, <1>3, <1>5, Counted, RecordIs
  DEF IInv, TypeOK, Bound, Free, Orphan, Live, NoRecord, PendingOf, DoneWith, Stored,
      NotStored, Unanswered
<1> QED
  BY <1>0, <1>5, <1>6, <1>7, <1>8 DEF IInv

(* A refusal changes no count.                                             *)
LEMMA RefusesKeeps ==
    ASSUME IInv, NEW r \in Requests, Refuses(r)
    PROVE  IInv'
<1> USE DEF Refuses, Goes, Forgets, Fault, Failure
<1>0. TypeOK /\ TypeOK'
  BY DEF IInv, TypeOK, Records, NoRecord, PendingOf, DoneWith, Answer, Stored, Replays,
         NotStored, Live, Orphan
<1>1. Undone' = Undone
  BY <1>0 DEF TypeOK, Undone, Live, NotStored
<1>2. Unanswered' = Unanswered
  BY <1>0 DEF TypeOK, Unanswered, Live, NotStored
<1>3. /\ Cardinality(Undone') = Cardinality(Undone)
      /\ Cardinality(Unanswered') = Cardinality(Unanswered)
      /\ Cardinality(Undone') \in Nat /\ Cardinality(Unanswered') \in Nat
  BY <1>1, <1>2, Counted, FS_AddElement, FS_RemoveElement, FS_CardinalityType
<1>4. answers' = answers
  OBVIOUS
<1>5. IsFiniteSet(answers') /\ Cardinality(answers') = Cardinality(answers)
  BY <1>4 DEF IInv
<1>6. rec'.state = "done" => [body |-> rec'.body, answer |-> rec'.answer] \in answers'
  BY <1>0, <1>4, RecordIs DEF IInv, NoRecord, PendingOf, DoneWith, Answer, Stored
<1>7. Bound(effects + Cardinality(Undone))'
  BY <1>0, <1>1, <1>3, Counted, RecordIs
  DEF IInv, TypeOK, Bound, Free, Orphan, Live, NoRecord, PendingOf, DoneWith, Stored,
      NotStored, Undone
<1>8. Bound(Cardinality(answers) + Cardinality(Unanswered))'
  BY <1>0, <1>2, <1>3, <1>5, Counted, RecordIs
  DEF IInv, TypeOK, Bound, Free, Orphan, Live, NoRecord, PendingOf, DoneWith, Stored,
      NotStored, Unanswered
<1> QED
  BY <1>0, <1>5, <1>6, <1>7, <1>8 DEF IInv

(* A handler that fails after its effect is a fault.                       *)
LEMMA BreaksKeeps ==
    ASSUME IInv, NEW r \in Requests, Breaks(r)
    PROVE  IInv'
<1> USE DEF Breaks, Goes, Forgets, Fault, Failure
<1>0. TypeOK /\ TypeOK'
  BY DEF IInv, TypeOK, Records, NoRecord, PendingOf, DoneWith, Answer, Stored, Replays,
         NotStored, Live, Orphan
<1>1. Undone' = Undone \cup {r}
  BY <1>0 DEF TypeOK, Undone, Live, NotStored
<1>2. Unanswered' = Unanswered
  BY <1>0 DEF TypeOK, Unanswered, Live, NotStored
<1>3. /\ Cardinality(Undone') = IF r \in Undone THEN Cardinality(Undone) ELSE Cardinality(Undone) + 1
      /\ Cardinality(Unanswered') = Cardinality(Unanswered)
      /\ Cardinality(Undone') \in Nat /\ Cardinality(Unanswered') \in Nat
  <2>1. IsFiniteSet(Undone) /\ IsFiniteSet(Unanswered)
    BY Counted
  <2>2. Cardinality(Undone') = IF r \in Undone THEN Cardinality(Undone) ELSE Cardinality(Undone) + 1
    BY <1>1, <2>1, FS_AddElement
  <2>3. Cardinality(Unanswered') = Cardinality(Unanswered)
    BY <1>2, <2>1, FS_RemoveElement
  <2>4. IsFiniteSet(Undone') /\ IsFiniteSet(Unanswered')
    BY <1>1, <1>2, <2>1, FS_AddElement, FS_RemoveElement
  <2> QED
    BY <2>2, <2>3, <2>4, FS_CardinalityType
<1>4. answers' = answers
  OBVIOUS
<1>5. IsFiniteSet(answers') /\ Cardinality(answers') = Cardinality(answers)
  BY <1>4 DEF IInv
<1>6. rec'.state = "done" => [body |-> rec'.body, answer |-> rec'.answer] \in answers'
  BY <1>0, <1>4, RecordIs DEF IInv, NoRecord, PendingOf, DoneWith, Answer, Stored
<1>7. Bound(effects + Cardinality(Undone))'
  BY <1>0, <1>1, <1>3, Counted, RecordIs
  DEF IInv, TypeOK, Bound, Free, Orphan, Live, NoRecord, PendingOf, DoneWith, Stored,
      NotStored, Undone
<1>8. Bound(Cardinality(answers) + Cardinality(Unanswered))'
  BY <1>0, <1>2, <1>3, <1>5, Counted, RecordIs
  DEF IInv, TypeOK, Bound, Free, Orphan, Live, NoRecord, PendingOf, DoneWith, Stored,
      NotStored, Unanswered
<1> QED
  BY <1>0, <1>5, <1>6, <1>7, <1>8 DEF IInv

(* A claim that expires under its request is a fault.                      *)
LEMMA ExpiresKeeps ==
    ASSUME IInv, Expires
    PROVE  IInv'
<1> USE DEF Expires, Goes, Forgets, Fault, Failure
<1>0. TypeOK /\ TypeOK'
  BY DEF IInv, TypeOK, Records, NoRecord, PendingOf, DoneWith, Answer, Stored, Replays,
         NotStored, Live, Orphan
<1>1. Undone' = Undone
  BY <1>0 DEF TypeOK, Undone, Live, NotStored
<1>2. Unanswered' = Unanswered
  BY <1>0 DEF TypeOK, Unanswered, Live, NotStored
<1>3. /\ Cardinality(Undone') = Cardinality(Undone)
      /\ Cardinality(Unanswered') = Cardinality(Unanswered)
      /\ Cardinality(Undone') \in Nat /\ Cardinality(Unanswered') \in Nat
  BY <1>1, <1>2, Counted, FS_AddElement, FS_RemoveElement, FS_CardinalityType
<1>4. answers' = answers
  OBVIOUS
<1>5. IsFiniteSet(answers') /\ Cardinality(answers') = Cardinality(answers)
  BY <1>4 DEF IInv
<1>6. rec'.state = "done" => [body |-> rec'.body, answer |-> rec'.answer] \in answers'
  BY <1>0, <1>4, RecordIs DEF IInv, NoRecord, PendingOf, DoneWith, Answer, Stored
<1>7. Bound(effects + Cardinality(Undone))'
  BY <1>0, <1>1, <1>3, Counted, RecordIs
  DEF IInv, TypeOK, Bound, Free, Orphan, Live, NoRecord, PendingOf, DoneWith, Stored,
      NotStored, Undone
<1>8. Bound(Cardinality(answers) + Cardinality(Unanswered))'
  BY <1>0, <1>2, <1>3, <1>5, Counted, RecordIs
  DEF IInv, TypeOK, Bound, Free, Orphan, Live, NoRecord, PendingOf, DoneWith, Stored,
      NotStored, Unanswered
<1> QED
  BY <1>0, <1>5, <1>6, <1>7, <1>8 DEF IInv

(* A restart drops every claim; one that had taken effect is a fault.      *)
LEMMA RestartKeeps ==
    ASSUME IInv, Restart
    PROVE  IInv'
<1> USE DEF Restart, Fault, Failure
<1>0. TypeOK /\ TypeOK'
  BY DEF IInv, TypeOK, Records, NoRecord
<1>1. Undone' = {} /\ Unanswered' = {}
  BY DEF Undone, Unanswered, Live
<1>2. Cardinality(Undone') = 0 /\ Cardinality(Unanswered') = 0
  BY <1>1, FS_EmptySet
<1>3. \A r \in Undone : Cardinality(Undone) >= 1
  BY Counted, FS_EmptySet
<1>4. \A r \in Unanswered : Cardinality(Unanswered) >= 1
  BY Counted, FS_EmptySet
<1>5. rec.state = "pending" =>
          Orphan \/ rec.owner \in Undone \/ faults' = faults + 1
  BY <1>0, RecordIs DEF Orphan, Live, Undone
<1>6. rec.state = "pending" => Orphan \/ rec.owner \in Unanswered
  BY <1>0, RecordIs DEF Orphan, Unanswered
<1>7. Bound(effects + Cardinality(Undone))'
  BY <1>0, <1>2, <1>3, <1>5, Counted, RecordIs DEF IInv, TypeOK, Bound, Free, Orphan
<1>8. Bound(Cardinality(answers) + Cardinality(Unanswered))'
  BY <1>0, <1>2, <1>4, <1>6, Counted, RecordIs DEF IInv, TypeOK, Bound, Free, Orphan
<1> QED
  BY <1>0, <1>7, <1>8 DEF IInv

(* Every step keeps the invariant.                                         *)
LEMMA StepKeepsIInv ==
    ASSUME IInv, [Next]_vars
    PROVE  IInv'
<1>1. ASSUME NEW r \in Requests, NEW b \in Bodies, Claim(r, b) \/ ClaimFails(r, b)
      PROVE  IInv'
  BY <1>1, ClaimFreeKeeps, ClaimTakenKeeps, ClaimFailsKeeps
<1>2. ASSUME NEW r \in Requests, Handles(r)
      PROVE  IInv'
  BY <1>2, CommitsKeeps, RefusesKeeps DEF Handles
<1>3. ASSUME NEW r \in Requests, Settles(r)
      PROVE  IInv'
  BY <1>3, StoreKeeps, ReleaseKeeps, ReplayKeeps DEF Settles
<1>4. ASSUME NEW r \in Requests, Fails(r)
      PROVE  IInv'
  BY <1>4, StoreFailsKeeps, ReleaseFailsKeeps, BreaksKeeps DEF Fails
<1>5. CASE Expires \/ Restart
  BY <1>5, ExpiresKeeps, RestartKeeps
<1>6. CASE UNCHANGED vars
  BY <1>6 DEF vars, IInv, TypeOK, Bound, Free, Orphan, Live, Undone, Unanswered
<1> QED
  BY <1>1, <1>2, <1>3, <1>4, <1>5, <1>6 DEF Next

(* The invariant holds of every reachable state.                           *)
THEOREM IInvHolds == Spec => []IInv
<1>1. Init => IInv
  <2> SUFFICES ASSUME Init PROVE IInv
    OBVIOUS
  <2>1. Undone = {} /\ Unanswered = {}
    BY DEF Init, Undone, Unanswered, Live
  <2> QED
    BY <2>1, FS_EmptySet
    DEF Init, IInv, TypeOK, Records, NoRecord, Bound, Free
<1>2. IInv /\ [Next]_vars => IInv'
  BY StepKeepsIInv
<1> QED
  BY <1>1, <1>2, PTL DEF Spec

(* Every variable keeps its type.                                          *)
THEOREM TypeCorrect == Spec => []TypeOK
<1>1. IInv => TypeOK
  BY DEF IInv
<1> QED
  BY <1>1, IInvHolds, PTL

(* A key's operation takes effect at most once, and once more for each     *)
(* fault, however many requests carry the key.                             *)
THEOREM EffectsBounded == Spec => []AtMostOnce
<1>1. IInv => AtMostOnce
  <2> SUFFICES ASSUME IInv PROVE AtMostOnce
    OBVIOUS
  <2> QED
    BY Counted DEF IInv, TypeOK, Bound, AtMostOnce
<1> QED
  BY <1>1, IInvHolds, PTL

(* All who are answered under a key are told the same, but for faults.     *)
THEOREM AnswersBounded == Spec => []AnswersAgree
<1>1. IInv => AnswersAgree
  <2> SUFFICES ASSUME IInv PROVE AnswersAgree
    OBVIOUS
  <2> QED
    BY Counted DEF IInv, TypeOK, Bound, AnswersAgree
<1> QED
  BY <1>1, IInvHolds, PTL

=============================================================================
