---------------------------- MODULE CommunityProofs -------------------------
(***************************************************************************)
(* Proofs about what the forum sends to the community service and what it  *)
(* mirrors from it: Outbox first, then Inbox.                              *)
(***************************************************************************)
EXTENDS Outbox, Inbox, FiniteSetTheorems, TLAPS

(***************************************************************************)
(* Proofs about Outbox, for any rows, values and bounds, and for both      *)
(* outboxes.                                                               *)
(*                                                                         *)
(* The argument: a key that is not queued is shown as the row is, and no   *)
(* tombstone in hand outranks what is shown (Agreed).  A key the drain     *)
(* claimed and nobody changed since was read as it is now, and its write   *)
(* outranks every tombstone for which the row was found missing before     *)
(* (Fresh); a change gives the key another time, so that it is not acked.  *)
(***************************************************************************)

(* Control: what is to send or to record was claimed, what was claimed is  *)
(* queued still, and a reconcile has tombstones only while it removes.     *)
InHand ==
    /\ drain.pc # "sending" => drain.left = {} /\ drain.accepted = {}
    /\ drain.left \cap drain.accepted = {}
    /\ \A k \in drain.left : drain.item[k] # Nothing
    /\ \A k \in drain.left \cup drain.accepted : drain.claim[k] # 0
    /\ \A k \in Keys : drain.claim[k] # 0 => queue[k] # 0
    /\ recon.pc # "removing" =>
          \A k \in Keys : recon.tomb[k] = 0 /\ recon.accepted[k] = 0

(* The forum records no revision community has not taken, and none as      *)
(* removed that community shows; what it shows is recorded, or about to be. *)
Known(k) ==
    /\ stored[k].rev = 0 => stored[k].item = Gone
    /\ sent[k].rev <= stored[k].rev
    /\ Held(stored[k]) /\ sent[k].rev = stored[k].rev => ~sent[k].removed
    /\ k \in drain.accepted =>
          \/ drain.rev = stored[k].rev /\ drain.item[k] = stored[k].item
          \/ drain.rev < stored[k].rev /\ ~Held(stored[k])
    /\ recon.accepted[k] # 0 =>
          /\ recon.accepted[k] <= stored[k].rev
          /\ Held(stored[k]) => recon.accepted[k] < stored[k].rev
    /\ failures = 0 /\ Held(stored[k]) =>
          \/ IsLive(sent[k]) /\ sent[k].rev = stored[k].rev
          \/ k \in drain.accepted /\ drain.rev = stored[k].rev

(* No tombstone in hand, or about to be, has revision r or more.           *)
Outranks(k, r) ==
    /\ recon.tomb[k] # 0 => recon.tomb[k] < r
    /\ recon.pc = "read" /\ recon.row[k] = Gone => recon.orphanRev < r

Agreed(k) ==
    IF row[k] = Gone
    THEN stored[k].item = Gone \/ (failures > 0 /\ ~IsLive(sent[k]))
    ELSE \/ row[k] \in Rejected \/ NotSendable(row[k])
         \/ stored[k].item = row[k] /\ Outranks(k, stored[k].rev)

Fresh(k) ==
    /\ Held(stored[k]) => stored[k].rev < drain.rev
    /\ row[k] # Gone => Outranks(k, drain.rev) /\ stored[k].rev < drain.rev

(* The drain has k in hand and the row has not changed since.              *)
Unchanged(k) ==
    /\ drain.pc \in {"stamped", "read"} => Fresh(k)
    /\ drain.pc = "read" =>
          /\ drain.row[k] = row[k]
          /\ outbox = "activity" /\ k \notin drain.told =>
                ~IsLive(sent[k]) /\ (failures = 0 => ~Held(stored[k]))
    /\ drain.pc = "sending" =>
          /\ k \in drain.left \cup drain.accepted => drain.item[k] = row[k]
          /\ IF k \in drain.left THEN Fresh(k) ELSE Agreed(k)

Shows(k) ==
    ~silent => /\ shown[k]
               /\ queue[k] = 0 => Agreed(k)
               /\ drain.claim[k] # 0 /\ queue[k] = drain.claim[k] => Unchanged(k)

IInv == TypeOK /\ InHand /\ \A k \in Keys : Known(k) /\ Shows(k)

-----------------------------------------------------------------------------
(* A finite set of numbers has a largest one.                              *)
LEMMA MaxIsLargest ==
  ASSUME NEW S \in SUBSET Nat, IsFiniteSet(S), S # {}
  PROVE  Max(S) \in Nat /\ \A x \in S : x <= Max(S)
<1> DEFINE Largest(T) == \E m \in T : \A x \in T : x <= m
           Bad == {T \in SUBSET S : T # {} /\ ~Largest(T)}
           R == StrictSubsetOrdering(S)
<1>1. Bad = {}
  <2> SUFFICES ASSUME Bad # {} PROVE FALSE
    OBVIOUS
  <2>1. IsWellFoundedOn(R, FiniteSubsetsOf(S))
    BY FS_StrictSubsetOrderingWellFounded
  <2>2. IsWellFoundedOn(R, SUBSET S)
    BY <2>1, FS_FiniteSubsetsOfFinite
  <2>3. PICK T \in Bad : \A U \in Bad : <<U, T>> \notin R
    <3>1. Bad \subseteq SUBSET S
      OBVIOUS
    <3> HIDE DEF Bad, R
    <3> QED BY <2>2, <3>1, WFMin
  <2>4. T \in SUBSET S /\ T # {} /\ ~Largest(T)
    BY <2>3
  <2>5. PICK t \in T : TRUE
    BY <2>4
  <2> DEFINE U == T \ {t}
  <2>6. <<U, T>> \in R
    BY <2>4, <2>5 DEF StrictSubsetOrdering
  <2>7. U = {} \/ Largest(U)
    BY <2>3, <2>4, <2>6
  <2>8. t \in Nat /\ \A x \in T : x \in Nat
    BY <2>4, <2>5
  <2>9. CASE U = {}
    BY <2>4, <2>5, <2>8, <2>9
  <2>10. CASE Largest(U)
    <3>1. PICK m \in U : \A x \in U : x <= m
      BY <2>10
    <3>2. IF m <= t THEN \A x \in T : x <= t ELSE \A x \in T : x <= m
      BY <2>8, <3>1
    <3> QED BY <2>4, <2>5, <3>1, <3>2
  <2> QED BY <2>7, <2>9, <2>10
<1>2. \E m \in S : \A x \in S : x <= m
  BY <1>1
<1>3. \E m \in S : \A x \in S : m >= x
  BY <1>2
<1>4. Max(S) \in S /\ \A x \in S : Max(S) >= x
  BY <1>3 DEF Max
<1> QED
  BY <1>4

LEMMA BelowSum ==
  ASSUME NEW a \in Nat, NEW b \in Nat, NEW c \in Nat, NEW d \in Nat, NEW e \in Nat,
         NEW f \in Nat, NEW g \in Nat, NEW h \in Nat, NEW i \in Nat, NEW j \in Nat
  PROVE  LET n == a + b + c + d + e + f + g + h + i + j IN
         /\ n \in Nat
         /\ a <= n /\ b <= n /\ c <= n /\ d <= n /\ e <= n
         /\ f <= n /\ g <= n /\ h <= n /\ i <= n /\ j <= n
OBVIOUS

(* The time is later than every time and revision still remembered.        *)
Recent(k) ==
    {queue[k], sent[k].rev, stored[k].rev, drain.rev, drain.claim[k],
     recon.orphanRev, recon.rev, recon.stored[k].rev, recon.tomb[k], recon.accepted[k]}

LEMMA NowIsLater ==
  ASSUME TypeOK
  PROVE  /\ Now \in Nat /\ Now > 0
         /\ \A k \in Keys : /\ queue[k] < Now /\ sent[k].rev < Now /\ stored[k].rev < Now
                            /\ drain.claim[k] < Now /\ recon.orphanRev < Now
                            /\ recon.tomb[k] < Now /\ recon.accepted[k] < Now
<1> DEFINE A == {Recent(k) : k \in Keys}
           f == [k \in Keys |-> Recent(k)]
<1>1. \A k \in Keys : Recent(k) \in SUBSET Nat
  BY DEF TypeOK, Recent
<1>2. IsFiniteSet(A)
  <2>1. f \in Surjection(Keys, A)
    BY DEF Surjection
  <2> HIDE DEF f, A
  <2> QED BY <2>1, OutboxConstantsOK, FS_Surjection
<1>3. \A k \in Keys : IsFiniteSet(Recent(k))
  <2> SUFFICES ASSUME NEW k \in Keys PROVE IsFiniteSet(Recent(k))
    OBVIOUS
  <2> DEFINE n == queue[k] + sent[k].rev + stored[k].rev + drain.rev + drain.claim[k]
                  + recon.orphanRev + recon.rev + recon.stored[k].rev
                  + recon.tomb[k] + recon.accepted[k]
  <2>1. /\ queue[k] \in Nat /\ sent[k].rev \in Nat /\ stored[k].rev \in Nat
        /\ drain.rev \in Nat /\ drain.claim[k] \in Nat /\ recon.orphanRev \in Nat
        /\ recon.rev \in Nat /\ recon.stored[k].rev \in Nat
        /\ recon.tomb[k] \in Nat /\ recon.accepted[k] \in Nat
    BY DEF TypeOK
  <2>2. /\ n \in Nat
        /\ queue[k] <= n /\ sent[k].rev <= n /\ stored[k].rev <= n
        /\ drain.rev <= n /\ drain.claim[k] <= n /\ recon.orphanRev <= n
        /\ recon.rev <= n /\ recon.stored[k].rev <= n
        /\ recon.tomb[k] <= n /\ recon.accepted[k] <= n
    BY <2>1, BelowSum
  <2> HIDE DEF n
  <2>3. Recent(k) \in SUBSET Nat /\ \A x \in Recent(k) : x <= n
    BY <2>1, <2>2 DEF Recent
  <2> QED BY <2>2, <2>3, FS_BoundedSetOfNaturals
<1>4. IsFiniteSet(UNION A)
  <2>1. \A T \in A : IsFiniteSet(T)
    BY <1>3
  <2> HIDE DEF A
  <2> QED BY <1>2, <2>1, FS_UNION
<1>5. PICK j \in Keys : TRUE
  BY OutboxConstantsOK
<1>6. UNION A \in SUBSET Nat /\ UNION A # {}
  BY <1>1, <1>5 DEF Recent
<1>7. Max(UNION A) \in Nat /\ \A x \in UNION A : x <= Max(UNION A)
  <2> HIDE DEF A
  <2> QED BY <1>4, <1>6, MaxIsLargest
<1>8. Now = 1 + Max(UNION A)
  BY DEF Now, Recent
<1>9. \A k \in Keys : \A x \in Recent(k) : x \in Nat /\ x < Now
  <2> SUFFICES ASSUME NEW k \in Keys, NEW x \in Recent(k) PROVE x \in Nat /\ x < Now
    OBVIOUS
  <2>1. x \in UNION A /\ x \in Nat
    BY <1>1
  <2>2. x <= Max(UNION A)
    BY <1>7, <2>1
  <2> HIDE DEF A
  <2> QED BY <1>7, <1>8, <2>1, <2>2
<1>10. Now \in Nat /\ Now > 0
  <2> HIDE DEF A
  <2> QED BY <1>7, <1>8
<1> QED
  BY <1>9, <1>10 DEF Recent

-----------------------------------------------------------------------------
(* Types *)

DrainRecord ==
    [pc : {"idle", "claimed", "stamped", "read", "sending"},
     rev : Nat, claim : [Keys -> Nat],
     row : [Keys -> Values \cup {Gone}], told : SUBSET Keys,
     item : [Keys -> Values \cup {Gone, Nothing}],
     left : SUBSET Keys, accepted : SUBSET Keys]

ReconRecord ==
    [pc : {"idle", "started", "listed", "stamped", "read", "removing"},
     orphanRev : Nat, rev : Nat,
     stored : [Keys -> [rev : Nat, item : Values \cup {Gone}]],
     row : [Keys -> Values \cup {Gone}],
     tomb : [Keys -> Nat], accepted : [Keys -> Nat]]

LEMMA IdleTypes == DrainIdle \in DrainRecord /\ ReconIdle \in ReconRecord
BY DEF DrainIdle, ReconIdle, DrainRecord, ReconRecord, Unheld

LEMMA UpsertTypes ==
  ASSUME TypeOK, NEW k \in Keys, NEW r \in Nat, NEW b \in BOOLEAN
  PROVE  /\ UpsertSent(k, r, b) \in [Keys -> [rev : Nat, removed : BOOLEAN]]
         /\ \A j \in Keys : j # k => UpsertSent(k, r, b)[j] = sent[j]
         /\ UpsertSent(k, r, b)[k] = IF sent[k].rev < r THEN [rev |-> r, removed |-> b]
                                                        ELSE sent[k]
BY DEF TypeOK, UpsertSent

LEMMA FewFailures ==
  ASSUME TypeOK, NEW F \in SUBSET Keys, failures + Cardinality(F) <= MaxFailures
  PROVE  /\ failures + Cardinality(F) \in 0 .. MaxFailures
         /\ failures <= failures + Cardinality(F)
<1>1. Cardinality(F) \in Nat
  BY OutboxConstantsOK, FS_Subset, FS_CardinalityType
<1> QED
  BY <1>1, OutboxConstantsOK DEF TypeOK

(* What the drain does keeps the types.                                    *)
LEMMA DrainTypes ==
  ASSUME TypeOK, InHand, Drain \/ DrainFails
  PROVE  TypeOK'
<1> USE DEF loopVars, boundVars
<1>0. drain \in DrainRecord /\ recon \in ReconRecord
  BY DEF TypeOK, DrainRecord, ReconRecord
<1>1. ASSUME drain' \in DrainRecord,
             UNCHANGED <<outbox, row, shown, queue, sent, stored, recon, boundVars>>
      PROVE  TypeOK'
  BY <1>1 DEF TypeOK, DrainRecord
<1>2. CASE Claim
  <2>1. drain' \in DrainRecord
    BY <1>2, IdleTypes DEF Claim, TypeOK, DrainRecord
  <2> QED BY <1>1, <1>2, <2>1 DEF Claim
<1>3. CASE Stamp
  <2>1. drain' \in DrainRecord
    BY <1>0, <1>3, NowIsLater DEF Stamp, DrainRecord
  <2> QED BY <1>1, <1>3, <2>1 DEF Stamp
<1>4. CASE ReadRows
  <2>1. drain' \in DrainRecord
    BY <1>0, <1>4 DEF ReadRows, DrainRecord, TypeOK
  <2> QED BY <1>1, <1>4, <2>1 DEF ReadRows
<1>5. ASSUME NEW F \in SUBSET Keys, Prepare(F)
      PROVE  TypeOK'
  <2> DEFINE item == [k \in Keys |-> IF k \in {x \in Keys : drain.claim[x] # 0} \ F
                                     THEN ItemFor(k) ELSE Nothing]
  <2>1. item \in [Keys -> Values \cup {Gone, Nothing}]
    BY <1>0 DEF ItemFor, DrainRecord
  <2>2. drain' = [drain EXCEPT !.pc = "sending", !.item = item, !.row = DrainIdle.row,
                     !.told = {}, !.claim = [k \in Keys |-> IF k \in F THEN 0 ELSE @[k]],
                     !.left = {k \in Keys : item[k] # Nothing}]
    BY <1>5 DEF Prepare
  <2> HIDE DEF item
  <2>3. DrainIdle.row \in [Keys -> Values \cup {Gone}]
    BY DEF DrainIdle
  <2>4. drain' \in DrainRecord
    BY <1>0, <2>1, <2>2, <2>3 DEF DrainRecord
  <2>5. failures' \in 0 .. MaxFailures /\ queue' \in [Keys -> Nat]
    BY <1>5, NowIsLater, FewFailures DEF Prepare, TypeOK
  <2> QED BY <1>5, <2>4, <2>5 DEF Prepare, TypeOK, DrainRecord
<1>6. ASSUME NEW k \in Keys, Deliver(k)
      PROVE  TypeOK'
  <2>1. drain' \in DrainRecord
    BY <1>0, <1>6 DEF Deliver, DrainRecord
  <2>2. CASE Accepts(k, drain.rev, drain.item[k]) /\ drain.item[k] # Nothing
    <3>1. [rev |-> drain.rev, item |-> drain.item[k]] \in [rev : Nat, item : Values \cup {Gone}]
      BY <1>0, <2>2 DEF DrainRecord
    <3>2. stored' \in [Keys -> [rev : Nat, item : Values \cup {Gone}]]
      BY <1>6, <2>2, <3>1 DEF Deliver, TypeOK
    <3> QED BY <1>6, <2>1, <3>2 DEF Deliver, TypeOK, DrainRecord
  <2>3. CASE ~Accepts(k, drain.rev, drain.item[k])
    BY <1>6, <2>1, <2>3 DEF Deliver, TypeOK, DrainRecord
  <2> QED BY <1>6, <2>2, <2>3 DEF Deliver, InHand
<1>7. ASSUME NEW k \in Keys, Record(k)
      PROVE  TypeOK'
  <2>1. drain' \in DrainRecord
    BY <1>0, <1>7 DEF Record, DrainRecord
  <2>2. sent' \in [Keys -> [rev : Nat, removed : BOOLEAN]]
    BY <1>0, <1>7, UpsertTypes DEF Record, DrainRecord
  <2> QED BY <1>7, <2>1, <2>2 DEF Record, TypeOK, DrainRecord
<1>8. ASSUME NEW k \in Keys, Ack(k)
      PROVE  TypeOK'
  <2>1. drain' \in DrainRecord
    BY <1>0, <1>8 DEF Ack, DrainRecord
  <2> QED BY <1>8, <2>1 DEF Ack, Acked, TypeOK, DrainRecord
<1>9. CASE DrainEnds
  BY <1>1, <1>9, IdleTypes DEF DrainEnds
<1>10. CASE DrainFails
  BY <1>10, IdleTypes, OutboxConstantsOK DEF DrainFails, TypeOK, DrainRecord
<1> QED
  BY <1>2, <1>3, <1>4, <1>5, <1>6, <1>7, <1>8, <1>9, <1>10 DEF Drain

(* What the reconcile and the forum do keeps the types.                    *)
LEMMA ReconTypes ==
  ASSUME TypeOK, Reconcile \/ ReconFails
  PROVE  TypeOK'
<1> USE DEF loopVars, boundVars
<1>0. drain \in DrainRecord /\ recon \in ReconRecord
  BY DEF TypeOK, DrainRecord, ReconRecord
<1>1. ASSUME recon' \in ReconRecord,
             UNCHANGED <<outbox, row, shown, queue, sent, stored, drain, boundVars>>
      PROVE  TypeOK'
  BY <1>1 DEF TypeOK, ReconRecord
<1>2. CASE ReconStarts
  <2>1. recon' \in ReconRecord
    BY <1>2, IdleTypes, NowIsLater DEF ReconStarts, ReconRecord
  <2>2. overlaps' \in 0 .. MaxOverlaps /\ due' \in BOOLEAN
    BY <1>2, OutboxConstantsOK DEF ReconStarts, TypeOK
  <2> QED BY <1>2, <2>1, <2>2 DEF ReconStarts, TypeOK, ReconRecord
<1>3. CASE ReconLists
  <2>1. recon' \in ReconRecord
    BY <1>0, <1>3 DEF ReconLists, ReconRecord, TypeOK
  <2> QED BY <1>1, <1>3, <2>1 DEF ReconLists
<1>4. CASE ReconStamps
  <2>1. recon' \in ReconRecord
    BY <1>0, <1>4, NowIsLater DEF ReconStamps, ReconRecord
  <2> QED BY <1>1, <1>4, <2>1 DEF ReconStamps
<1>5. CASE ReconReads
  <2>1. recon' \in ReconRecord
    BY <1>0, <1>5 DEF ReconReads, ReconRecord, TypeOK
  <2> QED BY <1>1, <1>5, <2>1 DEF ReconReads
<1>6. ASSUME NEW F \in SUBSET Keys, ReconCompares(F)
      PROVE  TypeOK'
  <2>1. \A k \in Keys : TombRevision(k) \in Nat
    BY <1>0 DEF TombRevision, ReconRecord
  <2>2. PICK R : recon' = [ReconIdle EXCEPT !.pc = "removing",
                     !.tomb = [k \in Keys |-> IF k \in R THEN TombRevision(k) ELSE 0]]
    BY <1>6 DEF ReconCompares
  <2>3. recon' \in ReconRecord
    BY <2>1, <2>2, IdleTypes DEF ReconRecord
  <2>4. queue' \in [Keys -> Nat] /\ failures' \in 0 .. MaxFailures /\ due' \in BOOLEAN
    BY <1>6, NowIsLater, FewFailures DEF ReconCompares, TypeOK
  <2> QED BY <1>6, <2>3, <2>4 DEF ReconCompares, TypeOK, ReconRecord
<1>7. ASSUME NEW k \in Keys, ReconRemoves(k)
      PROVE  TypeOK'
  <2>1. recon' \in ReconRecord
    BY <1>0, <1>7 DEF ReconRemoves, ReconRecord
  <2>2. stored' \in [Keys -> [rev : Nat, item : Values \cup {Gone}]]
    BY <1>0, <1>7 DEF ReconRemoves, ReconRecord, TypeOK
  <2> QED BY <1>7, <2>1, <2>2 DEF ReconRemoves, TypeOK, ReconRecord
<1>8. ASSUME NEW k \in Keys, ReconRecords(k)
      PROVE  TypeOK'
  <2>1. recon' \in ReconRecord
    BY <1>0, <1>8 DEF ReconRecords, ReconRecord
  <2>2. sent' \in [Keys -> [rev : Nat, removed : BOOLEAN]]
    BY <1>0, <1>8, UpsertTypes DEF ReconRecords, ReconRecord
  <2> QED BY <1>8, <2>1, <2>2 DEF ReconRecords, TypeOK, ReconRecord
<1>9. CASE ReconEnds
  BY <1>1, <1>9, IdleTypes DEF ReconEnds
<1>10. CASE ReconFails
  BY <1>10, IdleTypes, OutboxConstantsOK DEF ReconFails, TypeOK, ReconRecord
<1> QED
  BY <1>2, <1>3, <1>4, <1>5, <1>6, <1>7, <1>8, <1>9, <1>10 DEF Reconcile

LEMMA ForumTypes ==
  ASSUME TypeOK,
         \/ \E k \in Keys, v \in Values \cup {Gone} : Change(k, v)
         \/ \E k \in Keys : ChangeSilently(k)
  PROVE  TypeOK'
<1> USE DEF loopVars, boundVars
<1>1. ASSUME NEW k \in Keys, NEW v \in Values \cup {Gone}, Change(k, v)
      PROVE  TypeOK'
  BY <1>1, NowIsLater, OutboxConstantsOK DEF Change, TypeOK
<1>2. ASSUME NEW k \in Keys, ChangeSilently(k)
      PROVE  TypeOK'
  BY <1>2, OutboxConstantsOK DEF ChangeSilently, TypeOK
<1> QED
  BY <1>1, <1>2

-----------------------------------------------------------------------------
(* The drain *)

(* The steps that only change what the drain has in hand.                  *)
LEMMA DrainReads ==
  ASSUME IInv, Claim \/ Stamp \/ ReadRows \/ DrainEnds \/ DrainFails
  PROVE  InHand' /\ \A k \in Keys : Known(k)' /\ Shows(k)'
<1> USE DEF IInv, loopVars, boundVars
<1>0. /\ drain \in DrainRecord /\ outbox' = outbox
      /\ UNCHANGED <<row, shown, queue, sent, stored, recon, silent>>
      /\ failures \in Nat
  BY OutboxConstantsOK DEF TypeOK, DrainRecord, Claim, Stamp, ReadRows, DrainEnds, DrainFails
<1>1. CASE Claim
  <2>1. /\ drain.pc = "idle" /\ drain'.pc = "claimed" /\ drain'.claim = queue
        /\ drain'.left = {} /\ drain'.accepted = {} /\ failures' = failures
    BY <1>1 DEF Claim, DrainIdle
  <2>2. InHand'
    BY <1>0, <2>1 DEF InHand
  <2>3. \A k \in Keys : Known(k)'
    BY <1>0, <2>1 DEF Known, InHand
  <2>4. \A k \in Keys : Shows(k)'
    BY <1>0, <2>1 DEF Shows, Agreed, Outranks, NotSendable, Unchanged
  <2> QED BY <2>2, <2>3, <2>4
<1>2. CASE Stamp
  <2>1. /\ drain.pc = "claimed" /\ drain'.pc = "stamped" /\ drain'.rev = Now
        /\ drain'.claim = drain.claim
        /\ drain'.left = drain.left /\ drain'.accepted = drain.accepted
        /\ failures' = failures
    BY <1>0, <1>2 DEF Stamp, DrainRecord
  <2>2. InHand' /\ drain.left = {} /\ drain.accepted = {}
    BY <1>0, <2>1 DEF InHand
  <2>3. \A k \in Keys : Known(k)'
    BY <1>0, <2>1, <2>2 DEF Known
  <2>4. \A k \in Keys : Fresh(k)'
    BY <1>0, <2>1, NowIsLater DEF Fresh, Outranks
  <2>5. \A k \in Keys : Shows(k)'
    BY <1>0, <2>1, <2>4 DEF Shows, Agreed, Outranks, NotSendable, Unchanged
  <2> QED BY <2>2, <2>3, <2>5
<1>3. CASE ReadRows
  <2>1. /\ drain.pc = "stamped" /\ drain'.pc = "read" /\ drain'.row = row
        /\ drain'.told = IF outbox = "activity" THEN {k \in Keys : IsLive(sent[k])} ELSE {}
        /\ UNCHANGED <<drain.rev, drain.claim, drain.left, drain.accepted, failures>>
    BY <1>0, <1>3 DEF ReadRows, DrainRecord
  <2>2. InHand' /\ drain.left = {} /\ drain.accepted = {}
    BY <1>0, <2>1 DEF InHand
  <2>3. \A k \in Keys : Known(k)'
    BY <1>0, <2>1, <2>2 DEF Known
  <2>4. \A k \in Keys : Fresh(k)' <=> Fresh(k)
    BY <1>0, <2>1 DEF Fresh, Outranks
  <2>5. ASSUME NEW k \in Keys, Unchanged(k)
        PROVE  Unchanged(k)'
    <3>1. Fresh(k)' /\ drain'.row[k] = row'[k]
      BY <1>0, <2>1, <2>4, <2>5 DEF Unchanged
    <3>2. outbox = "activity" /\ k \notin drain'.told => ~IsLive(sent[k])
      BY <2>1
    <3>3. ~IsLive(sent[k]) => (failures = 0 => ~Held(stored[k]))
      BY <2>2 DEF Known
    <3> QED BY <1>0, <2>1, <3>1, <3>2, <3>3 DEF Unchanged
  <2>6. \A k \in Keys : Shows(k)'
    BY <1>0, <2>1, <2>5 DEF Shows, Agreed, Outranks, NotSendable
  <2> QED BY <2>2, <2>3, <2>6
<1>4. CASE DrainEnds \/ DrainFails
  <2>1. /\ drain'.pc = "idle" /\ drain'.left = {} /\ drain'.accepted = {}
        /\ \A k \in Keys : drain'.claim[k] = 0
        /\ (failures' = failures /\ drain.accepted = {}) \/ failures' = failures + 1
    BY <1>4 DEF DrainEnds, DrainFails, DrainIdle
  <2>2. InHand'
    BY <1>0, <2>1 DEF InHand
  <2>3. failures' \in Nat /\ (failures > 0 => failures' > 0)
        /\ (failures' = 0 => failures = 0 /\ drain.accepted = {})
    BY <1>0, <2>1
  <2>4. \A k \in Keys : Known(k)'
    BY <1>0, <2>1, <2>3 DEF Known
  <2>5. \A k \in Keys : Shows(k)'
    BY <1>0, <2>1, <2>3 DEF Shows, Agreed, Outranks, NotSendable
  <2> QED BY <2>2, <2>4, <2>5
<1> QED
  BY <1>1, <1>2, <1>3, <1>4

(* What was read unchanged is sent as it is, unless there is nothing to    *)
(* send: community cannot be told of it, or shows nothing of it.           *)
LEMMA PrepareKeeps ==
  ASSUME IInv, NEW F \in SUBSET Keys, Prepare(F)
  PROVE  InHand' /\ \A k \in Keys : Known(k)' /\ Shows(k)'
<1> USE DEF IInv, loopVars, boundVars
<1> DEFINE claimed == {k \in Keys : drain.claim[k] # 0}
           item == [k \in Keys |-> IF k \in claimed \ F THEN ItemFor(k) ELSE Nothing]
<1>0. /\ drain \in DrainRecord /\ failures \in Nat
      /\ UNCHANGED <<outbox, row, shown, sent, stored, recon, silent>>
      /\ drain.pc = "read"
  BY OutboxConstantsOK DEF TypeOK, DrainRecord, Prepare
<1>1. /\ drain'.pc = "sending" /\ drain'.item = item /\ drain'.rev = drain.rev
      /\ drain'.claim = [k \in Keys |-> IF k \in F THEN 0 ELSE drain.claim[k]]
      /\ drain'.left = {k \in Keys : item[k] # Nothing}
      /\ drain'.accepted = drain.accepted
  BY <1>0 DEF Prepare, DrainRecord
<1>2. drain.accepted = {} /\ drain.left = {}
  BY <1>0 DEF InHand
<1>3. \A k \in Keys : /\ k \in drain'.left => k \in claimed \ F /\ item[k] = ItemFor(k)
                      /\ drain'.claim[k] = IF k \in F THEN 0 ELSE drain.claim[k]
                      /\ queue'[k] = IF k \in F /\ queue[k] # 0 THEN Now ELSE queue[k]
  BY <1>1 DEF Prepare
<1>4. failures' \in Nat /\ (failures > 0 => failures' > 0) /\ (failures' = 0 => failures = 0)
  BY <1>0, FewFailures DEF Prepare
<1>5. InHand'
  BY <1>0, <1>1, <1>2, <1>3, NowIsLater DEF InHand
<1>6. \A k \in Keys : Known(k)'
  BY <1>0, <1>1, <1>2, <1>4 DEF Known
<1>7. ASSUME NEW k \in Keys
      PROVE  Shows(k)'
  <2> SUFFICES ASSUME ~silent PROVE Shows(k)'
    BY <1>0 DEF Shows
  <2>1. shown[k] /\ (Agreed(k) => Agreed(k)')
    BY <1>0, <1>4 DEF Shows, Agreed, Outranks, NotSendable
  <2>2. queue'[k] = 0 => Agreed(k)'
    BY <1>3, <2>1, NowIsLater DEF Shows
  <2>3. ASSUME drain'.claim[k] # 0, queue'[k] = drain'.claim[k]
        PROVE  Unchanged(k)'
    <3>1. k \in claimed \ F /\ queue[k] = drain.claim[k]
      BY <1>3, <2>3
    <3>2. /\ Fresh(k) /\ drain.row[k] = row[k]
          /\ outbox = "activity" /\ k \notin drain.told =>
                ~IsLive(sent[k]) /\ (failures = 0 => ~Held(stored[k]))
      BY <1>0, <3>1 DEF Shows, Unchanged
    <3>3. Fresh(k)'
      BY <1>0, <1>1, <3>2 DEF Fresh, Outranks
    <3>4. item[k] = ItemFor(k) /\ (k \in drain'.left <=> ItemFor(k) # Nothing)
      BY <1>1, <3>1
    <3>5. row[k] \in Values \cup {Gone} /\ Gone # Nothing /\ Nothing \notin Values
      BY OutboxConstantsOK DEF TypeOK
    <3>6. CASE ItemFor(k) # Nothing
      <4>1. ItemFor(k) = row[k]
        BY <2>1, <3>2, <3>6 DEF ItemFor
      <4> HIDE DEF item
      <4> QED BY <1>0, <1>1, <3>3, <3>4, <3>6, <4>1 DEF Unchanged
    <3>7. CASE ItemFor(k) = Nothing
      <4>1. ASSUME row[k] # Gone PROVE Agreed(k)
        <5>1. NotSendable(row[k])
          BY <2>1, <3>2, <3>5, <3>7, <4>1 DEF ItemFor
        <5> QED BY <4>1, <5>1 DEF Agreed
      <4>2. ASSUME row[k] = Gone PROVE Agreed(k)
        <5>1. ~IsLive(sent[k])
          BY <3>2, <3>5, <3>7, <4>2 DEF ItemFor
        <5>2. failures = 0 => ~Held(stored[k])
          BY <1>2, <5>1 DEF Known
        <5>3. ~Held(stored[k]) => stored[k].item = Gone
          BY DEF Known, Held
        <5> QED BY <1>0, <4>2, <5>1, <5>2, <5>3 DEF Agreed
      <4>3. Agreed(k)'
        BY <2>1, <4>1, <4>2
      <4>4. k \notin drain'.left \cup drain'.accepted
        BY <1>1, <1>2, <3>4, <3>7
      <4> HIDE DEF item
      <4> QED BY <1>1, <4>3, <4>4 DEF Unchanged
    <3> QED BY <3>6, <3>7
  <2> QED BY <1>0, <2>1, <2>2, <2>3 DEF Shows
<1> QED
  BY <1>5, <1>6, <1>7

(* A write outranks what community shows of an unchanged row.              *)
LEMMA DeliverKeeps ==
  ASSUME IInv, NEW k \in Keys, Deliver(k)
  PROVE  InHand' /\ \A j \in Keys : Known(j)' /\ Shows(j)'
<1> USE DEF IInv, loopVars, boundVars
<1> DEFINE ok == Accepts(k, drain.rev, drain.item[k])
<1>0. /\ drain \in DrainRecord /\ failures \in Nat
      /\ stored \in [Keys -> [rev : Nat, item : Values \cup {Gone}]]
      /\ UNCHANGED <<outbox, row, shown, queue, sent, recon, silent, failures>>
      /\ drain.pc = "sending" /\ k \in drain.left /\ k \notin drain.accepted
      /\ drain.item[k] # Nothing
  BY OutboxConstantsOK DEF TypeOK, DrainRecord, Deliver, InHand
<1>1. /\ UNCHANGED <<drain.pc, drain.rev, drain.claim>>
      /\ drain'.left = drain.left \ {k}
      /\ drain'.accepted = IF ok THEN drain.accepted \cup {k} ELSE drain.accepted
      /\ drain'.item = [drain.item EXCEPT ![k] = IF ok THEN @ ELSE Nothing]
      /\ stored' = IF ok THEN [stored EXCEPT ![k] = [rev |-> drain.rev, item |-> drain.item[k]]]
                   ELSE stored
  BY <1>0 DEF Deliver, DrainRecord
<1>2. /\ \A j \in Keys : j # k => drain'.item[j] = drain.item[j] /\ stored'[j] = stored[j]
      /\ ok => /\ stored'[k].rev = drain.rev /\ stored'[k].item = drain.item[k]
               /\ drain'.item[k] = drain.item[k]
               /\ stored[k].rev < drain.rev /\ drain.item[k] \notin Rejected
      /\ ~ok => stored'[k] = stored[k]
      /\ ~ok => drain.rev <= stored[k].rev \/ drain.item[k] \in Rejected
      /\ drain.rev \in Nat /\ stored[k].rev \in Nat
  BY <1>0, <1>1 DEF DrainRecord, Accepts
<1> HIDE DEF ok
<1>3. InHand'
  BY <1>0, <1>1, <1>2 DEF InHand
<1>4. ASSUME NEW j \in Keys
      PROVE  Known(j)'
  <2>1. CASE j # k
    BY <1>0, <1>1, <1>2, <2>1 DEF Known
  <2>2. CASE j = k /\ ~ok
    BY <1>0, <1>1, <1>2, <2>2 DEF Known
  <2>3. CASE j = k /\ ok
    <3>1. sent[k].rev \in Nat /\ recon.accepted[k] \in Nat /\ Known(k)
      BY DEF TypeOK
    <3> QED BY <1>0, <1>1, <1>2, <2>3, <3>1 DEF Known
  <2> QED BY <2>1, <2>2, <2>3
<1>5. ASSUME NEW j \in Keys
      PROVE  Shows(j)'
  <2> SUFFICES ASSUME ~silent PROVE Shows(j)'
    BY <1>0 DEF Shows
  <2>1. CASE j # k
    <3>1. (Agreed(j) => Agreed(j)') /\ (Fresh(j) => Fresh(j)')
      BY <1>0, <1>1, <1>2, <2>1 DEF Agreed, Fresh, Outranks, NotSendable
    <3>2. Unchanged(j) => Unchanged(j)'
      BY <1>0, <1>1, <1>2, <2>1, <3>1 DEF Unchanged
    <3> QED BY <1>0, <1>1, <3>1, <3>2 DEF Shows
  <2>2. CASE j = k
    <3>1. queue[k] # 0
      BY <1>0 DEF InHand
    <3>2. ASSUME Unchanged(k) PROVE Unchanged(k)'
      <4>1. drain.item[k] = row[k] /\ Fresh(k)
        BY <1>0, <3>2 DEF Unchanged
      <4>2. stored[k].rev = 0 => stored[k].item = Gone
        BY DEF Known
      <4>3. row[k] # Gone => Agreed(k)'
        <5>1. CASE ok /\ row[k] # Gone
          BY <1>0, <1>2, <4>1, <5>1 DEF Fresh, Agreed, Outranks
        <5>2. CASE ~ok /\ row[k] # Gone
          BY <1>0, <1>2, <4>1, <5>2 DEF Fresh, Agreed
        <5> QED BY <5>1, <5>2
      <4>4. row[k] = Gone => Agreed(k)'
        <5>1. CASE ok /\ row[k] = Gone
          BY <1>0, <1>2, <4>1, <5>1 DEF Agreed
        <5>2. CASE ~ok /\ row[k] = Gone
          <6>1. ~Held(stored[k])
            BY <1>2, <4>1, <5>2, OutboxConstantsOK DEF Fresh
          <6> QED BY <1>0, <1>2, <4>2, <5>2, <6>1 DEF Agreed, Held
        <5> QED BY <5>1, <5>2
      <4>5. k \in drain'.accepted => drain'.item[k] = row[k]
        BY <1>0, <1>1, <1>2, <4>1
      <4> QED BY <1>0, <1>1, <4>3, <4>4, <4>5 DEF Unchanged
    <3> QED BY <1>0, <1>1, <2>2, <3>1, <3>2 DEF Shows
  <2> QED BY <2>1, <2>2
<1> QED
  BY <1>3, <1>4, <1>5

(* What is recorded is what community took, unless it was told a newer.    *)
LEMMA RecordKeeps ==
  ASSUME IInv, NEW k \in Keys, Record(k)
  PROVE  InHand' /\ \A j \in Keys : Known(j)' /\ Shows(j)'
<1> USE DEF IInv, loopVars, boundVars
<1>0. /\ drain \in DrainRecord /\ failures \in Nat
      /\ UNCHANGED <<outbox, row, shown, queue, stored, recon, silent, failures>>
      /\ drain.pc = "sending" /\ drain.left = {} /\ k \in drain.accepted
      /\ sent' = UpsertSent(k, drain.rev, drain.item[k] = Gone)
      /\ drain.rev \in Nat /\ sent[k].rev \in Nat /\ stored[k].rev \in Nat
      /\ recon.accepted[k] \in Nat
  BY OutboxConstantsOK DEF TypeOK, DrainRecord, Record
<1>1. /\ UNCHANGED <<drain.pc, drain.rev, drain.claim, drain.left>>
      /\ drain'.accepted = drain.accepted \ {k}
      /\ \A j \in Keys : j # k => drain'.item[j] = drain.item[j]
  BY <1>0 DEF Record, DrainRecord
<1>2. /\ \A j \in Keys : j # k => sent'[j] = sent[j]
      /\ IF sent[k].rev < drain.rev
         THEN sent'[k].rev = drain.rev /\ (sent'[k].removed <=> drain.item[k] = Gone)
         ELSE sent'[k] = sent[k]
  <2>1. CASE drain.item[k] = Gone
    <3>1. sent' = UpsertSent(k, drain.rev, TRUE)
      BY <1>0, <2>1 DEF UpsertSent
    <3>2. /\ \A j \in Keys : j # k => sent'[j] = sent[j]
          /\ sent'[k] = IF sent[k].rev < drain.rev THEN [rev |-> drain.rev, removed |-> TRUE]
                                                  ELSE sent[k]
      BY <1>0, <3>1 DEF UpsertSent, TypeOK
    <3> QED BY <2>1, <3>2
  <2>2. CASE drain.item[k] # Gone
    <3>1. sent' = UpsertSent(k, drain.rev, FALSE)
      BY <1>0, <2>2 DEF UpsertSent
    <3>2. /\ \A j \in Keys : j # k => sent'[j] = sent[j]
          /\ sent'[k] = IF sent[k].rev < drain.rev THEN [rev |-> drain.rev, removed |-> FALSE]
                                                  ELSE sent[k]
      BY <1>0, <3>1 DEF UpsertSent, TypeOK
    <3> QED BY <2>2, <3>2
  <2> QED BY <2>1, <2>2
<1>3. InHand'
  BY <1>0, <1>1 DEF InHand
<1>4. ASSUME NEW j \in Keys
      PROVE  Known(j)'
  <2>1. CASE j # k
    BY <1>0, <1>1, <1>2, <2>1 DEF Known
  <2>2. CASE j = k
    <3>1. Known(k) /\ k \notin drain'.accepted
      BY <1>1
    <3>2. /\ drain.rev = stored[k].rev => drain.item[k] = stored[k].item
          /\ drain.rev <= stored[k].rev
          /\ Held(stored[k]) => drain.rev = stored[k].rev
      BY <1>0, <3>1 DEF Known
    <3>3. CASE sent[k].rev < drain.rev
      <4>1. sent'[k].rev = drain.rev /\ (sent'[k].removed <=> drain.item[k] = Gone)
        BY <1>2, <3>3
      <4>2. Held(stored[k]) => ~sent'[k].removed /\ IsLive(sent'[k])
        BY <1>0, <3>2, <4>1 DEF Held, IsLive
      <4> QED BY <1>0, <1>1, <2>2, <3>1, <3>2, <4>1, <4>2 DEF Known
    <3>4. CASE ~(sent[k].rev < drain.rev)
      <4>1. sent'[k] = sent[k]
        BY <1>2, <3>4
      <4>2. Held(stored[k]) => sent[k].rev = stored[k].rev /\ IsLive(sent[k])
        BY <1>0, <3>1, <3>2, <3>4 DEF Known, Held, IsLive
      <4> QED BY <1>0, <1>1, <2>2, <3>1, <4>1, <4>2 DEF Known
    <3> QED BY <3>3, <3>4
  <2> QED BY <2>1, <2>2
<1>5. ASSUME NEW j \in Keys
      PROVE  Shows(j)'
  <2>1. CASE j # k
    <3>1. (Agreed(j) => Agreed(j)') /\ (Fresh(j) => Fresh(j)')
      BY <1>0, <1>1, <1>2, <2>1 DEF Agreed, Fresh, Outranks, NotSendable
    <3> QED BY <1>0, <1>1, <2>1, <3>1 DEF Shows, Unchanged
  <2>2. CASE j = k
    <3>1. queue[k] # 0
      BY <1>0 DEF InHand
    <3>2. Unchanged(k) /\ row[k] = Gone => (~IsLive(sent[k]) => ~IsLive(sent'[k]))
      <4>1. Unchanged(k) /\ row[k] = Gone => drain.item[k] = Gone
        BY <1>0 DEF Unchanged
      <4> QED BY <1>2, <4>1 DEF IsLive
    <3>3. Unchanged(k) => Agreed(k) /\ Agreed(k)'
      BY <1>0, <3>2 DEF Unchanged, Agreed, Outranks, NotSendable
    <3> QED BY <1>0, <1>1, <2>2, <3>1, <3>3 DEF Shows, Unchanged
  <2> QED BY <2>1, <2>2
<1> QED
  BY <1>3, <1>4, <1>5

(* An acknowledgement takes a key off only as it was read.                 *)
LEMMA AckKeeps ==
  ASSUME IInv, NEW k \in Keys, Ack(k)
  PROVE  InHand' /\ \A j \in Keys : Known(j)' /\ Shows(j)'
<1> USE DEF IInv, loopVars, boundVars
<1>0. /\ drain \in DrainRecord /\ queue \in [Keys -> Nat]
      /\ UNCHANGED <<outbox, row, shown, sent, stored, recon, silent, failures>>
      /\ drain.pc = "sending" /\ drain.left = {} /\ drain.accepted = {} /\ drain.claim[k] # 0
      /\ queue' = [queue EXCEPT ![k] = IF queue[k] = drain.claim[k] THEN 0 ELSE queue[k]]
  BY DEF TypeOK, DrainRecord, Ack, Acked
<1>1. /\ UNCHANGED <<drain.pc, drain.left, drain.accepted, drain.item>>
      /\ drain'.claim = [drain.claim EXCEPT ![k] = 0]
  BY <1>0 DEF Ack, DrainRecord
<1>2. /\ drain'.claim[k] = 0 /\ \A j \in Keys : j # k => drain'.claim[j] = drain.claim[j]
      /\ \A j \in Keys : j # k => queue'[j] = queue[j]
      /\ queue'[k] = IF queue[k] = drain.claim[k] THEN 0 ELSE queue[k]
  BY <1>0, <1>1 DEF DrainRecord
<1>3. InHand'
  BY <1>0, <1>1, <1>2 DEF InHand
<1>4. \A j \in Keys : Known(j)'
  BY <1>0, <1>1 DEF Known
<1>5. ASSUME NEW j \in Keys
      PROVE  Shows(j)'
  <2>1. Agreed(j)' <=> Agreed(j)
    BY <1>0 DEF Agreed, Outranks, NotSendable
  <2>2. CASE j # k
    <3>1. Unchanged(j) => Unchanged(j)'
      BY <1>0, <1>1, <2>1 DEF Unchanged
    <3> QED BY <1>0, <1>2, <2>1, <2>2, <3>1 DEF Shows
  <2>3. CASE j = k
    <3>1. ~silent /\ queue[k] = drain.claim[k] => Agreed(k)
      BY <1>0 DEF Shows, Unchanged
    <3>2. queue[k] # 0
      BY <1>0 DEF InHand
    <3> QED BY <1>0, <1>2, <2>1, <2>3, <3>1, <3>2 DEF Shows
  <2> QED BY <2>2, <2>3
<1> QED
  BY <1>3, <1>4, <1>5

-----------------------------------------------------------------------------
(* The reconcile *)

(* The steps that only change what the reconcile has in hand: a row that   *)
(* is there is not found missing.                                          *)
LEMMA ReconLooks ==
  ASSUME IInv,
         ReconStarts \/ ReconLists \/ ReconStamps \/ ReconReads \/ ReconEnds \/ ReconFails
  PROVE  InHand' /\ \A k \in Keys : Known(k)' /\ Shows(k)'
<1> USE DEF IInv, loopVars, boundVars
<1>0. /\ recon \in ReconRecord /\ failures \in Nat
      /\ UNCHANGED <<outbox, row, shown, queue, sent, stored, drain, silent>>
      /\ failures' \in Nat /\ (failures > 0 => failures' > 0) /\ (failures' = 0 => failures = 0)
  BY OutboxConstantsOK DEF TypeOK, ReconRecord, ReconStarts, ReconLists, ReconStamps,
     ReconReads, ReconEnds, ReconFails
<1>1. /\ \A k \in Keys : recon'.tomb[k] = 0 /\ recon'.accepted[k] = 0
      /\ recon'.pc = "read" => recon'.row = row
  <2>1. CASE ReconStarts \/ ReconEnds \/ ReconFails
    <3>1. /\ ReconIdle.tomb = [k \in Keys |-> 0] /\ ReconIdle.accepted = [k \in Keys |-> 0]
          /\ ReconIdle.pc = "idle"
      BY DEF ReconIdle
    <3>2. /\ recon'.tomb = ReconIdle.tomb /\ recon'.accepted = ReconIdle.accepted
          /\ recon'.pc # "read"
      BY <2>1, <3>1, IdleTypes DEF ReconStarts, ReconEnds, ReconFails, ReconRecord
    <3> QED BY <3>1, <3>2
  <2>2. CASE ReconLists \/ ReconStamps \/ ReconReads
    BY <1>0, <2>2 DEF ReconLists, ReconStamps, ReconReads, ReconRecord, InHand
  <2> QED BY <2>1, <2>2
<1>2. InHand'
  BY <1>0, <1>1 DEF InHand
<1>3. \A k \in Keys : Known(k)'
  BY <1>0, <1>1 DEF Known
<1>4. ASSUME NEW k \in Keys
      PROVE  Shows(k)'
  <2>1. \A r : row[k] # Gone => Outranks(k, r)'
    BY <1>0, <1>1 DEF Outranks
  <2>2. (Agreed(k) => Agreed(k)') /\ (Fresh(k) => Fresh(k)')
    BY <1>0, <2>1 DEF Agreed, Fresh, NotSendable
  <2>3. Unchanged(k) => Unchanged(k)'
    BY <1>0, <2>2 DEF Unchanged
  <2> QED BY <1>0, <2>2, <2>3 DEF Shows
<1> QED
  BY <1>2, <1>3, <1>4

(* The tombstones it decides on are for rows it found missing, while       *)
(* nothing has changed silently, and a row is not enqueued over a claim.   *)
LEMMA ReconComparesKeeps ==
  ASSUME IInv, NEW F \in SUBSET Keys, ReconCompares(F)
  PROVE  InHand' /\ \A k \in Keys : Known(k)' /\ Shows(k)'
<1> USE DEF IInv, loopVars, boundVars
<1>0. /\ recon \in ReconRecord /\ failures \in Nat /\ recon.pc = "read"
      /\ UNCHANGED <<outbox, row, shown, sent, stored, drain, silent>>
      /\ failures' \in Nat /\ (failures > 0 => failures' > 0) /\ (failures' = 0 => failures = 0)
  BY OutboxConstantsOK, FewFailures DEF TypeOK, ReconRecord, ReconCompares
<1>1. PICK E, R : /\ \A k \in E : queue[k] = 0
                  /\ \A k \in R : ~(recon.row[k] # Gone /\ shown[k])
                  /\ queue' = [k \in Keys |-> IF k \in E THEN Now ELSE queue[k]]
                  /\ recon' = [ReconIdle EXCEPT !.pc = "removing",
                          !.tomb = [k \in Keys |-> IF k \in R THEN TombRevision(k) ELSE 0]]
  <2> DEFINE E == {k \in Keys \ F : /\ recon.row[k] # Gone /\ shown[k]
                                    /\ ~NotSendable(recon.row[k]) /\ queue[k] = 0
                                    /\ recon.stored[k].item # recon.row[k]}
             R == {k \in Keys \ F : /\ Held(recon.stored[k])
                                    /\ ~(recon.row[k] # Gone /\ shown[k])}
  <2>1. queue' = [k \in Keys |-> IF k \in E THEN Now ELSE queue[k]]
    BY DEF ReconCompares
  <2>2. recon' = [ReconIdle EXCEPT !.pc = "removing",
                     !.tomb = [k \in Keys |-> IF k \in R THEN TombRevision(k) ELSE 0]]
    BY DEF ReconCompares
  <2>3. \A k \in E : queue[k] = 0
    OBVIOUS
  <2>4. \A k \in R : ~(recon.row[k] # Gone /\ shown[k])
    OBVIOUS
  <2> HIDE DEF E, R
  <2> QED BY <2>1, <2>2, <2>3, <2>4
<1>2. \A k \in Keys : /\ recon'.accepted[k] = 0
                      /\ recon'.tomb[k] = IF k \in R THEN TombRevision(k) ELSE 0
                      /\ queue'[k] = IF k \in E THEN Now ELSE queue[k]
  BY <1>1 DEF ReconIdle
<1>3. recon'.pc = "removing"
  BY <1>1 DEF ReconIdle
<1>4. InHand'
  BY <1>0, <1>2, <1>3, NowIsLater DEF InHand
<1>5. \A k \in Keys : Known(k)'
  BY <1>0, <1>2 DEF Known
<1>6. ASSUME NEW k \in Keys
      PROVE  Shows(k)'
  <2> SUFFICES ASSUME ~silent PROVE Shows(k)'
    BY <1>0 DEF Shows
  <2>1. shown[k]
    BY DEF Shows
  <2>2. \A r : Outranks(k, r) => Outranks(k, r)'
    BY <1>0, <1>1, <1>2, <1>3, <2>1 DEF Outranks, TombRevision
  <2>3. (Agreed(k) => Agreed(k)') /\ (Fresh(k) => Fresh(k)')
    BY <1>0, <2>2 DEF Agreed, Fresh, NotSendable
  <2>4. Unchanged(k) => Unchanged(k)'
    BY <1>0, <2>3 DEF Unchanged
  <2>5. queue'[k] = queue[k] \/ (queue'[k] # 0 /\ queue'[k] # drain.claim[k])
    BY <1>2, NowIsLater DEF TypeOK
  <2> QED BY <1>0, <2>1, <2>3, <2>4, <2>5 DEF Shows
<1> QED
  BY <1>4, <1>5, <1>6

(* A tombstone community takes is one the shown row does not outrank.      *)
LEMMA ReconRemovesKeeps ==
  ASSUME IInv, NEW k \in Keys, ReconRemoves(k)
  PROVE  InHand' /\ \A j \in Keys : Known(j)' /\ Shows(j)'
<1> USE DEF IInv, loopVars, boundVars
<1> DEFINE ok == Accepts(k, recon.tomb[k], Gone)
<1>0. /\ recon \in ReconRecord
      /\ stored \in [Keys -> [rev : Nat, item : Values \cup {Gone}]]
      /\ UNCHANGED <<outbox, row, shown, queue, sent, drain, silent, failures>>
      /\ recon.pc = "removing" /\ recon.tomb[k] # 0
      /\ recon.tomb[k] \in Nat /\ stored[k].rev \in Nat /\ drain.rev \in Nat
      /\ sent[k].rev \in Nat
  BY DEF TypeOK, ReconRecord, ReconRemoves
<1>1. /\ recon'.pc = recon.pc
      /\ \A j \in Keys : j # k => /\ recon'.tomb[j] = recon.tomb[j]
                                  /\ recon'.accepted[j] = recon.accepted[j]
                                  /\ stored'[j] = stored[j]
      /\ recon'.tomb[k] = 0
      /\ recon'.accepted[k] = IF ok /\ outbox = "presentation" THEN recon.tomb[k] ELSE 0
      /\ stored'[k] = IF ok THEN [rev |-> recon.tomb[k], item |-> Gone] ELSE stored[k]
  BY <1>0 DEF ReconRemoves, ReconRecord
<1>2. ok => stored[k].rev < recon.tomb[k]
  BY <1>0 DEF Accepts
<1> HIDE DEF ok
<1>3. InHand'
  BY <1>0, <1>1 DEF InHand
<1>4. ASSUME NEW j \in Keys
      PROVE  Known(j)'
  <2>1. CASE j # k
    BY <1>0, <1>1, <2>1 DEF Known
  <2>2. CASE j = k /\ ok
    <3>1. /\ stored'[k].rev = recon.tomb[k] /\ stored'[k].item = Gone
          /\ recon'.accepted[k] = 0 \/ recon'.accepted[k] = recon.tomb[k]
      BY <1>1, <2>2
    <3>2. ~Held(stored'[k]) /\ Known(k)
      BY <3>1 DEF Held
    <3> QED BY <1>0, <1>2, <2>2, <3>1, <3>2 DEF Known
  <2>3. CASE j = k /\ ~ok
    BY <1>0, <1>1, <2>3 DEF Known
  <2> QED BY <2>1, <2>2, <2>3
<1>5. ASSUME NEW j \in Keys
      PROVE  Shows(j)'
  <2>1. \A r : Outranks(j, r) => Outranks(j, r)'
    BY <1>0, <1>1 DEF Outranks
  <2>2. CASE j # k \/ ~ok
    <3>1. stored'[j] = stored[j]
      BY <1>1, <2>2
    <3>2. (Agreed(j) => Agreed(j)') /\ (Fresh(j) => Fresh(j)')
      BY <1>0, <2>1, <3>1 DEF Agreed, Fresh, NotSendable
    <3>3. Unchanged(j) => Unchanged(j)'
      BY <1>0, <3>1, <3>2 DEF Unchanged
    <3> QED BY <1>0, <3>2, <3>3 DEF Shows
  <2>3. CASE j = k /\ ok
    <3>1. /\ stored'[k].rev = recon.tomb[k] /\ stored'[k].item = Gone /\ ~Held(stored'[k])
      BY <1>1, <2>3 DEF Held
    <3>2. Agreed(k) => Agreed(k)'
      <4>1. row[k] # Gone => ~Outranks(k, stored[k].rev)
        BY <1>0, <1>2, <2>3 DEF Outranks
      <4> QED BY <1>0, <3>1, <4>1 DEF Agreed, NotSendable
    <3>3. Fresh(k) => Fresh(k)'
      <4>1. Outranks(k, drain.rev) => Outranks(k, drain.rev)' /\ recon.tomb[k] < drain.rev
        BY <1>0, <2>1, <2>3 DEF Outranks
      <4> QED BY <1>0, <3>1, <4>1 DEF Fresh
    <3>4. Unchanged(k) => Unchanged(k)'
      BY <1>0, <3>1, <3>2, <3>3 DEF Unchanged
    <3> QED BY <1>0, <2>3, <3>2, <3>4 DEF Shows
  <2> QED BY <2>2, <2>3
<1> QED
  BY <1>3, <1>4, <1>5

(* What the reconcile records late is older than what community shows.     *)
LEMMA ReconRecordsKeeps ==
  ASSUME IInv, NEW k \in Keys, ReconRecords(k)
  PROVE  InHand' /\ \A j \in Keys : Known(j)' /\ Shows(j)'
<1> USE DEF IInv, loopVars, boundVars
<1>0. /\ recon \in ReconRecord
      /\ UNCHANGED <<outbox, row, shown, queue, stored, drain, silent, failures>>
      /\ recon.pc = "removing" /\ recon.accepted[k] # 0
      /\ sent' = UpsertSent(k, recon.accepted[k], TRUE)
      /\ recon.accepted[k] \in Nat /\ sent[k].rev \in Nat /\ stored[k].rev \in Nat
      /\ drain.rev \in Nat
  BY DEF TypeOK, ReconRecord, ReconRecords
<1>1. /\ recon'.pc = recon.pc /\ recon'.tomb = recon.tomb
      /\ recon'.accepted[k] = 0
      /\ \A j \in Keys : j # k => recon'.accepted[j] = recon.accepted[j]
  BY <1>0 DEF ReconRecords, ReconRecord
<1>2. /\ \A j \in Keys : j # k => sent'[j] = sent[j]
      /\ sent'[k] = IF sent[k].rev < recon.accepted[k]
                    THEN [rev |-> recon.accepted[k], removed |-> TRUE] ELSE sent[k]
  BY <1>0 DEF UpsertSent, TypeOK
<1>3. InHand'
  BY <1>0, <1>1 DEF InHand
<1>4. ASSUME NEW j \in Keys
      PROVE  Known(j)'
  <2>1. CASE j # k
    BY <1>0, <1>1, <1>2, <2>1 DEF Known
  <2>2. CASE j = k
    <3>1. /\ Known(k) /\ recon.accepted[k] <= stored[k].rev
          /\ Held(stored[k]) => recon.accepted[k] < stored[k].rev
      BY <1>0 DEF Known
    <3>2. CASE sent[k].rev < recon.accepted[k]
      <4>1. sent'[k].rev = recon.accepted[k]
        BY <1>2, <3>2
      <4>2. Held(stored[k]) => sent[k].rev < stored[k].rev
        BY <1>0, <3>1, <3>2
      <4>3. failures = 0 /\ Held(stored[k]) =>
                k \in drain.accepted /\ drain.rev = stored[k].rev
        BY <1>0, <3>1, <4>2 DEF Known
      <4>4. Held(stored[k]) => sent'[k].rev # stored[k].rev
        <5>1. recon.accepted[k] \in Nat /\ stored[k].rev \in Nat
          BY <1>0
        <5> QED BY <3>1, <4>1, <5>1
      <4> QED BY <1>0, <1>1, <2>2, <3>1, <4>1, <4>3, <4>4 DEF Known
    <3>3. CASE ~(sent[k].rev < recon.accepted[k])
      <4>1. sent'[k] = sent[k]
        BY <1>2, <3>3
      <4> QED BY <1>0, <1>1, <2>2, <3>1, <4>1 DEF Known
    <3> QED BY <3>2, <3>3
  <2> QED BY <2>1, <2>2
<1>5. ASSUME NEW j \in Keys
      PROVE  Shows(j)'
  <2>1. ~IsLive(sent[j]) => ~IsLive(sent'[j])
    BY <1>2 DEF IsLive
  <2>2. \A r : Outranks(j, r) => Outranks(j, r)'
    BY <1>0, <1>1 DEF Outranks
  <2>3. (Agreed(j) => Agreed(j)') /\ (Fresh(j) => Fresh(j)')
    BY <1>0, <2>1, <2>2 DEF Agreed, Fresh, NotSendable
  <2>4. Unchanged(j) => Unchanged(j)'
    BY <1>0, <2>1, <2>3 DEF Unchanged
  <2> QED BY <1>0, <2>3, <2>4 DEF Shows
<1> QED
  BY <1>3, <1>4, <1>5

-----------------------------------------------------------------------------
(* The forum *)

(* A change is queued at a time of its own, which no claim has.            *)
LEMMA ForumKeeps ==
  ASSUME IInv,
         \/ \E k \in Keys, v \in Values \cup {Gone} : Change(k, v)
         \/ \E k \in Keys : ChangeSilently(k)
  PROVE  InHand' /\ \A k \in Keys : Known(k)' /\ Shows(k)'
<1> USE DEF IInv, loopVars, boundVars
<1>1. ASSUME NEW k \in Keys, NEW v \in Values \cup {Gone}, Change(k, v)
      PROVE  InHand' /\ \A j \in Keys : Known(j)' /\ Shows(j)'
  <2>0. /\ UNCHANGED <<outbox, shown, sent, stored, drain, recon, silent, failures>>
        /\ queue'[k] = Now
        /\ \A j \in Keys : j # k => row'[j] = row[j] /\ queue'[j] = queue[j]
    BY <1>1 DEF Change, TypeOK
  <2>1. queue'[k] # 0 /\ queue'[k] # drain.claim[k]
    BY <2>0, NowIsLater DEF TypeOK
  <2>2. InHand'
    BY <2>0, <2>1 DEF InHand
  <2>3. \A j \in Keys : Known(j)'
    BY <2>0 DEF Known
  <2>4. ASSUME NEW j \in Keys
        PROVE  Shows(j)'
    <3>1. CASE j = k
      BY <2>0, <2>1, <3>1 DEF Shows
    <3>2. CASE j # k
      <4>1. (Agreed(j) => Agreed(j)') /\ (Fresh(j) => Fresh(j)')
        BY <2>0, <3>2 DEF Agreed, Fresh, Outranks, NotSendable
      <4>2. Unchanged(j) => Unchanged(j)'
        BY <2>0, <3>2, <4>1 DEF Unchanged
      <4> QED BY <2>0, <3>2, <4>1, <4>2 DEF Shows
    <3> QED BY <3>1, <3>2
  <2> QED BY <2>2, <2>3, <2>4
<1>2. ASSUME NEW k \in Keys, ChangeSilently(k)
      PROVE  InHand' /\ \A j \in Keys : Known(j)' /\ Shows(j)'
  <2>1. UNCHANGED <<queue, sent, stored, drain, recon, failures>> /\ silent'
    BY <1>2 DEF ChangeSilently
  <2> QED BY <2>1 DEF InHand, Known, Shows
<1> QED
  BY <1>1, <1>2

-----------------------------------------------------------------------------
LEMMA InitIInv == Init => IInv
<1> SUFFICES ASSUME Init PROVE IInv
  OBVIOUS
<1>1. TypeOK
  <2>1. drain \in DrainRecord /\ recon \in ReconRecord
    BY IdleTypes DEF Init
  <2>2. /\ queue \in [Keys -> Nat] /\ shown \in [Keys -> BOOLEAN]
        /\ sent \in [Keys -> [rev : Nat, removed : BOOLEAN]]
        /\ stored \in [Keys -> [rev : Nat, item : Values \cup {Gone}]]
    BY DEF Init, Absent, Unheld
  <2>3. /\ outbox \in Outboxes /\ row \in [Keys -> Values \cup {Gone}]
        /\ due \in BOOLEAN /\ silent \in BOOLEAN
    BY DEF Init
  <2>4. /\ changes \in 0 .. MaxChanges /\ overlaps \in 0 .. MaxOverlaps
        /\ failures \in 0 .. MaxFailures
    <3>1. changes = 0 /\ overlaps = 0 /\ failures = 0
      BY DEF Init
    <3> QED BY <3>1, OutboxConstantsOK
  <2> QED BY <2>1, <2>2, <2>3, <2>4 DEF TypeOK, DrainRecord, ReconRecord
<1>2. InHand
  BY DEF Init, InHand, DrainIdle, ReconIdle
<1>3. ASSUME NEW k \in Keys
      PROVE  Known(k) /\ Shows(k)
  <2>1. Known(k)
    BY DEF Init, Known, Held, Absent, Unheld, DrainIdle, ReconIdle
  <2>2. Shows(k)
    BY DEF Init, Shows, Agreed, Unheld, DrainIdle
  <2> QED BY <2>1, <2>2
<1> QED
  BY <1>1, <1>2, <1>3 DEF IInv

LEMMA IInvStep == IInv /\ [Next]_vars => IInv'
<1> SUFFICES ASSUME IInv, [Next]_vars PROVE IInv'
  OBVIOUS
<1>0. TypeOK /\ InHand
  BY DEF IInv
<1>1. CASE UNCHANGED vars
  BY <1>1 DEF vars, loopVars, boundVars, IInv, TypeOK, InHand, Known, Shows, Held, Agreed,
     Unchanged, Fresh, Outranks, NotSendable
<1>2. CASE Drain \/ DrainFails
  <2>1. TypeOK'
    BY <1>0, <1>2, DrainTypes
  <2>2. InHand' /\ \A k \in Keys : Known(k)' /\ Shows(k)'
    BY <1>2, DrainReads, PrepareKeeps, DeliverKeeps, RecordKeeps, AckKeeps DEF Drain
  <2> QED BY <2>1, <2>2 DEF IInv
<1>3. CASE Reconcile \/ ReconFails
  <2>1. TypeOK'
    BY <1>0, <1>3, ReconTypes
  <2>2. InHand' /\ \A k \in Keys : Known(k)' /\ Shows(k)'
    BY <1>3, ReconLooks, ReconComparesKeeps, ReconRemovesKeeps, ReconRecordsKeeps
       DEF Reconcile
  <2> QED BY <2>1, <2>2 DEF IInv
<1>4. CASE \/ \E k \in Keys, v \in Values \cup {Gone} : Change(k, v)
           \/ \E k \in Keys : ChangeSilently(k)
  <2>1. TypeOK'
    BY <1>0, <1>4, ForumTypes
  <2>2. InHand' /\ \A k \in Keys : Known(k)' /\ Shows(k)'
    BY <1>4, ForumKeeps
  <2> QED BY <2>1, <2>2 DEF IInv
<1> QED
  BY <1>1, <1>2, <1>3, <1>4 DEF Next

LEMMA Invariant == Spec => []IInv
<1> QED
  BY InitIInv, IInvStep, PTL DEF Spec

(* Every variable keeps its type, whatever rows change and calls fail.     *)
THEOREM TypeCorrect == Spec => []TypeOK
<1>1. IInv => TypeOK
  BY DEF IInv
<1> QED
  BY <1>1, Invariant, PTL

(* A key neither loop has in hand is shown by community as the forum shows *)
(* it: RunOnce acknowledges no change it has not sent, and no tombstone of *)
(* Reconcile outranks a write of a row read after it was missing.          *)
THEOREM QuietIsMirrored == Spec => []SettledIsMirrored
<1>1. IInv => SettledIsMirrored
  <2> SUFFICES ASSUME IInv, ~silent, NEW k \in Keys, Settled(k)
               PROVE  Mirrors(k) \/ Forgotten(k)
    BY DEF SettledIsMirrored
  <2>1. shown[k] /\ Agreed(k)
    BY DEF IInv, Shows, Settled
  <2>2. Visible(k) = row[k]
    BY <2>1 DEF Visible
  <2> QED BY <2>1, <2>2 DEF Agreed, Mirrors, Forgotten
<1> QED
  BY <1>1, Invariant, PTL

(* Unless a call failed, what community shows of a key neither loop has in *)
(* hand is recorded as sent, so that the tombstone of its removal is sent. *)
THEOREM ShownCanBeWithdrawn == Spec => []ShownIsWithdrawable
<1>1. IInv => ShownIsWithdrawable
  <2> SUFFICES ASSUME IInv, failures = 0, NEW k \in Keys, Settled(k), Held(stored[k])
               PROVE  IsLive(sent[k])
    BY DEF ShownIsWithdrawable
  <2>1. k \notin drain.accepted
    BY DEF IInv, InHand, Settled
  <2> QED BY <2>1 DEF IInv, Known
<1> QED
  BY <1>1, Invariant, PTL

-----------------------------------------------------------------------------
(***************************************************************************)
(* Proofs about Inbox, for any notices, processes, page size and bounds.   *)
(*                                                                         *)
(* The argument: a number covers the feed when every notice up to it was   *)
(* handled.  The cursor, the rows of the table and the number a run reads  *)
(* on from all cover it.  A page in writing covers it but for the entries  *)
(* still to be written; they are written in the order of their numbers, so *)
(* a row never overtakes an entry.  A notice that grows takes a number     *)
(* nobody has reached, so whatever covered the feed still does.            *)
(***************************************************************************)

Covered(k) == \A n \in Notes : feed[n].seq <= k => Handled(n)

(* What is left of a page: every notice up to its end is handled or on it. *)
Pending(p) ==
    \A n \in Notes : feed[n].seq <= poller[p].next =>
        Handled(n) \/ \E e \in poller[p].page : e.note = n /\ e.seq = feed[n].seq

(* No number is ahead of the service's.                                    *)
Bounded ==
    /\ cursor <= seqno
    /\ \A n \in Notes :
        feed[n].seq <= seqno /\ inbox[n].seq <= seqno /\ dropped[n] <= feed[n].seq
    /\ \A p \in Pollers :
        /\ poller[p].after <= seqno /\ poller[p].next <= seqno
        /\ \A e \in poller[p].page : e.seq <= poller[p].next

(* A number is given to one version of one notice.                         *)
Numbered ==
    /\ \A n, m \in Notes : feed[n].seq = feed[m].seq /\ feed[n].seq # 0 => n = m
    /\ \A p \in Pollers : \A e, f \in poller[p].page : e.seq = f.seq => e = f

Covers ==
    /\ Covered(cursor)
    /\ \A n \in Notes : Covered(inbox[n].seq)
    /\ \A p \in Pollers : Covered(poller[p].after) /\ Pending(p)

InboxIInv == InboxTypeOK /\ Bounded /\ Numbered /\ Covers

Runs == [pc : {"idle", "fetch", "write"}, after : Seqs, page : SUBSET Entries, next : Seqs]

-----------------------------------------------------------------------------
(* Types *)

LEMMA FailureTypes ==
    ASSUME InboxTypeOK, Fails
    PROVE  faults' \in Nat
BY DEF InboxTypeOK, Fails

LEMMA SavedTypes ==
    ASSUME InboxTypeOK, NEW s \in Seqs, Saved(s)
    PROVE  cursor' \in Seqs \cup {NoCursor} /\ faults' \in Nat
BY FailureTypes DEF InboxTypeOK, Saved

LEMMA InboxIdleTypes == Idle \in Runs /\ NoRow \in [seq : Seqs, read : BOOLEAN]
BY InboxBoundsOK DEF Idle, NoRow, Runs, Seqs

LEMMA EntryTypes ==
    ASSUME InboxTypeOK, NEW n \in Notes
    PROVE  Entry(n) \in Entries
BY DEF InboxTypeOK, Entry, Entries

LEMMA MirroredTypes ==
    ASSUME InboxTypeOK, NEW e \in Entries
    PROVE  Mirrored(e) \in [seq : Seqs, read : BOOLEAN]
<1>1. e.note \in Notes /\ e.seq \in Seqs /\ e.read \in BOOLEAN
  BY DEF Entries
<1>2. inbox[e.note] \in [seq : Seqs, read : BOOLEAN]
  BY <1>1 DEF InboxTypeOK
<1> QED
  BY <1>1, <1>2, InboxIdleTypes DEF Mirrored

LEMMA TypeKeeps ==
    ASSUME InboxTypeOK, [InboxNext]_inboxVars
    PROVE  InboxTypeOK'
<1> USE DEF Seqs
<1>1. ASSUME NEW n \in Notes, Grow(n) PROVE InboxTypeOK'
  BY <1>1, InboxBoundsOK DEF InboxTypeOK, Grow
<1>2. ASSUME NEW n \in Notes, Retract(n) PROVE InboxTypeOK'
  BY <1>2, InboxBoundsOK DEF InboxTypeOK, Retract
<1>3. ASSUME NEW n \in Notes, MarkRead(n) PROVE InboxTypeOK'
  <2>1. PICK told \in BOOLEAN : feed' = [feed EXCEPT ![n].read = @ \/ told]
    BY <1>3 DEF MarkRead
  <2>2. feed' \in [Notes -> [seq : Seqs, gone : BOOLEAN, read : BOOLEAN]]
    BY <2>1 DEF InboxTypeOK
  <2>3. inbox' \in [Notes -> [seq : Seqs, read : BOOLEAN]]
    BY <1>3, ZenonT(40) DEF InboxTypeOK, MarkRead
  <2> QED
    BY <1>3, <2>2, <2>3 DEF InboxTypeOK, MarkRead
<1>4. ASSUME NEW n \in Notes, DeleteRow(n) PROVE InboxTypeOK'
  BY <1>4, InboxIdleTypes DEF InboxTypeOK, DeleteRow
<1>5. ASSUME NEW p \in Pollers, ReadCursor(p) PROVE InboxTypeOK'
  <2>1. PICK s \in Seqs : /\ poller' = [poller EXCEPT ![p].pc = "fetch", ![p].after = s]
                          /\ cursor' \in Seqs \cup {NoCursor} /\ faults' \in Nat
    BY <1>5, SavedTypes, InboxBoundsOK DEF InboxTypeOK, ReadCursor, MaxCommunitySeq
  <2>2. poller' \in [Pollers -> Runs]
    BY <2>1, ZenonT(40) DEF InboxTypeOK, Runs
  <2> QED
    BY <1>5, <2>1, <2>2 DEF InboxTypeOK, ReadCursor, Runs
<1>6. ASSUME NEW p \in Pollers, Fetch(p) PROVE InboxTypeOK'
  <2>1. PICK first \in SUBSET Ahead(p), found \in BOOLEAN, last \in Notes :
           LET kept == IF found THEN first ELSE first \ Walls IN
           /\ poller' = [poller EXCEPT ![p].pc = "write", ![p].next = feed[last].seq,
                                       ![p].page = {Entry(n) : n \in kept}]
           /\ dropped' = [n \in Notes |-> IF n \in first \ kept THEN feed[n].seq ELSE dropped[n]]
    BY <1>6, ZenonT(40) DEF Fetch, Ahead
  <2> DEFINE kept == IF found THEN first ELSE first \ Walls
  <2>2. {Entry(n) : n \in kept} \in SUBSET Entries
    BY <2>1, EntryTypes DEF Ahead
  <2>3. feed[last].seq \in Seqs
    BY DEF InboxTypeOK
  <2>4. poller' \in [Pollers -> Runs]
    <3> HIDE DEF kept
    <3> DEFINE page == {Entry(n) : n \in kept}
    <3>1. poller' = [poller EXCEPT ![p].pc = "write", ![p].next = feed[last].seq,
                                   ![p].page = page]
      BY <2>1 DEF kept
    <3>2. page \in SUBSET Entries
      BY <2>2
    <3> HIDE DEF page
    <3>3. [poller[p] EXCEPT !.pc = "write", !.next = feed[last].seq, !.page = page] \in Runs
      BY <3>2, <2>3 DEF InboxTypeOK, Runs
    <3> QED
      BY <3>1, <3>3 DEF InboxTypeOK, Runs
  <2>5. dropped' \in [Notes -> Seqs]
    BY <2>1 DEF InboxTypeOK
  <2>6. faults' \in Nat
    BY <1>6, FailureTypes DEF InboxTypeOK, Fetch
  <2> QED
    BY <1>6, <2>4, <2>5, <2>6 DEF InboxTypeOK, Fetch, Runs
<1>7. ASSUME NEW p \in Pollers, FeedIsEmpty(p) PROVE InboxTypeOK'
  BY <1>7, InboxIdleTypes DEF InboxTypeOK, FeedIsEmpty, Runs
<1>8. ASSUME NEW p \in Pollers, Write(p) PROVE InboxTypeOK'
  <2>1. PICK e \in poller[p].page :
          /\ inbox' = [inbox EXCEPT ![e.note] = Mirrored(e)]
          /\ seen' = [seen EXCEPT ![e.note] = IF @ < e.seq THEN e.seq ELSE @]
          /\ poller' = [poller EXCEPT ![p].page = @ \ {e}]
    BY <1>8 DEF Write
  <2>2. e \in Entries /\ e.note \in Notes /\ e.seq \in Seqs
    BY DEF InboxTypeOK, Entries
  <2>3. inbox' \in [Notes -> [seq : Seqs, read : BOOLEAN]]
    BY <2>1, <2>2, MirroredTypes DEF InboxTypeOK
  <2>4. seen' \in [Notes -> Seqs]
    BY <2>1, <2>2 DEF InboxTypeOK
  <2>5. poller' \in [Pollers -> Runs]
    BY <2>1 DEF InboxTypeOK, Runs
  <2> QED
    BY <1>8, <2>3, <2>4, <2>5 DEF InboxTypeOK, Write, Runs
<1>9. ASSUME NEW p \in Pollers, Advance(p) PROVE InboxTypeOK'
  <2>1. NextAfter(p) \in Seqs
    BY DEF InboxTypeOK, NextAfter
  <2>2. PICK pc \in {"fetch", "idle"} :
          poller' = [poller EXCEPT ![p] = [Idle EXCEPT !.pc = pc, !.after = NextAfter(p)]]
    BY <1>9 DEF Advance
  <2>3. [Idle EXCEPT !.pc = pc, !.after = NextAfter(p)] \in Runs
    BY <2>1, InboxIdleTypes DEF Runs
  <2>4. cursor' \in Seqs \cup {NoCursor} /\ faults' \in Nat
    BY <1>9, <2>1, SavedTypes DEF Advance
  <2>5. poller' \in [Pollers -> Runs]
    BY <2>2, <2>3 DEF InboxTypeOK, Runs
  <2> QED
    BY <1>9, <2>4, <2>5 DEF InboxTypeOK, Advance, Runs
<1>10. ASSUME NEW p \in Pollers, RunFails(p) PROVE InboxTypeOK'
  BY <1>10, InboxIdleTypes, FailureTypes DEF InboxTypeOK, RunFails, Runs
<1>11. CASE CursorLost
  BY <1>11, FailureTypes DEF InboxTypeOK, CursorLost
<1>12. CASE UNCHANGED inboxVars
  BY <1>12 DEF InboxTypeOK, inboxVars
<1> QED
  BY <1>1, <1>2, <1>3, <1>4, <1>5, <1>6, <1>7, <1>8, <1>9, <1>10, <1>11, <1>12
  DEF InboxNext, RunOnce

-----------------------------------------------------------------------------
(* What every step keeps *)

(* Numbers and what was handled only grow, and a notice that changes takes *)
(* a number beyond all of them.                                            *)
Onward ==
    /\ seqno <= seqno'
    /\ \A n \in Notes :
        /\ seen[n] <= seen'[n] /\ dropped[n] <= dropped'[n]
        /\ feed'[n].seq = feed[n].seq \/ (feed'[n].seq = seqno + 1 /\ seqno' = seqno + 1)

LEMMA StepsGoOnward ==
    ASSUME InboxTypeOK, Bounded, [InboxNext]_inboxVars
    PROVE  Onward
<1> USE DEF Seqs, Onward
<1>1. ASSUME NEW n \in Notes, Grow(n) \/ Retract(n) PROVE Onward
  BY <1>1 DEF InboxTypeOK, Grow, Retract
<1>2. ASSUME NEW n \in Notes, MarkRead(n) \/ DeleteRow(n) PROVE Onward
  BY <1>2 DEF InboxTypeOK, MarkRead, DeleteRow
<1>3. ASSUME NEW p \in Pollers, ReadCursor(p) \/ FeedIsEmpty(p) \/ Advance(p) \/ RunFails(p)
      PROVE  Onward
  BY <1>3 DEF InboxTypeOK, ReadCursor, FeedIsEmpty, Advance, RunFails
<1>4. ASSUME NEW p \in Pollers, Fetch(p) PROVE Onward
  <2>1. \A n \in Notes : dropped'[n] = dropped[n] \/ (dropped'[n] = feed[n].seq)
    BY <1>4 DEF Fetch
  <2> QED
    BY <1>4, <2>1 DEF InboxTypeOK, Bounded, Fetch
<1>5. ASSUME NEW p \in Pollers, Write(p) PROVE Onward
  <2>1. PICK e \in poller[p].page :
          seen' = [seen EXCEPT ![e.note] = IF @ < e.seq THEN e.seq ELSE @]
    BY <1>5 DEF Write
  <2>2. e.note \in Notes /\ e.seq \in Seqs
    BY DEF InboxTypeOK, Entries
  <2> QED
    BY <1>5, <2>1, <2>2 DEF InboxTypeOK, Write
<1>6. CASE CursorLost
  BY <1>6 DEF InboxTypeOK, CursorLost
<1>7. CASE UNCHANGED inboxVars
  BY <1>7 DEF InboxTypeOK, inboxVars
<1> QED
  BY <1>1, <1>2, <1>3, <1>4, <1>5, <1>6, <1>7 DEF InboxNext, RunOnce

(* What covers the feed still does.                                        *)
CoveredNext(k) ==
    \A n \in Notes : feed'[n].seq <= k => seen'[n] >= feed'[n].seq \/ dropped'[n] >= feed'[n].seq

LEMMA CoveredKept ==
    ASSUME InboxTypeOK, InboxTypeOK', Onward
    PROVE  \A k \in Int : k <= seqno /\ Covered(k) => CoveredNext(k)
<1> SUFFICES ASSUME NEW k \in Int, k <= seqno, Covered(k),
                    NEW n \in Notes, feed'[n].seq <= k
             PROVE  seen'[n] >= feed'[n].seq \/ dropped'[n] >= feed'[n].seq
  BY DEF CoveredNext
<1>1. /\ seqno \in Int /\ feed[n].seq \in Int /\ seen[n] \in Int /\ dropped[n] \in Int
      /\ seen'[n] \in Int /\ dropped'[n] \in Int
  BY DEF InboxTypeOK, Seqs
<1>2. feed'[n].seq = feed[n].seq
  BY <1>1 DEF Onward
<1>3. seen[n] >= feed[n].seq \/ dropped[n] >= feed[n].seq
  BY <1>2 DEF Covered, Handled
<1> QED
  BY <1>1, <1>2, <1>3 DEF Onward

-----------------------------------------------------------------------------
(* Bounds and numbers *)

(* What a step of a poller starts from, one notice or run at a time.       *)
LEMMA SavedIs ==
    ASSUME NEW s, Saved(s)
    PROVE  cursor' \in {s, cursor}
BY DEF Saved

LEMMA FirstIs ==
    ASSUME NEW p \in Pollers, Fetch(p)
    PROVE  \E kept \in SUBSET Ahead(p), last \in Ahead(p) :
            /\ poller' = [poller EXCEPT ![p].pc = "write", ![p].next = feed[last].seq,
                                        ![p].page = {Entry(n) : n \in kept}]
            /\ \A n \in kept : feed[n].seq <= feed[last].seq
            /\ \A n \in Ahead(p) : feed[n].seq <= feed[last].seq =>
                n \in kept \/ dropped'[n] = feed[n].seq
            /\ \A n \in Notes : dropped'[n] \in {dropped[n], feed[n].seq}
<1>1. PICK first \in SUBSET Ahead(p), found \in BOOLEAN, last \in Notes :
        LET kept == IF found THEN first ELSE first \ Walls IN
        /\ last \in first
        /\ \A n \in first, m \in Ahead(p) : feed[m].seq <= feed[n].seq => m \in first
        /\ \A n \in first : feed[n].seq <= feed[last].seq
        /\ poller' = [poller EXCEPT ![p].pc = "write", ![p].next = feed[last].seq,
                                    ![p].page = {Entry(n) : n \in kept}]
        /\ dropped' = [n \in Notes |-> IF n \in first \ kept THEN feed[n].seq ELSE dropped[n]]
  BY DEF Fetch, Ahead
<1> DEFINE kept == IF found THEN first ELSE first \ Walls
<1>2. kept \in SUBSET Ahead(p) /\ last \in Ahead(p) /\ kept \subseteq first /\ first \subseteq Notes
  BY <1>1 DEF Ahead
<1>3. /\ poller' = [poller EXCEPT ![p].pc = "write", ![p].next = feed[last].seq,
                                  ![p].page = {Entry(n) : n \in kept}]
      /\ \A n \in kept : feed[n].seq <= feed[last].seq
  BY <1>1, <1>2
<1>4. \A n \in Ahead(p) : feed[n].seq <= feed[last].seq => n \in kept \/ dropped'[n] = feed[n].seq
  BY <1>1, <1>2
<1>5. \A n \in Notes : dropped'[n] \in {dropped[n], feed[n].seq}
  BY <1>1
<1> HIDE DEF kept
<1> QED
  BY <1>2, <1>3, <1>4, <1>5

LEMMA WriteIs ==
    ASSUME InboxTypeOK, NEW p \in Pollers, Write(p)
    PROVE  \E e \in poller[p].page :
            /\ e \in Entries /\ e.note \in Notes /\ e.seq \in Seqs
            /\ \A f \in poller[p].page : e.seq <= f.seq
            /\ inbox' = [inbox EXCEPT ![e.note] = Mirrored(e)]
            /\ seen' = [seen EXCEPT ![e.note] = IF @ < e.seq THEN e.seq ELSE @]
            /\ poller' = [poller EXCEPT ![p].page = @ \ {e}]
<1>1. PICK e \in poller[p].page :
            /\ \A f \in poller[p].page : e.seq <= f.seq
            /\ inbox' = [inbox EXCEPT ![e.note] = Mirrored(e)]
            /\ seen' = [seen EXCEPT ![e.note] = IF @ < e.seq THEN e.seq ELSE @]
            /\ poller' = [poller EXCEPT ![p].page = @ \ {e}]
  BY DEF Write
<1>2. e \in Entries
  BY DEF InboxTypeOK
<1>3. e.note \in Notes /\ e.seq \in Seqs
  BY <1>2 DEF Entries
<1> QED
  BY <1>1, <1>2, <1>3

LEMMA BoundedKeeps ==
    ASSUME InboxTypeOK, InboxTypeOK', Bounded, [InboxNext]_inboxVars
    PROVE  Bounded'
<1> USE DEF Seqs
<1>1. ASSUME NEW n \in Notes, Grow(n) \/ Retract(n) PROVE Bounded'
  <2>1. seqno' = seqno + 1 /\ UNCHANGED <<inbox, cursor, poller, dropped>>
    BY <1>1 DEF Grow, Retract
  <2>2. feed'[n].seq = seqno + 1 /\ \A m \in Notes : m # n => feed'[m].seq = feed[m].seq
    BY <1>1 DEF InboxTypeOK, Grow, Retract
  <2>3. \A q \in Pollers : \A e \in poller[q].page : e.seq \in Int
    BY DEF InboxTypeOK, Entries
  <2> QED
    BY <2>1, <2>2, <2>3, SMTT(30) DEF InboxTypeOK, Bounded, NoCursor
<1>2. ASSUME NEW n \in Notes, MarkRead(n) \/ DeleteRow(n) PROVE Bounded'
  <2>1. UNCHANGED <<seqno, cursor, poller, dropped>>
    BY <1>2 DEF MarkRead, DeleteRow
  <2>2. \A m \in Notes : feed'[m].seq = feed[m].seq /\ inbox'[m].seq \in {inbox[m].seq, 0}
    BY <1>2 DEF InboxTypeOK, MarkRead, DeleteRow, NoRow
  <2> QED
    BY <2>1, <2>2, SMTT(30) DEF InboxTypeOK, Bounded
<1>3. ASSUME NEW p \in Pollers, ReadCursor(p) PROVE Bounded'
  <2>1. PICK s \in Seqs : /\ s <= seqno /\ cursor' \in {s, cursor}
                          /\ poller' = [poller EXCEPT ![p].pc = "fetch", ![p].after = s]
    <3>1. CASE cursor # NoCursor
      BY <1>3, <3>1 DEF ReadCursor, Bounded, InboxTypeOK
    <3>2. CASE cursor = NoCursor
      <4>1. PICK s \in MaxCommunitySeq :
              poller' = [poller EXCEPT ![p].pc = "fetch", ![p].after = s] /\ Saved(s)
        BY <1>3, <3>2 DEF ReadCursor
      <4>2. s \in Seqs /\ s <= seqno
        BY DEF MaxCommunitySeq, Bounded, InboxTypeOK
      <4> QED
        BY <4>1, <4>2, SavedIs
    <3> QED
      BY <3>1, <3>2
  <2>2. \A q \in Pollers : /\ poller'[q].after \in {poller[q].after, s}
                           /\ poller'[q].next = poller[q].next /\ poller'[q].page = poller[q].page
    BY <2>1 DEF InboxTypeOK
  <2> QED
    BY <1>3, <2>1, <2>2 DEF ReadCursor, Bounded
<1>4. ASSUME NEW p \in Pollers, Fetch(p) PROVE Bounded'
  <2>1. PICK kept \in SUBSET Ahead(p), last \in Ahead(p) :
            /\ poller' = [poller EXCEPT ![p].pc = "write", ![p].next = feed[last].seq,
                                        ![p].page = {Entry(n) : n \in kept}]
            /\ \A n \in kept : feed[n].seq <= feed[last].seq
            /\ \A n \in Ahead(p) : feed[n].seq <= feed[last].seq =>
                n \in kept \/ dropped'[n] = feed[n].seq
            /\ \A n \in Notes : dropped'[n] \in {dropped[n], feed[n].seq}
    BY <1>4, FirstIs
  <2>2. last \in Notes /\ \A e \in {Entry(n) : n \in kept} : e.seq <= feed[last].seq
    BY <2>1 DEF Ahead, Entry
  <2>3. /\ poller'[p].after = poller[p].after /\ poller'[p].next = feed[last].seq
        /\ poller'[p].page = {Entry(n) : n \in kept}
        /\ \A q \in Pollers : q # p => poller'[q] = poller[q]
    BY <2>1 DEF InboxTypeOK
  <2>4. UNCHANGED <<feed, seqno, inbox, cursor>>
    BY <1>4 DEF Fetch
  <2>5. ASSUME NEW n \in Notes PROVE dropped'[n] <= feed[n].seq
    <3>1. dropped'[n] \in {dropped[n], feed[n].seq}
      BY <2>1
    <3> QED
      BY <3>1 DEF InboxTypeOK, Bounded
  <2> QED
    BY <2>2, <2>3, <2>4, <2>5 DEF Bounded
<1>5. ASSUME NEW p \in Pollers, FeedIsEmpty(p) \/ RunFails(p) PROVE Bounded'
  <2>1. poller'[p] = Idle /\ \A q \in Pollers : q # p => poller'[q] = poller[q]
    BY <1>5 DEF InboxTypeOK, FeedIsEmpty, RunFails
  <2>2. UNCHANGED <<feed, seqno, inbox, cursor, dropped>>
    BY <1>5 DEF FeedIsEmpty, RunFails
  <2> QED
    BY <2>1, <2>2 DEF InboxTypeOK, Bounded, Idle
<1>6. ASSUME NEW p \in Pollers, Write(p) PROVE Bounded'
  <2>1. PICK e \in poller[p].page :
            /\ e \in Entries /\ e.note \in Notes /\ e.seq \in Seqs
            /\ inbox' = [inbox EXCEPT ![e.note] = Mirrored(e)]
            /\ poller' = [poller EXCEPT ![p].page = @ \ {e}]
    BY <1>6, WriteIs
  <2>2. Mirrored(e).seq \in {inbox[e.note].seq, 0, e.seq}
    BY DEF Mirrored, NoRow
  <2>3. \A n \in Notes : inbox'[n].seq <= seqno
    BY <2>1, <2>2 DEF InboxTypeOK, Bounded
  <2>4. \A q \in Pollers : /\ poller'[q].after = poller[q].after /\ poller'[q].next = poller[q].next
                           /\ poller'[q].page \subseteq poller[q].page
    BY <2>1 DEF InboxTypeOK
  <2> QED
    BY <1>6, <2>3, <2>4 DEF Bounded, Write
<1>7. ASSUME NEW p \in Pollers, Advance(p) PROVE Bounded'
  <2>1. PICK pc \in {"fetch", "idle"} :
          poller' = [poller EXCEPT ![p] = [Idle EXCEPT !.pc = pc, !.after = NextAfter(p)]]
    BY <1>7 DEF Advance
  <2>2. /\ poller'[p].after = poller[p].next /\ poller'[p].next = 0 /\ poller'[p].page = {}
        /\ \A q \in Pollers : q # p => poller'[q] = poller[q]
    BY <2>1 DEF InboxTypeOK, Idle, NextAfter
  <2>3. cursor' \in {poller[p].next, cursor}
    BY <1>7, SavedIs DEF Advance, NextAfter
  <2> QED
    BY <1>7, <2>2, <2>3 DEF InboxTypeOK, Bounded, Advance
<1>8. CASE CursorLost
  BY <1>8 DEF InboxTypeOK, Bounded, CursorLost, NoCursor
<1>9. CASE UNCHANGED inboxVars
  BY <1>9 DEF Bounded, inboxVars
<1> QED
  BY <1>1, <1>2, <1>3, <1>4, <1>5, <1>6, <1>7, <1>8, <1>9 DEF InboxNext, RunOnce

LEMMA NumberedKeeps ==
    ASSUME InboxTypeOK, InboxTypeOK', Bounded, Numbered, [InboxNext]_inboxVars
    PROVE  Numbered'
<1> USE DEF Seqs
<1>1. ASSUME NEW n \in Notes, Grow(n) \/ Retract(n) PROVE Numbered'
  <2>1. /\ UNCHANGED poller /\ feed'[n].seq = seqno + 1
        /\ \A m \in Notes : m # n => feed'[m].seq = feed[m].seq
    BY <1>1 DEF InboxTypeOK, Grow, Retract
  <2>2. \A m \in Notes : feed[m].seq < seqno + 1 /\ feed[m].seq \in Int
    BY DEF InboxTypeOK, Bounded
  <2> QED
    BY <2>1, <2>2 DEF Numbered
<1>2. ASSUME NEW n \in Notes, MarkRead(n) \/ DeleteRow(n) PROVE Numbered'
  <2>1. UNCHANGED poller /\ \A m \in Notes : feed'[m].seq = feed[m].seq
    BY <1>2 DEF InboxTypeOK, MarkRead, DeleteRow
  <2> QED
    BY <2>1 DEF Numbered
<1>3. ASSUME NEW p \in Pollers, Fetch(p) PROVE Numbered'
  <2>1. PICK kept \in SUBSET Ahead(p), last \in Ahead(p) :
            poller' = [poller EXCEPT ![p].pc = "write", ![p].next = feed[last].seq,
                                     ![p].page = {Entry(n) : n \in kept}]
    BY <1>3, FirstIs
  <2>2. /\ poller'[p].page = {Entry(n) : n \in kept}
        /\ \A q \in Pollers : q # p => poller'[q].page = poller[q].page
    BY <2>1 DEF InboxTypeOK
  <2>3. \A n, m \in kept : Entry(n).seq = Entry(m).seq => n = m
    BY DEF InboxTypeOK, Numbered, Ahead, Entry, Bounded
  <2>4. \A e, f \in poller'[p].page : e.seq = f.seq => e = f
    BY <2>2, <2>3
  <2>5. UNCHANGED feed
    BY <1>3 DEF Fetch
  <2> QED
    BY <2>2, <2>4, <2>5 DEF Numbered
<1>4. ASSUME NEW p \in Pollers,
             ReadCursor(p) \/ FeedIsEmpty(p) \/ Write(p) \/ Advance(p) \/ RunFails(p)
      PROVE  Numbered'
  <2>1. \A q \in Pollers : poller'[q].page \subseteq poller[q].page
    <3>1. CASE FeedIsEmpty(p) \/ RunFails(p)
      BY <3>1 DEF InboxTypeOK, FeedIsEmpty, RunFails, Idle
    <3>2. CASE ReadCursor(p)
      BY <3>2 DEF InboxTypeOK, ReadCursor
    <3>3. CASE Write(p)
      BY <3>3 DEF InboxTypeOK, Write
    <3>4. CASE Advance(p)
      BY <3>4 DEF InboxTypeOK, Advance, Idle
    <3> QED
      BY <1>4, <3>1, <3>2, <3>3, <3>4
  <2>2. UNCHANGED feed
    BY <1>4 DEF ReadCursor, FeedIsEmpty, Write, Advance, RunFails
  <2> QED
    BY <2>1, <2>2 DEF Numbered
<1>5. CASE CursorLost \/ UNCHANGED inboxVars
  BY <1>5 DEF Numbered, CursorLost, inboxVars
<1> QED
  BY <1>1, <1>2, <1>3, <1>4, <1>5 DEF InboxNext, RunOnce

-----------------------------------------------------------------------------
(* Covering the feed *)

Reached(k) == k \in Int /\ k <= seqno /\ Covered(k)

LEMMA Reaches ==
    ASSUME InboxTypeOK, Bounded, Covers
    PROVE  /\ Reached(0) /\ Reached(cursor)
           /\ \A n \in Notes : Reached(inbox[n].seq)
           /\ \A p \in Pollers : Reached(poller[p].after)
<1>1. Covered(0)
  BY DEF InboxTypeOK, Covered, Handled, Seqs
<1> QED
  BY <1>1 DEF InboxTypeOK, Bounded, Covers, Reached, Seqs, NoCursor

LEMMA CoversFrom ==
    ASSUME CoveredNext(cursor'),
           \A n \in Notes : CoveredNext(inbox'[n].seq),
           \A p \in Pollers : CoveredNext(poller'[p].after) /\ Pending(p)'
    PROVE  Covers'
BY DEF Covers, Covered, CoveredNext, Handled

LEMMA PendingKept ==
    ASSUME InboxTypeOK, InboxTypeOK', Bounded, Onward, NEW p \in Pollers, Pending(p),
           poller'[p].page = poller[p].page, poller'[p].next = poller[p].next
    PROVE  Pending(p)'
<1> SUFFICES ASSUME NEW n \in Notes, feed'[n].seq <= poller[p].next
             PROVE  \/ seen'[n] >= feed'[n].seq \/ dropped'[n] >= feed'[n].seq
                    \/ \E e \in poller[p].page : e.note = n /\ e.seq = feed'[n].seq
  BY DEF Pending, Handled
<1>1. /\ seqno \in Int /\ feed[n].seq \in Int /\ seen[n] \in Int /\ dropped[n] \in Int
      /\ seen'[n] \in Int /\ dropped'[n] \in Int /\ poller[p].next \in Int
  BY DEF InboxTypeOK, Seqs
<1>2. feed'[n].seq = feed[n].seq
  BY <1>1 DEF Onward, Bounded
<1>3. \/ seen[n] >= feed[n].seq \/ dropped[n] >= feed[n].seq
      \/ \E e \in poller[p].page : e.note = n /\ e.seq = feed[n].seq
  BY <1>2 DEF Pending, Handled
<1> QED
  BY <1>1, <1>2, <1>3 DEF Onward

LEMMA PendingNothing ==
    ASSUME InboxTypeOK', NEW p \in Pollers, poller'[p].next = 0
    PROVE  Pending(p)'
BY DEF InboxTypeOK, Pending, Handled, Seqs

(* The entry that is written is the first: all before it was handled.      *)
LEMMA WrittenInOrder ==
    ASSUME InboxTypeOK, Bounded, Numbered, NEW p \in Pollers, Pending(p),
           NEW e \in poller[p].page, \A f \in poller[p].page : e.seq <= f.seq,
           NEW n \in Notes, feed[n].seq <= e.seq
    PROVE  Handled(n) \/ (e.note = n /\ e.seq = feed[n].seq)
<1>1. e.seq \in Int /\ poller[p].next \in Int /\ feed[n].seq \in Int /\ e.seq <= poller[p].next
  BY DEF InboxTypeOK, Bounded, Entries, Seqs
<1>2. CASE Handled(n)
  BY <1>2
<1>3. CASE ~Handled(n)
  <2>1. PICK f \in poller[p].page : f.note = n /\ f.seq = feed[n].seq
    BY <1>1, <1>3 DEF Pending
  <2>2. f.seq = e.seq
    BY <1>1, <2>1
  <2> QED
    BY <2>1, <2>2 DEF Numbered
<1> QED
  BY <1>2, <1>3

LEMMA CoversKeeps ==
    ASSUME InboxTypeOK, InboxTypeOK', Bounded, Numbered, Covers, Onward, [InboxNext]_inboxVars
    PROVE  Covers'
<1>a. \A k : Reached(k) => CoveredNext(k)
  BY CoveredKept DEF Reached
<1>b. /\ CoveredNext(0) /\ CoveredNext(cursor)
      /\ \A n \in Notes : CoveredNext(inbox[n].seq)
      /\ \A p \in Pollers : CoveredNext(poller[p].after)
  BY <1>a, Reaches
<1>c. \A p \in Pollers : Pending(p)
  BY DEF Covers
<1>1. ASSUME UNCHANGED <<cursor, poller>>,
             \A n \in Notes : inbox'[n].seq \in {inbox[n].seq, 0}
      PROVE  Covers'
  <2>1. \A p \in Pollers : Pending(p)'
    BY <1>1, <1>c, PendingKept
  <2> QED
    BY <1>1, <1>b, <2>1, CoversFrom
<1>2. ASSUME NEW n \in Notes, Grow(n) \/ Retract(n) \/ MarkRead(n) \/ DeleteRow(n)
      PROVE  Covers'
  <2>1. \A m \in Notes : inbox'[m].seq \in {inbox[m].seq, 0}
    BY <1>2 DEF InboxTypeOK, Grow, Retract, MarkRead, DeleteRow, NoRow
  <2>2. UNCHANGED <<cursor, poller>>
    BY <1>2 DEF Grow, Retract, MarkRead, DeleteRow
  <2> QED
    BY <1>1, <2>1, <2>2
<1>3. ASSUME NEW p \in Pollers, ReadCursor(p) PROVE Covers'
  <2>1. PICK s : /\ CoveredNext(s) /\ cursor' \in {s, cursor}
                 /\ poller' = [poller EXCEPT ![p].pc = "fetch", ![p].after = s]
    <3>1. CASE cursor # NoCursor
      BY <1>3, <1>b, <3>1 DEF ReadCursor
    <3>2. CASE cursor = NoCursor
      <4>1. PICK s \in MaxCommunitySeq :
              poller' = [poller EXCEPT ![p].pc = "fetch", ![p].after = s] /\ Saved(s)
        BY <1>3, <3>2 DEF ReadCursor
      <4>2. CoveredNext(s)
        BY <1>b, <4>1 DEF MaxCommunitySeq
      <4> QED
        BY <4>1, <4>2, SavedIs
    <3> QED
      BY <3>1, <3>2
  <2>2. \A q \in Pollers : /\ poller'[q].after \in {poller[q].after, s}
                           /\ poller'[q].next = poller[q].next /\ poller'[q].page = poller[q].page
    BY <2>1 DEF InboxTypeOK
  <2>3. \A q \in Pollers : Pending(q)'
    BY <2>2, <1>c, PendingKept
  <2>4. UNCHANGED inbox
    BY <1>3 DEF ReadCursor
  <2> QED
    BY <2>1, <2>2, <2>3, <2>4, <1>b, CoversFrom
<1>4. ASSUME NEW p \in Pollers, Fetch(p) PROVE Covers'
  <2>1. PICK kept \in SUBSET Ahead(p), last \in Ahead(p) :
            /\ poller' = [poller EXCEPT ![p].pc = "write", ![p].next = feed[last].seq,
                                        ![p].page = {Entry(n) : n \in kept}]
            /\ \A n \in kept : feed[n].seq <= feed[last].seq
            /\ \A n \in Ahead(p) : feed[n].seq <= feed[last].seq =>
                n \in kept \/ dropped'[n] = feed[n].seq
            /\ \A n \in Notes : dropped'[n] \in {dropped[n], feed[n].seq}
    BY <1>4, FirstIs
  <2>2. /\ poller'[p].after = poller[p].after /\ poller'[p].next = feed[last].seq
        /\ poller'[p].page = {Entry(n) : n \in kept}
        /\ \A q \in Pollers : q # p => poller'[q] = poller[q]
    BY <2>1 DEF InboxTypeOK
  <2>3. UNCHANGED <<feed, inbox, cursor, seen>>
    BY <1>4 DEF Fetch
  <2>4. ASSUME NEW n \in Notes, feed[n].seq <= feed[last].seq
        PROVE  \/ seen'[n] >= feed[n].seq \/ dropped'[n] >= feed[n].seq
               \/ \E e \in {Entry(m) : m \in kept} : e.note = n /\ e.seq = feed[n].seq
    <3>1. feed[n].seq \in Int /\ poller[p].after \in Int
      BY DEF InboxTypeOK, Seqs
    <3>2. CASE n \in kept
      <4>1. Entry(n).note = n /\ Entry(n).seq = feed[n].seq
        BY DEF Entry
      <4> QED
        BY <3>2, <4>1
    <3>3. CASE n \in Ahead(p) /\ n \notin kept
      <4>1. dropped'[n] = feed[n].seq
        BY <2>1, <2>4, <3>3
      <4> QED
        BY <3>1, <4>1
    <3>4. CASE n \notin Ahead(p)
      BY <3>1, <3>4, <2>3, <1>b DEF Ahead, CoveredNext
    <3> QED
      BY <3>2, <3>3, <3>4
  <2>5. Pending(p)'
    BY <2>2, <2>3, <2>4 DEF Pending, Handled
  <2>6. \A q \in Pollers : Pending(q)'
    BY <2>2, <2>5, <1>c, PendingKept
  <2>7. \A q \in Pollers : poller'[q].after = poller[q].after
    BY <2>2
  <2> QED
    BY <2>3, <2>6, <2>7, <1>b, CoversFrom
<1>5. ASSUME NEW p \in Pollers, FeedIsEmpty(p) \/ RunFails(p) PROVE Covers'
  <2>1. poller'[p] = Idle /\ \A q \in Pollers : q # p => poller'[q] = poller[q]
    BY <1>5 DEF InboxTypeOK, FeedIsEmpty, RunFails
  <2>2. UNCHANGED <<inbox, cursor>>
    BY <1>5 DEF FeedIsEmpty, RunFails
  <2>3. poller'[p].after = 0 /\ poller'[p].next = 0
    BY <2>1 DEF Idle
  <2>4. \A q \in Pollers : Pending(q)'
    BY <2>1, <2>3, <1>c, PendingKept, PendingNothing
  <2>5. \A q \in Pollers : CoveredNext(poller'[q].after)
    BY <2>1, <2>3, <1>b
  <2> QED
    BY <2>2, <2>4, <2>5, <1>b, CoversFrom
<1>6. ASSUME NEW p \in Pollers, Write(p) PROVE Covers'
  <2>1. PICK e \in poller[p].page :
            /\ e \in Entries /\ e.note \in Notes /\ e.seq \in Seqs
            /\ \A f \in poller[p].page : e.seq <= f.seq
            /\ inbox' = [inbox EXCEPT ![e.note] = Mirrored(e)]
            /\ seen' = [seen EXCEPT ![e.note] = IF @ < e.seq THEN e.seq ELSE @]
            /\ poller' = [poller EXCEPT ![p].page = @ \ {e}]
    BY <1>6, WriteIs
  <2>2. seen'[e.note] >= e.seq
    BY <2>1 DEF InboxTypeOK, Seqs
  <2>3. UNCHANGED <<feed, cursor, dropped>>
    BY <1>6 DEF Write
  <2>4. CoveredNext(e.seq)
    <3> SUFFICES ASSUME NEW n \in Notes, feed[n].seq <= e.seq
                 PROVE  seen'[n] >= feed[n].seq \/ dropped[n] >= feed[n].seq
      BY <2>3 DEF CoveredNext
    <3>1. Handled(n) \/ (e.note = n /\ e.seq = feed[n].seq)
      BY <2>1, <1>c, WrittenInOrder
    <3>2. seen'[n] >= seen[n] /\ feed[n].seq \in Int /\ seen[n] \in Int /\ seen'[n] \in Int
      BY DEF Onward, InboxTypeOK, Seqs
    <3> QED
      BY <2>2, <3>1, <3>2 DEF Handled
  <2>5. Mirrored(e).seq \in {inbox[e.note].seq, 0, e.seq}
    BY DEF Mirrored, NoRow
  <2>6. \A n \in Notes : CoveredNext(inbox'[n].seq)
    <3>1. \A n \in Notes : inbox'[n].seq \in {inbox[n].seq, 0, e.seq}
      BY <2>1, <2>5 DEF InboxTypeOK
    <3> QED
      BY <3>1, <2>4, <1>b
  <2>7. /\ poller'[p].after = poller[p].after /\ poller'[p].next = poller[p].next
        /\ poller'[p].page = poller[p].page \ {e}
        /\ \A q \in Pollers : q # p => poller'[q] = poller[q]
    BY <2>1 DEF InboxTypeOK
  <2>8. Pending(p)'
    <3> SUFFICES ASSUME NEW n \in Notes, feed[n].seq <= poller[p].next
                 PROVE  \/ seen'[n] >= feed[n].seq \/ dropped[n] >= feed[n].seq
                        \/ \E f \in poller[p].page \ {e} : f.note = n /\ f.seq = feed[n].seq
      BY <2>3, <2>7 DEF Pending, Handled
    <3>1. Handled(n) \/ \E f \in poller[p].page : f.note = n /\ f.seq = feed[n].seq
      BY <1>c DEF Pending
    <3>2. seen'[n] >= seen[n] /\ feed[n].seq \in Int /\ seen[n] \in Int /\ seen'[n] \in Int
      BY DEF Onward, InboxTypeOK, Seqs
    <3> QED
      BY <2>2, <3>1, <3>2 DEF Handled
  <2>9. \A q \in Pollers : Pending(q)'
    BY <2>7, <2>8, <1>c, PendingKept
  <2>10. \A q \in Pollers : poller'[q].after = poller[q].after
    BY <2>7
  <2> QED
    BY <2>3, <2>6, <2>9, <2>10, <1>b, CoversFrom
<1>7. ASSUME NEW p \in Pollers, Advance(p) PROVE Covers'
  <2>1. PICK pc \in {"fetch", "idle"} :
          poller' = [poller EXCEPT ![p] = [Idle EXCEPT !.pc = pc, !.after = NextAfter(p)]]
    BY <1>7 DEF Advance
  <2>2. /\ poller'[p].after = poller[p].next /\ poller'[p].next = 0
        /\ \A q \in Pollers : q # p => poller'[q] = poller[q]
    BY <2>1 DEF InboxTypeOK, Idle, NextAfter
  <2>3. cursor' \in {poller[p].next, cursor}
    BY <1>7, SavedIs DEF Advance, NextAfter
  <2>4. Reached(poller[p].next)
    BY <1>7, <1>c DEF Advance, Reached, Covered, Pending, Bounded, InboxTypeOK, Seqs
  <2>5. CoveredNext(poller[p].next)
    BY <1>a, <2>4
  <2>6. \A q \in Pollers : Pending(q)'
    BY <2>2, <1>c, PendingKept, PendingNothing
  <2>7. \A q \in Pollers : CoveredNext(poller'[q].after)
    BY <2>2, <2>5, <1>b
  <2>8. UNCHANGED inbox
    BY <1>7 DEF Advance
  <2> QED
    BY <2>3, <2>5, <2>6, <2>7, <2>8, <1>b, CoversFrom
<1>8. CASE CursorLost
  <2>1. UNCHANGED <<inbox, poller>> /\ cursor' = NoCursor
    BY <1>8 DEF CursorLost
  <2>2. CoveredNext(NoCursor)
    BY DEF InboxTypeOK, CoveredNext, NoCursor, Seqs
  <2>3. \A p \in Pollers : Pending(p)'
    BY <2>1, <1>c, PendingKept
  <2> QED
    BY <2>1, <2>2, <2>3, <1>b, CoversFrom
<1>9. CASE UNCHANGED inboxVars
  BY <1>1, <1>9 DEF inboxVars
<1> QED
  BY <1>2, <1>3, <1>4, <1>5, <1>6, <1>7, <1>8, <1>9 DEF InboxNext, RunOnce

-----------------------------------------------------------------------------
(* Theorems *)

LEMMA InitHolds ==
    ASSUME InboxInit
    PROVE  InboxIInv
<1> USE DEF InboxInit
<1>1. InboxTypeOK
  BY InboxBoundsOK, InboxIdleTypes DEF InboxTypeOK, Seqs, Runs
<1>2. \A p \in Pollers : poller[p].page = {} /\ poller[p].next = 0 /\ poller[p].after = 0
  BY DEF Idle
<1>3. Bounded /\ Numbered
  BY <1>2 DEF Bounded, Numbered, NoCursor, NoRow
<1>4. \A n \in Notes : Handled(n)
  BY DEF Handled
<1>5. Covers
  BY <1>4 DEF Covers, Covered, Pending
<1> QED
  BY <1>1, <1>3, <1>5 DEF InboxIInv

(* The inductive invariant of the specification.                           *)
THEOREM IInvHolds == InboxSpec => []InboxIInv
<1>1. InboxInit => InboxIInv
  BY InitHolds
<1>2. InboxIInv /\ [InboxNext]_inboxVars => InboxIInv'
  BY TypeKeeps, StepsGoOnward, BoundedKeeps, NumberedKeeps, CoversKeeps DEF InboxIInv
<1> QED
  BY <1>1, <1>2, PTL DEF InboxSpec

(* Every variable keeps its type, for any bounds: in particular a run      *)
(* reads on from a number, never from the absence of one.                  *)
THEOREM InboxTypeCorrect == InboxSpec => []InboxTypeOK
<1>1. InboxIInv => InboxTypeOK
  BY DEF InboxIInv
<1> QED
  BY <1>1, IInvHolds, PTL

(* However pages are repeated, cut short or shared between processes, and  *)
(* the cursor lost, no notice is left behind the cursor or the table.      *)
THEOREM NothingSkipped == InboxSpec => []NothingIsSkipped
<1>1. InboxIInv => NothingIsSkipped
  BY DEF InboxIInv, Covers, Covered, NothingIsSkipped
<1> QED
  BY <1>1, IInvHolds, PTL

(* A page read before a notice was read does not make it unread again.     *)
THEOREM ReadIsKept == InboxSpec => ReadStaysRead
<1> DEFINE Kept == \A n \in Notes :
        inbox[n].read /\ inbox'[n].seq # 0 /\ ~inbox'[n].read => inbox'[n].seq > inbox[n].seq
<1>1. InboxTypeOK /\ [InboxNext]_inboxVars => [Kept]_inboxVars
  <2> SUFFICES ASSUME InboxTypeOK, [InboxNext]_inboxVars, NEW n \in Notes, inbox[n].read,
                      inbox'[n].seq # 0, ~inbox'[n].read
               PROVE  inbox'[n].seq > inbox[n].seq
    OBVIOUS
  <2>1. inbox'[n] # inbox[n] /\ inbox' # inbox
    OBVIOUS
  <2>2. ~ UNCHANGED inbox
    BY <2>1
  <2>3. CASE \E m \in Notes : MarkRead(m) \/ DeleteRow(m)
    BY <2>1, <2>3 DEF InboxTypeOK, MarkRead, DeleteRow, NoRow
  <2>4. ASSUME NEW p \in Pollers, Write(p) PROVE inbox'[n].seq > inbox[n].seq
    <3>1. PICK e \in poller[p].page :
            e.note \in Notes /\ e.seq \in Seqs /\ inbox' = [inbox EXCEPT ![e.note] = Mirrored(e)]
      BY <2>4, WriteIs
    <3>2. n = e.note /\ inbox'[n] = Mirrored(e)
      BY <2>1, <3>1 DEF InboxTypeOK
    <3>3. inbox[n].seq \in Int /\ e.seq \in Int
      BY <3>1 DEF InboxTypeOK, Seqs
    <3> QED
      BY <2>1, <3>2, <3>3 DEF Mirrored, NoRow
  <2>5. (\E m \in Notes : MarkRead(m) \/ DeleteRow(m)) \/ (\E p \in Pollers : Write(p))
    BY <2>2 DEF InboxNext, RunOnce, inboxVars, Grow, Retract, ReadCursor, Fetch, FeedIsEmpty, Advance,
                RunFails, CursorLost
  <2> QED
    BY <2>3, <2>4, <2>5
<1> QED
  BY <1>1, InboxTypeCorrect, PTL DEF InboxSpec, ReadStaysRead

=============================================================================
