---------------------------- MODULE PollVoteProofs ----------------------------
(***************************************************************************)
(* Proofs about PollVote, for any finite set of readers and any number of  *)
(* options, requests and tabs.                                             *)
(*                                                                         *)
(* The argument: a transaction owns what it deleted, which is committed    *)
(* still, and what it inserted, which is not; no other transaction of its  *)
(* reader owns the same, and the author waits.  So what it counts down and *)
(* up is what its commit takes and adds.  A transaction alone with its     *)
(* reader's votes locked all of them, and knows them exactly.              *)
(***************************************************************************)
EXTENDS PollVote, FiniteSetTheorems, TLAPS

Flight ==
    [pc : {"lock", "delete", "drop", "insert", "add"}, user : Users,
     choice : SUBSET Options, rows : SUBSET Options, next : Options \cup {NoOption},
     current : SUBSET Options, gone : SUBSET Options, put : SUBSET Options,
     counted : SUBSET Options, changeable : BOOLEAN, alone : BOOLEAN]

TypeInv ==
    /\ poll \in [single : BOOLEAN, changeable : BOOLEAN, closed : BOOLEAN,
                 options : SUBSET Options]
    /\ votes \subseteq Users \X poll.options
    /\ count \in [Options -> Int]
    /\ req \in [Requests -> Flight \cup {Idle}]
    /\ edit \in [pc : {"write"}, single : BOOLEAN, changeable : BOOLEAN,
                 remove : SUBSET Options] \cup {NoEdit}

(* What a transaction owns at each of its statements.                      *)
Owns(q) ==
    /\ q.gone \subseteq ChoiceOf(q.user)
    /\ q.put \cap ChoiceOf(q.user) = {}
    /\ q.put \subseteq q.choice \cap poll.options
    /\ q.pc \in {"lock", "delete"} => q.gone = {} /\ q.put = {} /\ q.counted = {}
    /\ q.pc = "drop" => q.rows = q.gone /\ q.put = {} /\ q.counted = {}
    /\ q.pc = "insert" => q.next \in q.rows /\ q.rows \subseteq q.choice /\ q.counted = q.gone
    /\ q.pc = "add" => q.counted = q.gone

(* What it knows as long as its reader has no other.                       *)
Knows(q) ==
    q.alone =>
        /\ q.pc = "lock" => ChoiceOf(q.user) \subseteq q.rows
        /\ q.pc # "lock" => /\ ChoiceOf(q.user) = q.current
                            /\ q.current = {} \/ q.changeable
        /\ q.pc = "delete" => q.rows = q.current \ q.choice
        /\ q.pc \in {"drop", "insert", "add"} => q.gone = q.current \ q.choice
        /\ q.pc = "insert" => q.choice \subseteq q.rows \cup q.put \cup q.current
        /\ q.pc = "add" => q.choice \subseteq q.put \cup q.current

Apart(p, q) ==
    p.user = q.user => /\ ~p.alone /\ ~q.alone
                       /\ p.gone \cap q.gone = {} /\ p.put \cap q.put = {}

Owned == \A r \in Requests : InFlight(r) => Owns(req[r]) /\ Knows(req[r])

Separate ==
    \A r, s \in Requests : r # s /\ InFlight(r) /\ InFlight(s) => Apart(req[r], req[s])

IInv == TypeInv /\ Owned /\ Separate /\ CountsMatchVotes

-----------------------------------------------------------------------------
LEMMA FlightType ==
    ASSUME TypeInv, NEW r \in Requests, InFlight(r)
    PROVE  req[r] \in Flight
BY DEF TypeInv, InFlight, Idle

LEMMA VotersFinite ==
    ASSUME NEW o
    PROVE  IsFiniteSet(Voters(o)) /\ Cardinality(Voters(o)) \in Nat
<1>1. Voters(o) \subseteq Users /\ IsFiniteSet(Users)
  BY PollBoundsOK DEF Voters
<1> QED
  BY <1>1, FS_Subset, FS_CardinalityType

LEMMA InitIInv == Init => IInv
<1> SUFFICES ASSUME Init PROVE IInv
  OBVIOUS
<1>1. TypeInv
  <2>1. poll \in [single : BOOLEAN, changeable : BOOLEAN, closed : BOOLEAN,
                  options : SUBSET Options]
    BY DEF Init
  <2>2. votes \subseteq Users \X poll.options /\ count \in [Options -> Int]
    BY DEF Init
  <2>3. req \in [Requests -> Flight \cup {Idle}] /\ edit = NoEdit
    BY DEF Init
  <2> QED
    BY <2>1, <2>2, <2>3 DEF TypeInv
<1>2. Owned /\ Separate
  BY DEF Init, Owned, Separate, InFlight, Idle
<1>3. CountsMatchVotes
  <2>1. \A o \in Options : Voters(o) = {}
    BY DEF Init, Voters
  <2> QED
    BY <2>1, FS_EmptySet DEF Init, CountsMatchVotes
<1> QED
  BY <1>1, <1>2, <1>3 DEF IInv

(* One request goes on, or ends, and nothing is committed.                 *)
LEMMA OneMoves ==
    ASSUME IInv, UNCHANGED <<poll, votes, count, edit>>,
           NEW r \in Requests, NEW q \in Flight \cup {Idle},
           req' = [req EXCEPT ![r] = q],
           q # Idle => Owns(q) /\ Knows(q),
           q # Idle => \A s \in Requests \ {r} :
                InFlight(s) => Apart(req[s], q)
    PROVE  IInv'
<1>1. TypeInv'
  BY DEF IInv, TypeInv
<1>2. /\ req'[r] = q
      /\ \A s \in Requests \ {r} : req'[s] = req[s]
  BY DEF IInv, TypeInv
<1>3. q \in Flight => q.pc # "idle"
  BY DEF Flight
<1>4. \A p : (Owns(p) <=> Owns(p)') /\ (Knows(p) <=> Knows(p)')
  BY DEF Owns, Knows, ChoiceOf
<1>5. Owned'
  BY <1>2, <1>3, <1>4 DEF IInv, Owned, InFlight, Idle
<1>6. Separate'
  BY <1>2, <1>3 DEF IInv, Separate, Apart, InFlight, Idle
<1>7. CountsMatchVotes'
  BY DEF IInv, CountsMatchVotes, Voters
<1> QED
  BY <1>1, <1>5, <1>6, <1>7 DEF IInv


-----------------------------------------------------------------------------
(* The statements of a vote *)

LEMMA EndKeeps ==
    ASSUME IInv, NEW r \in Requests, Ends(r), UNCHANGED <<poll, votes, count, edit>>
    PROVE  IInv'
BY OneMoves DEF Ends

LEMMA LockKeeps ==
    ASSUME IInv, NEW r \in Requests, Lock(r)
    PROVE  IInv'
<1> DEFINE current == req[r].rows \cap ChoiceOf(req[r].user)
           q == [req[r] EXCEPT !.pc = "delete", !.current = current,
                               !.rows = ChoiceOf(req[r].user) \ req[r].choice]
<1>0. CASE Ends(r)
  BY <1>0, EndKeeps DEF Lock
<1>1. CASE ~Ends(r)
  <2>1. /\ req' = [req EXCEPT ![r] = q] /\ req[r].pc = "lock"
        /\ ~Refused(r, current)
        /\ UNCHANGED <<poll, votes, count, edit>>
    BY <1>1 DEF Lock
  <2>2. InFlight(r) /\ req[r] \in Flight
    BY <2>1, FlightType DEF IInv, InFlight
  <2>3. ChoiceOf(req[r].user) \subseteq Options
    BY DEF ChoiceOf
  <2>4. /\ q \in Flight /\ q # Idle
        /\ q.pc = "delete" /\ q.current = current /\ q.user = req[r].user
        /\ q.rows = ChoiceOf(req[r].user) \ req[r].choice
        /\ q.choice = req[r].choice /\ q.gone = req[r].gone /\ q.put = req[r].put
        /\ q.counted = req[r].counted /\ q.alone = req[r].alone
        /\ q.changeable = req[r].changeable
    BY <2>2, <2>3 DEF Flight, Idle
  <2>5. Owns(q) /\ Knows(q)
    BY <2>1, <2>2, <2>4 DEF IInv, Owned, Owns, Knows, Refused
  <2>6. \A s \in Requests \ {r} : InFlight(s) => Apart(req[s], q)
    BY <2>2, <2>4 DEF IInv, Separate, Apart
  <2> QED
    BY <2>1, <2>4, <2>5, <2>6, OneMoves
<1> QED
  BY <1>0, <1>1

(* Nobody else of the reader holds the rows that are deleted.              *)
LEMMA DeleteKeeps ==
    ASSUME IInv, NEW r \in Requests, Delete(r)
    PROVE  IInv'
<1> DEFINE gone == req[r].rows \cap ChoiceOf(req[r].user)
           q == [req[r] EXCEPT !.pc = "drop", !.gone = gone, !.rows = gone]
<1>1. /\ req' = [req EXCEPT ![r] = q] /\ req[r].pc = "delete"
      /\ RowHolders(r, req[r].rows) = {}
      /\ UNCHANGED <<poll, votes, count, edit>>
  BY DEF Delete, Dropped, WaitsFor
<1>2. InFlight(r) /\ req[r] \in Flight
  BY <1>1, FlightType DEF IInv, InFlight
<1>3. /\ q \in Flight /\ q # Idle
      /\ q.pc = "drop" /\ q.current = req[r].current /\ q.user = req[r].user
      /\ q.rows = gone /\ q.choice = req[r].choice /\ q.gone = gone /\ q.put = req[r].put
      /\ q.counted = req[r].counted /\ q.alone = req[r].alone
      /\ q.changeable = req[r].changeable
  BY <1>2 DEF Flight, Idle
<1>4. Owns(req[r]) /\ Knows(req[r])
  BY <1>2 DEF IInv, Owned
<1>5. Owns(q) /\ Knows(q)
  BY <1>1, <1>3, <1>4 DEF Owns, Knows
<1>6. ASSUME NEW s \in Requests \ {r}, InFlight(s) PROVE Apart(req[s], q)
  <2>1. Apart(req[s], req[r])
    BY <1>2, <1>6 DEF IInv, Separate
  <2>2. req[s].user = req[r].user => req[r].rows \cap req[s].gone = {}
    BY <1>1, <1>6 DEF RowHolders, Of, Locked
  <2> QED
    BY <1>3, <2>1, <2>2 DEF Apart
<1> QED
  BY <1>1, <1>3, <1>5, <1>6, OneMoves

LEMMA DropKeeps ==
    ASSUME IInv, NEW r \in Requests, Drop(r)
    PROVE  IInv'
<1>1. PICK o \in req[r].choice \cup {NoOption} :
        /\ o = NoOption => req[r].choice = {}
        /\ req' = [req EXCEPT ![r].pc = IF o = NoOption THEN "add" ELSE "insert",
                              ![r].next = o, ![r].counted = req[r].rows,
                              ![r].rows = req[r].choice]
  BY DEF Drop
<1> DEFINE q == [req[r] EXCEPT !.pc = IF o = NoOption THEN "add" ELSE "insert",
                               !.next = o, !.counted = req[r].rows,
                               !.rows = req[r].choice]
<1>2. /\ req' = [req EXCEPT ![r] = q] /\ req[r].pc = "drop"
      /\ UNCHANGED <<poll, votes, count, edit>>
  BY <1>1, ZenonT(40) DEF Drop
<1>3. InFlight(r) /\ req[r] \in Flight
  BY <1>2, FlightType DEF IInv, InFlight
<1>4. /\ q \in Flight /\ q # Idle
      /\ q.pc = (IF o = NoOption THEN "add" ELSE "insert") /\ q.next = o
      /\ q.current = req[r].current /\ q.user = req[r].user
      /\ q.rows = req[r].choice /\ q.choice = req[r].choice
      /\ q.gone = req[r].gone /\ q.put = req[r].put
      /\ q.counted = req[r].rows /\ q.alone = req[r].alone
      /\ q.changeable = req[r].changeable
  BY <1>3 DEF Flight, Idle
<1>5. Owns(req[r]) /\ Knows(req[r])
  BY <1>3 DEF IInv, Owned
<1>6. Owns(q) /\ Knows(q)
  BY <1>1, <1>2, <1>4, <1>5 DEF Owns, Knows
<1>7. \A s \in Requests \ {r} : InFlight(s) => Apart(req[s], q)
  BY <1>3, <1>4 DEF IInv, Separate, Apart
<1> QED
  BY <1>2, <1>4, <1>6, <1>7, OneMoves

(* Nobody else of the reader has inserted what is inserted.                *)
LEMMA InsertKeeps ==
    ASSUME IInv, NEW r \in Requests, Insert(r)
    PROVE  IInv'
<1> DEFINE o == req[r].next
           rest == req[r].rows \ {o}
           added == {o} \ ChoiceOf(req[r].user)
<1>0. CASE Ends(r)
  BY <1>0, EndKeeps DEF Insert
<1>1. CASE ~Ends(r)
  <2>1. o \in poll.options
    BY <1>1 DEF Insert
  <2>2. PICK n \in IF rest = {} THEN {NoOption} ELSE rest :
          req' = [req EXCEPT ![r].pc = IF rest = {} THEN "add" ELSE "insert",
                             ![r].next = n, ![r].put = @ \cup added,
                             ![r].rows = IF rest = {} THEN req[r].put \cup added ELSE rest]
    BY <1>1 DEF Insert
  <2> DEFINE q == [req[r] EXCEPT !.pc = IF rest = {} THEN "add" ELSE "insert",
                                 !.next = n, !.put = @ \cup added,
                                 !.rows = IF rest = {} THEN req[r].put \cup added ELSE rest]
  <2>3. /\ req' = [req EXCEPT ![r] = q] /\ req[r].pc = "insert"
        /\ InsertHolders(r, {o}) = {}
        /\ UNCHANGED <<poll, votes, count, edit>>
    BY <2>2, ZenonT(40) DEF Insert, WaitsFor
  <2>4. InFlight(r) /\ req[r] \in Flight
    BY <2>3, FlightType DEF IInv, InFlight
  <2>5. Owns(req[r]) /\ Knows(req[r])
    BY <2>4 DEF IInv, Owned
  <2>6. o \in req[r].rows /\ req[r].rows \subseteq req[r].choice /\ o \in Options
    BY <2>3, <2>4, <2>5 DEF Owns, Flight
  <2>7. /\ q \in Flight /\ q # Idle
        /\ q.pc = (IF rest = {} THEN "add" ELSE "insert") /\ q.next = n
        /\ q.current = req[r].current /\ q.user = req[r].user
        /\ q.rows = (IF rest = {} THEN req[r].put \cup added ELSE rest)
        /\ q.choice = req[r].choice /\ q.gone = req[r].gone
        /\ q.put = req[r].put \cup added
        /\ q.counted = req[r].counted /\ q.alone = req[r].alone
        /\ q.changeable = req[r].changeable
    BY <2>2, <2>4, <2>6 DEF Flight, Idle
  <2>8. Owns(q)
    <3>1. /\ q.gone \subseteq ChoiceOf(q.user)
          /\ q.put \cap ChoiceOf(q.user) = {}
          /\ q.put \subseteq q.choice \cap poll.options
      BY <2>1, <2>5, <2>6, <2>7 DEF Owns
    <3>2. q.counted = q.gone
      BY <2>3, <2>5, <2>7 DEF Owns
    <3>3. q.pc = "insert" => q.next \in q.rows /\ q.rows \subseteq q.choice
      <4>1. CASE rest = {}
        BY <2>7, <4>1
      <4>2. CASE rest # {}
        <5>1. n \in rest
          BY <2>2, <4>2
        <5>2. q.next = n /\ q.rows = rest
          BY <2>7, <4>2
        <5> QED
          BY <2>6, <2>7, <5>1, <5>2
      <4> QED
        BY <4>1, <4>2
    <3>4. q.pc \in {"insert", "add"}
      BY <2>7
    <3> QED
      BY <3>1, <3>2, <3>3, <3>4 DEF Owns
  <2>9. Knows(q)
    <3> SUFFICES ASSUME q.alone PROVE Knows(q)
      BY DEF Knows
    <3>1. /\ ChoiceOf(req[r].user) = req[r].current
          /\ req[r].current = {} \/ req[r].changeable
          /\ req[r].gone = req[r].current \ req[r].choice
          /\ req[r].choice \subseteq req[r].rows \cup req[r].put \cup req[r].current
      BY <2>3, <2>5, <2>7 DEF Knows
    <3>2. req[r].choice \subseteq rest \cup req[r].put \cup added \cup req[r].current
      BY <3>1
    <3>3. q.pc \in {"insert", "add"}
      BY <2>7
    <3>4. q.pc = "insert" => q.choice \subseteq q.rows \cup q.put \cup q.current
      BY <2>7, <3>2
    <3>5. q.pc = "add" => q.choice \subseteq q.put \cup q.current
      <4>1. q.pc = "add" => rest = {}
        BY <2>7
      <4> QED
        BY <2>7, <3>2, <4>1
    <3> QED
      BY <2>7, <3>1, <3>3, <3>4, <3>5 DEF Knows
  <2>10. ASSUME NEW s \in Requests \ {r}, InFlight(s) PROVE Apart(req[s], q)
    <3>1. Apart(req[s], req[r])
      BY <2>4, <2>10 DEF IInv, Separate
    <3>2. req[s].user = req[r].user => o \notin req[s].put
      BY <2>3, <2>10 DEF InsertHolders, Of
    <3> QED
      BY <2>7, <3>1, <3>2 DEF Apart
  <2> QED
    BY <2>3, <2>7, <2>8, <2>9, <2>10, OneMoves
<1> QED
  BY <1>0, <1>1

(* What is counted is what is committed.                                   *)
LEMMA AddCounts ==
    ASSUME IInv, NEW r \in Requests, Add(r), NEW o \in Options
    PROVE  count'[o] = Cardinality(Voters(o)')
<1> DEFINE u == req[r].user
<1>1. /\ InFlight(r) /\ req[r] \in Flight /\ req[r].pc = "add"
  BY FlightType DEF Add, IInv, InFlight
<1>2. Owns(req[r]) /\ req[r].counted = req[r].gone
  BY <1>1 DEF IInv, Owned, Owns
<1>3. /\ votes' = (votes \ ({u} \X req[r].gone)) \cup ({u} \X req[r].put)
      /\ count'[o] = count[o] - (IF o \in req[r].gone THEN 1 ELSE 0)
                              + (IF o \in req[r].put THEN 1 ELSE 0)
  BY <1>2 DEF Add, Counted
<1>4. /\ count[o] = Cardinality(Voters(o)) /\ Cardinality(Voters(o)) \in Nat
      /\ IsFiniteSet(Voters(o)) /\ u \in Users
  BY <1>1, VotersFinite DEF IInv, CountsMatchVotes, Flight
<1>5. CASE o \in req[r].gone
  <2>1. u \in Voters(o) /\ o \notin req[r].put
    BY <1>2, <1>4, <1>5 DEF Owns, ChoiceOf, Voters
  <2>2. Voters(o)' = Voters(o) \ {u}
    BY <1>3, <1>5, <2>1 DEF Voters
  <2>3. Cardinality(Voters(o) \ {u}) = Cardinality(Voters(o)) - 1
    BY <1>4, <2>1, FS_RemoveElement
  <2> QED
    BY <1>3, <1>4, <1>5, <2>1, <2>2, <2>3
<1>6. CASE o \in req[r].put
  <2>1. u \notin Voters(o) /\ o \notin req[r].gone
    BY <1>2, <1>4, <1>6 DEF Owns, ChoiceOf, Voters
  <2>2. Voters(o)' = Voters(o) \cup {u}
    BY <1>3, <1>4, <1>6, <2>1 DEF Voters
  <2>3. Cardinality(Voters(o) \cup {u}) = Cardinality(Voters(o)) + 1
    BY <1>4, <2>1, FS_AddElement
  <2> QED
    BY <1>3, <1>4, <1>6, <2>1, <2>2, <2>3
<1>7. CASE o \notin req[r].gone \cup req[r].put
  <2>1. Voters(o)' = Voters(o)
    BY <1>3, <1>7 DEF Voters
  <2> QED
    BY <1>3, <1>4, <1>7, <2>1
<1> QED
  BY <1>5, <1>6, <1>7

LEMMA AddKeeps ==
    ASSUME IInv, NEW r \in Requests, Add(r)
    PROVE  IInv'
<1> DEFINE u == req[r].user
<1>1. InFlight(r) /\ req[r] \in Flight /\ Owns(req[r])
  BY FlightType DEF Add, IInv, InFlight, Owned
<1>2. /\ votes' = (votes \ ({u} \X req[r].gone)) \cup ({u} \X req[r].put)
      /\ req' = [req EXCEPT ![r] = Idle] /\ poll' = poll /\ edit' = edit
  BY DEF Add, Ends
<1>3. TypeInv'
  <2>1. votes' \subseteq Users \X poll'.options
    BY <1>1, <1>2 DEF IInv, TypeInv, Owns, Flight
  <2>2. count' \in [Options -> Int]
    <3>1. \A o \in Options : count'[o] \in Int
      BY <1>1, AddCounts, VotersFinite DEF Add, Counted, IInv, TypeInv
    <3>2. count' = [o \in Options |-> count'[o]]
      BY DEF Add
    <3> QED
      BY <3>1, <3>2
  <2>3. req' \in [Requests -> Flight \cup {Idle}]
    BY <1>2 DEF IInv, TypeInv
  <2> QED
    BY <1>2, <2>1, <2>2, <2>3 DEF IInv, TypeInv
<1>4. /\ ~InFlight(r)'
      /\ \A s \in Requests \ {r} : req'[s] = req[s]
  BY <1>2 DEF IInv, TypeInv, InFlight, Idle
<1>5. ASSUME NEW s \in Requests, InFlight(s)' PROVE Owns(req[s])' /\ Knows(req[s])'
  <2>1. s # r /\ req'[s] = req[s] /\ InFlight(s)
    BY <1>4, <1>5 DEF InFlight
  <2>2. Owns(req[s]) /\ Knows(req[s]) /\ Apart(req[s], req[r])
    BY <1>1, <2>1 DEF IInv, Owned, Separate
  <2>3. CASE req[s].user # u
    <3>1. ChoiceOf(req[s].user)' = ChoiceOf(req[s].user)
      BY <1>2, <2>1, <2>3 DEF ChoiceOf
    <3> QED
      BY <1>2, <2>1, <2>2, <3>1 DEF Owns, Knows
  <2>4. CASE req[s].user = u
    <3>1. ChoiceOf(req[s].user)' = (ChoiceOf(u) \ req[r].gone) \cup req[r].put
      BY <1>1, <1>2, <2>1, <2>4 DEF ChoiceOf, Flight
    <3>2. Owns(req[s])'
      BY <1>1, <1>2, <2>1, <2>2, <2>4, <3>1 DEF Owns, Apart
    <3> QED
      BY <2>1, <2>2, <2>4, <3>2 DEF Knows, Apart
  <2> QED
    BY <2>3, <2>4
<1>6. Owned'
  BY <1>5 DEF Owned
<1>7. Separate'
  BY <1>4 DEF IInv, Separate, Apart, InFlight
<1>8. CountsMatchVotes'
  BY AddCounts DEF CountsMatchVotes
<1> QED
  BY <1>3, <1>6, <1>7, <1>8 DEF IInv

(* A new request makes those of its reader that are there not alone.       *)
LEMMA BeginKeeps ==
    ASSUME IInv, NEW r \in Requests, NEW u \in Users, NEW choice \in SUBSET Options,
           Begin(r, u, choice)
    PROVE  IInv'
<1> DEFINE new == [pc |-> "lock", user |-> u, choice |-> choice, rows |-> ChoiceOf(u),
                   next |-> NoOption, current |-> {}, gone |-> {}, put |-> {},
                   counted |-> {}, changeable |-> poll.changeable, alone |-> Of(u) = {}]
<1>1. /\ req'[r] = new
      /\ \A s \in Requests \ {r} :
            req'[s] = IF s \in Of(u) THEN [req[s] EXCEPT !.alone = FALSE] ELSE req[s]
      /\ req' \in [Requests -> {req'[s] : s \in Requests}]
      /\ ~InFlight(r) /\ UNCHANGED <<poll, votes, count, edit>>
  BY DEF Begin
<1>2. new \in Flight
  BY DEF IInv, TypeInv, Flight, ChoiceOf
<1>3. ASSUME NEW s \in Of(u)
      PROVE  /\ s \in Requests \ {r} /\ InFlight(s) /\ req[s] \in Flight
             /\ req'[s] \in Flight /\ ~req'[s].alone
             /\ req'[s].pc = req[s].pc /\ req'[s].user = req[s].user
             /\ req'[s].choice = req[s].choice /\ req'[s].rows = req[s].rows
             /\ req'[s].next = req[s].next /\ req'[s].gone = req[s].gone
             /\ req'[s].put = req[s].put /\ req'[s].counted = req[s].counted
  <2>1. s \in Requests \ {r} /\ InFlight(s) /\ req[s] \in Flight
    BY <1>1, FlightType DEF IInv, Of
  <2>2. req'[s] = [req[s] EXCEPT !.alone = FALSE]
    BY <1>1, <2>1
  <2> QED
    BY <2>1, <2>2 DEF Flight
<1>4. TypeInv'
  <2>1. \A s \in Requests : req'[s] \in Flight \cup {Idle}
    BY <1>1, <1>2, <1>3 DEF IInv, TypeInv
  <2> QED
    BY <1>1, <2>1 DEF IInv, TypeInv
<1>5. \A p : (Owns(p) <=> Owns(p)') /\ (Knows(p) <=> Knows(p)')
  BY <1>1 DEF Owns, Knows, ChoiceOf
<1>6. ASSUME NEW s \in Requests, InFlight(s)' PROVE Owns(req'[s]) /\ Knows(req'[s])
  <2>1. CASE s = r
    BY <1>1, <2>1 DEF Owns, Knows
  <2>2. CASE s \in Of(u)
    BY <1>3, <2>2 DEF IInv, Owned, Owns, Knows
  <2>3. CASE s # r /\ s \notin Of(u)
    BY <1>1, <1>6, <2>3 DEF IInv, Owned, InFlight
  <2> QED
    BY <2>1, <2>2, <2>3
<1>7. Owned'
  BY <1>5, <1>6 DEF Owned, InFlight
<1>8. ASSUME NEW s \in Requests, NEW t \in Requests, s # t, InFlight(s)', InFlight(t)'
      PROVE  Apart(req'[s], req'[t])
  <2>1. ASSUME NEW x \in Requests \ {r}, InFlight(x)'
        PROVE  /\ InFlight(x) /\ req'[x].user = req[x].user
               /\ req'[x].gone = req[x].gone /\ req'[x].put = req[x].put
               /\ req'[x].alone => req[x].alone
               /\ req'[x].user = u => ~req'[x].alone /\ new.alone = FALSE
    <3>1. CASE x \in Of(u)
      BY <1>3, <3>1
    <3>2. CASE x \notin Of(u)
      BY <1>1, <2>1, <3>2 DEF InFlight, Of
    <3> QED
      BY <3>1, <3>2
  <2>r. /\ req'[r].user = u /\ req'[r].gone = {} /\ req'[r].put = {}
        /\ req'[r].alone = new.alone
    BY <1>1
  <2>2. CASE s = r
    <3>1. t \in Requests \ {r}
      BY <1>8, <2>2
    <3>2. req'[t].user = u => ~req'[t].alone /\ new.alone = FALSE
      BY <1>8, <2>1, <3>1
    <3> QED
      BY <2>2, <2>r, <3>2 DEF Apart
  <2>3. CASE t = r
    <3>1. s \in Requests \ {r}
      BY <1>8, <2>3
    <3>2. req'[s].user = u => ~req'[s].alone /\ new.alone = FALSE
      BY <1>8, <2>1, <3>1
    <3> QED
      BY <2>3, <2>r, <3>2 DEF Apart
  <2>4. CASE s # r /\ t # r
    <3>1. s \in Requests \ {r} /\ t \in Requests \ {r}
      BY <2>4
    <3>2. InFlight(s) /\ req'[s].user = req[s].user /\ req'[s].gone = req[s].gone
          /\ req'[s].put = req[s].put /\ (req'[s].alone => req[s].alone)
      BY <1>8, <2>1, <3>1
    <3>3. InFlight(t) /\ req'[t].user = req[t].user /\ req'[t].gone = req[t].gone
          /\ req'[t].put = req[t].put /\ (req'[t].alone => req[t].alone)
      BY <1>8, <2>1, <3>1
    <3>4. Apart(req[s], req[t])
      BY <1>8, <3>2, <3>3 DEF IInv, Separate
    <3> QED
      BY <3>2, <3>3, <3>4 DEF Apart
  <2> QED
    BY <2>2, <2>3, <2>4
<1>9. Separate'
  BY <1>8 DEF Separate, InFlight, Apart
<1>10. CountsMatchVotes'
  BY <1>1 DEF IInv, CountsMatchVotes, Voters
<1> QED
  BY <1>4, <1>7, <1>9, <1>10 DEF IInv

-----------------------------------------------------------------------------
(* The author *)

LEMMA EditTypes ==
    ASSUME IInv, EditReads \/ DeleteReads \/ Closes \/ EditLost
    PROVE  TypeInv' /\ UNCHANGED <<votes, count, req, poll.options>>
<1> DEFINE W == [pc : {"write"}, single : BOOLEAN, changeable : BOOLEAN,
                 remove : SUBSET Options]
<1>1. CASE EditReads \/ DeleteReads
  <2>1. poll.single \in BOOLEAN /\ poll.changeable \in BOOLEAN /\ poll.options \subseteq Options
    BY DEF IInv, TypeInv
  <2>w. ASSUME NEW a \in BOOLEAN, NEW b \in BOOLEAN, NEW c \in SUBSET Options
        PROVE  Write(a, b, c) \in W
    BY DEF Write
  <2>2. \E a \in BOOLEAN, b \in BOOLEAN, c \in SUBSET Options : edit' = Write(a, b, c)
    <3>1. CASE edit' = Write(~poll.single, poll.changeable, {})
      <4>1. (~poll.single) = TRUE \/ (~poll.single) = FALSE
        BY <2>1
      <4>2. {} \in SUBSET Options
        OBVIOUS
      <4> QED
        BY <4>1, <4>2, <2>1, <3>1
    <3>2. CASE edit' = Write(poll.single, ~poll.changeable, {})
      <4>1. (~poll.changeable) = TRUE \/ (~poll.changeable) = FALSE
        BY <2>1
      <4>2. {} \in SUBSET Options
        OBVIOUS
      <4> QED
        BY <4>1, <4>2, <2>1, <3>2
    <3>3. CASE \E o \in poll.options : edit' = Write(poll.single, poll.changeable, {o})
      <4>1. PICK o \in poll.options : edit' = Write(poll.single, poll.changeable, {o})
        BY <3>3
      <4>2. {o} \in SUBSET Options
        BY <2>1
      <4> QED
        BY <2>1, <4>1, <4>2
    <3>4. CASE edit' = Write(poll.single, poll.changeable, Options)
      BY <2>1, <3>4
    <3> QED
      BY <1>1, <3>1, <3>2, <3>3, <3>4 DEF EditReads, DeleteReads
  <2>3. UNCHANGED <<votes, count, req, poll>>
    BY <1>1 DEF EditReads, DeleteReads
  <2> QED
    BY <2>w, <2>2, <2>3 DEF IInv, TypeInv
<1>2. CASE Closes
  BY <1>2 DEF IInv, TypeInv, Closes
<1>3. CASE EditLost
  BY <1>3 DEF IInv, TypeInv, EditLost
<1> QED
  BY <1>1, <1>2, <1>3

LEMMA QuietKeeps ==
    ASSUME IInv, TypeInv', UNCHANGED <<votes, count, req, poll.options>>
    PROVE  IInv'
<1>1. \A p : (Owns(p) <=> Owns(p)') /\ (Knows(p) <=> Knows(p)')
  BY DEF Owns, Knows, ChoiceOf
<1>2. Owned' /\ Separate'
  BY <1>1 DEF IInv, Owned, Separate, Apart, InFlight
<1>3. CountsMatchVotes'
  BY DEF IInv, CountsMatchVotes, Voters
<1> QED
  BY <1>2, <1>3 DEF IInv

(* The author waits for whoever owns a vote of the option.                 *)
LEMMA EditWritesKeeps ==
    ASSUME IInv, EditWrites
    PROVE  IInv'
<1> DEFINE remove == edit.remove
<1>1. /\ remove \subseteq Options /\ edit.single \in BOOLEAN /\ edit.changeable \in BOOLEAN
      /\ req' = req /\ votes' = votes \ (Users \X remove)
      /\ \A r \in Requests : InFlight(r) =>
            remove \cap (req[r].current \cup req[r].gone \cup req[r].put) = {}
  BY DEF IInv, TypeInv, EditWrites, NoEdit, Locked
<1>2. TypeInv' /\ poll'.options = poll.options \ remove
  <2>1. poll' \in [single : BOOLEAN, changeable : BOOLEAN, closed : BOOLEAN,
                   options : SUBSET Options] /\ poll'.options = poll.options \ remove
    BY <1>1 DEF IInv, TypeInv, EditWrites
  <2>2. votes' \subseteq Users \X poll'.options
    BY <1>1, <2>1 DEF IInv, TypeInv
  <2>3. count' \in [Options -> Int]
    BY DEF IInv, TypeInv, EditWrites
  <2> QED
    BY <1>1, <2>1, <2>2, <2>3 DEF IInv, TypeInv, EditWrites
<1>3. \A u \in Users : ChoiceOf(u)' = ChoiceOf(u) \ remove
  BY <1>1 DEF ChoiceOf
<1>4. ASSUME NEW r \in Requests, InFlight(r) PROVE Owns(req[r])' /\ Knows(req[r])'
  <2>1. /\ Owns(req[r]) /\ Knows(req[r]) /\ req'[r] = req[r]
        /\ req[r].user \in Users
    BY <1>1, <1>4, FlightType DEF IInv, Owned, Flight
  <2>2. ChoiceOf(req[r].user)' = ChoiceOf(req[r].user) \ remove
    BY <1>3, <2>1
  <2>3. remove \cap (req[r].current \cup req[r].gone \cup req[r].put) = {}
    BY <1>1, <1>4
  <2>4. Owns(req[r])'
    BY <1>1, <1>2, <2>1, <2>2, <2>3 DEF Owns
  <2>5. Knows(req[r])'
    BY <1>1, <2>1, <2>2, <2>3 DEF Knows
  <2> QED
    BY <2>4, <2>5
<1>5. Owned' /\ Separate'
  BY <1>1, <1>4 DEF IInv, Owned, Separate, Apart, InFlight
<1>6. ASSUME NEW o \in Options PROVE count'[o] = Cardinality(Voters(o)')
  <2>1. CASE o \in remove
    <3>1. Voters(o)' = {} /\ count'[o] = 0
      BY <1>1, <2>1 DEF Voters, EditWrites
    <3> QED
      BY <3>1, FS_EmptySet
  <2>2. CASE o \notin remove
    <3>1. Voters(o)' = Voters(o) /\ count'[o] = count[o]
      BY <1>1, <2>2 DEF Voters, EditWrites
    <3> QED
      BY <3>1 DEF IInv, CountsMatchVotes
  <2> QED
    BY <2>1, <2>2
<1>7. CountsMatchVotes'
  BY <1>6 DEF CountsMatchVotes
<1> QED
  BY <1>2, <1>5, <1>7 DEF IInv

-----------------------------------------------------------------------------
LEMMA IInvStep == IInv /\ [Next]_vars => IInv'
<1> SUFFICES ASSUME IInv, [Next]_vars PROVE IInv'
  OBVIOUS
<1>1. ASSUME NEW r \in Requests, NEW u \in Users, NEW choice \in SUBSET Options,
             Begin(r, u, choice)
      PROVE  IInv'
  BY <1>1, BeginKeeps
<1>2. ASSUME NEW r \in Requests, Vote(r) PROVE IInv'
  BY <1>2, LockKeeps, DeleteKeeps, DropKeeps, InsertKeeps, AddKeeps DEF Vote
<1>3. ASSUME NEW r \in Requests, Abort(r) \/ Lost(r) PROVE IInv'
  BY <1>3, EndKeeps DEF Abort, Lost
<1>4. CASE Closes \/ EditReads \/ DeleteReads \/ EditLost
  BY <1>4, EditTypes, QuietKeeps
<1>5. CASE EditWrites
  BY <1>5, EditWritesKeeps
<1>6. CASE UNCHANGED vars
  <2>1. TypeInv' /\ UNCHANGED <<votes, count, req, poll.options>>
    BY <1>6 DEF IInv, TypeInv, vars
  <2> QED
    BY <2>1, QuietKeeps
<1> QED
  BY <1>1, <1>2, <1>3, <1>4, <1>5, <1>6 DEF Next

LEMMA Invariant == Spec => []IInv
BY InitIInv, IInvStep, PTL DEF Spec

(* Every variable keeps its type: no vote names an option that is gone, no *)
(* counter is below zero.                                                  *)
THEOREM TypeCorrect == Spec => []TypeOK
<1>1. IInv => TypeOK
  <2> SUFFICES ASSUME IInv PROVE TypeOK
    OBVIOUS
  <2>1. \A o \in Options : count[o] \in Nat
    BY VotersFinite DEF IInv, CountsMatchVotes
  <2>2. count \in [Options -> Nat]
    BY <2>1 DEF IInv, TypeInv
  <2> QED
    BY <2>2 DEF IInv, TypeInv, TypeOK
<1> QED
  BY <1>1, Invariant, PTL

(* A counter is the number of readers who hold the option, whatever        *)
(* requests cross, deadlock, repeat or are lost beside the author's edits. *)
THEOREM CountersRight == Spec => []CountsMatchVotes
<1>1. IInv => CountsMatchVotes
  BY DEF IInv
<1> QED
  BY <1>1, Invariant, PTL

(* A vote that crosses no other of its reader leaves exactly its choice,   *)
(* or nothing changed, and a final vote stays.                             *)
THEOREM AloneLeavesChoice == Spec => AloneIsExact
<1> DEFINE Exact(r) ==
      InFlight(r) /\ req[r].alone /\ req'[r] = Idle /\ votes' # votes =>
            LET u == req[r].user IN
            /\ {o \in Options : <<u, o>> \in votes'} = req[r].choice
            /\ req[r].changeable \/ ChoiceOf(u) = {}
<1>1. ASSUME IInv, [Next]_vars, NEW r \in Requests PROVE Exact(r)
  <2> SUFFICES ASSUME InFlight(r), req[r].alone, req'[r] = Idle, votes' # votes
               PROVE  Exact(r)
    OBVIOUS
  <2>1. PICK s \in Requests : Add(s)
    <3>1. ~EditWrites
      BY DEF EditWrites, InFlight, Idle
    <3> QED
      BY <1>1, <3>1 DEF Next, vars, Begin, Vote, Lock, Delete, Drop, Insert, Abort, Lost,
                        Closes, EditReads, DeleteReads, EditLost
  <2>2. s = r
    BY <1>1, <2>1 DEF Add, Ends, InFlight, Idle, IInv, TypeInv
  <2>3. Owns(req[r]) /\ Knows(req[r]) /\ req[r].pc = "add" /\ req[r] \in Flight
    BY <1>1, <2>1, <2>2, FlightType DEF IInv, Owned, Add
  <2> DEFINE u == req[r].user
  <2>4. /\ ChoiceOf(u) = req[r].current
        /\ req[r].current = {} \/ req[r].changeable
        /\ req[r].gone = req[r].current \ req[r].choice
        /\ req[r].choice \subseteq req[r].put \cup req[r].current
        /\ req[r].put \subseteq req[r].choice
    BY <2>3 DEF Knows, Owns
  <2>5. votes' = (votes \ ({u} \X req[r].gone)) \cup ({u} \X req[r].put)
    BY <2>1, <2>2 DEF Add
  <2>6. {o \in Options : <<u, o>> \in votes'} = (ChoiceOf(u) \ req[r].gone) \cup req[r].put
    BY <2>3, <2>5 DEF ChoiceOf, Flight
  <2>7. {o \in Options : <<u, o>> \in votes'} = req[r].choice
    BY <2>4, <2>6
  <2> QED
    BY <2>4, <2>7
<1>2. IInv /\ [Next]_vars => [\A r \in Requests : Exact(r)]_vars
  BY <1>1
<1> QED
  BY <1>2, Invariant, PTL DEF Spec, AloneIsExact

=============================================================================
