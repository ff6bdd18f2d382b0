---------------------------- MODULE SessionProofs -----------------------------
(***************************************************************************)
(* Proofs about Session, for any number of requests and any bounds.        *)
(*                                                                         *)
(* The argument: a refresh token is current, or it is the one before and   *)
(* still within its grace.  A session that is due with the current token   *)
(* (Due) has in flight only requests that read it, so one rotation later   *)
(* they all hold the token before, and nothing rotates again until one of  *)
(* them has saved the new one.  A preference written back over another     *)
(* record ends the argument, but not the types.                            *)
(***************************************************************************)
EXTENDS Session, TLAPS

Reading == {"claim", "wait", "refresh"}
Writing == {"answered", "save"}

Over == oauth.ended \/ oauth.banned
Due == store.token = oauth.current /\ ~store.fresh

(* Everyone in flight read the current token, and none has refreshed it.   *)
AllHoldCurrent ==
    \A r \in Requests :
        /\ req[r].pc \in Reading => req[r].session.token = oauth.current
        /\ req[r].pc \notin Writing

(* What a request holds: the record it read, or the newest token.          *)
Held(r) ==
    /\ req[r].pc \in Reading =>
        /\ req[r].session.token =< oauth.current
        /\ req[r].session.token = oauth.current =>
               Over \/ (AllHoldCurrent /\ (Due \/ store.token = 0))
    /\ req[r].pc \in Writing =>
        req[r].session = [token |-> oauth.current, fresh |-> TRUE]
    /\ req[r].pc = "delete" => Over

Record ==
    /\ store.token =< oauth.current
    /\ store.fresh => store.token = oauth.current
    /\ store.token = 0 => Over \/ logout = "out"
    /\ Due => AllHoldCurrent

Undisturbed == ~oauth.banned /\ logout = "none" /\ losses = 0

(* A token that is not current is answered again: the rotation was slow,   *)
(* or the request was in flight then.                                      *)
Answered(r) ==
    req[r].pc \in Reading =>
        \/ req[r].session.token = oauth.current
        \/ /\ req[r].session.token + 1 = oauth.current /\ oauth.grace
           /\ oauth.slow \/ r \in oauth.during

Saving == \E w \in oauth.during : req[w].pc \in Writing

Kept ==
    /\ ~oauth.ended
    /\ \A r \in Requests : Answered(r)
    /\ \/ store.token = oauth.current
       \/ store.token + 1 = oauth.current /\ oauth.grace /\ (oauth.slow \/ Saving)

Tracked ==
    /\ Record
    /\ \A r \in Requests : Held(r)
    /\ Undisturbed => Kept

IInv == TypeOK /\ Tracked

(* A preference is a copy of the record, read and written back.            *)
LEMMA StanceTypes ==
    ASSUME TypeOK, Stance
    PROVE  /\ store' \in TokenOrNone
           /\ stance' \in [copy : TokenOrNone, overwrote : BOOLEAN, writes : Nat]
           /\ stance.overwrote => stance'.overwrote
           /\ ~stance'.overwrote => store' = store
<1> DEFINE S == [copy : TokenOrNone, overwrote : BOOLEAN, writes : Nat]
<1>1. stance \in S /\ store \in TokenOrNone /\ NoSession \in TokenOrNone
  BY DEF TypeOK, TokenOrNone, NoSession
<1>2. CASE StanceReads
  <2>1. stance' = [copy |-> store, overwrote |-> stance.overwrote,
                   writes |-> stance.writes + 1]
    BY <1>1, <1>2 DEF StanceReads
  <2> QED
    BY <1>1, <1>2, <2>1 DEF StanceReads
<1>3. CASE StanceSets
  <2>1. store' \in TokenOrNone
    BY <1>1, <1>3 DEF StanceSets, TokenOrNone
  <2>2. stance' = [copy |-> NoSession, writes |-> stance.writes,
                   overwrote |-> stance.overwrote \/ store' # store]
    BY <1>1, <1>3 DEF StanceSets
  <2>3. (stance.overwrote \/ store' # store) \in BOOLEAN
    BY <1>1
  <2> QED
    BY <1>1, <2>1, <2>2, <2>3
<1> QED
  BY <1>2, <1>3 DEF Stance

(* Every step keeps the types, preferences or not.                         *)
LEMMA TypeKeeps ==
    ASSUME TypeOK, [Next]_vars
    PROVE  TypeOK'
<1> USE SessionBoundsOK DEF TypeOK, TokenOrNone, InFlight, NoSession, Idle
<1>1. CASE BecomesDue
  BY <1>1 DEF BecomesDue
<1>2. CASE Expires
  BY <1>2 DEF Expires
<1>3. CASE GraceEnds
  BY <1>3 DEF GraceEnds
<1>4. CASE LockExpires
  BY <1>4 DEF LockExpires
<1>5. ASSUME NEW r \in Requests, Arrive(r) PROVE TypeOK'
  BY <1>5 DEF Arrive
<1>6. ASSUME NEW r \in Requests, Claim(r) PROVE TypeOK'
  BY <1>6 DEF Claim
<1>7. ASSUME NEW r \in Requests, Poll(r) PROVE TypeOK'
  BY <1>7 DEF Poll, Ends, Renewed
<1>8. ASSUME NEW r \in Requests, WaitEnds(r) PROVE TypeOK'
  BY <1>8 DEF WaitEnds, Ends
<1>9. ASSUME NEW r \in Requests, AnswerAgain(r) PROVE TypeOK'
  BY <1>9 DEF AnswerAgain, Replayed
<1>10. ASSUME NEW r \in Requests, Refuse(r) PROVE TypeOK'
  BY <1>10, ZenonT(40) DEF Refuse, Refused, Replayed
<1>11. ASSUME NEW r \in Requests, RefreshFails(r) PROVE TypeOK'
  BY <1>11 DEF RefreshFails, Transient
<1>12. ASSUME NEW r \in Requests, AnswerLost(r) PROVE TypeOK'
  BY <1>12 DEF AnswerLost, Transient
<1>13. ASSUME NEW r \in Requests, UserInfo(r) PROVE TypeOK'
  BY <1>13 DEF UserInfo
<1>14. ASSUME NEW r \in Requests, Save(r) PROVE TypeOK'
  BY <1>14 DEF Save
<1>15. ASSUME NEW r \in Requests, Delete(r) PROVE TypeOK'
  BY <1>15 DEF Delete
<1>16. ASSUME NEW r \in Requests, Unlock(r) PROVE TypeOK'
  BY <1>16 DEF Unlock, Ends
<1>17. CASE Restart
  <2>1. stance' = [copy |-> NoSession, overwrote |-> stance.overwrote,
                   writes |-> stance.writes]
    BY <1>17 DEF Restart
  <2>2. stance' \in [copy : TokenOrNone, overwrote : BOOLEAN, writes : Nat]
    BY <2>1
  <2> QED
    BY <1>17, <2>2, SMTT(30) DEF Restart
<1>18. CASE Ban
  BY <1>18 DEF Ban
<1>19. CASE LogoutReads
  BY <1>19 DEF LogoutReads
<1>20. CASE LogoutRevokes
  BY <1>20 DEF LogoutRevokes
<1>21. CASE LogoutDeletes
  BY <1>21 DEF LogoutDeletes
<1>22. ASSUME NEW r \in Requests, NEW slow \in BOOLEAN, Rotate(r, slow) PROVE TypeOK'
  <2> DEFINE D == {q \in Requests : InFlight(q)}
  <2>0. D \in SUBSET Requests /\ oauth.current + 1 \in Nat \ {0}
    BY <1>22 DEF Rotate
  <2>1. oauth' \in [current : Nat \ {0}, grace : BOOLEAN, slow : BOOLEAN,
                    ended : BOOLEAN, banned : BOOLEAN, during : SUBSET Requests]
    <3>1. oauth' = [current |-> oauth.current + 1, grace |-> TRUE, slow |-> slow,
                    ended |-> oauth.ended, banned |-> oauth.banned, during |-> D]
      BY <1>22 DEF Rotate
    <3> HIDE DEF D
    <3> QED
      BY <3>1, <2>0
  <2>2. \A q \in oauth'.during : q \in Requests /\ req'[q].pc # "idle"
    BY <1>22 DEF Rotate
  <2> QED
    BY <1>22, <2>1, <2>2 DEF Rotate
<1>23. CASE Stance
  <2>1. /\ store' \in TokenOrNone
        /\ stance' \in [copy : TokenOrNone, overwrote : BOOLEAN, writes : Nat]
    BY <1>23, StanceTypes
  <2> QED
    BY <1>23, <2>1 DEF Stance, StanceReads, StanceSets
<1>24. CASE UNCHANGED vars
  BY <1>24 DEF vars
<1> QED
  BY <1>1, <1>2, <1>3, <1>4, <1>5, <1>6, <1>7, <1>8, <1>9, <1>10,
     <1>11, <1>12, <1>13, <1>14, <1>15, <1>16, <1>17, <1>18,
     <1>19, <1>20, <1>21, <1>22, <1>23, <1>24
     DEF Next, Refresh, RequestFails, Time, Logout

(* A session becomes due when no request is in flight. *)
LEMMA BecomesDueKeeps ==
    ASSUME IInv, BecomesDue
    PROVE  Tracked'
<1> USE SessionBoundsOK
    DEF IInv, Tracked, TypeOK, TokenOrNone, InFlight, NoSession, Idle, Over, BecomesDue
<1>1. Record'
  BY DEF Record, Held, Due, AllHoldCurrent, Reading, Writing
<1>2. ASSUME NEW q \in Requests PROVE Held(q)'
  BY DEF Held, Record, Due, AllHoldCurrent, Reading, Writing
<1>3. ASSUME Undisturbed' PROVE Kept'
  BY <1>3 DEF Undisturbed, Kept, Answered, Saving, Held, Record, Due, AllHoldCurrent,
         Reading, Writing, Replayed
<1> QED
  BY <1>1, <1>2, <1>3

(* Expiry of the access token is no part of the argument. *)
LEMMA ExpiresKeeps ==
    ASSUME IInv, Expires
    PROVE  Tracked'
<1> USE SessionBoundsOK
    DEF IInv, Tracked, TypeOK, TokenOrNone, InFlight, NoSession, Idle, Over, Expires
<1>1. Record'
  BY DEF Record, Held, Due, AllHoldCurrent, Reading, Writing
<1>2. ASSUME NEW q \in Requests PROVE Held(q)'
  BY DEF Held, Record, Due, AllHoldCurrent, Reading, Writing
<1>3. ASSUME Undisturbed' PROVE Kept'
  BY <1>3 DEF Undisturbed, Kept, Answered, Saving, Held, Record, Due, AllHoldCurrent,
         Reading, Writing, Replayed
<1> QED
  BY <1>1, <1>2, <1>3

(* Nobody holds the old token when its grace ends. *)
LEMMA GraceEndsKeeps ==
    ASSUME IInv, GraceEnds
    PROVE  Tracked'
<1> USE SessionBoundsOK
    DEF IInv, Tracked, TypeOK, TokenOrNone, InFlight, NoSession, Idle, Over, GraceEnds
<1>1. Record'
  BY DEF Record, Held, Due, AllHoldCurrent, Reading, Writing
<1>2. ASSUME NEW q \in Requests PROVE Held(q)'
  BY DEF Held, Record, Due, AllHoldCurrent, Reading, Writing
<1>3. ASSUME Undisturbed' PROVE Kept'
  BY <1>3 DEF Undisturbed, Kept, Answered, Saving, Held, Record, Due, AllHoldCurrent,
         Reading, Writing, Replayed
<1> QED
  BY <1>1, <1>2, <1>3

(* The lock is no part of the argument. *)
LEMMA LockExpiresKeeps ==
    ASSUME IInv, LockExpires
    PROVE  Tracked'
<1> USE SessionBoundsOK
    DEF IInv, Tracked, TypeOK, TokenOrNone, InFlight, NoSession, Idle, Over, LockExpires
<1>1. Record'
  BY DEF Record, Held, Due, AllHoldCurrent, Reading, Writing
<1>2. ASSUME NEW q \in Requests PROVE Held(q)'
  BY DEF Held, Record, Due, AllHoldCurrent, Reading, Writing
<1>3. ASSUME Undisturbed' PROVE Kept'
  BY <1>3 DEF Undisturbed, Kept, Answered, Saving, Held, Record, Due, AllHoldCurrent,
         Reading, Writing, Replayed
<1> QED
  BY <1>1, <1>2, <1>3

(* Whoever reads an old token reads it while the new one is being saved. *)
LEMMA ArriveKeeps ==
    ASSUME IInv, NEW r \in Requests, Arrive(r)
    PROVE  Tracked'
<1> USE SessionBoundsOK
    DEF IInv, Tracked, TypeOK, TokenOrNone, InFlight, NoSession, Idle, Over, Arrive
<1>1. Record'
  BY DEF Record, Held, Due, AllHoldCurrent, Reading, Writing
<1>2. ASSUME NEW q \in Requests PROVE Held(q)'
  BY DEF Held, Record, Due, AllHoldCurrent, Reading, Writing
<1>3. ASSUME Undisturbed' PROVE Kept'
  BY <1>3 DEF Undisturbed, Kept, Answered, Saving, Held, Record, Due, AllHoldCurrent,
         Reading, Writing, Replayed
<1> QED
  BY <1>1, <1>2, <1>3

(* Claiming the lock changes no token. *)
LEMMA ClaimKeeps ==
    ASSUME IInv, NEW r \in Requests, Claim(r)
    PROVE  Tracked'
<1> USE SessionBoundsOK
    DEF IInv, Tracked, TypeOK, TokenOrNone, InFlight, NoSession, Idle, Over, Claim
<1>1. Record'
  BY DEF Record, Held, Due, AllHoldCurrent, Reading, Writing
<1>2. ASSUME NEW q \in Requests PROVE Held(q)'
  BY ZenonT(40) DEF Held, Record, Due, AllHoldCurrent, Reading, Writing
<1>3. ASSUME Undisturbed' PROVE Kept'
  BY <1>3 DEF Undisturbed, Kept, Answered, Saving, Held, Record, Due, AllHoldCurrent,
         Reading, Writing, Replayed
<1> QED
  BY <1>1, <1>2, <1>3

(* A request that waited writes nothing. *)
LEMMA PollKeeps ==
    ASSUME IInv, NEW r \in Requests, Poll(r)
    PROVE  Tracked'
<1> USE SessionBoundsOK
    DEF IInv, Tracked, TypeOK, TokenOrNone, InFlight, NoSession, Idle, Over, Poll, Ends, Renewed
<1>1. Record'
  BY DEF Record, Held, Due, AllHoldCurrent, Reading, Writing
<1>2. ASSUME NEW q \in Requests PROVE Held(q)'
  BY DEF Held, Record, Due, AllHoldCurrent, Reading, Writing
<1>3. ASSUME Undisturbed' PROVE Kept'
  BY <1>3 DEF Undisturbed, Kept, Answered, Saving, Held, Record, Due, AllHoldCurrent,
         Reading, Writing, Replayed
<1> QED
  BY <1>1, <1>2, <1>3

(* Nor does one that gives up waiting. *)
LEMMA WaitEndsKeeps ==
    ASSUME IInv, NEW r \in Requests, WaitEnds(r)
    PROVE  Tracked'
<1> USE SessionBoundsOK
    DEF IInv, Tracked, TypeOK, TokenOrNone, InFlight, NoSession, Idle, Over, WaitEnds, Ends
<1>1. Record'
  BY DEF Record, Held, Due, AllHoldCurrent, Reading, Writing
<1>2. ASSUME NEW q \in Requests PROVE Held(q)'
  BY DEF Held, Record, Due, AllHoldCurrent, Reading, Writing
<1>3. ASSUME Undisturbed' PROVE Kept'
  BY <1>3 DEF Undisturbed, Kept, Answered, Saving, Held, Record, Due, AllHoldCurrent,
         Reading, Writing, Replayed
<1> QED
  BY <1>1, <1>2, <1>3

(* A second answer carries the current token. *)
LEMMA AnswerAgainKeeps ==
    ASSUME IInv, NEW r \in Requests, AnswerAgain(r)
    PROVE  Tracked'
<1> USE SessionBoundsOK
    DEF IInv, Tracked, TypeOK, TokenOrNone, InFlight, NoSession, Idle, Over, AnswerAgain, Replayed
<1>1. Record'
  BY DEF Record, Held, Due, AllHoldCurrent, Reading, Writing
<1>2. ASSUME NEW q \in Requests PROVE Held(q)'
  <2>1. Held(r) /\ Held(q)
    OBVIOUS
  <2> QED
    BY <2>1 DEF Held, Record, Due, AllHoldCurrent, Reading, Writing
<1>3. ASSUME Undisturbed' PROVE Kept'
  BY <1>3 DEF Undisturbed, Kept, Answered, Saving, Held, Record, Due, AllHoldCurrent,
         Reading, Writing, Replayed
<1> QED
  BY <1>1, <1>2, <1>3

(* No token is refused that an undisturbed request can hold. *)
LEMMA RefuseKeeps ==
    ASSUME IInv, NEW r \in Requests, Refuse(r)
    PROVE  Tracked'
<1> USE SessionBoundsOK
    DEF IInv, Tracked, TypeOK, TokenOrNone, InFlight, NoSession, Idle, Over, Refuse, Refused, Replayed
<1>1. Record'
  BY DEF Record, Held, Due, AllHoldCurrent, Reading, Writing
<1>2. ASSUME NEW q \in Requests PROVE Held(q)'
  BY ZenonT(40) DEF Held, Record, Due, AllHoldCurrent, Reading, Writing
<1>3. ASSUME Undisturbed' PROVE Kept'
  BY <1>3 DEF Undisturbed, Kept, Answered, Saving, Held, Record, Due, AllHoldCurrent,
         Reading, Writing, Replayed
<1> QED
  BY <1>1, <1>2, <1>3

(* An answer that is lost to a timeout comes of a slow rotation. *)
LEMMA RefreshFailsKeeps ==
    ASSUME IInv, NEW r \in Requests, RefreshFails(r)
    PROVE  Tracked'
<1> USE SessionBoundsOK
    DEF IInv, Tracked, TypeOK, TokenOrNone, InFlight, NoSession, Idle, Over, RefreshFails, Transient
<1>1. Record'
  BY DEF Record, Held, Due, AllHoldCurrent, Reading, Writing
<1>2. ASSUME NEW q \in Requests PROVE Held(q)'
  BY ZenonT(40) DEF Held, Record, Due, AllHoldCurrent, Reading, Writing
<1>3. ASSUME Undisturbed' PROVE Kept'
  BY <1>3 DEF Undisturbed, Kept, Answered, Saving, Held, Record, Due, AllHoldCurrent,
         Reading, Writing, Replayed
<1> QED
  BY <1>1, <1>2, <1>3

(* A lost answer is a disturbance. *)
LEMMA AnswerLostKeeps ==
    ASSUME IInv, NEW r \in Requests, AnswerLost(r)
    PROVE  Tracked'
<1> USE SessionBoundsOK
    DEF IInv, Tracked, TypeOK, TokenOrNone, InFlight, NoSession, Idle, Over, AnswerLost, Transient
<1>1. Record'
  BY DEF Record, Held, Due, AllHoldCurrent, Reading, Writing
<1>2. ASSUME NEW q \in Requests PROVE Held(q)'
  BY DEF Held, Record, Due, AllHoldCurrent, Reading, Writing
<1>3. ASSUME Undisturbed' PROVE Kept'
  BY <1>3 DEF Undisturbed, Kept, Answered, Saving, Held, Record, Due, AllHoldCurrent,
         Reading, Writing, Replayed
<1> QED
  BY <1>1, <1>2, <1>3

(* Roles are fetched, or a banned account found. *)
LEMMA UserInfoKeeps ==
    ASSUME IInv, NEW r \in Requests, UserInfo(r)
    PROVE  Tracked'
<1> USE SessionBoundsOK
    DEF IInv, Tracked, TypeOK, TokenOrNone, InFlight, NoSession, Idle, Over, UserInfo
<1>1. Record'
  BY DEF Record, Held, Due, AllHoldCurrent, Reading, Writing
<1>2. ASSUME NEW q \in Requests PROVE Held(q)'
  BY ZenonT(40) DEF Held, Record, Due, AllHoldCurrent, Reading, Writing
<1>3. ASSUME Undisturbed' PROVE Kept'
  BY <1>3 DEF Undisturbed, Kept, Answered, Saving, Held, Record, Due, AllHoldCurrent,
         Reading, Writing, Replayed
<1> QED
  BY <1>1, <1>2, <1>3

(* What is saved is current. *)
LEMMA SaveKeeps ==
    ASSUME IInv, NEW r \in Requests, Save(r)
    PROVE  Tracked'
<1> USE SessionBoundsOK
    DEF IInv, Tracked, TypeOK, TokenOrNone, InFlight, NoSession, Idle, Over, Save
<1>1. Record'
  BY DEF Record, Held, Due, AllHoldCurrent, Reading, Writing
<1>2. ASSUME NEW q \in Requests PROVE Held(q)'
  <2>1. Held(r) /\ Held(q)
    OBVIOUS
  <2> QED
    BY <2>1 DEF Held, Record, Due, AllHoldCurrent, Reading, Writing
<1>3. ASSUME Undisturbed' PROVE Kept'
  BY <1>3 DEF Undisturbed, Kept, Answered, Saving, Held, Record, Due, AllHoldCurrent,
         Reading, Writing, Replayed
<1> QED
  BY <1>1, <1>2, <1>3

(* A session is deleted for a reason. *)
LEMMA DeleteKeeps ==
    ASSUME IInv, NEW r \in Requests, Delete(r)
    PROVE  Tracked'
<1> USE SessionBoundsOK
    DEF IInv, Tracked, TypeOK, TokenOrNone, InFlight, NoSession, Idle, Over, Delete
<1>1. Record'
  BY DEF Record, Held, Due, AllHoldCurrent, Reading, Writing
<1>2. ASSUME NEW q \in Requests PROVE Held(q)'
  BY ZenonT(40) DEF Held, Record, Due, AllHoldCurrent, Reading, Writing
<1>3. ASSUME Undisturbed' PROVE Kept'
  BY <1>3 DEF Undisturbed, Kept, Answered, Saving, Held, Record, Due, AllHoldCurrent,
         Reading, Writing, Replayed
<1> QED
  BY <1>1, <1>2, <1>3

(* A request that unlocks has saved or failed. *)
LEMMA UnlockKeeps ==
    ASSUME IInv, NEW r \in Requests, Unlock(r)
    PROVE  Tracked'
<1> USE SessionBoundsOK
    DEF IInv, Tracked, TypeOK, TokenOrNone, InFlight, NoSession, Idle, Over, Unlock, Ends
<1>1. Record'
  BY DEF Record, Held, Due, AllHoldCurrent, Reading, Writing
<1>2. ASSUME NEW q \in Requests PROVE Held(q)'
  BY DEF Held, Record, Due, AllHoldCurrent, Reading, Writing
<1>3. ASSUME Undisturbed' PROVE Kept'
  BY <1>3 DEF Undisturbed, Kept, Answered, Saving, Held, Record, Due, AllHoldCurrent,
         Reading, Writing, Replayed
<1> QED
  BY <1>1, <1>2, <1>3

(* A restart is a disturbance. *)
LEMMA RestartKeeps ==
    ASSUME IInv, Restart
    PROVE  Tracked'
<1> USE SessionBoundsOK
    DEF IInv, Tracked, TypeOK, TokenOrNone, InFlight, NoSession, Idle, Over, Restart
<1>1. Record'
  BY DEF Record, Held, Due, AllHoldCurrent, Reading, Writing
<1>2. ASSUME NEW q \in Requests PROVE Held(q)'
  BY DEF Held, Record, Due, AllHoldCurrent, Reading, Writing
<1>3. ASSUME Undisturbed' PROVE Kept'
  BY <1>3 DEF Undisturbed, Kept, Answered, Saving, Held, Record, Due, AllHoldCurrent,
         Reading, Writing, Replayed
<1> QED
  BY <1>1, <1>2, <1>3

(* A ban is a disturbance. *)
LEMMA BanKeeps ==
    ASSUME IInv, Ban
    PROVE  Tracked'
<1> USE SessionBoundsOK
    DEF IInv, Tracked, TypeOK, TokenOrNone, InFlight, NoSession, Idle, Over, Ban
<1>1. Record'
  BY DEF Record, Held, Due, AllHoldCurrent, Reading, Writing
<1>2. ASSUME NEW q \in Requests PROVE Held(q)'
  BY DEF Held, Record, Due, AllHoldCurrent, Reading, Writing
<1>3. ASSUME Undisturbed' PROVE Kept'
  BY <1>3 DEF Undisturbed, Kept, Answered, Saving, Held, Record, Due, AllHoldCurrent,
         Reading, Writing, Replayed
<1> QED
  BY <1>1, <1>2, <1>3

(* So is logging out. *)
LEMMA LogoutReadsKeeps ==
    ASSUME IInv, LogoutReads
    PROVE  Tracked'
<1> USE SessionBoundsOK
    DEF IInv, Tracked, TypeOK, TokenOrNone, InFlight, NoSession, Idle, Over, LogoutReads
<1>1. Record'
  BY DEF Record, Held, Due, AllHoldCurrent, Reading, Writing
<1>2. ASSUME NEW q \in Requests PROVE Held(q)'
  BY DEF Held, Record, Due, AllHoldCurrent, Reading, Writing
<1>3. ASSUME Undisturbed' PROVE Kept'
  BY <1>3 DEF Undisturbed, Kept, Answered, Saving, Held, Record, Due, AllHoldCurrent,
         Reading, Writing, Replayed
<1> QED
  BY <1>1, <1>2, <1>3

(* Revoking ends the session, or does not. *)
LEMMA LogoutRevokesKeeps ==
    ASSUME IInv, LogoutRevokes
    PROVE  Tracked'
<1> USE SessionBoundsOK
    DEF IInv, Tracked, TypeOK, TokenOrNone, InFlight, NoSession, Idle, Over, LogoutRevokes
<1>1. Record'
  BY DEF Record, Held, Due, AllHoldCurrent, Reading, Writing
<1>2. ASSUME NEW q \in Requests PROVE Held(q)'
  BY DEF Held, Record, Due, AllHoldCurrent, Reading, Writing
<1>3. ASSUME Undisturbed' PROVE Kept'
  BY <1>3 DEF Undisturbed, Kept, Answered, Saving, Held, Record, Due, AllHoldCurrent,
         Reading, Writing, Replayed
<1> QED
  BY <1>1, <1>2, <1>3

(* A session that was deleted is nobody's to find. *)
LEMMA LogoutDeletesKeeps ==
    ASSUME IInv, LogoutDeletes
    PROVE  Tracked'
<1> USE SessionBoundsOK
    DEF IInv, Tracked, TypeOK, TokenOrNone, InFlight, NoSession, Idle, Over, LogoutDeletes
<1>1. Record'
  BY DEF Record, Held, Due, AllHoldCurrent, Reading, Writing
<1>2. ASSUME NEW q \in Requests PROVE Held(q)'
  BY DEF Held, Record, Due, AllHoldCurrent, Reading, Writing
<1>3. ASSUME Undisturbed' PROVE Kept'
  BY <1>3 DEF Undisturbed, Kept, Answered, Saving, Held, Record, Due, AllHoldCurrent,
         Reading, Writing, Replayed
<1> QED
  BY <1>1, <1>2, <1>3

(* A rotation leaves everyone else with the token before, in its grace.    *)
LEMMA RotateKeeps ==
    ASSUME IInv, NEW r \in Requests, NEW slow \in BOOLEAN,
           Rotate(r, slow)
    PROVE  Tracked'
<1> USE SessionBoundsOK
    DEF IInv, Tracked, TypeOK, TokenOrNone, InFlight, NoSession, Idle, Over, Rotate
<1>1. AllHoldCurrent /\ (Due \/ store.token = 0)
  BY DEF Held, Reading
<1>2. Record'
  BY <1>1 DEF Record, Due, AllHoldCurrent, Writing
<1>3. ASSUME NEW q \in Requests PROVE Held(q)'
  <2>1. Held(q)
    OBVIOUS
  <2> QED
    BY <1>1, <2>1 DEF Held, Record, Due, AllHoldCurrent, Reading, Writing
<1>4. ASSUME Undisturbed' PROVE Kept'
  <2>1. ASSUME NEW q \in Requests PROVE Answered(q)'
    BY <1>1 DEF Answered, AllHoldCurrent, Reading
  <2>2. r \in oauth'.during /\ req'[r].pc \in Writing
    BY DEF Writing
  <2>3. store'.token + 1 = oauth'.current /\ oauth'.grace /\ Saving'
    BY <1>1, <1>4, <2>2 DEF Due, Saving, Undisturbed, Record
  <2> QED
    BY <1>4, <2>1, <2>3 DEF Kept
<1> QED
  BY <1>2, <1>3, <1>4

(* Every step keeps the invariant, as long as a preference is written back *)
(* over the record it was read from.                                       *)
LEMMA StepKeepsIInv ==
    ASSUME IInv, [Next]_vars, ~stance'.overwrote
    PROVE  Tracked'
<1>1. CASE \E r \in Requests : Arrive(r) \/ Claim(r) \/ Poll(r)
  BY <1>1, ArriveKeeps, ClaimKeeps, PollKeeps
<1>2. CASE \E r \in Requests : Refresh(r)
  <2>1. PICK r \in Requests : Refresh(r)
    BY <1>2
  <2>2. CASE Rotate(r, FALSE) \/ Rotate(r, TRUE)
    BY <2>2, RotateKeeps
  <2>3. CASE AnswerAgain(r) \/ Refuse(r) \/ UserInfo(r)
    BY <2>3, AnswerAgainKeeps, RefuseKeeps, UserInfoKeeps
  <2>4. CASE Save(r) \/ Delete(r) \/ Unlock(r)
    BY <2>4, SaveKeeps, DeleteKeeps, UnlockKeeps
  <2> QED
    BY <2>1, <2>2, <2>3, <2>4 DEF Refresh
<1>3. CASE \E r \in Requests : RequestFails(r)
  BY <1>3, WaitEndsKeeps, RefreshFailsKeeps, AnswerLostKeeps DEF RequestFails
<1>4. CASE Time
  BY <1>4, BecomesDueKeeps, ExpiresKeeps, GraceEndsKeeps, LockExpiresKeeps DEF Time
<1>5. CASE Restart \/ Ban
  BY <1>5, RestartKeeps, BanKeeps
<1>6. CASE Logout
  BY <1>6, LogoutReadsKeeps, LogoutRevokesKeeps, LogoutDeletesKeeps DEF Logout
<1>7. CASE Stance
  <2>1. UNCHANGED <<store, oauth, req, logout, losses>>
    BY <1>7, StanceTypes DEF Stance, StanceReads, StanceSets, IInv
  <2> QED
    BY <2>1 DEF IInv, Tracked, InFlight, Over, Record, Due, AllHoldCurrent, Held, Undisturbed,
           Kept, Answered, Saving
<1>8. CASE UNCHANGED vars
  BY <1>8 DEF vars, IInv, Tracked, TypeOK, TokenOrNone, InFlight, Over, Record, Due,
         AllHoldCurrent, Held, Undisturbed,
         Kept, Answered, Saving
<1> QED
  BY <1>1, <1>2, <1>3, <1>4, <1>5, <1>6, <1>7, <1>8 DEF Next

(* A record that was overwritten stays so in the history of the session.   *)
LEMMA OnceOverwritten ==
    ASSUME TypeOK, [Next]_vars, stance.overwrote
    PROVE  stance'.overwrote
<1>1. UNCHANGED stance \/ stance' = [stance EXCEPT !.copy = NoSession] \/ Stance
  BY DEF Next, Refresh, RequestFails, Time, Restart, Ban, vars, Arrive, Claim, Poll,
         WaitEnds, Rotate, AnswerAgain, Refuse, UserInfo, Save, Delete, Unlock, RefreshFails,
         AnswerLost, BecomesDue, Expires, GraceEnds, LockExpires, Logout, LogoutReads,
         LogoutRevokes, LogoutDeletes
<1> QED
  BY <1>1, StanceTypes DEF TypeOK

(* The types hold of every reachable state, and the invariant as long as   *)
(* no preference has overwritten a refresh.                                *)
THEOREM IInvHolds ==
    Spec => [](TypeOK /\ (stance.overwrote \/ IInv))
<1>1. Init => IInv
  <2>1. SUFFICES ASSUME Init PROVE IInv
    OBVIOUS
  <2>2. Idle \in [pc : {"idle", "claim", "wait", "refresh", "answered", "save",
                      "delete", "unlock"},
                session : TokenOrNone]
    BY DEF Idle, NoSession, TokenOrNone
  <2>3. TypeOK
    <3>1. req \in [Requests -> [pc : {"idle", "claim", "wait", "refresh", "answered",
                                    "save", "delete", "unlock"},
                              session : TokenOrNone]]
      BY <2>1, <2>2 DEF Init
    <3>2. oauth \in [current : Nat \ {0}, grace : BOOLEAN, slow : BOOLEAN,
                     ended : BOOLEAN, banned : BOOLEAN, during : SUBSET Requests]
      BY <2>1 DEF Init
    <3> QED
      BY <2>1, <3>1, <3>2 DEF Init, TypeOK, TokenOrNone, NoSession
  <2>4. \A r \in Requests : Held(r) /\ Answered(r)
    BY <2>1 DEF Init, Idle, Held, Answered, AllHoldCurrent, Reading, Writing
  <2> QED
    BY <2>1, <2>3, <2>4 DEF Init, IInv, Tracked, Record, Undisturbed, Kept, NoSession, Due
<1>2. IInv => TypeOK
  BY DEF IInv
<1>3. TypeOK /\ (stance.overwrote \/ IInv) /\ [Next]_vars
        => (TypeOK /\ (stance.overwrote \/ IInv))'
  BY TypeKeeps, OnceOverwritten, StepKeepsIInv DEF IInv
<1> QED
  BY <1>1, <1>2, <1>3, PTL DEF Spec

(* However many requests find a session due, and whatever calls fail, a    *)
(* user is logged out only by logging out, by a ban, or after an answer    *)
(* was lost or a preference overwrote a refresh.                           *)
THEOREM NobodyThrownOut ==
    Spec => []NobodyIsThrownOut
<1>1. stance.overwrote \/ IInv => NobodyIsThrownOut
  BY DEF IInv, Tracked, TypeOK, Record, Over, Kept, Undisturbed, NobodyIsThrownOut
<1> QED
  BY <1>1, IInvHolds, PTL

(* Every variable keeps its type.                                          *)
THEOREM TypeCorrect ==
    Spec => []TypeOK
  BY IInvHolds, PTL

(* No step writes an older refresh token over a newer one, unless a        *)
(* preference is written back.                                             *)
THEOREM TokenNeverBack ==
    Spec => TokenNeverGoesBack
<1>1. ASSUME TypeOK, stance.overwrote \/ IInv, [Next]_vars,
             store.token # 0, store'.token # 0, ~stance'.overwrote
      PROVE  store'.token >= store.token
  <2>1. IInv
    BY <1>1, OnceOverwritten
  <2>2. UNCHANGED store \/ BecomesDue \/ Logout \/ Stance
           \/ \E r \in Requests : Poll(r) \/ Save(r) \/ Delete(r)
    BY <1>1 DEF Next, Refresh, RequestFails, Time, Restart, Ban, vars, Arrive, Claim,
           WaitEnds, Rotate, AnswerAgain, Refuse, UserInfo, Unlock, RefreshFails,
           AnswerLost, Expires, GraceEnds, LockExpires
  <2>3. CASE UNCHANGED store \/ BecomesDue \/ Logout \/ Stance
    BY <1>1, <2>3, StanceTypes DEF BecomesDue, Logout, LogoutReads, LogoutRevokes,
           LogoutDeletes, NoSession, TypeOK, TokenOrNone
  <2>4. ASSUME NEW r \in Requests, Poll(r) \/ Save(r) \/ Delete(r)
        PROVE  store'.token >= store.token
    BY <1>1, <2>1, <2>4 DEF Poll, Renewed, Save, Delete, NoSession, IInv, Tracked, Record, TypeOK,
           TokenOrNone, Held, Writing
  <2> QED
    BY <2>2, <2>3, <2>4
<1>2. TypeOK /\ (stance.overwrote \/ IInv) /\ [Next]_vars
        => [store.token # 0 /\ store'.token # 0 /\ ~stance'.overwrote =>
               store'.token >= store.token]_store
  BY <1>1
<1> QED
  BY <1>2, IInvHolds, PTL DEF Spec, TokenNeverGoesBack

=============================================================================
