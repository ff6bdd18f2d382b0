------------------------------- MODULE Session --------------------------------
(***************************************************************************)
(* One browser session of the forum: the record Redis keeps of it, and the *)
(* requests that find its access token due and refresh it with a refresh   *)
(* token that may be used once.  One request takes a lock of fifteen       *)
(* seconds and asks the account service, the others poll the record.       *)
(*                                                                         *)
(* The account service is external and modelled from what the forum's      *)
(* integration guide says of it (docs/oauth/oauth-integration-guide.md,    *)
(* 4.5): the previous refresh token is answered with the current one for   *)
(* two minutes, or until the next rotation if the rotation was slow; any   *)
(* other old token is taken for stolen and ends the session.               *)
(*                                                                         *)
(* Refresh tokens are numbered.  An access token is fresh, then due (30    *)
(* seconds to go), then expired.  What the record says of the user, and    *)
(* its sliding expiry of ninety days, are left out.                        *)
(***************************************************************************)
EXTENDS Naturals

CONSTANTS
    Requests,       \* requests in flight at once
    MaxRotations,   \* bound on refresh tokens
    MaxTroubles     \* bound on calls that fail or time out, answers lost to the
                    \* network or a restart, and preferences written

ASSUME SessionBoundsOK == MaxRotations \in Nat /\ MaxTroubles \in Nat

VARIABLES
    store,      \* Redis: the session, token 0 if there is none
    lock,       \* Redis: refresh_lock
    expired,    \* has an access token that is no longer fresh expired?
    oauth,      \* the account service's session
    req,        \* requests: where they are, and their copy of the session
    stance,     \* SetSessionContentStance: its copy, between GET and SET, whether
                \* one has overwritten another record, and how many there were
    logout,     \* Logout: how far it is
    failures, losses

vars == <<store, lock, expired, oauth, req, stance, logout, failures, losses>>

NoSession == [token |-> 0, fresh |-> FALSE]
Idle == [pc |-> "idle", session |-> NoSession]
InFlight(r) == req[r].pc # "idle"

Trouble == failures + losses + stance.writes < MaxTroubles

(* grace: is the previous token still answered?  slow: until the next      *)
(* rotation?  during: requests that may still hold it, because they were   *)
(* in flight at the rotation or read the record before it was saved.       *)
Init ==
    /\ store = [token |-> 1, fresh |-> TRUE]
    /\ lock = FALSE /\ expired = FALSE
    /\ oauth = [current |-> 1, grace |-> FALSE, slow |-> FALSE, ended |-> FALSE,
                banned |-> FALSE, during |-> {}]
    /\ req = [r \in Requests |-> Idle]
    /\ stance = [copy |-> NoSession, overwrote |-> FALSE, writes |-> 0] /\ logout = "none"
    /\ failures = 0 /\ losses = 0

(* Fault: a request that is over is still waited for.                      *)
EndsUnseen(r) == req' = [req EXCEPT ![r] = Idle] /\ UNCHANGED oauth

(* A request is over: what it answers is seen from its last step.          *)
Ends(r) ==
    /\ req' = [req EXCEPT ![r] = Idle]
    /\ oauth' = [oauth EXCEPT !.during = @ \ {r}]

-----------------------------------------------------------------------------
(* Time.  A request is over long before an access token of fifteen minutes *)
(* is due, and within the two minutes of grace.                            *)

BecomesDue ==
    /\ store.fresh /\ oauth.current < MaxRotations
    /\ \A r \in Requests : ~InFlight(r)
    /\ store' = [store EXCEPT !.fresh = FALSE]
    /\ expired' = FALSE
    /\ UNCHANGED <<lock, oauth, req, stance, logout, failures, losses>>

Expires ==
    /\ ~expired /\ expired' = TRUE
    /\ UNCHANGED <<store, lock, oauth, req, stance, logout, failures, losses>>

GraceEnds ==
    /\ oauth.grace /\ ~oauth.slow /\ oauth.during = {} /\ stance.copy = NoSession
    /\ oauth' = [oauth EXCEPT !.grace = FALSE]
    /\ UNCHANGED <<store, lock, expired, req, stance, logout, failures, losses>>

(* Fault: the lock is taken without an expiry.                             *)
LockStays == FALSE /\ UNCHANGED vars

LockExpires ==
    /\ lock /\ lock' = FALSE
    /\ UNCHANGED <<store, expired, oauth, req, stance, logout, failures, losses>>

-----------------------------------------------------------------------------
(* A request *)

(* It reads the session before it asks for the lock.                       *)
Arrive(r) ==
    /\ ~InFlight(r) /\ store.token # 0 /\ ~store.fresh
    /\ req' = [req EXCEPT ![r] = [pc |-> "claim", session |-> store]]
    /\ oauth' = [oauth EXCEPT !.during = IF @ # {} /\ store.token # oauth.current
                                         THEN @ \cup {r} ELSE @]
    /\ UNCHANGED <<store, lock, expired, stance, logout, failures, losses>>

Claim(r) ==
    /\ req[r].pc = "claim"
    /\ lock' = TRUE
    /\ req' = [req EXCEPT ![r].pc = IF lock THEN "wait" ELSE "refresh"]
    /\ UNCHANGED <<store, expired, oauth, stance, logout, failures, losses>>

(* Fault: the expiry slides by writing the request's copy again.           *)
RenewedFromCopy(r) == req[r].session

(* renewSlidingSession moves the expiry of the record and nothing else.    *)
Renewed(r) == store

(* waitForRefresh: the session is gone, or good, or nobody refreshes it.   *)
Poll(r) ==
    /\ req[r].pc = "wait"
    /\ store.token = 0 \/ store.fresh \/ ~expired \/ ~lock
    /\ store' = IF store.token = 0 THEN store ELSE Renewed(r)
    /\ Ends(r)
    /\ UNCHANGED <<lock, expired, stance, logout, failures, losses>>

WaitEnds(r) ==
    /\ req[r].pc = "wait" /\ Trouble
    /\ Ends(r)
    /\ failures' = failures + 1
    /\ UNCHANGED <<store, lock, expired, stance, logout, losses>>

Refused(r) == req' = [req EXCEPT ![r].pc = "delete"]

(* The account service answers a refresh token.                            *)
Rotate(r, slow) ==
    /\ req[r].pc = "refresh" /\ ~oauth.banned /\ ~oauth.ended
    /\ req[r].session.token = oauth.current
    /\ oauth' = [oauth EXCEPT !.current = @ + 1, !.grace = TRUE, !.slow = slow,
                              !.during = {q \in Requests : InFlight(q)}]
    /\ req' = [req EXCEPT ![r] = [pc |-> "answered",
                                  session |-> [token |-> oauth.current + 1, fresh |-> TRUE]]]
    /\ UNCHANGED <<store, lock, expired, stance, logout, failures, losses>>

Replayed(token) == oauth.grace /\ token + 1 = oauth.current

AnswerAgain(r) ==
    /\ req[r].pc = "refresh" /\ ~oauth.banned /\ ~oauth.ended
    /\ Replayed(req[r].session.token)
    /\ req' = [req EXCEPT ![r] = [pc |-> "answered",
                                  session |-> [token |-> oauth.current, fresh |-> TRUE]]]
    /\ UNCHANGED <<store, lock, expired, oauth, stance, logout, failures, losses>>

Refuse(r) ==
    LET t == req[r].session.token IN
    /\ req[r].pc = "refresh"
    /\ oauth.banned \/ oauth.ended \/ (t # oauth.current /\ ~Replayed(t))
    /\ oauth' = [oauth EXCEPT !.ended = oauth.ended \/ ~oauth.banned]
    /\ Refused(r)
    /\ UNCHANGED <<store, lock, expired, stance, logout, failures, losses>>

(* Fault: whatever goes wrong with a refresh ends the session.             *)
TransientDeletes(r) == Refused(r)

(* The session is kept for the next request to try.                        *)
Transient(r) == req' = [req EXCEPT ![r].pc = "unlock"]

(* The call fails, or takes longer than ten seconds; a rotation that took  *)
(* more than five was slow.                                                *)
RefreshFails(r) ==
    /\ req[r].pc = "refresh" \/ (req[r].pc = "answered" /\ oauth.slow)
    /\ Trouble
    /\ Transient(r)
    /\ failures' = failures + 1
    /\ UNCHANGED <<store, lock, expired, oauth, stance, logout, losses>>

AnswerLost(r) ==
    /\ req[r].pc = "answered" /\ Trouble
    /\ Transient(r)
    /\ losses' = losses + 1
    /\ UNCHANGED <<store, lock, expired, oauth, stance, logout, failures>>

(* FetchUserInfo: of a banned account the session goes, other failures     *)
(* leave the roles as they were.                                           *)
UserInfo(r) ==
    /\ req[r].pc = "answered"
    /\ req' = [req EXCEPT ![r].pc = IF oauth.banned THEN "delete" ELSE "save"]
    /\ UNCHANGED <<store, lock, expired, oauth, stance, logout, failures, losses>>

Save(r) ==
    /\ req[r].pc = "save"
    /\ store' = req[r].session
    /\ req' = [req EXCEPT ![r].pc = "unlock"]
    /\ UNCHANGED <<lock, expired, oauth, stance, logout, failures, losses>>

Delete(r) ==
    /\ req[r].pc = "delete"
    /\ store' = NoSession
    /\ req' = [req EXCEPT ![r].pc = "unlock"]
    /\ UNCHANGED <<lock, expired, oauth, stance, logout, failures, losses>>

(* Whoever holds the lock by now.                                          *)
Unlock(r) ==
    /\ req[r].pc = "unlock"
    /\ lock' = FALSE
    /\ Ends(r)
    /\ UNCHANGED <<store, expired, stance, logout, failures, losses>>

-----------------------------------------------------------------------------
(* Others *)

(* The process restarts: its requests are over, its lock stays.            *)
Restart ==
    /\ Trouble /\ \E r \in Requests : InFlight(r)
    /\ req' = [r \in Requests |-> Idle]
    /\ oauth' = [oauth EXCEPT !.during = {}]
    /\ stance' = [stance EXCEPT !.copy = NoSession]
    /\ logout' = IF logout \in {"read", "revoked"} THEN "none" ELSE logout
    /\ losses' = losses + 1
    /\ UNCHANGED <<store, lock, expired, failures>>

Ban ==
    /\ ~oauth.banned /\ oauth' = [oauth EXCEPT !.banned = TRUE]
    /\ UNCHANGED <<store, lock, expired, req, stance, logout, failures, losses>>

(* A user logs out: the session is read, its refresh token revoked if the  *)
(* account service can be reached, and the session deleted.                *)
LogoutReads ==
    /\ logout = "none" /\ store.token # 0
    /\ logout' = "read"
    /\ UNCHANGED <<store, lock, expired, oauth, req, stance, failures, losses>>

LogoutRevokes ==
    /\ logout = "read" /\ logout' = "revoked"
    /\ \E revoked \in BOOLEAN : oauth' = [oauth EXCEPT !.ended = @ \/ revoked]
    /\ UNCHANGED <<store, lock, expired, req, stance, failures, losses>>

LogoutDeletes ==
    /\ logout = "revoked" /\ logout' = "out"
    /\ store' = NoSession
    /\ UNCHANGED <<lock, expired, oauth, req, stance, failures, losses>>

(* A preference changed upstream is written into the session: GET, SET.    *)
StanceReads ==
    /\ stance.copy = NoSession /\ store.token # 0 /\ Trouble
    /\ stance' = [stance EXCEPT !.copy = store, !.writes = @ + 1]
    /\ UNCHANGED <<store, lock, expired, oauth, req, logout, failures, losses>>

(* The record's time of expiry comes with it: the copy of the record that  *)
(* is there is as fresh as the record, an older one was due.               *)
StanceSets ==
    /\ stance.copy # NoSession
    /\ store' = [token |-> stance.copy.token,
                 fresh |-> IF store.token = 0 THEN stance.copy.fresh
                           ELSE stance.copy.token = store.token /\ store.fresh]
    /\ stance' = [stance EXCEPT !.copy = NoSession,
                  !.overwrote = @ \/ store' # store]
    /\ UNCHANGED <<lock, expired, oauth, req, logout, failures, losses>>

-----------------------------------------------------------------------------
Refresh(r) ==
    \/ Rotate(r, FALSE) \/ Rotate(r, TRUE) \/ AnswerAgain(r) \/ Refuse(r)
    \/ UserInfo(r) \/ Save(r) \/ Delete(r) \/ Unlock(r)

RequestFails(r) == WaitEnds(r) \/ RefreshFails(r) \/ AnswerLost(r)

Logout == LogoutReads \/ LogoutRevokes \/ LogoutDeletes
Stance == StanceReads \/ StanceSets
Time == BecomesDue \/ Expires \/ GraceEnds \/ LockExpires

Next ==
    \/ \E r \in Requests :
        Arrive(r) \/ Claim(r) \/ Poll(r) \/ Refresh(r) \/ RequestFails(r)
    \/ Time \/ Restart \/ Ban \/ Logout \/ Stance

(* Requests keep coming, and each takes its steps; the lock has a TTL.     *)
Fairness ==
    /\ \A r \in Requests :
        /\ WF_vars(Arrive(r)) /\ WF_vars(Claim(r)) /\ WF_vars(Refresh(r)) /\ WF_vars(Poll(r))
    /\ WF_vars(LockExpires) /\ WF_vars(Expires)

Spec == Init /\ [][Next]_vars /\ Fairness

-----------------------------------------------------------------------------
(* Properties *)

TokenOrNone == [token : Nat, fresh : BOOLEAN]

(* Every variable keeps its type; a request that is over holds nothing.    *)
TypeOK ==
    /\ store \in TokenOrNone /\ lock \in BOOLEAN /\ expired \in BOOLEAN
    /\ oauth \in [current : Nat \ {0}, grace : BOOLEAN, slow : BOOLEAN, ended : BOOLEAN,
                  banned : BOOLEAN, during : SUBSET Requests]
    /\ req \in [Requests -> [pc : {"idle", "claim", "wait", "refresh", "answered", "save",
                                   "delete", "unlock"},
                             session : TokenOrNone]]
    /\ stance \in [copy : TokenOrNone, overwrote : BOOLEAN, writes : Nat]
    /\ logout \in {"none", "read", "revoked", "out"}
    /\ failures \in Nat /\ losses \in Nat
    /\ \A r \in oauth.during : InFlight(r)

(* Nobody is logged out but by logging out, by a ban, or after an answer   *)
(* was lost or a preference overwrote a refresh: "survive transient OAuth  *)
(* failures without logging anyone out".                                   *)
NobodyIsThrownOut ==
    store.token = 0 \/ oauth.ended =>
        oauth.banned \/ logout # "none" \/ losses > 0 \/ stance.overwrote

(* A session in Redis never goes back to a refresh token it had before,    *)
(* whoever saves last of those who refreshed it at once, but by writing a  *)
(* preference.                                                             *)
TokenNeverGoesBack ==
    [][store.token # 0 /\ store'.token # 0 /\ ~stance'.overwrote =>
        store'.token >= store.token]_store

(* The same promise, preferences or not.                                   *)
PreferencesAreHarmless ==
    store.token = 0 \/ oauth.ended => oauth.banned \/ logout # "none" \/ losses > 0

(* While requests come, a session that is due is refreshed or gone.        *)
DueIsRefreshed == store.token # 0 /\ ~store.fresh ~> store.fresh \/ store.token = 0

=============================================================================
