----------------------------- MODULE Idempotency ------------------------------
(***************************************************************************)
(* One Idempotency-Key of one user and operation: the record Redis keeps   *)
(* under it, and the requests that carry it at once or one after the       *)
(* other.  The first claims the key, runs the handler and stores its       *)
(* answer for a day; the others are told to wait, or get the answer again. *)
(*                                                                         *)
(* The handler is any of the operations that ask for a key: it commits its *)
(* effect at one point, and answers before that or after.  Effects are     *)
(* numbered; an answer is the effect it reports, or 0 for a refusal.       *)
(*                                                                         *)
(* `faults' counts what may lead to a second effect: a handler or a store  *)
(* that fails after the effect, a restart then, a handler that outlives    *)
(* the two minutes of its claim, and a retry after a day.  `failures'      *)
(* counts the rest.                                                        *)
(***************************************************************************)
EXTENDS Naturals, FiniteSets

CONSTANTS
    Requests,      \* requests in flight at once
    Bodies,        \* what is sent under the key, by fingerprint
    MaxFaults,     \* bound on faults
    MaxFailures    \* bound on other failures

ASSUME IdempotencyBoundsOK ==
    IsFiniteSet(Requests) /\ MaxFaults \in Nat /\ MaxFailures \in Nat

VARIABLES
    rec,       \* Redis: the record of the key; owner is who claimed it
    pc,        \* requests: where they are
    body,      \* requests: what they carry
    effect,    \* requests: the effect they committed
    effects,   \* effects committed
    answers,   \* final answers given, with the body they answer
    faults, failures

vars == <<rec, pc, body, effect, effects, answers, faults, failures>>

NoRecord == [state |-> "none"]
PendingOf(b, r) == [state |-> "pending", body |-> b, owner |-> r]
DoneWith(b, e) == [state |-> "done", body |-> b, answer |-> e]
Records ==
    {NoRecord} \cup [state : {"pending"}, body : Bodies, owner : Requests]
               \cup [state : {"done"}, body : Bodies, answer : Nat]

(* Past SetNX and before the deferred Del: the handler, then the store.    *)
Live(r) == pc[r] \in {"run", "refused", "did", "release"}
Orphan == rec.state = "pending" /\ ~Live(rec.owner)

Goes(r, where) == pc' = [pc EXCEPT ![r] = where]
Forgets(r) == effect' = [effect EXCEPT ![r] = 0]
Answer(r) == [body |-> body[r], answer |-> effect[r]]
Fault(bad) == (bad => faults < MaxFaults) /\ faults' = IF bad THEN faults + 1 ELSE faults
Failure == failures < MaxFailures /\ failures' = failures + 1

Init ==
    /\ rec = NoRecord
    /\ pc = [r \in Requests |-> "idle"]
    /\ body \in [Requests -> Bodies]
    /\ effect = [r \in Requests |-> 0]
    /\ effects = 0 /\ answers = {} /\ faults = 0 /\ failures = 0

-----------------------------------------------------------------------------
(* The middleware *)

Claim(r, b) ==
    /\ pc[r] = "idle" /\ body' = [body EXCEPT ![r] = b]
    /\ \/ rec.state = "none" /\ rec' = PendingOf(b, r) /\ Goes(r, "run")
       \/ rec.state # "none" /\ rec' = rec /\ Goes(r, "replay")
    /\ UNCHANGED <<effect, effects, answers, faults, failures>>

(* SetNX fails, and may have been applied: the request is unavailable.     *)
ClaimFails(r, b) ==
    /\ pc[r] = "idle" /\ body' = [body EXCEPT ![r] = b]
    /\ rec.state = "none" /\ rec' = PendingOf(b, r)
    /\ Failure
    /\ UNCHANGED <<pc, effect, effects, answers, faults>>

(* Fault: whatever is on record is replayed.                               *)
ReplaysAny(r) == rec.state = "done"

(* Another body is a key reused; a record pending, or gone by now, is a    *)
(* request in progress.  Both are conflicts, and no answer.                *)
Replays(r) == rec.state = "done" /\ rec.body = body[r]

Replay(r) ==
    /\ pc[r] = "replay" /\ Goes(r, "idle")
    /\ answers' = IF Replays(r) THEN answers \cup {[body |-> body[r], answer |-> rec.answer]}
                  ELSE answers
    /\ UNCHANGED <<rec, body, effect, effects, faults, failures>>

(* Fault: what was stored is deleted with the claim.                       *)
StoredIsReleased(r) == NoRecord

Stored(r) == DoneWith(body[r], effect[r])

Store(r) ==
    /\ pc[r] \in {"refused", "did"} /\ Goes(r, "idle") /\ Forgets(r)
    /\ rec' = Stored(r)
    /\ answers' = answers \cup {Answer(r)}
    /\ UNCHANGED <<body, effects, faults, failures>>

(* The client is given its answer, stored or not; Redis may have applied   *)
(* the store it did not acknowledge.                                       *)
StoreFails(r) ==
    /\ pc[r] \in {"refused", "did"} /\ Goes(r, "release") /\ Forgets(r)
    /\ rec' \in {rec, Stored(r)}
    /\ answers' = answers \cup {Answer(r)}
    /\ Fault(TRUE)
    /\ UNCHANGED <<body, effects, failures>>

(* The deferred Del asks not whose claim it deletes.                       *)
Release(r) ==
    /\ pc[r] = "release" /\ Goes(r, "idle")
    /\ rec' = NoRecord
    /\ UNCHANGED <<body, effect, effects, answers, faults, failures>>

ReleaseFails(r) ==
    /\ pc[r] = "release" /\ Goes(r, "idle")
    /\ rec' \in {rec, NoRecord}
    /\ Failure
    /\ UNCHANGED <<body, effect, effects, answers, faults>>

-----------------------------------------------------------------------------
(* The handler *)

Commits(r) ==
    /\ pc[r] = "run" /\ Goes(r, "did")
    /\ effects' = effects + 1
    /\ effect' = [effect EXCEPT ![r] = effects + 1]
    /\ UNCHANGED <<rec, body, answers, faults, failures>>

(* Refused for good: a status that is stored.                              *)
Refuses(r) ==
    /\ pc[r] = "run" /\ Goes(r, "refused")
    /\ UNCHANGED <<rec, body, effect, effects, answers, faults, failures>>

(* Fault: a conflict, a limit or an error is stored like any other answer. *)
StoresFailures(r) == Goes(r, "refused") /\ UNCHANGED effect

(* A conflict, a limit or an error is not stored, and may be retried.      *)
NotStored(r) == Goes(r, "release") /\ Forgets(r)

Breaks(r) ==
    /\ pc[r] \in {"run", "did"} /\ NotStored(r)
    /\ Fault(pc[r] = "did") /\ Failure
    /\ UNCHANGED <<rec, body, effects, answers>>

-----------------------------------------------------------------------------
(* Time and restarts *)

(* Two minutes for a claim, a day for an answer.                           *)
Expires ==
    /\ rec.state # "none" /\ rec' = NoRecord
    /\ Fault(rec.state = "done" \/ ~Orphan)
    /\ UNCHANGED <<pc, body, effect, effects, answers, failures>>

(* Fault: a claim without an expiry.                                       *)
ClaimStays == FALSE /\ UNCHANGED vars

OrphanExpires == Orphan /\ Expires

Restart ==
    /\ \E r \in Requests : pc[r] # "idle"
    /\ pc' = [r \in Requests |-> "idle"] /\ effect' = [r \in Requests |-> 0]
    /\ Fault(\E r \in Requests : pc[r] = "did") /\ Failure
    /\ UNCHANGED <<rec, body, effects, answers>>

-----------------------------------------------------------------------------
Handles(r) == Commits(r) \/ Refuses(r)
Settles(r) == Store(r) \/ Release(r) \/ Replay(r)
Fails(r) == StoreFails(r) \/ ReleaseFails(r) \/ Breaks(r)

Next ==
    \/ \E r \in Requests, b \in Bodies : Claim(r, b) \/ ClaimFails(r, b)
    \/ \E r \in Requests : Handles(r) \/ Settles(r) \/ Fails(r)
    \/ Expires \/ Restart

(* The client tries again until it is answered; handlers end; a claim that *)
(* nobody holds runs out.                                                  *)
Fairness ==
    /\ WF_vars(\E r \in Requests, b \in Bodies : Claim(r, b))
    /\ \A r \in Requests : WF_vars(Handles(r)) /\ WF_vars(Settles(r))
    /\ WF_vars(OrphanExpires)

Spec == Init /\ [][Next]_vars /\ Fairness

-----------------------------------------------------------------------------
(* Properties *)

(* Every variable keeps its type, and only a request whose handler took    *)
(* effect holds one.                                                       *)
TypeOK ==
    /\ rec \in Records
    /\ pc \in [Requests -> {"idle", "replay", "run", "refused", "did", "release"}]
    /\ body \in [Requests -> Bodies]
    /\ effect \in [Requests -> Nat]
    /\ effects \in Nat /\ faults \in Nat /\ failures \in Nat
    /\ answers \subseteq [body : Bodies, answer : Nat]
    /\ \A r \in Requests : effect[r] # 0 <=> pc[r] = "did"

(* The operation takes effect at most once, and once more for every fault. *)
AtMostOnce == effects <= faults + 1

(* Whoever is answered under the key is told the same: one effect or one   *)
(* refusal of one body, and another for every fault.                       *)
AnswersAgree == Cardinality(answers) <= faults + 1

(* A client that tries again is answered in the end: no claim outlives its *)
(* two minutes.                                                            *)
EventuallyAnswered == <>(answers # {})

=============================================================================
