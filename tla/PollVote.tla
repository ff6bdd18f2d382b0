------------------------------- MODULE PollVote -------------------------------
(***************************************************************************)
(* One poll of a topic: who voted for what, the counter kept with every    *)
(* option, the transactions of voters, possibly several of one reader from *)
(* several tabs, and an author who edits or deletes the poll.              *)
(*                                                                         *)
(* PostgreSQL runs them at READ COMMITTED: a statement sees what was       *)
(* committed when it began, waits for rows another transaction changed or  *)
(* locked, and looks at them again; it takes its rows here in one step.  A *)
(* transaction's own changes are in its request (gone, put, counted) until *)
(* it commits.  Of those who wait for each other in a circle the deadlock  *)
(* detector aborts one.                                                    *)
(*                                                                         *)
(* The author's transaction is one step that waits for the rows it needs.  *)
(* Texts, new options, anonymity, moderation, the range of choices of a    *)
(* multiple-choice poll and edits of the deadline are left out.            *)
(***************************************************************************)
EXTENDS Integers, FiniteSets

CONSTANTS
    Users, Options,
    NoOption,       \* no option
    Requests,       \* votes in flight at once
    Tabs,           \* how many of them one reader may have
    MaxEdits,       \* bound on edits and deletions
    MaxFailures     \* bound on transactions lost with their connection

ASSUME PollBoundsOK ==
    /\ NoOption \notin Options /\ IsFiniteSet(Users)
    /\ Tabs \in Nat \ {0} /\ MaxEdits \in Nat /\ MaxFailures \in Nat

VARIABLES
    poll,       \* topic_poll: single, changeable, closed, its options
    votes,      \* topic_poll_vote, committed
    count,      \* topic_poll_option.vote_count, committed
    req,        \* voters' requests
    edit,       \* updatePoll, deletePoll: what they read
    edits, failures

vars == <<poll, votes, count, req, edit, edits, failures>>

Idle == [pc |-> "idle"]
InFlight(r) == req[r].pc # "idle"
Of(u) == {r \in Requests : InFlight(r) /\ req[r].user = u}

ChoiceOf(u) == {o \in Options : <<u, o>> \in votes}
Voters(o) == {u \in Users : <<u, o>> \in votes}

NoEdit == [pc |-> "idle"]

Init ==
    /\ poll \in [single : BOOLEAN, changeable : BOOLEAN, closed : {FALSE}, options : {Options}]
    /\ votes = {} /\ count = [o \in Options |-> 0]
    /\ req = [r \in Requests |-> Idle]
    /\ edit = NoEdit /\ edits = 0 /\ failures = 0

Ends(r) == req' = [req EXCEPT ![r] = Idle]

-----------------------------------------------------------------------------
(* Locks: whom r waits for before its next statement *)

Locked(q) == req[q].current \cup req[q].gone \cup req[q].put

RowHolders(r, rows) ==
    {q \in Of(req[r].user) \ {r} : rows \cap Locked(q) # {}}
InsertHolders(r, rows) ==
    {q \in Of(req[r].user) \ {r} : rows \cap (req[q].put \cup req[q].gone) # {}}
CounterHolders(r, rows) ==
    {q \in Requests \ {r} : InFlight(q) /\ rows \cap req[q].counted # {}}

(* INSERTs come one by one, in the order of the choice.                    *)
WaitsFor(r) ==
    CASE req[r].pc \in {"lock", "delete"} -> RowHolders(r, req[r].rows)
      [] req[r].pc = "insert" -> InsertHolders(r, {req[r].next})
      [] req[r].pc \in {"drop", "add"} -> CounterHolders(r, req[r].rows)
      [] OTHER -> {}

(* Everyone in the circle waits for another in it, and is waited for.      *)
InCircle(r) ==
    \E circle \in SUBSET Requests :
        /\ r \in circle
        /\ \A q \in circle :
            /\ WaitsFor(q) \cap circle # {}
            /\ \E w \in circle : q \in WaitsFor(w)

-----------------------------------------------------------------------------
(* setPollVote; clearPollVote is the empty choice *)

(* The poll and its options are read before the transaction begins; its    *)
(* first statement finds the rows to lock.                                 *)
Begin(r, u, choice) ==
    /\ ~InFlight(r) /\ Cardinality(Of(u)) < Tabs
    /\ poll.options # {} /\ choice \subseteq poll.options
    /\ poll.single => Cardinality(choice) <= 1
    /\ req' = [q \in Requests |->
         IF q = r
         THEN [pc |-> "lock", user |-> u, choice |-> choice, rows |-> ChoiceOf(u),
               next |-> NoOption, current |-> {}, gone |-> {}, put |-> {}, counted |-> {},
               changeable |-> poll.changeable, alone |-> Of(u) = {}]
         ELSE IF q \in Of(u) THEN [req[q] EXCEPT !.alone = FALSE] ELSE req[q]]
    /\ UNCHANGED <<poll, votes, count, edit, edits, failures>>

(* Fault: a vote that is final may be changed.                             *)
RefusedNever(r, current) == poll.closed

Refused(r, current) == poll.closed \/ (current # {} /\ ~req[r].changeable)

(* LockUserVotes passes over rows deleted meanwhile.  The same choice, or  *)
(* a refusal, changes nothing; otherwise DELETE finds its rows.            *)
Lock(r) ==
    LET current == req[r].rows \cap ChoiceOf(req[r].user) IN
    /\ req[r].pc = "lock" /\ WaitsFor(r) = {}
    /\ IF current = req[r].choice \/ Refused(r, current) THEN Ends(r)
       ELSE req' = [req EXCEPT ![r].pc = "delete", ![r].current = current,
                               ![r].rows = ChoiceOf(req[r].user) \ req[r].choice]
    /\ UNCHANGED <<poll, votes, count, edit, edits, failures>>

(* Fault: every option of the old choice is uncounted, deleted or not.     *)
DroppedAll(r) == req[r].rows

(* Only rows that were deleted are uncounted.                              *)
Dropped(r) == req[r].rows \cap ChoiceOf(req[r].user)

Delete(r) ==
    /\ req[r].pc = "delete" /\ WaitsFor(r) = {}
    /\ req' = [req EXCEPT ![r].pc = "drop", ![r].gone = req[r].rows \cap ChoiceOf(req[r].user),
                          ![r].rows = Dropped(r)]
    /\ UNCHANGED <<poll, votes, count, edit, edits, failures>>

(* The counters of the rows that were deleted, then the first INSERT.      *)
Drop(r) ==
    /\ req[r].pc = "drop" /\ WaitsFor(r) = {}
    /\ \E o \in req[r].choice \cup {NoOption} :
        /\ o = NoOption => req[r].choice = {}
        /\ req' = [req EXCEPT ![r].pc = IF o = NoOption THEN "add" ELSE "insert",
                              ![r].next = o, ![r].counted = req[r].rows,
                              ![r].rows = req[r].choice]
    /\ UNCHANGED <<poll, votes, count, edit, edits, failures>>

(* ON CONFLICT DO NOTHING; an option deleted meanwhile fails the vote.     *)
Insert(r) ==
    LET o == req[r].next
        rest == req[r].rows \ {o}
        added == {o} \ ChoiceOf(req[r].user)
    IN
    /\ req[r].pc = "insert" /\ WaitsFor(r) = {}
    /\ \/ o \notin poll.options /\ Ends(r)
       \/ /\ o \in poll.options
          /\ \E n \in IF rest = {} THEN {NoOption} ELSE rest :
              req' = [req EXCEPT ![r].pc = IF rest = {} THEN "add" ELSE "insert",
                                 ![r].next = n, ![r].put = @ \cup added,
                                 ![r].rows = IF rest = {} THEN req[r].put \cup added ELSE rest]
    /\ UNCHANGED <<poll, votes, count, edit, edits, failures>>

(* Fault: every option of the choice is counted, inserted or not.          *)
CountsChoice(r) == req[r].choice

Counted(r) == req[r].put

(* The counters of the rows that were inserted, and COMMIT.                *)
Add(r) ==
    LET u == req[r].user IN
    /\ req[r].pc = "add" /\ WaitsFor(r) = {}
    /\ votes' = (votes \ ({u} \X req[r].gone)) \cup ({u} \X req[r].put)
    /\ count' = [o \in Options |->
                   count[o] - (IF o \in req[r].counted THEN 1 ELSE 0)
                            + (IF o \in Counted(r) THEN 1 ELSE 0)]
    /\ Ends(r)
    /\ UNCHANGED <<poll, edit, edits, failures>>

Abort(r) ==
    /\ InCircle(r) /\ Ends(r)
    /\ UNCHANGED <<poll, votes, count, edit, edits, failures>>

(* The connection or the process is lost, and with it the transaction.     *)
Lost(r) ==
    /\ InFlight(r) /\ failures < MaxFailures /\ failures' = failures + 1
    /\ Ends(r)
    /\ UNCHANGED <<poll, votes, count, edit, edits>>

-----------------------------------------------------------------------------
(* The author *)

Closes ==
    /\ ~poll.closed /\ poll' = [poll EXCEPT !.closed = TRUE]
    /\ UNCHANGED <<votes, count, req, edit, edits, failures>>

Write(single, changeable, remove) ==
    [pc |-> "write", single |-> single, changeable |-> changeable, remove |-> remove]

(* updatePoll reads whether there are votes, and of which options, and     *)
(* refuses before its transaction begins.  One field an edit.              *)
EditReads ==
    /\ edit = NoEdit /\ edits < MaxEdits /\ edits' = edits + 1
    /\ \/ votes = {} /\ edit' = Write(~poll.single, poll.changeable, {})
       \/ edit' = Write(poll.single, ~poll.changeable, {})
       \/ \E o \in poll.options :
             /\ count[o] = 0 /\ poll.options # {o}
             /\ edit' = Write(poll.single, poll.changeable, {o})
    /\ UNCHANGED <<poll, votes, count, req, failures>>

DeleteReads ==
    /\ edit = NoEdit /\ edits < MaxEdits /\ edits' = edits + 1
    /\ edit' = Write(poll.single, poll.changeable, Options)
    /\ UNCHANGED <<poll, votes, count, req, failures>>

(* An option takes its votes with it.                                      *)
EditWrites ==
    /\ edit.pc = "write"
    /\ \A r \in Requests : InFlight(r) =>
         edit.remove \cap (Locked(r) \cup req[r].counted) = {}
    /\ poll' = [poll EXCEPT !.single = edit.single, !.changeable = edit.changeable,
                             !.options = @ \ edit.remove]
    /\ votes' = votes \ (Users \X edit.remove)
    /\ count' = [o \in Options |-> IF o \in edit.remove THEN 0 ELSE count[o]]
    /\ edit' = NoEdit
    /\ UNCHANGED <<req, edits, failures>>

EditLost ==
    /\ edit # NoEdit /\ edit' = NoEdit
    /\ UNCHANGED <<poll, votes, count, req, edits, failures>>

-----------------------------------------------------------------------------
Vote(r) == Lock(r) \/ Delete(r) \/ Drop(r) \/ Insert(r) \/ Add(r)

Next ==
    \/ \E r \in Requests, u \in Users, choice \in SUBSET Options : Begin(r, u, choice)
    \/ \E r \in Requests : Vote(r) \/ Abort(r) \/ Lost(r)
    \/ Closes \/ EditReads \/ DeleteReads \/ EditWrites \/ EditLost

Spec == Init /\ [][Next]_vars

-----------------------------------------------------------------------------
(* Properties *)

(* Every variable keeps its type; no vote names an option that is gone,    *)
(* and no counter is below zero.                                           *)
TypeOK ==
    /\ poll \in [single : BOOLEAN, changeable : BOOLEAN, closed : BOOLEAN,
                 options : SUBSET Options]
    /\ votes \subseteq Users \X poll.options
    /\ count \in [Options -> Nat]

(* A counter is the number of readers who hold the option, whatever        *)
(* requests cross, repeat or are lost.                                     *)
CountsMatchVotes == \A o \in Options : count[o] = Cardinality(Voters(o))

(* A vote that crosses no other of the same reader leaves exactly its      *)
(* choice, or nothing changed; and a vote that was final when it was read  *)
(* stays.                                                                  *)
AloneIsExact ==
    [][\A r \in Requests :
        InFlight(r) /\ req[r].alone /\ req'[r] = Idle /\ votes' # votes =>
            LET u == req[r].user IN
            /\ {o \in Options : <<u, o>> \in votes'} = req[r].choice
            /\ req[r].changeable \/ ChoiceOf(u) = {}]_vars

(* A reader holds one option of a single-choice poll: what updatePoll's    *)
(* check protects.                                                         *)
OneChoice == poll.single => \A u \in Users : Cardinality(ChoiceOf(u)) <= 1

=============================================================================
