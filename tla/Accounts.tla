------------------------------- MODULE Accounts -------------------------------
(***************************************************************************)
(* Accounts, sessions and deletion jobs.  A request that carries a token   *)
(* is let in by one read of the database and does its work in a later      *)
(* transaction: other requests, the maintenance loop and the clock come in *)
(* between.                                                                *)
(*                                                                         *)
(* Abstractions.  A phone is the tokens it may send, again and late, so    *)
(* that lost, repeated and delayed requests are all here.  A transaction   *)
(* is one step, with a result or without.  Ids are numbers in the order    *)
(* rows are made, and a token is its claims.  Devices and audit events are *)
(* left out, and so is "running", a status of a job that no other          *)
(* transaction ever sees.  The 7 days for which the row of a session is    *)
(* kept after its end are any time after it.                               *)
(***************************************************************************)
EXTENDS Integers, Sequences

CONSTANTS
  Subjects,    \* WeChat identities
  NoOne,       \* the subject of a deleted account
  Handlers,    \* bound: requests that are let in at once
  MaxAttempts, \* attempts of a deletion job, 10
  Broken,      \* accounts the deletion of which fails every time
  Ttl,         \* life of a token, in ticks
  MaxUsers, MaxSessions, MaxNow \* bounds: rows made, and ticks

ASSUME AccountsAssumption ==
  /\ NoOne \notin Subjects /\ Broken \subseteq Nat
  /\ MaxAttempts \in Nat \ {0} /\ Ttl \in Nat \ {0}
  /\ MaxUsers \in Nat /\ MaxSessions \in Nat /\ MaxNow \in Nat

VARIABLES
  users,    \* rows: subject and status
  sessions, \* rows: account, expires_at, and "open", "revoked" or "gone"
  jobs,     \* deletion_jobs by created_at: account, status, attempts
  tokens,   \* tokens issued
  handler,  \* what each request that was let in is about to do, and its claims
  now

tables == <<users, sessions, jobs>>
vars == <<tables, tokens, handler, now>>

Idle == [op |-> "none", token |-> [user |-> 0, session |-> 0, until |-> 0]]

Init ==
  /\ users = <<>> /\ sessions = <<>> /\ jobs = <<>>
  /\ tokens = {} /\ handler = [h \in Handlers |-> Idle] /\ now = 0

------------------------------------------------------------------------------
(* Requests. *)

Expiry == now + Ttl
Issue(u, s) == tokens' = tokens \cup {[user |-> u, session |-> s, until |-> Expiry]}
Open(s) == sessions[s].state = "open" /\ now < sessions[s].until

\* An account whose subject is not in the table gets the next id.
Accounts(who) == {u \in DOMAIN users : users[u].who = who}
SignIn(u, newUsers) ==
  /\ Len(sessions) < MaxSessions
  /\ users' = newUsers
  /\ sessions' = Append(sessions, [user |-> u, until |-> Expiry, state |-> "open"])
  /\ Issue(u, Len(sessions) + 1)
  /\ UNCHANGED <<jobs, handler, now>>
Login(who) ==
  \/ \E u \in Accounts(who) : users[u].status = "active" /\ SignIn(u, users)
  \/ /\ Accounts(who) = {} /\ Len(users) < MaxUsers
     /\ SignIn(Len(users) + 1, Append(users, [who |-> who, status |-> "active"]))

SessionActive(t) ==
  Open(t.session) /\ sessions[t.session].user = t.user /\ users[t.user].status = "active"
\* Any other token is answered 401.
Authenticate(h, op) ==
  /\ handler[h] = Idle
  /\ \E t \in tokens : /\ now < t.until /\ SessionActive(t)
                       /\ handler' = [handler EXCEPT ![h] = [op |-> op, token |-> t]]
  /\ UNCHANGED <<tables, tokens, now>>

\* The handler's answer; it has done nothing if its transaction failed, or the
\* process has ended.
Done(h) == handler' = [handler EXCEPT ![h] = Idle]
Fails(h) == handler[h] # Idle /\ Done(h) /\ UNCHANGED <<tables, tokens, now>>

RefreshM(h) == \* UPDATE sessions ... WHERE id AND user_id: authenticate has asked for the rest
  LET t == handler[h].token IN
  /\ handler[h].op = "refresh"
  /\ sessions' = [sessions EXCEPT ![t.session].until = Expiry]
  /\ Issue(t.user, t.session) /\ Done(h)
  /\ UNCHANGED <<users, jobs, now>>
Refresh(h) ==
  LET t == handler[h].token IN
  /\ handler[h].op = "refresh" /\ Open(t.session) \* 401 otherwise, as in Fails
  /\ sessions' = [sessions EXCEPT ![t.session].until = Expiry]
  /\ Issue(t.user, t.session) /\ Done(h)
  /\ UNCHANGED <<users, jobs, now>>

Revoked(S) ==
  [s \in DOMAIN sessions |->
     IF s \in S /\ sessions[s].state = "open" THEN [sessions[s] EXCEPT !.state = "revoked"]
     ELSE sessions[s]]
SessionsOf(u) == {s \in DOMAIN sessions : sessions[s].user = u}
Logout(h) ==
  /\ handler[h].op = "logout"
  /\ sessions' = Revoked({handler[h].token.session}) /\ Done(h)
  /\ UNCHANGED <<users, jobs, tokens, now>>

NewJob(u) == [user |-> u, status |-> "pending", attempts |-> 0]
RequestDeletionM(h) == \* UPDATE users ... WHERE id=$1, whatever the status is
  LET u == handler[h].token.user IN
  /\ handler[h].op = "delete"
  /\ users' = [users EXCEPT ![u].status = "deleting"]
  /\ sessions' = Revoked(SessionsOf(u))
  /\ jobs' = Append(jobs, NewJob(u)) /\ Done(h)
  /\ UNCHANGED <<tokens, now>>
RequestDeletion(h) ==
  LET u == handler[h].token.user IN
  /\ handler[h].op = "delete" /\ users[u].status = "active" \* 500 otherwise, as in Fails
  /\ users' = [users EXCEPT ![u].status = "deleting"]
  /\ sessions' = Revoked(SessionsOf(u))
  /\ jobs' = Append(jobs, NewJob(u)) /\ Done(h)
  /\ UNCHANGED <<tokens, now>>

------------------------------------------------------------------------------
(* The maintenance loop, and time. *)

Completed(js, j) == [js EXCEPT ![j].status = "complete", ![j].attempts = @ + 1]
RecordLateM(js, j) == \* attempts+1 > 10
  IF js[j].status = "complete" THEN js
  ELSE [js EXCEPT ![j].attempts = @ + 1,
                  ![j].status = IF js[j].attempts + 1 > MaxAttempts THEN "failed" ELSE "pending"]
RecordUncountedM(js, j) == \* the attempt is counted as the job is claimed, and rolled back
  IF js[j].status = "complete" THEN js
  ELSE [js EXCEPT ![j].status = IF js[j].attempts >= MaxAttempts THEN "failed" ELSE "pending"]
\* A failure is recorded after the rollback.
RecordFailure(js, j) ==
  IF js[j].status = "complete" THEN js
  ELSE [js EXCEPT ![j].attempts = @ + 1,
                  ![j].status = IF js[j].attempts + 1 >= MaxAttempts THEN "failed" ELSE "pending"]

NextJob(j) ==
  /\ j \in DOMAIN jobs /\ jobs[j].status = "pending"
  /\ \A k \in 1 .. j - 1 : jobs[k].status # "pending"
RemoveAccount(u) ==
  /\ users' = [users EXCEPT ![u] = [who |-> NoOne, status |-> "deleted"]]
  /\ sessions' = [s \in DOMAIN sessions |->
       IF s \in SessionsOf(u) THEN [sessions[s] EXCEPT !.state = "gone"] ELSE sessions[s]]
\* Done, or done but COMMIT answered with an error, which is recorded; or failed.
ProcessDeletion(j) ==
  /\ NextJob(j)
  /\ \/ /\ jobs[j].user \notin Broken /\ RemoveAccount(jobs[j].user)
        /\ \/ jobs' = Completed(jobs, j)
           \/ jobs' = RecordFailure(Completed(jobs, j), j)
     \/ jobs' = RecordFailure(jobs, j) /\ UNCHANGED <<users, sessions>>
  /\ UNCHANGED <<tokens, handler, now>>

DeleteExpiredSessions ==
  /\ \E s \in DOMAIN sessions :
       /\ sessions[s].state = "revoked" \/ (sessions[s].state = "open" /\ sessions[s].until < now)
       /\ sessions' = [sessions EXCEPT ![s].state = "gone"]
  /\ UNCHANGED <<users, jobs, tokens, handler, now>>

Tick == now < MaxNow /\ now' = now + 1 /\ UNCHANGED <<tables, tokens, handler>>

------------------------------------------------------------------------------
Ops == {"refresh", "logout", "delete"}
Maintain == \E j \in DOMAIN jobs : ProcessDeletion(j)
Next ==
  \/ \E who \in Subjects : Login(who)
  \/ \E h \in Handlers :
       \/ \E op \in Ops : Authenticate(h, op)
       \/ Refresh(h) \/ Logout(h) \/ RequestDeletion(h) \/ Fails(h)
  \/ Maintain \/ DeleteExpiredSessions \/ Tick

\* The loop comes round every 30 seconds, and not every attempt for ever ends with
\* neither the job done nor its failure recorded.
Spec == Init /\ [][Next]_vars /\ WF_vars(Maintain)

------------------------------------------------------------------------------
(* Properties. *)

\* The shape of the state.  Tokens and jobs name rows that exist, and a job fails for good
\* at its last attempt and not before.
User == [who : Subjects \cup {NoOne}, status : {"active", "deleting", "deleted"}]
Session == [user : DOMAIN users, until : Nat, state : {"open", "revoked", "gone"}]
Job == [user : DOMAIN users, status : {"pending", "failed", "complete"},
        attempts : 0 .. MaxAttempts]
Token == [user : DOMAIN users, session : DOMAIN sessions, until : Nat]
TypeOK ==
  /\ users \in Seq(User) /\ sessions \in Seq(Session) /\ jobs \in Seq(Job)
  /\ \A j \in DOMAIN jobs : /\ jobs[j].status = "failed" => jobs[j].attempts = MaxAttempts
                            /\ jobs[j].status = "pending" => jobs[j].attempts < MaxAttempts
  /\ tokens \in SUBSET Token /\ now \in Nat
  /\ handler \in [Handlers -> [op : Ops, token : Token] \cup {Idle}]

\* From the request on an account has no open session, and one deletion job, which tells
\* whether it is deleted, though requests let in before it are still to come.
JobsOf(u) == {j \in DOMAIN jobs : jobs[j].user = u}
AccountsClosed ==
  \A u \in DOMAIN users :
    IF users[u].status = "active" THEN JobsOf(u) = {}
    ELSE /\ \A s \in SessionsOf(u) : sessions[s].state # "open"
         /\ \E j \in JobsOf(u) : /\ JobsOf(u) = {j}
                                 /\ jobs[j].status = "complete" <=> users[u].status = "deleted"

\* A session that has expired or was revoked is never usable again, by a refresh that was
\* let in before its end either; an account that is not active never becomes so.
EndedStaysEnded ==
  [][/\ \A s \in DOMAIN sessions : ~Open(s) => ~Open(s)'
     /\ \A u \in DOMAIN users : users[u].status # "active" => users'[u].status # "active"]_vars

\* Every deletion is done or has failed for good; a job that can never be done holds up
\* those behind it only for its own attempts.
Is(j, statuses) == j \in DOMAIN jobs /\ jobs[j].status \in statuses
DeletionsEnd == \A j \in 1 .. MaxUsers : Is(j, {"pending"}) ~> Is(j, {"complete", "failed"})
=============================================================================
