---------------------------- MODULE AccountsProofs ----------------------------
(***************************************************************************)
(* Types, AccountsClosed and EndedStaysEnded of Accounts, for every number *)
(* of people, requests, rows and ticks.                                    *)
(***************************************************************************)
EXTENDS Accounts, SequenceTheorems, TLAPS

------------------------------------------------------------------------------
(* Tables as sequences. *)

\* The rows of a table are numbered from 1 and well-formed.
LEMMA Rows ==
  ASSUME NEW S, NEW t \in Seq(S)
  PROVE  Len(t) \in Nat /\ DOMAIN t = 1 .. Len(t) /\ \A i \in DOMAIN t : t[i] \in S
BY LenProperties

\* A table whose rows are replaced by well-formed ones is a table of the same length.
LEMMA Updated ==
  ASSUME NEW S, NEW T, NEW t \in Seq(S), NEW u, u = [i \in DOMAIN t |-> u[i]],
         \A i \in DOMAIN t : u[i] \in T
  PROVE  u \in Seq(T) /\ DOMAIN u = DOMAIN t /\ Len(u) = Len(t)
<1>1. Len(t) \in Nat /\ DOMAIN t = 1 .. Len(t)
  BY Rows
<1>2. u \in [1 .. Len(t) -> T]
  BY <1>1
<1>3. u \in Seq(T)
  BY <1>1, <1>2, SeqDef
<1> QED BY <1>1, <1>2, <1>3, Rows

\* An appended row gets the next number and leaves the others as they are.
LEMMA Appended ==
  ASSUME NEW S, NEW t \in Seq(S), NEW x \in S
  PROVE  /\ Append(t, x) \in Seq(S)
         /\ DOMAIN Append(t, x) = DOMAIN t \cup {Len(t) + 1} /\ Len(t) + 1 \notin DOMAIN t
         /\ \A i \in DOMAIN t : Append(t, x)[i] = t[i]
         /\ Append(t, x)[Len(t) + 1] = x
BY AppendProperties, Rows

------------------------------------------------------------------------------
(* Types. *)

LEMMA InitType == Init => TypeOK
<1> SUFFICES ASSUME Init PROVE TypeOK
  OBVIOUS
<1>1. <<>> \in Seq(User) /\ <<>> \in Seq(Session) /\ <<>> \in Seq(Job)
  BY EmptySeq
<1>2. DOMAIN jobs = {}
  BY DEF Init
<1> QED BY <1>1, <1>2 DEF Init, TypeOK, Idle

\* What names accounts and sessions still does when no row has been taken away.
LEMMA Wider ==
  ASSUME DOMAIN users \subseteq DOMAIN users', DOMAIN sessions \subseteq DOMAIN sessions'
  PROVE  Token \subseteq Token' /\ Job \subseteq Job' /\ Session \subseteq Session'
BY DEF Token, Job, Session

\* A request that is done leaves the others as they are.
LEMMA DoneType ==
  ASSUME TypeOK, NEW h \in Handlers, Done(h)
  PROVE  handler' \in [Handlers -> [op : Ops, token : Token] \cup {Idle}]
BY DEF TypeOK, Done

\* A step that leaves the rows of the tables and the requests alone keeps their types.
LEMMA TokensType ==
  ASSUME TypeOK, DOMAIN users \subseteq DOMAIN users', DOMAIN sessions \subseteq DOMAIN sessions',
         tokens' \subseteq tokens \cup Token',
         handler' \in [Handlers -> [op : Ops, token : Token] \cup {Idle}]
  PROVE  /\ tokens' \in SUBSET Token'
         /\ handler' \in [Handlers -> [op : Ops, token : Token'] \cup {Idle}]
BY Wider DEF TypeOK

\* A request that was let in names an account and a session.
LEMMA Claims ==
  ASSUME TypeOK, NEW h \in Handlers, handler[h].op # "none"
  PROVE  /\ handler[h].token \in Token
         /\ handler[h].token.user \in DOMAIN users /\ handler[h].token.session \in DOMAIN sessions
BY DEF TypeOK, Idle, Token

\* The expiry of a new session or token is a time.
LEMMA ExpiryType == TypeOK => Expiry \in Nat
BY AccountsAssumption DEF TypeOK, Expiry

LEMMA SignInType ==
  ASSUME TypeOK, NEW u, NEW newUsers \in Seq(User), SignIn(u, newUsers),
         u \in DOMAIN newUsers, DOMAIN users \subseteq DOMAIN newUsers
  PROVE  TypeOK'
<1> DEFINE x == [user |-> u, until |-> Expiry, state |-> "open"]
<1>0. users' = newUsers /\ sessions' = Append(sessions, x) /\ jobs' = jobs
      /\ handler' = handler /\ now' = now
  BY DEF SignIn
<1>1. Session \subseteq Session' /\ x \in Session'
  BY <1>0, ExpiryType DEF Session
<1>2. sessions \in Seq(Session')
  <2>1. sessions \in Seq(Session)
    BY DEF TypeOK
  <2> QED BY <1>1, <2>1, SeqMonotonic
<1>3. sessions' \in Seq(Session') /\ DOMAIN sessions' = DOMAIN sessions \cup {Len(sessions) + 1}
  BY <1>0, <1>1, <1>2, Appended
<1>4. jobs' \in Seq(Job')
  <2>1. jobs \in Seq(Job) /\ Job \subseteq Job'
    BY <1>0 DEF TypeOK, Job
  <2> QED BY <1>0, <2>1, SeqMonotonic
<1>5. tokens' \subseteq tokens \cup Token'
  BY <1>0, <1>3, ExpiryType DEF SignIn, Issue, Token
<1>6. tokens' \in SUBSET Token' /\ handler' \in [Handlers -> [op : Ops, token : Token'] \cup {Idle}]
  <2>1. handler' \in [Handlers -> [op : Ops, token : Token] \cup {Idle}]
    BY <1>0 DEF TypeOK
  <2> QED BY <1>0, <1>3, <1>5, <2>1, TokensType
<1> QED BY <1>0, <1>3, <1>4, <1>6 DEF TypeOK

LEMMA LoginType == ASSUME TypeOK, NEW who \in Subjects, Login(who) PROVE TypeOK'
<1>0. users \in Seq(User)
  BY DEF TypeOK
<1>1. CASE \E u \in Accounts(who) : users[u].status = "active" /\ SignIn(u, users)
  BY <1>0, <1>1, SignInType DEF Accounts
<1>2. CASE SignIn(Len(users) + 1, Append(users, [who |-> who, status |-> "active"]))
  <2>1. [who |-> who, status |-> "active"] \in User
    BY DEF User
  <2> QED BY <1>0, <1>2, <2>1, Appended, SignInType
<1> QED BY <1>1, <1>2 DEF Login

\* The sessions table after rows have been given another expiry or state.
LEMMA SessionsType ==
  ASSUME TypeOK, sessions' = [s \in DOMAIN sessions |-> sessions'[s]],
         \A s \in DOMAIN sessions : sessions'[s] \in Session
  PROVE  sessions' \in Seq(Session) /\ DOMAIN sessions' = DOMAIN sessions
<1>1. sessions \in Seq(Session)
  BY DEF TypeOK
<1> QED BY <1>1, Updated

\* Steps that keep the number of accounts and sessions, and do not sign anybody in.
LEMMA SameRowsType ==
  ASSUME TypeOK, DOMAIN users' = DOMAIN users, DOMAIN sessions' = DOMAIN sessions,
         users' \in Seq(User), sessions' \in Seq(Session), jobs' \in Seq(Job),
         \A j \in DOMAIN jobs' : /\ jobs'[j].status = "failed" => jobs'[j].attempts = MaxAttempts
                                 /\ jobs'[j].status = "pending" => jobs'[j].attempts < MaxAttempts,
         tokens' \subseteq tokens \cup Token', now' \in Nat,
         handler' \in [Handlers -> [op : Ops, token : Token] \cup {Idle}]
  PROVE  TypeOK'
<1>1. Session' = Session /\ Job' = Job
  BY DEF Session, Job
<1> QED BY <1>1, TokensType DEF TypeOK

\* The jobs table and its rows.
LEMMA JobRows ==
  ASSUME TypeOK
  PROVE  /\ jobs \in Seq(Job) /\ Len(jobs) \in Nat /\ DOMAIN jobs = 1 .. Len(jobs)
         /\ \A j \in DOMAIN jobs : jobs[j] \in Job
         /\ \A j \in DOMAIN jobs : jobs[j].status = "failed" => jobs[j].attempts = MaxAttempts
         /\ \A j \in DOMAIN jobs : jobs[j].status = "pending" => jobs[j].attempts < MaxAttempts
BY Rows DEF TypeOK

\* Sessions that are revoked keep their account and expiry, and no other is changed.
LEMMA RevokedRows ==
  ASSUME TypeOK, NEW S, sessions' = Revoked(S)
  PROVE  /\ sessions' \in Seq(Session) /\ DOMAIN sessions' = DOMAIN sessions
         /\ \A s \in DOMAIN sessions :
              /\ sessions'[s].user = sessions[s].user /\ sessions'[s].until = sessions[s].until
              /\ sessions'[s].state = "open" => sessions[s].state = "open" /\ s \notin S
<1>1. \A s \in DOMAIN sessions : sessions[s] \in Session
  BY Rows DEF TypeOK
<1>2. sessions' = [s \in DOMAIN sessions |-> sessions'[s]]
  BY DEF Revoked
<1>3. \A s \in DOMAIN sessions :
        /\ sessions'[s] \in Session
        /\ sessions'[s].user = sessions[s].user /\ sessions'[s].until = sessions[s].until
        /\ sessions'[s].state = "open" => sessions[s].state = "open" /\ s \notin S
  BY <1>1 DEF Revoked, Session
<1> QED BY <1>2, <1>3, SessionsType

\* One session that is given another expiry or state.
LEMMA OneSession ==
  ASSUME TypeOK, NEW s \in DOMAIN sessions, NEW x \in Session, sessions' = [sessions EXCEPT ![s] = x]
  PROVE  sessions' \in Seq(Session) /\ DOMAIN sessions' = DOMAIN sessions
<1>1. \A r \in DOMAIN sessions : sessions[r] \in Session
  BY Rows DEF TypeOK
<1> QED BY <1>1, SessionsType

LEMMA AuthenticateType ==
  ASSUME TypeOK, NEW h \in Handlers, NEW op \in Ops, Authenticate(h, op) PROVE TypeOK'
<1>1. handler' \in [Handlers -> [op : Ops, token : Token] \cup {Idle}]
  BY DEF TypeOK, Authenticate
<1> QED BY <1>1, SameRowsType DEF TypeOK, Authenticate, tables

LEMMA FailsType == ASSUME TypeOK, NEW h \in Handlers, Fails(h) PROVE TypeOK'
<1>1. Done(h)
  BY DEF Fails
<1> QED BY <1>1, DoneType, SameRowsType DEF TypeOK, Fails, tables

LEMMA RefreshType == ASSUME TypeOK, NEW h \in Handlers, Refresh(h) PROVE TypeOK'
<1> DEFINE t == handler[h].token
           x == [sessions[t.session] EXCEPT !.until = Expiry]
<1>1. t \in Token /\ t.user \in DOMAIN users /\ t.session \in DOMAIN sessions
  BY Claims DEF Refresh
<1>2. Expiry \in Nat
  BY ExpiryType
<1>3. x \in Session
  <2>1. sessions[t.session] \in Session
    BY <1>1, Rows DEF TypeOK
  <2> QED BY <1>2, <2>1 DEF Session
<1>4. sessions' = [sessions EXCEPT ![t.session] = x]
  BY <1>1 DEF Refresh
<1>5. sessions' \in Seq(Session) /\ DOMAIN sessions' = DOMAIN sessions
  BY <1>1, <1>3, <1>4, OneSession
<1>6. users' = users /\ jobs' = jobs /\ now' = now /\ Done(h)
  BY DEF Refresh
<1>7. tokens' \subseteq tokens \cup Token'
  BY <1>1, <1>2, <1>5, <1>6 DEF Refresh, Issue, Token
<1>8. users' \in Seq(User) /\ now' \in Nat
  BY <1>6 DEF TypeOK
<1>9. handler' \in [Handlers -> [op : Ops, token : Token] \cup {Idle}]
  BY <1>6, DoneType
<1> HIDE DEF t, x
<1> QED BY <1>5, <1>6, <1>7, <1>8, <1>9, JobRows, SameRowsType

LEMMA LogoutType == ASSUME TypeOK, NEW h \in Handlers, Logout(h) PROVE TypeOK'
<1>1. sessions' \in Seq(Session) /\ DOMAIN sessions' = DOMAIN sessions
  BY RevokedRows DEF Logout
<1>2. users' = users /\ jobs' = jobs /\ now' = now /\ tokens' = tokens /\ Done(h)
  BY DEF Logout
<1> QED BY <1>1, <1>2, DoneType, SameRowsType DEF TypeOK

\* One account that is given another subject or status.
LEMMA OneUser ==
  ASSUME TypeOK, NEW u \in DOMAIN users, NEW x \in User, users' = [users EXCEPT ![u] = x]
  PROVE  users' \in Seq(User) /\ DOMAIN users' = DOMAIN users
<1>1. users \in Seq(User) /\ \A r \in DOMAIN users : users[r] \in User
  BY Rows DEF TypeOK
<1>2. users' = [r \in DOMAIN users |-> users'[r]] /\ \A r \in DOMAIN users : users'[r] \in User
  BY <1>1
<1> QED BY <1>1, <1>2, Updated

LEMMA RequestDeletionType ==
  ASSUME TypeOK, NEW h \in Handlers, RequestDeletion(h) PROVE TypeOK'
<1> DEFINE u == handler[h].token.user
           x == [users[u] EXCEPT !.status = "deleting"]
<1>1. u \in DOMAIN users
  BY Claims DEF RequestDeletion
<1>2. users' \in Seq(User) /\ DOMAIN users' = DOMAIN users
  <2>0. users[u] \in User
    BY <1>1, Rows DEF TypeOK
  <2>1. x \in User
    BY <2>0 DEF User
  <2>2. users' = [users EXCEPT ![u] = x]
    BY <1>1 DEF RequestDeletion
  <2> QED BY <1>1, <2>1, <2>2, OneUser
<1>3. sessions' \in Seq(Session) /\ DOMAIN sessions' = DOMAIN sessions
  BY RevokedRows DEF RequestDeletion
<1>4. jobs' = Append(jobs, NewJob(u)) /\ NewJob(u) \in Job
  BY <1>1, AccountsAssumption DEF RequestDeletion, NewJob, Job
<1>5. jobs' \in Seq(Job) /\ DOMAIN jobs' = DOMAIN jobs \cup {Len(jobs) + 1}
      /\ (\A j \in DOMAIN jobs : jobs'[j] = jobs[j]) /\ jobs'[Len(jobs) + 1] = NewJob(u)
  BY <1>4, JobRows, Appended
<1>6. \A j \in DOMAIN jobs' : /\ jobs'[j].status = "failed" => jobs'[j].attempts = MaxAttempts
                              /\ jobs'[j].status = "pending" => jobs'[j].attempts < MaxAttempts
  BY <1>5, JobRows, AccountsAssumption DEF NewJob
<1>7. now' = now /\ tokens' = tokens /\ Done(h)
  BY DEF RequestDeletion
<1>8. now' \in Nat
  BY <1>7 DEF TypeOK
<1>9. handler' \in [Handlers -> [op : Ops, token : Token] \cup {Idle}]
  BY <1>7, DoneType
<1> HIDE DEF u, x
<1> QED BY <1>2, <1>3, <1>5, <1>6, <1>7, <1>8, <1>9, SameRowsType

\* The jobs after an attempt has failed: the next attempt, if any, is allowed for.
LEMMA RecordedRows ==
  ASSUME TypeOK, NEW j \in DOMAIN jobs, jobs[j].status = "pending",
         jobs' = RecordFailure(jobs, j)
  PROVE  /\ jobs' \in Seq(Job) /\ DOMAIN jobs' = DOMAIN jobs
         /\ jobs'[j].user = jobs[j].user /\ jobs'[j].status \in {"pending", "failed"}
         /\ jobs'[j].status = "failed" => jobs'[j].attempts = MaxAttempts
         /\ jobs'[j].status = "pending" => jobs'[j].attempts < MaxAttempts
         /\ \A k \in DOMAIN jobs \ {j} : jobs'[k] = jobs[k]
<1> DEFINE x == [jobs[j] EXCEPT !.attempts = @ + 1,
                   !.status = IF jobs[j].attempts + 1 >= MaxAttempts THEN "failed" ELSE "pending"]
<1>1. jobs[j] \in Job /\ jobs[j].attempts \in 0 .. MaxAttempts /\ jobs[j].attempts < MaxAttempts
  BY JobRows DEF Job
<1>2. jobs' = [jobs EXCEPT ![j] = x]
  BY <1>1, JobRows DEF RecordFailure
<1>3. /\ x.user = jobs[j].user /\ x.attempts = jobs[j].attempts + 1
      /\ x.status = (IF jobs[j].attempts + 1 >= MaxAttempts THEN "failed" ELSE "pending")
  BY <1>1 DEF Job
<1>4. x \in Job
  <2>1. jobs[j].attempts + 1 \in 0 .. MaxAttempts
    BY <1>1, AccountsAssumption
  <2> QED BY <1>1, <2>1 DEF Job
<1> HIDE DEF x
<1>5. jobs' \in Seq(Job) /\ DOMAIN jobs' = DOMAIN jobs
  BY <1>2, <1>4, JobRows, ExceptSeq
<1>6. jobs'[j] = x /\ \A k \in DOMAIN jobs \ {j} : jobs'[k] = jobs[k]
  BY <1>2
<1> QED BY <1>1, <1>3, <1>5, <1>6, AccountsAssumption

\* The jobs after one is complete, whether or not an error is recorded after it.
LEMMA CompletedRows ==
  ASSUME TypeOK, NEW j \in DOMAIN jobs, jobs[j].status = "pending",
         jobs' \in {Completed(jobs, j), RecordFailure(Completed(jobs, j), j)}
  PROVE  /\ jobs' \in Seq(Job) /\ DOMAIN jobs' = DOMAIN jobs
         /\ jobs'[j].user = jobs[j].user /\ jobs'[j].status = "complete"
         /\ \A k \in DOMAIN jobs \ {j} : jobs'[k] = jobs[k]
<1> DEFINE x == [jobs[j] EXCEPT !.status = "complete", !.attempts = @ + 1]
<1>1. jobs[j] \in Job /\ jobs[j].attempts \in 0 .. MaxAttempts /\ jobs[j].attempts < MaxAttempts
  BY JobRows DEF Job
<1>2. Completed(jobs, j) = [jobs EXCEPT ![j] = x]
  BY <1>1, JobRows DEF Completed
<1>3. x.user = jobs[j].user /\ x.status = "complete"
  BY <1>1 DEF Job
<1>4. x \in Job
  <2>1. jobs[j].attempts + 1 \in 0 .. MaxAttempts
    BY <1>1, AccountsAssumption
  <2> QED BY <1>1, <2>1 DEF Job
<1> HIDE DEF x
<1>5. jobs' = [jobs EXCEPT ![j] = x]
  BY <1>2, <1>3 DEF RecordFailure
<1>6. jobs' \in Seq(Job) /\ DOMAIN jobs' = DOMAIN jobs
  BY <1>4, <1>5, JobRows, ExceptSeq
<1> QED BY <1>3, <1>5, <1>6

\* The sessions and accounts after an account has been removed.
LEMMA RemovedRows ==
  ASSUME TypeOK, NEW u \in DOMAIN users, RemoveAccount(u)
  PROVE  /\ users' \in Seq(User) /\ DOMAIN users' = DOMAIN users
         /\ users'[u].status = "deleted" /\ \A v \in DOMAIN users \ {u} : users'[v] = users[v]
         /\ sessions' \in Seq(Session) /\ DOMAIN sessions' = DOMAIN sessions
         /\ \A s \in DOMAIN sessions :
              /\ sessions'[s].user = sessions[s].user /\ sessions'[s].until = sessions[s].until
              /\ sessions'[s].state = "open" => sessions[s].state = "open" /\ s \notin SessionsOf(u)
<1> DEFINE x == [who |-> NoOne, status |-> "deleted"]
<1>1. users' = [users EXCEPT ![u] = x] /\ x \in User
  BY DEF RemoveAccount, User
<1>2. users' \in Seq(User) /\ DOMAIN users' = DOMAIN users
  BY <1>1, OneUser
<1>3. users'[u].status = "deleted" /\ \A v \in DOMAIN users \ {u} : users'[v] = users[v]
  BY <1>1
<1>4. \A s \in DOMAIN sessions : sessions[s] \in Session
  BY Rows DEF TypeOK
<1>5. sessions' = [s \in DOMAIN sessions |-> sessions'[s]]
  BY DEF RemoveAccount
<1>6. \A s \in DOMAIN sessions :
        /\ sessions'[s] \in Session
        /\ sessions'[s].user = sessions[s].user /\ sessions'[s].until = sessions[s].until
        /\ sessions'[s].state = "open" => sessions[s].state = "open" /\ s \notin SessionsOf(u)
  BY <1>4 DEF RemoveAccount, Session
<1> QED BY <1>2, <1>3, <1>5, <1>6, SessionsType

LEMMA ProcessType == ASSUME TypeOK, NEW j \in DOMAIN jobs, ProcessDeletion(j) PROVE TypeOK'
<1>1. jobs[j].status = "pending" /\ jobs[j].user \in DOMAIN users
  BY JobRows DEF ProcessDeletion, NextJob, Job
<1>2. handler' = handler /\ now' = now /\ tokens' = tokens
  BY DEF ProcessDeletion
<1>3. now' \in Nat /\ handler' \in [Handlers -> [op : Ops, token : Token] \cup {Idle}]
  BY <1>2 DEF TypeOK
<1>4. CASE /\ RemoveAccount(jobs[j].user)
           /\ jobs' \in {Completed(jobs, j), RecordFailure(Completed(jobs, j), j)}
  <2>1. \A k \in DOMAIN jobs' : /\ jobs'[k].status = "failed" => jobs'[k].attempts = MaxAttempts
                                /\ jobs'[k].status = "pending" => jobs'[k].attempts < MaxAttempts
    BY <1>1, <1>4, CompletedRows, JobRows
  <2> QED BY <1>1, <1>2, <1>3, <1>4, <2>1, CompletedRows, RemovedRows, SameRowsType
<1>5. CASE jobs' = RecordFailure(jobs, j) /\ UNCHANGED <<users, sessions>>
  <2>1. \A k \in DOMAIN jobs' : /\ jobs'[k].status = "failed" => jobs'[k].attempts = MaxAttempts
                                /\ jobs'[k].status = "pending" => jobs'[k].attempts < MaxAttempts
    BY <1>1, <1>5, RecordedRows, JobRows
  <2>2. users \in Seq(User) /\ sessions \in Seq(Session)
    BY DEF TypeOK
  <2> QED BY <1>1, <1>2, <1>3, <1>5, <2>1, <2>2, RecordedRows, SameRowsType
<1> QED BY <1>4, <1>5 DEF ProcessDeletion

LEMMA ExpiredType == ASSUME TypeOK, DeleteExpiredSessions PROVE TypeOK'
<1>1. PICK s \in DOMAIN sessions : sessions' = [sessions EXCEPT ![s].state = "gone"]
  BY DEF DeleteExpiredSessions
<1> DEFINE x == [sessions[s] EXCEPT !.state = "gone"]
<1>2. sessions[s] \in Session
  BY Rows DEF TypeOK
<1>3. x \in Session
  BY <1>2 DEF Session
<1>4. sessions' \in Seq(Session) /\ DOMAIN sessions' = DOMAIN sessions
  BY <1>1, <1>3, OneSession
<1>5. users' = users /\ jobs' = jobs /\ now' = now /\ tokens' = tokens /\ handler' = handler
  BY DEF DeleteExpiredSessions
<1>6. users' \in Seq(User) /\ now' \in Nat
      /\ handler' \in [Handlers -> [op : Ops, token : Token] \cup {Idle}]
  BY <1>5 DEF TypeOK
<1> QED BY <1>4, <1>5, <1>6, JobRows, SameRowsType

LEMMA TickType == ASSUME TypeOK, Tick PROVE TypeOK'
<1>1. now' \in Nat /\ handler' \in [Handlers -> [op : Ops, token : Token] \cup {Idle}]
  BY DEF TypeOK, Tick
<1>2. users \in Seq(User) /\ sessions \in Seq(Session)
  BY DEF TypeOK
<1>3. UNCHANGED <<users, sessions, jobs, tokens>>
  BY DEF Tick, tables
<1> QED BY <1>1, <1>2, <1>3, JobRows, SameRowsType

LEMMA NextType == TypeOK /\ [Next]_vars => TypeOK'
<1> SUFFICES ASSUME TypeOK, [Next]_vars PROVE TypeOK'
  OBVIOUS
<1>1. CASE \E who \in Subjects : Login(who)
  BY <1>1, LoginType
<1>2. CASE \E h \in Handlers, op \in Ops : Authenticate(h, op)
  BY <1>2, AuthenticateType
<1>3. CASE \E h \in Handlers : Refresh(h) \/ Logout(h) \/ RequestDeletion(h) \/ Fails(h)
  BY <1>3, RefreshType, LogoutType, RequestDeletionType, FailsType
<1>4. CASE Maintain \/ DeleteExpiredSessions \/ Tick
  BY <1>4, ProcessType, ExpiredType, TickType DEF Maintain
<1>5. CASE UNCHANGED vars
  BY <1>5 DEF TypeOK, vars, tables, User, Session, Job, Token
<1> QED BY <1>1, <1>2, <1>3, <1>4, <1>5 DEF Next

\* Every reachable state is well-formed: tokens and jobs name rows that exist, and a job
\* fails for good at its last attempt.
THEOREM AccountsTypes == Spec => []TypeOK
BY InitType, NextType, PTL DEF Spec

------------------------------------------------------------------------------
(* Accounts that are closed. *)

\* The part of AccountsClosed about one account.
Closed(u) ==
  IF users[u].status = "active" THEN JobsOf(u) = {}
  ELSE /\ \A s \in SessionsOf(u) : sessions[s].state # "open"
       /\ \E j \in JobsOf(u) : /\ JobsOf(u) = {j}
                               /\ jobs[j].status = "complete" <=> users[u].status = "deleted"

\* An account stays closed or open while its own row, its jobs and the sessions that are
\* open are not touched.
LEMMA ClosedKept ==
  ASSUME NEW u, Closed(u), users'[u].status = users[u].status,
         JobsOf(u)' = JobsOf(u),
         \A j \in JobsOf(u) : (jobs'[j].status = "complete") <=> (jobs[j].status = "complete"),
         users[u].status = "active" \/ \A s \in SessionsOf(u)' :
           s \in SessionsOf(u) /\ (sessions'[s].state = "open" => sessions[s].state = "open")
  PROVE  Closed(u)'
<1>1. CASE users[u].status = "active"
  BY <1>1 DEF Closed
<1>2. CASE users[u].status # "active"
  <2>1. \A s \in SessionsOf(u)' : sessions'[s].state # "open"
    BY <1>2 DEF Closed
  <2>2. PICK j \in JobsOf(u) :
          JobsOf(u) = {j} /\ (jobs[j].status = "complete" <=> users[u].status = "deleted")
    BY <1>2 DEF Closed
  <2>3. j \in JobsOf(u)' /\ JobsOf(u)' = {j}
        /\ (jobs'[j].status = "complete" <=> users'[u].status = "deleted")
    BY <2>2
  <2> QED BY <1>2, <2>1, <2>3 DEF Closed
<1> QED BY <1>1, <1>2

\* The same for every account, when no account and no job is new.
LEMMA AllClosedKept ==
  ASSUME TypeOK, AccountsClosed, users' = users, jobs' = jobs,
         \A u \in DOMAIN users : users[u].status = "active" \/ \A s \in SessionsOf(u)' :
           s \in SessionsOf(u) /\ (sessions'[s].state = "open" => sessions[s].state = "open")
  PROVE  AccountsClosed'
<1> SUFFICES ASSUME NEW u \in DOMAIN users PROVE Closed(u)'
  BY DEF AccountsClosed, Closed
<1>1. Closed(u) /\ JobsOf(u)' = JobsOf(u)
  BY DEF AccountsClosed, Closed, JobsOf
<1> QED BY <1>1, ClosedKept

\* Sessions that are revoked or removed leave every account as closed as it was.
LEMMA FewerOpen ==
  ASSUME TypeOK, AccountsClosed, users' = users, jobs' = jobs,
         DOMAIN sessions' = DOMAIN sessions,
         \A s \in DOMAIN sessions :
           /\ sessions'[s].user = sessions[s].user
           /\ sessions'[s].state = "open" => sessions[s].state = "open"
  PROVE  AccountsClosed'
BY AllClosedKept DEF SessionsOf

LEMMA SignInClosed ==
  ASSUME TypeOK, AccountsClosed, NEW u, NEW newUsers, SignIn(u, newUsers),
         newUsers[u].status = "active", u \in DOMAIN users => newUsers = users,
         u \notin DOMAIN users => /\ DOMAIN newUsers = DOMAIN users \cup {u}
                                 /\ \A v \in DOMAIN users : newUsers[v] = users[v]
  PROVE  AccountsClosed'
<1> DEFINE x == [user |-> u, until |-> Expiry, state |-> "open"]
<1>0. users' = newUsers /\ sessions' = Append(sessions, x) /\ jobs' = jobs
  BY DEF SignIn
<1>1. /\ DOMAIN sessions' = DOMAIN sessions \cup {Len(sessions) + 1}
      /\ Len(sessions) + 1 \notin DOMAIN sessions
      /\ \A s \in DOMAIN sessions : sessions'[s] = sessions[s]
      /\ sessions'[Len(sessions) + 1] = x
  <2> DEFINE T == {sessions[s] : s \in DOMAIN sessions} \cup {x}
  <2>1. sessions \in Seq(T)
    <3>1. sessions \in Seq(Session)
      BY DEF TypeOK
    <3> QED BY <3>1, Updated
  <2> QED BY <1>0, <2>1, Appended
<1> SUFFICES ASSUME NEW v \in DOMAIN users' PROVE Closed(v)'
  BY DEF AccountsClosed, Closed
<1>2. JobsOf(v)' = JobsOf(v)
  BY <1>0 DEF JobsOf
<1>3. CASE v \notin DOMAIN users
  <2>1. v = u
    BY <1>0, <1>3
  <2>2. JobsOf(v) = {}
    BY <1>3, JobRows DEF JobsOf, Job
  <2> QED BY <1>0, <1>2, <2>1, <2>2 DEF Closed
<1>4. CASE v \in DOMAIN users
  <2>1. Closed(v) /\ users'[v] = users[v]
    BY <1>0, <1>4 DEF AccountsClosed, Closed
  <2>2. users[v].status = "active" \/ \A s \in SessionsOf(v)' :
           s \in SessionsOf(v) /\ (sessions'[s].state = "open" => sessions[s].state = "open")
    <3>1. CASE v = u
      BY <1>0, <2>1, <3>1
    <3>2. CASE v # u
      BY <1>1, <3>2 DEF SessionsOf
    <3> QED BY <3>1, <3>2
  <2> QED BY <1>0, <1>2, <2>1, <2>2, ClosedKept
<1> QED BY <1>3, <1>4

LEMMA LoginClosed ==
  ASSUME TypeOK, AccountsClosed, NEW who \in Subjects, Login(who) PROVE AccountsClosed'
<1>0. users \in Seq(User) /\ Len(users) \in Nat /\ DOMAIN users = 1 .. Len(users)
  BY Rows DEF TypeOK
<1>1. CASE \E u \in Accounts(who) : users[u].status = "active" /\ SignIn(u, users)
  BY <1>1, SignInClosed DEF Accounts
<1>2. CASE SignIn(Len(users) + 1, Append(users, [who |-> who, status |-> "active"]))
  <2> DEFINE x == [who |-> who, status |-> "active"]
  <2>1. x \in User
    BY DEF User
  <2>2. /\ DOMAIN Append(users, x) = DOMAIN users \cup {Len(users) + 1}
        /\ Len(users) + 1 \notin DOMAIN users
        /\ \A v \in DOMAIN users : Append(users, x)[v] = users[v]
        /\ Append(users, x)[Len(users) + 1] = x
    BY <1>0, <2>1, Appended
  <2> DEFINE u == Len(users) + 1
             newUsers == Append(users, x)
  <2>3. SignIn(u, newUsers) /\ newUsers[u].status = "active"
    BY <1>2, <2>2
  <2>4. u \notin DOMAIN users /\ DOMAIN newUsers = DOMAIN users \cup {u}
        /\ \A v \in DOMAIN users : newUsers[v] = users[v]
    BY <2>2
  <2> HIDE DEF u, newUsers
  <2> QED BY <2>3, <2>4, SignInClosed
<1> QED BY <1>1, <1>2 DEF Login

LEMMA RefreshClosed ==
  ASSUME TypeOK, AccountsClosed, NEW h \in Handlers, Refresh(h) PROVE AccountsClosed'
<1> DEFINE s == handler[h].token.session
<1>1. s \in DOMAIN sessions /\ sessions[s] \in Session
  <2>1. s \in DOMAIN sessions
    BY Claims DEF Refresh
  <2> QED BY <2>1, Rows DEF TypeOK
<1>2. sessions' = [sessions EXCEPT ![s] = [sessions[s] EXCEPT !.until = Expiry]]
  BY <1>1 DEF Refresh
<1>3. \A r \in DOMAIN sessions : /\ sessions'[r].user = sessions[r].user
                                 /\ sessions'[r].state = sessions[r].state
  BY <1>1, <1>2 DEF Session
<1> QED BY <1>2, <1>3, FewerOpen DEF Refresh

LEMMA LogoutClosed ==
  ASSUME TypeOK, AccountsClosed, NEW h \in Handlers, Logout(h) PROVE AccountsClosed'
BY RevokedRows, FewerOpen DEF Logout

\* The request that finds its account active closes it; nobody else's is touched.
LEMMA RequestDeletionClosed ==
  ASSUME TypeOK, AccountsClosed, NEW h \in Handlers, RequestDeletion(h) PROVE AccountsClosed'
<1> DEFINE u == handler[h].token.user
           n == Len(jobs) + 1
<1>0. u \in DOMAIN users /\ users[u].status = "active"
  BY Claims DEF RequestDeletion
<1>1. /\ DOMAIN users' = DOMAIN users /\ users'[u].status = "deleting"
      /\ \A v \in DOMAIN users \ {u} : users'[v] = users[v]
  <2>1. users[u] \in User
    BY <1>0, Rows DEF TypeOK
  <2>2. users' = [users EXCEPT ![u] = [users[u] EXCEPT !.status = "deleting"]]
    BY <1>0 DEF RequestDeletion
  <2> QED BY <1>0, <2>1, <2>2 DEF User
<1>2. /\ DOMAIN sessions' = DOMAIN sessions
      /\ \A s \in DOMAIN sessions :
           /\ sessions'[s].user = sessions[s].user
           /\ sessions'[s].state = "open" => sessions[s].state = "open" /\ s \notin SessionsOf(u)
  BY RevokedRows DEF RequestDeletion
<1>3. /\ DOMAIN jobs' = DOMAIN jobs \cup {n} /\ n \notin DOMAIN jobs
      /\ (\A j \in DOMAIN jobs : jobs'[j] = jobs[j]) /\ jobs'[n] = NewJob(u)
  <2>1. jobs' = Append(jobs, NewJob(u)) /\ NewJob(u) \in Job
    BY <1>0, AccountsAssumption DEF RequestDeletion, NewJob, Job
  <2> QED BY <2>1, JobRows, Appended
<1> HIDE DEF u, n
<1> SUFFICES ASSUME NEW v \in DOMAIN users PROVE Closed(v)'
  BY <1>1 DEF AccountsClosed, Closed
<1>4. Closed(v)
  BY DEF AccountsClosed, Closed
<1>5. CASE v = u
  <2>1. JobsOf(v) = {}
    BY <1>0, <1>4, <1>5 DEF Closed
  <2>2. JobsOf(v)' = {n} /\ jobs'[n].status = "pending"
    BY <1>3, <1>5, <2>1 DEF JobsOf, NewJob
  <2>3. \A s \in SessionsOf(v)' : sessions'[s].state # "open"
    BY <1>2, <1>5 DEF SessionsOf
  <2> QED BY <1>1, <1>5, <2>2, <2>3 DEF Closed
<1>6. CASE v # u
  <2>1. JobsOf(v)' = JobsOf(v)
    BY <1>3, <1>6 DEF JobsOf, NewJob
  <2>2. \A j \in JobsOf(v) : jobs'[j] = jobs[j]
    BY <1>3 DEF JobsOf
  <2>3. \A s \in SessionsOf(v)' :
           s \in SessionsOf(v) /\ (sessions'[s].state = "open" => sessions[s].state = "open")
    BY <1>2 DEF SessionsOf
  <2> QED BY <1>1, <1>4, <1>6, <2>1, <2>2, <2>3, ClosedKept
<1> QED BY <1>5, <1>6

\* A deletion that is done, or has failed, leaves its account closed with its one job; the
\* jobs of other accounts are not touched.
LEMMA ProcessClosed ==
  ASSUME TypeOK, AccountsClosed, NEW j \in DOMAIN jobs, ProcessDeletion(j) PROVE AccountsClosed'
<1> DEFINE u == jobs[j].user
<1>0. jobs[j].status = "pending" /\ u \in DOMAIN users /\ j \in JobsOf(u)
  BY JobRows DEF ProcessDeletion, NextJob, Job, JobsOf
<1>1. users[u].status # "active" /\ JobsOf(u) = {j} /\ users[u].status # "deleted"
      /\ \A s \in SessionsOf(u) : sessions[s].state # "open"
  BY <1>0 DEF AccountsClosed
<1>2. /\ DOMAIN jobs' = DOMAIN jobs /\ jobs'[j].user = u
      /\ \A k \in DOMAIN jobs \ {j} : jobs'[k] = jobs[k]
  BY <1>0, CompletedRows, RecordedRows DEF ProcessDeletion
<1>3. \A v : JobsOf(v)' = JobsOf(v)
  BY <1>2 DEF JobsOf
<1>4. /\ DOMAIN users' = DOMAIN users /\ DOMAIN sessions' = DOMAIN sessions
      /\ \A v \in DOMAIN users \ {u} : users'[v] = users[v]
      /\ \A s \in DOMAIN sessions :
           /\ sessions'[s].user = sessions[s].user
           /\ sessions'[s].state = "open" => sessions[s].state = "open"
  BY <1>0, RemovedRows DEF ProcessDeletion
<1>5. (jobs'[j].status = "complete") <=> (users'[u].status = "deleted")
  <2>1. CASE /\ RemoveAccount(u)
             /\ jobs' \in {Completed(jobs, j), RecordFailure(Completed(jobs, j), j)}
    BY <1>0, <2>1, CompletedRows, RemovedRows
  <2>2. CASE jobs' = RecordFailure(jobs, j) /\ UNCHANGED users
    BY <1>0, <1>1, <2>2, RecordedRows
  <2> QED BY <2>1, <2>2 DEF ProcessDeletion
<1>6. users'[u].status # "active"
  <2>1. CASE RemoveAccount(u)
    BY <1>0, <2>1, RemovedRows
  <2>2. CASE UNCHANGED users
    BY <1>1, <2>2
  <2> QED BY <2>1, <2>2 DEF ProcessDeletion
<1> HIDE DEF u
<1> SUFFICES ASSUME NEW v \in DOMAIN users PROVE Closed(v)'
  BY <1>4 DEF AccountsClosed, Closed
<1>7. \A s \in SessionsOf(v)' :
         s \in SessionsOf(v) /\ (sessions'[s].state = "open" => sessions[s].state = "open")
  BY <1>4 DEF SessionsOf
<1>8. CASE v = u
  <2>1. \A s \in SessionsOf(v)' : sessions'[s].state # "open"
    BY <1>1, <1>7, <1>8
  <2>2. JobsOf(v)' = {j}
    BY <1>1, <1>3, <1>8
  <2> QED BY <1>5, <1>6, <1>8, <2>1, <2>2 DEF Closed
<1>9. CASE v # u
  <2>1. \A k \in JobsOf(v) : jobs'[k] = jobs[k]
    BY <1>0, <1>1, <1>2, <1>9 DEF JobsOf
  <2>2. Closed(v)
    BY DEF AccountsClosed, Closed
  <2> QED BY <1>3, <1>4, <1>7, <1>9, <2>1, <2>2, ClosedKept
<1> QED BY <1>8, <1>9

LEMMA ExpiredClosed ==
  ASSUME TypeOK, AccountsClosed, DeleteExpiredSessions PROVE AccountsClosed'
<1>1. \A s \in DOMAIN sessions : sessions[s] \in Session
  BY Rows DEF TypeOK
<1>2. PICK s \in DOMAIN sessions : sessions' = [sessions EXCEPT ![s] = [sessions[s] EXCEPT !.state = "gone"]]
  BY DEF DeleteExpiredSessions
<1>3. \A r \in DOMAIN sessions :
        /\ sessions'[r].user = sessions[r].user
        /\ sessions'[r].state = "open" => sessions[r].state = "open"
  BY <1>1, <1>2 DEF Session
<1> QED BY <1>2, <1>3, FewerOpen DEF DeleteExpiredSessions

LEMMA NextClosed == TypeOK /\ AccountsClosed /\ [Next]_vars => AccountsClosed'
<1> SUFFICES ASSUME TypeOK, AccountsClosed, [Next]_vars PROVE AccountsClosed'
  OBVIOUS
<1>1. CASE \E who \in Subjects : Login(who)
  BY <1>1, LoginClosed
<1>2. CASE UNCHANGED tables
  BY <1>2, FewerOpen DEF tables
<1>3. CASE \E h \in Handlers : Refresh(h) \/ Logout(h) \/ RequestDeletion(h)
  BY <1>3, RefreshClosed, LogoutClosed, RequestDeletionClosed
<1>4. CASE Maintain \/ DeleteExpiredSessions
  BY <1>4, ProcessClosed, ExpiredClosed DEF Maintain
<1> QED BY <1>1, <1>2, <1>3, <1>4 DEF Next, Authenticate, Fails, Tick, vars, tables

\* From the request for its deletion on an account has no open session, and one job, which
\* tells whether it is deleted.
THEOREM AccountsStayClosed == Spec => []AccountsClosed
<1>1. Init => AccountsClosed
  BY DEF Init, AccountsClosed
<1> QED BY <1>1, NextClosed, AccountsTypes, PTL DEF Spec

------------------------------------------------------------------------------
(* What has ended stays so. *)

\* A session that does not open, and gets another expiry only while it is open, does not
\* come back; nor does time.
LEMMA NotReopened ==
  ASSUME TypeOK, now' = now \/ Tick, NEW s \in DOMAIN sessions,
         sessions'[s].state = "open" => sessions[s].state = "open",
         sessions'[s].until = sessions[s].until \/ Open(s)
  PROVE  ~Open(s) => ~Open(s)'
<1>1. sessions[s].until \in Nat /\ now \in Nat
  <2>1. sessions[s] \in Session /\ now \in Nat
    BY Rows DEF TypeOK
  <2> QED BY <2>1 DEF Session
<1> QED BY <1>1 DEF Open, Tick

LEMMA SignInEnded ==
  ASSUME TypeOK, NEW u, NEW newUsers \in Seq(User), SignIn(u, newUsers),
         \A v \in DOMAIN users : newUsers[v] = users[v]
  PROVE  /\ \A s \in DOMAIN sessions : ~Open(s) => ~Open(s)'
         /\ \A v \in DOMAIN users : users[v].status # "active" => users'[v].status # "active"
<1> DEFINE x == [user |-> u, until |-> Expiry, state |-> "open"]
           T == {sessions[s] : s \in DOMAIN sessions} \cup {x}
<1>1. sessions' = Append(sessions, x) /\ users' = newUsers /\ now' = now
  BY DEF SignIn
<1>2. sessions \in Seq(T)
  <2>1. sessions \in Seq(Session)
    BY DEF TypeOK
  <2> QED BY <2>1, Updated
<1>3. \A s \in DOMAIN sessions : sessions'[s] = sessions[s]
  BY <1>1, <1>2, Appended
<1> QED BY <1>1, <1>3, NotReopened

LEMMA NextEnded ==
  ASSUME TypeOK, [Next]_vars
  PROVE  /\ \A s \in DOMAIN sessions : ~Open(s) => ~Open(s)'
         /\ \A u \in DOMAIN users : users[u].status # "active" => users'[u].status # "active"
<1>0. \A s \in DOMAIN sessions : sessions[s] \in Session
  BY Rows DEF TypeOK
<1>1. CASE \E who \in Subjects : Login(who)
  <2>0. PICK who \in Subjects : Login(who)
    BY <1>1
  <2>1. users \in Seq(User) /\ [who |-> who, status |-> "active"] \in User
    BY DEF TypeOK, User
  <2>2. CASE \E u \in Accounts(who) : users[u].status = "active" /\ SignIn(u, users)
    BY <2>1, <2>2, SignInEnded
  <2>3. CASE SignIn(Len(users) + 1, Append(users, [who |-> who, status |-> "active"]))
    <3> DEFINE u == Len(users) + 1
               newUsers == Append(users, [who |-> who, status |-> "active"])
    <3>1. /\ newUsers \in Seq(User) /\ SignIn(u, newUsers)
          /\ \A v \in DOMAIN users : newUsers[v] = users[v]
      BY <2>1, <2>3, Appended
    <3> HIDE DEF u, newUsers
    <3> QED BY <3>1, SignInEnded
  <2> QED BY <2>0, <2>2, <2>3 DEF Login
<1>2. CASE \E h \in Handlers : Refresh(h)
  <2>1. PICK h \in Handlers : Refresh(h)
    BY <1>2
  <2> DEFINE t == handler[h].token.session
  <2>2. t \in DOMAIN sessions /\ Open(t) /\ users' = users /\ now' = now
        /\ sessions' = [sessions EXCEPT ![t] = [sessions[t] EXCEPT !.until = Expiry]]
    BY <2>1, Claims DEF Refresh
  <2>3. \A s \in DOMAIN sessions :
          /\ sessions'[s].state = sessions[s].state
          /\ sessions'[s].until = sessions[s].until \/ Open(s)
    BY <1>0, <2>2 DEF Session
  <2> QED BY <2>2, <2>3, NotReopened
<1>3. CASE \E h \in Handlers : Logout(h)
  BY <1>3, RevokedRows, NotReopened DEF Logout
<1>4. CASE \E h \in Handlers : RequestDeletion(h)
  <2>1. PICK h \in Handlers : RequestDeletion(h)
    BY <1>4
  <2> DEFINE u == handler[h].token.user
  <2>2. u \in DOMAIN users /\ users' = [users EXCEPT ![u].status = "deleting"]
        /\ users[u].status = "active" /\ now' = now
    BY <2>1, Claims DEF RequestDeletion
  <2>3. \A s \in DOMAIN sessions : ~Open(s) => ~Open(s)'
    BY <2>1, <2>2, RevokedRows, NotReopened DEF RequestDeletion
  <2> QED BY <2>2, <2>3
<1>5. CASE Maintain
  <2>1. PICK j \in DOMAIN jobs : ProcessDeletion(j)
    BY <1>5 DEF Maintain
  <2>2. jobs[j].user \in DOMAIN users /\ now' = now
    BY <2>1, JobRows DEF ProcessDeletion, Job
  <2>3. CASE RemoveAccount(jobs[j].user)
    <3>1. \A u \in DOMAIN users : users'[u] = users[u] \/ users'[u].status = "deleted"
      BY <2>2, <2>3, RemovedRows
    <3>2. \A s \in DOMAIN sessions : ~Open(s) => ~Open(s)'
      BY <2>2, <2>3, RemovedRows, NotReopened
    <3> QED BY <3>1, <3>2
  <2>4. CASE UNCHANGED <<users, sessions>>
    BY <2>2, <2>4, NotReopened
  <2> QED BY <2>1, <2>3, <2>4 DEF ProcessDeletion
<1>6. CASE DeleteExpiredSessions
  <2>1. PICK r \in DOMAIN sessions :
          sessions' = [sessions EXCEPT ![r] = [sessions[r] EXCEPT !.state = "gone"]]
    BY <1>6 DEF DeleteExpiredSessions
  <2>2. \A s \in DOMAIN sessions :
          /\ sessions'[s].state = "open" => sessions[s].state = "open"
          /\ sessions'[s].until = sessions[s].until
    BY <1>0, <2>1 DEF Session
  <2> QED BY <1>6, <2>2, NotReopened DEF DeleteExpiredSessions
<1>7. CASE UNCHANGED tables /\ (now' = now \/ Tick)
  BY <1>7, NotReopened DEF tables
<1> QED BY <1>1, <1>2, <1>3, <1>4, <1>5, <1>6, <1>7 DEF Next, Authenticate, Fails, Tick, vars

\* No step of any request, of the maintenance loop or of time makes a session usable again
\* that was revoked or has expired, or an account active that was not.
THEOREM EndedSessionsStayEnded == Spec => EndedStaysEnded
<1>1. TypeOK /\ [Next]_vars =>
        [/\ \A s \in DOMAIN sessions : ~Open(s) => ~Open(s)'
         /\ \A u \in DOMAIN users : users[u].status # "active" => users'[u].status # "active"]_vars
  BY NextEnded
<1> QED BY <1>1, AccountsTypes, PTL DEF Spec, EndedStaysEnded
=============================================================================
