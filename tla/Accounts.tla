------------------------------ MODULE Accounts ------------------------------
(***************************************************************************)
(* The one account and its sessions: backend/src/long_invest/modules/auth/ *)
(* (service.py, account_service.py, session_policy.py, application.py,     *)
(* postgres_rate_limit.py).                                                *)
(*                                                                         *)
(* Nothing locks the rows of the account or of a session, so a transaction *)
(* is what it read and, later, the columns it writes; only the change of   *)
(* a password compares the version.  The rate limiter commits on its own.  *)
(***************************************************************************)
EXTENDS Integers, FiniteSets

CONSTANTS
  Worker,      \* transactions under way at the same time
  Session,     \* rows of user_session there may be
  Attempt,     \* rows of auth_login_rate_limit_attempt there may be
  Ip,          \* addresses logins come from
  PerIp,       \* RateLimitConfig.per_ip
  Name,        \* usernames they are tried with
  Owner,       \*   and the one of the account
  PerUser,     \* RateLimitConfig.per_username
  Overall,     \* RateLimitConfig.global_failures
  Key,         \* idempotency keys of requests that revoke
  MaxPasswords \* bound on the passwords there will have been

\* The limits are counts; a limit of zero lets nobody in.
ASSUME LimitAssumption == PerIp \in Nat /\ PerUser \in Nat /\ Overall \in Nat
\* A key is never the mark of a session that no request has ended.
ASSUME KeyAssumption == "none" \notin Key

VARIABLES
  user,        \* the app_user row; password is who knows what, not the hash
  session,     \* [Session -> user_session row]
  attempt,     \* [Attempt -> its row, and whether the window still holds it]
  worker,      \* [Worker -> what its transaction does and what it has read]
  answered,    \* the keys whose request has been audited
  overtaken    \* a reset has written over a change it had not read

accountVars == <<user, session, attempt, worker, answered, overtaken>>

NoSession == [status |-> "none", version |-> 0, password |-> 0, aged |-> FALSE,
              after |-> {}, endedBy |-> "none"]
NoAttempt == [outcome |-> "none", ip |-> "none", name |-> "none", recent |-> FALSE]
\* The versions are those of the user_session row a request read, or of the
\* app_user row a login or a reset read.
Ready == [does |-> "nothing", session |-> "none", attempt |-> "none",
          verdict |-> "none", version |-> 0, password |-> 0]

Ended == {"EXPIRED", "REVOKED", "PASSWORD_CHANGED", "USER_DISABLED"}

AccountsInit ==
  /\ user = [status |-> "ACTIVE", version |-> 1, password |-> 1]
  /\ session = [s \in Session |-> NoSession]
  /\ attempt = [a \in Attempt |-> NoAttempt]
  /\ worker = [w \in Worker |-> Ready]
  /\ answered = {}
  /\ overtaken = FALSE

Does(w, what) == worker[w].does = what
Ends(w) == worker' = [worker EXCEPT ![w] = Ready]
-----------------------------------------------------------------------------
(* Logging in, under the rate limit.                                        *)
\* A slip to catch: only logins that have failed already count.
CountedFailures == {a \in Attempt : attempt[a].recent /\ attempt[a].outcome = "FAILED"}
\* _COUNTED_OUTCOMES: a login that has not ended holds its place.
Counted ==
  {a \in Attempt : attempt[a].recent /\ attempt[a].outcome \in {"PENDING", "FAILED"}}
From(field, value) == {a \in Counted : attempt[a][field] = value}
Allowed(ip, name) ==
  /\ Cardinality(From("ip", ip)) < PerIp
  /\ Cardinality(From("name", name)) < PerUser
  /\ Cardinality(Counted) < Overall
\* check, under the advisory lock; a login that is refused leaves no trace here.
Check(w, ip, name, a) ==
  /\ Does(w, "nothing") /\ attempt[a] = NoAttempt /\ Allowed(ip, name)
  /\ attempt' = [attempt EXCEPT ![a] =
       [outcome |-> "PENDING", ip |-> ip, name |-> name, recent |-> TRUE]]
  /\ worker' = [worker EXCEPT ![w] = [Ready EXCEPT !.does = "login", !.attempt = a]]
  /\ UNCHANGED <<user, session, answered, overtaken>>
\* find_user_by_username finds the account under its own name only.
Stranger(w) == attempt[worker[w].attempt].name # Owner
ReadUser(w) ==
  /\ Does(w, "login") /\ worker[w].version = 0 /\ ~Stranger(w)
  /\ worker' = [worker EXCEPT ![w].verdict = user.status, ![w].version = user.version,
                              ![w].password = user.password]
  /\ UNCHANGED <<user, session, attempt, answered, overtaken>>
Outcome(a, outcome) == attempt' = [attempt EXCEPT ![a].outcome = outcome]
\* No such account, wrong password, disabled account, or the hash was replaced
\* during an upgrade.
LoginFails(w) ==
  /\ Does(w, "login") /\ (worker[w].version > 0 \/ Stranger(w))
  /\ Outcome(worker[w].attempt, "FAILED")
  /\ Ends(w)
  /\ UNCHANGED <<user, session, answered, overtaken>>
\* The finally of login: the place is given back before the session is committed.
LoginPasses(w) ==
  /\ Does(w, "login") /\ worker[w].verdict = "ACTIVE"
  /\ Outcome(worker[w].attempt, "SUCCEEDED")
  /\ worker' = [worker EXCEPT ![w].does = "commit"]
  /\ UNCHANGED <<user, session, answered, overtaken>>
NewSession(row) ==
  [NoSession EXCEPT !.status = "ACTIVE", !.version = row.version,
                    !.password = row.password, !.after = answered]
CommitLogin(w, s) ==
  /\ Does(w, "commit") /\ session[s] = NoSession
  /\ session' = [session EXCEPT ![s] = NewSession(worker[w])]
  /\ Ends(w)
  /\ UNCHANGED <<user, attempt, answered, overtaken>>
\* A database error on the way: the finally gives the place back all the same.
LoginRaises(w) ==
  /\ Does(w, "login")
  /\ Outcome(worker[w].attempt, "SUCCEEDED")
  /\ Ends(w)
  /\ UNCHANGED <<user, session, answered, overtaken>>
\* The process goes away, or the commit fails.
Abort(w) ==
  /\ ~Does(w, "nothing") /\ Ends(w)
  /\ UNCHANGED <<user, session, attempt, answered, overtaken>>
WindowPasses(a) ==
  /\ attempt[a].recent
  /\ attempt' = [attempt EXCEPT ![a].recent = FALSE]
  /\ UNCHANGED <<user, session, worker, answered, overtaken>>
-----------------------------------------------------------------------------
(* Requests of a session.                                                   *)
\* A slip to catch: the version the session was issued under is not compared.
VerdictUnversioned(row) ==
  IF row.status # "ACTIVE" THEN row.status
  ELSE IF user.status # "ACTIVE" THEN "USER_DISABLED"
  ELSE IF row.aged THEN "EXPIRED" ELSE "ACTIVE"
\* record_request: the status the request finds, in this order.
Verdict(row) ==
  IF row.status # "ACTIVE" THEN row.status
  ELSE IF user.status # "ACTIVE" THEN "USER_DISABLED"
  ELSE IF row.version # user.version THEN "PASSWORD_CHANGED"
  ELSE IF row.aged THEN "EXPIRED" ELSE "ACTIVE"
\* find_session_by_digest and get_user, and record_request on what they return.
ReadSession(w, s, what) ==
  /\ Does(w, "nothing") /\ session[s] # NoSession
  /\ worker' = [worker EXCEPT ![w] =
       [Ready EXCEPT !.does = what, !.session = s, !.verdict = Verdict(session[s]),
                     !.version = session[s].version]]
  /\ UNCHANGED <<user, session, attempt, answered, overtaken>>
\* A slip to catch: the status the request found is written whatever it is.
WrittenAlways(s, verdict) == [session EXCEPT ![s].status = verdict]
\* The flush writes the status only when the request has changed it.
Written(s, verdict) ==
  IF verdict = "ACTIVE" THEN session ELSE [session EXCEPT ![s].status = verdict]
\* authenticate, and issue_csrf and validate_csrf which call it: a refusal commits.
Authenticate(w) ==
  /\ Does(w, "request") \/ (Does(w, "change") /\ worker[w].verdict # "ACTIVE")
  /\ session' = Written(worker[w].session, worker[w].verdict)
  /\ Ends(w)
  /\ UNCHANGED <<user, attempt, answered, overtaken>>
\* Idle for 30 days, or 90 days old.
Age(s) ==
  /\ session[s].status = "ACTIVE" /\ ~session[s].aged
  /\ session' = [session EXCEPT ![s].aged = TRUE]
  /\ UNCHANGED <<user, attempt, worker, answered, overtaken>>
\* revoke: only a session that is ACTIVE is ended.
Revoked(scope, status, key) ==
  [s \in Session |-> IF s \in scope /\ session[s].status = "ACTIVE"
                       THEN [session[s] EXCEPT !.status = status, !.endedBy = key]
                       ELSE session[s]]
\* A slip to catch: the audit event of the key is not looked up.
FreshAlways(k) == TRUE
\* find_request_replay, under the advisory lock of the key.
Fresh(k) == k \notin answered
\* logout, revoke_session, revoke_other_sessions, revoke_all_sessions.
Revoke(k, s, scope) ==
  /\ session[s] # NoSession /\ Verdict(session[s]) = "ACTIVE" /\ Fresh(k)
  /\ scope \in {{t} : t \in Session} \cup {Session \ {s}, Session}
  /\ session' = Revoked(scope, "REVOKED", k)
  /\ answered' = answered \cup {k}
  /\ UNCHANGED <<user, attempt, worker, overtaken>>
-----------------------------------------------------------------------------
(* Changing the password, and the administrator's commands.                 *)
\* advance_password_version compares the version in the UPDATE.
Unchanged(w) == user.version = worker[w].version
ChangePassword(w, s) ==
  /\ Does(w, "change") /\ user.password < MaxPasswords
  /\ worker[w].verdict = "ACTIVE" /\ Unchanged(w)
  /\ session[s] = NoSession
  /\ LET changed == [user EXCEPT !.version = @ + 1, !.password = @ + 1] IN
       /\ user' = changed
       /\ session' = [Revoked(Session, "PASSWORD_CHANGED", "none")
                        EXCEPT ![s] = NewSession(changed)]
  /\ Ends(w)
  /\ UNCHANGED <<attempt, answered, overtaken>>
\* The UPDATE finds no row: only the audit event is committed.
ChangeDenied(w) ==
  /\ Does(w, "change") /\ worker[w].verdict = "ACTIVE" /\ ~Unchanged(w)
  /\ Ends(w)
  /\ UNCHANGED <<user, session, attempt, answered, overtaken>>
BeginReset(w) ==
  /\ Does(w, "nothing")
  /\ worker' = [worker EXCEPT ![w] = [Ready EXCEPT !.does = "reset", !.version = user.version]]
  /\ UNCHANGED <<user, session, attempt, answered, overtaken>>
\* The new version is one more than the one that was read.
ResetPassword(w) ==
  /\ Does(w, "reset") /\ user.password < MaxPasswords
  /\ user' = [user EXCEPT !.version = worker[w].version + 1, !.password = @ + 1]
  /\ overtaken' = (overtaken \/ user.version # worker[w].version)
  /\ session' = Revoked(Session, "PASSWORD_CHANGED", "none")
  /\ Ends(w)
  /\ UNCHANGED <<attempt, answered>>
Disable ==
  /\ user.status = "ACTIVE"
  /\ user' = [user EXCEPT !.status = "DISABLED"]
  /\ session' = Revoked(Session, "USER_DISABLED", "none")
  /\ UNCHANGED <<attempt, worker, answered, overtaken>>
Enable ==
  /\ user.status = "DISABLED"
  /\ user' = [user EXCEPT !.status = "ACTIVE"]
  /\ UNCHANGED <<session, attempt, worker, answered, overtaken>>
RevokeAll ==
  /\ session' = Revoked(Session, "REVOKED", "none")
  /\ UNCHANGED <<user, attempt, worker, answered, overtaken>>

AccountsNext ==
  \/ \E w \in Worker :
       \/ \E ip \in Ip, name \in Name, a \in Attempt : Check(w, ip, name, a)
       \/ ReadUser(w) \/ LoginFails(w) \/ LoginPasses(w) \/ LoginRaises(w)
       \/ Abort(w) \/ ChangeDenied(w)
       \/ \E s \in Session : \/ CommitLogin(w, s) \/ ChangePassword(w, s)
                             \/ ReadSession(w, s, "request")
                             \/ ReadSession(w, s, "change")
       \/ Authenticate(w) \/ BeginReset(w) \/ ResetPassword(w)
  \/ \E a \in Attempt : WindowPasses(a)
  \/ \E s \in Session : Age(s)
  \/ \E k \in Key, s \in Session, scope \in SUBSET Session : Revoke(k, s, scope)
  \/ Disable \/ Enable \/ RevokeAll

AccountsSpec == AccountsInit /\ [][AccountsNext]_accountVars
-----------------------------------------------------------------------------
(* Logins that run at the same time stay within the limits together: in no  *)
(* window are there more of them that failed or may still fail.             *)
LimitHolds ==
  LET held == {a \in Attempt : attempt[a].recent /\ attempt[a].outcome \in {"PENDING", "FAILED"}}
  IN /\ Cardinality(held) <= Overall
     /\ \A ip \in Ip : Cardinality({a \in held : attempt[a].ip = ip}) <= PerIp
     /\ \A name \in Name : Cardinality({a \in held : attempt[a].name = name}) <= PerUser
(* A request is let through only in a session issued under the password of  *)
(* today: a login or a change that another change of the password overtakes *)
(* leaves no session that works.                                            *)
ServedUnderCurrent ==
  [][\A w \in Worker, s \in Session :
       ~Does(w, "request") /\ worker'[w].does = "request" /\ worker'[w].session = s
       /\ worker'[w].verdict = "ACTIVE" /\ ~overtaken
         => session[s].password = user.password]_accountVars
(* A session that has ended never comes back, whatever the requests that    *)
(* have read it before still write.                                         *)
EndedForGood ==
  [][\A s \in Session : session[s].status \in Ended => session'[s].status \in Ended]_accountVars
(* The repetition of a request that revokes ends nothing that did not exist *)
(* when the request took effect.                                            *)
ReplayEndsNothing ==
  \A s \in Session : session[s].endedBy \notin session[s].after

\* No session comes back, and none serves under a password that is no more.
SessionsSound == EndedForGood /\ ServedUnderCurrent
=============================================================================
