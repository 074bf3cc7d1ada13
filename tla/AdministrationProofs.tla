------------------------ MODULE AdministrationProofs ------------------------
(***************************************************************************)
(* Proofs about the components that MCAdministration runs, each for any    *)
(* values of its constants.                                                *)
(*                                                                         *)
(* Accounts: a login under way owns the one PENDING row it writes to       *)
(* (OwnPlace), and whatever carries a version carries the password that    *)
(* went with it (Agrees).  Calendar: the pointer names the newest version  *)
(* and every override ever answered still stands in it (OverridesStand),   *)
(* on top of what an import or restore confirmed (StillCovered).           *)
(* Securities: what a universe froze is the master at the version it names *)
(* (Frozen).  Strategies: a version is bound once, by the run that tested  *)
(* the draft it froze (PassedOnDraft, BoundOnce).  Screening: what is      *)
(* final stays.  Watchlists: the three locks (LocksHeld) make what is      *)
(* about to be committed still follow from the row, and the advice about   *)
(* to be given still true (EffectsFollow, AdviceStands).                   *)
(***************************************************************************)
EXTENDS MCAdministration, FiniteSetTheorems, SequenceTheorems, TLAPS

-----------------------------------------------------------------------------
(* The account: the limit on logins.                                        *)

AttemptsTyped ==
  attempt \in [Attempt -> [outcome : {"none", "PENDING", "FAILED", "SUCCEEDED"},
                           ip : Ip \cup {"none"}, name : Name \cup {"none"},
                           recent : BOOLEAN]]

WorkersTyped ==
  /\ worker \in [Worker -> [does : {"nothing", "login", "commit", "request", "change", "reset"},
                            session : Session \cup {"none"}, attempt : Attempt \cup {"none"},
                            verdict : {"none", "ACTIVE", "DISABLED"} \cup Ended,
                            version : Nat, password : Nat]]
  /\ \A w \in Worker : worker[w].does \in {"request", "change"} =>
       worker[w].verdict \in Ended \cup {"ACTIVE"}
  /\ user \in [status : {"ACTIVE", "DISABLED"}, version : Nat \ {0}, password : Nat]

\* A login under way holds a place of its own, which has not ended.
OwnPlace ==
  \A w \in Worker : Does(w, "login") =>
    /\ worker[w].attempt \in Attempt
    /\ attempt[worker[w].attempt].outcome = "PENDING"
    /\ \A v \in Worker : v # w /\ Does(v, "login") => worker[v].attempt # worker[w].attempt

\* The places that count are few, and LimitHolds is said of them.
Within ==
  /\ IsFiniteSet(Counted) /\ Cardinality(Counted) <= Overall
  /\ \A ip \in Ip : Cardinality(From("ip", ip)) <= PerIp
  /\ \A name \in Name : Cardinality(From("name", name)) <= PerUser

SessionRow == [status : {"none", "ACTIVE"} \cup Ended, version : Nat, password : Nat,
               aged : BOOLEAN, after : SUBSET Key, endedBy : Key \cup {"none"}]
SessionsTyped ==
  /\ session \in [Session -> SessionRow]
  /\ \A s \in Session : session[s].status = "none" => session[s] = NoSession
  /\ answered \subseteq Key /\ overtaken \in BOOLEAN

\* What carries a version carries the password that went with it, as long as no
\* reset has written over a change it had not read.
Agrees(row) ==
  row.version <= user.version /\ (row.version = user.version => row.password = user.password)
AllAgree ==
  ~overtaken =>
    /\ \A s \in Session : Agrees(session[s])
    /\ \A w \in Worker : worker[w].does \in {"login", "commit"} => Agrees(worker[w])

\* A request finds a session ended, or ACTIVE.
LEMMA VerdictTyped ==
  ASSUME SessionsTyped, NEW s \in Session, session[s] # NoSession
  PROVE  Verdict(session[s]) \in Ended \cup {"ACTIVE"}
<1>1. session[s] \in SessionRow /\ session[s].status # "none"
  BY DEF SessionsTyped
<1> QED BY <1>1 DEF SessionRow, Verdict, Ended

\* Ending sessions and issuing new ones keep the rows well formed.
LEMMA RevokedTyped ==
  ASSUME SessionsTyped, NEW scope, NEW status \in Ended, NEW key \in Key \cup {"none"}
  PROVE  /\ Revoked(scope, status, key) \in [Session -> SessionRow]
         /\ \A s \in Session : Revoked(scope, status, key)[s].status = "none" =>
              Revoked(scope, status, key)[s] = NoSession
<1> DEFINE R(s) == IF s \in scope /\ session[s].status = "ACTIVE"
                     THEN [session[s] EXCEPT !.status = status, !.endedBy = key]
                     ELSE session[s]
<1>1. ASSUME NEW s \in Session
      PROVE  R(s) \in SessionRow /\ (R(s).status = "none" => R(s) = NoSession)
  BY DEF SessionsTyped, SessionRow, Ended
<1>2. Revoked(scope, status, key) = [s \in Session |-> R(s)]
  BY DEF Revoked
<1> HIDE DEF R
<1> QED BY <1>1, <1>2

LEMMA NewSessionTyped ==
  ASSUME SessionsTyped, NEW row, row.version \in Nat, row.password \in Nat
  PROVE  /\ NewSession(row) \in SessionRow
         /\ NewSession(row).status = "ACTIVE"
         /\ NewSession(row).version = row.version /\ NewSession(row).password = row.password
BY DEF SessionsTyped, SessionRow, NewSession, NoSession

\* Every step keeps the rows and the workers well formed.
AccountsTyped == AttemptsTyped /\ WorkersTyped /\ SessionsTyped

LEMMA AccountsTypedInit == AccountsInit => AccountsTyped
<1> SUFFICES ASSUME AccountsInit PROVE AccountsTyped
  OBVIOUS
<1>1. NoSession \in SessionRow
  BY DEF SessionRow, NoSession
<1>2. SessionsTyped
  BY <1>1 DEF AccountsInit, SessionsTyped
<1>3. AttemptsTyped
  BY DEF AccountsInit, AttemptsTyped, NoAttempt
<1>4. WorkersTyped
  BY DEF AccountsInit, WorkersTyped, Ready
<1> QED BY <1>2, <1>3, <1>4 DEF AccountsTyped

LEMMA AccountsTypedNext ==
  ASSUME AccountsTyped, AccountsNext PROVE AccountsTyped'
<1> USE DEF AccountsTyped
<1>1. ASSUME NEW w \in Worker, NEW ip \in Ip, NEW name \in Name, NEW a \in Attempt,
             Check(w, ip, name, a)
      PROVE  AccountsTyped'
  <2>1. AttemptsTyped'
    BY <1>1 DEF Check, AttemptsTyped
  <2>2. WorkersTyped'
    BY <1>1 DEF Check, WorkersTyped, Ready
  <2>3. SessionsTyped'
    BY <1>1 DEF Check, SessionsTyped
  <2> QED BY <2>1, <2>2, <2>3
<1>2. ASSUME NEW w \in Worker, ReadUser(w) PROVE AccountsTyped'
  <2>1. AttemptsTyped'
    BY <1>2 DEF ReadUser, AttemptsTyped
  <2>2. WorkersTyped'
    BY <1>2 DEF ReadUser, WorkersTyped
  <2>3. SessionsTyped'
    BY <1>2 DEF ReadUser, SessionsTyped
  <2> QED BY <2>1, <2>2, <2>3
<1>3. ASSUME NEW w \in Worker, LoginFails(w) \/ LoginRaises(w) PROVE AccountsTyped'
  <2>1. AttemptsTyped'
    BY <1>3 DEF LoginFails, LoginRaises, AttemptsTyped, Outcome
  <2>2. WorkersTyped'
    BY <1>3 DEF LoginFails, LoginRaises, WorkersTyped, Ends, Ready
  <2>3. SessionsTyped'
    BY <1>3 DEF LoginFails, LoginRaises, SessionsTyped
  <2> QED BY <2>1, <2>2, <2>3
<1>4. ASSUME NEW w \in Worker, LoginPasses(w) PROVE AccountsTyped'
  <2>1. AttemptsTyped'
    BY <1>4 DEF LoginPasses, AttemptsTyped, Outcome
  <2>2. WorkersTyped'
    BY <1>4 DEF LoginPasses, WorkersTyped
  <2>3. SessionsTyped'
    BY <1>4 DEF LoginPasses, SessionsTyped
  <2> QED BY <2>1, <2>2, <2>3
<1>5. ASSUME NEW w \in Worker, Abort(w) \/ ChangeDenied(w) PROVE AccountsTyped'
  <2>1. worker' = [worker EXCEPT ![w] = Ready] /\ UNCHANGED <<user, session, attempt, answered, overtaken>>
    BY <1>5 DEF Abort, ChangeDenied, Ends
  <2>2. WorkersTyped'
    BY <2>1 DEF WorkersTyped, Ready
  <2> QED BY <2>1, <2>2 DEF AttemptsTyped, SessionsTyped
<1>6. ASSUME NEW w \in Worker, NEW s \in Session, CommitLogin(w, s) PROVE AccountsTyped'
  <2>1. NewSession(worker[w]) \in SessionRow /\ NewSession(worker[w]).status = "ACTIVE"
    BY NewSessionTyped DEF WorkersTyped
  <2>2. SessionsTyped'
    BY <1>6, <2>1 DEF CommitLogin, SessionsTyped
  <2>3. WorkersTyped'
    BY <1>6 DEF CommitLogin, Ends, Ready, WorkersTyped
  <2> QED BY <1>6, <2>2, <2>3 DEF CommitLogin, AttemptsTyped
<1>7. ASSUME NEW w \in Worker, NEW s \in Session, ChangePassword(w, s) PROVE AccountsTyped'
  <2> DEFINE changed == [user EXCEPT !.version = @ + 1, !.password = @ + 1]
             revoked == Revoked(Session, "PASSWORD_CHANGED", "none")
  <2>1. /\ user' = changed /\ session' = [revoked EXCEPT ![s] = NewSession(changed)]
        /\ worker' = [worker EXCEPT ![w] = Ready] /\ UNCHANGED <<attempt, answered, overtaken>>
    BY <1>7 DEF ChangePassword, Ends
  <2>2. user.version + 1 \in Nat \ {0} /\ user.password + 1 \in Nat
    BY DEF WorkersTyped
  <2>3. changed \in [status : {"ACTIVE", "DISABLED"}, version : Nat \ {0}, password : Nat]
    BY <2>2 DEF WorkersTyped
  <2>4. "PASSWORD_CHANGED" \in Ended
    BY DEF Ended
  <2> HIDE DEF changed, revoked
  <2>5. SessionsTyped'
    BY <2>1, <2>3, <2>4, NewSessionTyped, RevokedTyped DEF SessionsTyped, revoked
  <2>6. WorkersTyped'
    BY <2>1, <2>3 DEF WorkersTyped, Ready
  <2> QED BY <2>1, <2>5, <2>6 DEF AttemptsTyped
<1>8. ASSUME NEW w \in Worker, NEW s \in Session, NEW what \in {"request", "change"},
             ReadSession(w, s, what)
      PROVE  AccountsTyped'
  <2>1. Verdict(session[s]) \in Ended \cup {"ACTIVE"} /\ session[s].version \in Nat
    BY <1>8, VerdictTyped DEF ReadSession, SessionsTyped, SessionRow
  <2>2. WorkersTyped'
    BY <1>8, <2>1 DEF ReadSession, WorkersTyped, Ready
  <2> QED BY <1>8, <2>2 DEF ReadSession, AttemptsTyped, SessionsTyped
<1>9. ASSUME NEW w \in Worker, Authenticate(w) PROVE AccountsTyped'
  <2>1. worker[w].verdict # "ACTIVE" => worker[w].verdict \in Ended
    BY <1>9 DEF Authenticate, Does, WorkersTyped
  <2>2. session' = session \/ session' = [session EXCEPT ![worker[w].session].status = worker[w].verdict]
    BY <1>9 DEF Authenticate, Written
  <2>3. session' = session \/ worker[w].verdict \in Ended
    BY <1>9, <2>1 DEF Authenticate, Written
  <2>4. SessionsTyped'
    <3>1. CASE session' = session
      BY <1>9, <3>1 DEF Authenticate, SessionsTyped
    <3>2. CASE session' = [session EXCEPT ![worker[w].session].status = worker[w].verdict]
               /\ worker[w].verdict \in Ended
      <4>1. \A s \in Session :
              [session[s] EXCEPT !.status = worker[w].verdict] \in SessionRow
        BY <3>2 DEF SessionsTyped, SessionRow
      <4>2. session' \in [Session -> SessionRow]
        BY <3>2, <4>1 DEF SessionsTyped
      <4>3. \A s \in Session : session'[s] = session[s] \/ session'[s].status \in Ended
        BY <3>2 DEF SessionsTyped, SessionRow
      <4> QED BY <1>9, <4>2, <4>3 DEF Authenticate, SessionsTyped, Ended
    <3> QED BY <2>2, <2>3, <3>1, <3>2
  <2>5. WorkersTyped'
    BY <1>9 DEF Authenticate, Ends, Ready, WorkersTyped
  <2> QED BY <1>9, <2>4, <2>5 DEF Authenticate, AttemptsTyped
<1>10. ASSUME NEW w \in Worker, BeginReset(w) PROVE AccountsTyped'
  BY <1>10 DEF BeginReset, AttemptsTyped, WorkersTyped, SessionsTyped, Ready
<1>11. ASSUME NEW w \in Worker, ResetPassword(w) PROVE AccountsTyped'
  <2>1. worker[w].version + 1 \in Nat \ {0} /\ user.password + 1 \in Nat
    BY DEF WorkersTyped
  <2>2. user' \in [status : {"ACTIVE", "DISABLED"}, version : Nat \ {0}, password : Nat]
    BY <1>11, <2>1 DEF ResetPassword, WorkersTyped
  <2>3. "PASSWORD_CHANGED" \in Ended
    BY DEF Ended
  <2>4. SessionsTyped'
    BY <1>11, <2>3, RevokedTyped DEF ResetPassword, SessionsTyped
  <2>5. WorkersTyped'
    BY <1>11, <2>2 DEF ResetPassword, WorkersTyped, Ends, Ready
  <2> QED BY <1>11, <2>4, <2>5 DEF ResetPassword, AttemptsTyped
<1>12. ASSUME NEW a \in Attempt, WindowPasses(a) PROVE AccountsTyped'
  <2>1. AttemptsTyped'
    BY <1>12 DEF WindowPasses, AttemptsTyped
  <2> QED BY <1>12, <2>1 DEF WindowPasses, WorkersTyped, SessionsTyped
<1>13. ASSUME NEW s \in Session, Age(s) PROVE AccountsTyped'
  <2>1. [session[s] EXCEPT !.aged = TRUE] \in SessionRow
    BY DEF SessionsTyped, SessionRow
  <2>2. session' = [session EXCEPT ![s] = [session[s] EXCEPT !.aged = TRUE]]
    BY <1>13 DEF Age
  <2>3. session'[s].status = "ACTIVE"
    BY <1>13 DEF Age, SessionsTyped, SessionRow
  <2>4. SessionsTyped'
    BY <1>13, <2>1, <2>2, <2>3 DEF Age, SessionsTyped
  <2> QED BY <1>13, <2>4 DEF Age, AttemptsTyped, WorkersTyped
<1>14. ASSUME NEW k \in Key, NEW s \in Session, NEW scope \in SUBSET Session, Revoke(k, s, scope)
       PROVE  AccountsTyped'
  <2>1. "REVOKED" \in Ended
    BY DEF Ended
  <2>2. SessionsTyped'
    BY <1>14, <2>1, RevokedTyped DEF Revoke, SessionsTyped
  <2> QED BY <1>14, <2>2 DEF Revoke, AttemptsTyped, WorkersTyped
<1>15. CASE Disable \/ RevokeAll
  <2>1. {"USER_DISABLED", "REVOKED"} \subseteq Ended
    BY DEF Ended
  <2>2. SessionsTyped'
    BY <1>15, <2>1, RevokedTyped DEF Disable, RevokeAll, SessionsTyped
  <2>3. WorkersTyped'
    BY <1>15 DEF Disable, RevokeAll, WorkersTyped
  <2> QED BY <1>15, <2>2, <2>3 DEF Disable, RevokeAll, AttemptsTyped
<1>16. CASE Enable
  BY <1>16 DEF Enable, AttemptsTyped, WorkersTyped, SessionsTyped
<1> QED BY <1>1, <1>2, <1>3, <1>4, <1>5, <1>6, <1>7, <1>8, <1>9, <1>10, <1>11, <1>12,
           <1>13, <1>14, <1>15, <1>16 DEF AccountsNext

\* A place is taken when nobody holds it, and whoever gives it back lets go of it.
LEMMA OwnPlaceNext ==
  ASSUME AccountsTyped, OwnPlace, AccountsNext PROVE OwnPlace'
<1> USE DEF AccountsTyped
<1>1. ASSUME NEW w \in Worker, NEW ip \in Ip, NEW name \in Name, NEW a \in Attempt,
             Check(w, ip, name, a)
      PROVE  OwnPlace'
  <2>1. \A v \in Worker : Does(v, "login") => worker[v].attempt # a
    BY <1>1 DEF OwnPlace, Check, NoAttempt
  <2>2. \A v \in Worker : Does(v, "login")' =>
          v = w \/ (Does(v, "login") /\ worker'[v] = worker[v])
    BY <1>1 DEF Check, Does, WorkersTyped
  <2>3. worker'[w].attempt = a /\ attempt'[a].outcome = "PENDING"
    BY <1>1 DEF Check, WorkersTyped, AttemptsTyped, Ready
  <2>4. \A b \in Attempt : b # a => attempt'[b] = attempt[b]
    BY <1>1 DEF Check, AttemptsTyped
  <2> QED BY <2>1, <2>2, <2>3, <2>4 DEF OwnPlace
<1>2. ASSUME NEW w \in Worker, LoginFails(w) \/ LoginRaises(w) \/ LoginPasses(w) PROVE OwnPlace'
  <2>1. Does(w, "login")
    BY <1>2 DEF LoginFails, LoginRaises, LoginPasses
  <2>2. \A v \in Worker : Does(v, "login")' =>
          v # w /\ Does(v, "login") /\ worker'[v] = worker[v]
    BY <1>2 DEF LoginFails, LoginRaises, LoginPasses, Ends, Ready, Does, WorkersTyped
  <2>3. \A b \in Attempt : b # worker[w].attempt => attempt'[b] = attempt[b]
    BY <1>2 DEF LoginFails, LoginRaises, LoginPasses, Outcome, AttemptsTyped
  <2> QED BY <2>1, <2>2, <2>3 DEF OwnPlace
<1>3. ASSUME NEW a \in Attempt, WindowPasses(a) PROVE OwnPlace'
  <2>1. \A b \in Attempt : attempt'[b].outcome = attempt[b].outcome
    BY <1>3 DEF WindowPasses, AttemptsTyped
  <2> QED BY <1>3, <2>1 DEF WindowPasses, OwnPlace, Does
<1>4. ASSUME UNCHANGED attempt,
             \A v \in Worker : Does(v, "login")' =>
               Does(v, "login") /\ worker'[v].attempt = worker[v].attempt
      PROVE  OwnPlace'
  BY <1>4 DEF OwnPlace
<1>5. ASSUME NEW w \in Worker, ReadUser(w) PROVE OwnPlace'
  <2>1. \A v \in Worker : Does(v, "login")' =>
               Does(v, "login") /\ worker'[v].attempt = worker[v].attempt
    BY <1>5 DEF ReadUser, Does, WorkersTyped
  <2> QED BY <1>4, <1>5, <2>1 DEF ReadUser
<1>6. ASSUME NEW w \in Worker, UNCHANGED attempt, NEW row, row.does # "login",
             worker' = [worker EXCEPT ![w] = row]
      PROVE  OwnPlace'
  <2>1. \A v \in Worker : Does(v, "login")' =>
               Does(v, "login") /\ worker'[v].attempt = worker[v].attempt
    BY <1>6 DEF Does, WorkersTyped
  <2> QED BY <1>4, <1>6, <2>1
<1>7. ASSUME NEW w \in Worker,
             \/ Abort(w) \/ ChangeDenied(w) \/ Authenticate(w) \/ ResetPassword(w)
             \/ \E s \in Session : CommitLogin(w, s) \/ ChangePassword(w, s)
      PROVE  OwnPlace'
  <2>1. UNCHANGED attempt /\ worker' = [worker EXCEPT ![w] = Ready] /\ Ready.does # "login"
    BY <1>7 DEF Abort, ChangeDenied, Authenticate, ResetPassword, CommitLogin, ChangePassword, Ends, Ready
  <2> QED BY <1>6, <2>1
<1>8. ASSUME NEW w \in Worker, NEW s \in Session, NEW what \in {"request", "change"},
             ReadSession(w, s, what)
      PROVE  OwnPlace'
  <2> DEFINE row == [Ready EXCEPT !.does = what, !.session = s, !.verdict = Verdict(session[s]),
                                  !.version = session[s].version]
  <2>1. UNCHANGED attempt /\ worker' = [worker EXCEPT ![w] = row] /\ row.does # "login"
    BY <1>8 DEF ReadSession, Ready
  <2> HIDE DEF row
  <2> QED BY <1>6, <2>1
<1>9. ASSUME NEW w \in Worker, BeginReset(w) PROVE OwnPlace'
  <2> DEFINE row == [Ready EXCEPT !.does = "reset", !.version = user.version]
  <2>1. UNCHANGED attempt /\ worker' = [worker EXCEPT ![w] = row] /\ row.does # "login"
    BY <1>9 DEF BeginReset, Ready
  <2> HIDE DEF row
  <2> QED BY <1>6, <2>1
<1>10. ASSUME UNCHANGED <<attempt, worker>> PROVE OwnPlace'
  BY <1>10 DEF OwnPlace, Does
<1>11. ASSUME NEW s \in Session, Age(s) PROVE OwnPlace'
  BY <1>10, <1>11 DEF Age
<1>12. ASSUME NEW k \in Key, NEW s \in Session, NEW scope \in SUBSET Session, Revoke(k, s, scope)
       PROVE  OwnPlace'
  BY <1>10, <1>12 DEF Revoke
<1>13. CASE Disable \/ Enable \/ RevokeAll
  BY <1>10, <1>13 DEF Disable, Enable, RevokeAll
<1> QED BY <1>1, <1>2, <1>3, <1>5, <1>7, <1>8, <1>9, <1>11, <1>12, <1>13 DEF AccountsNext

\* A part of what is few, and what is not yet at its limit with one more.
LEMMA FewStays ==
  ASSUME NEW S, IsFiniteSet(S), NEW limit \in Nat, Cardinality(S) <= limit,
         NEW T \in SUBSET S
  PROVE  IsFiniteSet(T) /\ Cardinality(T) <= limit
<1>1. /\ IsFiniteSet(T) /\ Cardinality(T) <= Cardinality(S)
      /\ Cardinality(S) \in Nat /\ Cardinality(T) \in Nat
  BY FS_Subset, FS_CardinalityType
<1> QED BY <1>1

LEMMA FewGrows ==
  ASSUME NEW S, IsFiniteSet(S), NEW limit \in Nat, Cardinality(S) < limit,
         NEW a, NEW T \in SUBSET (S \cup {a})
  PROVE  IsFiniteSet(T) /\ Cardinality(T) <= limit
<1>1. IsFiniteSet(S \cup {a}) /\ Cardinality(S) \in Nat
      /\ Cardinality(S \cup {a}) \in {Cardinality(S), Cardinality(S) + 1}
  BY FS_AddElement, FS_CardinalityType
<1>2. Cardinality(S \cup {a}) <= limit
  BY <1>1
<1> QED BY <1>1, <1>2, FewStays

\* The places counted together with one another, however they are counted.
LEMMA FromFinite ==
  ASSUME Within, NEW field, NEW value
  PROVE  From(field, value) \in SUBSET Counted /\ IsFiniteSet(From(field, value))
<1>1. From(field, value) \in SUBSET Counted
  BY DEF From
<1> QED BY <1>1, FS_Subset DEF Within

\* Fewer places count than before: none that did not count counts now.
LEMMA WithinShrinks ==
  ASSUME Within,
         \A a \in Attempt : attempt'[a].ip = attempt[a].ip /\ attempt'[a].name = attempt[a].name,
         \A a \in Attempt : a \in Counted' => a \in Counted
  PROVE  Within'
<1>1. Counted' \in SUBSET Counted
  BY DEF Counted
<1>2. IsFiniteSet(Counted') /\ Cardinality(Counted') <= Overall
  BY <1>1, FewStays, LimitAssumption DEF Within
<1>3. \A ip \in Ip : Cardinality(From("ip", ip)') <= PerIp
  <2> TAKE ip \in Ip
  <2>1. From("ip", ip)' \in SUBSET From("ip", ip)
    BY <1>1 DEF From, Counted
  <2> QED BY <2>1, FromFinite, FewStays, LimitAssumption DEF Within
<1>4. \A name \in Name : Cardinality(From("name", name)') <= PerUser
  <2> TAKE name \in Name
  <2>1. From("name", name)' \in SUBSET From("name", name)
    BY <1>1 DEF From, Counted
  <2> QED BY <2>1, FromFinite, FewStays, LimitAssumption DEF Within
<1> QED BY <1>2, <1>3, <1>4 DEF Within

\* Another login may start only under all three limits.
LEMMA CheckWithin ==
  ASSUME AccountsTyped, Within,
         NEW w \in Worker, NEW ip \in Ip, NEW name \in Name, NEW a \in Attempt,
         Check(w, ip, name, a)
  PROVE  Within'
<1>1. /\ attempt[a] = NoAttempt
      /\ Cardinality(From("ip", ip)) < PerIp
      /\ Cardinality(From("name", name)) < PerUser
      /\ Cardinality(Counted) < Overall
  BY DEF Check, Allowed
<1>2. /\ \A b \in Attempt : b # a => attempt'[b] = attempt[b]
      /\ attempt'[a].ip = ip /\ attempt'[a].name = name
  BY DEF Check, AccountsTyped, AttemptsTyped
<1>3. Counted' \in SUBSET (Counted \cup {a})
  BY <1>2 DEF Counted
<1>4. IsFiniteSet(Counted') /\ Cardinality(Counted') <= Overall
  BY <1>1, <1>3, FewGrows, LimitAssumption DEF Within
<1>5. \A j \in Ip : Cardinality(From("ip", j)') <= PerIp
  <2> TAKE j \in Ip
  <2>1. CASE j = ip
    <3>1. From("ip", j)' \in SUBSET (From("ip", j) \cup {a})
      BY <1>2, <1>3 DEF From, Counted
    <3> QED BY <1>1, <2>1, <3>1, FromFinite, FewGrows, LimitAssumption
  <2>2. CASE j # ip
    <3>1. From("ip", j)' \in SUBSET From("ip", j)
      BY <1>2, <1>3, <2>2 DEF From, Counted
    <3> QED BY <3>1, FromFinite, FewStays, LimitAssumption DEF Within
  <2> QED BY <2>1, <2>2
<1>6. \A j \in Name : Cardinality(From("name", j)') <= PerUser
  <2> TAKE j \in Name
  <2>1. CASE j = name
    <3>1. From("name", j)' \in SUBSET (From("name", j) \cup {a})
      BY <1>2, <1>3 DEF From, Counted
    <3> QED BY <1>1, <2>1, <3>1, FromFinite, FewGrows, LimitAssumption
  <2>2. CASE j # name
    <3>1. From("name", j)' \in SUBSET From("name", j)
      BY <1>2, <1>3, <2>2 DEF From, Counted
    <3> QED BY <3>1, FromFinite, FewStays, LimitAssumption DEF Within
  <2> QED BY <2>1, <2>2
<1> QED BY <1>4, <1>5, <1>6 DEF Within

LEMMA WithinNext ==
  ASSUME AccountsTyped, OwnPlace, Within, AccountsNext PROVE Within'
<1>1. ASSUME NEW w \in Worker, NEW ip \in Ip, NEW name \in Name, NEW a \in Attempt,
             Check(w, ip, name, a)
      PROVE  Within'
  BY <1>1, CheckWithin
<1>2. ASSUME UNCHANGED attempt PROVE Within'
  <2>1. Counted' = Counted
    BY <1>2 DEF Counted
  <2> QED BY <1>2, <2>1, WithinShrinks
<1>3. ASSUME NEW w \in Worker, LoginFails(w) \/ LoginRaises(w) \/ LoginPasses(w) PROVE Within'
  <2>1. PICK outcome \in {"FAILED", "SUCCEEDED"} : Outcome(worker[w].attempt, outcome)
    BY <1>3 DEF LoginFails, LoginRaises, LoginPasses
  <2>2. worker[w].attempt \in Attempt /\ attempt[worker[w].attempt].outcome = "PENDING"
    BY <1>3 DEF LoginFails, LoginRaises, LoginPasses, OwnPlace
  <2>3. \A a \in Attempt : /\ attempt'[a].ip = attempt[a].ip /\ attempt'[a].name = attempt[a].name
                            /\ attempt'[a].recent = attempt[a].recent
    BY <2>1 DEF Outcome, AccountsTyped, AttemptsTyped
  <2>4. \A a \in Attempt : a # worker[w].attempt => attempt'[a] = attempt[a]
    BY <2>1 DEF Outcome, AccountsTyped, AttemptsTyped
  <2>5. \A a \in Attempt : a \in Counted' => a \in Counted
    BY <2>2, <2>3, <2>4 DEF Counted
  <2> QED BY <2>3, <2>5, WithinShrinks
<1>4. ASSUME NEW a \in Attempt, WindowPasses(a) PROVE Within'
  <2>1. \A b \in Attempt : attempt'[b].ip = attempt[b].ip /\ attempt'[b].name = attempt[b].name
    BY <1>4 DEF WindowPasses, AccountsTyped, AttemptsTyped
  <2>2. \A b \in Attempt : b \in Counted' => b \in Counted
    BY <1>4 DEF WindowPasses, Counted, AccountsTyped, AttemptsTyped
  <2> QED BY <2>1, <2>2, WithinShrinks
<1>5. ASSUME NEW w \in Worker,
             \/ ReadUser(w) \/ Abort(w) \/ ChangeDenied(w) \/ Authenticate(w)
             \/ BeginReset(w) \/ ResetPassword(w)
             \/ \E s \in Session : \/ CommitLogin(w, s) \/ ChangePassword(w, s)
                                   \/ ReadSession(w, s, "request") \/ ReadSession(w, s, "change")
      PROVE  Within'
  BY <1>2, <1>5 DEF ReadUser, Abort, ChangeDenied, Authenticate, BeginReset, ResetPassword,
                    CommitLogin, ChangePassword, ReadSession
<1>6. ASSUME NEW s \in Session, Age(s) PROVE Within'
  BY <1>2, <1>6 DEF Age
<1>7. ASSUME NEW k \in Key, NEW s \in Session, NEW scope \in SUBSET Session, Revoke(k, s, scope)
      PROVE  Within'
  BY <1>2, <1>7 DEF Revoke
<1>8. CASE Disable \/ Enable \/ RevokeAll
  BY <1>2, <1>8 DEF Disable, Enable, RevokeAll
<1> QED BY <1>1, <1>3, <1>4, <1>5, <1>6, <1>7, <1>8 DEF AccountsNext

LimitInv == AccountsTyped /\ OwnPlace /\ Within

LEMMA LimitInvInit == AccountsInit => LimitInv
<1> SUFFICES ASSUME AccountsInit PROVE LimitInv
  OBVIOUS
<1>1. OwnPlace
  BY DEF AccountsInit, OwnPlace, Does, Ready
<1>2. Counted = {}
  BY DEF AccountsInit, Counted, NoAttempt
<1>3. /\ \A ip \in Ip : From("ip", ip) = {}
      /\ \A name \in Name : From("name", name) = {}
  BY <1>2 DEF From
<1>4. Within
  BY <1>2, <1>3, FS_EmptySet, LimitAssumption DEF Within
<1> QED BY <1>1, <1>4, AccountsTypedInit DEF LimitInv

\* The steps that change nothing at all.
LEMMA AccountsStutter ==
  ASSUME UNCHANGED accountVars
  PROVE  /\ LimitInv => LimitInv'
         /\ AllAgree => AllAgree'
BY DEF accountVars, LimitInv, AccountsTyped, AttemptsTyped, WorkersTyped, SessionsTyped,
       OwnPlace, Does, Within, Counted, From, AllAgree, Agrees

LEMMA AccountsInvariant == AccountsSpec => []LimitInv
<1>1. LimitInv /\ [AccountsNext]_accountVars => LimitInv'
  BY AccountsTypedNext, OwnPlaceNext, WithinNext, AccountsStutter DEF LimitInv
<1> QED BY LimitInvInit, <1>1, PTL DEF AccountsSpec

\* Logins that run at the same time stay within the limits together: a place is
\* taken under the lock, and only the login that took it may change it.
THEOREM LimitHeld == AccountsSpec => []LimitHolds
<1>1. LimitInv => LimitHolds
  BY DEF LimitInv, Within, Counted, From, LimitHolds
<1> QED BY <1>1, AccountsInvariant, PTL

-----------------------------------------------------------------------------
(* The account: sessions.                                                   *)

\* A session is written by what ends it, or is new.
LEMMA EndedStep ==
  ASSUME AccountsTyped, AccountsNext, NEW s \in Session, session[s].status \in Ended
  PROVE  session'[s].status \in Ended
<1> USE DEF AccountsTyped
<1>1. session[s] # NoSession /\ session[s].status # "ACTIVE" /\ session[s] \in SessionRow
  BY DEF NoSession, Ended, SessionsTyped
<1>2. \A scope, status, key : Revoked(scope, status, key)[s] = session[s]
  BY <1>1 DEF Revoked
<1>3. ASSUME NEW w \in Worker, NEW t \in Session, CommitLogin(w, t)
      PROVE  session'[s] = session[s]
  BY <1>1, <1>3 DEF CommitLogin, SessionsTyped
<1>4. ASSUME NEW w \in Worker, NEW t \in Session, ChangePassword(w, t)
      PROVE  session'[s] = session[s]
  <2>1. t # s
    BY <1>1, <1>4 DEF ChangePassword
  <2> DEFINE revoked == Revoked(Session, "PASSWORD_CHANGED", "none")
  <2>2. PICK row : session' = [revoked EXCEPT ![t] = row]
    BY <1>4 DEF ChangePassword
  <2>3. revoked[s] = session[s]
    BY <1>2
  <2>4. DOMAIN revoked = Session
    BY DEF Revoked
  <2> HIDE DEF revoked
  <2> QED BY <2>1, <2>2, <2>3, <2>4
<1>5. ASSUME NEW w \in Worker, Authenticate(w) PROVE session'[s].status \in Ended
  <2>1. worker[w].verdict \in Ended \cup {"ACTIVE"}
    BY <1>5 DEF Authenticate, Does, WorkersTyped
  <2> QED BY <1>5, <2>1 DEF Authenticate, Written, SessionsTyped, SessionRow
<1>6. ASSUME NEW t \in Session, Age(t) PROVE session'[s] = session[s]
  BY <1>1, <1>6 DEF Age, SessionsTyped
<1>7. ASSUME NEW w \in Worker, ResetPassword(w) PROVE session'[s] = session[s]
  BY <1>2, <1>7 DEF ResetPassword
<1>8. ASSUME NEW k \in Key, NEW t \in Session, NEW scope \in SUBSET Session, Revoke(k, t, scope)
      PROVE  session'[s] = session[s]
  BY <1>2, <1>8 DEF Revoke
<1>9. CASE Disable \/ RevokeAll
  BY <1>2, <1>9 DEF Disable, RevokeAll
<1>10. CASE UNCHANGED session
  BY <1>10
<1>11. ASSUME NEW w \in Worker,
              \/ \E ip \in Ip, name \in Name, a \in Attempt : Check(w, ip, name, a)
              \/ ReadUser(w) \/ LoginFails(w) \/ LoginPasses(w) \/ LoginRaises(w)
              \/ Abort(w) \/ ChangeDenied(w) \/ BeginReset(w)
              \/ \E t \in Session : ReadSession(w, t, "request") \/ ReadSession(w, t, "change")
       PROVE  session' = session
  BY <1>11 DEF Check, ReadUser, LoginFails, LoginPasses, LoginRaises, Abort, ChangeDenied,
               BeginReset, ReadSession
<1>12. ASSUME NEW a \in Attempt, WindowPasses(a) PROVE session' = session
  BY <1>12 DEF WindowPasses
<1>13. CASE Enable
  BY <1>13 DEF Enable
<1> QED BY <1>3, <1>4, <1>5, <1>6, <1>7, <1>8, <1>9, <1>11, <1>12, <1>13 DEF AccountsNext

\* A version goes up with its password, unless a reset overtakes a change.
LEMMA AllAgreeNext ==
  ASSUME AccountsTyped, AllAgree, AccountsNext PROVE AllAgree'
<1> USE DEF AccountsTyped
<1> SUFFICES ASSUME ~overtaken' PROVE AllAgree'
  BY DEF AllAgree
<1>0. user.version \in Nat \ {0} /\ user.password \in Nat
      /\ \A s \in Session : session[s].version \in Nat
  BY DEF WorkersTyped, SessionsTyped, SessionRow
<1>1. ASSUME ~overtaken, UNCHANGED user,
             \A s \in Session : \/ session'[s].version = session[s].version
                                   /\ session'[s].password = session[s].password
                                \/ Agrees(session'[s]),
             \A v \in Worker : worker'[v].does \in {"login", "commit"} =>
               \/ worker[v].does \in {"login", "commit"}
                  /\ worker'[v].version = worker[v].version
                  /\ worker'[v].password = worker[v].password
               \/ Agrees(worker'[v])
      PROVE  AllAgree'
  BY <1>1 DEF AllAgree, Agrees
<1>2. ASSUME ~overtaken, user'.version > user.version,
             \A s \in Session : \/ session'[s].version = session[s].version
                                \/ session'[s].version = user'.version
                                   /\ session'[s].password = user'.password,
             \A v \in Worker : worker'[v].does \in {"login", "commit"} =>
               worker[v].does \in {"login", "commit"} /\ worker'[v].version = worker[v].version,
             user'.version \in Nat
      PROVE  AllAgree'
  <2>1. \A s \in Session : Agrees(session[s])'
    BY <1>0, <1>2 DEF AllAgree, Agrees
  <2>2. \A v \in Worker : worker'[v].does \in {"login", "commit"} => Agrees(worker[v])'
    BY <1>0, <1>2 DEF AllAgree, Agrees, WorkersTyped
  <2> QED BY <2>1, <2>2 DEF AllAgree, Agrees
<1>3. \A scope, status, key : \A s \in Session :
        /\ Revoked(scope, status, key)[s].version = session[s].version
        /\ Revoked(scope, status, key)[s].password = session[s].password
  BY DEF Revoked, SessionsTyped, SessionRow
<1>4. \A v, w \in Worker : \A row : worker' = [worker EXCEPT ![w] = row] =>
        worker'[v] = IF v = w THEN row ELSE worker[v]
  BY DEF WorkersTyped
<1>5. Ready.does = "nothing" /\ Ready.version = 0
  BY DEF Ready
<1>6. ASSUME NEW w \in Worker, NEW s \in Session, CommitLogin(w, s) PROVE AllAgree'
  <2>1. /\ session' = [session EXCEPT ![s] = NewSession(worker[w])] /\ ~overtaken /\ UNCHANGED user
        /\ worker' = [worker EXCEPT ![w] = Ready] /\ worker[w].does = "commit"
    BY <1>6 DEF CommitLogin, Ends, Does
  <2>2. Agrees(NewSession(worker[w]))
    BY <2>1 DEF AllAgree, Agrees, NewSession, NoSession
  <2>3. \A t \in Session : session'[t] = session[t] \/ session'[t] = NewSession(worker[w])
    BY <2>1 DEF SessionsTyped
  <2> QED BY <1>1, <1>4, <1>5, <2>1, <2>2, <2>3
<1>7. ASSUME NEW w \in Worker, NEW s \in Session, ChangePassword(w, s) PROVE AllAgree'
  <2> DEFINE changed == [user EXCEPT !.version = @ + 1, !.password = @ + 1]
             revoked == Revoked(Session, "PASSWORD_CHANGED", "none")
  <2>1. /\ user' = changed /\ session' = [revoked EXCEPT ![s] = NewSession(changed)]
        /\ worker' = [worker EXCEPT ![w] = Ready] /\ ~overtaken
    BY <1>7 DEF ChangePassword, Ends
  <2>2. changed.version = user.version + 1
    BY DEF WorkersTyped
  <2>3. \A t \in Session : revoked[t].version = session[t].version
    BY <1>3
  <2>4. DOMAIN revoked = Session
    BY DEF Revoked
  <2> HIDE DEF changed, revoked
  <2>5. \A t \in Session : session'[t] = revoked[t] \/ session'[t] = NewSession(changed)
    BY <2>1, <2>4
  <2>6. NewSession(changed).version = changed.version /\ NewSession(changed).password = changed.password
    BY DEF NewSession, NoSession
  <2>7. user'.version > user.version /\ user'.version \in Nat
    BY <1>0, <2>1, <2>2
  <2> QED BY <1>2, <1>4, <1>5, <2>1, <2>3, <2>5, <2>6, <2>7
<1>8. ASSUME NEW w \in Worker, ResetPassword(w) PROVE AllAgree'
  <2>1. /\ ~overtaken /\ user.version = worker[w].version
        /\ user' = [user EXCEPT !.version = worker[w].version + 1, !.password = @ + 1]
        /\ session' = Revoked(Session, "PASSWORD_CHANGED", "none")
        /\ worker' = [worker EXCEPT ![w] = Ready]
    BY <1>8 DEF ResetPassword, Ends, SessionsTyped
  <2>2. user'.version = user.version + 1
    BY <2>1 DEF WorkersTyped
  <2>3. user'.version > user.version /\ user'.version \in Nat
    BY <1>0, <2>2
  <2> QED BY <1>2, <1>3, <1>4, <1>5, <2>1, <2>3
<1>9. ASSUME ~overtaken, UNCHANGED user,
             \A s \in Session : session'[s].version = session[s].version
                                /\ session'[s].password = session[s].password,
             NEW w \in Worker, NEW row, row.does \notin {"login", "commit"} \/ row.version = 0,
             worker' = [worker EXCEPT ![w] = row]
      PROVE  AllAgree'
  <2>1. row.version = 0 => Agrees(row)
    BY <1>0 DEF Agrees
  <2> QED BY <1>1, <1>4, <1>9, <2>1
<1>10. ASSUME NEW w \in Worker, NEW ip \in Ip, NEW name \in Name, NEW a \in Attempt,
             Check(w, ip, name, a)
       PROVE  AllAgree'
  <2> DEFINE row == [Ready EXCEPT !.does = "login", !.attempt = a]
  <2>1. row.version = 0
    BY DEF Ready
  <2>2. worker' = [worker EXCEPT ![w] = row] /\ UNCHANGED <<user, session, overtaken>>
    BY <1>10 DEF Check
  <2> HIDE DEF row
  <2> QED BY <1>9, <2>1, <2>2
<1>11. ASSUME NEW w \in Worker, ReadUser(w) PROVE AllAgree'
  <2>1. ~overtaken /\ UNCHANGED <<user, session>>
    BY <1>11 DEF ReadUser
  <2>2. \A v \in Worker : v # w => worker'[v] = worker[v]
    BY <1>11 DEF ReadUser, WorkersTyped
  <2>3. worker'[w].version = user.version /\ worker'[w].password = user.password
    BY <1>11 DEF ReadUser, WorkersTyped
  <2>4. Agrees(worker'[w])
    BY <1>0, <2>3 DEF Agrees
  <2> QED BY <1>1, <2>1, <2>2, <2>4
<1>12. ASSUME NEW w \in Worker, LoginPasses(w) PROVE AllAgree'
  <2>1. ~overtaken /\ UNCHANGED <<user, session>> /\ worker[w].does = "login"
    BY <1>12 DEF LoginPasses, Does
  <2>2. \A v \in Worker : worker'[v].version = worker[v].version
                          /\ worker'[v].password = worker[v].password
                          /\ (v # w => worker'[v] = worker[v])
    BY <1>12 DEF LoginPasses, WorkersTyped
  <2> QED BY <1>1, <2>1, <2>2
<1>13. ASSUME NEW w \in Worker, LoginFails(w) \/ LoginRaises(w) \/ Abort(w) \/ ChangeDenied(w)
       PROVE  AllAgree'
  <2>1. worker' = [worker EXCEPT ![w] = Ready] /\ UNCHANGED <<user, session, overtaken>>
    BY <1>13 DEF LoginFails, LoginRaises, Abort, ChangeDenied, Ends
  <2> QED BY <1>5, <1>9, <2>1
<1>14. ASSUME NEW w \in Worker, NEW s \in Session, NEW what \in {"request", "change"},
              ReadSession(w, s, what)
       PROVE  AllAgree'
  <2> DEFINE row == [Ready EXCEPT !.does = what, !.session = s, !.verdict = Verdict(session[s]),
                                  !.version = session[s].version]
  <2>1. row.does = what
    BY DEF Ready
  <2>2. worker' = [worker EXCEPT ![w] = row] /\ UNCHANGED <<user, session, overtaken>>
    BY <1>14 DEF ReadSession
  <2> HIDE DEF row
  <2> QED BY <1>9, <2>1, <2>2
<1>15. ASSUME NEW w \in Worker, BeginReset(w) PROVE AllAgree'
  <2> DEFINE row == [Ready EXCEPT !.does = "reset", !.version = user.version]
  <2>1. row.does = "reset"
    BY DEF Ready
  <2>2. worker' = [worker EXCEPT ![w] = row] /\ UNCHANGED <<user, session, overtaken>>
    BY <1>15 DEF BeginReset
  <2> HIDE DEF row
  <2> QED BY <1>9, <2>1, <2>2
<1>16. ASSUME NEW w \in Worker, Authenticate(w) PROVE AllAgree'
  <2>1. worker' = [worker EXCEPT ![w] = Ready] /\ UNCHANGED <<user, overtaken>>
        /\ session' = Written(worker[w].session, worker[w].verdict)
    BY <1>16 DEF Authenticate, Ends
  <2>2. \A s \in Session : session'[s].version = session[s].version
                           /\ session'[s].password = session[s].password
    BY <2>1 DEF Written, SessionsTyped, SessionRow
  <2> QED BY <1>5, <1>9, <2>1, <2>2
<1>17. ASSUME UNCHANGED <<overtaken, worker>>,
              user'.version = user.version /\ user'.password = user.password,
              \A s \in Session : session'[s].version = session[s].version
                                 /\ session'[s].password = session[s].password
       PROVE  AllAgree'
  BY <1>17 DEF AllAgree, Agrees
<1>18. ASSUME NEW s \in Session, Age(s) PROVE AllAgree'
  <2>1. \A t \in Session : session'[t].version = session[t].version
                           /\ session'[t].password = session[t].password
    BY <1>18 DEF Age, SessionsTyped, SessionRow
  <2> QED BY <1>17, <1>18, <2>1 DEF Age
<1>19. ASSUME NEW k \in Key, NEW s \in Session, NEW scope \in SUBSET Session, Revoke(k, s, scope)
       PROVE  AllAgree'
  BY <1>3, <1>17, <1>19 DEF Revoke
<1>20. CASE Disable \/ Enable \/ RevokeAll
  <2>1. user'.version = user.version /\ user'.password = user.password
    BY <1>20 DEF Disable, Enable, RevokeAll, WorkersTyped
  <2> QED BY <1>3, <1>17, <1>20, <2>1 DEF Disable, Enable, RevokeAll
<1>21. ASSUME NEW a \in Attempt, WindowPasses(a) PROVE AllAgree'
  BY <1>17, <1>21 DEF WindowPasses
<1> QED BY <1>6, <1>7, <1>8, <1>10, <1>11, <1>12, <1>13, <1>14, <1>15, <1>16, <1>18, <1>19,
           <1>20, <1>21 DEF AccountsNext

SessionsInv == AccountsTyped /\ AllAgree

LEMMA SessionsInvariant == AccountsSpec => []SessionsInv
<1>1. AccountsInit => SessionsInv
  <2>1. AccountsInit => AllAgree
    BY DEF AccountsInit, AllAgree, Agrees, NoSession, Ready
  <2> QED BY <2>1, AccountsTypedInit DEF SessionsInv
<1>2. SessionsInv /\ [AccountsNext]_accountVars => SessionsInv'
  <2>1. SessionsInv /\ UNCHANGED accountVars => SessionsInv'
    BY DEF SessionsInv, accountVars, AccountsTyped, AttemptsTyped, WorkersTyped, SessionsTyped,
           AllAgree, Agrees
  <2> QED BY <2>1, AccountsTypedNext, AllAgreeNext DEF SessionsInv
<1> QED BY <1>1, <1>2, PTL DEF AccountsSpec

\* Only a request that reads its session begins one.
LEMMA RequestBegins ==
  ASSUME AccountsTyped, AccountsNext, NEW w \in Worker, ~Does(w, "request"),
         worker'[w].does = "request"
  PROVE  \E s \in Session : ReadSession(w, s, "request")
<1> USE DEF AccountsTyped
<1>1. ASSUME NEW v \in Worker, NEW row, worker' = [worker EXCEPT ![v] = row], row.does # "request"
      PROVE  FALSE
  BY <1>1 DEF Does, WorkersTyped
<1>2. Ready.does = "nothing"
  BY DEF Ready
<1>3. ASSUME NEW v \in Worker,
             \/ LoginFails(v) \/ LoginRaises(v) \/ Abort(v) \/ ChangeDenied(v)
             \/ Authenticate(v) \/ ResetPassword(v)
             \/ \E s \in Session : CommitLogin(v, s) \/ ChangePassword(v, s)
      PROVE  FALSE
  BY <1>1, <1>2, <1>3 DEF LoginFails, LoginRaises, Abort, ChangeDenied, Authenticate,
                          ResetPassword, CommitLogin, ChangePassword, Ends
<1>4. ASSUME NEW v \in Worker, NEW ip \in Ip, NEW name \in Name, NEW a \in Attempt,
             Check(v, ip, name, a)
      PROVE  FALSE
  <2>1. [Ready EXCEPT !.does = "login", !.attempt = a].does = "login"
    BY DEF Ready
  <2> QED BY <1>1, <1>4, <2>1 DEF Check
<1>5. ASSUME NEW v \in Worker, ReadUser(v) \/ LoginPasses(v) PROVE FALSE
  BY <1>5 DEF ReadUser, LoginPasses, Does, WorkersTyped
<1>6. ASSUME NEW v \in Worker, BeginReset(v) PROVE FALSE
  <2>1. [Ready EXCEPT !.does = "reset", !.version = user.version].does = "reset"
    BY DEF Ready
  <2> QED BY <1>1, <1>6, <2>1 DEF BeginReset
<1>7. ASSUME NEW v \in Worker, NEW s \in Session, ReadSession(v, s, "change") PROVE FALSE
  <2>1. [Ready EXCEPT !.does = "change", !.session = s, !.verdict = Verdict(session[s]),
                      !.version = session[s].version].does = "change"
    BY DEF Ready
  <2> QED BY <1>1, <1>7, <2>1 DEF ReadSession
<1>8. ASSUME NEW v \in Worker, NEW s \in Session, ReadSession(v, s, "request") PROVE v = w
  BY <1>8 DEF ReadSession, Does, WorkersTyped
<1>9. UNCHANGED worker => FALSE
  BY DEF Does
<1>10. ASSUME \/ \E a \in Attempt : WindowPasses(a)
              \/ \E s \in Session : Age(s)
              \/ \E k \in Key, s \in Session, scope \in SUBSET Session : Revoke(k, s, scope)
              \/ Disable \/ Enable \/ RevokeAll
       PROVE  FALSE
  BY <1>9, <1>10 DEF WindowPasses, Age, Revoke, Disable, Enable, RevokeAll
<1> QED BY <1>3, <1>4, <1>5, <1>6, <1>7, <1>8, <1>10 DEF AccountsNext

\* A session that has ended stays ended, and a request is let through only in a
\* session issued under the password of today.
THEOREM Sessions == AccountsSpec => SessionsSound
<1>1. SessionsInv /\ [AccountsNext]_accountVars =>
        [\A s \in Session : session[s].status \in Ended => session'[s].status \in Ended]_accountVars
  BY EndedStep DEF SessionsInv
<1>2. SessionsInv /\ [AccountsNext]_accountVars =>
        [\A w \in Worker, s \in Session :
           ~Does(w, "request") /\ worker'[w].does = "request" /\ worker'[w].session = s
           /\ worker'[w].verdict = "ACTIVE" /\ ~overtaken
             => session[s].password = user.password]_accountVars
  <2> SUFFICES ASSUME SessionsInv, AccountsNext, NEW w \in Worker, NEW s \in Session,
                      ~Does(w, "request"), worker'[w].does = "request", worker'[w].session = s,
                      worker'[w].verdict = "ACTIVE", ~overtaken
               PROVE  session[s].password = user.password
    OBVIOUS
  <2>1. PICK t \in Session : ReadSession(w, t, "request")
    BY RequestBegins DEF SessionsInv
  <2>2. worker'[w].session = t /\ worker'[w].verdict = Verdict(session[t])
    BY <2>1 DEF ReadSession, Ready, SessionsInv, AccountsTyped, WorkersTyped
  <2>3. session[s] # NoSession /\ Verdict(session[s]) = "ACTIVE"
    BY <2>1, <2>2 DEF ReadSession
  <2>4. session[s].version = user.version
    BY <2>3 DEF Verdict
  <2> QED BY <2>4 DEF SessionsInv, AllAgree, Agrees
<1> QED BY <1>1, <1>2, SessionsInvariant, PTL DEF AccountsSpec, SessionsSound, EndedForGood,
           ServedUnderCurrent

\* What existed when a key took effect, no key that was already spent has ended.
Replays == \A s \in Session : session[s].after \subseteq answered /\ session[s].endedBy \notin session[s].after

LEMMA ReplaysNext ==
  ASSUME AccountsTyped, Replays, AccountsNext PROVE Replays'
<1> USE DEF AccountsTyped
<1>0. \A s \in Session : session[s] \in SessionRow
  BY DEF SessionsTyped
<1>1. ASSUME answered \subseteq answered',
             \A s \in Session : session'[s].after \subseteq answered'
                                /\ (\/ session'[s].after = session[s].after
                                       /\ session'[s].endedBy = session[s].endedBy
                                    \/ session'[s].endedBy = "none")
      PROVE  Replays'
  <2>1. ASSUME NEW s \in Session PROVE session'[s].endedBy \notin session'[s].after
    <3>1. CASE session'[s].endedBy = "none"
      <4>1. answered' \subseteq Key
        BY AccountsTypedNext DEF SessionsTyped
      <4> QED BY <1>1, <3>1, <4>1, KeyAssumption
    <3> QED BY <1>1, <3>1 DEF Replays
  <2> QED BY <1>1, <2>1 DEF Replays
<1>2. ASSUME NEW scope, NEW status, NEW key
      PROVE  \A s \in Session :
               /\ Revoked(scope, status, key)[s].after = session[s].after
               /\ \/ Revoked(scope, status, key)[s].endedBy = session[s].endedBy
                  \/ Revoked(scope, status, key)[s].endedBy = key
  BY <1>0 DEF Revoked, SessionRow
<1>3. \A row : NewSession(row).after = answered /\ NewSession(row).endedBy = "none"
  BY DEF NewSession, NoSession
<1>4. ASSUME NEW w \in Worker, NEW s \in Session, CommitLogin(w, s) PROVE Replays'
  <2>1. \A t \in Session : session'[t] = session[t] \/ session'[t] = NewSession(worker[w])
    BY <1>4 DEF CommitLogin, SessionsTyped
  <2> QED BY <1>1, <1>3, <1>4, <2>1 DEF CommitLogin, Replays
<1>5. ASSUME NEW w \in Worker, NEW s \in Session, ChangePassword(w, s) PROVE Replays'
  <2> DEFINE revoked == Revoked(Session, "PASSWORD_CHANGED", "none")
  <2>1. PICK row : session' = [revoked EXCEPT ![s] = NewSession(row)]
    BY <1>5 DEF ChangePassword
  <2>2. DOMAIN revoked = Session
    BY DEF Revoked
  <2>3. \A t \in Session : revoked[t].after = session[t].after
                           /\ (revoked[t].endedBy = session[t].endedBy \/ revoked[t].endedBy = "none")
    BY <1>2
  <2> HIDE DEF revoked
  <2>4. \A t \in Session : session'[t] = revoked[t] \/ session'[t] = NewSession(row)
    BY <2>1, <2>2
  <2>5. answered' = answered
    BY <1>5 DEF ChangePassword
  <2> QED BY <1>1, <1>3, <2>3, <2>4, <2>5 DEF Replays
<1>6. ASSUME NEW w \in Worker, ResetPassword(w) PROVE Replays'
  BY <1>1, <1>2, <1>6 DEF ResetPassword, Replays
<1>7. CASE Disable \/ RevokeAll
  BY <1>1, <1>2, <1>7 DEF Disable, RevokeAll, Replays
<1>8. ASSUME NEW k \in Key, NEW s \in Session, NEW scope \in SUBSET Session, Revoke(k, s, scope)
      PROVE  Replays'
  <2>1. /\ session' = Revoked(scope, "REVOKED", k) /\ answered' = answered \cup {k}
        /\ k \notin answered
    BY <1>8 DEF Revoke, Fresh
  <2> QED BY <1>2, <2>1 DEF Replays
<1>9. ASSUME UNCHANGED answered,
             \A s \in Session : session'[s].after = session[s].after
                                /\ session'[s].endedBy = session[s].endedBy
      PROVE  Replays'
  BY <1>9 DEF Replays
<1>10. ASSUME NEW w \in Worker, Authenticate(w) PROVE Replays'
  <2>1. \A s \in Session : session'[s].after = session[s].after
                           /\ session'[s].endedBy = session[s].endedBy
    BY <1>0, <1>10 DEF Authenticate, Written, SessionsTyped, SessionRow
  <2> QED BY <1>9, <1>10, <2>1 DEF Authenticate
<1>11. ASSUME NEW s \in Session, Age(s) PROVE Replays'
  <2>1. \A t \in Session : session'[t].after = session[t].after
                           /\ session'[t].endedBy = session[t].endedBy
    BY <1>0, <1>11 DEF Age, SessionsTyped, SessionRow
  <2> QED BY <1>9, <1>11, <2>1 DEF Age
<1>12. CASE UNCHANGED <<session, answered>>
  BY <1>9, <1>12
<1>13. ASSUME NEW w \in Worker,
              \/ \E ip \in Ip, name \in Name, a \in Attempt : Check(w, ip, name, a)
              \/ ReadUser(w) \/ LoginFails(w) \/ LoginPasses(w) \/ LoginRaises(w)
              \/ Abort(w) \/ ChangeDenied(w) \/ BeginReset(w)
              \/ \E t \in Session : ReadSession(w, t, "request") \/ ReadSession(w, t, "change")
       PROVE  UNCHANGED <<session, answered>>
  BY <1>13 DEF Check, ReadUser, LoginFails, LoginPasses, LoginRaises, Abort, ChangeDenied,
               BeginReset, ReadSession
<1>14. CASE Enable \/ \E a \in Attempt : WindowPasses(a)
  BY <1>12, <1>14 DEF Enable, WindowPasses
<1> QED BY <1>4, <1>5, <1>6, <1>7, <1>8, <1>10, <1>11, <1>12, <1>13, <1>14 DEF AccountsNext

\* The repetition of a request that revokes sessions ends none that was opened
\* after the request took effect.
THEOREM ReplaysEndNothing == AccountsSpec => []ReplayEndsNothing
<1>1. AccountsInit => Replays
  BY KeyAssumption DEF AccountsInit, Replays, NoSession
<1>2. SessionsInv /\ Replays /\ [AccountsNext]_accountVars => Replays'
  <2>1. Replays /\ UNCHANGED accountVars => Replays'
    BY DEF Replays, accountVars
  <2> QED BY <2>1, ReplaysNext DEF SessionsInv
<1>3. Replays => ReplayEndsNothing
  BY DEF Replays, ReplayEndsNothing
<1> QED BY <1>1, <1>2, <1>3, SessionsInvariant, PTL DEF AccountsSpec

-----------------------------------------------------------------------------
(* The trading calendar.                                                    *)

Requested == [at : {"built", "numbered"}, key : CalendarKey, days : Calendars!Days, base : Nat,
              source : {"import", "manual_override", "restore"}, expected : Nat,
              date : 0 .. LastDate, number : Nat, checked : Nat]
Activated == [days : Calendars!Days, key : CalendarKey, base : Nat,
              source : {"import", "manual_override", "restore"}, date : 0 .. LastDate,
              checked : Nat]
CalendarTyped ==
  /\ calendar \in Seq(Activated)
  /\ pointer \in [version : Nat, moves : Nat] /\ today \in Nat
  /\ request \in [Worker -> Requested \cup {Calendars!Idle}]

\* The pointer has moved once with every version.
PointerNewest == pointer.version = Len(calendar) /\ pointer.moves = Len(calendar)

\* What an override has built is the version it builds on with one day confirmed.
OneDayChanged(new, old) ==
  /\ Calendars!Confirmed(new.days[new.date])
  /\ \A d \in (0 .. LastDate) \ {new.date} : new.days[d] = old.days[d]
OverridesStand ==
  \A n \in 1 .. Len(calendar) : calendar[n].source = "manual_override" =>
    n > 1 /\ calendar[n].base = n - 1 /\ OneDayChanged(calendar[n], calendar[n - 1])
\* An override under way has been built on the version that was then current; what
\* else is under way confirms what it had to.
OverridesBuilt ==
  \A r \in Worker : request[r].at # "idle" =>
    /\ request[r].expected <= pointer.moves
    /\ request[r].source # "manual_override" =>
         Calendars!Covers(request[r].days, request[r].checked)
    /\ request[r].source = "manual_override" =>
         /\ request[r].base = request[r].expected /\ request[r].base > 0
         /\ OneDayChanged(request[r], calendar[request[r].base])

CalendarInv ==
  /\ CalendarTyped /\ PointerNewest /\ OverridesStand /\ OverridesBuilt
  /\ Calendars!StillCovered

LEMMA ImportedFull == MCImported \subseteq Calendars!Days
<1> SUFFICES ASSUME NEW last \in {"PROVISIONAL", "CONFIRMED"}
             PROVE  [d \in 0 .. LastDate |-> Day(TRUE, IF d = LastDate THEN last ELSE "CONFIRMED")]
                      \in Calendars!Days
  BY DEF MCImported
<1>1. \A status \in {"PROVISIONAL", "CONFIRMED"} : Day(TRUE, status) \in Calendars!Day
  BY DEF Day, Calendars!Day, Calendars!Status
<1> QED BY <1>1 DEF Calendars!Days, Calendars!Date

\* A request begins with what it has built from the version it has read.
LEMMA BeginKeeps ==
  ASSUME CalendarInv, NEW r \in Worker, NEW k \in CalendarKey,
         NEW source \in {"import", "manual_override", "restore"}, NEW days \in Calendars!Days,
         NEW base \in Nat, NEW date \in 0 .. LastDate,
         Calendars!Begin(r, k, source, days, base, date),
         source = "manual_override" =>
           /\ base = pointer.version /\ base > 0
           /\ Calendars!Confirmed(days[date])
           /\ \A d \in (0 .. LastDate) \ {date} : days[d] = calendar[base].days[d],
         source # "manual_override" => Calendars!Covers(days, today)
  PROVE  CalendarInv'
<1> USE DEF CalendarInv
<1> DEFINE q == Calendars!Building(k, source, days, base, pointer.moves, date)
<1>1. request' = [request EXCEPT ![r] = q]
      /\ UNCHANGED <<calendar, pointer, today>>
  BY DEF Calendars!Begin
<1>2. q \in Requested
  BY DEF Calendars!Building, Requested, CalendarTyped
<1>3. /\ q.source = source /\ q.base = base /\ q.expected = pointer.moves /\ q.days = days
      /\ q.date = date /\ q.checked = today
  BY DEF Calendars!Building
<1> HIDE DEF q
<1>4. CalendarTyped'
  BY <1>1, <1>2 DEF CalendarTyped
<1>5. ASSUME NEW v \in Worker, request'[v].at # "idle"
      PROVE  /\ request'[v].expected <= pointer.moves
             /\ request'[v].source # "manual_override" =>
                  Calendars!Covers(request'[v].days, request'[v].checked)
             /\ request'[v].source = "manual_override" =>
                  /\ request'[v].base = request'[v].expected /\ request'[v].base > 0
                  /\ OneDayChanged(request'[v], calendar[request'[v].base])
  <2>1. CASE v = r
    <3>1. request'[v] = q
      BY <1>1, <2>1 DEF CalendarTyped
    <3>2. pointer.moves \in Nat /\ pointer.version = pointer.moves
      BY DEF CalendarTyped, PointerNewest
    <3>3. source = "manual_override" => OneDayChanged(q, calendar[q.base])
      BY <1>3 DEF OneDayChanged
    <3> QED BY <1>3, <3>1, <3>2, <3>3
  <2>2. CASE v # r
    BY <1>1, <1>5, <2>2 DEF CalendarTyped, OverridesBuilt
  <2> QED BY <2>1, <2>2
<1>6. OverridesBuilt'
  BY <1>1, <1>5 DEF OverridesBuilt, OneDayChanged, Calendars!Covers, Calendars!Confirmed
<1>7. PointerNewest' /\ OverridesStand'
  BY <1>1 DEF PointerNewest, OverridesStand, OneDayChanged, Calendars!Confirmed
<1>8. Calendars!StillCovered'
  BY <1>1 DEF Calendars!StillCovered, Calendars!RestsOn, Calendars!Covers, Calendars!Confirmed
<1> QED BY <1>4, <1>6, <1>7, <1>8

LEMMA ImportKeeps ==
  ASSUME CalendarInv, NEW r \in Worker, NEW k \in CalendarKey, NEW days \in MCImported,
         Calendars!Import(r, k, days)
  PROVE  CalendarInv'
<1>1. Calendars!Begin(r, k, "import", days, pointer.version, 0) /\ Calendars!Covers(days, today)
  BY DEF Calendars!Import
<1>2. pointer.version \in Nat /\ 0 \in 0 .. LastDate
  BY AdministrationAssumption DEF CalendarInv, CalendarTyped
<1>3. days \in Calendars!Days
  BY ImportedFull
<1> HIDE DEF CalendarInv
<1> QED BY <1>1, <1>2, <1>3, BeginKeeps

LEMMA RestoreKeeps ==
  ASSUME CalendarInv, NEW r \in Worker, NEW k \in CalendarKey, NEW n \in 1 .. MaxVersions,
         Calendars!Restore(r, k, n)
  PROVE  CalendarInv'
<1>1. /\ Calendars!Begin(r, k, "restore", calendar[n].days, n, 0) /\ n \in DOMAIN calendar
      /\ Calendars!Covers(calendar[n].days, today)
  BY DEF Calendars!Restore
<1>2. n \in Nat /\ 0 \in 0 .. LastDate
  BY AdministrationAssumption
<1>3. calendar[n] \in Activated
  BY <1>1, ElementOfSeq DEF CalendarInv, CalendarTyped
<1>4. calendar[n].days \in Calendars!Days
  BY <1>3 DEF Activated
<1> QED BY <1>1, <1>2, <1>4, BeginKeeps

LEMMA OverrideKeeps ==
  ASSUME CalendarInv, NEW r \in Worker, NEW k \in CalendarKey, NEW d \in 0 .. LastDate,
         NEW open \in BOOLEAN, Calendars!OverrideDay(r, k, d, open)
  PROVE  CalendarInv'
<1> DEFINE day == IF open THEN Calendars!Trading("OVERRIDDEN") ELSE Calendars!Closed("OVERRIDDEN")
           old == calendar[pointer.version].days
           days == [old EXCEPT ![d] = day]
<1>1. Calendars!Begin(r, k, "manual_override", days, pointer.version, d) /\ pointer.version # 0
  BY DEF Calendars!OverrideDay, Calendars!Current
<1>2. pointer.version \in 1 .. Len(calendar)
  BY <1>1 DEF CalendarInv, CalendarTyped, PointerNewest
<1>3. calendar[pointer.version] \in Activated
  BY <1>2, ElementOfSeq DEF CalendarInv, CalendarTyped
<1>4. old \in [0 .. LastDate -> Calendars!Day]
  BY <1>3 DEF Activated, Calendars!Days, Calendars!Date
<1>5. day \in Calendars!Day /\ Calendars!Confirmed(day)
  BY DEF Calendars!Day, Calendars!Trading, Calendars!Closed, Calendars!Status, Calendars!Confirmed
<1> HIDE DEF old, day
<1>6. days \in Calendars!Days /\ days[d] = day
      /\ \A e \in (0 .. LastDate) \ {d} : days[e] = old[e]
  BY <1>4, <1>5 DEF Calendars!Days, Calendars!Date
<1> HIDE DEF days
<1>7. /\ Calendars!Confirmed(days[d])
      /\ \A e \in (0 .. LastDate) \ {d} : days[e] = calendar[pointer.version].days[e]
  BY <1>5, <1>6 DEF old
<1> QED BY <1>1, <1>2, <1>6, <1>7, BeginKeeps

\* The version and the pointer go together; what others build on is what it was.
LEMMA ActivateKeeps ==
  ASSUME CalendarInv, NEW r \in Worker, Calendars!Activate(r)
  PROVE  CalendarInv'
<1> USE DEF CalendarInv
<1> DEFINE q == request[r]
           new == [days |-> q.days, key |-> q.key, base |-> q.base, source |-> q.source,
                   date |-> q.date, checked |-> q.checked]
<1>1. /\ q.at = "numbered" /\ q.number = Len(calendar) + 1 /\ q.expected = pointer.moves
      /\ calendar' = Append(calendar, new)
      /\ pointer' = [version |-> q.number, moves |-> pointer.moves + 1]
      /\ request' = [request EXCEPT ![r] = Calendars!Idle]
      /\ UNCHANGED today
  BY DEF Calendars!Activate, Calendars!Insertable, Calendars!PointerUnmoved
<1>2. q \in Requested
  BY <1>1 DEF CalendarTyped, Calendars!Idle
<1>3. new \in Activated
  BY <1>2 DEF Requested, Activated
<1>4. /\ calendar \in Seq(Activated) /\ Len(calendar) \in Nat
      /\ pointer.version = Len(calendar) /\ pointer.moves = Len(calendar)
  BY DEF CalendarTyped, PointerNewest
<1>5. /\ new.source = q.source /\ new.base = q.base /\ new.date = q.date /\ new.days = q.days
      /\ new.checked = q.checked
  OBVIOUS
<1> HIDE DEF new, q
<1>6. /\ calendar' \in Seq(Activated) /\ Len(calendar') = Len(calendar) + 1
      /\ \A n \in 1 .. Len(calendar) : calendar'[n] = calendar[n]
      /\ calendar'[Len(calendar) + 1] = new
  BY <1>1, <1>3, <1>4, AppendProperties
<1>7. CalendarTyped'
  <2>1. pointer' \in [version : Nat, moves : Nat]
    BY <1>1, <1>4
  <2>2. request' \in [Worker -> Requested \cup {Calendars!Idle}]
    BY <1>1 DEF CalendarTyped
  <2> QED BY <1>1, <1>6, <2>1, <2>2 DEF CalendarTyped
<1>8. PointerNewest'
  BY <1>1, <1>4, <1>6 DEF PointerNewest
<1>9. OverridesStand'
  <2>1. ASSUME NEW n \in 1 .. Len(calendar'), calendar'[n].source = "manual_override"
        PROVE  n > 1 /\ calendar'[n].base = n - 1 /\ OneDayChanged(calendar'[n], calendar'[n - 1])
    <3>1. CASE n \in 1 .. Len(calendar)
      <4>1. n > 1 /\ calendar[n].base = n - 1 /\ OneDayChanged(calendar[n], calendar[n - 1])
        BY <1>6, <2>1, <3>1 DEF OverridesStand
      <4>2. calendar'[n] = calendar[n] /\ calendar'[n - 1] = calendar[n - 1]
        BY <1>6, <3>1, <4>1
      <4> QED BY <4>1, <4>2
    <3>2. CASE n = Len(calendar) + 1
      <4>1. q.source = "manual_override"
        BY <1>5, <1>6, <2>1, <3>2
      <4>2. q.base = Len(calendar) /\ q.base > 0 /\ OneDayChanged(q, calendar[q.base])
        BY <1>1, <1>4, <4>1 DEF OverridesBuilt, q
      <4>3. OneDayChanged(new, calendar[Len(calendar)])
        BY <1>5, <4>2 DEF OneDayChanged
      <4>4. calendar'[n - 1] = calendar[Len(calendar)] /\ calendar'[n] = new
        BY <1>4, <1>6, <3>2, <4>2
      <4> QED BY <1>4, <1>5, <3>2, <4>2, <4>3, <4>4
    <3> QED BY <1>4, <1>6, <2>1, <3>1, <3>2
  <2> QED BY <2>1 DEF OverridesStand, OneDayChanged
<1>10. OverridesBuilt'
  <2>1. ASSUME NEW v \in Worker, request'[v].at # "idle"
        PROVE  /\ request'[v].expected <= pointer'.moves
               /\ request'[v].source # "manual_override" =>
                    Calendars!Covers(request'[v].days, request'[v].checked)
               /\ request'[v].source = "manual_override" =>
                    /\ request'[v].base = request'[v].expected /\ request'[v].base > 0
                    /\ OneDayChanged(request'[v], calendar'[request'[v].base])
    <3>1. request'[v] = request[v] /\ request[v] \in Requested
      BY <1>1, <2>1 DEF CalendarTyped, Calendars!Idle
    <3>2. /\ request[v].expected <= pointer.moves
          /\ request[v].source # "manual_override" =>
               Calendars!Covers(request[v].days, request[v].checked)
          /\ request[v].source = "manual_override" =>
               /\ request[v].base = request[v].expected /\ request[v].base > 0
               /\ OneDayChanged(request[v], calendar[request[v].base])
      BY <2>1, <3>1 DEF OverridesBuilt
    <3>3. request[v].base \in Nat /\ request[v].expected \in Nat
      BY <3>1 DEF Requested
    <3>4. request[v].source = "manual_override" => request[v].base \in 1 .. Len(calendar)
      BY <1>4, <3>2, <3>3
    <3>5. pointer'.moves = pointer.moves + 1
      BY <1>1
    <3>6. request[v].expected <= pointer'.moves
      BY <1>4, <3>2, <3>3, <3>5
    <3> QED BY <1>6, <3>1, <3>2, <3>4, <3>6
  <2> QED BY <2>1 DEF OverridesBuilt, OneDayChanged, Calendars!Covers, Calendars!Confirmed
<1>11. ASSUME NEW n \in 1 .. Len(calendar')
       PROVE  \E m \in 1 .. n : Calendars!RestsOn(n, m)'
                             /\ Calendars!Covers(calendar'[n].days, calendar'[m].checked)
  <2>1. CASE n \in 1 .. Len(calendar)
    <3>1. PICK m \in 1 .. n : Calendars!RestsOn(n, m)
                           /\ Calendars!Covers(calendar[n].days, calendar[m].checked)
      BY <2>1 DEF Calendars!StillCovered
    <3>2. \A o \in m .. n : calendar'[o] = calendar[o]
      BY <1>6, <2>1
    <3> QED BY <1>4, <2>1, <3>1, <3>2 DEF Calendars!RestsOn
  <2>2. CASE n = Len(calendar) + 1 /\ q.source # "manual_override"
    <3>1. Calendars!Covers(q.days, q.checked)
      BY <1>1, <2>2 DEF OverridesBuilt, q
    <3>2. Calendars!RestsOn(n, n)'
      BY <1>4, <1>5, <1>6, <2>2 DEF Calendars!RestsOn
    <3> QED BY <1>4, <1>5, <1>6, <2>2, <3>1, <3>2
  <2>3. CASE n = Len(calendar) + 1 /\ q.source = "manual_override"
    <3>1. q.base = Len(calendar) /\ q.base > 0 /\ OneDayChanged(q, calendar[q.base])
      BY <1>1, <1>4, <2>3 DEF OverridesBuilt, q
    <3>2. PICK m \in 1 .. Len(calendar) :
            /\ Calendars!RestsOn(Len(calendar), m)
            /\ Calendars!Covers(calendar[Len(calendar)].days, calendar[m].checked)
      BY <1>4, <3>1 DEF Calendars!StillCovered
    <3>3. \A d \in 0 .. LastDate : Calendars!Confirmed(calendar[Len(calendar)].days[d]) =>
                                   Calendars!Confirmed(q.days[d])
      BY <3>1 DEF OneDayChanged
    <3>4. Calendars!Covers(q.days, calendar[m].checked)
      BY <3>2, <3>3 DEF Calendars!Covers, Calendars!Date
    <3>5. Calendars!RestsOn(n, m)'
      BY <1>4, <1>5, <1>6, <2>3, <3>2 DEF Calendars!RestsOn
    <3>6. calendar'[n].days = q.days /\ calendar'[m].checked = calendar[m].checked
          /\ m \in 1 .. n
      BY <1>4, <1>5, <1>6, <2>3
    <3> QED BY <3>4, <3>5, <3>6
  <2> QED BY <1>4, <1>6, <2>1, <2>2, <2>3
<1>12. Calendars!StillCovered'
  BY <1>11 DEF Calendars!StillCovered, Calendars!Covers, Calendars!Confirmed
<1> QED BY <1>1, <1>7, <1>8, <1>9, <1>10, <1>12

LEMMA CalendarInvNext == CalendarInv /\ [Calendars!CalendarNext]_(Calendars!calendarVars) => CalendarInv'
<1> SUFFICES ASSUME CalendarInv, [Calendars!CalendarNext]_(Calendars!calendarVars) PROVE CalendarInv'
  OBVIOUS
<1>1. ASSUME NEW r \in Worker, NEW k \in CalendarKey, NEW days \in MCImported,
             Calendars!Import(r, k, days)
      PROVE  CalendarInv'
  BY <1>1, ImportKeeps
<1>2. ASSUME NEW r \in Worker, NEW k \in CalendarKey, NEW d \in Calendars!Date,
             NEW open \in BOOLEAN, Calendars!OverrideDay(r, k, d, open)
      PROVE  CalendarInv'
  BY <1>2, OverrideKeeps DEF Calendars!Date
<1>3. ASSUME NEW r \in Worker, NEW k \in CalendarKey, NEW n \in 1 .. MaxVersions,
             Calendars!Restore(r, k, n)
      PROVE  CalendarInv'
  BY <1>3, RestoreKeeps
<1>4. ASSUME NEW r \in Worker, Calendars!TakeNumber(r) PROVE CalendarInv'
  <2> DEFINE q == [request[r] EXCEPT !.at = "numbered", !.number = Len(calendar) + 1]
  <2>1. /\ request' = [request EXCEPT ![r] = q] /\ request[r].at = "built"
        /\ UNCHANGED <<calendar, pointer, today>>
    BY <1>4 DEF Calendars!TakeNumber
  <2>2. request[r] \in Requested /\ Len(calendar) + 1 \in Nat
    BY <2>1 DEF CalendarInv, CalendarTyped, Calendars!Idle
  <2>3. q \in Requested
    BY <2>2 DEF Requested
  <2>4. /\ q.source = request[r].source /\ q.base = request[r].base /\ q.days = request[r].days
        /\ q.expected = request[r].expected /\ q.date = request[r].date
        /\ q.checked = request[r].checked
    BY <2>2 DEF Requested
  <2> HIDE DEF q
  <2>5. CalendarTyped'
    BY <2>1, <2>3 DEF CalendarInv, CalendarTyped
  <2>6. OneDayChanged(request[r], calendar[request[r].base]) => OneDayChanged(q, calendar[q.base])
    BY <2>4 DEF OneDayChanged
  <2>7. request'[r] = q /\ \A v \in Worker : v # r => request'[v] = request[v]
    BY <2>1 DEF CalendarInv, CalendarTyped
  <2>8. \A v \in Worker : request'[v].at # "idle" =>
          /\ request'[v].expected <= pointer.moves
          /\ request'[v].source # "manual_override" =>
               Calendars!Covers(request'[v].days, request'[v].checked)
          /\ request'[v].source = "manual_override" =>
               /\ request'[v].base = request'[v].expected /\ request'[v].base > 0
               /\ OneDayChanged(request'[v], calendar[request'[v].base])
    BY <2>1, <2>4, <2>6, <2>7 DEF CalendarInv, OverridesBuilt
  <2>9. OverridesBuilt'
    BY <2>1, <2>8 DEF OverridesBuilt, OneDayChanged, Calendars!Covers, Calendars!Confirmed
  <2>10. PointerNewest' /\ OverridesStand'
    BY <2>1 DEF CalendarInv, PointerNewest, OverridesStand, OneDayChanged, Calendars!Confirmed
  <2>11. Calendars!StillCovered'
    BY <2>1 DEF CalendarInv, Calendars!StillCovered, Calendars!RestsOn, Calendars!Covers,
           Calendars!Confirmed
  <2> QED BY <2>5, <2>9, <2>10, <2>11 DEF CalendarInv
<1>5. ASSUME NEW r \in Worker, Calendars!Activate(r) PROVE CalendarInv'
  BY <1>5, ActivateKeeps
<1>6. ASSUME NEW r \in Worker, Calendars!Conflict(r) PROVE CalendarInv'
  <2>1. request' = [request EXCEPT ![r] = Calendars!Idle]
        /\ UNCHANGED <<calendar, pointer, today>>
    BY <1>6 DEF Calendars!Conflict
  <2>2. CalendarTyped'
    BY <2>1 DEF CalendarInv, CalendarTyped
  <2>3. \A v \in Worker : request'[v].at # "idle" => request'[v] = request[v]
    BY <2>1 DEF CalendarInv, CalendarTyped, Calendars!Idle
  <2>4. OverridesBuilt'
    BY <2>1, <2>3 DEF CalendarInv, OverridesBuilt, OneDayChanged, Calendars!Covers,
           Calendars!Confirmed
  <2> QED BY <2>1, <2>2, <2>4 DEF CalendarInv, PointerNewest, OverridesStand, OneDayChanged,
             Calendars!StillCovered, Calendars!RestsOn, Calendars!Covers, Calendars!Confirmed
<1>7. CASE Calendars!Midnight
  <2>1. today' \in Nat
    BY <1>7 DEF Calendars!Midnight, CalendarInv, CalendarTyped
  <2> QED BY <1>7, <2>1 DEF Calendars!Midnight, CalendarInv, CalendarTyped, PointerNewest,
             OverridesStand, OverridesBuilt, OneDayChanged, Calendars!StillCovered,
             Calendars!RestsOn, Calendars!Covers, Calendars!Confirmed
<1>8. CASE UNCHANGED Calendars!calendarVars
  BY <1>8 DEF Calendars!calendarVars, CalendarInv, CalendarTyped, PointerNewest,
              OverridesStand, OverridesBuilt, OneDayChanged, Calendars!StillCovered,
              Calendars!RestsOn, Calendars!Covers, Calendars!Confirmed
<1> QED BY <1>1, <1>2, <1>3, <1>4, <1>5, <1>6, <1>7, <1>8 DEF Calendars!CalendarNext

\* No change of the calendar is lost: the pointer is compared before a version
\* replaces another, so an override is built on the version it replaces, and what
\* the last import or restore had to confirm stays confirmed (StillCovered).
THEOREM Calendar == Calendars!CalendarSpec => []CalendarSound
<1>1. Calendars!CalendarInit => CalendarInv
  <2> SUFFICES ASSUME Calendars!CalendarInit PROVE CalendarInv
    OBVIOUS
  <2>1. CalendarTyped
    BY EmptySeq DEF Calendars!CalendarInit, CalendarTyped
  <2> QED BY <2>1 DEF Calendars!CalendarInit, CalendarInv, PointerNewest, OverridesStand,
             OverridesBuilt, Calendars!StillCovered, Calendars!Idle
<1>2. CalendarInv => CalendarSound
  <2> SUFFICES ASSUME CalendarInv PROVE CalendarSound
    OBVIOUS
  <2>1. Calendars!NoChangeLost
    BY DEF CalendarInv, CalendarTyped, PointerNewest, OverridesStand, OneDayChanged,
           Calendars!NoChangeLost, Calendars!Date
  <2> QED BY <2>1 DEF CalendarInv, CalendarSound, Calendars!CalendarSound
<1> QED BY <1>1, <1>2, CalendarInvNext, PTL DEF Calendars!CalendarSpec

-----------------------------------------------------------------------------
(* The master data of the securities.                                       *)

Refreshed == [key : Session, observed : Nat, content : MCContents]
Refreshing == [at : {"waiting", "applied", "done", "refused"}]
              \cup [at : {"fetched"}, content : MCContents, observed : Nat]
MastersTyped ==
  /\ DOMAIN security = {First, Second}
  /\ master \in Seq(Refreshed) /\ refresh \in [Session -> Refreshing]
  /\ DOMAIN reader = Holder /\ observed \in Nat

\* A security without a status is one no refresh has listed.
UnknownAbsent ==
  \A s \in {First, Second} : security[s] = Masters!Unknown <=> security[s].status = "absent"
RevisionsPast == \A v \in revisions : v.version \in 1 .. Len(master)
\* What is frozen, and what is being frozen under the lock, are known securities.
Frozen ==
  \A u \in universes : u.version \in 0 .. Len(master)
                       /\ \A item \in u.items : item[1] \in {First, Second}
                                                /\ security[item[1]].status # "absent"
ReadCurrent ==
  \A r \in Holder : reader[r].at = "read" =>
    \A item \in reader[r].items :
      /\ item[1] \in {First, Second} /\ security[item[1]].status = item[2]
      /\ item[2] # "absent"

MastersInv ==
  /\ MastersTyped /\ UnknownAbsent /\ RevisionsPast /\ Frozen /\ ReadCurrent
  /\ Masters!SecuritiesSound

\* The first of a set of revisions is the same after a later one has joined them.
LEMMA FirstStays ==
  ASSUME NEW L, NEW M, L \subseteq M,
         \A v \in M \ L : \E w \in L : ~(v.version <= w.version),
         \A v \in L, w \in M \ L : v.version <= w.version
  PROVE  (CHOOSE v \in M : \A w \in M : v.version <= w.version)
           = (CHOOSE v \in L : \A w \in L : v.version <= w.version)
<1>1. \A v : (v \in M /\ \A w \in M : v.version <= w.version)
               <=> (v \in L /\ \A w \in L : v.version <= w.version)
  OBVIOUS
<1> QED BY <1>1, Zenon

\* A refresh that changes a known security leaves the revision that tells what it was.
LEMMA StatusAtStays ==
  ASSUME MastersInv, NEW j \in Session, Masters!ApplySnapshot(j),
         NEW s \in {First, Second}, security[s].status # "absent", NEW n \in 0 .. Len(master)
  PROVE  Masters!StatusAt(s, n)' = Masters!StatusAt(s, n)
<1> USE DEF MastersInv
<1> DEFINE content == refresh[j].content
           new == [symbol |-> s, version |-> Len(master) + 1, before |-> security[s].status,
                   after |-> Masters!StatusAfter(s, content)]
           L == Masters!Later(s, n)
           M == Masters!Later(s, n)'
<1>1. /\ security' = [t \in {First, Second} |-> IF t \in Masters!Changed(content)
                        THEN [status |-> Masters!StatusAfter(t, content), version |-> Len(master) + 1]
                        ELSE security[t]]
      /\ revisions' = revisions \cup
           {[symbol |-> t, version |-> Len(master) + 1, before |-> security[t].status,
             after |-> Masters!StatusAfter(t, content)] :
              t \in {u \in Masters!Changed(content) : security[u] # Masters!Unknown}}
  BY DEF Masters!ApplySnapshot
<1>2. security[s] # Masters!Unknown
  BY DEF UnknownAbsent
<1>3. Len(master) \in Nat
  BY DEF MastersTyped
<1>4. M = IF s \in Masters!Changed(content) THEN L \cup {new} ELSE L
  <2>1. M = {v \in revisions' : v.symbol = s /\ v.version > n}
    BY DEF Masters!Later
  <2>2. \A t \in Masters!Changed(content) :
          t # s => [symbol |-> t, version |-> Len(master) + 1, before |-> security[t].status,
                    after |-> Masters!StatusAfter(t, content)].symbol # s
    OBVIOUS
  <2>3. new.version > n /\ new.symbol = s
    BY <1>3
  <2>4. CASE s \in Masters!Changed(content)
    <3>1. new \in revisions'
      BY <1>1, <1>2, <2>4
    <3>2. \A v \in revisions' : v.symbol = s => v \in revisions \/ v = new
      BY <1>1
    <3>3. revisions \subseteq revisions'
      BY <1>1
    <3> HIDE DEF new
    <3> QED BY <2>1, <2>3, <2>4, <3>1, <3>2, <3>3 DEF Masters!Later
  <2>5. CASE s \notin Masters!Changed(content)
    <3>1. \A v \in revisions' : v.symbol = s => v \in revisions
      BY <1>1, <2>5
    <3>2. revisions \subseteq revisions'
      BY <1>1
    <3> QED BY <2>1, <2>5, <3>1, <3>2 DEF Masters!Later
  <2> QED BY <2>4, <2>5
<1>5. \A v \in L : v.version \in Nat /\ v.version < Len(master) + 1
  BY <1>3 DEF RevisionsPast, Masters!Later
<1>6. new.version = Len(master) + 1 /\ new.before = security[s].status
  OBVIOUS
<1>7. s \notin Masters!Changed(content) => security'[s] = security[s]
  BY <1>1
<1>8. Masters!StatusAt(s, n) = IF L = {} THEN security[s].status
        ELSE (CHOOSE v \in L : \A w \in L : v.version <= w.version).before
  BY DEF Masters!StatusAt
<1>9. Masters!StatusAt(s, n)' = IF M = {} THEN security'[s].status
        ELSE (CHOOSE v \in M : \A w \in M : v.version <= w.version).before
  BY DEF Masters!StatusAt
<1> HIDE DEF L, M, new, content
<1>10. CASE s \notin Masters!Changed(content)
  BY <1>4, <1>7, <1>8, <1>9, <1>10
<1>11. CASE s \in Masters!Changed(content) /\ L = {}
  <2>1. M = {new}
    BY <1>4, <1>11
  <2>2. new.version <= new.version
    BY <1>3, <1>6
  <2>3. (CHOOSE v \in M : \A w \in M : v.version <= w.version) = new
    BY <2>1, <2>2
  <2> QED BY <1>6, <1>8, <1>9, <1>11, <2>1, <2>3
<1>12. CASE s \in Masters!Changed(content) /\ L # {}
  <2>1. M = L \cup {new}
    BY <1>4, <1>12
  <2>2. \A v \in M \ L : \E w \in L : ~(v.version <= w.version)
    BY <1>3, <1>5, <1>6, <1>12, <2>1
  <2>3. \A v \in L, w \in M \ L : v.version <= w.version
    BY <1>3, <1>5, <1>6, <2>1
  <2>4. (CHOOSE v \in M : \A w \in M : v.version <= w.version)
          = (CHOOSE v \in L : \A w \in L : v.version <= w.version)
    BY <2>1, <2>2, <2>3, FirstStays
  <2>5. M # {}
    BY <1>12, <2>1
  <2> QED BY <1>8, <1>9, <1>12, <2>4, <2>5
<1> QED BY <1>10, <1>11, <1>12

\* What was not known of a security before has no universe; the rest was known.
LEMMA ApplyKnows ==
  ASSUME MastersInv, NEW j \in Session, Masters!ApplySnapshot(j), NEW s \in {First, Second}
  PROVE  /\ security'[s] = Masters!Unknown <=> security'[s].status = "absent"
         /\ security[s].status # "absent" => security'[s].status # "absent"
         /\ refresh[j].content[s] # "absent" => security'[s].status # "absent"
<1> USE DEF MastersInv
<1> DEFINE after == Masters!StatusAfter(s, refresh[j].content)
<1>1. security'[s] = IF s \in Masters!Changed(refresh[j].content)
                       THEN [status |-> after, version |-> Len(master) + 1] ELSE security[s]
  BY DEF Masters!ApplySnapshot
<1>2. s \in Masters!Changed(refresh[j].content) <=> after # security[s].status
  BY DEF Masters!Changed
<1>3. Len(master) \in Nat
  BY DEF MastersTyped
<1>4. security[s].status # "absent" => after # "absent"
  BY DEF Masters!StatusAfter
<1>5. refresh[j].content[s] # "absent" => after # "absent"
  BY DEF Masters!StatusAfter
<1>6. security[s] = Masters!Unknown <=> security[s].status = "absent"
  BY DEF UnknownAbsent
<1> HIDE DEF after
<1>7. CASE s \in Masters!Changed(refresh[j].content)
  <2>1. security'[s].status = after /\ security'[s].version = Len(master) + 1
    BY <1>1, <1>7
  <2>2. security'[s] # Masters!Unknown
    BY <1>3, <2>1 DEF Masters!Unknown
  <2>3. after # "absent"
    <3>1. CASE security[s].status = "absent"
      BY <1>2, <1>7, <3>1
    <3>2. CASE security[s].status # "absent"
      BY <1>4, <3>2
    <3> QED BY <3>1, <3>2
  <2> QED BY <2>1, <2>2, <2>3
<1>8. CASE s \notin Masters!Changed(refresh[j].content)
  BY <1>1, <1>2, <1>4, <1>5, <1>6, <1>8
<1> QED BY <1>7, <1>8

\* The steps of a job that leave the securities alone.
LEMMA MastersStay ==
  ASSUME MastersInv, UNCHANGED <<security, master, revisions>>,
         refresh' \in [Session -> Refreshing], observed' \in Nat,
         UNCHANGED <<reader, universes>>
  PROVE  MastersInv'
<1>1. ASSUME NEW s, NEW n PROVE Masters!StatusAt(s, n)' = Masters!StatusAt(s, n)
  BY DEF Masters!StatusAt, Masters!Later
<1>2. Masters!SecuritiesSound'
  BY <1>1 DEF MastersInv, Masters!SecuritiesSound, Masters!UniversesExplained, Masters!AppliedOnce,
              Masters!NeverForgotten, Masters!Unknown
<1> QED BY <1>2 DEF MastersInv, MastersTyped, UnknownAbsent, RevisionsPast, Frozen, ReadCurrent,
                    Masters!Unknown

LEMMA ApplyKeeps ==
  ASSUME MastersInv, NEW j \in Session, Masters!ApplySnapshot(j) PROVE MastersInv'
<1> USE DEF MastersInv
<1> DEFINE content == refresh[j].content
           new == [key |-> j, observed |-> refresh[j].observed, content |-> content]
<1>1. /\ refresh[j].at = "fetched" /\ Masters!LockFree /\ Masters!Applied(j) = {}
      /\ master' = Append(master, new)
      /\ refresh' = [refresh EXCEPT ![j] = [at |-> "applied"]]
      /\ UNCHANGED <<reader, universes, observed, losses>>
  BY DEF Masters!ApplySnapshot
<1>2. content \in MCContents /\ refresh[j].observed \in Nat
  BY <1>1 DEF MastersTyped, Refreshing
<1>3. new \in Refreshed /\ new.content = content /\ new.key = j
  BY <1>2 DEF Refreshed
<1> HIDE DEF new, content
<1>4. master \in Seq(Refreshed) /\ Len(master) \in Nat
  BY DEF MastersTyped
<1>5. /\ master' \in Seq(Refreshed) /\ Len(master') = Len(master) + 1
      /\ \A n \in 1 .. Len(master) : master'[n] = master[n]
      /\ master'[Len(master) + 1] = new
  BY <1>1, <1>3, <1>4, AppendProperties
<1>6. MastersTyped'
  <2>1. DOMAIN security' = {First, Second}
    BY DEF Masters!ApplySnapshot
  <2>2. refresh' \in [Session -> Refreshing]
    BY <1>1 DEF MastersTyped, Refreshing
  <2> QED BY <1>1, <1>5, <2>1, <2>2 DEF MastersTyped
<1>7. UnknownAbsent'
  BY ApplyKnows DEF UnknownAbsent, Masters!Unknown
<1>8. RevisionsPast'
  <2>1. \A v \in revisions' : v \in revisions \/ v.version = Len(master) + 1
    BY DEF Masters!ApplySnapshot
  <2> QED BY <1>4, <1>5, <2>1 DEF RevisionsPast
<1>9. Frozen'
  <2>1. \A u \in universes : u.version \in 0 .. Len(master')
    BY <1>4, <1>5 DEF Frozen
  <2> QED BY <1>1, <2>1, ApplyKnows DEF Frozen
<1>10. ReadCurrent'
  BY <1>1 DEF ReadCurrent, Masters!LockFree
<1>11. Masters!UniversesExplained'
  <2>1. ASSUME NEW u \in universes, NEW item \in u.items
        PROVE  Masters!StatusAt(item[1], u.version)' = item[2]
    <3>1. /\ item[1] \in {First, Second} /\ security[item[1]].status # "absent"
          /\ u.version \in 0 .. Len(master)
      BY DEF Frozen
    <3>2. Masters!StatusAt(item[1], u.version) = item[2]
      BY DEF Masters!SecuritiesSound, Masters!UniversesExplained
    <3> QED BY <3>1, <3>2, StatusAtStays
  <2> QED BY <1>1, <2>1 DEF Masters!UniversesExplained
<1>12. Masters!AppliedOnce'
  <2>1. \A n \in 1 .. Len(master) : master[n].key # j
    BY <1>1, <1>4 DEF Masters!Applied
  <2>2. ASSUME NEW m \in DOMAIN master', NEW n \in DOMAIN master', master'[m].key = master'[n].key
        PROVE  m = n
    <3>1. m \in 1 .. Len(master) + 1 /\ n \in 1 .. Len(master) + 1
      BY <1>5, <1>4
    <3> QED BY <1>3, <1>4, <1>5, <2>1, <2>2, <3>1 DEF Masters!SecuritiesSound, Masters!AppliedOnce
  <2> QED BY <2>2 DEF Masters!AppliedOnce
<1>13. Masters!NeverForgotten'
  <2>1. ASSUME NEW n \in DOMAIN master', NEW s \in {First, Second},
               master'[n].content[s] # "absent"
        PROVE  security'[s] # Masters!Unknown
    <3>1. CASE n = Len(master) + 1
      BY <1>3, <1>5, <2>1, <3>1, ApplyKnows DEF content
    <3>2. CASE n # Len(master) + 1
      <4>1. n \in 1 .. Len(master)
        BY <1>4, <1>5, <3>2
      <4>2. security[s] # Masters!Unknown
        BY <1>4, <1>5, <2>1, <4>1 DEF Masters!SecuritiesSound, Masters!NeverForgotten
      <4>3. security[s].status # "absent"
        BY <4>2 DEF UnknownAbsent
      <4> QED BY <4>3, ApplyKnows
    <3> QED BY <3>1, <3>2
  <2> QED BY <2>1 DEF Masters!NeverForgotten, Masters!Unknown
<1> QED BY <1>6, <1>7, <1>8, <1>9, <1>10, <1>11, <1>12, <1>13 DEF Masters!SecuritiesSound

\* The steps of who freezes a universe.
LEMMA FreezeKeeps ==
  ASSUME MastersInv, NEW r \in Holder,
         \/ \E missingToo \in BOOLEAN : Masters!ReadSecurities(r, missingToo)
         \/ \E symbols \in SUBSET {First, Second} : Masters!ReadGiven(r, symbols)
         \/ Masters!SaveUniverse(r)
  PROVE  MastersInv'
<1> USE DEF MastersInv
<1>1. UNCHANGED <<security, master, revisions, refresh, observed>>
  BY DEF Masters!ReadSecurities, Masters!ReadGiven, Masters!SaveUniverse
<1>2. MastersTyped'
  BY <1>1 DEF MastersTyped, Masters!ReadSecurities, Masters!ReadGiven, Masters!SaveUniverse
<1>3. UnknownAbsent' /\ RevisionsPast' /\ Masters!AppliedOnce' /\ Masters!NeverForgotten'
  BY <1>1 DEF UnknownAbsent, RevisionsPast, Masters!SecuritiesSound, Masters!AppliedOnce,
              Masters!NeverForgotten, Masters!Unknown
<1>4. ASSUME NEW s, NEW n PROVE Masters!StatusAt(s, n)' = Masters!StatusAt(s, n)
  BY <1>1 DEF Masters!StatusAt, Masters!Later
<1>5. ASSUME NEW symbols \in SUBSET {First, Second},
             \A s \in symbols : security[s].status # "absent",
             reader' = [reader EXCEPT ![r] =
                [at |-> "read", items |-> {<<s, security[s].status>> : s \in symbols}]],
             UNCHANGED universes
      PROVE  MastersInv'
  <2>1. Frozen' /\ Masters!UniversesExplained'
    BY <1>1, <1>4, <1>5 DEF Frozen, Masters!UniversesExplained, Masters!SecuritiesSound
  <2>2. \A q \in Holder : reader'[q].at = "read" =>
          \/ reader'[q] = reader[q]
          \/ reader'[q].items = {<<s, security[s].status>> : s \in symbols}
    BY <1>5 DEF MastersTyped
  <2>3. \A item \in {<<s, security[s].status>> : s \in symbols} :
          item[1] \in {First, Second} /\ security[item[1]].status = item[2] /\ item[2] # "absent"
    BY <1>5
  <2>4. ReadCurrent'
    BY <1>1, <2>2, <2>3 DEF ReadCurrent
  <2> QED BY <1>2, <1>3, <2>1, <2>4 DEF Masters!SecuritiesSound
<1>6. ASSUME NEW missingToo \in BOOLEAN, Masters!ReadSecurities(r, missingToo) PROVE MastersInv'
  <2> DEFINE symbols == {t \in {First, Second} : Masters!Eligible(t, missingToo)}
  <2>1. \A s \in symbols : security[s].status # "absent"
    BY DEF Masters!Eligible, Masters!Listed
  <2>2. /\ reader' = [reader EXCEPT ![r] =
                [at |-> "read", items |-> {<<s, security[s].status>> : s \in symbols}]]
        /\ UNCHANGED universes
    BY <1>6 DEF Masters!ReadSecurities
  <2>3. symbols \in SUBSET {First, Second}
    OBVIOUS
  <2> HIDE DEF symbols
  <2> QED BY <1>5, <2>1, <2>2, <2>3
<1>7. ASSUME NEW symbols \in SUBSET {First, Second}, Masters!ReadGiven(r, symbols) PROVE MastersInv'
  <2>1. \A s \in symbols : security[s].status # "absent"
    BY <1>7 DEF Masters!ReadGiven, Masters!Eligible, Masters!Listed
  <2> QED BY <1>5, <1>7, <2>1 DEF Masters!ReadGiven
<1>8. CASE Masters!SaveUniverse(r)
  <2> DEFINE new == [version |-> Len(master), items |-> reader[r].items]
  <2>1. /\ reader[r].at = "read" /\ universes' = universes \cup {new}
        /\ reader' = [reader EXCEPT ![r] = [at |-> "idle"]]
    BY <1>8 DEF Masters!SaveUniverse
  <2>2. Len(master) \in Nat
    BY DEF MastersTyped
  <2>3. ReadCurrent'
    BY <1>1, <2>1 DEF ReadCurrent, MastersTyped
  <2>4. \A item \in reader[r].items :
          item[1] \in {First, Second} /\ security[item[1]].status = item[2] /\ item[2] # "absent"
    BY <2>1 DEF ReadCurrent
  <2>5. new.version = Len(master) /\ new.items = reader[r].items
    OBVIOUS
  <2> HIDE DEF new
  <2>6. Frozen'
    BY <1>1, <2>1, <2>2, <2>4, <2>5 DEF Frozen
  <2>7. ASSUME NEW s PROVE Masters!StatusAt(s, Len(master)) = security[s].status
    <3>1. Masters!Later(s, Len(master)) = {}
      BY <2>2 DEF RevisionsPast, Masters!Later
    <3> QED BY <3>1 DEF Masters!StatusAt
  <2>8. Masters!UniversesExplained'
    BY <1>4, <2>1, <2>4, <2>5, <2>7 DEF Masters!UniversesExplained, Masters!SecuritiesSound
  <2> QED BY <1>2, <1>3, <2>3, <2>6, <2>8 DEF Masters!SecuritiesSound
<1> QED BY <1>6, <1>7, <1>8

LEMMA MastersInvNext ==
  ASSUME MastersInv, [Masters!SecuritiesNext]_(Masters!securityVars) PROVE MastersInv'
<1>1. ASSUME NEW j \in Session, Masters!ApplySnapshot(j) PROVE MastersInv'
  BY <1>1, ApplyKeeps
<1>2. ASSUME NEW j \in Session,
             \/ Masters!Fetch(j) \/ Masters!FindReplay(j) \/ Masters!LoseAttempt(j)
             \/ Masters!FinishJob(j)
      PROVE  MastersInv'
  <2>1. refresh' \in [Session -> Refreshing] /\ observed' \in Nat
    <3>1. observed \in Nat /\ refresh \in [Session -> Refreshing]
      BY DEF MastersInv, MastersTyped
    <3>2. CASE Masters!Fetch(j)
      BY <3>1, <3>2 DEF Masters!Fetch, Refreshing
    <3>3. CASE Masters!FindReplay(j)
      BY <3>1, <3>3 DEF Masters!FindReplay, Refreshing
    <3>4. CASE Masters!LoseAttempt(j)
      BY <3>1, <3>4 DEF Masters!LoseAttempt, Refreshing
    <3>5. CASE Masters!FinishJob(j)
      BY <3>1, <3>5 DEF Masters!FinishJob, Refreshing
    <3> QED BY <1>2, <3>2, <3>3, <3>4, <3>5
  <2> QED BY <1>2, <2>1, MastersStay
          DEF Masters!Fetch, Masters!FindReplay, Masters!LoseAttempt, Masters!FinishJob
<1>3. CASE UNCHANGED Masters!securityVars
  BY <1>3, MastersStay DEF Masters!securityVars, MastersInv, MastersTyped
<1> QED BY <1>1, <1>2, <1>3, FreezeKeeps DEF Masters!SecuritiesNext

\* A frozen universe is what the securities were at the version it names, a key
\* is applied once, and no security that a source ever listed disappears.
THEOREM MasterData == Masters!SecuritiesSpec => []SecuritiesSound
<1>1. Masters!SecuritiesInit => MastersInv
  BY EmptySeq DEF Masters!SecuritiesInit, MastersInv, MastersTyped, Refreshing, UnknownAbsent,
     RevisionsPast, Frozen, ReadCurrent, Masters!Unknown, Masters!SecuritiesSound,
     Masters!UniversesExplained, Masters!AppliedOnce, Masters!NeverForgotten
<1>2. MastersInv => SecuritiesSound
  BY DEF MastersInv, SecuritiesSound
<1> QED BY <1>1, <1>2, MastersInvNext, PTL DEF Masters!SecuritiesSpec

-----------------------------------------------------------------------------
(* Strategies.                                                              *)

Drafted == [version : Nat, content : Content]
Validation == [draft : Drafted, backtest : Drafted,
               status : {"PENDING", "SUCCEEDED", "FAILED"}, bound : Nat]
Release == [content : Content, validation : Nat,
            status : {"PUBLISHING", "PUBLISH_FAILED"} \cup Strategies!Public,
            run : {"PENDING", "RUNNING", "SUCCEEDED", "FAILED"}]
Publishing == [pc : {"idle", "git", "complete", "GIT_FAILED", "DATABASE_FAILED"}, version : Nat]
Committed == [commits : Nat, files : BOOLEAN]
StrategiesTyped ==
  /\ draft \in Drafted /\ tested \subseteq Drafted
  /\ validation \in Seq(Validation) /\ Len(validation) <= MaxValidations
  /\ version \in Seq(Release)
  /\ publisher \in [Publisher -> Publishing]
  /\ git \in [1 .. MaxValidations -> Committed]

\* A validation that was passed had a backtest of the very draft, on record.
PassedOnDraft ==
  /\ passed \subseteq DOMAIN validation
  /\ \A k \in DOMAIN validation :
       /\ validation[k].backtest \in tested
       /\ k \in passed => validation[k].backtest = validation[k].draft
       /\ validation[k].status = "SUCCEEDED" => k \in passed
\* Every version has a validation of its own, of what it contains.
BoundOnce ==
  /\ \A k \in DOMAIN validation : validation[k].bound \in 0 .. Len(version)
  /\ \A n \in DOMAIN version :
       /\ version[n].validation \in DOMAIN validation
       /\ validation[version[n].validation].bound = n
       /\ validation[version[n].validation].status = "SUCCEEDED"
       /\ validation[version[n].validation].draft.content = version[n].content
\* Only what has been committed is on the way to be published, and commits are few.
CommitFirst ==
  /\ \A w \in Publisher : publisher[w].pc # "idle" => publisher[w].version \in DOMAIN version
  /\ \A w \in Publisher : publisher[w].pc = "complete" => git[publisher[w].version].commits > 0
  /\ \A n \in DOMAIN version : version[n].status \in Strategies!Public => git[n].commits > 0
  /\ \A n \in 1 .. MaxValidations : git[n].commits <= 1
FailedTogether ==
  \A n \in DOMAIN version : version[n].run = "FAILED" <=> version[n].status = "PUBLISH_FAILED"

StrategiesInv ==
  /\ StrategiesTyped /\ PassedOnDraft /\ BoundOnce /\ CommitFirst /\ FailedTogether

\* The row of one version is written: what it holds and what it binds stay.
Written1(n, row) ==
  /\ n \in DOMAIN version /\ row \in Release /\ version' = [version EXCEPT ![n] = row]
  /\ row.validation = version[n].validation /\ row.content = version[n].content
  /\ row.run = "FAILED" <=> row.status = "PUBLISH_FAILED"

LEMMA VersionWritten ==
  ASSUME StrategiesInv, NEW n, NEW row, Written1(n, row)
  PROVE  /\ version' \in Seq(Release) /\ Len(version') = Len(version)
         /\ DOMAIN version' = DOMAIN version
         /\ \A m \in DOMAIN version : version'[m] = IF m = n THEN row ELSE version[m]
BY ExceptSeq DEF StrategiesInv, StrategiesTyped, Written1

\* Only the work on a published row asks what was committed.
LEMMA VersionWrittenKeeps ==
  ASSUME StrategiesInv, NEW n, NEW row, Written1(n, row),
         row.status \in Strategies!Public => git[n].commits > 0,
         UNCHANGED <<draft, tested, validation, passed, git>>,
         publisher' \in [Publisher -> Publishing],
         \A w \in Publisher :
           /\ publisher'[w].pc # "idle" => publisher'[w].version \in DOMAIN version
           /\ publisher'[w].pc = "complete" => publisher'[w] = publisher[w]
  PROVE  StrategiesInv'
<1> USE DEF StrategiesInv
<1>1. /\ version' \in Seq(Release) /\ Len(version') = Len(version)
      /\ DOMAIN version' = DOMAIN version
      /\ \A m \in DOMAIN version : version'[m] = IF m = n THEN row ELSE version[m]
  BY VersionWritten
<1>2. StrategiesTyped'
  BY <1>1 DEF StrategiesTyped
<1>3. PassedOnDraft'
  BY DEF PassedOnDraft
<1>4. BoundOnce'
  <2>1. ASSUME NEW m \in DOMAIN version
        PROVE  /\ version'[m].validation = version[m].validation
               /\ version'[m].content = version[m].content
    BY <1>1 DEF Written1
  <2>2. DOMAIN version' = DOMAIN version /\ Len(version') = Len(version) /\ validation' = validation
    BY <1>1
  <2> QED BY <2>1, <2>2 DEF BoundOnce
<1>5. CommitFirst'
  <2>1. \A m \in DOMAIN version' : version'[m].status \in Strategies!Public => git'[m].commits > 0
    BY <1>1 DEF CommitFirst
  <2>2. \A w \in Publisher : publisher'[w].pc = "complete" => git'[publisher'[w].version].commits > 0
    BY DEF CommitFirst
  <2> QED BY <1>1, <2>1, <2>2 DEF CommitFirst
<1>6. FailedTogether'
  BY <1>1 DEF FailedTogether, Written1
<1> QED BY <1>2, <1>3, <1>4, <1>5, <1>6

\* Nothing of the versions, their validations or the repository changes.
LEMMA PublisherKeeps ==
  ASSUME StrategiesInv, UNCHANGED <<draft, tested, validation, passed, version, git>>,
         publisher' \in [Publisher -> Publishing],
         \A w \in Publisher :
           \/ publisher'[w] = publisher[w] \/ publisher'[w].pc = "idle"
           \/ /\ publisher'[w].pc # "complete" /\ publisher[w].pc # "idle"
              /\ publisher'[w].version = publisher[w].version
  PROVE  StrategiesInv'
<1> USE DEF StrategiesInv
<1>1. StrategiesTyped'
  BY DEF StrategiesTyped
<1>2. CommitFirst'
  BY DEF CommitFirst, StrategiesTyped
<1> QED BY <1>1, <1>2 DEF PassedOnDraft, BoundOnce, FailedTogether

LEMMA DraftKeeps ==
  ASSUME StrategiesInv,
         \/ \E content \in Content : Strategies!SaveDraft(content)
         \/ Strategies!Rename \/ Strategies!TestStock
         \/ \E k \in DOMAIN validation : Strategies!Execute(k)
  PROVE  StrategiesInv'
<1> USE DEF StrategiesInv
<1>1. UNCHANGED <<validation, version, publisher, git>>
  BY DEF Strategies!SaveDraft, Strategies!Rename, Strategies!TestStock, Strategies!Execute,
         Strategies!jobs
<1>2. draft' \in Drafted /\ tested' \subseteq Drafted /\ tested \subseteq tested'
  <2>1. ASSUME NEW content \in Content, Strategies!SaveDraft(content)
        PROVE  draft' \in Drafted /\ tested' = tested
    <3>1. draft.version + 1 \in Nat
      BY DEF StrategiesTyped, Drafted
    <3> QED BY <2>1, <3>1 DEF Strategies!SaveDraft, Drafted
  <2>2. draft.content \in Content
    BY DEF StrategiesTyped, Drafted
  <2>3. CASE Strategies!TestStock
    BY <2>3 DEF Strategies!TestStock, StrategiesTyped
  <2>4. ASSUME NEW k \in DOMAIN validation, Strategies!Execute(k)
        PROVE  draft' = draft /\ tested' = tested
    BY <2>4 DEF Strategies!Execute
  <2> QED BY <2>1, <2>2, <2>3, <2>4 DEF Strategies!Rename, StrategiesTyped
<1>3. ASSUME NEW k \in passed', k \notin passed
      PROVE  k \in DOMAIN validation /\ validation[k].backtest = validation[k].draft
  BY <1>3 DEF Strategies!SaveDraft, Strategies!Rename, Strategies!TestStock, Strategies!Execute,
              Strategies!Facts
<1>4. passed \subseteq passed'
  BY DEF Strategies!SaveDraft, Strategies!Rename, Strategies!TestStock, Strategies!Execute
<1>5. PassedOnDraft'
  BY <1>1, <1>2, <1>3, <1>4 DEF PassedOnDraft
<1>6. StrategiesTyped'
  BY <1>1, <1>2 DEF StrategiesTyped
<1> QED BY <1>1, <1>5, <1>6 DEF BoundOnce, CommitFirst, FailedTogether

LEMMA RequestValidationKeeps ==
  ASSUME StrategiesInv, NEW backtest \in tested, Strategies!RequestValidation(backtest)
  PROVE  StrategiesInv'
<1> USE DEF StrategiesInv
<1> DEFINE new == [draft |-> draft, backtest |-> backtest, status |-> "PENDING", bound |-> 0]
<1>1. /\ validation' = Append(validation, new) /\ Len(validation) < MaxValidations
      /\ UNCHANGED <<draft, tested, passed, version, publisher, git>>
  BY DEF Strategies!RequestValidation, Strategies!jobs
<1>2. new \in Validation
  BY DEF StrategiesTyped, Validation
<1>3. /\ validation' \in Seq(Validation) /\ Len(validation') = Len(validation) + 1
      /\ \A k \in 1 .. Len(validation) : validation'[k] = validation[k]
      /\ validation'[Len(validation) + 1] = new
      /\ Len(validation) \in Nat
  BY <1>1, <1>2, AppendProperties DEF StrategiesTyped
<1>4. Len(validation) + 1 \notin passed
  BY <1>3 DEF PassedOnDraft
<1>5. StrategiesTyped'
  BY <1>1, <1>3, AdministrationAssumption DEF StrategiesTyped
<1>6. \A k \in DOMAIN validation' : \/ k \in DOMAIN validation /\ validation'[k] = validation[k]
                                    \/ k = Len(validation) + 1 /\ validation'[k] = new
  BY <1>3
<1>7. new.backtest \in tested /\ new.status = "PENDING" /\ new.bound = 0
  OBVIOUS
<1> HIDE DEF new
<1>8. PassedOnDraft'
  BY <1>1, <1>3, <1>4, <1>6, <1>7 DEF PassedOnDraft
<1>9. BoundOnce'
  <2>1. Len(version) \in Nat
    BY DEF StrategiesTyped
  <2>2. \A k \in DOMAIN validation' : validation'[k].bound \in 0 .. Len(version)
    BY <1>6, <1>7, <2>1 DEF BoundOnce
  <2> QED BY <1>1, <1>3, <2>2 DEF BoundOnce
<1> QED BY <1>1, <1>5, <1>8, <1>9 DEF CommitFirst, FailedTogether

LEMMA RecordValidationKeeps ==
  ASSUME StrategiesInv, NEW k \in DOMAIN validation, NEW succeeded \in BOOLEAN,
         Strategies!RecordValidation(k, succeeded)
  PROVE  StrategiesInv'
<1> USE DEF StrategiesInv
<1> DEFINE row == [validation[k] EXCEPT !.status = IF succeeded THEN "SUCCEEDED" ELSE "FAILED"]
<1>1. /\ validation[k].status = "PENDING" /\ (succeeded => k \in passed)
      /\ validation' = [validation EXCEPT ![k] = row]
      /\ UNCHANGED <<draft, tested, passed, version, publisher, git>>
  BY DEF Strategies!RecordValidation, Strategies!jobs
<1>2. validation[k] \in Validation /\ k \in 1 .. Len(validation)
  BY ElementOfSeq DEF StrategiesTyped
<1>3. row \in Validation
  BY <1>2 DEF Validation
<1>4. /\ row.draft = validation[k].draft /\ row.backtest = validation[k].backtest
      /\ row.bound = validation[k].bound /\ (row.status = "SUCCEEDED" => succeeded)
  BY <1>2 DEF Validation
<1> HIDE DEF row
<1>5. /\ validation' \in Seq(Validation) /\ Len(validation') = Len(validation)
      /\ DOMAIN validation' = DOMAIN validation
      /\ \A j \in DOMAIN validation : validation'[j] = IF j = k THEN row ELSE validation[j]
  BY <1>1, <1>2, <1>3, ExceptSeq DEF StrategiesTyped
<1>6. StrategiesTyped'
  BY <1>1, <1>5 DEF StrategiesTyped
<1>7. PassedOnDraft'
  BY <1>1, <1>4, <1>5 DEF PassedOnDraft
<1>8. BoundOnce'
  <2>1. ASSUME NEW n \in DOMAIN version
        PROVE  validation'[version[n].validation] = validation[version[n].validation]
    BY <1>1, <1>5 DEF BoundOnce
  <2>2. \A j \in DOMAIN validation : validation'[j].bound = validation[j].bound
    BY <1>4, <1>5
  <2> QED BY <1>1, <1>5, <2>1, <2>2 DEF BoundOnce
<1> QED BY <1>1, <1>6, <1>7, <1>8 DEF CommitFirst, FailedTogether

\* Versions are no more than the validations they bind.
LEMMA VersionsFew == StrategiesInv => Len(version) <= Len(validation)
<1> SUFFICES ASSUME StrategiesInv PROVE Len(version) <= Len(validation)
  OBVIOUS
<1> DEFINE binds == [n \in 1 .. Len(version) |-> version[n].validation]
<1>1. Len(version) \in Nat /\ Len(validation) \in Nat
  BY DEF StrategiesInv, StrategiesTyped
<1>2. binds \in Injection(1 .. Len(version), 1 .. Len(validation))
  <2>1. \A n \in 1 .. Len(version) : version[n].validation \in 1 .. Len(validation)
    BY DEF StrategiesInv, StrategiesTyped, BoundOnce
  <2>2. \A m, n \in 1 .. Len(version) : version[m].validation = version[n].validation => m = n
    <3>1. \A n \in 1 .. Len(version) : validation[version[n].validation].bound = n
      BY DEF StrategiesInv, StrategiesTyped, BoundOnce
    <3> QED BY <3>1
  <2> QED BY <2>1, <2>2 DEF Injection, IsInjective
<1>3. \A m \in Nat : IsFiniteSet(1 .. m) /\ Cardinality(1 .. m) = m
  <2> TAKE m \in Nat
  <2>1. IsFiniteSet(1 .. m) /\ Cardinality(1 .. m) = IF 1 > m THEN 0 ELSE m - 1 + 1
    BY FS_Interval
  <2> QED BY <2>1
<1> HIDE DEF binds
<1> QED BY <1>1, <1>2, <1>3, FS_Injection

LEMMA NewVersionKeeps ==
  ASSUME StrategiesInv, NEW k \in DOMAIN validation, Strategies!NewVersion(k)
  PROVE  StrategiesInv'
<1> USE DEF StrategiesInv
<1> DEFINE new == [content |-> draft.content, validation |-> k,
                   status |-> "PUBLISHING", run |-> "PENDING"]
           row == [validation[k] EXCEPT !.bound = Len(version')]
<1>1. /\ version' = Append(version, new) /\ validation[k].bound = 0
      /\ validation[k].status = "SUCCEEDED" /\ validation[k].draft = draft
      /\ validation' = [validation EXCEPT ![k] = row]
      /\ UNCHANGED <<draft, tested, passed, publisher, git>>
  BY DEF Strategies!NewVersion, Strategies!MayPublish, Strategies!Submit
<1>2. validation[k] \in Validation /\ k \in 1 .. Len(validation) /\ k \in Nat
  BY ElementOfSeq DEF StrategiesTyped
<1>3. new \in Release
  BY <1>2 DEF StrategiesTyped, Drafted, Release
<1>4. /\ version' \in Seq(Release) /\ Len(version') = Len(version) + 1 /\ Len(version) \in Nat
      /\ \A n \in 1 .. Len(version) : version'[n] = version[n]
      /\ version'[Len(version) + 1] = new
  BY <1>1, <1>3, AppendProperties DEF StrategiesTyped
<1>5. row \in Validation
  BY <1>2, <1>4 DEF Validation
<1>6. /\ row.draft = draft /\ row.backtest = validation[k].backtest
      /\ row.bound = Len(version) + 1 /\ row.status = "SUCCEEDED"
  BY <1>1, <1>2, <1>4 DEF Validation
<1>7. new.content = draft.content /\ new.validation = k /\ new.status = "PUBLISHING"
      /\ new.run = "PENDING"
  OBVIOUS
<1> HIDE DEF row, new
<1>8. /\ validation' \in Seq(Validation) /\ Len(validation') = Len(validation)
      /\ DOMAIN validation' = DOMAIN validation
      /\ \A j \in DOMAIN validation : validation'[j] = IF j = k THEN row ELSE validation[j]
  BY <1>1, <1>2, <1>5, ExceptSeq DEF StrategiesTyped
<1>9. StrategiesTyped'
  BY <1>1, <1>4, <1>8 DEF StrategiesTyped
<1>10. PassedOnDraft'
  BY <1>1, <1>6, <1>8 DEF PassedOnDraft
<1>11. \A n \in DOMAIN version' : \/ n \in DOMAIN version /\ version'[n] = version[n]
                                  \/ n = Len(version) + 1 /\ version'[n] = new
  BY <1>4
<1>12. \A n \in DOMAIN version : version[n].validation # k
  <2>1. ASSUME NEW n \in DOMAIN version PROVE n # 0
    BY <1>4 DEF StrategiesTyped
  <2> QED BY <1>1, <2>1 DEF BoundOnce
<1>13. BoundOnce'
  <2>1. ASSUME NEW n \in DOMAIN version, version'[n] = version[n]
        PROVE  /\ version'[n].validation \in DOMAIN validation'
               /\ validation'[version'[n].validation].bound = n
               /\ validation'[version'[n].validation].status = "SUCCEEDED"
               /\ validation'[version'[n].validation].draft.content = version'[n].content
    BY <1>8, <1>12, <2>1 DEF BoundOnce
  <2>2. ASSUME NEW n, n = Len(version) + 1, version'[n] = new
        PROVE  /\ version'[n].validation \in DOMAIN validation'
               /\ validation'[version'[n].validation].bound = n
               /\ validation'[version'[n].validation].status = "SUCCEEDED"
               /\ validation'[version'[n].validation].draft.content = version'[n].content
    BY <1>6, <1>7, <1>8, <2>2
  <2>3. \A j \in DOMAIN validation' : validation'[j].bound \in 0 .. Len(version')
    BY <1>4, <1>6, <1>8 DEF BoundOnce
  <2> QED BY <1>11, <2>1, <2>2, <2>3 DEF BoundOnce
<1>14. CommitFirst'
  <2>1. "PUBLISHING" \notin Strategies!Public
    BY DEF Strategies!Public
  <2>2. DOMAIN version \subseteq DOMAIN version'
    BY <1>4
  <2> QED BY <1>1, <1>7, <1>11, <2>1, <2>2 DEF CommitFirst
<1>15. FailedTogether'
  BY <1>7, <1>11 DEF FailedTogether
<1> QED BY <1>9, <1>10, <1>13, <1>14, <1>15

\* A row as a step of the publication leaves it.
Becomes(n, status, run_) == [version[n] EXCEPT !.status = status, !.run = run_]

LEMMA BecomesWritten ==
  ASSUME StrategiesInv, NEW n \in DOMAIN version,
         NEW status \in {"PUBLISHING", "PUBLISH_FAILED"} \cup Strategies!Public,
         NEW ran \in {"PENDING", "RUNNING", "SUCCEEDED", "FAILED"},
         ran = "FAILED" <=> status = "PUBLISH_FAILED",
         version' = [version EXCEPT ![n].status = status, ![n].run = ran]
  PROVE  Written1(n, Becomes(n, status, ran)) /\ Becomes(n, status, ran).status = status
<1>1. version[n] \in Release
  BY ElementOfSeq DEF StrategiesInv, StrategiesTyped
<1>2. Becomes(n, status, ran) \in Release
  BY <1>1 DEF Release, Becomes
<1>3. /\ Becomes(n, status, ran).status = status /\ Becomes(n, status, ran).run = ran
      /\ Becomes(n, status, ran).validation = version[n].validation
      /\ Becomes(n, status, ran).content = version[n].content
  BY <1>1 DEF Release, Becomes
<1>4. version' = [version EXCEPT ![n] = Becomes(n, status, ran)]
  BY DEF Becomes
<1> QED BY <1>2, <1>3, <1>4 DEF Written1

LEMMA RetryVersionKeeps ==
  ASSUME StrategiesInv, NEW k \in DOMAIN validation, Strategies!RetryVersion(k)
  PROVE  StrategiesInv'
<1> DEFINE n == validation[k].bound
<1>0. n \in DOMAIN version
  BY DEF Strategies!RetryVersion, StrategiesInv, StrategiesTyped, BoundOnce
<1>1. /\ version' = [version EXCEPT ![n].status = "PUBLISHING", ![n].run = "PENDING"]
      /\ UNCHANGED <<draft, tested, validation, passed, git, publisher>>
  BY DEF Strategies!RetryVersion, Strategies!Submit
<1>2. Written1(n, Becomes(n, "PUBLISHING", "PENDING"))
      /\ Becomes(n, "PUBLISHING", "PENDING").status = "PUBLISHING"
  BY <1>0, <1>1, BecomesWritten
<1>3. "PUBLISHING" \notin Strategies!Public
  BY DEF Strategies!Public
<1>4. /\ publisher' \in [Publisher -> Publishing]
      /\ \A w \in Publisher :
           /\ publisher'[w].pc # "idle" => publisher'[w].version \in DOMAIN version
           /\ publisher'[w].pc = "complete" => publisher'[w] = publisher[w]
  BY <1>1 DEF StrategiesInv, StrategiesTyped, CommitFirst
<1> HIDE DEF n
<1> QED BY <1>1, <1>2, <1>3, <1>4, VersionWrittenKeeps

LEMMA ClaimKeeps ==
  ASSUME StrategiesInv, NEW w \in Publisher, NEW n \in DOMAIN version, Strategies!Claim(w, n)
  PROVE  StrategiesInv'
<1>1. UNCHANGED <<draft, tested, validation, passed, git>>
  BY DEF Strategies!Claim
<1>2. CASE /\ publisher' = [publisher EXCEPT ![w] = [pc |-> "git", version |-> n]]
           /\ version' = [version EXCEPT ![n].status = "PUBLISHING", ![n].run = "RUNNING"]
  <2>1. Written1(n, Becomes(n, "PUBLISHING", "RUNNING"))
        /\ Becomes(n, "PUBLISHING", "RUNNING").status = "PUBLISHING"
    BY <1>2, BecomesWritten
  <2>2. "PUBLISHING" \notin Strategies!Public
    BY DEF Strategies!Public
  <2>3. /\ publisher' \in [Publisher -> Publishing]
        /\ \A v \in Publisher :
             /\ publisher'[v].pc # "idle" => publisher'[v].version \in DOMAIN version
             /\ publisher'[v].pc = "complete" => publisher'[v] = publisher[v]
    BY <1>2 DEF StrategiesInv, StrategiesTyped, CommitFirst, Publishing
  <2> QED BY <1>1, <2>1, <2>2, <2>3, VersionWrittenKeeps
<1>3. CASE UNCHANGED <<publisher, version>>
  <2>1. publisher' \in [Publisher -> Publishing]
    BY <1>3 DEF StrategiesInv, StrategiesTyped
  <2> QED BY <1>1, <1>3, <2>1, PublisherKeeps
<1> QED BY <1>2, <1>3 DEF Strategies!Claim

LEMMA GitPublishKeeps ==
  ASSUME StrategiesInv, NEW w \in Publisher, Strategies!GitPublish(w) PROVE StrategiesInv'
<1> USE DEF StrategiesInv
<1> DEFINE n == publisher[w].version
<1>1. /\ publisher[w].pc = "git" /\ UNCHANGED <<draft, tested, validation, passed, version>>
  BY DEF Strategies!GitPublish, Strategies!rows
<1>2. n \in DOMAIN version /\ n \in 1 .. MaxValidations
  <2>1. n \in DOMAIN version
    BY <1>1 DEF CommitFirst
  <2>2. Len(version) <= Len(validation) /\ Len(validation) <= MaxValidations
    BY VersionsFew DEF StrategiesTyped
  <2>3. Len(version) \in Nat /\ Len(validation) \in Nat /\ DOMAIN version = 1 .. Len(version)
    BY DEF StrategiesTyped
  <2> HIDE DEF n
  <2> QED BY <2>1, <2>2, <2>3, AdministrationAssumption
<1>3. ASSUME NEW row \in Committed, NEW pc \in {"complete", "GIT_FAILED"},
             git' = [git EXCEPT ![n] = row], publisher' = [publisher EXCEPT ![w].pc = pc],
             row.commits <= 1, row.commits >= git[n].commits, pc = "complete" => row.commits > 0
      PROVE  StrategiesInv'
  <2>1. StrategiesTyped'
    <3>1. git' \in [1 .. MaxValidations -> Committed]
      BY <1>3 DEF StrategiesTyped
    <3>2. publisher' \in [Publisher -> Publishing]
      BY <1>3 DEF StrategiesTyped, Publishing
    <3> QED BY <1>1, <3>1, <3>2 DEF StrategiesTyped
  <2>2. \A m \in 1 .. MaxValidations : git'[m] = IF m = n THEN row ELSE git[m]
    BY <1>3 DEF StrategiesTyped
  <2>3. \A v \in Publisher : /\ publisher'[v].version = publisher[v].version
                             /\ v # w => publisher'[v] = publisher[v]
    BY <1>3 DEF StrategiesTyped
  <2>4. publisher'[w].pc = pc
    BY <1>3 DEF StrategiesTyped, Publishing
  <2>5. \A m \in DOMAIN version : m \in 1 .. MaxValidations
    <3>1. Len(version) <= Len(validation) /\ Len(validation) <= MaxValidations
      BY VersionsFew DEF StrategiesTyped
    <3>2. Len(version) \in Nat /\ Len(validation) \in Nat /\ DOMAIN version = 1 .. Len(version)
      BY DEF StrategiesTyped
    <3> QED BY <3>1, <3>2, AdministrationAssumption
  <2>6. \A m \in 1 .. MaxValidations : git[m].commits > 0 => git'[m].commits > 0
    BY <1>3, <2>2 DEF StrategiesTyped, Committed
  <2>7. CommitFirst'
    <3>1. \A v \in Publisher : publisher'[v].pc # "idle" => publisher'[v].version \in DOMAIN version
      BY <1>1, <1>2, <2>3 DEF CommitFirst
    <3>2. \A v \in Publisher : publisher'[v].pc = "complete" => git'[publisher'[v].version].commits > 0
      <4>1. ASSUME NEW v \in Publisher, v # w, publisher[v].pc = "complete"
            PROVE  git'[publisher[v].version].commits > 0
        BY <2>5, <2>6, <4>1 DEF CommitFirst
      <4>2. pc = "complete" => git'[n].commits > 0
        BY <1>2, <1>3, <2>2
      <4> QED BY <2>3, <2>4, <4>1, <4>2
    <3>3. \A m \in DOMAIN version : version[m].status \in Strategies!Public => git'[m].commits > 0
      BY <2>5, <2>6 DEF CommitFirst
    <3>4. \A m \in 1 .. MaxValidations : git'[m].commits <= 1
      BY <1>3, <2>2 DEF CommitFirst
    <3> QED BY <1>1, <3>1, <3>2, <3>3, <3>4 DEF CommitFirst
  <2> QED BY <1>1, <2>1, <2>7 DEF PassedOnDraft, BoundOnce, FailedTogether
<1>4. git[n] \in Committed /\ git[n].commits <= 1
  BY <1>2 DEF StrategiesTyped, CommitFirst
<1>5. CASE /\ git' = [git EXCEPT ![n] = [files |-> TRUE,
                        commits |-> IF Strategies!MatchingCommit(n) THEN @.commits ELSE @.commits + 1]]
           /\ \E pc \in {"complete", "GIT_FAILED"} : Strategies!Go(w, pc)
  <2> DEFINE row == [files |-> TRUE,
                     commits |-> IF Strategies!MatchingCommit(n) THEN git[n].commits
                                 ELSE git[n].commits + 1]
  <2>1. row \in Committed /\ row.commits <= 1 /\ row.commits >= git[n].commits /\ row.commits > 0
    BY <1>4 DEF Committed, Strategies!MatchingCommit
  <2>2. git' = [git EXCEPT ![n] = row]
    BY <1>2, <1>5 DEF StrategiesTyped
  <2>3. PICK pc \in {"complete", "GIT_FAILED"} : publisher' = [publisher EXCEPT ![w].pc = pc]
    BY <1>5 DEF Strategies!Go
  <2> HIDE DEF row, n
  <2> QED BY <1>3, <2>1, <2>2, <2>3
<1>6. CASE /\ \E written \in BOOLEAN : git' = [git EXCEPT ![n].files = @ \/ written]
           /\ Strategies!Go(w, "GIT_FAILED")
  <2>1. PICK written \in BOOLEAN : git' = [git EXCEPT ![n].files = @ \/ written]
    BY <1>6
  <2> DEFINE row == [git[n] EXCEPT !.files = @ \/ written]
  <2>2. row \in Committed /\ row.commits = git[n].commits
    BY <1>4 DEF Committed
  <2>3. git' = [git EXCEPT ![n] = row]
    BY <2>1
  <2>4. publisher' = [publisher EXCEPT ![w].pc = "GIT_FAILED"]
    BY <1>6 DEF Strategies!Go
  <2>5. row.commits <= 1 /\ row.commits >= git[n].commits
    BY <1>4, <2>2 DEF Committed
  <2> HIDE DEF row, n
  <2> QED BY <1>3, <2>2, <2>3, <2>4, <2>5
<1> QED BY <1>5, <1>6 DEF Strategies!GitPublish

LEMMA CompleteKeeps ==
  ASSUME StrategiesInv, NEW w \in Publisher, Strategies!Complete(w) PROVE StrategiesInv'
<1> DEFINE n == publisher[w].version
<1>1. /\ publisher[w].pc = "complete" /\ UNCHANGED <<draft, tested, validation, passed, git>>
  BY DEF Strategies!Complete
<1>2. n \in DOMAIN version /\ git[n].commits > 0
  BY <1>1 DEF StrategiesInv, CommitFirst
<1>3. \/ publisher' = [publisher EXCEPT ![w] = Strategies!IdlePublisher]
      \/ publisher' = [publisher EXCEPT ![w].pc = "DATABASE_FAILED"] /\ version' = version
  BY DEF Strategies!Complete, Strategies!Quit, Strategies!Go
<1>4. \/ version' = [version EXCEPT ![n].status = "PUBLISHED", ![n].run = "SUCCEEDED"]
      \/ version' = version
  BY DEF Strategies!Complete
<1>5. publisher' \in [Publisher -> Publishing]
  BY <1>3, SMTT(30) DEF StrategiesInv, StrategiesTyped, Publishing, Strategies!IdlePublisher
<1>6. CASE version' = version
  <2>1. \A v \in Publisher :
           \/ publisher'[v] = publisher[v] \/ publisher'[v].pc = "idle"
           \/ /\ publisher'[v].pc # "complete" /\ publisher[v].pc # "idle"
              /\ publisher'[v].version = publisher[v].version
    BY <1>1, <1>3 DEF StrategiesInv, StrategiesTyped, Publishing, Strategies!IdlePublisher
  <2> QED BY <1>1, <1>5, <1>6, <2>1, PublisherKeeps
<1>7. CASE /\ version' = [version EXCEPT ![n].status = "PUBLISHED", ![n].run = "SUCCEEDED"]
           /\ publisher' = [publisher EXCEPT ![w] = Strategies!IdlePublisher]
  <2>1. "PUBLISHED" \in Strategies!Public
    BY DEF Strategies!Public
  <2>2. Written1(n, Becomes(n, "PUBLISHED", "SUCCEEDED"))
    BY <1>2, <1>7, <2>1, BecomesWritten
  <2>3. \A v \in Publisher :
           /\ publisher'[v].pc # "idle" => publisher'[v].version \in DOMAIN version
           /\ publisher'[v].pc = "complete" => publisher'[v] = publisher[v]
    BY <1>7 DEF StrategiesInv, StrategiesTyped, CommitFirst, Strategies!IdlePublisher
  <2> HIDE DEF n
  <2> QED BY <1>1, <1>2, <1>5, <2>2, <2>3, VersionWrittenKeeps
<1> QED BY <1>3, <1>4, <1>6, <1>7

LEMMA FailKeeps ==
  ASSUME StrategiesInv, NEW w \in Publisher, Strategies!Fail(w) PROVE StrategiesInv'
<1> DEFINE n == publisher[w].version
<1>1. /\ publisher[w].pc # "idle" /\ UNCHANGED <<draft, tested, validation, passed, git>>
      /\ publisher' = [publisher EXCEPT ![w] = Strategies!IdlePublisher]
  BY DEF Strategies!Fail, Strategies!Quit
<1>2. n \in DOMAIN version
  BY <1>1 DEF StrategiesInv, CommitFirst
<1>3. \/ version' = [version EXCEPT ![n].status = "PUBLISH_FAILED", ![n].run = "FAILED"]
      \/ version' = version
  BY DEF Strategies!Fail
<1>4. publisher' \in [Publisher -> Publishing]
  BY <1>1 DEF StrategiesInv, StrategiesTyped, Publishing, Strategies!IdlePublisher
<1>5. CASE version' = version
  <2>1. \A v \in Publisher : publisher'[v] = publisher[v] \/ publisher'[v].pc = "idle"
    BY <1>1 DEF StrategiesInv, StrategiesTyped, Strategies!IdlePublisher
  <2> QED BY <1>1, <1>4, <1>5, <2>1, PublisherKeeps
<1>6. CASE version' = [version EXCEPT ![n].status = "PUBLISH_FAILED", ![n].run = "FAILED"]
  <2>1. "PUBLISH_FAILED" \notin Strategies!Public
    BY DEF Strategies!Public
  <2>2. /\ Written1(n, Becomes(n, "PUBLISH_FAILED", "FAILED"))
        /\ Becomes(n, "PUBLISH_FAILED", "FAILED").status = "PUBLISH_FAILED"
    BY <1>2, <1>6, BecomesWritten
  <2>3. \A v \in Publisher :
           /\ publisher'[v].pc # "idle" => publisher'[v].version \in DOMAIN version
           /\ publisher'[v].pc = "complete" => publisher'[v] = publisher[v]
    BY <1>1 DEF StrategiesInv, StrategiesTyped, CommitFirst, Strategies!IdlePublisher
  <2> HIDE DEF n
  <2> QED BY <1>1, <1>4, <2>1, <2>2, <2>3, VersionWrittenKeeps
<1> QED BY <1>3, <1>5, <1>6

LEMMA MoveKeeps ==
  ASSUME StrategiesInv, Strategies!Archive \/ Strategies!Restore PROVE StrategiesInv'
<1>1. PICK from \in Strategies!Public, to \in Strategies!Public : Strategies!Move(from, to)
  BY DEF Strategies!Archive, Strategies!Restore, Strategies!Public
<1>2. PICK n \in DOMAIN version :
        version[n].status = from /\ version' = [version EXCEPT ![n].status = to]
  BY <1>1 DEF Strategies!Move
<1>3. UNCHANGED <<draft, tested, validation, passed, git, publisher>>
  BY <1>1 DEF Strategies!Move, Strategies!jobs
<1> DEFINE row == [version[n] EXCEPT !.status = to]
<1>4. version[n] \in Release
  BY ElementOfSeq DEF StrategiesInv, StrategiesTyped
<1>5. row \in Release /\ row.run = version[n].run /\ row.status = to
      /\ row.validation = version[n].validation /\ row.content = version[n].content
  BY <1>4 DEF Release
<1>6. version[n].run # "FAILED" /\ to # "PUBLISH_FAILED"
  BY <1>1, <1>2 DEF StrategiesInv, FailedTogether, Strategies!Public
<1>7. version' = [version EXCEPT ![n] = row]
  BY <1>2
<1> HIDE DEF row
<1>8. Written1(n, row)
  BY <1>5, <1>6, <1>7 DEF Written1
<1>9. git[n].commits > 0
  BY <1>1, <1>2 DEF StrategiesInv, CommitFirst
<1>10. /\ publisher' \in [Publisher -> Publishing]
       /\ \A w \in Publisher :
            /\ publisher'[w].pc # "idle" => publisher'[w].version \in DOMAIN version
            /\ publisher'[w].pc = "complete" => publisher'[w] = publisher[w]
  BY <1>3 DEF StrategiesInv, StrategiesTyped, CommitFirst
<1> QED BY <1>3, <1>8, <1>9, <1>10, VersionWrittenKeeps

LEMMA StrategiesInvNext ==
  ASSUME StrategiesInv, [Strategies!StrategyNext]_(Strategies!strategyVars) PROVE StrategiesInv'
<1>1. ASSUME NEW w \in Publisher, Strategies!Outage(w) \/ Strategies!Crash(w) PROVE StrategiesInv'
  <2>1. /\ publisher' = [publisher EXCEPT ![w] = Strategies!IdlePublisher]
        /\ UNCHANGED <<draft, tested, validation, passed, version, git>>
    BY <1>1 DEF Strategies!Outage, Strategies!Crash, Strategies!Quit, Strategies!rows
  <2>2. /\ publisher' \in [Publisher -> Publishing]
        /\ \A v \in Publisher : publisher'[v] = publisher[v] \/ publisher'[v].pc = "idle"
    BY <2>1 DEF StrategiesInv, StrategiesTyped, Publishing, Strategies!IdlePublisher
  <2> QED BY <2>1, <2>2, PublisherKeeps
<1>2. ASSUME NEW n \in DOMAIN version, Strategies!Redeliver(n) PROVE StrategiesInv'
  <2>1. UNCHANGED <<draft, tested, validation, passed, version, git, publisher>>
    BY <1>2 DEF Strategies!Redeliver, Strategies!rows
  <2> QED BY <2>1, PublisherKeeps DEF StrategiesInv, StrategiesTyped
<1>3. CASE UNCHANGED Strategies!strategyVars
  <2>1. UNCHANGED <<draft, tested, validation, passed, version, git, publisher>>
    BY <1>3 DEF Strategies!strategyVars, Strategies!rows, Strategies!jobs
  <2> QED BY <2>1, PublisherKeeps DEF StrategiesInv, StrategiesTyped
<1> QED BY <1>1, <1>2, <1>3, DraftKeeps, RequestValidationKeeps, RecordValidationKeeps, NewVersionKeeps,
           RetryVersionKeeps, ClaimKeeps, GitPublishKeeps, CompleteKeeps, FailKeeps, MoveKeeps
        DEF Strategies!StrategyNext

\* A version users can bind holds what a validation and a backtest ran on, and it
\* was committed once: the validation is bound under the lock of the strategy, and
\* only an execution whose commit is there completes the publication.
THEOREM Publication == Strategies!StrategySpec => []PublicationSound
<1>1. Strategies!StrategyInit => StrategiesInv
  <2> SUFFICES ASSUME Strategies!StrategyInit PROVE StrategiesInv
    OBVIOUS
  <2>1. StrategiesTyped
    BY EmptySeq, AdministrationAssumption
       DEF Strategies!StrategyInit, StrategiesTyped, Drafted, Publishing, Committed,
           Strategies!IdlePublisher, Strategies!Version
  <2>2. DOMAIN validation = {} /\ DOMAIN version = {}
    BY DEF Strategies!StrategyInit
  <2>3. CommitFirst
    BY <2>2 DEF Strategies!StrategyInit, CommitFirst, Strategies!IdlePublisher, Strategies!Version
  <2> QED BY <2>1, <2>2, <2>3
          DEF Strategies!StrategyInit, StrategiesInv, PassedOnDraft, BoundOnce, FailedTogether
<1>2. StrategiesInv => PublicationSound
  <2> SUFFICES ASSUME StrategiesInv PROVE PublicationSound
    OBVIOUS
  <2>1. ASSUME NEW n \in DOMAIN version, version[n].status \in Strategies!Public
        PROVE  LET run_ == validation[version[n].validation] IN
               /\ run_.status = "SUCCEEDED" /\ run_.bound = n
               /\ run_.draft.content = version[n].content
               /\ \E b \in tested : b = run_.backtest /\ b.content = version[n].content
               /\ git[n].commits > 0
    BY <2>1 DEF StrategiesInv, BoundOnce, PassedOnDraft, CommitFirst
  <2>2. ASSUME NEW n \in DOMAIN version
        PROVE  git[n].commits <= 1
    <3>1. Len(version) <= Len(validation) /\ Len(validation) <= MaxValidations
      BY VersionsFew DEF StrategiesInv, StrategiesTyped
    <3>2. Len(version) \in Nat /\ Len(validation) \in Nat /\ DOMAIN version = 1 .. Len(version)
      BY DEF StrategiesInv, StrategiesTyped
    <3>3. n \in 1 .. MaxValidations
      BY <3>1, <3>2, AdministrationAssumption
    <3> QED BY <3>3 DEF StrategiesInv, CommitFirst
  <2> QED BY <2>1, <2>2 DEF StrategiesInv, FailedTogether, PublicationSound,
             Strategies!PublicationSound, Strategies!PublishedIsTested, Strategies!CommittedOnce
<1> QED BY <1>1, <1>2, StrategiesInvNext, PTL DEF Strategies!StrategySpec

-----------------------------------------------------------------------------
(* Screenings.                                                              *)

ResultRow == [status : {"PENDING", "RUNNING"} \cup Screenings!Final, attempts : Nat]
ScreeningsInv == result \in [Result -> ResultRow] /\ retries \in Nat

\* How a step may change the status of one result.
Kept(r) ==
  \/ result'[r].status = result[r].status
  \/ result[r].status \in {"PENDING", "RUNNING"}
  \/ result[r].status = "FAILED" /\ retries' = retries + 1 /\ result'[r].status = "PENDING"

\* Nobody writes a result that has ended, whoever else works on the batch; the
\* retry takes back every failure, and nothing but failures.
LEMMA ScreeningStep ==
  ASSUME ScreeningsInv, Screenings!ScreeningNext
  PROVE  /\ ScreeningsInv' /\ \A r \in Result : Kept(r)
         /\ retries' # retries => \A r \in Result :
              result'[r].status = IF result[r].status = "FAILED" THEN "PENDING"
                                  ELSE result[r].status
<1> USE DEF ScreeningsInv
<1> DEFINE Goal == /\ ScreeningsInv' /\ \A r \in Result : Kept(r)
                   /\ retries' # retries => \A r \in Result :
                        result'[r].status = IF result[r].status = "FAILED" THEN "PENDING"
                                            ELSE result[r].status
<1>1. ASSUME UNCHANGED <<result, retries>> PROVE Goal
  BY <1>1 DEF Kept
<1>2. ASSUME NEW f, UNCHANGED retries,
             \A r \in Result : f[r] = result[r]
               \/ (result[r].status \in {"PENDING", "RUNNING"} /\ f[r] \in ResultRow),
             result' = [r \in Result |-> f[r]]
      PROVE  Goal
  BY <1>2 DEF Kept
<1>3. \A r \in Result : /\ [result[r] EXCEPT !.status = "CANCELED"] \in ResultRow
                        /\ [result[r] EXCEPT !.status = "PENDING"] \in ResultRow
  BY DEF ResultRow, Screenings!Final
<1>4. ASSUME Screenings!CancelPending, UNCHANGED retries PROVE Goal
  <2>1. result' = [r \in Result |-> IF result[r].status \in {"PENDING", "RUNNING"}
                     THEN [result[r] EXCEPT !.status = "CANCELED"] ELSE result[r]]
    BY <1>4 DEF Screenings!CancelPending
  <2> QED BY <1>3, <1>4, <2>1 DEF Kept
<1>5. ASSUME NEW a \in Screenings!Run, Screenings!PrepareRun(a) PROVE Goal
  <2>1. UNCHANGED retries
    BY <1>5 DEF Screenings!PrepareRun
  <2>2. \/ UNCHANGED result
        \/ result' = [r \in Result |-> IF result[r].status = "RUNNING"
                        THEN [result[r] EXCEPT !.status = "PENDING"] ELSE result[r]]
    BY <1>5 DEF Screenings!PrepareRun
  <2>3. CASE result' = [r \in Result |-> IF result[r].status = "RUNNING"
                          THEN [result[r] EXCEPT !.status = "PENDING"] ELSE result[r]]
    BY <1>3, <2>1, <2>3 DEF Kept
  <2> QED BY <1>1, <2>1, <2>2, <2>3
<1>6. ASSUME NEW a \in Screenings!Run, NEW r \in Result, Screenings!ClaimResult(a, r) PROVE Goal
  <2>1. CASE UNCHANGED result
    BY <1>1, <1>6, <2>1 DEF Screenings!ClaimResult
  <2>2. CASE Screenings!FreeToClaim(r)
    <3> DEFINE row == [status |-> "RUNNING", attempts |-> result[r].attempts + 1]
    <3>1. result[r].attempts + 1 \in Nat
      BY DEF ResultRow
    <3>2. row \in ResultRow
      BY <3>1 DEF ResultRow
    <3>3. result' = [result EXCEPT ![r] = row] /\ UNCHANGED retries
      BY <1>6, <2>2 DEF Screenings!ClaimResult
    <3> HIDE DEF row
    <3> QED BY <2>2, <3>2, <3>3 DEF Screenings!FreeToClaim, Kept
  <2> QED BY <1>6, <2>1, <2>2 DEF Screenings!ClaimResult
<1>7. ASSUME NEW a \in Screenings!Run, NEW r \in Result,
             NEW outcome \in Screenings!Final \ {"CANCELED"}, Screenings!RunOne(a, r, outcome)
      PROVE  Goal
  <2>1. CASE UNCHANGED result
    BY <1>1, <1>7, <2>1 DEF Screenings!RunOne
  <2>2. CASE Screenings!MayWrite(r)
    <3> DEFINE row == [result[r] EXCEPT !.status = outcome]
    <3>1. row \in ResultRow
      BY DEF ResultRow
    <3>2. result' = [result EXCEPT ![r] = row] /\ UNCHANGED retries
      BY <1>7, <2>2 DEF Screenings!RunOne
    <3> HIDE DEF row
    <3> QED BY <2>2, <3>1, <3>2 DEF Screenings!MayWrite, Kept
  <2> QED BY <1>7, <2>1, <2>2 DEF Screenings!RunOne
<1>8. ASSUME NEW a \in Screenings!Run,
             \/ Screenings!Claim(a) \/ Screenings!PublishedVersion(a) \/ Screenings!RunState(a)
             \/ Screenings!NextWork(a) \/ Screenings!ReportProgress(a)
             \/ Screenings!FinishBatch(a) \/ Screenings!Settle(a)
             \/ \E r \in Result : Screenings!RunOneRaises(a, r)
             \/ \E dies \in BOOLEAN : Screenings!LoseLease(a, dies)
      PROVE  Goal
  BY <1>1, <1>8 DEF Screenings!Claim, Screenings!PublishedVersion, Screenings!RunState,
     Screenings!NextWork, Screenings!ReportProgress, Screenings!FinishBatch, Screenings!Settle,
     Screenings!LoseLease, Screenings!RunOneRaises
<1>9. ASSUME NEW a \in Screenings!Run, Screenings!ControlledStop(a) PROVE Goal
  BY <1>1, <1>4, <1>9 DEF Screenings!ControlledStop
<1>10. ASSUME Screenings!Pause \/ Screenings!Resume \/ Screenings!ArchiveVersion PROVE Goal
  BY <1>1, <1>10 DEF Screenings!Pause, Screenings!Resume, Screenings!ArchiveVersion
<1>11. ASSUME Screenings!Cancel PROVE Goal
  BY <1>1, <1>4, <1>11 DEF Screenings!Cancel
<1>12. ASSUME Screenings!RetryFailed PROVE Goal
  <2>1. retries' = retries + 1 /\ retries' \in Nat
    BY <1>12 DEF Screenings!RetryFailed
  <2>2. result' \in [Result -> ResultRow]
    BY <1>3, <1>12 DEF Screenings!RetryFailed
  <2>3. \A r \in Result : result'[r].status = IF result[r].status = "FAILED" THEN "PENDING"
                                              ELSE result[r].status
    BY <1>12 DEF Screenings!RetryFailed, ResultRow
  <2> QED BY <2>1, <2>2, <2>3 DEF Kept
<1> HIDE DEF Goal
<1>13. ASSUME NEW a \in Screenings!Run, Screenings!Step(a) PROVE Goal
  BY <1>5, <1>6, <1>7, <1>8, <1>9, <1>13 DEF Screenings!Step
<1>14. Goal
  BY <1>8, <1>10, <1>11, <1>12, <1>13 DEF Screenings!ScreeningNext
<1> QED BY <1>14 DEF Goal

\* What a screening has found for a stock is never written again, though runs
\* overlap and none of them is fenced; a failure is only taken back by a retry.
THEOREM ScreeningResults == Screenings!ScreeningSpec => ResultsKept
<1>1. Screenings!ScreeningInit => ScreeningsInv
  BY DEF Screenings!ScreeningInit, ScreeningsInv, ResultRow
<1>2. ScreeningsInv /\ [Screenings!ScreeningNext]_(Screenings!screeningVars) => ScreeningsInv'
  <2>1. ScreeningsInv /\ UNCHANGED Screenings!screeningVars => ScreeningsInv'
    BY DEF ScreeningsInv, Screenings!screeningVars
  <2> QED BY <2>1, ScreeningStep
<1>3. ScreeningsInv /\ [Screenings!ScreeningNext]_(Screenings!screeningVars) =>
        [\A r \in Result : result[r].status \in Screenings!Final =>
           result'[r].status = IF result[r].status = "FAILED" /\ retries' # retries
                               THEN "PENDING" ELSE result[r].status]_(Screenings!screeningVars)
  <2> SUFFICES ASSUME ScreeningsInv, Screenings!ScreeningNext, NEW r \in Result,
                      result[r].status \in Screenings!Final
               PROVE  result'[r].status = IF result[r].status = "FAILED" /\ retries' # retries
                                          THEN "PENDING" ELSE result[r].status
    OBVIOUS
  <2>1. Kept(r) /\ result[r].status \notin {"PENDING", "RUNNING"}
    BY ScreeningStep DEF Screenings!Final
  <2>2. retries + 1 # retries
    BY DEF ScreeningsInv
  <2>3. retries' # retries => result'[r].status = IF result[r].status = "FAILED" THEN "PENDING"
                                                  ELSE result[r].status
    BY ScreeningStep
  <2> QED BY <2>1, <2>2, <2>3 DEF Kept
<1> QED BY <1>1, <1>2, <1>3, PTL DEF Screenings!ScreeningSpec, ResultsKept, Screenings!ResultsKept

-----------------------------------------------------------------------------
(* Watchlists.                                                              *)

Stock == {First, Second}
WatchRow == [version : Nat, archived : BOOLEAN, items : SUBSET Stock]
Transaction ==
  [at : {"sent", "keyed", "secured", "applied"}, op : Lists!Ops, list : Session, key : Attempt,
   todo : Seq(Stock), index : Nat, expected : Int, allowed : BOOLEAN, effect : WatchRow,
   advice : BOOLEAN, answer : Nat]
Itemed(q) == q.op \in {"add_item", "remove_item"}
ListsTyped ==
  /\ list \in [Session -> WatchRow]
  /\ \A l \in Session : list[l].version = 0 => list[l] = Lists!NoList
  /\ change \in [Worker -> Transaction \cup {Lists!Idle}]
  /\ \A u \in Worker : change[u].at # "idle" => (Itemed(change[u]) <=> change[u].todo # <<>>)
  /\ \A a \in audit : a.version \in Nat

\* The locks of a key, of a security and of a list have one holder each.
KeyedPlaces == {"keyed", "secured", "applied"}
LocksHeld ==
  /\ \A u, v \in Worker : change[u].at \in KeyedPlaces /\ change[v].at \in KeyedPlaces
       /\ Lists!AuditKey(change[u]) = Lists!AuditKey(change[v]) => u = v
  /\ \A u, v \in Worker : change[u].at \in {"secured", "applied"}
       /\ change[v].at \in {"secured", "applied"} /\ Itemed(change[u]) /\ Itemed(change[v])
       /\ Head(change[u].todo) = Head(change[v].todo) => u = v
  /\ \A u, v \in Worker : change[u].at = "applied" /\ change[v].at = "applied"
       /\ change[u].list = change[v].list => u = v
\* Who holds a key has found no answer under it.
NotAudited ==
  \A u \in Worker : change[u].at \in KeyedPlaces => Lists!Audited(change[u]) = {}

\* What a transaction is about to write over a row.
Follows(q, row) ==
  \/ q.effect = row
  \/ /\ q.effect.version = row.version + 1 /\ (row.archived => q.effect.archived)
     /\ \A s \in Stock : ~(Itemed(q) /\ s = Head(q.todo)) =>
          (s \in q.effect.items <=> s \in row.items)
     /\ q.op = "remove_item" => Head(q.todo) \notin q.effect.items
EffectsFollow ==
  \A u \in Worker : change[u].at = "applied" => Follows(change[u], list[change[u].list])
\* The advice somebody is about to give still holds.
AdviceStands ==
  \A u \in Worker :
    change[u].at = "applied" /\ change[u].op = "remove_item"
    /\ change[u].effect # list[change[u].list] =>
      /\ change[u].advice => \A l \in Session \ {change[u].list} :
           Head(change[u].todo) \in list[l].items => list[l].archived
      /\ ~change[u].advice => \E l \in Session \ {change[u].list} :
           Head(change[u].todo) \in list[l].items
\* Every version of a list has one audit.
Changes(l) == {a \in audit : a.list = l /\ a.changed}
VersionsAudited ==
  /\ \A l \in Session : IsFiniteSet(Changes(l)) /\ Cardinality(Changes(l)) = list[l].version
  /\ Lists!KeysOnce

ListsInv ==
  /\ ListsTyped /\ LocksHeld /\ NotAudited /\ EffectsFollow /\ AdviceStands /\ VersionsAudited

LEMMA RestOfMany ==
  ASSUME NEW S, NEW s \in Seq(S), Len(s) > 1
  PROVE  Tail(s) \in Seq(S) /\ Tail(s) # <<>>
<1> DEFINE n == Len(s)  m == Len(Tail(s))
<1>1. n \in Nat /\ n > 1
  BY LenProperties
<1>2. s # <<>>
  BY <1>1, EmptySeq
<1>3. Tail(s) \in Seq(S) /\ m = n - 1
  BY <1>2, HeadTailProperties
<1> HIDE DEF n, m
<1>4. m # 0
  BY <1>1, <1>3
<1> QED BY <1>3, <1>4, EmptySeq DEF m

LEMMA RestTyped ==
  ASSUME NEW q \in Transaction, NEW seen \in Int, Itemed(q) <=> q.todo # <<>>
  PROVE  LET row == Lists!Rest(q, seen) IN
         /\ row \in Transaction \cup {Lists!Idle}
         /\ row.at \notin KeyedPlaces
         /\ row.at # "idle" => (Itemed(row) <=> row.todo # <<>>)
<1> DEFINE next == [q EXCEPT !.at = "sent", !.todo = Tail(q.todo), !.index = q.index + 1,
                             !.expected = seen, !.effect = Lists!NoList]
<1>1. CASE q.op = "add_item" /\ Len(q.todo) > 1
  <2>1. q.todo \in Seq(Stock) /\ q.index + 1 \in Nat
    BY DEF Transaction
  <2>2. Tail(q.todo) \in Seq(Stock) /\ Tail(q.todo) # <<>>
    <3>1. q.todo \in Seq(Stock) /\ Len(q.todo) > 1
      BY <1>1, <2>1
    <3> HIDE DEF next
    <3> QED BY <3>1, RestOfMany
  <2>3. Lists!NoList \in WatchRow
    BY DEF Lists!NoList, WatchRow
  <2>4. next \in Transaction
    BY <2>1, <2>2, <2>3 DEF Transaction
  <2>5. next.at = "sent" /\ next.op = "add_item" /\ next.todo = Tail(q.todo)
    BY <1>1 DEF Transaction
  <2>6. Lists!Rest(q, seen) = next
    BY <1>1 DEF Lists!Rest
  <2> HIDE DEF next
  <2> QED BY <2>2, <2>4, <2>5, <2>6 DEF Itemed, KeyedPlaces
<1>2. CASE ~(q.op = "add_item" /\ Len(q.todo) > 1)
  <2>1. Lists!Rest(q, seen) = Lists!Idle
    BY <1>2 DEF Lists!Rest
  <2> QED BY <2>1 DEF Lists!Idle, KeyedPlaces
<1> QED BY <1>1, <1>2

\* A transaction that begins, goes on or ends leaves the locks it held.
LEMMA ListMoved ==
  ASSUME ListsInv, NEW u \in Worker, NEW row \in Transaction \cup {Lists!Idle},
         row.at \notin KeyedPlaces, row.at # "idle" => (Itemed(row) <=> row.todo # <<>>),
         change' = [change EXCEPT ![u] = row], UNCHANGED <<list, audit>>
  PROVE  ListsInv'
<1>1. /\ change' \in [Worker -> Transaction \cup {Lists!Idle}]
      /\ change'[u] = row
      /\ \A v \in Worker \ {u} : change'[v] = change[v]
  BY DEF ListsInv, ListsTyped
<1>2. \A v \in Worker : change'[v].at \in KeyedPlaces => v # u
  BY <1>1
<1>3. "secured" \in KeyedPlaces /\ "applied" \in KeyedPlaces
  BY DEF KeyedPlaces
<1>4. ListsTyped'
  BY <1>1 DEF ListsInv, ListsTyped, Itemed
<1>5. LocksHeld'
  BY <1>1, <1>2, <1>3 DEF ListsInv, LocksHeld, Itemed
<1>6. NotAudited'
  BY <1>1, <1>2 DEF ListsInv, NotAudited, Lists!Audited, Lists!AuditKey
<1>7. EffectsFollow' /\ AdviceStands'
  BY <1>1, <1>2, <1>3 DEF ListsInv, EffectsFollow, Follows, Itemed, AdviceStands
<1>8. VersionsAudited'
  BY DEF ListsInv, VersionsAudited, Changes, Lists!KeysOnce
<1> QED BY <1>4, <1>5, <1>6, <1>7, <1>8 DEF ListsInv

\* What the transaction of a user is, unless it is idle.
LEMMA UnderWay ==
  ASSUME ListsInv, NEW u \in Worker, change[u].at # "idle"
  PROVE  change[u] \in Transaction /\ (Itemed(change[u]) <=> change[u].todo # <<>>)
BY DEF ListsInv, ListsTyped, Lists!Idle

\* A step that takes the next lock: what the transaction asks for stays, and
\* nobody else holds what it now holds.
LEMMA ListLocked ==
  ASSUME ListsInv, NEW u \in Worker, NEW row \in Transaction,
         change[u].at # "idle", change' = [change EXCEPT ![u] = row], UNCHANGED <<list, audit>>,
         row.op = change[u].op, row.list = change[u].list, row.key = change[u].key,
         row.todo = change[u].todo, row.index = change[u].index,
         row.at \in {"keyed", "secured"},
         \A v \in Worker \ {u} :
           ~(change[v].at \in KeyedPlaces /\ Lists!AuditKey(change[v]) = Lists!AuditKey(row)),
         row.at = "secured" /\ Itemed(row) =>
           \A v \in Worker \ {u} : change[v].at \in {"secured", "applied"} /\ Itemed(change[v])
             => Head(change[v].todo) # Head(row.todo),
         Lists!Audited(change[u]) = {}
  PROVE  ListsInv'
<1>1. /\ change' \in [Worker -> Transaction \cup {Lists!Idle}]
      /\ change'[u] = row
      /\ \A v \in Worker \ {u} : change'[v] = change[v]
  BY DEF ListsInv, ListsTyped
<1>2. Itemed(row) <=> row.todo # <<>>
  BY UnderWay DEF Itemed
<1>3. ListsTyped'
  BY <1>1, <1>2 DEF ListsInv, ListsTyped, Itemed
<1>4. LocksHeld'
  <2>1. \A v, w \in Worker : change'[v].at \in KeyedPlaces /\ change'[w].at \in KeyedPlaces
          /\ Lists!AuditKey(change'[v]) = Lists!AuditKey(change'[w]) => v = w
    BY <1>1 DEF ListsInv, LocksHeld
  <2>2. \A v, w \in Worker : change'[v].at \in {"secured", "applied"}
          /\ change'[w].at \in {"secured", "applied"} /\ Itemed(change'[v]) /\ Itemed(change'[w])
          /\ Head(change'[v].todo) = Head(change'[w].todo) => v = w
    BY <1>1 DEF ListsInv, LocksHeld
  <2>3. \A v, w \in Worker : change'[v].at = "applied" /\ change'[w].at = "applied"
          /\ change'[v].list = change'[w].list => v = w
    BY <1>1 DEF ListsInv, LocksHeld
  <2> QED BY <2>1, <2>2, <2>3 DEF LocksHeld, Itemed
<1>5. NotAudited'
  BY <1>1 DEF ListsInv, NotAudited, Lists!Audited, Lists!AuditKey
<1>6. EffectsFollow' /\ AdviceStands'
  BY <1>1 DEF ListsInv, EffectsFollow, Follows, Itemed, AdviceStands
<1>7. VersionsAudited'
  BY DEF ListsInv, VersionsAudited, Changes, Lists!KeysOnce
<1> QED BY <1>3, <1>4, <1>5, <1>6, <1>7 DEF ListsInv

LEMMA OpenStep ==
  ASSUME ListsInv, NEW u \in Worker, Lists!Open(u) PROVE ListsInv'
<1> DEFINE q == change[u]
           row == [q EXCEPT !.at = "keyed", !.allowed = q.todo # <<>> /\ Head(q.todo) \in eligible]
<1>1. q.at = "sent" /\ q \in Transaction
  BY UnderWay DEF Lists!Open, Lists!At
<1>2. row \in Transaction
  BY <1>1 DEF Transaction
<1>3. /\ row.op = q.op /\ row.list = q.list /\ row.key = q.key /\ row.todo = q.todo
      /\ row.index = q.index /\ row.at = "keyed"
  BY <1>1 DEF Transaction
<1>4. change' = [change EXCEPT ![u] = row] /\ UNCHANGED <<list, audit>>
  BY DEF Lists!Open
<1>5. \A v \in Worker \ {u} :
        ~(change[v].at \in KeyedPlaces /\ Lists!AuditKey(change[v]) = Lists!AuditKey(q))
  BY DEF Lists!Open, Lists!Free, Lists!HoldsKey, Lists!At, KeyedPlaces
<1>6. Lists!Audited(q) = {}
  BY DEF Lists!Open
<1>7. Lists!AuditKey(row) = Lists!AuditKey(q)
  BY <1>3 DEF Lists!AuditKey
<1> HIDE DEF row
<1> QED BY <1>1, <1>2, <1>3, <1>4, <1>5, <1>6, <1>7, ListLocked

LEMMA SecureStep ==
  ASSUME ListsInv, NEW u \in Worker, Lists!LockSecurity(u) PROVE ListsInv'
<1> DEFINE q == change[u]  row == [q EXCEPT !.at = "secured"]
<1>1. q.at = "keyed" /\ q \in Transaction /\ (Itemed(q) <=> q.todo # <<>>)
  BY UnderWay DEF Lists!LockSecurity, Lists!At
<1>2. row \in Transaction
  BY <1>1 DEF Transaction
<1>3. /\ row.op = q.op /\ row.list = q.list /\ row.key = q.key /\ row.todo = q.todo
      /\ row.index = q.index /\ row.at = "secured"
  BY <1>1 DEF Transaction
<1>4. change' = [change EXCEPT ![u] = row] /\ UNCHANGED <<list, audit>>
  BY DEF Lists!LockSecurity
<1>5. \A v \in Worker \ {u} :
        ~(change[v].at \in KeyedPlaces /\ Lists!AuditKey(change[v]) = Lists!AuditKey(q))
  BY <1>1 DEF ListsInv, LocksHeld, KeyedPlaces
<1>6. Lists!Audited(q) = {}
  BY <1>1 DEF ListsInv, NotAudited, KeyedPlaces
<1>7. Itemed(q) => \A v \in Worker \ {u} :
        change[v].at \in {"secured", "applied"} /\ Itemed(change[v])
          => Head(change[v].todo) # Head(q.todo)
  <2> SUFFICES ASSUME Itemed(q), NEW v \in Worker \ {u}, Itemed(change[v]),
                      change[v].at \in {"secured", "applied"}
               PROVE  Head(change[v].todo) # Head(q.todo)
    OBVIOUS
  <2>1. change[v].todo # <<>>
    BY UnderWay
  <2> QED BY <2>1 DEF Lists!LockSecurity, Lists!Free, Lists!HoldsSecurity, Lists!At, Itemed
<1>8. Itemed(row) <=> Itemed(q)
  BY <1>3 DEF Itemed
<1>9. Lists!AuditKey(row) = Lists!AuditKey(q)
  BY <1>3 DEF Lists!AuditKey
<1> HIDE DEF row
<1> QED BY <1>1, <1>2, <1>3, <1>4, <1>5, <1>6, <1>7, <1>8, <1>9, ListLocked

\* What is to be committed is known once the row is locked.
LEMMA ListApplied ==
  ASSUME ListsInv, NEW u \in Worker, NEW effect \in WatchRow, NEW given \in BOOLEAN,
         change[u].at = "secured", Lists!Applied(u, effect, given),
         \A v \in Worker \ {u} : ~(change[v].at = "applied" /\ change[v].list = change[u].list),
         Follows([change[u] EXCEPT !.effect = effect], list[change[u].list]),
         change[u].op = "remove_item" /\ effect # list[change[u].list] =>
           /\ given => \A l \in Session \ {change[u].list} :
                Head(change[u].todo) \in list[l].items => list[l].archived
           /\ ~given => \E l \in Session \ {change[u].list} : Head(change[u].todo) \in list[l].items
  PROVE  ListsInv'
<1> DEFINE q == change[u]
           row == [q EXCEPT !.at = "applied", !.effect = effect, !.advice = given,
                            !.answer = effect.version]
<1>1. q \in Transaction /\ (Itemed(q) <=> q.todo # <<>>)
  BY UnderWay
<1>2. effect.version \in Nat
  BY DEF WatchRow
<1>3. row \in Transaction
  BY <1>1, <1>2 DEF Transaction
<1>4. /\ row.op = q.op /\ row.list = q.list /\ row.key = q.key /\ row.todo = q.todo
      /\ row.index = q.index /\ row.at = "applied" /\ row.effect = effect /\ row.advice = given
  BY <1>1 DEF Transaction
<1>5. change' = [change EXCEPT ![u] = row] /\ UNCHANGED <<list, audit>>
  BY DEF Lists!Applied
<1>6. [q EXCEPT !.effect = effect].op = q.op /\ [q EXCEPT !.effect = effect].todo = q.todo
      /\ [q EXCEPT !.effect = effect].effect = effect
  BY <1>1 DEF Transaction
<1> HIDE DEF row
<1>7. /\ change' \in [Worker -> Transaction \cup {Lists!Idle}]
      /\ change'[u] = row
      /\ \A v \in Worker \ {u} : change'[v] = change[v]
  BY <1>3, <1>5 DEF ListsInv, ListsTyped
<1>8. ListsTyped'
  BY <1>1, <1>4, <1>5, <1>7 DEF ListsInv, ListsTyped, Itemed
<1>9. LocksHeld'
  <2>1. Lists!AuditKey(row) = Lists!AuditKey(q)
    BY <1>4 DEF Lists!AuditKey
  <2>2. \A v, w \in Worker : change'[v].at \in KeyedPlaces /\ change'[w].at \in KeyedPlaces
          /\ Lists!AuditKey(change'[v]) = Lists!AuditKey(change'[w]) => v = w
    BY <1>7, <1>4, <2>1 DEF ListsInv, LocksHeld, KeyedPlaces
  <2>3. \A v, w \in Worker : change'[v].at \in {"secured", "applied"}
          /\ change'[w].at \in {"secured", "applied"} /\ Itemed(change'[v]) /\ Itemed(change'[w])
          /\ Head(change'[v].todo) = Head(change'[w].todo) => v = w
    BY <1>4, <1>7 DEF ListsInv, LocksHeld, Itemed
  <2>4. \A v, w \in Worker : change'[v].at = "applied" /\ change'[w].at = "applied"
          /\ change'[v].list = change'[w].list => v = w
    BY <1>4, <1>7 DEF ListsInv, LocksHeld
  <2> QED BY <2>2, <2>3, <2>4 DEF LocksHeld, Itemed
<1>10. NotAudited'
  BY <1>4, <1>5, <1>7 DEF ListsInv, NotAudited, Lists!Audited, Lists!AuditKey, KeyedPlaces
<1>11. EffectsFollow'
  <2>1. Follows(row, list[q.list])
    BY <1>4, <1>6 DEF Follows, Itemed
  <2>2. \A v \in Worker : change'[v].at = "applied" => Follows(change'[v], list[change'[v].list])
    BY <1>4, <1>7, <2>1 DEF ListsInv, EffectsFollow
  <2> QED BY <1>5, <2>2 DEF EffectsFollow, Follows, Itemed
<1>12. AdviceStands'
  <2>1. CASE q.op = "remove_item" /\ effect # list[q.list]
    BY <1>4, <1>5, <1>7, <2>1 DEF ListsInv, AdviceStands
  <2>2. CASE ~(q.op = "remove_item" /\ effect # list[q.list])
    BY <1>4, <1>5, <1>7, <2>2 DEF ListsInv, AdviceStands
  <2> QED BY <2>1, <2>2
<1>13. VersionsAudited'
  BY <1>5 DEF ListsInv, VersionsAudited, Changes, Lists!KeysOnce
<1> QED BY <1>8, <1>9, <1>10, <1>11, <1>12, <1>13 DEF ListsInv

LEMMA ApplyStep ==
  ASSUME ListsInv, NEW u \in Worker, Lists!Apply(u) PROVE ListsInv'
<1> DEFINE q == change[u]  found == list[q.list]  s == Head(q.todo)
           Leads(effect) == Follows([q EXCEPT !.effect = effect], found)
<1>1. q.at = "secured" /\ q \in Transaction /\ (Itemed(q) <=> q.todo # <<>>)
  BY UnderWay DEF Lists!Apply, Lists!At
<1>2. found \in WatchRow /\ found.version + 1 \in Nat /\ q.list \in Session
  BY <1>1 DEF Transaction, ListsInv, ListsTyped, WatchRow
<1>3. \A v \in Worker \ {u} : ~(change[v].at = "applied" /\ change[v].list = q.list)
  BY DEF Lists!Apply, Lists!Free, Lists!HoldsList, Lists!At
<1>4. \A effect : LET r == [q EXCEPT !.effect = effect] IN
        r.op = q.op /\ r.todo = q.todo /\ r.effect = effect
  BY <1>1 DEF Transaction
<1>5. Leads(found)
  BY <1>4 DEF Follows
<1>6. Itemed(q) => s \in Stock
  <2> HAVE Itemed(q)
  <2>1. q.todo \in Seq(Stock) /\ q.todo # <<>>
    BY <1>1 DEF Transaction
  <2> QED BY <2>1, HeadTailProperties
<1>7. ASSUME q.op # "remove_item" /\ (\E effect \in WatchRow :
                Leads(effect) /\ Lists!Applied(u, effect, FALSE))
      PROVE  ListsInv'
  BY <1>1, <1>3, <1>7, ListApplied
<1>8. ASSUME q.op = "create" /\ Lists!ApplyCreate(u) PROVE ListsInv'
  <2> DEFINE made == Lists!Bumped(Lists!NoList)
  <2>1. found = Lists!NoList /\ made = Lists!Bumped(found)
    BY <1>8 DEF Lists!ApplyCreate
  <2>2. made \in WatchRow
    BY <1>2, <2>1 DEF WatchRow, Lists!Bumped
  <2>3. Leads(made)
    <3> HIDE DEF made
    <3> QED BY <1>2, <1>4, <1>8, <2>1 DEF Follows, Lists!Bumped, WatchRow
  <2> HIDE DEF made
  <2> QED BY <1>7, <1>8, <2>2, <2>3 DEF Lists!ApplyCreate, made
<1>9. ASSUME q.op = "update" /\ Lists!ApplyUpdate(u, found) PROVE ListsInv'
  <2> DEFINE made == Lists!Bumped(found)
  <2>1. made \in WatchRow
    BY <1>2 DEF WatchRow, Lists!Bumped
  <2>2. Leads(made)
    BY <1>2, <1>4, <1>9 DEF Follows, Lists!Bumped, WatchRow
  <2> HIDE DEF made, found
  <2> QED BY <1>7, <1>9, <2>1, <2>2 DEF Lists!ApplyUpdate, made
<1>10. ASSUME q.op = "archive" /\ Lists!ApplyArchive(u, found) PROVE ListsInv'
  <2> DEFINE made == [Lists!Bumped(found) EXCEPT !.archived = TRUE]
  <2>1. made \in WatchRow
    BY <1>2 DEF WatchRow, Lists!Bumped
  <2>2. Leads(made)
    BY <1>2, <1>4, <1>10, ZenonT(30) DEF Follows, Lists!Bumped, WatchRow
  <2> HIDE DEF made, found
  <2> QED BY <1>7, <1>10, <2>1, <2>2 DEF Lists!ApplyArchive, made
<1>11. ASSUME q.op = "add_item" /\ Lists!ApplyAdd(u, found) PROVE ListsInv'
  <2> DEFINE made == [Lists!Bumped(found) EXCEPT !.items = @ \cup {s}]
  <2>1. Itemed(q) /\ s \in Stock
    BY <1>6, <1>11 DEF Itemed
  <2>2. made \in WatchRow
    BY <1>2, <2>1 DEF WatchRow, Lists!Bumped
  <2>3. Leads(made)
    <3>1. /\ made.version = found.version + 1 /\ made.archived = found.archived
          /\ made.items = found.items \cup {s}
      BY <1>2 DEF Lists!Bumped, WatchRow
    <3> DEFINE to == [q EXCEPT !.effect = made]
    <3>2. to.op = "add_item" /\ to.todo = q.todo /\ to.effect = made
      BY <1>4, <1>11
    <3>3. Itemed(to)
      BY <3>2 DEF Itemed
    <3> HIDE DEF made, found, to
    <3>4. Follows(to, found)
      BY <3>1, <3>2, <3>3 DEF Follows
    <3> QED BY <3>4 DEF to, found
  <2>4. Lists!Applied(u, found, FALSE) \/ Lists!Applied(u, made, FALSE)
    BY <1>11 DEF Lists!ApplyAdd
  <2> HIDE DEF made, found
  <2> QED BY <1>2, <1>5, <1>7, <1>11, <2>2, <2>3, <2>4
<1>12. ASSUME q.op = "remove_item" /\ Lists!ApplyRemove(u, found) PROVE ListsInv'
  <2> DEFINE made == [Lists!Bumped(found) EXCEPT !.items = @ \ {s}]
             given == Lists!Memberships(s, q.list) = {}
  <2>1. Itemed(q) /\ s \in Stock
    BY <1>6, <1>12 DEF Itemed
  <2>2. made \in WatchRow
    BY <1>2, <2>1 DEF WatchRow, Lists!Bumped
  <2>3. Leads(made)
    <3>1. /\ made.version = found.version + 1 /\ made.archived = found.archived
          /\ made.items = found.items \ {s}
      BY <1>2 DEF Lists!Bumped, WatchRow
    <3> DEFINE to == [q EXCEPT !.effect = made]
    <3>2. to.op = "remove_item" /\ to.todo = q.todo /\ to.effect = made
      BY <1>4, <1>12
    <3>3. Itemed(to)
      BY <3>2 DEF Itemed
    <3> HIDE DEF made, found, to
    <3>4. Follows(to, found)
      BY <3>1, <3>2, <3>3 DEF Follows
    <3> QED BY <3>4 DEF to, found
  <2>4. Lists!Applied(u, found, FALSE) \/ Lists!Applied(u, made, given)
    BY <1>12 DEF Lists!ApplyRemove
  <2>5. given \in BOOLEAN
    OBVIOUS
  <2>6. /\ given => \A l \in Session \ {q.list} : s \in list[l].items => list[l].archived
        /\ ~given => \E l \in Session \ {q.list} : s \in list[l].items
    <3>1. \A l \in Session : s \in list[l].items => list[l].version > 0
      BY DEF ListsInv, ListsTyped, Lists!NoList, WatchRow
    <3> QED BY <3>1 DEF Lists!Memberships, Lists!Active
  <2>7. CASE Lists!Applied(u, found, FALSE)
    BY <1>1, <1>2, <1>3, <1>5, <2>7, ListApplied
  <2>8. CASE Lists!Applied(u, made, given)
    <3> HIDE DEF made, given
    <3> QED BY <1>1, <1>3, <2>2, <2>3, <2>5, <2>6, <2>8, ListApplied
  <2> QED BY <2>4, <2>7, <2>8
<1> QED BY <1>8, <1>9, <1>10, <1>11, <1>12 DEF Lists!Apply

Taken(u) ==
  LET q == change[u] IN
  [Lists!Answer(Lists!AuditKey(q), Lists!Hash(q), q.op, q.list, q.answer) EXCEPT
     !.advice = q.advice, !.changed = q.effect # list[q.list]]

LEMMA CommitStep ==
  ASSUME ListsInv, NEW u \in Worker, Lists!Commit(u)
  PROVE  /\ ListsInv'
         /\ audit' = audit \cup {Taken(u)}
         /\ Taken(u).op = "remove_item" /\ Taken(u).changed =>
              LET s == Head(change[u].todo) IN
              /\ Taken(u).hash[3] = s
              /\ Taken(u).advice => \A l \in Session : s \in list'[l].items => list'[l].archived
              /\ ~Taken(u).advice => \E l \in Session : s \in list'[l].items
<1> DEFINE q == change[u]  new == Taken(u)  next == Lists!Rest(q, q.answer)
<1>1. q.at = "applied" /\ q \in Transaction /\ (Itemed(q) <=> q.todo # <<>>)
  BY UnderWay DEF Lists!Commit, Lists!At
<1>2. q.answer \in Nat /\ q.list \in Session /\ q.effect \in WatchRow /\ list[q.list] \in WatchRow
  BY <1>1 DEF Transaction, ListsInv, ListsTyped
<1>3. /\ next \in Transaction \cup {Lists!Idle} /\ next.at \notin KeyedPlaces
      /\ next.at # "idle" => (Itemed(next) <=> next.todo # <<>>)
  BY <1>1, <1>2, RestTyped
<1>4. /\ new.key = Lists!AuditKey(q) /\ new.list = q.list /\ new.version = q.answer
      /\ new.op = q.op /\ new.advice = q.advice /\ new.hash = Lists!Hash(q)
      /\ new.changed = (q.effect # list[q.list])
  BY DEF Taken, Lists!Answer
<1>5. /\ list' = [list EXCEPT ![q.list] = q.effect]
      /\ audit' = audit \cup {new}
      /\ change' = [change EXCEPT ![u] = next]
  BY DEF Lists!Commit, Taken
<1> HIDE DEF new, next
<1>6. /\ change' \in [Worker -> Transaction \cup {Lists!Idle}]
      /\ change'[u] = next
      /\ \A v \in Worker \ {u} : change'[v] = change[v]
      /\ \A v \in Worker : change'[v].at \in KeyedPlaces => v # u
  BY <1>3, <1>5 DEF ListsInv, ListsTyped
<1>7. /\ list' \in [Session -> WatchRow] /\ list'[q.list] = q.effect
      /\ \A l \in Session \ {q.list} : list'[l] = list[l]
  BY <1>2, <1>5 DEF ListsInv, ListsTyped
<1>8. Follows(q, list[q.list])
  BY <1>1 DEF ListsInv, EffectsFollow
<1>9. q.effect = list[q.list] \/ q.effect.version = list[q.list].version + 1
  BY <1>8 DEF Follows
<1>10. "keyed" \in KeyedPlaces /\ "secured" \in KeyedPlaces /\ "applied" \in KeyedPlaces
  BY DEF KeyedPlaces
<1>11. ListsTyped'
  <2>1. \A l \in Session : list'[l].version = 0 => list'[l] = Lists!NoList
    BY <1>2, <1>7, <1>9 DEF ListsInv, ListsTyped, WatchRow
  <2>2. \A v \in Worker : change'[v].at # "idle" => (Itemed(change'[v]) <=> change'[v].todo # <<>>)
    BY <1>3, <1>6 DEF ListsInv, ListsTyped
  <2>3. \A a \in audit' : a.version \in Nat
    BY <1>2, <1>4, <1>5 DEF ListsInv, ListsTyped
  <2> QED BY <1>6, <1>7, <2>1, <2>2, <2>3 DEF ListsTyped, Itemed
<1>12. LocksHeld'
  BY <1>6, <1>10 DEF ListsInv, LocksHeld, Itemed
<1>13. NotAudited'
  <2> SUFFICES ASSUME NEW v \in Worker, change'[v].at \in KeyedPlaces
               PROVE  Lists!Audited(change[v])' = {}
    BY <1>6 DEF NotAudited, Lists!Audited, Lists!AuditKey
  <2>1. v # u /\ change'[v] = change[v] /\ Lists!AuditKey(change[v]) # Lists!AuditKey(q)
    BY <1>1, <1>6, <1>10 DEF ListsInv, LocksHeld
  <2>2. Lists!AuditKey(change[v]) # new.key
    BY <1>4, <2>1
  <2>3. Lists!Audited(change[v]) = {}
    BY <2>1 DEF ListsInv, NotAudited
  <2> QED BY <1>5, <2>1, <2>2, <2>3 DEF Lists!Audited, Lists!AuditKey
<1>14. EffectsFollow'
  <2>1. \A v \in Worker : change'[v].at = "applied" =>
          /\ change'[v] = change[v] /\ change[v].list \in Session
          /\ change[v].list # q.list
    BY <1>1, <1>6, <1>10, UnderWay DEF Transaction, ListsInv, LocksHeld
  <2>2. \A v \in Worker : change'[v].at = "applied" => Follows(change'[v], list'[change'[v].list])
    BY <1>7, <2>1 DEF ListsInv, EffectsFollow
  <2> QED BY <2>2 DEF EffectsFollow, Follows, Itemed
<1>15. AdviceStands'
  <2> SUFFICES ASSUME NEW v \in Worker, change'[v].at = "applied", change'[v].op = "remove_item",
                      change'[v].effect # list'[change'[v].list]
               PROVE  /\ change'[v].advice => \A l \in Session \ {change'[v].list} :
                           Head(change'[v].todo) \in list'[l].items => list'[l].archived
                      /\ ~change'[v].advice => \E l \in Session \ {change'[v].list} :
                           Head(change'[v].todo) \in list'[l].items
    BY DEF AdviceStands
  <2> DEFINE w == change[v]  s == Head(w.todo)
  <2>1. change'[v] = w /\ v # u
    BY <1>6, <1>10
  <2>2. w \in Transaction /\ (Itemed(w) <=> w.todo # <<>>)
    BY <2>1, UnderWay
  <2>3. w.list # q.list /\ w.list \in Session
    BY <1>1, <2>1, <2>2 DEF ListsInv, LocksHeld, Transaction
  <2>4. Itemed(w) /\ w.todo \in Seq(Stock) /\ w.todo # <<>>
    BY <2>1, <2>2 DEF Itemed, Transaction
  <2>5. s \in Stock
    BY <2>4, HeadTailProperties
  <2>6. ~(Itemed(q) /\ s = Head(q.todo))
    BY <1>1, <2>1, <2>4 DEF ListsInv, LocksHeld
  <2>7. /\ s \in q.effect.items <=> s \in list[q.list].items
        /\ list[q.list].archived => q.effect.archived
    BY <1>8, <2>5, <2>6 DEF Follows
  <2>8. \A l \in Session : /\ s \in list'[l].items <=> s \in list[l].items
                           /\ list[l].archived => list'[l].archived
    BY <1>7, <2>7
  <2>9. w.effect # list[w.list]
    BY <1>7, <2>1, <2>3
  <2>10. /\ w.advice => \A l \in Session \ {w.list} : s \in list[l].items => list[l].archived
         /\ ~w.advice => \E l \in Session \ {w.list} : s \in list[l].items
    BY <2>1, <2>9 DEF ListsInv, AdviceStands
  <2> QED BY <2>1, <2>8, <2>10
<1>16. VersionsAudited'
  <2>1. \A a \in audit : a.key # new.key
    BY <1>1, <1>4, <1>10 DEF ListsInv, NotAudited, Lists!Audited
  <2>2. Lists!KeysOnce'
    BY <1>5, <2>1 DEF ListsInv, VersionsAudited, Lists!KeysOnce
  <2>3. new \notin audit
    BY <2>1
  <2>4. \A l \in Session : Changes(l)' = IF l = q.list /\ q.effect # list[q.list]
                                         THEN Changes(l) \cup {new} ELSE Changes(l)
    BY <1>4, <1>5 DEF Changes
  <2>5. ASSUME NEW l \in Session
        PROVE  IsFiniteSet(Changes(l)') /\ Cardinality(Changes(l)') = list'[l].version
    <3>1. IsFiniteSet(Changes(l)) /\ Cardinality(Changes(l)) = list[l].version
      BY DEF ListsInv, VersionsAudited
    <3>2. CASE l = q.list /\ q.effect # list[q.list]
      <4>1. new \notin Changes(l)
        BY <2>3 DEF Changes
      <4> QED BY <1>7, <1>9, <2>4, <3>1, <3>2, <4>1, FS_AddElement
    <3>3. CASE ~(l = q.list /\ q.effect # list[q.list])
      BY <1>7, <2>4, <3>1, <3>3
    <3> QED BY <3>2, <3>3
  <2> QED BY <2>2, <2>5 DEF VersionsAudited
<1>17. ListsInv'
  BY <1>11, <1>12, <1>13, <1>14, <1>15, <1>16 DEF ListsInv
<1>18. ASSUME new.op = "remove_item", new.changed
       PROVE  LET s == Head(q.todo) IN
              /\ new.hash[3] = s
              /\ new.advice => \A l \in Session : s \in list'[l].items => list'[l].archived
              /\ ~new.advice => \E l \in Session : s \in list'[l].items
  <2>1. q.op = "remove_item" /\ q.effect # list[q.list] /\ q.todo # <<>>
    BY <1>1, <1>4, <1>18 DEF Itemed
  <2>2. new.hash[3] = Head(q.todo)
    BY <1>4, <2>1 DEF Lists!Hash
  <2>3. Head(q.todo) \notin list'[q.list].items
    BY <1>7, <1>8, <2>1 DEF Follows
  <2>4. /\ q.advice => \A l \in Session \ {q.list} :
             Head(q.todo) \in list[l].items => list[l].archived
        /\ ~q.advice => \E l \in Session \ {q.list} : Head(q.todo) \in list[l].items
    BY <1>1, <2>1 DEF ListsInv, AdviceStands
  <2> QED BY <1>4, <1>7, <2>2, <2>3, <2>4
<1> QED BY <1>5, <1>17, <1>18 DEF new

LEMMA SendStep ==
  ASSUME ListsInv, NEW u \in Worker, NEW l \in Session, NEW k \in Attempt, NEW op \in Lists!Ops,
         NEW todo \in Seq(Stock), op \in {"add_item", "remove_item"} <=> todo # <<>>,
         NEW expected \in Int, Lists!Send(u, op, l, k, todo, expected)
  PROVE  ListsInv'
<1> DEFINE row == [at |-> "sent", op |-> op, list |-> l, key |-> k, todo |-> todo, index |-> 0,
                   expected |-> expected, allowed |-> FALSE, effect |-> Lists!NoList,
                   advice |-> FALSE, answer |-> 0]
<1>1. row \in Transaction
  BY DEF Transaction, Lists!NoList, WatchRow
<1>2. row.at \notin KeyedPlaces /\ (Itemed(row) <=> row.todo # <<>>)
  BY DEF KeyedPlaces, Itemed
<1>3. change' = [change EXCEPT ![u] = row] /\ UNCHANGED <<list, audit>>
  BY DEF Lists!Send
<1> HIDE DEF row
<1> QED BY <1>1, <1>2, <1>3, ListMoved

LEMMA ListStep ==
  ASSUME ListsInv, Lists!WatchlistNext
  PROVE  /\ ListsInv'
         /\ UNCHANGED <<list, audit>> \/ \E u \in Worker : Lists!Commit(u)
<1> DEFINE Goal == ListsInv' /\ UNCHANGED <<list, audit>>
<1>1. \A l \in Session : \A v \in Lists!Seen(l) : v \in Int
  BY DEF Lists!Seen, ListsInv, ListsTyped, WatchRow
<1>2. /\ <<>> \in Seq(Stock)
      /\ <<First, Second>> \in Seq(Stock) /\ <<First, Second>> # <<>>
      /\ \A s \in Stock : <<s>> \in Seq(Stock) /\ <<s>> # <<>>
  BY DEF Stock
<1>3. ASSUME NEW u \in Worker, NEW l \in Session, NEW k \in Attempt,
             \/ Lists!Create(u, l, k)
             \/ \E v \in Lists!Seen(l) :
                  \/ Lists!Update(u, l, k, v) \/ Lists!Archive(u, l, k, v)
                  \/ \E batched \in MCBatch : Lists!AddBatch(u, l, k, batched, v)
                  \/ \E s \in Stock : Lists!RemoveItem(u, l, k, s, v)
      PROVE  Goal
  <2>1. UNCHANGED <<list, audit>>
    BY <1>3 DEF Lists!Create, Lists!Update, Lists!Archive, Lists!AddBatch, Lists!RemoveItem,
       Lists!Send
  <2>2. CASE Lists!Create(u, l, k)
    <3> DEFINE none == 0
    <3>1. Lists!Send(u, "create", l, k, <<>>, none) /\ "create" \in Lists!Ops
      BY <2>2 DEF Lists!Create, Lists!Ops
    <3>2. none \in Int
      OBVIOUS
    <3> HIDE DEF none
    <3> QED BY <1>2, <2>1, <3>1, <3>2, SendStep
  <2>3. ASSUME NEW v \in Lists!Seen(l), Lists!Update(u, l, k, v) PROVE Goal
    <3>1. Lists!Send(u, "update", l, k, <<>>, v) /\ "update" \in Lists!Ops
      BY <2>3 DEF Lists!Update, Lists!Ops
    <3> QED BY <1>1, <1>2, <2>1, <3>1, SendStep
  <2>4. ASSUME NEW v \in Lists!Seen(l), Lists!Archive(u, l, k, v) PROVE Goal
    <3>1. Lists!Send(u, "archive", l, k, <<>>, v) /\ "archive" \in Lists!Ops
      BY <2>4 DEF Lists!Archive, Lists!Ops
    <3> QED BY <1>1, <1>2, <2>1, <3>1, SendStep
  <2>5. ASSUME NEW v \in Lists!Seen(l), NEW batched \in MCBatch, Lists!AddBatch(u, l, k, batched, v)
        PROVE  Goal
    <3>1. Lists!Send(u, "add_item", l, k, <<First, Second>>, v) /\ "add_item" \in Lists!Ops
      BY <2>5 DEF Lists!AddBatch, Lists!Ops, MCBatch
    <3> QED BY <1>1, <1>2, <2>1, <3>1, SendStep
  <2>6. ASSUME NEW v \in Lists!Seen(l), NEW s \in Stock, Lists!RemoveItem(u, l, k, s, v) PROVE Goal
    <3>1. Lists!Send(u, "remove_item", l, k, <<s>>, v) /\ "remove_item" \in Lists!Ops
      BY <2>6 DEF Lists!RemoveItem, Lists!Ops
    <3> QED BY <1>1, <1>2, <2>1, <3>1, SendStep
  <2> HIDE DEF Goal
  <2> QED BY <1>3, <2>2, <2>3, <2>4, <2>5, <2>6
<1>4. ASSUME NEW u \in Worker, Lists!Open(u) \/ Lists!LockSecurity(u) \/ Lists!Apply(u) PROVE Goal
  <2>1. UNCHANGED <<list, audit>>
    BY <1>4 DEF Lists!Open, Lists!LockSecurity, Lists!Apply, Lists!ApplyCreate, Lists!ApplyUpdate,
       Lists!ApplyArchive, Lists!ApplyAdd, Lists!ApplyRemove, Lists!Applied
  <2> QED BY <1>4, <2>1, OpenStep, SecureStep, ApplyStep
<1>5. ASSUME NEW u \in Worker, Lists!Replay(u) PROVE Goal
  <2> DEFINE q == change[u]
  <2>1. q \in Transaction /\ (Itemed(q) <=> q.todo # <<>>)
    BY <1>5, UnderWay DEF Lists!Replay, Lists!At
  <2>2. PICK a \in audit :
          change' = [change EXCEPT ![u] =
            Lists!Rest(q, IF a.hash = Lists!Hash(q) THEN a.version ELSE q.expected)]
    BY <1>5 DEF Lists!Replay, Lists!Audited
  <2> DEFINE next == IF a.hash = Lists!Hash(q) THEN a.version ELSE q.expected
             row == Lists!Rest(q, next)
  <2>3. next \in Int
    BY <2>1 DEF ListsInv, ListsTyped, Transaction
  <2>4. change' = [change EXCEPT ![u] = row] /\ UNCHANGED <<list, audit>>
    BY <1>5, <2>2 DEF Lists!Replay
  <2> HIDE DEF next
  <2>5. /\ row \in Transaction \cup {Lists!Idle} /\ row.at \notin KeyedPlaces
        /\ row.at # "idle" => (Itemed(row) <=> row.todo # <<>>)
    BY <2>1, <2>3, RestTyped
  <2> HIDE DEF row
  <2> QED BY <2>4, <2>5, ListMoved
<1>6. ASSUME NEW u \in Worker, Lists!Fail(u) PROVE Goal
  <2> DEFINE q == change[u]  row == Lists!Rest(q, q.expected)
  <2>1. q \in Transaction /\ (Itemed(q) <=> q.todo # <<>>)
    BY <1>6, UnderWay DEF Lists!Fail, Lists!At
  <2>2. q.expected \in Int
    BY <2>1 DEF Transaction
  <2>3. /\ row \in Transaction \cup {Lists!Idle} /\ row.at \notin KeyedPlaces
        /\ row.at # "idle" => (Itemed(row) <=> row.todo # <<>>)
    BY <2>1, <2>2, RestTyped
  <2>4. /\ change' = [change EXCEPT ![u] = row] \/ change' = [change EXCEPT ![u] = Lists!Idle]
        /\ UNCHANGED <<list, audit>>
    BY <1>6 DEF Lists!Fail
  <2>5. Lists!Idle.at = "idle" /\ "idle" \notin KeyedPlaces
    BY DEF Lists!Idle, KeyedPlaces
  <2> HIDE DEF row
  <2> QED BY <2>3, <2>4, <2>5, ListMoved
<1>7. ASSUME NEW s \in Stock, Lists!Delist(s) PROVE Goal
  BY <1>7 DEF Lists!Delist, ListsInv, ListsTyped, LocksHeld, NotAudited, EffectsFollow, AdviceStands,
     VersionsAudited, Changes, Lists!KeysOnce, Lists!Audited, Lists!AuditKey, Follows, Itemed
<1>8. ASSUME NEW u \in Worker, Lists!Commit(u) PROVE ListsInv'
  BY <1>8, CommitStep
<1> HIDE DEF Goal
<1>9. Goal \/ (ListsInv' /\ \E u \in Worker : Lists!Commit(u))
  BY <1>3, <1>4, <1>5, <1>6, <1>7, <1>8 DEF Lists!WatchlistNext, Stock
<1> QED BY <1>9 DEF Goal

LEMMA ListsStart ==
  ASSUME Lists!WatchlistInit PROVE ListsInv
<1>1. list \in [Session -> WatchRow] /\ \A l \in Session : list[l] \in {Lists!NoList, Lists!Filled}
  <2>1. Lists!NoList \in WatchRow /\ Lists!Filled \in WatchRow
    BY DEF Lists!NoList, Lists!Filled, WatchRow, Stock
  <2>2. list \in [Session -> {Lists!NoList, Lists!Filled}]
    BY DEF Lists!WatchlistInit
  <2> QED BY <2>1, <2>2
<1> DEFINE made(l) == Lists!Answer(<<l, "create", 0>>, <<l, FALSE, l, 0>>, "create", l, 1)
           added(l) == Lists!Answer(<<l, "add_item", 0>>, <<l, TRUE, First, 1>>, "add_item", l, 2)
<1>2. \A a \in audit : \E l \in Session :
        list[l] = Lists!Filled /\ (a = made(l) \/ a = added(l))
  BY DEF Lists!WatchlistInit, Lists!Filling
<1>3. \A l \in Session : list[l] = Lists!Filled => made(l) \in audit /\ added(l) \in audit
  <2> SUFFICES ASSUME NEW l \in Session, list[l] = Lists!Filled
               PROVE  made(l) \in audit /\ added(l) \in audit
    OBVIOUS
  <2>1. Lists!Filling(l) = {made(l), added(l)}
    BY DEF Lists!Filling
  <2>2. Lists!Filling(l) \subseteq audit
    BY DEF Lists!WatchlistInit
  <2> QED BY <2>1, <2>2
<1>4. \A l : /\ made(l).key = <<l, "create", 0>> /\ added(l).key = <<l, "add_item", 0>>
             /\ made(l).version = 1 /\ added(l).version = 2
             /\ made(l).list = l /\ added(l).list = l
             /\ made(l).changed /\ added(l).changed
  BY DEF Lists!Answer
<1> HIDE DEF made, added
<1>5. Lists!Filled.version = 2 /\ Lists!NoList.version = 0 /\ Lists!Filled # Lists!NoList
  BY DEF Lists!Filled, Lists!NoList
<1>6. \A u \in Worker : change[u] = Lists!Idle /\ change[u].at = "idle"
  BY DEF Lists!WatchlistInit, Lists!Idle
<1>7. ListsTyped
  BY <1>1, <1>2, <1>4, <1>5, <1>6 DEF ListsTyped, Lists!WatchlistInit
<1>8. LocksHeld /\ NotAudited /\ EffectsFollow /\ AdviceStands
  BY <1>6 DEF LocksHeld, NotAudited, EffectsFollow, AdviceStands, KeyedPlaces
<1>9. Lists!KeysOnce
  BY <1>2, <1>4 DEF Lists!KeysOnce
<1>10. ASSUME NEW l \in Session
       PROVE  IsFiniteSet(Changes(l)) /\ Cardinality(Changes(l)) = list[l].version
  <2>1. CASE list[l] = Lists!Filled
    <3>1. Changes(l) = {made(l), added(l)}
      BY <1>2, <1>3, <1>4, <2>1 DEF Changes
    <3>2. made(l) # added(l)
      BY <1>4
    <3>3. IsFiniteSet({made(l)}) /\ Cardinality({made(l)}) = 1 /\ added(l) \notin {made(l)}
      BY <3>2, FS_Singleton
    <3>4. Changes(l) = {made(l)} \cup {added(l)}
      BY <3>1
    <3>5. IsFiniteSet(Changes(l)) /\ Cardinality(Changes(l)) = 1 + 1
      BY <3>3, <3>4, FS_AddElement
    <3> QED BY <1>5, <2>1, <3>5
  <2>2. CASE list[l] = Lists!NoList
    <3>1. Changes(l) = {}
      BY <1>2, <1>4, <1>5, <2>2 DEF Changes
    <3> QED BY <1>5, <2>2, <3>1, FS_EmptySet
  <2> QED BY <1>1, <2>1, <2>2
<1> QED BY <1>7, <1>8, <1>9, <1>10 DEF ListsInv, VersionsAudited

\* The answers kept explain the lists: every version of a list has one audit,
\* and no key has two.
THEOREM WatchlistAnswers == Lists!WatchlistSpec => []ListsExplained
<1>1. ListsInv /\ [Lists!WatchlistNext]_(Lists!watchlistVars) => ListsInv'
  <2>1. ListsInv /\ UNCHANGED Lists!watchlistVars => ListsInv'
    BY DEF Lists!watchlistVars, ListsInv, ListsTyped, LocksHeld, NotAudited, EffectsFollow,
       AdviceStands, VersionsAudited, Changes, Lists!KeysOnce, Lists!Audited, Lists!AuditKey,
       Follows, Itemed
  <2> QED BY <2>1, ListStep
<1>2. ListsInv => ListsExplained
  <2>1. \A S : Lists!Cardinality(S) = Cardinality(S)
    BY DEF Lists!Cardinality, Cardinality
  <2>2. \A l \in Session : Changes(l) = {a \in audit : a.list = l /\ a.changed}
    BY DEF Changes
  <2> QED BY <2>1, <2>2 DEF ListsInv, VersionsAudited, ListsExplained, Lists!ListsExplained,
            Lists!ChangesAudited
<1> QED BY <1>1, <1>2, ListsStart, PTL DEF Lists!WatchlistSpec

\* Whoever takes a security out of its last list is advised to pause its
\* monitoring, and nobody else is.
THEOREM WatchlistAdvice == Lists!WatchlistSpec => AdviceTrue
<1>1. ListsInv /\ [Lists!WatchlistNext]_(Lists!watchlistVars) => ListsInv'
  <2>1. ListsInv /\ UNCHANGED Lists!watchlistVars => ListsInv'
    BY DEF Lists!watchlistVars, ListsInv, ListsTyped, LocksHeld, NotAudited, EffectsFollow,
       AdviceStands, VersionsAudited, Changes, Lists!KeysOnce, Lists!Audited, Lists!AuditKey,
       Follows, Itemed
  <2> QED BY <2>1, ListStep
<1> DEFINE Told(a) ==
      LET s == a.hash[3]
          holders == {l \in Session : s \in list'[l].items} IN
      a.op = "remove_item" /\ a.changed =>
        /\ a.advice => \A l \in holders : list'[l].archived
        /\ ~a.advice => holders # {}
<1>2. ListsInv /\ [Lists!WatchlistNext]_(Lists!watchlistVars) =>
        [\A a \in audit' \ audit : Told(a)]_(Lists!watchlistVars)
  <2> SUFFICES ASSUME ListsInv, Lists!WatchlistNext, NEW a \in audit' \ audit PROVE Told(a)
    OBVIOUS
  <2>1. PICK u \in Worker : Lists!Commit(u)
    BY ListStep
  <2>2. audit' = audit \cup {Taken(u)} /\ a = Taken(u)
    BY <2>1, CommitStep
  <2> QED BY <2>1, <2>2, CommitStep
<1> QED BY <1>1, <1>2, ListsStart, PTL DEF Lists!WatchlistSpec, AdviceTrue, Lists!AdviceTrue

=============================================================================
