------------------------------ MODULE Securities ------------------------------
(***************************************************************************)
(* The master data of the securities (modules/securities): jobs fetch a    *)
(* full list from a source and apply it under an advisory lock, with a     *)
(* master version and a revision of every security that changed; others    *)
(* freeze the securities of a kind, or given ones, into a universe with    *)
(* the version it was read at.  Freezing takes the same lock, because it   *)
(* reads the securities and the version in two statements.                 *)
(***************************************************************************)
EXTENDS Integers, Sequences, FiniteSets
CONSTANTS
  Symbol,
  Contents,            \* what a source may list: Symbol -> status or "absent"
  Job,                 \* refresh jobs; the key of each is that of its request
  Reader,              \* who freezes universes
  MaxObserved,         \* bound: how often the source is asked
  MaxLosses            \* bound: processes that end between two steps
VARIABLES
  security,            \* table security: status and version of the last change
  versions,            \* security_master_version, by number
  revisions,           \* security_revision
  job,                 \* what the refresh of each job has fetched
  reader, universes,   \* freezing under way, and frozen universes
  observed, losses

securityVars == <<security, versions, revisions, job, reader, universes, observed, losses>>

Listed == {"LISTED", "SUSPENDED"}
Status == Listed \cup {"DELISTED", "DATA_MISSING"}
Unknown == [status |-> "absent", version |-> 0]
Row == [status : Status \cup {"absent"}, version : Nat]
MasterVersion == [key : Job, observed : Nat, content : Contents]
Revision == [symbol : Symbol, version : Nat, before : Status, after : Status]
Fetched == [at : {"fetched"}, content : Contents, observed : Nat]
Universe == [version : Nat, items : SUBSET (Symbol \X Status)]

SecuritiesInit ==
  /\ security = [s \in Symbol |-> Unknown]
  /\ versions = <<>> /\ revisions = {}
  /\ job = [j \in Job |-> [at |-> "waiting"]]
  /\ reader = [r \in Reader |-> [at |-> "idle"]] /\ universes = {}
  /\ observed = 0 /\ losses = 0

(* The list of the source is one of a single source and not empty; an item *)
(* that is neither listed nor delisted is DATA_MISSING.  A source that     *)
(* fails leaves the job waiting for its next attempt.                      *)
Fetch(j) ==
  /\ job[j].at = "waiting" /\ observed < MaxObserved
  /\ observed' = observed + 1
  /\ \E content \in Contents :
       job' = [job EXCEPT ![j] = [at |-> "fetched", content |-> content, observed |-> observed']]
  /\ UNCHANGED <<security, versions, revisions, reader, universes, losses>>
\* A slip to catch: the two reads of a freeze take no lock.
LockUnneeded == TRUE

\* The master lock is held by whoever is between the reads of a freeze.
LockFree == \A r \in Reader : reader[r].at # "read"
Applied(j) == {n \in DOMAIN versions : versions[n].key = j}

\* The status a security has after a list was applied: one that is missing in it
\* keeps its row.
StatusAfter(s, content) ==
  IF content[s] # "absent" THEN content[s]
  ELSE IF security[s].status \in {"absent", "DELISTED"} THEN security[s].status
  ELSE "DATA_MISSING"
Changed(content) == {s \in Symbol : StatusAfter(s, content) # security[s].status}

(* The whole list, its revisions and its version are one transaction. *)
ApplySnapshot(j) ==
  /\ job[j].at = "fetched" /\ LockFree /\ Applied(j) = {}
  /\ LET content == job[j].content  n == Len(versions) + 1 IN
     /\ security' = [s \in Symbol |-> IF s \in Changed(content)
                       THEN [status |-> StatusAfter(s, content), version |-> n] ELSE security[s]]
     /\ revisions' = revisions \cup
          {[symbol |-> s, version |-> n, before |-> security[s].status,
            after |-> StatusAfter(s, content)] :
             s \in {t \in Changed(content) : security[t] # Unknown}}
     /\ versions' = Append(versions, [key |-> j, observed |-> job[j].observed,
                                      content |-> content])
  /\ job' = [job EXCEPT ![j] = [at |-> "applied"]]
  /\ UNCHANGED <<reader, universes, observed, losses>>

(* The key was applied by an earlier attempt: the same list is answered as *)
(* then, another one is refused and ends the job.  The version of a source *)
(* is the moment it was asked, so looking for it finds no other one.       *)
FindReplay(j) ==
  /\ job[j].at = "fetched" /\ LockFree
  /\ \E n \in Applied(j) :
       job' = [job EXCEPT ![j] = [at |-> IF versions[n].content = job[j].content
                                            /\ versions[n].observed = job[j].observed
                                         THEN "applied" ELSE "refused"]]
  /\ UNCHANGED <<security, versions, revisions, reader, universes, observed, losses>>

(* The process ends, or the lease of the job does: another attempt begins. *)
LoseAttempt(j) ==
  /\ job[j].at \in {"fetched", "applied"} /\ losses < MaxLosses
  /\ losses' = losses + 1
  /\ job' = [job EXCEPT ![j] = [at |-> "waiting"]]
  /\ UNCHANGED <<security, versions, revisions, reader, universes, observed>>
FinishJob(j) ==
  /\ job[j].at = "applied" /\ job' = [job EXCEPT ![j] = [at |-> "done"]]
  /\ UNCHANGED <<security, versions, revisions, reader, universes, observed, losses>>

\* Which securities a universe takes: those listed, for market data also those
\* whose master data is missing.
Eligible(s, missingToo) ==
  security[s].status \in IF missingToo THEN Listed \cup {"DATA_MISSING"} ELSE Listed

(* freeze_universe reads the securities under the lock; freeze_symbols      *)
(* refuses unless all of the given ones may be monitored.                   *)
ReadSecurities(r, missingToo) ==
  /\ reader[r].at = "idle" /\ LockFree
  /\ reader' = [reader EXCEPT ![r] =
       [at |-> "read", items |-> {<<s, security[s].status>> :
                                   s \in {t \in Symbol : Eligible(t, missingToo)}}]]
  /\ UNCHANGED <<security, versions, revisions, job, universes, observed, losses>>
ReadGiven(r, symbols) ==
  /\ reader[r].at = "idle" /\ LockFree /\ symbols # {}
  /\ \A s \in symbols : Eligible(s, FALSE)
  /\ reader' = [reader EXCEPT ![r] =
       [at |-> "read", items |-> {<<s, security[s].status>> : s \in symbols}]]
  /\ UNCHANGED <<security, versions, revisions, job, universes, observed, losses>>
SaveUniverse(r) ==
  /\ reader[r].at = "read"
  /\ universes' = universes \cup {[version |-> Len(versions), items |-> reader[r].items]}
  /\ reader' = [reader EXCEPT ![r] = [at |-> "idle"]]
  /\ UNCHANGED <<security, versions, revisions, job, observed, losses>>

SecuritiesNext ==
  \/ \E j \in Job : \/ Fetch(j) \/ ApplySnapshot(j) \/ FindReplay(j)
                    \/ LoseAttempt(j) \/ FinishJob(j)
  \/ \E r \in Reader :
       \/ \E missingToo \in BOOLEAN : ReadSecurities(r, missingToo)
       \/ \E symbols \in SUBSET Symbol : ReadGiven(r, symbols)
       \/ SaveUniverse(r)
SecuritiesSpec == SecuritiesInit /\ [][SecuritiesNext]_securityVars

SecuritiesTypeOK ==
  /\ security \in [Symbol -> Row]
  /\ versions \in Seq(MasterVersion) /\ revisions \subseteq Revision
  /\ universes \subseteq Universe

\* The status a security had at a version, told by its revisions alone.
Later(s, n) == {v \in revisions : v.symbol = s /\ v.version > n}
StatusAt(s, n) ==
  IF Later(s, n) = {} THEN security[s].status
  ELSE (CHOOSE v \in Later(s, n) : \A w \in Later(s, n) : v.version <= w.version).before

(* A frozen universe is what the securities were at the version it names,   *)
(* as their revisions still tell after any number of later refreshes: so a  *)
(* job or a backtest that was given a universe can be explained.            *)
UniversesExplained ==
  \A u \in universes : \A item \in u.items : StatusAt(item[1], u.version) = item[2]
(* A key is applied once, whatever attempts its job makes, and no security  *)
(* ever disappears.                                                         *)
AppliedOnce == \A m, n \in DOMAIN versions : versions[m].key = versions[n].key => m = n
NeverForgotten ==
  \A n \in DOMAIN versions, s \in Symbol :
    versions[n].content[s] # "absent" => security[s] # Unknown
SecuritiesSound == UniversesExplained /\ AppliedOnce /\ NeverForgotten

(* NOT what the code does, since a second attempt asks the source again:    *)
(* a job whose list was applied does not end refused.                       *)
RefusedMeansNothing == \A j \in Job : job[j].at = "refused" => Applied(j) = {}
=============================================================================
