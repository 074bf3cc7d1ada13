--------------------------- MODULE BacktestsProofs ---------------------------
(***************************************************************************)
(* Theorems about backtest tasks (Backtests), the backtests of candidates  *)
(* (CandidateBacktests) and the corporate actions they are adjusted by     *)
(* (CorporateActions), for any number of items, attempts, commands,        *)
(* changes of prices, callers, events and fetches.                         *)
(*                                                                         *)
(* All that matters of an item is its row, where each attempt stands with  *)
(* it, how often its strategy has run, and the task: ItemOK is about these *)
(* alone, so a step of one attempt at one item is about one instance of it *)
(* and leaves the others alone, as long as a held item finds its task      *)
(* running or stopping.  TaskOK ties the status of the task to the rows: a *)
(* pause or a cancellation always has an item to wait for, because a       *)
(* cancellation leaves no unfinished item that nobody holds.               *)
(*                                                                         *)
(* Of the corporate actions ActionsInv says what each caller holds at each *)
(* statement of his transactions; facts and batches are only added, so it  *)
(* stays true while others commit (SoundLater), except that rows not yet   *)
(* committed must not clash with theirs: that is kept pair by pair.        *)
(***************************************************************************)
EXTENDS MCBacktests, WellFoundedInduction, TLAPS

-----------------------------------------------------------------------------
(* A backtest task.                                                         *)

Live == {"RUNNING", "PAUSING", "CANCELING"}
Tests == Versions \cup {Nobody}
Tokens == Attempt \cup {Nobody}
Results == [forecast : Tokens, test : Tests, adjustment : Tokens]
ItemRows == [status : ItemStatus, token : Tokens, claimed : BOOLEAN, forecast : Tokens,
             test : Tests, adjustment : Tokens, result : Results]
PCs == {"idle", "recover", "start", "training", "strategy", "matched", "not matched", "test",
        "adjustment", "save", "failing", "gone", "unrecorded"} \cup Checkpoints \cup Over
Execs == [pc : PCs, forecast : Tokens, test : Tests, adjustment : Tokens]
Tasks == [status : TaskStatus, generation : Nat \ {0}]
AttemptFields == {"generation", "next", "chunk", "running"}

\* From where on an attempt knows what has been frozen.
KnowsForecast == {"forecast known", "test", "test known", "adjustment", "adjustment known",
                  "simulated", "save"}
KnowsTest == {"test known", "adjustment", "adjustment known", "simulated", "save"}
KnowsAdjustment == {"adjustment known", "simulated", "save"}

Knows(x, r) ==
  /\ x.pc \in KnowsForecast => x.forecast = r.forecast /\ r.forecast # Nobody
  /\ x.pc \in KnowsTest => x.test = r.test /\ r.test # Nobody
  /\ x.pc \in KnowsAdjustment => x.adjustment = r.adjustment /\ r.adjustment # Nobody

\* The row r of an item; e, where each attempt stands with it; n, the runs of
\* its strategy; t, the task; g, the generation of each attempt.
ItemOK(r, e, n, t, g) ==
  /\ r \in ItemRows /\ n \in Nat /\ e \in [Attempt -> Execs]
  /\ r.token # Nobody =>
       /\ g[r.token] = t.generation /\ t.status \in Live
       /\ r.status \notin ItemTerminal /\ e[r.token].pc \notin Over \cup {"idle"}
  /\ \A a \in Attempt : e[a].pc = "recover" => r.token # a
  /\ r.claimed /\ r.forecast = Nobody =>
       r.status \in {"FORECASTING", "FAILED", "SKIPPED", "CANCELED"}
  /\ r.status = "FORECASTING" => r.forecast = Nobody
  /\ n <= 1 /\ (~r.claimed => n = 0)
  /\ \A a \in Attempt : e[a].pc = "strategy" => n = 0 /\ r.claimed
  /\ \A a, b \in Attempt : e[a].pc = "strategy" /\ e[b].pc = "strategy" => a = b
  /\ \A a \in Attempt : Knows(e[a], r)
  /\ r.status = "SUCCEEDED" =>
       r.result = [forecast |-> r.forecast, test |-> r.test, adjustment |-> r.adjustment]

Good == {"SUCCEEDED", "SKIPPED"}
Bad == {"FAILED", "CANCELED"}

TaskOK(s, rows, I) ==
  /\ s \in TaskTerminal => \A i \in I : rows[i].status \in ItemTerminal
  /\ s = "SUCCEEDED" => \A i \in I : rows[i].status \notin Bad
  /\ s = "PARTIAL" => (\E i \in I : rows[i].status \in Good) /\ (\E i \in I : rows[i].status \in Bad)
  /\ s = "FAILED" => \A i \in I : rows[i].status \notin Good
  /\ s \in {"PAUSING", "CANCELING"} => \E i \in I : rows[i].token # Nobody
  /\ s = "CANCELING" => \A i \in I : rows[i].status \in ItemTerminal \/ rows[i].token # Nobody

Standing(i) == [a \in Attempt |-> exec[a][i]]
Generations == [a \in Attempt |-> attempt[a].generation]

BacktestInv ==
  /\ task \in Tasks
  /\ item = [i \in Item |-> item[i]] /\ forecasts = [i \in Item |-> forecasts[i]]
  /\ exec \in [Attempt -> [Item -> Execs]]
  /\ attempt = [a \in Attempt |-> attempt[a]]
  /\ \A a \in Attempt : DOMAIN attempt[a] = AttemptFields
  /\ \A i \in Item : ItemOK(item[i], Standing(i), forecasts[i], task, Generations)
  /\ TaskOK(task.status, item, Item)

LEMMA TokenNumbers == Attempt \subseteq Tokens /\ Nobody \in Tokens /\ Nobody \notin Attempt
BY DEF Attempt, Tokens, Nobody

LEMMA EndedExecs ==
  ASSUME NEW pc \in Over \cup {"start", "recover", "gone", "unrecorded"}
  PROVE  /\ Ended(pc) \in Execs /\ Ended(pc).pc = pc
         /\ [Idle EXCEPT !.pc = pc] \in Execs /\ [Idle EXCEPT !.pc = pc].pc = pc
<1>1. Ended(pc) = [pc |-> pc, forecast |-> Nobody, test |-> Nobody, adjustment |-> Nobody]
      /\ [Idle EXCEPT !.pc = pc] = Ended(pc)
  BY DEF Ended, Idle
<1>2. pc \in PCs
  BY DEF PCs, Over
<1> QED BY <1>1, <1>2, TokenNumbers DEF Execs, Tests

LEMMA OneMore == \A n : n = 0 => n + 1 \in Nat /\ n + 1 <= 1
OBVIOUS

LEMMA SameItems == (mode' = mode) => Item' = Item
BY DEF Item

\* What the invariant says of an item.
LEMMA ItemParts ==
  ASSUME BacktestInv, NEW i \in Item
  PROVE  /\ ItemOK(item[i], Standing(i), forecasts[i], task, Generations)
         /\ item[i] \in ItemRows /\ task \in Tasks
         /\ \A a \in Attempt : exec[a][i] \in Execs /\ Standing(i)[a] = exec[a][i]
         /\ \A a \in Attempt : Generations[a] = attempt[a].generation
BY ZenonT(30) DEF BacktestInv, ItemOK, Standing, Generations

\* An item that is held finds its task running or stopping.
LEMMA HeldParts ==
  ASSUME BacktestInv, NEW i \in Item, NEW a \in Attempt, item[i].token = a
  PROVE  /\ attempt[a].generation = task.generation /\ task.status \in Live
         /\ item[i].status \notin ItemTerminal /\ exec[a][i].pc \notin Over \cup {"idle", "recover"}
BY ItemParts, TokenNumbers DEF ItemOK

LEMMA Unheld ==
  ASSUME BacktestInv, task.status \notin Live, NEW i \in Item
  PROVE  item[i].token = Nobody
BY ItemParts DEF ItemOK

\* A step of one attempt at one item.
AtItem(a, i, x, r, n) ==
  /\ mode' = mode /\ attempt' = attempt
  /\ exec' = [exec EXCEPT ![a][i] = x]
  /\ item' = [item EXCEPT ![i] = r]
  /\ forecasts' = [forecasts EXCEPT ![i] = n]
  /\ task' \in Tasks /\ task'.generation = task.generation
  /\ \A j \in Item : j # i /\ item[j].token # Nobody => task'.status \in Live
  /\ ItemOK(r, [Standing(i) EXCEPT ![a] = x], n, task', Generations)
  /\ TaskOK(task'.status, item', Item)

LEMMA StepAtItem ==
  ASSUME BacktestInv, NEW a \in Attempt, NEW i \in Item, NEW x, NEW r, NEW n,
         AtItem(a, i, x, r, n)
  PROVE  BacktestInv'
<1> USE DEF AtItem
<1>1. Item' = Item
  BY SameItems
<1>2. exec \in [Attempt -> [Item -> Execs]]
  BY DEF BacktestInv
<1>3. x \in Execs
  <2>1. [Standing(i) EXCEPT ![a] = x] \in [Attempt -> Execs] /\ DOMAIN Standing(i) = Attempt
    BY DEF ItemOK, Standing
  <2> QED BY <2>1
<1>4. /\ exec' \in [Attempt -> [Item -> Execs]]
      /\ \A b \in Attempt : \A j \in Item :
           exec'[b][j] = IF b = a /\ j = i THEN x ELSE exec[b][j]
  BY <1>2, <1>3
<1>5. /\ item' = [j \in Item |-> item'[j]] /\ forecasts' = [j \in Item |-> forecasts'[j]]
      /\ \A j \in Item : item'[j] = IF j = i THEN r ELSE item[j]
      /\ \A j \in Item : forecasts'[j] = IF j = i THEN n ELSE forecasts[j]
  BY DEF BacktestInv
<1>6. Generations' = Generations
  BY DEF Generations
<1>7. ASSUME NEW j \in Item
      PROVE  ItemOK(item'[j], Standing(j)', forecasts'[j], task', Generations')
  <2>1. CASE j = i
    <3>1. Standing(j)' = [Standing(i) EXCEPT ![a] = x]
      BY <1>4, <2>1 DEF Standing
    <3> QED BY <1>5, <1>6, <2>1, <3>1
  <2>2. CASE j # i
    <3>1. Standing(j)' = Standing(j)
      BY <1>4, <2>2 DEF Standing
    <3>2. item'[j] = item[j] /\ forecasts'[j] = forecasts[j]
      BY <1>5, <2>2
    <3>3. ItemOK(item[j], Standing(j), forecasts[j], task, Generations)
      BY ItemParts
    <3>4. item[j].token # Nobody => task'.status \in Live
      BY <2>2
    <3>5. ItemOK(item[j], Standing(j), forecasts[j], task', Generations)
      BY <3>3, <3>4 DEF ItemOK
    <3> QED BY <1>6, <3>1, <3>2, <3>5
  <2> QED BY <2>1, <2>2
<1> QED BY <1>1, <1>4, <1>5, <1>7 DEF BacktestInv

\* An attempt that only moves on at an item.
LEMMA MoveAtItem ==
  ASSUME BacktestInv, NEW a \in Attempt, NEW i \in Item, NEW x \in Execs,
         UNCHANGED <<mode, attempt, task, item, forecasts>>,
         exec' = [exec EXCEPT ![a][i] = x],
         x.pc \notin {"recover", "strategy"}, Knows(x, item[i]),
         item[i].token = a => x.pc \notin Over \cup {"idle"}
  PROVE  BacktestInv'
<1> DEFINE r == item[i]
           e == Standing(i)
           f == [e EXCEPT ![a] = x]
<1>1. ItemOK(r, e, forecasts[i], task, Generations) /\ task \in Tasks
  BY ItemParts
<1>2. f \in [Attempt -> Execs] /\ \A b \in Attempt : f[b] = IF b = a THEN x ELSE e[b]
  BY <1>1 DEF ItemOK
<1> HIDE DEF f, e
<1>3. ItemOK(r, f, forecasts[i], task, Generations)
  BY <1>1, <1>2, TokenNumbers DEF ItemOK, ItemRows, Tokens
<1>4. item' = [item EXCEPT ![i] = r] /\ forecasts' = [forecasts EXCEPT ![i] = forecasts[i]]
  BY DEF BacktestInv
<1>5. \A j \in Item : item[j].token # Nobody => task'.status \in Live
  BY Unheld
<1>6. TaskOK(task'.status, item', Item)
  BY DEF BacktestInv
<1>7. ItemOK(r, [Standing(i) EXCEPT ![a] = x], forecasts[i], task', Generations)
  BY <1>3 DEF f, e
<1>8. task' \in Tasks /\ task'.generation = task.generation
      /\ \A j \in Item : j # i /\ item[j].token # Nobody => task'.status \in Live
  BY <1>1, <1>5
<1>9. mode' = mode /\ attempt' = attempt
  OBVIOUS
<1> DEFINE n == forecasts[i]
<1>10. /\ item' = [item EXCEPT ![i] = r] /\ forecasts' = [forecasts EXCEPT ![i] = n]
       /\ ItemOK(r, [Standing(i) EXCEPT ![a] = x], n, task', Generations)
  BY <1>4, <1>7
<1> HIDE DEF r, n
<1>11. AtItem(a, i, x, r, n)
  BY <1>6, <1>8, <1>9, <1>10 DEF AtItem
<1> QED BY <1>11, StepAtItem

LEMMA RefusedStep ==
  ASSUME BacktestInv, NEW a \in Attempt, NEW i \in Item, NEW pc \in Over,
         Refused(a, i, pc), UNCHANGED forecasts, Internal, item[i].token # a
  PROVE  BacktestInv'
<1> DEFINE x == Ended(pc)
<1>1. x \in Execs /\ x.pc = pc
  BY EndedExecs
<1>2. UNCHANGED <<mode, attempt, task, item, forecasts>> /\ exec' = [exec EXCEPT ![a][i] = x]
  BY DEF Refused, Internal, Ends, Go
<1> HIDE DEF x
<1>3. x.pc \notin {"recover", "strategy"} /\ Knows(x, item[i])
  BY <1>1 DEF Over, Knows, KnowsForecast, KnowsTest, KnowsAdjustment
<1> QED BY <1>1, <1>2, <1>3, MoveAtItem

\* On to a point where nothing is known yet.
LEMMA ToStep ==
  ASSUME BacktestInv, NEW a \in Attempt, NEW i \in Item, NEW pc \in {"failing", "matched", "not matched"},
         To(a, i, pc), UNCHANGED <<task, item, forecasts>>, Internal
  PROVE  BacktestInv'
<1> DEFINE x == [exec[a][i] EXCEPT !.pc = pc]
<1>1. exec[a][i] \in Execs
  BY ItemParts
<1>2. x \in Execs /\ x.pc = pc
  BY <1>1 DEF Execs, PCs
<1>3. UNCHANGED <<mode, attempt, task, item, forecasts>> /\ exec' = [exec EXCEPT ![a][i] = x]
  BY DEF To, Internal, Go
<1> HIDE DEF x
<1>4. x.pc \notin {"recover", "strategy"} /\ Knows(x, item[i]) /\ x.pc \notin Over \cup {"idle"}
  BY <1>2 DEF Over, Knows, KnowsForecast, KnowsTest, KnowsAdjustment
<1> QED BY <1>2, <1>3, <1>4, MoveAtItem

-----------------------------------------------------------------------------
(* The status of the task.                                                  *)

\* While the task runs or stops, an item that stays unfinished and held, or
\* unheld, does not disturb it.
LEMMA TaskStays ==
  ASSUME NEW s \in Live, NEW I, NEW rows, rows = [i \in I |-> rows[i]], TaskOK(s, rows, I),
         NEW i \in I, NEW r, r.status \notin ItemTerminal, rows[i].status \notin ItemTerminal,
         r.token = rows[i].token
  PROVE  TaskOK(s, [rows EXCEPT ![i] = r], I)
<1> DEFINE more == [rows EXCEPT ![i] = r]
<1>1. \A j \in I : more[j] = IF j = i THEN r ELSE rows[j]
  OBVIOUS
<1> HIDE DEF more
<1>2. s \notin TaskTerminal /\ s \notin {"SUCCEEDED", "PARTIAL", "FAILED"}
  BY DEF Live, TaskTerminal
<1>3. s \in {"PAUSING", "CANCELING"} => \E j \in I : more[j].token # Nobody
  BY <1>1 DEF TaskOK
<1>4. s = "CANCELING" => \A j \in I : more[j].status \in ItemTerminal \/ more[j].token # Nobody
  BY <1>1 DEF TaskOK
<1> QED BY <1>2, <1>3, <1>4 DEF TaskOK, more

LEMMA TaskRuns ==
  ASSUME NEW rows, NEW I, NEW s \in {"RUNNING", "PENDING", "PAUSED"}
  PROVE  TaskOK(s, rows, I)
BY DEF TaskOK, TaskTerminal

\* _refresh_parent_status
LEMMA OutcomeOK ==
  ASSUME NEW rows, \A i \in Item : rows[i].status \in ItemStatus
  PROVE  /\ Outcome(rows) \in {"RUNNING", "SUCCEEDED", "PARTIAL", "FAILED"}
         /\ TaskOK(Outcome(rows), rows, Item)
         /\ (\E i \in Item : rows[i].status \notin ItemTerminal) => Outcome(rows) = "RUNNING"
<1> DEFINE statuses == {rows[i].status : i \in Item}
           completed == statuses \cap {"SUCCEEDED", "SKIPPED"} # {}
           failed == statuses \cap {"FAILED", "CANCELED"} # {}
           open == Unfinished(rows) # {}
<1>1. /\ open => Outcome(rows) = "RUNNING"
      /\ ~open /\ completed /\ failed => Outcome(rows) = "PARTIAL"
      /\ ~open /\ completed /\ ~failed => Outcome(rows) = "SUCCEEDED"
      /\ ~open /\ ~completed => Outcome(rows) = "FAILED"
  BY DEF Outcome
<1>2. open <=> \E i \in Item : rows[i].status \notin ItemTerminal
  BY DEF Unfinished
<1>3. completed <=> \E i \in Item : rows[i].status \in Good
  BY DEF Good
<1>4. failed <=> \E i \in Item : rows[i].status \in Bad
  BY DEF Bad
<1>5. \/ Outcome(rows) = "RUNNING"
      \/ /\ \A i \in Item : rows[i].status \in ItemTerminal
         /\ \/ /\ Outcome(rows) = "PARTIAL"
               /\ \E i \in Item : rows[i].status \in Good
               /\ \E i \in Item : rows[i].status \in Bad
            \/ Outcome(rows) = "SUCCEEDED" /\ \A i \in Item : rows[i].status \notin Bad
            \/ Outcome(rows) = "FAILED" /\ \A i \in Item : rows[i].status \notin Good
  BY <1>1, <1>2, <1>3, <1>4
<1> HIDE DEF completed, failed, open
<1>6. TaskOK(Outcome(rows), rows, Item)
  BY <1>5 DEF TaskOK, TaskTerminal
<1>7. (\E i \in Item : rows[i].status \notin ItemTerminal) => Outcome(rows) = "RUNNING"
  BY <1>5
<1> QED BY <1>5, <1>6, <1>7

-----------------------------------------------------------------------------
(* Steps of run_item.                                                       *)

\* A step that changes the row of an item it holds, or takes hold of it, while
\* the item stays unfinished: the row is sound again, and the task goes on.
LEMMA RowStep ==
  ASSUME BacktestInv, NEW a \in Attempt, NEW i \in Item, NEW x \in Execs, NEW r \in ItemRows,
         UNCHANGED <<mode, attempt, forecasts>>,
         exec' = [exec EXCEPT ![a][i] = x], item' = [item EXCEPT ![i] = r],
         task' \in Tasks, task'.generation = task.generation, task'.status \in Live,
         task'.status = "RUNNING" \/ (task' = task /\ item[i].token = a),
         attempt[a].generation = task.generation,
         r.token = a, r.status \notin ItemTerminal,
         x.pc \notin {"recover"} \cup Over \cup {"idle"}, Knows(x, r),
         \A b \in Attempt : b # a => Knows(exec[b][i], r),
         r.claimed /\ r.forecast = Nobody => r.status = "FORECASTING",
         r.status = "FORECASTING" => r.forecast = Nobody,
         item[i].claimed => r.claimed,
         x.pc = "strategy" => r.claimed /\ ~item[i].claimed
  PROVE  BacktestInv'
<1> DEFINE e == Standing(i)
           f == [e EXCEPT ![a] = x]
           n == forecasts[i]
           g == Generations
           s == item[i]
<1>1. ItemOK(s, e, n, task, g) /\ g[a] = attempt[a].generation /\ \A b \in Attempt : e[b] = exec[b][i]
  BY ItemParts
<1>2. f \in [Attempt -> Execs] /\ \A b \in Attempt : f[b] = IF b = a THEN x ELSE e[b]
  BY <1>1 DEF ItemOK
<1>3. item' = [item EXCEPT ![i] = r] /\ forecasts' = [forecasts EXCEPT ![i] = n]
  BY DEF BacktestInv
<1> HIDE DEF f, e, n, g, s
<1>4. ItemOK(r, f, n, task', g)
  <2>1. /\ r \in ItemRows /\ n \in Nat /\ f \in [Attempt -> Execs] /\ n <= 1
        /\ r.token # Nobody =>
             /\ g[r.token] = task'.generation /\ task'.status \in Live
             /\ r.status \notin ItemTerminal /\ f[r.token].pc \notin Over \cup {"idle"}
    BY <1>1, <1>2 DEF ItemOK
  <2>2. \A b \in Attempt : f[b].pc = "recover" => r.token # b
    BY <1>2
  <2>3. ~r.claimed => n = 0
    BY <1>1 DEF ItemOK, s
  <2>4. \A b \in Attempt : f[b].pc = "strategy" => n = 0 /\ r.claimed
    BY <1>1, <1>2 DEF ItemOK, s
  <2>5. \A b, c \in Attempt : f[b].pc = "strategy" /\ f[c].pc = "strategy" => b = c
    BY <1>1, <1>2 DEF ItemOK, s
  <2>6. \A b \in Attempt : Knows(f[b], r)
    BY <1>1, <1>2
  <2>7. r.status # "SUCCEEDED"
    BY DEF ItemTerminal
  <2> QED BY <2>1, <2>2, <2>3, <2>4, <2>5, <2>6, <2>7 DEF ItemOK
<1>5. TaskOK(task'.status, item', Item)
  <2>1. CASE task'.status = "RUNNING"
    BY <2>1, TaskRuns
  <2>2. CASE task' = task /\ item[i].token = a /\ task'.status # "RUNNING"
    <3>1. item[i].status \notin ItemTerminal /\ TaskOK(task.status, item, Item)
          /\ item = [j \in Item |-> item[j]] /\ task.status \in Live
      BY <2>2, HeldParts DEF BacktestInv
    <3>2. TaskOK(task.status, [item EXCEPT ![i] = r], Item)
      BY <2>2, <3>1, TaskStays
    <3> QED BY <1>3, <2>2, <3>2
  <2> QED BY <2>1, <2>2
<1>6. ItemOK(r, [Standing(i) EXCEPT ![a] = x], n, task', Generations)
  BY <1>4 DEF f, e, g
<1>7. mode' = mode /\ attempt' = attempt
      /\ \A j \in Item : j # i /\ item[j].token # Nobody => task'.status \in Live
      /\ task' \in Tasks /\ task'.generation = task.generation
      /\ exec' = [exec EXCEPT ![a][i] = x]
  OBVIOUS
<1>8. AtItem(a, i, x, r, n)
  BY <1>3, <1>5, <1>6, <1>7 DEF AtItem
<1> QED BY <1>8, StepAtItem

LEMMA RecoverStep ==
  ASSUME BacktestInv, NEW a \in Attempt, NEW i \in Item, Recover(a, i)
  PROVE  BacktestInv'
<1> DEFINE s == item[i]
<1>1. /\ s \in ItemRows /\ task \in Tasks /\ exec[a][i] \in Execs
      /\ ItemOK(s, Standing(i), forecasts[i], task, Generations)
      /\ \A b \in Attempt : Standing(i)[b] = exec[b][i]
  BY ItemParts
<1>2. exec[a][i].pc = "recover" /\ s.token # a /\ UNCHANGED forecasts /\ Internal
  BY HeldParts DEF Recover, At
<1>3. ASSUME NEW pc \in Over, Refused(a, i, pc) PROVE BacktestInv'
  BY <1>2, <1>3, RefusedStep
<1>4. CASE /\ ~Superseded(a) /\ MayRecover(a, i) /\ Recoverable(s)
           /\ item' = Set(i, [s EXCEPT !.token = a,
                                !.status = IF s.forecast # Nobody THEN "FROZEN" ELSE "FETCHING_DATA"])
           /\ Status("RUNNING") /\ To(a, i, "start")
  <2> DEFINE status == IF s.forecast # Nobody THEN "FROZEN" ELSE "FETCHING_DATA"
             r == [s EXCEPT !.token = a, !.status = status]
             x == [exec[a][i] EXCEPT !.pc = "start"]
  <2>1. status \in {"FROZEN", "FETCHING_DATA"} /\ status \in ItemStatus /\ status \notin ItemTerminal
        /\ status # "FORECASTING"
    BY DEF ItemStatus, ItemTerminal
  <2>2. /\ item' = [item EXCEPT ![i] = r] /\ exec' = [exec EXCEPT ![a][i] = x]
        /\ task' = [task EXCEPT !.status = "RUNNING"] /\ UNCHANGED <<mode, attempt, forecasts>>
    BY <1>2, <1>4 DEF Set, To, Go, Status, Internal
  <2> HIDE DEF status
  <2>3. /\ r \in ItemRows /\ r.token = a /\ r.status = status /\ r.claimed = s.claimed
        /\ r.forecast = s.forecast /\ r.test = s.test /\ r.adjustment = s.adjustment
    BY <1>1, <2>1, TokenNumbers DEF ItemRows
  <2>4. x \in Execs /\ x.pc = "start"
    BY <1>1 DEF Execs, PCs
  <2>5. /\ task' \in Tasks /\ task'.generation = task.generation /\ task'.status = "RUNNING"
        /\ task'.status \in Live
    BY <1>1, <2>2 DEF Tasks, TaskStatus, Live
  <2>6. attempt[a].generation = task.generation
    BY <1>4 DEF Superseded
  <2>7. s.claimed => s.forecast # Nobody
    <3>1. s.forecast = Nobody => s.status \in {"PENDING", "FETCHING_DATA"}
      BY <1>4 DEF Recoverable
    <3> QED BY <1>1, <3>1 DEF ItemOK
  <2>8. Knows(x, r) /\ \A b \in Attempt : Knows(exec[b][i], r)
    BY <1>1, <2>3, <2>4, ZenonT(30) DEF ItemOK, Knows, KnowsForecast, KnowsTest, KnowsAdjustment
  <2>9. x.pc \notin {"recover"} \cup Over \cup {"idle"} /\ x.pc # "strategy"
    BY <2>4 DEF Over
  <2> HIDE DEF x, r
  <2> QED BY <2>1, <2>2, <2>3, <2>4, <2>5, <2>6, <2>7, <2>8, <2>9, RowStep
<1> QED BY <1>2, <1>3, <1>4 DEF Recover, Over

LEMMA StartStep ==
  ASSUME BacktestInv, NEW a \in Attempt, NEW i \in Item, Start(a, i)
  PROVE  BacktestInv'
<1> DEFINE s == item[i]
<1>1. /\ s \in ItemRows /\ task \in Tasks /\ exec[a][i] \in Execs
      /\ ItemOK(s, Standing(i), forecasts[i], task, Generations)
      /\ \A b \in Attempt : Standing(i)[b] = exec[b][i]
  BY ItemParts
<1>2. UNCHANGED forecasts /\ Internal
  BY DEF Start
<1>3. CASE Superseded(a) /\ Refused(a, i, "superseded")
  <2>1. item[i].token # a
    BY <1>3, HeldParts DEF Superseded
  <2> QED BY <1>2, <1>3, <2>1, RefusedStep DEF Over
<1>4. CASE ~Superseded(a) /\ NothingToDo(i) /\ Refused(a, i, "done")
  <2>1. item[i].token # a
    BY <1>4, HeldParts DEF NothingToDo, Live, TaskTerminal
  <2> QED BY <1>2, <1>4, <2>1, RefusedStep DEF Over
<1>5. CASE To(a, i, "failing") /\ UNCHANGED <<task, item>>
  BY <1>2, <1>5, ToStep
<1>6. CASE item[i].token \notin {Nobody, a} /\ Refused(a, i, "refused")
  BY <1>2, <1>6, RefusedStep DEF Over
<1>7. CASE /\ ~Superseded(a) /\ Startable(i)
           /\ item[i].token \in {Nobody, a} /\ ~UnknownForecast(i) /\ Started(a, i)
  <2> DEFINE known == s.forecast
             status == IF known = Nobody THEN "FETCHING_DATA"
                       ELSE IF s.status = "SIMULATING" THEN "FROZEN" ELSE s.status
             r == [s EXCEPT !.token = a, !.status = status]
             pc == IF known = Nobody THEN "training" ELSE "test"
             x == [Idle EXCEPT !.pc = pc, !.forecast = known]
  <2>1. /\ s.status \notin ItemTerminal /\ s.status \in ItemStatus
        /\ ~(s.status = "FORECASTING" /\ s.forecast = Nobody)
    BY <1>1, <1>7 DEF Startable, UnknownForecast, ItemRows
  <2>2. /\ status \in ItemStatus /\ status \notin ItemTerminal /\ status # "FORECASTING"
        /\ s.status # "FORECASTING"
    BY <1>1, <2>1 DEF ItemStatus, ItemTerminal, ItemOK
  <2>3. /\ item' = [item EXCEPT ![i] = r] /\ exec' = [exec EXCEPT ![a][i] = x]
        /\ task' = [task EXCEPT !.status = "RUNNING"] /\ UNCHANGED <<mode, attempt, forecasts>>
    BY <1>2, <1>7 DEF Started, Set, Go, Status, Internal
  <2>4. known \in Tokens /\ pc \in {"training", "test"} /\ (pc = "test" => known # Nobody)
    BY <1>1 DEF ItemRows
  <2> HIDE DEF status, pc
  <2>5. /\ r \in ItemRows /\ r.token = a /\ r.status = status /\ r.claimed = s.claimed
        /\ r.forecast = s.forecast /\ r.test = s.test /\ r.adjustment = s.adjustment
    BY <1>1, <2>2, TokenNumbers DEF ItemRows
  <2>6. x \in Execs /\ x.pc = pc /\ x.forecast = known
    <3>1. Idle \in Execs
      BY TokenNumbers DEF Idle, Execs, PCs, Tests
    <3>2. pc \in PCs /\ known \in Tokens
      BY <2>4 DEF PCs
    <3> QED BY <3>1, <3>2 DEF Execs
  <2>7. /\ task' \in Tasks /\ task'.generation = task.generation /\ task'.status = "RUNNING"
        /\ task'.status \in Live
    BY <1>1, <2>3 DEF Tasks, TaskStatus, Live
  <2>8. attempt[a].generation = task.generation
    BY <1>7 DEF Superseded
  <2>9. s.claimed => s.forecast # Nobody
    BY <1>1, <2>1, <2>2 DEF ItemOK, ItemTerminal
  <2>10. Knows(x, r) /\ \A b \in Attempt : Knows(exec[b][i], r)
    BY <1>1, <2>4, <2>5, <2>6, ZenonT(30) DEF ItemOK, Knows, KnowsForecast, KnowsTest, KnowsAdjustment
  <2>11. x.pc \notin {"recover"} \cup Over \cup {"idle"} /\ x.pc # "strategy"
    BY <2>4, <2>6 DEF Over
  <2> HIDE DEF x, r
  <2> QED BY <2>2, <2>3, <2>5, <2>6, <2>7, <2>8, <2>9, <2>10, <2>11, RowStep
<1> QED BY <1>3, <1>4, <1>5, <1>6, <1>7 DEF Start

\* An attempt that goes on with what it knows, at an item that stays as it is.
LEMMA GoStep ==
  ASSUME BacktestInv, NEW a \in Attempt, NEW i \in Item, NEW x \in Execs, Go(a, i, x),
         UNCHANGED <<task, item, forecasts>>, Internal,
         x.pc \notin {"recover", "strategy", "idle"} \cup Over, Knows(x, item[i])
  PROVE  BacktestInv'
<1>1. UNCHANGED <<mode, attempt, task, item, forecasts>> /\ exec' = [exec EXCEPT ![a][i] = x]
  BY DEF Internal, Go
<1> QED BY <1>1, MoveAtItem

LEMMA ClaimForecastStep ==
  ASSUME BacktestInv, NEW a \in Attempt, NEW i \in Item, ClaimForecast(a, i)
  PROVE  BacktestInv'
<1> DEFINE s == item[i]
<1>1. /\ s \in ItemRows /\ task \in Tasks /\ exec[a][i] \in Execs
      /\ ItemOK(s, Standing(i), forecasts[i], task, Generations)
      /\ \A b \in Attempt : Standing(i)[b] = exec[b][i]
  BY ItemParts
<1>2. UNCHANGED forecasts /\ Internal
  BY DEF ClaimForecast
<1>3. CASE ~Owner(a, i) /\ Refused(a, i, "refused")
  BY <1>2, <1>3, RefusedStep DEF Over, Owner
<1>4. CASE To(a, i, "failing") /\ UNCHANGED <<task, item>>
  BY <1>2, <1>4, ToStep
<1>5. CASE /\ Owner(a, i) /\ s.forecast # Nobody
           /\ Go(a, i, [exec[a][i] EXCEPT !.pc = "forecast known", !.forecast = s.forecast])
           /\ UNCHANGED <<task, item>>
  <2> DEFINE x == [exec[a][i] EXCEPT !.pc = "forecast known", !.forecast = s.forecast]
  <2>1. x \in Execs /\ x.pc = "forecast known" /\ x.forecast = s.forecast
    BY <1>1 DEF Execs, PCs, Checkpoints, ItemRows
  <2>2. Go(a, i, x)
    BY <1>5
  <2> HIDE DEF x
  <2>3. x.pc \notin {"recover", "strategy", "idle"} \cup Over /\ Knows(x, item[i])
    BY <1>5, <2>1 DEF Over, Knows, KnowsForecast, KnowsTest, KnowsAdjustment
  <2> QED BY <1>2, <1>5, <2>1, <2>2, <2>3, GoStep
<1>6. CASE /\ Owner(a, i) /\ s.forecast = Nobody /\ ~UnknownForecast(i)
           /\ item' = Set(i, [s EXCEPT !.status = "FORECASTING", !.claimed = TRUE])
           /\ To(a, i, "strategy") /\ UNCHANGED task
  <2> DEFINE r == [s EXCEPT !.status = "FORECASTING", !.claimed = TRUE]
             x == [exec[a][i] EXCEPT !.pc = "strategy"]
  <2>1. /\ item' = [item EXCEPT ![i] = r] /\ exec' = [exec EXCEPT ![a][i] = x]
        /\ task' = task /\ UNCHANGED <<mode, attempt, forecasts>> /\ s.token = a
    BY <1>2, <1>6 DEF Set, To, Go, Internal, Owner
  <2>2. /\ attempt[a].generation = task.generation /\ task.status \in Live
        /\ s.status \notin ItemTerminal
    BY <2>1, HeldParts
  <2>3. /\ r \in ItemRows /\ r.token = a /\ r.status = "FORECASTING" /\ r.claimed
        /\ r.forecast = s.forecast /\ r.test = s.test /\ r.adjustment = s.adjustment
        /\ r.forecast = Nobody
    BY <1>1, <1>6, <2>1 DEF ItemRows, ItemStatus
  <2>4. x \in Execs /\ x.pc = "strategy"
    BY <1>1 DEF Execs, PCs
  <2>5. ~s.claimed
    BY <1>1, <1>6, <2>2 DEF ItemOK, UnknownForecast, ItemTerminal
  <2>6. Knows(x, r) /\ \A b \in Attempt : Knows(exec[b][i], r)
    BY <1>1, <2>3, <2>4, ZenonT(30) DEF ItemOK, Knows, KnowsForecast, KnowsTest, KnowsAdjustment
  <2>7. x.pc \notin {"recover"} \cup Over \cup {"idle"} /\ r.status \notin ItemTerminal
    BY <2>3, <2>4 DEF Over, ItemTerminal
  <2> HIDE DEF x, r
  <2> QED BY <1>1, <2>1, <2>2, <2>3, <2>4, <2>5, <2>6, <2>7, RowStep
<1> QED BY <1>3, <1>4, <1>5, <1>6 DEF ClaimForecast

LEMMA RunStrategyStep ==
  ASSUME BacktestInv, NEW a \in Attempt, NEW i \in Item, RunStrategy(a, i)
  PROVE  BacktestInv'
<1> DEFINE s == item[i]
           e == Standing(i)
           n == forecasts[i]
           g == Generations
<1>1. /\ ItemOK(s, e, n, task, g) /\ exec[a][i] \in Execs /\ task \in Tasks
      /\ \A b \in Attempt : e[b] = exec[b][i]
  BY ItemParts
<1>2. PICK pc \in {"matched", "not matched", "failing"} : To(a, i, pc)
  BY DEF RunStrategy
<1> DEFINE x == [exec[a][i] EXCEPT !.pc = pc]
           f == [e EXCEPT ![a] = x]
<1>3. /\ exec[a][i].pc = "strategy" /\ forecasts' = [forecasts EXCEPT ![i] = n + 1]
      /\ exec' = [exec EXCEPT ![a][i] = x] /\ UNCHANGED <<task, item>>
      /\ mode' = mode /\ attempt' = attempt
  BY <1>2 DEF RunStrategy, At, To, Go, Internal
<1>4. x \in Execs /\ x.pc = pc
  BY <1>1 DEF Execs, PCs
<1> HIDE DEF x
<1>5. f \in [Attempt -> Execs] /\ \A b \in Attempt : f[b] = IF b = a THEN x ELSE e[b]
  BY <1>1, <1>4 DEF ItemOK
<1> HIDE DEF f, e, g, s, n
<1>6. ItemOK(s, f, n + 1, task, g)
  <2>1. n = 0 /\ s.claimed
    BY <1>1, <1>3 DEF ItemOK
  <2>2. \A b \in Attempt : f[b].pc # "strategy"
    BY <1>1, <1>3, <1>4, <1>5, ZenonT(30) DEF ItemOK
  <2>3. \A b \in Attempt : f[b].pc = "recover" => s.token # b
    BY <1>1, <1>4, <1>5 DEF ItemOK
  <2>4. \A b \in Attempt : Knows(f[b], s)
    <3>1. Knows(x, s)
      BY <1>4 DEF Knows, KnowsForecast, KnowsTest, KnowsAdjustment
    <3>2. \A b \in Attempt : Knows(e[b], s)
      BY <1>1 DEF ItemOK
    <3> QED BY <1>5, <3>1, <3>2
  <2>5. s.token # Nobody => f[s.token].pc \notin Over \cup {"idle"}
    <3> SUFFICES ASSUME s.token # Nobody PROVE f[s.token].pc \notin Over \cup {"idle"}
      OBVIOUS
    <3>1. s.token \in Attempt /\ e[s.token].pc \notin Over \cup {"idle"}
      BY <1>1, TokenNumbers DEF ItemOK, ItemRows, Tokens
    <3> QED BY <1>4, <1>5, <3>1 DEF Over
  <2>6. n + 1 \in Nat /\ n + 1 <= 1 /\ (~s.claimed => n + 1 = 0)
    <3>1. n = 0
      BY <2>1
    <3>2. n + 1 \in Nat /\ n + 1 <= 1
      BY <3>1, OneMore
    <3>3. ~s.claimed => n + 1 = 0
      BY <2>1, Zenon
    <3> QED BY <3>2, <3>3
  <2>7. s \in ItemRows /\ f \in [Attempt -> Execs]
        /\ (s.token # Nobody => /\ g[s.token] = task.generation /\ task.status \in Live
                                /\ s.status \notin ItemTerminal)
        /\ (s.claimed /\ s.forecast = Nobody =>
               s.status \in {"FORECASTING", "FAILED", "SKIPPED", "CANCELED"})
        /\ (s.status = "FORECASTING" => s.forecast = Nobody)
        /\ (s.status = "SUCCEEDED" =>
               s.result = [forecast |-> s.forecast, test |-> s.test, adjustment |-> s.adjustment])
    BY <1>1, <1>5 DEF ItemOK
  <2> QED BY <2>2, <2>3, <2>4, <2>5, <2>6, <2>7 DEF ItemOK
<1>7. item' = [item EXCEPT ![i] = s] /\ TaskOK(task'.status, item', Item)
  BY <1>3 DEF BacktestInv, s
<1>8. \A j \in Item : item[j].token # Nobody => task'.status \in Live
  BY <1>3, Unheld
<1>9. AtItem(a, i, x, s, n + 1)
  BY <1>1, <1>3, <1>6, <1>7, <1>8 DEF AtItem, f, e, g
<1> QED BY <1>9, StepAtItem

LEMMA FreezeForecastStep ==
  ASSUME BacktestInv, NEW a \in Attempt, NEW i \in Item, FreezeForecast(a, i)
  PROVE  BacktestInv'
<1> DEFINE s == item[i]
<1>1. /\ s \in ItemRows /\ task \in Tasks /\ exec[a][i] \in Execs
      /\ ItemOK(s, Standing(i), forecasts[i], task, Generations)
      /\ \A b \in Attempt : Standing(i)[b] = exec[b][i]
  BY ItemParts
<1>2. UNCHANGED forecasts /\ Internal
  BY DEF FreezeForecast
<1>3. CASE ~Owner(a, i) /\ Refused(a, i, "refused")
  BY <1>2, <1>3, RefusedStep DEF Over, Owner
<1>4. CASE /\ Owner(a, i) /\ s.status = "FORECASTING"
           /\ item' = Set(i, [s EXCEPT !.status = "FROZEN", !.forecast = a])
           /\ Go(a, i, [exec[a][i] EXCEPT !.pc = "forecast known", !.forecast = a])
           /\ UNCHANGED task
  <2> DEFINE r == [s EXCEPT !.status = "FROZEN", !.forecast = a]
             x == [exec[a][i] EXCEPT !.pc = "forecast known", !.forecast = a]
  <2>1. /\ item' = [item EXCEPT ![i] = r] /\ exec' = [exec EXCEPT ![a][i] = x]
        /\ task' = task /\ UNCHANGED <<mode, attempt, forecasts>> /\ s.token = a
    BY <1>2, <1>4 DEF Set, Go, Internal, Owner
  <2>2. attempt[a].generation = task.generation /\ task.status \in Live
    BY <2>1, HeldParts
  <2>3. /\ r \in ItemRows /\ r.token = a /\ r.status = "FROZEN" /\ r.claimed = s.claimed
        /\ r.forecast = a /\ r.forecast # Nobody
    BY <1>1, <2>1, TokenNumbers DEF ItemRows, ItemStatus
  <2>4. x \in Execs /\ x.pc = "forecast known" /\ x.forecast = a
    BY <1>1, TokenNumbers DEF Execs, PCs, Checkpoints
  <2>5. s.forecast = Nobody
    BY <1>1, <1>4 DEF ItemOK
  <2>6. Knows(x, r)
    BY <2>3, <2>4 DEF Knows, KnowsForecast, KnowsTest, KnowsAdjustment
  <2>7. \A b \in Attempt : Knows(exec[b][i], r)
    BY <1>1, <2>5, ZenonT(30) DEF ItemOK, Knows, KnowsForecast, KnowsTest, KnowsAdjustment
  <2>8. x.pc \notin {"recover"} \cup Over \cup {"idle"} /\ r.status \notin ItemTerminal
        /\ x.pc # "strategy"
    BY <2>3, <2>4 DEF Over, ItemTerminal
  <2> HIDE DEF x, r
  <2> QED BY <1>1, <2>1, <2>2, <2>3, <2>4, <2>6, <2>7, <2>8, RowStep
<1> QED BY <1>3, <1>4 DEF FreezeForecast

LEMMA ClaimSimulationStep ==
  ASSUME BacktestInv, NEW a \in Attempt, NEW i \in Item, NEW v \in Versions,
         ClaimSimulation(a, i, v)
  PROVE  BacktestInv'
<1> DEFINE s == item[i]
<1>1. /\ s \in ItemRows /\ task \in Tasks /\ exec[a][i] \in Execs /\ Knows(exec[a][i], s)
      /\ ItemOK(s, Standing(i), forecasts[i], task, Generations)
      /\ \A b \in Attempt : Standing(i)[b] = exec[b][i]
  BY ItemParts DEF ItemOK
<1>2. UNCHANGED forecasts /\ Internal /\ exec[a][i].pc = "test"
  BY DEF ClaimSimulation, At
<1>3. CASE ~Owner(a, i) /\ Refused(a, i, "refused")
  BY <1>2, <1>3, RefusedStep DEF Over, Owner
<1>4. CASE To(a, i, "failing") /\ UNCHANGED <<task, item>>
  BY <1>2, <1>4, ToStep
<1>5. CASE /\ Owner(a, i) /\ FrozenTest(i, v)
           /\ item' = Set(i, [s EXCEPT !.status = "SIMULATING",
                                       !.test = IF @ = Nobody THEN v ELSE @])
           /\ Go(a, i, [exec[a][i] EXCEPT !.pc = "test known", !.test = v])
           /\ UNCHANGED task
  <2> DEFINE r == [s EXCEPT !.status = "SIMULATING", !.test = v]
             x == [exec[a][i] EXCEPT !.pc = "test known", !.test = v]
  <2>1. v # Nobody /\ s.test \in {Nobody, v} /\ v \in Tests
    BY <1>5, BacktestsAssumption DEF FrozenTest, Nobody, Tests
  <2>2. [s EXCEPT !.status = "SIMULATING", !.test = IF @ = Nobody THEN v ELSE @] = r
    BY <1>1, <2>1 DEF ItemRows
  <2>3. /\ item' = [item EXCEPT ![i] = r] /\ exec' = [exec EXCEPT ![a][i] = x]
        /\ task' = task /\ UNCHANGED <<mode, attempt, forecasts>> /\ s.token = a
    BY <1>2, <1>5, <2>2 DEF Set, Go, Internal, Owner
  <2>4. attempt[a].generation = task.generation /\ task.status \in Live
    BY <2>3, HeldParts
  <2>5. /\ r \in ItemRows /\ r.token = a /\ r.status = "SIMULATING" /\ r.claimed = s.claimed
        /\ r.forecast = s.forecast /\ r.test = v /\ r.adjustment = s.adjustment
    BY <1>1, <2>1, <2>3 DEF ItemRows, ItemStatus
  <2>6. /\ x \in Execs /\ x.pc = "test known" /\ x.test = v /\ x.forecast = exec[a][i].forecast
    BY <1>1, <2>1 DEF Execs, PCs, Checkpoints
  <2>7. s.forecast # Nobody /\ exec[a][i].forecast = s.forecast
    BY <1>1, <1>2 DEF Knows, KnowsForecast
  <2>8. Knows(x, r)
    BY <2>1, <2>5, <2>6, <2>7 DEF Knows, KnowsForecast, KnowsTest, KnowsAdjustment
  <2>9. \A b \in Attempt : Knows(exec[b][i], r)
    BY <1>1, <2>1, <2>5 DEF ItemOK, Knows
  <2>10. x.pc \notin {"recover"} \cup Over \cup {"idle"} /\ r.status \notin ItemTerminal
         /\ x.pc # "strategy"
    BY <2>5, <2>6 DEF Over, ItemTerminal
  <2> HIDE DEF x, r
  <2> QED BY <1>1, <2>3, <2>4, <2>5, <2>6, <2>7, <2>8, <2>9, <2>10, RowStep
<1> QED BY <1>3, <1>4, <1>5 DEF ClaimSimulation

LEMMA FreezeAdjustmentStep ==
  ASSUME BacktestInv, NEW a \in Attempt, NEW i \in Item, FreezeAdjustment(a, i)
  PROVE  BacktestInv'
<1> DEFINE s == item[i]
<1>1. /\ s \in ItemRows /\ task \in Tasks /\ exec[a][i] \in Execs /\ Knows(exec[a][i], s)
      /\ ItemOK(s, Standing(i), forecasts[i], task, Generations)
      /\ \A b \in Attempt : Standing(i)[b] = exec[b][i]
  BY ItemParts DEF ItemOK
<1>2. UNCHANGED forecasts /\ Internal /\ exec[a][i].pc = "adjustment"
  BY DEF FreezeAdjustment, At
<1>3. CASE ~Owner(a, i) /\ Refused(a, i, "refused")
  BY <1>2, <1>3, RefusedStep DEF Over, Owner
<1>4. CASE To(a, i, "failing") /\ UNCHANGED <<task, item>>
  BY <1>2, <1>4, ToStep
<1>5. CASE /\ Owner(a, i) /\ s.adjustment = Nobody
           /\ item' = Set(i, [s EXCEPT !.adjustment = a])
           /\ Go(a, i, [exec[a][i] EXCEPT !.pc = "adjustment known", !.adjustment = a])
           /\ UNCHANGED task
  <2> DEFINE r == [s EXCEPT !.adjustment = a]
             x == [exec[a][i] EXCEPT !.pc = "adjustment known", !.adjustment = a]
  <2>1. /\ item' = [item EXCEPT ![i] = r] /\ exec' = [exec EXCEPT ![a][i] = x]
        /\ task' = task /\ UNCHANGED <<mode, attempt, forecasts>> /\ s.token = a
    BY <1>2, <1>5 DEF Set, Go, Internal, Owner
  <2>2. attempt[a].generation = task.generation /\ task.status \in Live /\ s.status \notin ItemTerminal
    BY <2>1, HeldParts
  <2>3. /\ r \in ItemRows /\ r.token = a /\ r.status = s.status /\ r.claimed = s.claimed
        /\ r.forecast = s.forecast /\ r.test = s.test /\ r.adjustment = a /\ a # Nobody
    BY <1>1, <2>1, TokenNumbers DEF ItemRows
  <2>4. /\ x \in Execs /\ x.pc = "adjustment known" /\ x.adjustment = a
        /\ x.forecast = exec[a][i].forecast /\ x.test = exec[a][i].test
    BY <1>1, TokenNumbers DEF Execs, PCs, Checkpoints
  <2>5. Knows(x, r)
    BY <1>1, <1>2, <2>3, <2>4 DEF Knows, KnowsForecast, KnowsTest, KnowsAdjustment
  <2>6. \A b \in Attempt : Knows(exec[b][i], r)
    BY <1>1, <1>5, <2>3 DEF ItemOK, Knows
  <2>7. /\ r.claimed /\ r.forecast = Nobody => r.status = "FORECASTING"
        /\ r.status = "FORECASTING" => r.forecast = Nobody
    BY <1>1, <2>2, <2>3 DEF ItemOK, ItemTerminal
  <2>8. x.pc \notin {"recover"} \cup Over \cup {"idle"} /\ x.pc # "strategy"
    BY <2>4 DEF Over
  <2> HIDE DEF x, r
  <2> QED BY <1>1, <2>1, <2>2, <2>3, <2>4, <2>5, <2>6, <2>7, <2>8, RowStep
<1> QED BY <1>3, <1>4, <1>5 DEF FreezeAdjustment

-----------------------------------------------------------------------------
(* An attempt that lets go of its item.                                     *)

\* What was frozen stays, and the attempt is through with the item, or goes on
\* without it with what it knows.
Left(a, i, r, x) ==
  /\ UNCHANGED <<mode, attempt, forecasts>>
  /\ exec' = [exec EXCEPT ![a][i] = x] /\ item' = [item EXCEPT ![i] = r]
  /\ x \in Execs /\ x.pc \notin {"recover", "strategy"} /\ Knows(x, r)
  /\ r \in ItemRows /\ r.token = Nobody
  /\ r.claimed = item[i].claimed /\ r.forecast = item[i].forecast
  /\ r.test = item[i].test /\ r.adjustment = item[i].adjustment
  /\ r.claimed /\ r.forecast = Nobody =>
       r.status \in {"FORECASTING", "FAILED", "SKIPPED", "CANCELED"}
  /\ r.status = "FORECASTING" => r.forecast = Nobody
  /\ r.status = "SUCCEEDED" =>
       r.result = [forecast |-> r.forecast, test |-> r.test, adjustment |-> r.adjustment]

LEMMA EndedKnows ==
  ASSUME NEW r, NEW pc \in Over
  PROVE  /\ Ended(pc) \in Execs /\ Ended(pc).pc \notin {"recover", "strategy"}
         /\ Knows(Ended(pc), r)
<1>1. Ended(pc) \in Execs /\ Ended(pc).pc = pc
  BY EndedExecs
<1> QED BY <1>1 DEF Over, Knows, KnowsForecast, KnowsTest, KnowsAdjustment

LEMMA LeaveStep ==
  ASSUME BacktestInv, NEW a \in Attempt, NEW i \in Item, NEW r, NEW x,
         Left(a, i, r, x), task' \in Tasks, task'.generation = task.generation,
         \A j \in Item : j # i /\ item[j].token # Nobody => task'.status \in Live,
         TaskOK(task'.status, item', Item)
  PROVE  BacktestInv'
<1> DEFINE e == Standing(i)
           f == [e EXCEPT ![a] = x]
           n == forecasts[i]
           g == Generations
           s == item[i]
<1>1. ItemOK(s, e, n, task, g) /\ \A b \in Attempt : e[b] = exec[b][i]
  BY ItemParts
<1>2. x \in Execs /\ x.pc \notin {"recover", "strategy"} /\ Knows(x, r)
  BY DEF Left
<1>3. f \in [Attempt -> Execs] /\ \A b \in Attempt : f[b] = IF b = a THEN x ELSE e[b]
  BY <1>1, <1>2 DEF ItemOK
<1>4. forecasts' = [forecasts EXCEPT ![i] = n] /\ Left(a, i, r, x)
      /\ item' = [item EXCEPT ![i] = r] /\ exec' = [exec EXCEPT ![a][i] = x]
      /\ mode' = mode /\ attempt' = attempt
  BY DEF BacktestInv, Left
<1>5. /\ r \in ItemRows /\ r.token = Nobody /\ r.claimed = s.claimed /\ r.forecast = s.forecast
      /\ r.test = s.test /\ r.adjustment = s.adjustment
      /\ r.claimed /\ r.forecast = Nobody =>
           r.status \in {"FORECASTING", "FAILED", "SKIPPED", "CANCELED"}
      /\ r.status = "FORECASTING" => r.forecast = Nobody
      /\ r.status = "SUCCEEDED" =>
           r.result = [forecast |-> r.forecast, test |-> r.test, adjustment |-> r.adjustment]
  BY <1>4 DEF Left
<1> HIDE DEF f, e, n, g, s
<1>6. ItemOK(r, f, n, task', g)
  <2>1. n \in Nat /\ n <= 1 /\ (~r.claimed => n = 0)
    BY <1>1, <1>5 DEF ItemOK
  <2>2. \A b \in Attempt : f[b].pc = "recover" => r.token # b
    BY <1>5, TokenNumbers
  <2>3. \A b \in Attempt : f[b].pc = "strategy" => n = 0 /\ r.claimed
    BY <1>1, <1>2, <1>3, <1>5 DEF ItemOK
  <2>4. \A b, c \in Attempt : f[b].pc = "strategy" /\ f[c].pc = "strategy" => b = c
    BY <1>1, <1>2, <1>3 DEF ItemOK
  <2>5. \A b \in Attempt : Knows(f[b], r)
    <3>1. \A b \in Attempt : Knows(e[b], r)
      BY <1>1, <1>5 DEF ItemOK, Knows
    <3> QED BY <1>2, <1>3, <3>1
  <2> QED BY <1>3, <1>5, <2>1, <2>2, <2>3, <2>4, <2>5 DEF ItemOK
<1>7. ItemOK(r, [Standing(i) EXCEPT ![a] = x], n, task', Generations)
  BY <1>6 DEF f, e, g
<1>8. AtItem(a, i, x, r, n)
  BY <1>4, <1>7 DEF AtItem
<1> QED BY <1>8, StepAtItem

\* The item is over, and its parent follows.
LEMMA FinishStep ==
  ASSUME BacktestInv, NEW a \in Attempt, NEW i \in Item, NEW r, NEW x, Left(a, i, r, x),
         Status(Outcome(item'))
  PROVE  BacktestInv'
<1> DEFINE more == [item EXCEPT ![i] = r]
           out == Outcome(more)
<1>1. /\ item' = more /\ task' = [task EXCEPT !.status = out] /\ r \in ItemRows
      /\ task \in Tasks /\ item = [j \in Item |-> item[j]]
  BY DEF Left, Status, BacktestInv
<1>2. \A j \in Item : more[j] = IF j = i THEN r ELSE item[j]
  BY <1>1
<1>3. \A j \in Item : more[j].status \in ItemStatus
  BY <1>1, <1>2, ItemParts DEF ItemRows
<1> HIDE DEF more
<1>4. /\ out \in {"RUNNING", "SUCCEEDED", "PARTIAL", "FAILED"} /\ TaskOK(out, more, Item)
      /\ (\E j \in Item : more[j].status \notin ItemTerminal) => out = "RUNNING"
  BY <1>3, OutcomeOK
<1> HIDE DEF out
<1>5. task' \in Tasks /\ task'.status = out /\ task'.generation = task.generation
  BY <1>1, <1>4 DEF Tasks, TaskStatus
<1>6. ASSUME NEW j \in Item, j # i, item[j].token # Nobody PROVE task'.status \in Live
  <2>1. item[j].status \notin ItemTerminal
    BY <1>6, ItemParts DEF ItemOK
  <2> QED BY <1>2, <1>4, <1>5, <1>6, <2>1 DEF Live
<1>7. TaskOK(task'.status, item', Item)
  BY <1>1, <1>4, <1>5
<1> QED BY <1>5, <1>6, <1>7, LeaveStep

LEMMA SkipNotMatchedStep ==
  ASSUME BacktestInv, NEW a \in Attempt, NEW i \in Item, SkipNotMatched(a, i)
  PROVE  BacktestInv'
<1> DEFINE s == item[i]
<1>1. s \in ItemRows
  BY ItemParts
<1>2. UNCHANGED forecasts /\ Internal
  BY DEF SkipNotMatched
<1>3. CASE ~Owner(a, i) /\ Refused(a, i, "refused")
  BY <1>2, <1>3, RefusedStep DEF Over, Owner
<1>4. CASE /\ Owner(a, i) /\ s.status = "FORECASTING"
           /\ Finish(i, Released(s, "SKIPPED")) /\ Ends(a, i, "done")
  <2> DEFINE r == Released(s, "SKIPPED")
  <2>1. /\ r \in ItemRows /\ r.token = Nobody /\ r.status = "SKIPPED" /\ r.claimed = s.claimed
        /\ r.forecast = s.forecast /\ r.test = s.test /\ r.adjustment = s.adjustment
    BY <1>1, TokenNumbers DEF Released, ItemRows, ItemStatus
  <2>2. /\ UNCHANGED <<mode, attempt, forecasts>> /\ item' = [item EXCEPT ![i] = r]
        /\ exec' = [exec EXCEPT ![a][i] = Ended("done")] /\ Status(Outcome(item'))
    BY <1>2, <1>4 DEF Internal, Finish, Set, Ends, Go
  <2> HIDE DEF r
  <2>3. Left(a, i, r, Ended("done"))
    BY <2>1, <2>2, EndedKnows DEF Left, Over
  <2> QED BY <2>2, <2>3, FinishStep DEF Over
<1> QED BY <1>3, <1>4 DEF SkipNotMatched

LEMMA FailStep ==
  ASSUME BacktestInv, NEW a \in Attempt, NEW i \in Item, Fail(a, i)
  PROVE  BacktestInv'
<1> DEFINE s == item[i]
<1>1. s \in ItemRows
  BY ItemParts
<1>2. UNCHANGED forecasts /\ Internal /\ Ends(a, i, "raised")
  BY DEF Fail
<1>3. CASE UNCHANGED <<task, item>> /\ item[i].token # a
  BY <1>2, <1>3, RefusedStep DEF Over, Refused
<1>4. CASE Owner(a, i) /\ Finish(i, Released(s, "FAILED"))
  <2> DEFINE r == Released(s, "FAILED")
  <2>1. /\ r \in ItemRows /\ r.token = Nobody /\ r.status = "FAILED" /\ r.claimed = s.claimed
        /\ r.forecast = s.forecast /\ r.test = s.test /\ r.adjustment = s.adjustment
    BY <1>1, TokenNumbers DEF Released, ItemRows, ItemStatus
  <2>2. /\ UNCHANGED <<mode, attempt, forecasts>> /\ item' = [item EXCEPT ![i] = r]
        /\ exec' = [exec EXCEPT ![a][i] = Ended("raised")] /\ Status(Outcome(item'))
    BY <1>2, <1>4 DEF Internal, Finish, Set, Ends, Go
  <2> HIDE DEF r
  <2>3. Left(a, i, r, Ended("raised"))
    BY <2>1, <2>2, EndedKnows DEF Left, Over
  <2> QED BY <2>2, <2>3, FinishStep DEF Over
<1>5. Owner(a, i) => item[i].status \notin ItemTerminal
  BY HeldParts DEF Owner
<1> QED BY <1>3, <1>4, <1>5 DEF Fail, Owner

\* _pause_item: the last of the items that are held pauses the task.
LEMMA PauseItemStep ==
  ASSUME BacktestInv, NEW a \in Attempt, NEW i \in Item, Owner(a, i), task.status = "PAUSING",
         PauseItem(i), NEW x \in Execs, Knows(x, item[i]), x.pc \notin {"recover", "strategy"},
         Go(a, i, x), UNCHANGED forecasts, Internal
  PROVE  BacktestInv'
<1> DEFINE s == item[i]
           r == [s EXCEPT !.token = Nobody]
           more == [item EXCEPT ![i] = r]
<1>1. /\ s \in ItemRows /\ task \in Tasks /\ ItemOK(s, Standing(i), forecasts[i], task, Generations)
      /\ item = [j \in Item |-> item[j]]
  BY ItemParts DEF BacktestInv
<1>2. /\ UNCHANGED <<mode, attempt, forecasts>> /\ item' = more
      /\ exec' = [exec EXCEPT ![a][i] = x]
  BY DEF PauseItem, Set, Internal, Go
<1>3. /\ r \in ItemRows /\ r.token = Nobody /\ r.status = s.status /\ r.claimed = s.claimed
      /\ r.forecast = s.forecast /\ r.test = s.test /\ r.adjustment = s.adjustment
      /\ r.result = s.result
  BY <1>1, TokenNumbers DEF ItemRows
<1>4. \A j \in Item : more[j] = IF j = i THEN r ELSE item[j]
  BY <1>1
<1> HIDE DEF r
<1>5. Left(a, i, r, x)
  BY <1>1, <1>2, <1>3 DEF Left, ItemOK, Knows
<1> HIDE DEF more
<1>6. CASE Held(item') = {}
  <2>1. task' = [task EXCEPT !.status = "PAUSED"]
    BY <1>6 DEF PauseItem, Status
  <2>2. task' \in Tasks /\ task'.generation = task.generation /\ task'.status = "PAUSED"
    BY <1>1, <2>1 DEF Tasks, TaskStatus
  <2>3. \A j \in Item : j # i => item[j].token = Nobody
    BY <1>2, <1>4, <1>6 DEF Held
  <2>4. TaskOK(task'.status, item', Item)
    BY <2>2 DEF TaskOK, TaskTerminal
  <2> QED BY <1>5, <2>2, <2>3, <2>4, LeaveStep
<1>7. CASE Held(item') # {} /\ task' = task
  <2>1. \E j \in Item : item'[j].token # Nobody
    BY <1>7 DEF Held
  <2>2. task' \in Tasks /\ task'.generation = task.generation /\ task'.status = "PAUSING"
    BY <1>1, <1>7
  <2>3. TaskOK(task'.status, item', Item)
    BY <2>1, <2>2 DEF TaskOK, TaskTerminal
  <2>4. task'.status \in Live
    BY <2>2 DEF Live
  <2> QED BY <1>5, <2>2, <2>3, <2>4, LeaveStep
<1> QED BY <1>6, <1>7 DEF PauseItem

\* _cancel_item: the last of the items that are unfinished cancels the task.
LEMMA CancelItemStep ==
  ASSUME BacktestInv, NEW a \in Attempt, NEW i \in Item, Owner(a, i), task.status = "CANCELING",
         CancelItem(i), NEW x \in Execs, Knows(x, item[i]), x.pc \notin {"recover", "strategy"},
         Go(a, i, x), UNCHANGED forecasts, Internal
  PROVE  BacktestInv'
<1> DEFINE s == item[i]
           r == Released(s, "CANCELED")
           more == [item EXCEPT ![i] = r]
<1>1. /\ s \in ItemRows /\ task \in Tasks /\ item = [j \in Item |-> item[j]]
      /\ TaskOK(task.status, item, Item)
  BY ItemParts DEF BacktestInv
<1>2. /\ UNCHANGED <<mode, attempt, forecasts>> /\ item' = more
      /\ exec' = [exec EXCEPT ![a][i] = x]
  BY DEF CancelItem, Set, Internal, Go
<1>3. /\ r \in ItemRows /\ r.token = Nobody /\ r.status = "CANCELED" /\ r.claimed = s.claimed
      /\ r.forecast = s.forecast /\ r.test = s.test /\ r.adjustment = s.adjustment
  BY <1>1, TokenNumbers DEF ItemRows, Released, ItemStatus
<1>4. \A j \in Item : more[j] = IF j = i THEN r ELSE item[j]
  BY <1>1
<1> HIDE DEF r
<1>5. Left(a, i, r, x)
  BY <1>2, <1>3 DEF Left, Knows
<1> HIDE DEF more
<1>6. CASE Unfinished(item') = {}
  <2>1. task' = [task EXCEPT !.status = "CANCELED"]
    BY <1>6 DEF CancelItem, Status
  <2>2. task' \in Tasks /\ task'.generation = task.generation /\ task'.status = "CANCELED"
    BY <1>1, <2>1 DEF Tasks, TaskStatus
  <2>3. \A j \in Item : item'[j].status \in ItemTerminal
    BY <1>6 DEF Unfinished
  <2>4. \A j \in Item : j # i => item[j].token = Nobody
    <3> SUFFICES ASSUME NEW j \in Item, j # i PROVE item[j].token = Nobody
      OBVIOUS
    <3>1. item[j].status \in ItemTerminal
      BY <1>2, <1>4, <2>3
    <3> QED BY <3>1, ItemParts DEF ItemOK
  <2>5. TaskOK(task'.status, item', Item)
    BY <2>2, <2>3 DEF TaskOK, TaskTerminal
  <2> QED BY <1>5, <2>2, <2>4, <2>5, LeaveStep
<1>7. CASE Unfinished(item') # {} /\ task' = task
  <2>1. PICK j \in Item : item'[j].status \notin ItemTerminal
    BY <1>7 DEF Unfinished
  <2>2. j # i /\ item'[j] = item[j]
    BY <1>2, <1>3, <1>4, <2>1 DEF ItemTerminal
  <2>3. item'[j].token # Nobody
    BY <1>1, <2>1, <2>2 DEF TaskOK
  <2>4. \A k \in Item : item'[k].status \in ItemTerminal \/ item'[k].token # Nobody
    BY <1>1, <1>2, <1>3, <1>4 DEF TaskOK, ItemTerminal
  <2>5. task' \in Tasks /\ task'.generation = task.generation /\ task'.status = "CANCELING"
    BY <1>1, <1>7
  <2>6. TaskOK(task'.status, item', Item)
    BY <2>3, <2>4, <2>5 DEF TaskOK, TaskTerminal
  <2>7. task'.status \in Live
    BY <2>5 DEF Live
  <2> QED BY <1>5, <2>5, <2>6, <2>7, LeaveStep
<1> QED BY <1>6, <1>7 DEF CancelItem

LEMMA SaveSuccessStep ==
  ASSUME BacktestInv, NEW a \in Attempt, NEW i \in Item, SaveSuccess(a, i)
  PROVE  BacktestInv'
<1> DEFINE s == item[i]
           x == exec[a][i]
<1>1. /\ s \in ItemRows /\ x \in Execs /\ Knows(x, s)
  BY ItemParts DEF ItemOK
<1>2. UNCHANGED forecasts /\ Internal /\ x.pc = "save"
  BY DEF SaveSuccess, At
<1>3. CASE ~Owner(a, i) /\ Refused(a, i, "refused")
  BY <1>2, <1>3, RefusedStep DEF Over, Owner
<1>4. CASE Owner(a, i) /\ task.status = "PAUSING" /\ PauseItem(i) /\ Ends(a, i, "done")
  <2>1. Ended("done") \in Execs /\ Knows(Ended("done"), item[i])
        /\ Ended("done").pc \notin {"recover", "strategy"}
    BY EndedKnows DEF Over
  <2> QED BY <1>2, <1>4, <2>1, PauseItemStep DEF Ends
<1>5. CASE Owner(a, i) /\ task.status = "CANCELING" /\ CancelItem(i) /\ Ends(a, i, "done")
  <2>1. Ended("done") \in Execs /\ Knows(Ended("done"), item[i])
        /\ Ended("done").pc \notin {"recover", "strategy"}
    BY EndedKnows DEF Over
  <2> QED BY <1>2, <1>5, <2>1, CancelItemStep DEF Ends
<1> DEFINE result == [forecast |-> x.forecast, test |-> x.test, adjustment |-> x.adjustment]
<1>6. CASE /\ Owner(a, i) /\ s.status = "SIMULATING"
           /\ Finish(i, [Released(s, "SUCCEEDED") EXCEPT !.result = result]) /\ Ends(a, i, "done")
  <2> DEFINE r == [Released(s, "SUCCEEDED") EXCEPT !.result = result]
  <2>1. result \in Results
    BY <1>1 DEF Execs, Results
  <2>2. x.forecast = s.forecast /\ x.test = s.test /\ x.adjustment = s.adjustment
        /\ s.forecast # Nobody
    BY <1>1, <1>2 DEF Knows, KnowsForecast, KnowsTest, KnowsAdjustment
  <2>3. result = [forecast |-> s.forecast, test |-> s.test, adjustment |-> s.adjustment]
    BY <2>2
  <2> HIDE DEF result
  <2>4. /\ r \in ItemRows /\ r.token = Nobody /\ r.status = "SUCCEEDED" /\ r.claimed = s.claimed
        /\ r.forecast = s.forecast /\ r.test = s.test /\ r.adjustment = s.adjustment
        /\ r.result = result
    BY <1>1, <2>1, TokenNumbers DEF Released, ItemRows, ItemStatus
  <2>5. /\ UNCHANGED <<mode, attempt, forecasts>> /\ item' = [item EXCEPT ![i] = r]
        /\ exec' = [exec EXCEPT ![a][i] = Ended("done")] /\ Status(Outcome(item'))
    BY <1>2, <1>6 DEF Internal, Finish, Set, Ends, Go
  <2> HIDE DEF r, x
  <2>6. Left(a, i, r, Ended("done"))
    BY <2>2, <2>3, <2>4, <2>5, EndedKnows DEF Left, Over
  <2> QED BY <2>5, <2>6, FinishStep DEF Over
<1> QED BY <1>3, <1>4, <1>5, <1>6 DEF SaveSuccess

\* What is read after a checkpoint is what has been frozen.
LEMMA AfterKnows ==
  ASSUME BacktestInv, NEW a \in Attempt, NEW i \in Item, exec[a][i].pc \in Checkpoints
  PROVE  /\ After(a, i) \in Execs /\ Knows(After(a, i), item[i])
         /\ After(a, i).pc \in {"test", "adjustment", "simulated", "save"}
<1> DEFINE s == item[i]
           x == exec[a][i]
<1>1. s \in ItemRows /\ x \in Execs /\ Knows(x, s)
  BY ItemParts DEF ItemOK
<1>2. /\ "test" \in PCs /\ "adjustment" \in PCs /\ "simulated" \in PCs /\ "save" \in PCs
  BY DEF PCs, Checkpoints
<1>3. CASE x.pc = "forecast known"
  <2>1. After(a, i) = [x EXCEPT !.pc = "test"]
    BY <1>3 DEF After
  <2>2. [x EXCEPT !.pc = "test"] \in Execs /\ [x EXCEPT !.pc = "test"].pc = "test"
        /\ [x EXCEPT !.pc = "test"].forecast = x.forecast
    BY <1>1, <1>2 DEF Execs
  <2> QED BY <1>1, <1>3, <2>1, <2>2 DEF Knows, KnowsForecast, KnowsTest, KnowsAdjustment
<1>4. CASE x.pc = "test known" /\ s.adjustment = Nobody
  <2> DEFINE y == [x EXCEPT !.pc = "adjustment"]
  <2>1. After(a, i) = y
    BY <1>4 DEF After
  <2>2. y \in Execs /\ y.pc = "adjustment" /\ y.forecast = x.forecast /\ y.test = x.test
    BY <1>1, <1>2 DEF Execs
  <2> QED BY <1>1, <1>4, <2>1, <2>2 DEF Knows, KnowsForecast, KnowsTest, KnowsAdjustment
<1>5. CASE x.pc = "test known" /\ s.adjustment # Nobody
  <2> DEFINE y == [x EXCEPT !.pc = "simulated", !.adjustment = s.adjustment]
  <2>1. After(a, i) = y
    BY <1>5 DEF After
  <2>2. y \in Execs /\ y.pc = "simulated" /\ y.forecast = x.forecast /\ y.test = x.test
        /\ y.adjustment = s.adjustment
    BY <1>1, <1>2 DEF Execs, ItemRows
  <2> QED BY <1>1, <1>5, <2>1, <2>2 DEF Knows, KnowsForecast, KnowsTest, KnowsAdjustment
<1>6. CASE x.pc = "adjustment known"
  <2> DEFINE y == [x EXCEPT !.pc = "simulated"]
  <2>1. After(a, i) = y
    BY <1>6 DEF After
  <2>2. y \in Execs /\ y.pc = "simulated" /\ y.forecast = x.forecast /\ y.test = x.test
        /\ y.adjustment = x.adjustment
    BY <1>1, <1>2 DEF Execs
  <2> QED BY <1>1, <1>6, <2>1, <2>2 DEF Knows, KnowsForecast, KnowsTest, KnowsAdjustment
<1>7. CASE x.pc = "simulated"
  <2> DEFINE y == [x EXCEPT !.pc = "save"]
  <2>1. After(a, i) = y
    BY <1>7 DEF After
  <2>2. y \in Execs /\ y.pc = "save" /\ y.forecast = x.forecast /\ y.test = x.test
        /\ y.adjustment = x.adjustment
    BY <1>1, <1>2 DEF Execs
  <2> QED BY <1>1, <1>7, <2>1, <2>2 DEF Knows, KnowsForecast, KnowsTest, KnowsAdjustment
<1> QED BY <1>3, <1>4, <1>5, <1>6, <1>7 DEF Checkpoints

LEMMA CheckpointStep ==
  ASSUME BacktestInv, NEW a \in Attempt, NEW i \in Item, Checkpoint(a, i)
  PROVE  BacktestInv'
<1>1. UNCHANGED forecasts /\ Internal /\ exec[a][i].pc \in Checkpoints
  BY DEF Checkpoint
<1>2. CASE Superseded(a) /\ Refused(a, i, "superseded")
  <2>1. item[i].token # a
    BY <1>2, HeldParts DEF Superseded
  <2> QED BY <1>1, <1>2, <2>1, RefusedStep DEF Over
<1>3. CASE ~Owner(a, i) /\ Refused(a, i, "refused")
  BY <1>1, <1>3, RefusedStep DEF Over, Owner
<1>4. CASE /\ Owner(a, i)
           /\ CASE task.status = "PAUSING" -> PauseItem(i)
                [] task.status = "CANCELING" -> CancelItem(i)
                [] OTHER -> UNCHANGED <<task, item>>
           /\ IF task'.status \in {"PAUSED", "CANCELED"} THEN Ends(a, i, "done")
              ELSE Go(a, i, After(a, i))
  <2> DEFINE x == IF task'.status \in {"PAUSED", "CANCELED"} THEN Ended("done") ELSE After(a, i)
  <2>1. /\ x \in Execs /\ Knows(x, item[i]) /\ x.pc \notin {"recover", "strategy"}
        /\ task'.status \notin {"PAUSED", "CANCELED"} => x.pc \notin {"idle"} \cup Over
    BY <1>1, AfterKnows, EndedKnows DEF Over
  <2>2. Go(a, i, x)
    BY <1>4 DEF Ends
  <2>3. task.status \in Live
    BY <1>4, HeldParts DEF Owner
  <2> HIDE DEF x
  <2>4. CASE task.status = "PAUSING"
    BY <1>1, <1>4, <2>1, <2>2, <2>4, PauseItemStep
  <2>5. CASE task.status = "CANCELING"
    BY <1>1, <1>4, <2>1, <2>2, <2>5, CancelItemStep
  <2>6. CASE task.status = "RUNNING"
    <3>1. UNCHANGED <<task, item>>
      BY <1>4, <2>6
    <3>2. x.pc \notin {"recover", "strategy", "idle"} \cup Over
      BY <2>1, <2>6, <3>1
    <3> QED BY <1>1, <2>1, <2>2, <3>1, <3>2, GoStep
  <2> QED BY <2>3, <2>4, <2>5, <2>6 DEF Live
<1> QED BY <1>1, <1>2, <1>3, <1>4 DEF Checkpoint

LEMMA BrokenStep ==
  ASSUME BacktestInv, NEW a \in Attempt, NEW i \in Item, Broken(a, i)
  PROVE  BacktestInv'
BY ToStep DEF Broken

\* A failure without a record: the row is as it was, and held.
LEMMA FailUnrecordedStep ==
  ASSUME BacktestInv, NEW a \in Attempt, NEW i \in Item, FailUnrecorded(a, i)
  PROVE  BacktestInv'
<1> DEFINE x == Ended("unrecorded")
<1>1. x \in Execs /\ x.pc = "unrecorded"
  BY EndedExecs
<1>2. UNCHANGED <<mode, attempt, task, item, forecasts>> /\ exec' = [exec EXCEPT ![a][i] = x]
  BY DEF FailUnrecorded, Ends, Go
<1> HIDE DEF x
<1>3. x.pc \notin {"recover", "strategy", "idle"} \cup Over /\ Knows(x, item[i])
  BY <1>1 DEF Over, Knows, KnowsForecast, KnowsTest, KnowsAdjustment
<1> QED BY <1>1, <1>2, <1>3, MoveAtItem

\* Every transaction of an attempt at an item.
LEMMA ItemStep ==
  ASSUME BacktestInv, NEW a \in Attempt, NEW i \in Item,
         Step(a, i) \/ Broken(a, i) \/ FailUnrecorded(a, i)
  PROVE  BacktestInv'
BY RecoverStep, StartStep, ClaimForecastStep, RunStrategyStep, SkipNotMatchedStep,
   FreezeForecastStep, ClaimSimulationStep, FreezeAdjustmentStep, CheckpointStep,
   SaveSuccessStep, FailStep, BrokenStep, FailUnrecordedStep DEF Step

-----------------------------------------------------------------------------
(* Steps of an attempt at a job.                                            *)

\* The items of a chunk begin, or all are gone; an attempt may get its
\* generation while it holds nothing.
AtAttempt(a, row) ==
  /\ exec' = [exec EXCEPT ![a] = row] /\ UNCHANGED <<mode, task, item, forecasts>>
  /\ attempt' = [b \in Attempt |-> attempt'[b]]
  /\ \A b \in Attempt : DOMAIN attempt'[b] = AttemptFields
  /\ \A b \in Attempt : \/ attempt'[b].generation = attempt[b].generation
                        \/ \A i \in Item : item[i].token # b
  /\ \A i \in Item : \/ row[i] = exec[a][i]
                     \/ /\ row[i].pc \in {"recover", "start", "gone"}
                        /\ row[i].pc = "recover" => item[i].token # a

LEMMA AttemptStep ==
  ASSUME BacktestInv, NEW a \in Attempt, NEW row \in [Item -> Execs], AtAttempt(a, row)
  PROVE  BacktestInv'
<1> USE DEF AtAttempt
<1>1. Item' = Item
  BY SameItems
<1>2. exec \in [Attempt -> [Item -> Execs]]
  BY DEF BacktestInv
<1>3. /\ exec' \in [Attempt -> [Item -> Execs]]
      /\ \A b \in Attempt : exec'[b] = IF b = a THEN row ELSE exec[b]
  BY <1>2
<1>4. ASSUME NEW i \in Item
      PROVE  ItemOK(item'[i], Standing(i)', forecasts'[i], task', Generations')
  <2> DEFINE r == item[i]
             e == Standing(i)
             f == Standing(i)'
             n == forecasts[i]
             g == Generations
             h == Generations'
             x == row[i]
  <2>1. ItemOK(r, e, n, task, g)
    BY ItemParts
  <2>2. f \in [Attempt -> Execs] /\ \A b \in Attempt : f[b] = IF b = a THEN x ELSE e[b]
    BY <1>3 DEF Standing
  <2>3. \A b \in Attempt : h[b] = g[b] \/ r.token # b
    BY DEF Generations
  <2>4. x = e[a] \/ (x.pc \in {"recover", "start", "gone"} /\ (x.pc = "recover" => r.token # a))
    BY DEF Standing
  <2> HIDE DEF r, e, f, n, g, h, x
  <2>5. r.token # Nobody =>
          /\ h[r.token] = task.generation /\ task.status \in Live
          /\ r.status \notin ItemTerminal /\ f[r.token].pc \notin Over \cup {"idle"}
    <3> SUFFICES ASSUME r.token # Nobody
                 PROVE  /\ h[r.token] = task.generation /\ task.status \in Live
                        /\ r.status \notin ItemTerminal /\ f[r.token].pc \notin Over \cup {"idle"}
      OBVIOUS
    <3>1. /\ r.token \in Attempt /\ g[r.token] = task.generation /\ task.status \in Live
          /\ r.status \notin ItemTerminal /\ e[r.token].pc \notin Over \cup {"idle"}
      BY <2>1, TokenNumbers DEF ItemOK, ItemRows, Tokens
    <3>2. f[r.token].pc \notin Over \cup {"idle"}
      BY <2>2, <2>4, <3>1 DEF Over
    <3> QED BY <2>3, <3>1, <3>2
  <2>6. \A b \in Attempt : f[b].pc = "recover" => r.token # b
    BY <2>1, <2>2, <2>4 DEF ItemOK
  <2>7. \A b \in Attempt : f[b].pc = "strategy" => e[b].pc = "strategy"
    BY <2>2, <2>4
  <2>8. \A b \in Attempt : Knows(f[b], r)
    <3>1. \A b \in Attempt : Knows(e[b], r)
      BY <2>1 DEF ItemOK
    <3>2. Knows(x, r)
      BY <2>4, <3>1 DEF Knows, KnowsForecast, KnowsTest, KnowsAdjustment
    <3> QED BY <2>2, <3>1, <3>2
  <2>9. ItemOK(r, f, n, task, h)
    BY <2>1, <2>2, <2>5, <2>6, <2>7, <2>8 DEF ItemOK
  <2> QED BY <2>9 DEF r, f, n, h
<1>5. TaskOK(task'.status, item', Item')
  BY <1>1 DEF BacktestInv
<1>6. task' \in Tasks /\ item' = [i \in Item' |-> item'[i]]
      /\ forecasts' = [i \in Item' |-> forecasts'[i]]
  BY <1>1 DEF BacktestInv
<1> QED BY <1>1, <1>3, <1>4, <1>5, <1>6 DEF BacktestInv

\* run_item begins for the items of a chunk.
LEMMA SpawnedRows ==
  ASSUME BacktestInv, NEW a \in Attempt, NEW chunk, NEW recover, Spawn(a, chunk, recover)
  PROVE  \E row \in [Item -> Execs] :
           /\ exec' = [exec EXCEPT ![a] = row]
           /\ \A i \in Item : \/ row[i] = exec[a][i]
                              \/ /\ row[i].pc \in {"recover", "start"}
                                 /\ row[i].pc = "recover" => recover
<1> DEFINE new == [Idle EXCEPT !.pc = IF recover THEN "recover" ELSE "start"]
           row == [i \in Item |-> IF i \in chunk THEN new ELSE exec[a][i]]
<1>1. exec \in [Attempt -> [Item -> Execs]]
  BY DEF BacktestInv
<1>2. new \in Execs /\ new.pc \in {"recover", "start"} /\ (new.pc = "recover" => recover)
  BY EndedExecs
<1>3. exec' = [exec EXCEPT ![a] = row]
  BY <1>1 DEF Spawn
<1> HIDE DEF new
<1>4. row \in [Item -> Execs]
  BY <1>1, <1>2
<1>5. \A i \in Item : \/ row[i] = exec[a][i]
                      \/ row[i].pc \in {"recover", "start"} /\ (row[i].pc = "recover" => recover)
  BY <1>2
<1> HIDE DEF row
<1> QED BY <1>3, <1>4, <1>5

\* An attempt that ends, and one whose items alone move.
LEMMA LeavesSame ==
  ASSUME BacktestInv, NEW a \in Attempt, Leaves(a) \/ UNCHANGED attempt
  PROVE  /\ attempt' = [b \in Attempt |-> attempt'[b]]
         /\ \A b \in Attempt : DOMAIN attempt'[b] = AttemptFields
         /\ \A b \in Attempt : attempt'[b].generation = attempt[b].generation
<1>1. attempt = [b \in Attempt |-> attempt[b]] /\ \A b \in Attempt : DOMAIN attempt[b] = AttemptFields
  BY DEF BacktestInv
<1>2. CASE UNCHANGED attempt
  BY <1>1, <1>2
<1>3. CASE Leaves(a)
  <2> DEFINE new == [attempt[a] EXCEPT !.running = FALSE]
  <2>1. DOMAIN new = AttemptFields /\ new.generation = attempt[a].generation
    BY <1>1 DEF AttemptFields
  <2>2. attempt' = [attempt EXCEPT ![a] = new]
    BY <1>3 DEF Leaves
  <2> HIDE DEF new
  <2> QED BY <1>1, <2>1, <2>2
<1> QED BY <1>2, <1>3

LEMMA BeginStep ==
  ASSUME BacktestInv, NEW a \in Attempt, NEW g \in Generation, Begin(a, g)
  PROVE  BacktestInv'
<1> DEFINE j == job[g]
           chunk == Chunk(j.keys, j.next)
           recover == j.recover \/ (mode # "SINGLE" /\ j.next > 0)
           new == [generation |-> g, next |-> j.next, chunk |-> chunk, running |-> j.keys # {}]
<1>1. /\ attempt[a] = Unused /\ attempt' = [attempt EXCEPT ![a] = new]
      /\ Spawn(a, chunk, recover) /\ UNCHANGED <<mode, task, item, forecasts>>
  BY DEF Begin
<1>2. \A i \in Item : item[i].token # a
  <2>1. attempt[a].generation = 0
    BY <1>1 DEF Unused
  <2>2. task.generation # 0
    BY DEF BacktestInv, Tasks
  <2> QED BY <2>1, <2>2, HeldParts
<1>3. DOMAIN new = AttemptFields
  BY DEF AttemptFields
<1> HIDE DEF new, chunk, recover
<1>4. /\ attempt' = [b \in Attempt |-> attempt'[b]]
      /\ \A b \in Attempt : DOMAIN attempt'[b] = AttemptFields
      /\ \A b \in Attempt : b # a => attempt'[b] = attempt[b]
  BY <1>1, <1>3 DEF BacktestInv
<1>5. PICK row \in [Item -> Execs] :
        /\ exec' = [exec EXCEPT ![a] = row]
        /\ \A i \in Item : row[i] = exec[a][i] \/ row[i].pc \in {"recover", "start"}
  BY <1>1, SpawnedRows
<1>6. AtAttempt(a, row)
  BY <1>1, <1>2, <1>4, <1>5 DEF AtAttempt
<1> QED BY <1>6, AttemptStep

\* An attempt whose end, or whose lease, leaves its items as they are.
LEMMA AttemptEndStep ==
  ASSUME BacktestInv, NEW a \in Attempt, Leaves(a) \/ UNCHANGED attempt, UNCHANGED exec,
         UNCHANGED <<mode, task, item, forecasts>>
  PROVE  BacktestInv'
<1> DEFINE row == exec[a]
<1>1. row \in [Item -> Execs] /\ exec' = [exec EXCEPT ![a] = row]
  BY DEF BacktestInv
<1>2. \A i \in Item : row[i] = exec[a][i]
  OBVIOUS
<1> HIDE DEF row
<1>3. AtAttempt(a, row)
  BY <1>1, <1>2, LeavesSame DEF AtAttempt
<1> QED BY <1>1, <1>3, AttemptStep

LEMMA NextChunkStep ==
  ASSUME BacktestInv, NEW a \in Attempt, NextChunk(a)
  PROVE  BacktestInv'
<1> DEFINE g == attempt[a].generation
           next == attempt[a].next + Cardinality(attempt[a].chunk)
           chunk == Chunk(Keys(a), next)
<1>1. UNCHANGED <<mode, task, item, forecasts>>
  BY DEF NextChunk
<1>2. CASE Leaves(a) /\ UNCHANGED exec
  BY <1>1, <1>2, AttemptEndStep
<1>3. CASE /\ attempt' = [attempt EXCEPT ![a].next = next, ![a].chunk = chunk]
           /\ Spawn(a, chunk, FALSE)
  <2> HIDE DEF next, chunk
  <2>1. /\ attempt' = [b \in Attempt |-> attempt'[b]]
        /\ \A b \in Attempt : DOMAIN attempt'[b] = AttemptFields
        /\ \A b \in Attempt : attempt'[b].generation = attempt[b].generation
    BY <1>3 DEF BacktestInv, AttemptFields
  <2>2. PICK row \in [Item -> Execs] :
          /\ exec' = [exec EXCEPT ![a] = row]
          /\ \A i \in Item : row[i] = exec[a][i]
               \/ (row[i].pc \in {"recover", "start"} /\ row[i].pc # "recover")
    BY <1>3, SpawnedRows
  <2>3. AtAttempt(a, row)
    BY <1>1, <2>1, <2>2 DEF AtAttempt
  <2> QED BY <2>3, AttemptStep
<1> QED BY <1>2, <1>3 DEF NextChunk

LEMMA InterruptStep ==
  ASSUME BacktestInv, NEW a \in Attempt, Interrupt(a)
  PROVE  BacktestInv'
<1> DEFINE row == [i \in Item |-> Ended("gone")]
<1>1. Ended("gone") \in Execs /\ Ended("gone").pc = "gone"
  BY EndedExecs
<1>2. /\ row \in [Item -> Execs] /\ exec' = [exec EXCEPT ![a] = row]
      /\ \A i \in Item : row[i].pc = "gone"
      /\ Leaves(a) /\ UNCHANGED <<mode, task, item, forecasts>>
  BY <1>1 DEF Interrupt, Interruption
<1> HIDE DEF row
<1>3. AtAttempt(a, row)
  BY <1>2, LeavesSame DEF AtAttempt
<1> QED BY <1>2, <1>3, AttemptStep

LEMMA HandlerStep ==
  ASSUME BacktestInv, NEW a \in Attempt, Handler(a) \/ Interrupt(a) \/ LoseLease(a)
  PROVE  BacktestInv'
<1>1. CASE \E g \in Generation : Begin(a, g)
  BY <1>1, BeginStep
<1>2. CASE NextChunk(a)
  BY <1>2, NextChunkStep
<1>3. CASE Raised(a)
  BY <1>3, AttemptEndStep DEF Raised
<1>4. CASE Interrupt(a)
  BY <1>4, InterruptStep
<1>5. CASE LoseLease(a)
  BY <1>5, AttemptEndStep DEF LoseLease, Interruption
<1> QED BY <1>1, <1>2, <1>3, <1>4, <1>5 DEF Handler

-----------------------------------------------------------------------------
(* The commands.                                                            *)

\* An item that a command takes from whoever had it.
LetGo(s, r) ==
  /\ r \in ItemRows /\ r.token = Nobody /\ r.status # "SUCCEEDED"
  /\ r.claimed = s.claimed /\ r.forecast = s.forecast /\ r.test = s.test
  /\ r.adjustment = s.adjustment
  /\ r.claimed /\ r.forecast = Nobody =>
       r.status \in {"FORECASTING", "FAILED", "SKIPPED", "CANCELED"}
  /\ r.status = "FORECASTING" => r.forecast = Nobody

Commanded ==
  /\ UNCHANGED <<mode, attempt, exec, forecasts>> /\ task' \in Tasks
  /\ item' = [i \in Item |-> item'[i]]
  /\ \A i \in Item : item'[i] = item[i] \/ LetGo(item[i], item'[i])
  /\ (\E i \in Item : item'[i].token # Nobody) =>
       task'.status \in Live /\ task'.generation = task.generation
  /\ TaskOK(task'.status, item', Item)

LEMMA CommandStep ==
  ASSUME BacktestInv, Commanded
  PROVE  BacktestInv'
<1> USE DEF Commanded
<1>1. Item' = Item
  BY SameItems
<1>2. Generations' = Generations
  BY DEF Generations
<1>3. ASSUME NEW i \in Item
      PROVE  ItemOK(item'[i], Standing(i)', forecasts'[i], task', Generations')
  <2> DEFINE s == item[i]
             r == item'[i]
             e == Standing(i)
             n == forecasts[i]
             g == Generations
  <2>1. ItemOK(s, e, n, task, g) /\ (r = s \/ LetGo(s, r))
        /\ (r.token # Nobody => task'.status \in Live /\ task'.generation = task.generation)
    BY ItemParts
  <2>2. Standing(i)' = e /\ forecasts'[i] = n
    BY DEF Standing
  <2> HIDE DEF s, r, e, n, g
  <2>3. ASSUME r = s PROVE ItemOK(r, e, n, task', g)
    BY <2>1, <2>3 DEF ItemOK
  <2>4. ASSUME LetGo(s, r) PROVE ItemOK(r, e, n, task', g)
    <3>1. \A b \in Attempt : e[b].pc = "recover" => r.token # b
      BY <2>4, TokenNumbers DEF LetGo
    <3>2. \A b \in Attempt : Knows(e[b], r)
      BY <2>1, <2>4 DEF ItemOK, LetGo, Knows
    <3> QED BY <2>1, <2>4, <3>1, <3>2 DEF ItemOK, LetGo
  <2>5. ItemOK(r, e, n, task', g)
    BY <2>1, <2>3, <2>4
  <2> QED BY <1>2, <2>2, <2>5 DEF r, e, n, g
<1>4. /\ forecasts' = [i \in Item' |-> forecasts'[i]] /\ exec' \in [Attempt -> [Item' -> Execs]]
      /\ attempt' = [b \in Attempt |-> attempt'[b]]
      /\ \A b \in Attempt : DOMAIN attempt'[b] = AttemptFields
  BY <1>1 DEF BacktestInv
<1> QED BY <1>1, <1>3, <1>4 DEF BacktestInv

LEMMA PauseStep ==
  ASSUME BacktestInv, Pause
  PROVE  BacktestInv'
<1>1. /\ UNCHANGED <<mode, attempt, exec, forecasts>> /\ item' = item
      /\ item' = [i \in Item |-> item'[i]] /\ task \in Tasks
  BY DEF Pause, Command, BacktestInv
<1>2. CASE PausesAtOnce /\ Status("PAUSED")
  <2>1. task' \in Tasks /\ task'.status = "PAUSED"
    BY <1>1, <1>2 DEF Status, Tasks, TaskStatus
  <2>2. \A i \in Item : item'[i].token = Nobody
    BY <1>1, <1>2, Unheld DEF PausesAtOnce, Held, Live
  <2>3. TaskOK(task'.status, item', Item)
    BY <2>1, TaskRuns
  <2>4. Commanded
    BY <1>1, <2>1, <2>2, <2>3 DEF Commanded
  <2> QED BY <2>4, CommandStep
<1>3. CASE ~PausesAtOnce /\ task.status = "RUNNING" /\ Status("PAUSING")
  <2>1. /\ task' \in Tasks /\ task'.status = "PAUSING" /\ task'.generation = task.generation
        /\ task'.status \in Live
    BY <1>1, <1>3 DEF Status, Tasks, TaskStatus, Live
  <2>2. \E i \in Item : item'[i].token # Nobody
    BY <1>1, <1>3 DEF PausesAtOnce, Held
  <2>3. TaskOK(task'.status, item', Item)
    BY <2>1, <2>2 DEF TaskOK, TaskTerminal
  <2>4. Commanded
    BY <1>1, <2>1, <2>3 DEF Commanded
  <2> QED BY <2>4, CommandStep
<1> QED BY <1>2, <1>3 DEF Pause

\* A new generation begins with nobody at work.
LEMMA GenerationStep ==
  ASSUME BacktestInv, task.status \notin Live, NEW items, NEW keys, NEW recover,
         Command, NextGeneration(items, keys, recover), items = [i \in Item |-> items[i]],
         \A i \in Item : items[i] = item[i] \/ LetGo(item[i], items[i])
  PROVE  BacktestInv'
<1>1. /\ UNCHANGED <<mode, attempt, exec, forecasts>> /\ item' = items
      /\ task' = [status |-> "PENDING", generation |-> task.generation + 1]
  BY DEF Command, NextGeneration
<1>2. task' \in Tasks /\ task'.status = "PENDING"
  <2>1. task.generation \in Nat
    BY DEF BacktestInv, Tasks
  <2>2. task.generation + 1 \in Nat \ {0} /\ "PENDING" \in TaskStatus
    BY <2>1 DEF TaskStatus
  <2> QED BY <1>1, <2>2 DEF Tasks
<1>3. \A i \in Item : item'[i].token = Nobody
  BY <1>1, Unheld DEF LetGo
<1>4. TaskOK(task'.status, item', Item)
  BY <1>2, TaskRuns
<1>5. Commanded
  BY <1>1, <1>2, <1>3, <1>4 DEF Commanded
<1> QED BY <1>5, CommandStep

LEMMA ResumeStep ==
  ASSUME BacktestInv, Resume
  PROVE  BacktestInv'
<1> DEFINE todo == Unfinished(item)
           items == [i \in Item |-> IF i \in todo THEN [item[i] EXCEPT !.token = Nobody] ELSE item[i]]
           keys == IF mode = "SINGLE" THEN Item ELSE todo
           recover == mode # "SINGLE" \/ item[1].status # "PENDING"
<1>1. Command /\ task.status = "PAUSED" /\ NextGeneration(items, keys, recover)
  BY DEF Resume
<1>2. ASSUME NEW i \in Item PROVE items[i] = item[i] \/ LetGo(item[i], items[i])
  <2> DEFINE s == item[i]
             r == [s EXCEPT !.token = Nobody]
  <2>1. ItemOK(s, Standing(i), forecasts[i], task, Generations) /\ s \in ItemRows
    BY ItemParts
  <2>2. /\ r \in ItemRows /\ r.token = Nobody /\ r.status = s.status /\ r.claimed = s.claimed
        /\ r.forecast = s.forecast /\ r.test = s.test /\ r.adjustment = s.adjustment
    BY <2>1, TokenNumbers DEF ItemRows
  <2>3. i \in todo => s.status # "SUCCEEDED" /\ items[i] = r
    BY DEF Unfinished, ItemTerminal
  <2>4. i \notin todo => items[i] = s
    OBVIOUS
  <2> HIDE DEF items, r, todo
  <2> QED BY <2>1, <2>2, <2>3, <2>4 DEF ItemOK, LetGo
<1>3. items = [i \in Item |-> items[i]] /\ task.status \notin Live
  BY <1>1 DEF Live
<1> HIDE DEF items, keys, recover
<1> QED BY <1>1, <1>2, <1>3, GenerationStep

LEMMA CancelStep ==
  ASSUME BacktestInv, Cancel
  PROVE  BacktestInv'
<1>1. /\ UNCHANGED <<mode, attempt, exec, forecasts>> /\ task \in Tasks
  BY DEF Cancel, Command, BacktestInv
<1>2. ASSUME NEW some, item' = CanceledItems(some)
      PROVE  /\ item' = [i \in Item |-> item'[i]]
             /\ \A i \in Item : item'[i] = item[i] \/ LetGo(item[i], item'[i])
             /\ \A i \in Item : i \notin some => item'[i] = item[i]
             /\ \A i \in Item : i \in some => item'[i].status = "CANCELED" /\ item'[i].token = Nobody
  <2>1. ASSUME NEW i \in Item
        PROVE  /\ LetGo(item[i], Released(item[i], "CANCELED"))
               /\ Released(item[i], "CANCELED").status = "CANCELED"
               /\ Released(item[i], "CANCELED").token = Nobody
    <3> DEFINE r == Released(item[i], "CANCELED")
    <3>1. item[i] \in ItemRows
      BY ItemParts
    <3>2. /\ r \in ItemRows /\ r.token = Nobody /\ r.status = "CANCELED"
          /\ r.claimed = item[i].claimed /\ r.forecast = item[i].forecast
          /\ r.test = item[i].test /\ r.adjustment = item[i].adjustment
      BY <3>1, TokenNumbers DEF ItemRows, Released, ItemStatus
    <3> HIDE DEF r
    <3>3. LetGo(item[i], r)
      BY <3>2 DEF LetGo
    <3> QED BY <3>2, <3>3 DEF r
  <2> QED BY <1>2, <2>1 DEF CanceledItems
<1>3. CASE /\ task.status \in {"PENDING", "PAUSED"}
           /\ item' = CanceledItems(Unfinished(item)) /\ Status("CANCELED")
  <2>1. task' \in Tasks /\ task'.status = "CANCELED"
    BY <1>1, <1>3 DEF Status, Tasks, TaskStatus
  <2>2. \A i \in Item : item[i].token = Nobody
    BY <1>3, Unheld DEF Live
  <2>3. \A i \in Item : item'[i].token = Nobody /\ item'[i].status \in ItemTerminal
    <3> DEFINE some == Unfinished(item)
    <3>1. item' = CanceledItems(some)
      BY <1>3
    <3>2. \A i \in Item : i \notin some => item[i].status \in ItemTerminal
      BY DEF Unfinished
    <3> HIDE DEF some
    <3> QED BY <1>2, <2>2, <3>1, <3>2 DEF ItemTerminal
  <2>4. TaskOK(task'.status, item', Item)
    BY <2>1, <2>3 DEF TaskOK, TaskTerminal
  <2>5. Commanded
    BY <1>1, <1>2, <1>3, <2>1, <2>3, <2>4 DEF Commanded
  <2> QED BY <2>5, CommandStep
<1>4. CASE /\ task.status \in {"RUNNING", "PAUSING"}
           /\ item' = CanceledItems(Unfinished(item) \ Held(item))
           /\ Status(IF Unfinished(item') = {} THEN "CANCELED" ELSE "CANCELING")
  <2> DEFINE some == Unfinished(item) \ Held(item)
  <2>1. item' = CanceledItems(some)
    BY <1>4
  <2>2. \A i \in Item : i \notin some => item[i].status \in ItemTerminal \/ item[i].token # Nobody
    BY DEF Unfinished, Held
  <2> HIDE DEF some
  <2>3. \A i \in Item : item'[i].status \in ItemTerminal \/ item'[i].token # Nobody
    BY <1>2, <2>1, <2>2 DEF ItemTerminal
  <2>4. \A i \in Item : item'[i].token # Nobody => item'[i].status \notin ItemTerminal
    <3> SUFFICES ASSUME NEW i \in Item, item'[i].token # Nobody
                 PROVE  item'[i].status \notin ItemTerminal
      OBVIOUS
    <3>1. item'[i] = item[i]
      BY <1>2, <2>1
    <3> QED BY <3>1, ItemParts DEF ItemOK
  <2>5. CASE Unfinished(item') = {}
    <3>1. task' \in Tasks /\ task'.status = "CANCELED"
      BY <1>1, <1>4, <2>5 DEF Status, Tasks, TaskStatus
    <3>2. \A i \in Item : item'[i].status \in ItemTerminal
      BY <2>5 DEF Unfinished
    <3>3. TaskOK(task'.status, item', Item)
      BY <3>1, <3>2 DEF TaskOK, TaskTerminal
    <3>4. Commanded
      BY <1>1, <1>2, <1>4, <2>4, <3>1, <3>2, <3>3 DEF Commanded
    <3> QED BY <3>4, CommandStep
  <2>6. CASE Unfinished(item') # {}
    <3>1. /\ task' \in Tasks /\ task'.status = "CANCELING" /\ task'.status \in Live
          /\ task'.generation = task.generation
      BY <1>1, <1>4, <2>6 DEF Status, Tasks, TaskStatus, Live
    <3>2. \E i \in Item : item'[i].token # Nobody
      BY <2>3, <2>6 DEF Unfinished
    <3>3. TaskOK(task'.status, item', Item)
      BY <2>3, <3>1, <3>2 DEF TaskOK, TaskTerminal
    <3>4. Commanded
      BY <1>1, <1>2, <1>4, <3>1, <3>3 DEF Commanded
    <3> QED BY <3>4, CommandStep
  <2> QED BY <2>5, <2>6
<1> QED BY <1>3, <1>4 DEF Cancel

LEMMA RetryFailedStep ==
  ASSUME BacktestInv, RetryFailed
  PROVE  BacktestInv'
<1> DEFINE failed == {i \in Item : item[i].status = "FAILED"}
           again(i) == Released(item[i], IF item[i].forecast # Nobody THEN "FROZEN" ELSE "PENDING")
           items == [i \in Item |-> IF i \in failed THEN again(i) ELSE item[i]]
           recover == mode # "SINGLE" \/ again(1).status # "PENDING"
<1>1. /\ Command /\ task.status \in {"FAILED", "PARTIAL"}
      /\ \A i \in failed : Retryable(i)
      /\ NextGeneration(items, failed, recover)
  BY DEF RetryFailed
<1>2. ASSUME NEW i \in Item PROVE items[i] = item[i] \/ LetGo(item[i], items[i])
  <2> DEFINE s == item[i]
             status == IF s.forecast # Nobody THEN "FROZEN" ELSE "PENDING"
             r == Released(s, status)
  <2>1. s \in ItemRows
    BY ItemParts
  <2>2. status \in ItemStatus /\ status \notin {"SUCCEEDED", "FORECASTING"}
    BY DEF ItemStatus
  <2> HIDE DEF status
  <2>3. /\ r \in ItemRows /\ r.token = Nobody /\ r.status = status /\ r.claimed = s.claimed
        /\ r.forecast = s.forecast /\ r.test = s.test /\ r.adjustment = s.adjustment
    BY <2>1, <2>2, TokenNumbers DEF ItemRows, Released
  <2>4. i \in failed => items[i] = r /\ (s.forecast # Nobody \/ ~s.claimed)
    BY <1>1 DEF Retryable, status
  <2>5. i \notin failed => items[i] = s
    OBVIOUS
  <2> HIDE DEF items, r, failed
  <2> QED BY <2>2, <2>3, <2>4, <2>5 DEF LetGo
<1>3. items = [i \in Item |-> items[i]] /\ task.status \notin Live
  BY <1>1 DEF Live
<1> HIDE DEF items, failed, recover
<1> QED BY <1>1, <1>2, <1>3, GenerationStep

-----------------------------------------------------------------------------
LEMMA BacktestStart == Init => BacktestInv
<1> SUFFICES ASSUME Init PROVE BacktestInv
  OBVIOUS
<1>1. /\ Idle \in Execs /\ Idle.pc = "idle"
      /\ NewItem \in ItemRows /\ NewItem.status = "PENDING" /\ NewItem.token = Nobody
      /\ NewItem.claimed = FALSE
  BY TokenNumbers DEF Idle, Execs, PCs, Tests, NewItem, NoResult, ItemRows, ItemStatus, Results
<1>2. /\ task.status = "PENDING" /\ task \in Tasks
      /\ item = [i \in Item |-> NewItem] /\ forecasts = [i \in Item |-> 0]
      /\ exec = [a \in Attempt |-> [i \in Item |-> Idle]]
      /\ attempt = [a \in Attempt |-> Unused]
  BY DEF Init, Tasks, TaskStatus
<1>3. ASSUME NEW i \in Item PROVE ItemOK(item[i], Standing(i), forecasts[i], task, Generations)
  <2> DEFINE e == Standing(i)
             r == item[i]
             n == forecasts[i]
  <2>1. /\ e \in [Attempt -> Execs] /\ \A a \in Attempt : e[a].pc = "idle"
        /\ r = NewItem /\ n = 0
    BY <1>1, <1>2 DEF Standing
  <2> HIDE DEF e, r, n
  <2>2. \A a \in Attempt : Knows(e[a], r)
    BY <2>1 DEF Knows, KnowsForecast, KnowsTest, KnowsAdjustment
  <2>3. ItemOK(r, e, n, task, Generations)
    BY <1>1, <2>1, <2>2 DEF ItemOK
  <2> QED BY <2>3 DEF e, r, n
<1>4. TaskOK(task.status, item, Item)
  BY <1>2, TaskRuns
<1>5. \A a \in Attempt : DOMAIN attempt[a] = AttemptFields
  BY <1>2 DEF Unused, AttemptFields
<1> QED BY <1>1, <1>2, <1>3, <1>4, <1>5 DEF BacktestInv

LEMMA BacktestNext == BacktestInv /\ [Next]_vars => BacktestInv'
<1> SUFFICES ASSUME BacktestInv, [Next]_vars PROVE BacktestInv'
  OBVIOUS
<1>1. CASE \E a \in Attempt : Handler(a) \/ Interrupt(a) \/ LoseLease(a)
  BY <1>1, HandlerStep
<1>2. CASE \E a \in Attempt, i \in Item : Step(a, i) \/ Broken(a, i) \/ FailUnrecorded(a, i)
  BY <1>2, ItemStep
<1>3. CASE Pause \/ Resume \/ Cancel \/ RetryFailed
  BY <1>3, PauseStep, ResumeStep, CancelStep, RetryFailedStep
<1>4. CASE UNCHANGED vars
  <2>1. UNCHANGED <<mode, task, item, attempt, exec, forecasts>>
    BY <1>4 DEF vars
  <2> QED BY <2>1 DEF BacktestInv, Item, Standing, Generations
<1> QED BY <1>1, <1>2, <1>3, <1>4 DEF Next

LEMMA BacktestAlways == Spec => []BacktestInv
BY BacktestStart, BacktestNext, PTL DEF Spec

\* Whatever stale attempts, lost leases, pauses, retries and resumptions there
\* are, an item is held by an attempt of its task's current generation while the
\* task is at work, its training data is shown to the strategy at most once, and
\* a saved result is that of exactly what was frozen (claims and saves in
\* service.py ask for the token and the generation).
THEOREM BacktestItems == Spec => []ItemsSound
<1>1. BacktestInv => ItemsSound
  <2> SUFFICES ASSUME BacktestInv, NEW i \in Item
               PROVE  /\ item[i].token # Nobody =>
                           /\ attempt[item[i].token].generation = task.generation
                           /\ task.status \in {"RUNNING", "PAUSING", "CANCELING"}
                           /\ item[i].status \notin ItemTerminal
                      /\ forecasts[i] <= 1
                      /\ item[i].status = "SUCCEEDED" =>
                           item[i].result = [forecast |-> item[i].forecast, test |-> item[i].test,
                                             adjustment |-> item[i].adjustment]
    BY DEF ItemsSound, HeldByCurrent, ForecastOnce, ResultOfFrozen, Held
  <2>1. ItemOK(item[i], Standing(i), forecasts[i], task, Generations)
    BY ItemParts
  <2>2. item[i].token # Nobody =>
          /\ attempt[item[i].token].generation = task.generation
          /\ task.status \in {"RUNNING", "PAUSING", "CANCELING"}
          /\ item[i].status \notin ItemTerminal
    <3> SUFFICES ASSUME item[i].token # Nobody
                 PROVE  /\ attempt[item[i].token].generation = task.generation
                        /\ task.status \in {"RUNNING", "PAUSING", "CANCELING"}
                        /\ item[i].status \notin ItemTerminal
      OBVIOUS
    <3>1. item[i].token \in Attempt
      BY ItemParts DEF ItemRows, Tokens
    <3> QED BY <3>1, HeldParts DEF Live
  <2>3. forecasts[i] <= 1
    BY <2>1 DEF ItemOK
  <2>4. item[i].status = "SUCCEEDED" =>
          item[i].result = [forecast |-> item[i].forecast, test |-> item[i].test,
                            adjustment |-> item[i].adjustment]
    BY <2>1 DEF ItemOK
  <2> QED BY <2>2, <2>3, <2>4
<1> QED BY <1>1, BacktestAlways, PTL

\* A task that has ended tells what became of its items, and a pause or a
\* cancellation under way always has an item to wait for: one whose holder works
\* on it, or has left it behind because it was cut off or could not record its
\* failure, which is all that can keep the stop from being answered
\* (_refresh_parent_status, _pause_item, _cancel_item, _record_failure).
THEOREM BacktestStops == Spec => []StopsSound
<1>1. BacktestInv => EndTellsItems
  <2> SUFFICES ASSUME BacktestInv PROVE EndTellsItems
    OBVIOUS
  <2>1. TaskOK(task.status, item, Item)
    BY DEF BacktestInv
  <2> DEFINE good == \E i \in Item : item[i].status \in {"SUCCEEDED", "SKIPPED"}
             bad == \E i \in Item : item[i].status \in {"FAILED", "CANCELED"}
  <2>2. task.status \in TaskTerminal => Unfinished(item) = {}
    BY <2>1 DEF TaskOK, Unfinished
  <2>3. task.status = "SUCCEEDED" => ~bad
    BY <2>1 DEF TaskOK, Bad
  <2>4. task.status = "PARTIAL" => good /\ bad
    BY <2>1 DEF TaskOK, Good, Bad
  <2>5. task.status = "FAILED" => ~good
    BY <2>1 DEF TaskOK, Good
  <2> QED BY <2>2, <2>3, <2>4, <2>5 DEF EndTellsItems
<1>2. BacktestInv => StopsAnswerable
  <2> SUFFICES ASSUME BacktestInv PROVE StopsAnswerable
    OBVIOUS
  <2>1. ASSUME NEW i \in Item, item[i].token # Nobody
        PROVE  AtWork(i) \/ LeftBehind(i)
    <3>1. item[i].token \in Attempt
      BY <2>1, ItemParts DEF ItemRows, Tokens
    <3> QED BY <3>1, HeldParts DEF AtWork, LeftBehind, HolderAt
  <2>2. task.status \in {"PAUSING", "CANCELING"} => Held(item) # {}
    BY DEF BacktestInv, TaskOK, Held
  <2> QED BY <2>1, <2>2 DEF StopsAnswerable, Held
<1> QED BY <1>1, <1>2, BacktestAlways, PTL DEF StopsSound

-----------------------------------------------------------------------------
(* The candidates.                                                          *)

EntryStatus == {"PENDING", "FETCHING_DATA", "SUCCEEDED", "FAILED", "CANCELED"}
Entries == [status : EntryStatus, token : Nat, price : Nat, result : Nat]
Sims == [pc : {"idle", "chosen", "claimed", "simulated", "failing", "done"}, price : Nat]

\* What was saved, and what is being simulated, is no newer than the prices, and
\* whoever may save next has simulated prices that are no older than what was saved.
Priced(e, s) ==
  /\ e.result <= e.price
  /\ \A a \in Candidates!Run : s[a].pc = "simulated" =>
       s[a].price <= e.price /\ (e.token = a => e.result <= s[a].price)

CandidateInv ==
  /\ entry \in [Items -> Entries]
  /\ sim \in [Candidates!Run -> [Items -> Sims]]
  /\ \A i \in Items : Priced(entry[i], [a \in Candidates!Run |-> sim[a][i]])

NeverBack == \A i \in Items : entry'[i].result >= entry[i].result

\* Entries that change in other fields than the prices, the result and the
\* token do not disturb the invariant.
LEMMA EntriesStep ==
  ASSUME CandidateInv, UNCHANGED sim, entry' \in [Items -> Entries],
         \A i \in Items :
           /\ entry'[i].token \in {entry[i].token, 0} /\ entry'[i].result = entry[i].result
           /\ entry'[i].price >= entry[i].price
  PROVE  CandidateInv' /\ NeverBack
<1>1. \A i \in Items : entry[i] \in Entries /\ entry'[i] \in Entries
  BY DEF CandidateInv
<1>2. ASSUME NEW i \in Items
      PROVE  Priced(entry'[i], [a \in Candidates!Run |-> sim'[a][i]])
  <2> DEFINE e == entry[i]
             f == entry'[i]
             s == [a \in Candidates!Run |-> sim[a][i]]
  <2>1. Priced(e, s) /\ e \in Entries /\ f \in Entries /\ f.token \in {e.token, 0}
        /\ f.result = e.result /\ f.price >= e.price
    BY <1>1 DEF CandidateInv
  <2>2. 0 \notin Candidates!Run
    BY DEF Candidates!Run
  <2>3. \A a \in Candidates!Run : s[a].price \in Nat
    BY DEF CandidateInv, Sims
  <2> HIDE DEF e, f, s
  <2>4. e.price \in Nat /\ f.price \in Nat /\ e.result \in Nat
    BY <2>1 DEF Entries
  <2>5. Priced(f, s)
    BY <2>1, <2>2, <2>3, <2>4 DEF Priced
  <2> QED BY <2>5 DEF f, s
<1>3. NeverBack
  BY <1>1 DEF NeverBack, Entries
<1> QED BY <1>2, <1>3 DEF CandidateInv

LEMMA SameEntries ==
  ASSUME CandidateInv, UNCHANGED <<entry, sim>>
  PROVE  CandidateInv' /\ NeverBack
<1>1. \A i \in Items : entry[i] \in Entries
  BY DEF CandidateInv
<1> QED BY <1>1 DEF CandidateInv, NeverBack, Entries

\* A step of one simulation of one item.
AtEntry(a, i, f, x) ==
  /\ entry' = [entry EXCEPT ![i] = f] /\ sim' = [sim EXCEPT ![a][i] = x]
  /\ f \in Entries /\ x \in Sims
  /\ f.result <= f.price /\ f.result >= entry[i].result
  /\ \A b \in Candidates!Run : b # a /\ sim[b][i].pc = "simulated" =>
       sim[b][i].price <= f.price /\ (f.token = b => f.result <= sim[b][i].price)
  /\ x.pc = "simulated" => x.price <= f.price /\ (f.token = a => f.result <= x.price)

LEMMA EntryStep ==
  ASSUME CandidateInv, NEW a \in Candidates!Run, NEW i \in Items, NEW f, NEW x, AtEntry(a, i, f, x)
  PROVE  CandidateInv' /\ NeverBack
<1> USE DEF AtEntry
<1>1. /\ entry' \in [Items -> Entries] /\ sim' \in [Candidates!Run -> [Items -> Sims]]
      /\ \A j \in Items : entry[j] \in Entries /\ entry'[j] = IF j = i THEN f ELSE entry[j]
      /\ \A b \in Candidates!Run : \A j \in Items :
           sim'[b][j] = IF b = a /\ j = i THEN x ELSE sim[b][j]
  BY DEF CandidateInv
<1>2. ASSUME NEW j \in Items
      PROVE  Priced(entry'[j], [b \in Candidates!Run |-> sim'[b][j]])
  <2> DEFINE s == [b \in Candidates!Run |-> sim[b][j]]
             t == [b \in Candidates!Run |-> sim'[b][j]]
  <2>1. CASE j = i
    <3>1. \A b \in Candidates!Run : t[b] = IF b = a THEN x ELSE sim[b][i]
      BY <1>1, <2>1
    <3>2. entry'[j] = f
      BY <1>1, <2>1
    <3> HIDE DEF t
    <3>3. Priced(f, t)
      BY <3>1 DEF Priced
    <3> QED BY <3>2, <3>3 DEF t
  <2>2. CASE j # i
    <3>1. t = s /\ entry'[j] = entry[j]
      BY <1>1, <2>2
    <3> QED BY <3>1 DEF CandidateInv
  <2> QED BY <2>1, <2>2
<1>3. NeverBack
  <2> SUFFICES ASSUME NEW j \in Items PROVE entry'[j].result >= entry[j].result
    BY DEF NeverBack
  <2>1. entry[j].result \in Nat /\ entry[j].result >= entry[j].result
    BY <1>1 DEF Entries
  <2> QED BY <1>1, <2>1
<1> QED BY <1>1, <1>2, <1>3 DEF CandidateInv

\* The simulations of one attempt begin anew.
LEMMA SimRowStep ==
  ASSUME CandidateInv, UNCHANGED entry, NEW a \in Candidates!Run, NEW row \in [Items -> Sims],
         sim' = [sim EXCEPT ![a] = row], \A i \in Items : row[i].pc # "simulated"
  PROVE  CandidateInv' /\ NeverBack
<1>1. /\ sim' \in [Candidates!Run -> [Items -> Sims]] /\ \A i \in Items : entry[i] \in Entries
      /\ \A b \in Candidates!Run : sim'[b] = IF b = a THEN row ELSE sim[b]
  BY DEF CandidateInv
<1>2. ASSUME NEW i \in Items
      PROVE  Priced(entry[i], [b \in Candidates!Run |-> sim'[b][i]])
  <2> DEFINE s == [b \in Candidates!Run |-> sim[b][i]]
             t == [b \in Candidates!Run |-> sim'[b][i]]
             e == entry[i]
  <2>1. Priced(e, s)
    BY DEF CandidateInv
  <2>2. \A b \in Candidates!Run : t[b] = IF b = a THEN row[i] ELSE s[b]
    BY <1>1
  <2>3. row[i].pc # "simulated"
    OBVIOUS
  <2> HIDE DEF s, t, e
  <2>4. Priced(e, t)
    BY <2>1, <2>2, <2>3 DEF Priced
  <2> QED BY <2>4 DEF t, e
<1>3. NeverBack
  BY <1>1 DEF NeverBack, Entries
<1> QED BY <1>1, <1>2, <1>3 DEF CandidateInv

LEMMA WaitingSims ==
  /\ Candidates!Waiting \in Sims /\ Candidates!Waiting.pc = "idle"
  /\ [Candidates!Waiting EXCEPT !.pc = "chosen"] \in Sims
  /\ [Candidates!Waiting EXCEPT !.pc = "chosen"].pc = "chosen"
  /\ [Candidates!Waiting EXCEPT !.pc = "done"] \in Sims
  /\ [Candidates!Waiting EXCEPT !.pc = "done"].pc = "done"
BY DEF Candidates!Waiting, Candidates!Nobody, Sims

LEMMA SimulationStep ==
  ASSUME CandidateInv, NEW a \in Candidates!Run, NEW i \in Items,
         \/ Candidates!ClaimItem(a, i) \/ Candidates!Simulate(a, i)
         \/ Candidates!FailItem(a, i) \/ Candidates!SaveResult(a, i)
         \/ Candidates!RunItemRaises(a, i)
  PROVE  CandidateInv' /\ NeverBack
<1> DEFINE e == entry[i]
           y == sim[a][i]
<1>1. /\ e \in Entries /\ y \in Sims /\ entry = [entry EXCEPT ![i] = e] /\ e.result \in Nat
      /\ e.result <= e.price /\ e.result >= e.result /\ e.token \in Nat
      /\ \A b \in Candidates!Run : sim[b][i].pc = "simulated" =>
           sim[b][i].price <= e.price /\ (e.token = b => e.result <= sim[b][i].price)
  <2>1. e \in Entries /\ y \in Sims /\ entry = [entry EXCEPT ![i] = e]
        /\ Priced(e, [b \in Candidates!Run |-> sim[b][i]])
    BY DEF CandidateInv
  <2>2. e.result \in Nat /\ e.result >= e.result /\ e.token \in Nat
    BY <2>1 DEF Entries
  <2> QED BY <2>1, <2>2 DEF Priced
<1>2. ASSUME NEW pc \in {"claimed", "failing", "done"}
      PROVE  [y EXCEPT !.pc = pc] \in Sims /\ [y EXCEPT !.pc = pc].pc = pc
  BY <1>1 DEF Sims
<1>3. 0 \notin Candidates!Run /\ a \in Nat
  BY DEF Candidates!Run
<1>4. ASSUME NEW pc \in {"failing", "done"}, UNCHANGED entry, Candidates!Sims(a, i, pc)
      PROVE  CandidateInv' /\ NeverBack
  <2> DEFINE x == [y EXCEPT !.pc = pc]
  <2>1. x \in Sims /\ x.pc = pc
    BY <1>2
  <2>2. entry' = [entry EXCEPT ![i] = e] /\ sim' = [sim EXCEPT ![a][i] = x]
    BY <1>1, <1>4 DEF Candidates!Sims
  <2> HIDE DEF e, x
  <2>3. AtEntry(a, i, e, x)
    BY <1>1, <2>1, <2>2 DEF AtEntry, e
  <2> QED BY <2>3, EntryStep
<1>5. CASE Candidates!ClaimItem(a, i)
  <2>1. CASE UNCHANGED entry /\ Candidates!Sims(a, i, "done")
    BY <1>4, <2>1
  <2>2. CASE /\ entry' = [entry EXCEPT ![i].status = "FETCHING_DATA", ![i].token = a]
             /\ Candidates!Sims(a, i, "claimed")
    <3> DEFINE f == [e EXCEPT !.status = "FETCHING_DATA", !.token = a]
               x == [y EXCEPT !.pc = "claimed"]
    <3>1. f \in Entries /\ f.token = a /\ f.result = e.result /\ f.price = e.price
      BY <1>1, <1>3 DEF Entries, EntryStatus
    <3>2. x \in Sims /\ x.pc = "claimed"
      BY <1>2
    <3>3. entry' = [entry EXCEPT ![i] = f] /\ sim' = [sim EXCEPT ![a][i] = x]
      BY <2>2 DEF Candidates!Sims
    <3> HIDE DEF f, x
    <3>4. AtEntry(a, i, f, x)
      BY <1>1, <3>1, <3>2, <3>3 DEF AtEntry
    <3> QED BY <3>4, EntryStep
  <2> QED BY <1>5, <2>1, <2>2 DEF Candidates!ClaimItem
<1>6. CASE Candidates!Simulate(a, i)
  <2>1. CASE Candidates!Sims(a, i, "failing")
    BY <1>4, <1>6, <2>1 DEF Candidates!Simulate
  <2>2. CASE sim' = [sim EXCEPT ![a][i] = [pc |-> "simulated", price |-> entry[i].price]]
    <3> DEFINE x == [pc |-> "simulated", price |-> e.price]
    <3>1. x \in Sims /\ x.price = e.price /\ x.price <= e.price
      BY <1>1 DEF Entries, Sims
    <3>2. entry' = [entry EXCEPT ![i] = e] /\ sim' = [sim EXCEPT ![a][i] = x]
      BY <1>1, <1>6, <2>2 DEF Candidates!Simulate
    <3> HIDE DEF x, e
    <3>3. AtEntry(a, i, e, x)
      BY <1>1, <3>1, <3>2 DEF AtEntry, e
    <3> QED BY <3>3, EntryStep
  <2> QED BY <1>6, <2>1, <2>2 DEF Candidates!Simulate
<1>7. CASE Candidates!FailItem(a, i)
  <2> DEFINE f == [e EXCEPT !.status = "FAILED", !.token = 0]
             x == [y EXCEPT !.pc = "done"]
  <2>1. f \in Entries /\ f.token = 0 /\ f.result = e.result /\ f.price = e.price
    BY <1>1 DEF Entries, EntryStatus
  <2>2. x \in Sims /\ x.pc = "done"
    BY <1>2
  <2>3. entry' = [entry EXCEPT ![i] = f] /\ sim' = [sim EXCEPT ![a][i] = x]
    BY <1>7 DEF Candidates!FailItem, Candidates!Sims, Candidates!Nobody
  <2> HIDE DEF f, x
  <2>4. AtEntry(a, i, f, x)
    BY <1>1, <1>3, <2>1, <2>2, <2>3 DEF AtEntry
  <2> QED BY <2>4, EntryStep
<1>8. CASE Candidates!SaveResult(a, i)
  <2> DEFINE x == [Candidates!Waiting EXCEPT !.pc = "done"]
  <2>1. x \in Sims /\ x.pc = "done" /\ y.pc = "simulated" /\ sim' = [sim EXCEPT ![a][i] = x]
    BY <1>8, WaitingSims DEF Candidates!SaveResult
  <2> HIDE DEF x
  <2>2. CASE UNCHANGED entry
    <3>1. entry' = [entry EXCEPT ![i] = e]
      BY <1>1, <2>2
    <3> HIDE DEF e
    <3>2. AtEntry(a, i, e, x)
      BY <1>1, <2>1, <3>1 DEF AtEntry, e
    <3> QED BY <3>2, EntryStep
  <2>3. CASE entry[i].token = a /\ entry' = [entry EXCEPT ![i].status = "SUCCEEDED",
                ![i].token = Candidates!Nobody, ![i].result = sim[a][i].price]
    <3> DEFINE f == [e EXCEPT !.status = "SUCCEEDED", !.token = 0, !.result = y.price]
    <3>1. /\ f \in Entries /\ f.token = 0 /\ f.result = y.price /\ f.price = e.price
      BY <1>1 DEF Entries, EntryStatus, Sims
    <3>2. entry' = [entry EXCEPT ![i] = f]
      BY <2>3 DEF Candidates!Nobody
    <3>3. f.result >= e.result /\ f.result <= f.price
      BY <1>1, <2>1, <2>3, <3>1 DEF Entries, Sims
    <3> HIDE DEF f
    <3>4. AtEntry(a, i, f, x)
      BY <1>1, <1>3, <2>1, <3>1, <3>2, <3>3 DEF AtEntry
    <3> QED BY <3>4, EntryStep
  <2> QED BY <1>8, <2>2, <2>3 DEF Candidates!SaveResult, Candidates!MaySave
<1>9. CASE Candidates!RunItemRaises(a, i)
  BY <1>4, <1>9 DEF Candidates!RunItemRaises
<1> QED BY <1>5, <1>6, <1>7, <1>8, <1>9

\* Entries that are pending, canceled or failed anew keep what was saved.
LEMMA EntriesSame ==
  ASSUME CandidateInv, UNCHANGED sim, NEW some, NEW status \in EntryStatus,
         entry' = [i \in Items |-> IF i \in some THEN [entry[i] EXCEPT !.status = status] ELSE entry[i]]
  PROVE  CandidateInv' /\ NeverBack
<1>1. ASSUME NEW i \in Items
      PROVE  /\ entry'[i] \in Entries
             /\ entry'[i].token = entry[i].token /\ entry'[i].result = entry[i].result
             /\ entry'[i].price >= entry[i].price
  <2> DEFINE e == entry[i]
             f == [e EXCEPT !.status = status]
  <2>1. e \in Entries
    BY DEF CandidateInv
  <2>2. /\ f \in Entries /\ f.token = e.token /\ f.result = e.result /\ f.price = e.price
        /\ e.price >= e.price
    BY <2>1 DEF Entries
  <2>3. entry'[i] = f \/ entry'[i] = e
    OBVIOUS
  <2> HIDE DEF e, f
  <2>4. /\ entry'[i] \in Entries /\ entry'[i].token = e.token /\ entry'[i].result = e.result
        /\ entry'[i].price >= e.price
    BY <2>1, <2>2, <2>3
  <2> QED BY <2>4 DEF e
<1>2. entry' \in [Items -> Entries]
  BY <1>1
<1> QED BY <1>1, <1>2, EntriesStep

LEMMA PrepareRunStep ==
  ASSUME CandidateInv, NEW a \in Candidates!Run, Candidates!PrepareRun(a)
  PROVE  CandidateInv' /\ NeverBack
<1>1. CASE UNCHANGED entry
  BY <1>1, SameEntries DEF Candidates!PrepareRun
<1>2. CASE entry' = [i \in Items |-> IF entry[i].status = "FETCHING_DATA"
               THEN [entry[i] EXCEPT !.status = "PENDING"] ELSE entry[i]]
  <2> DEFINE some == {i \in Items : entry[i].status = "FETCHING_DATA"}
  <2>1. entry' = [i \in Items |-> IF i \in some THEN [entry[i] EXCEPT !.status = "PENDING"]
                                  ELSE entry[i]]
    BY <1>2
  <2>2. UNCHANGED sim /\ "PENDING" \in EntryStatus
    BY DEF Candidates!PrepareRun, EntryStatus
  <2> HIDE DEF some
  <2> QED BY <2>1, <2>2, EntriesSame
<1> QED BY <1>1, <1>2 DEF Candidates!PrepareRun

\* ControlledStop and CancelPlan: what waits is canceled, or nothing.
LEMMA StopStep ==
  ASSUME CandidateInv, UNCHANGED sim,
         \/ UNCHANGED entry
         \/ entry' = [i \in Items |-> IF entry[i].status = "PENDING"
                        THEN [entry[i] EXCEPT !.status = "CANCELED"] ELSE entry[i]]
  PROVE  CandidateInv' /\ NeverBack
<1>1. CASE UNCHANGED entry
  BY <1>1, SameEntries
<1>2. CASE entry' = [i \in Items |-> IF entry[i].status = "PENDING"
                       THEN [entry[i] EXCEPT !.status = "CANCELED"] ELSE entry[i]]
  <2> DEFINE some == {i \in Items : entry[i].status = "PENDING"}
  <2>1. entry' = [i \in Items |-> IF i \in some THEN [entry[i] EXCEPT !.status = "CANCELED"]
                                  ELSE entry[i]]
    BY <1>2
  <2>2. "CANCELED" \in EntryStatus
    BY DEF EntryStatus
  <2> HIDE DEF some
  <2> QED BY <2>1, <2>2, EntriesSame
<1> QED BY <1>1, <1>2

LEMMA RetryPlanStep ==
  ASSUME CandidateInv, Candidates!RetryPlan
  PROVE  CandidateInv' /\ NeverBack
<1> DEFINE some == {i \in Items : entry[i].status = "FAILED"}
<1>1. /\ UNCHANGED sim /\ "PENDING" \in EntryStatus
      /\ entry' = [i \in Items |-> IF i \in some THEN [entry[i] EXCEPT !.status = "PENDING"]
                                   ELSE entry[i]]
  BY DEF Candidates!RetryPlan, Candidates!Control, EntryStatus
<1> HIDE DEF some
<1> QED BY <1>1, EntriesSame

LEMMA NewPriceStep ==
  ASSUME CandidateInv, NEW i \in Items, Candidates!NewPriceVersion(i)
  PROVE  CandidateInv' /\ NeverBack
<1> DEFINE e == entry[i]
           f == [e EXCEPT !.price = @ + 1, !.status = "PENDING"]
<1>1. /\ UNCHANGED sim /\ entry' = [entry EXCEPT ![i] = f]
  BY DEF Candidates!NewPriceVersion
<1>2. \A j \in Items : entry[j] \in Entries
  BY DEF CandidateInv
<1>3. /\ f \in Entries /\ f.token = e.token /\ f.result = e.result /\ f.price >= e.price
  <2>1. e \in Entries /\ e.price \in Nat
    BY <1>2 DEF Entries
  <2> DEFINE p == e.price + 1
  <2>2. p \in Nat /\ p >= e.price /\ "PENDING" \in EntryStatus
    BY <2>1 DEF EntryStatus
  <2>3. f = [e EXCEPT !.price = p, !.status = "PENDING"]
    BY <2>1 DEF Entries
  <2> HIDE DEF p
  <2> QED BY <2>1, <2>2, <2>3 DEF Entries
<1> HIDE DEF f
<1>4. entry' \in [Items -> Entries] /\ \A j \in Items : entry'[j] = IF j = i THEN f ELSE entry[j]
  BY <1>1, <1>3 DEF CandidateInv
<1>5. ASSUME NEW j \in Items
      PROVE  /\ entry'[j].token = entry[j].token /\ entry'[j].result = entry[j].result
             /\ entry'[j].price >= entry[j].price
  <2>1. entry[j].price >= entry[j].price
    BY <1>2 DEF Entries
  <2> QED BY <1>3, <1>4, <2>1
<1> QED BY <1>1, <1>4, <1>5, EntriesStep

LEMMA PendingItemsStep ==
  ASSUME CandidateInv, NEW a \in Candidates!Run, Candidates!PendingItems(a)
  PROVE  CandidateInv' /\ NeverBack
<1>1. UNCHANGED entry
  BY DEF Candidates!PendingItems
<1>2. CASE UNCHANGED sim
  BY <1>1, <1>2, SameEntries
<1>3. ASSUME NEW first,
             sim' = [sim EXCEPT ![a] = [i \in Items |->
                       IF i \in first THEN [Candidates!Waiting EXCEPT !.pc = "chosen"]
                       ELSE Candidates!Waiting]]
      PROVE  CandidateInv' /\ NeverBack
  <2> DEFINE row == [i \in Items |->
                       IF i \in first THEN [Candidates!Waiting EXCEPT !.pc = "chosen"]
                       ELSE Candidates!Waiting]
  <2>1. row \in [Items -> Sims] /\ (\A i \in Items : row[i].pc # "simulated")
        /\ sim' = [sim EXCEPT ![a] = row]
    BY <1>3, WaitingSims
  <2> HIDE DEF row
  <2> QED BY <1>1, <2>1, SimRowStep
<1> QED BY <1>2, <1>3 DEF Candidates!PendingItems

LEMMA LoseRunStep ==
  ASSUME CandidateInv, NEW a \in Candidates!Run, NEW dies \in BOOLEAN, Candidates!LoseLease(a, dies)
  PROVE  CandidateInv' /\ NeverBack
<1>1. UNCHANGED entry
  BY DEF Candidates!LoseLease
<1>2. CASE UNCHANGED sim
  BY <1>1, <1>2, SameEntries
<1>3. CASE sim' = [sim EXCEPT ![a] = [i \in Items |-> Candidates!Waiting]]
  <2> DEFINE row == [i \in Items |-> Candidates!Waiting]
  <2>1. row \in [Items -> Sims] /\ (\A i \in Items : row[i].pc # "simulated")
        /\ sim' = [sim EXCEPT ![a] = row]
    BY <1>3, WaitingSims
  <2> HIDE DEF row
  <2> QED BY <1>1, <2>1, SimRowStep
<1> QED BY <1>2, <1>3 DEF Candidates!LoseLease

LEMMA CandidateNext ==
  ASSUME CandidateInv, Candidates!CNext
  PROVE  CandidateInv' /\ NeverBack
<1>1. ASSUME NEW a \in Candidates!Run, Candidates!Attempts(a)
      PROVE  CandidateInv' /\ NeverBack
  <2>1. CASE Candidates!PrepareRun(a)
    BY <2>1, PrepareRunStep
  <2>2. CASE Candidates!TaskAction(a) \/ Candidates!Progress(a) \/ Candidates!Finish(a)
             \/ Candidates!Commit(a)
    BY <2>2, SameEntries DEF Candidates!TaskAction, Candidates!Progress, Candidates!Finish,
       Candidates!Commit
  <2>3. CASE Candidates!PendingItems(a)
    BY <2>3, PendingItemsStep
  <2>4. CASE Candidates!ControlledStop(a)
    BY <2>4, StopStep DEF Candidates!ControlledStop
  <2>5. CASE \E i \in Items : Candidates!ClaimItem(a, i) \/ Candidates!Simulate(a, i)
               \/ Candidates!FailItem(a, i) \/ Candidates!SaveResult(a, i)
               \/ Candidates!RunItemRaises(a, i)
    BY <2>5, SimulationStep
  <2> QED BY <1>1, <2>1, <2>2, <2>3, <2>4, <2>5 DEF Candidates!Attempts
<1>2. ASSUME NEW a \in Candidates!Run, NEW g \in Candidates!Generation, Candidates!ClaimJob(a, g)
      PROVE  CandidateInv' /\ NeverBack
  BY <1>2, SameEntries DEF Candidates!ClaimJob
<1>3. ASSUME NEW a \in Candidates!Run, NEW dies \in BOOLEAN, Candidates!LoseLease(a, dies)
      PROVE  CandidateInv' /\ NeverBack
  BY <1>3, LoseRunStep
<1>4. CASE Candidates!PausePlan \/ Candidates!ResumePlan \/ Candidates!CancelPlan
  BY <1>4, StopStep DEF Candidates!PausePlan, Candidates!ResumePlan, Candidates!CancelPlan,
     Candidates!Control
<1>5. CASE Candidates!RetryPlan
  BY <1>5, RetryPlanStep
<1>6. CASE \E i \in Items : Candidates!NewPriceVersion(i)
  BY <1>6, NewPriceStep
<1> QED BY <1>1, <1>2, <1>3, <1>4, <1>5, <1>6 DEF Candidates!CNext

LEMMA CandidateStart == Candidates!CInit => CandidateInv
<1> SUFFICES ASSUME Candidates!CInit PROVE CandidateInv
  OBVIOUS
<1>1. Candidates!NewEntry \in Entries /\ Candidates!NewEntry.result <= Candidates!NewEntry.price
  BY DEF Candidates!NewEntry, Candidates!Nobody, Entries, EntryStatus
<1>2. /\ entry = [i \in Items |-> Candidates!NewEntry]
      /\ sim = [a \in Candidates!Run |-> [i \in Items |-> Candidates!Waiting]]
  BY DEF Candidates!CInit
<1>3. \A i \in Items : Priced(entry[i], [a \in Candidates!Run |-> sim[a][i]])
  BY <1>1, <1>2, WaitingSims DEF Priced
<1> QED BY <1>1, <1>2, <1>3, WaitingSims DEF CandidateInv

\* Two jobs of the candidates' task, or two attempts at one, may simulate the same
\* item with different prices and save in any order: the result that is shown never
\* falls back to one of older prices (claims and saves of candidate_application.py
\* compare the token of the item).
THEOREM CandidatePrices == Candidates!CSpec => PricesNeverGoBack
<1>1. CandidateInv /\ [Candidates!CNext]_(Candidates!cvars) => CandidateInv' /\ NeverBack
  <2> SUFFICES ASSUME CandidateInv, [Candidates!CNext]_(Candidates!cvars)
               PROVE  CandidateInv' /\ NeverBack
    OBVIOUS
  <2>1. CASE Candidates!CNext
    BY <2>1, CandidateNext
  <2>2. CASE UNCHANGED Candidates!cvars
    BY <2>2, SameEntries DEF Candidates!cvars
  <2> QED BY <2>1, <2>2
<1>2. CandidateInv /\ [Candidates!CNext]_(Candidates!cvars)
        => [\A i \in Items : entry'[i].result >= entry[i].result]_(Candidates!cvars)
  BY <1>1 DEF NeverBack
<1> QED BY CandidateStart, <1>1, <1>2, PTL
     DEF Candidates!CSpec, PricesNeverGoBack, Candidates!PricesNeverGoBack

-----------------------------------------------------------------------------
(* The corporate actions of a security.                                     *)

LEMMA Least ==
  ASSUME NEW T \in SUBSET Nat, T # {}
  PROVE  \E x \in T : \A y \in T : x <= y
<1> DEFINE R == OpToRel(<, Nat)
<1>1. \A x, y \in Nat : y < x => <<y, x>> \in R
  BY DEF OpToRel
<1>2. IsWellFoundedOn(R, Nat)
  BY NatLessThanWellFounded
<1> HIDE DEF R
<1>3. PICK x \in T : \A y \in T : ~ (<<y, x>> \in R)
  BY <1>2, WFMin, Zenon
<1>4. ASSUME NEW y \in T PROVE x <= y
  <2>1. x \in Nat /\ y \in Nat
    BY <1>3
  <2>2. ~(y < x)
    BY <1>1, <1>3, <2>1, Zenon
  <2> QED BY <2>1, <2>2
<1> QED BY <1>3, <1>4

\* Of numbers below a bound one is the greatest.
LEMMA Greatest ==
  ASSUME NEW T \in SUBSET Nat, NEW n \in Nat, T # {}, \A x \in T : x <= n
  PROVE  \E x \in T : \A y \in T : y <= x
<1> DEFINE D == {n - x : x \in T}
<1>1. D \subseteq Nat
  <2>1. \A x \in T : x \in Nat /\ x <= n /\ n - x \in Nat
    OBVIOUS
  <2> QED BY <2>1
<1>2. D # {}
  OBVIOUS
<1>3. PICK d \in D : \A y \in D : d <= y
  BY <1>1, <1>2, Least
<1> QED BY <1>3

Fetch == [id : Nat, range : Ranges, ok : BOOLEAN, said : [Event -> Content \cup {Nothing}],
          observed : Nat, fetched : Nat]
Fact == [event : Event, revision : Nat \ {0}, content : Content, by : Fetch]

FetchSound(f, t) ==
  /\ f \in Fetch /\ f.observed <= f.fetched /\ f.fetched <= t
  /\ ~f.ok => Actions!Told(f.said) = {}
  /\ \A e \in Actions!Told(f.said) : EffectiveOn[f.said[e]] \in f.range

Tells(r, f, e) == r.event = e /\ r.content = f.said[e]

\* A revision comes after another, or is the first.
Follows(r, F) == r.revision = 1 \/ \E s \in F : s.event = r.event /\ s.revision + 1 = r.revision

\* Rows that are inserted, and not yet committed.
Inserting(c, F) ==
  /\ \A r \in c.rows : /\ r \in Fact /\ r.by = c.fetch /\ c.fetch.ok
                       /\ Tells(r, c.fetch, r.event) /\ Follows(r, F)
  /\ \A r, s \in c.rows : r.event = s.event => r = s
  /\ ~Actions!Clashing(c.rows, F)
  /\ \A e \in Actions!Told(c.fetch.said) : \E r \in F \cup c.rows : Tells(r, c.fetch, e)

\* What a caller was told is stored by the moment as of which he asks.
Dated(c, t) == c.asOf \in Nat /\ c.asOf <= t /\ c.fetch.fetched <= c.asOf
Known(c, F) ==
  \A e \in Actions!Told(c.fetch.said) :
    \E r \in F : Tells(r, c.fetch, e) /\ r.by.fetched <= c.asOf

CoverSound(c, F, B) ==
  /\ c.cover \in B /\ c.cover.ok /\ c.fetch.range \subseteq c.cover.range
  /\ c.fetch.observed <= c.cover.observed
  /\ \A e \in Actions!Told(c.fetch.said) : \E r \in F :
       /\ Tells(r, c.fetch, e) /\ r.by.fetched <= c.asOf
       /\ r.by.observed > c.cover.observed => ~(c.fetch.range \subseteq r.by.range)

AnswerSound(c, F, B) ==
  /\ c.cover \in B /\ c.cover.ok /\ c.fetch.range \subseteq c.cover.range
  /\ c.fetch.observed <= c.cover.observed
  /\ c.timeline \subseteq F
  /\ \A r, s \in c.timeline : r.event = s.event => r = s
  /\ \A e \in Actions!Told(c.fetch.said) : \E r \in F :
       /\ Tells(r, c.fetch, e)
       /\ \/ \E s \in c.timeline : s.event = e /\ r.revision <= s.revision
          \/ r.by.observed > c.cover.observed /\ ~(c.fetch.range \subseteq r.by.range)

AfterCommit == {"stored", "dated", "covered", "answered"}
WithFetch == {"begun", "locking", "read", "inserted"} \cup AfterCommit

CallerSound(c, t, F, B) ==
  /\ c.pc = "asked" => /\ c.range \in Ranges /\ c.id \in Nat /\ c.observed \in Nat
                       /\ c.observed <= t
  /\ c.pc \in WithFetch => FetchSound(c.fetch, t)
  /\ c.pc \in {"locking", "read"} => c.seen \subseteq F
  /\ c.pc = "inserted" => Inserting(c, F)
  /\ c.pc \in AfterCommit => c.fetch \in B /\ c.fetch.ok
  /\ c.pc \in {"dated", "covered"} => Dated(c, t)
  /\ c.pc = "dated" => Known(c, F)
  /\ c.pc = "covered" => CoverSound(c, F, B)
  /\ c.pc = "answered" => AnswerSound(c, F, B)

Numbered(F) == \E n \in Nat : \A r \in F : r.revision <= n

ActionsInv ==
  /\ now \in Nat /\ fetches \in Nat /\ caller = [p \in Caller |-> caller[p]]
  /\ \A b \in fetched : FetchSound(b, now)
  /\ facts \subseteq Fact /\ Numbered(facts) /\ Actions!FactsSound
  /\ \A p \in Caller : CallerSound(caller[p], now, facts, fetched)
  /\ \A p, q \in Caller : p # q =>
       ~Actions!Clashing(Actions!Inserted(p), Actions!Inserted(q))

LEMMA PreparerGoes ==
  ASSUME ActionsInv, NEW p \in Caller, NEW step, Actions!Go(p, step)
  PROVE  /\ caller' = [q \in Caller |-> caller'[q]]
         /\ caller'[p] = step /\ \A q \in Caller \ {p} : caller'[q] = caller[q]
BY DEF ActionsInv, Actions!Go

LEMMA ClashesBoth ==
  ASSUME NEW R, NEW S, Actions!Clashing(R, S)
  PROVE  Actions!Clashing(S, R)
BY DEF Actions!Clashing

\* As time passes and facts and batches are added, what a caller holds stays sound,
\* unless the facts clash with those he inserts.
LEMMA SoundLater ==
  ASSUME NEW c, NEW t \in Nat, NEW u \in Nat, t <= u, NEW F, NEW G, F \subseteq G,
         NEW B, NEW D, B \subseteq D, CallerSound(c, t, F, B),
         c.pc = "inserted" => ~Actions!Clashing(c.rows, G)
  PROVE  CallerSound(c, u, G, D)
<1>1. c.pc = "asked" => /\ c.range \in Ranges /\ c.id \in Nat /\ c.observed \in Nat
                        /\ c.observed <= u
  BY DEF CallerSound
<1>2. c.pc \in WithFetch => FetchSound(c.fetch, u)
  <2>1. ASSUME FetchSound(c.fetch, t) PROVE FetchSound(c.fetch, u)
    <3>1. c.fetch.fetched \in Nat
      BY <2>1 DEF FetchSound, Fetch
    <3>2. c.fetch.fetched <= u
      BY <2>1, <3>1 DEF FetchSound
    <3> QED BY <2>1, <3>2, Zenon DEF FetchSound
  <2> QED BY <2>1 DEF CallerSound
<1>3. c.pc \in {"locking", "read"} => c.seen \subseteq G
  BY DEF CallerSound
<1>4. c.pc = "inserted" => Inserting(c, G)
  BY DEF CallerSound, Inserting, Follows
<1>5. c.pc \in AfterCommit => c.fetch \in D /\ c.fetch.ok
  BY DEF CallerSound
<1>6. c.pc \in {"dated", "covered"} => Dated(c, u)
  BY DEF CallerSound, Dated
<1>7. c.pc = "dated" => Known(c, G)
  BY DEF CallerSound, Known
<1>8. c.pc = "covered" => CoverSound(c, G, D)
  BY DEF CallerSound, CoverSound
<1>9. c.pc = "answered" => AnswerSound(c, G, D)
  BY DEF CallerSound, AnswerSound
<1> QED BY <1>1, <1>2, <1>3, <1>4, <1>5, <1>6, <1>7, <1>8, <1>9, Zenon DEF CallerSound

\* A step that changes nothing but what its caller holds.
LEMMA PreparerKeeps ==
  ASSUME ActionsInv, NEW p \in Caller, NEW step, Actions!Go(p, step),
         UNCHANGED <<now, fetched, facts>>, fetches' \in Nat,
         CallerSound(step, now, facts, fetched),
         step.pc = "inserted" =>
           \A q \in Caller \ {p} : ~Actions!Clashing(step.rows, Actions!Inserted(q))
  PROVE  ActionsInv'
<1>1. /\ caller' = [q \in Caller |-> caller'[q]]
      /\ caller'[p] = step /\ \A q \in Caller \ {p} : caller'[q] = caller[q]
  BY PreparerGoes
<1>2. \A q \in Caller : CallerSound(caller'[q], now', facts', fetched')
  BY <1>1, Zenon DEF ActionsInv
<1>3. /\ Actions!Inserted(p)' = IF step.pc = "inserted" THEN step.rows ELSE {}
      /\ \A q \in Caller \ {p} : Actions!Inserted(q)' = Actions!Inserted(q)
  BY <1>1 DEF Actions!Inserted, Actions!At
<1>4. ASSUME NEW q \in Caller \ {p}
      PROVE  /\ ~Actions!Clashing(Actions!Inserted(p)', Actions!Inserted(q)')
             /\ ~Actions!Clashing(Actions!Inserted(q)', Actions!Inserted(p)')
  <2>1. ~Actions!Clashing(Actions!Inserted(p)', Actions!Inserted(q)')
    BY <1>3 DEF Actions!Clashing
  <2> QED BY <2>1, ClashesBoth
<1>5. ASSUME NEW q \in Caller, NEW r \in Caller, q # r
      PROVE  ~Actions!Clashing(Actions!Inserted(q)', Actions!Inserted(r)')
  <2>1. CASE q # p /\ r # p
    BY <1>3, <1>5, <2>1 DEF ActionsInv
  <2> QED BY <1>4, <1>5, <2>1
<1>6. Actions!FactsSound'
  BY DEF ActionsInv, Actions!FactsSound
<1> QED BY <1>1, <1>2, <1>5, <1>6, Zenon DEF ActionsInv

LEMMA ActionsInit ==
  ASSUME Actions!Init PROVE ActionsInv
<1>1. \A p \in Caller : caller[p].pc = "idle"
  BY DEF Actions!Init, Actions!Idle
<1>2. \A p \in Caller : CallerSound(caller[p], now, facts, fetched)
  BY <1>1 DEF CallerSound, WithFetch, AfterCommit
<1>3. \A p, q \in Caller : ~Actions!Clashing(Actions!Inserted(p), Actions!Inserted(q))
  BY <1>1 DEF Actions!Inserted, Actions!At, Actions!Clashing
<1>4. Numbered(facts) /\ Actions!FactsSound
  BY DEF Actions!Init, Numbered, Actions!FactsSound
<1> QED BY <1>2, <1>3, <1>4 DEF Actions!Init, ActionsInv

-----------------------------------------------------------------------------
(* A fetch.                                                                 *)

LEMMA AskKeepsActions ==
  ASSUME ActionsInv, NEW p \in Caller, Actions!Ask(p)
  PROVE  ActionsInv'
<1>1. PICK range \in Ranges :
        Actions!Go(p, [pc |-> "asked", range |-> range, id |-> fetches, observed |-> now])
  BY Zenon DEF Actions!Ask
<1> DEFINE step == [pc |-> "asked", range |-> range, id |-> fetches, observed |-> now]
<1>2. /\ step.pc = "asked" /\ step.range = range /\ step.id = fetches /\ step.observed = now
      /\ Actions!Go(p, step)
  BY <1>1
<1> HIDE DEF step
<1>3. now \in Nat /\ fetches \in Nat
  BY DEF ActionsInv
<1>4. CallerSound(step, now, facts, fetched)
  BY <1>2, <1>3 DEF CallerSound, WithFetch, AfterCommit
<1>5. fetches' \in Nat /\ UNCHANGED <<now, fetched, facts>>
  BY <1>3 DEF Actions!Ask
<1> QED BY <1>2, <1>4, <1>5, PreparerKeeps

LEMMA AnswerKeeps ==
  ASSUME ActionsInv, NEW p \in Caller, Actions!Answer(p)
  PROVE  ActionsInv'
<1> DEFINE c == caller[p]
           Silence == [e \in Event |-> Nothing]
           Fetched(ok, said) ==
             [id |-> c.id, range |-> c.range, ok |-> ok, said |-> said,
              observed |-> IF Actions!Told(said) = {} THEN now ELSE c.observed,
              fetched |-> now]
           Begun(f) == [pc |-> "begun", fetch |-> f, locked |-> {}, attempt |-> 1]
<1>1. /\ c.range \in Ranges /\ c.id \in Nat /\ c.observed \in Nat /\ c.observed <= now
      /\ now \in Nat /\ fetches' \in Nat /\ UNCHANGED <<now, fetched, facts>>
  BY DEF ActionsInv, CallerSound, Actions!Answer, Actions!At
<1>2. ASSUME NEW ok \in BOOLEAN, NEW said \in [Event -> Content \cup {Nothing}],
             ~ok => Actions!Told(said) = {},
             \A e \in Actions!Told(said) : EffectiveOn[said[e]] \in c.range,
             Actions!Go(p, Begun(Fetched(ok, said)))
      PROVE  ActionsInv'
  <2> DEFINE f == Fetched(ok, said)
             step == Begun(f)
  <2>1. f \in Fetch
    BY <1>1 DEF Fetch
  <2>2. f.said = said /\ f.ok = ok /\ f.range = c.range /\ f.fetched = now /\ f.observed <= now
    BY <1>1
  <2> HIDE DEF f
  <2>3. FetchSound(f, now)
    BY <1>1, <1>2, <2>1, <2>2 DEF FetchSound
  <2>4. step.pc = "begun" /\ step.fetch = f
    OBVIOUS
  <2>5. Actions!Go(p, step)
    BY <1>2 DEF f
  <2> HIDE DEF step
  <2>6. CallerSound(step, now, facts, fetched) /\ step.pc # "inserted"
    BY <2>3, <2>4 DEF CallerSound, WithFetch, AfterCommit
  <2> QED BY <1>1, <2>5, <2>6, PreparerKeeps
<1>3. CASE \E said \in Actions!Answers(c.range) : Actions!Go(p, Begun(Fetched(TRUE, said)))
  <2>1. PICK said \in Actions!Answers(c.range) : Actions!Go(p, Begun(Fetched(TRUE, said)))
    BY <1>3
  <2>2. /\ said \in [Event -> Content \cup {Nothing}]
        /\ \A e \in Actions!Told(said) : EffectiveOn[said[e]] \in c.range
    BY DEF Actions!Answers
  <2> QED BY <1>2, <2>1, <2>2
<1>4. CASE Actions!Go(p, Begun(Fetched(FALSE, Silence)))
  <2>1. Silence \in [Event -> Content \cup {Nothing}] /\ Actions!Told(Silence) = {}
    BY DEF Actions!Told
  <2> QED BY <1>2, <1>4, <2>1
<1> QED BY <1>3, <1>4 DEF Actions!Answer

LEMMA ReadKeeps ==
  ASSUME ActionsInv, NEW p \in Caller, Actions!Read(p) \/ Actions!Lock(p)
  PROVE  ActionsInv'
<1> DEFINE c == caller[p]
           Seeing(pc, locked, seen) ==
             [pc |-> pc, fetch |-> c.fetch, locked |-> locked, attempt |-> c.attempt,
              seen |-> seen]
<1>1. /\ c.pc \in {"begun", "locking"} /\ CallerSound(c, now, facts, fetched)
      /\ fetches' \in Nat /\ UNCHANGED <<now, fetched, facts>>
  BY DEF ActionsInv, Actions!Read, Actions!Lock, Actions!At
<1>2. ASSUME NEW pc \in {"locking", "read"}, NEW locked, NEW seen \in SUBSET facts,
             Actions!Go(p, Seeing(pc, locked, seen))
      PROVE  ActionsInv'
  <2> DEFINE step == Seeing(pc, locked, seen)
  <2>1. step.pc = pc /\ step.fetch = c.fetch /\ step.seen = seen /\ Actions!Go(p, step)
    BY <1>2
  <2> HIDE DEF step
  <2>2. CallerSound(step, now, facts, fetched) /\ step.pc # "inserted"
    BY <1>1, <2>1 DEF CallerSound, WithFetch, AfterCommit
  <2> QED BY <1>1, <2>1, <2>2, PreparerKeeps
<1>3. CASE Actions!Read(p)
  <2> DEFINE seen == {r \in facts : r.event \in Actions!Told(c.fetch.said)}
  <2>1. Actions!Go(p, Seeing("locking", c.locked, seen))
    BY <1>3, Zenon DEF Actions!Read
  <2>2. seen \in SUBSET facts
    OBVIOUS
  <2> HIDE DEF seen, Seeing
  <2> QED BY <1>2, <2>1, <2>2
<1>4. CASE Actions!Lock(p)
  <2> DEFINE locked == c.locked \cup {r.event : r \in c.seen}
  <2>1. Actions!Go(p, Seeing("read", locked, c.seen))
    BY <1>4, Zenon DEF Actions!Lock
  <2>2. c.seen \in SUBSET facts
    BY <1>1, <1>4 DEF Actions!Lock, Actions!At, CallerSound
  <2> HIDE DEF locked, Seeing
  <2> QED BY <1>2, <2>1, <2>2
<1> QED BY <1>3, <1>4

LEMMA LeavesKeepActions ==
  ASSUME ActionsInv, NEW p \in Caller, Actions!Go(p, Actions!Idle),
         UNCHANGED <<now, fetches, fetched, facts>>
  PROVE  ActionsInv'
<1>1. Actions!Idle.pc = "idle"
  BY DEF Actions!Idle
<1>2. CallerSound(Actions!Idle, now, facts, fetched) /\ fetches' \in Nat
  BY <1>1 DEF CallerSound, WithFetch, AfterCommit, ActionsInv
<1> QED BY <1>1, <1>2, PreparerKeeps

\* The next revision of an event follows one that was seen, or is the first.
LEMMA NextFollows ==
  ASSUME ActionsInv, NEW seen \in SUBSET facts, NEW e \in Event
  PROVE  LET k == Actions!NextRevision(seen, e) IN
         /\ k \in Nat \ {0}
         /\ k = 1 \/ \E s \in facts : s.event = e /\ s.revision + 1 = k
<1> DEFINE R == {r.revision : r \in {s \in seen : s.event = e}}
<1>1. \A s \in facts : s.revision \in Nat
  BY DEF ActionsInv, Fact
<1>2. R \subseteq Nat /\ \A m \in R : \E s \in facts : s.event = e /\ s.revision = m
  BY <1>1
<1>3. CASE R = {}
  BY <1>3 DEF Actions!NextRevision
<1>4. CASE R # {}
  <2> DEFINE m == CHOOSE n \in R : \A k \in R : k <= n
  <2>1. PICK n \in Nat : \A r \in facts : r.revision <= n
    BY DEF ActionsInv, Numbered
  <2>2. \E x \in R : \A y \in R : y <= x
    <3>1. \A x \in R : x <= n
      BY <1>2, <2>1
    <3> QED BY <1>2, <1>4, <3>1, Greatest
  <2>3. m \in R
    BY <2>2
  <2>4. Actions!NextRevision(seen, e) = m + 1
    BY <1>4 DEF Actions!NextRevision
  <2> HIDE DEF m, R
  <2> QED BY <1>2, <2>3, <2>4
<1> QED BY <1>3, <1>4

LEMMA InsertKeeps ==
  ASSUME ActionsInv, NEW p \in Caller, Actions!Insert(p)
  PROVE  ActionsInv'
<1> DEFINE c == caller[p]
           new == Actions!Revisions(c.fetch, c.seen)
<1>1. /\ CallerSound(c, now, facts, fetched) /\ c.pc = "read"
      /\ fetches' \in Nat /\ UNCHANGED <<now, fetches, fetched, facts>>
  BY DEF ActionsInv, Actions!Insert, Actions!At
<1>2. FetchSound(c.fetch, now) /\ c.seen \subseteq facts
  BY <1>1 DEF CallerSound, WithFetch
<1>3. CASE Actions!Go(p, Actions!Idle)
  BY <1>1, <1>3, LeavesKeepActions
<1>4. CASE Actions!Go(p, [pc |-> "begun", fetch |-> c.fetch, locked |-> c.locked,
                          attempt |-> c.attempt + 1])
  <2> DEFINE step == [pc |-> "begun", fetch |-> c.fetch, locked |-> c.locked,
                      attempt |-> c.attempt + 1]
  <2>1. step.pc = "begun" /\ step.fetch = c.fetch /\ Actions!Go(p, step)
    BY <1>4
  <2> HIDE DEF step
  <2>2. CallerSound(step, now, facts, fetched) /\ step.pc # "inserted"
    BY <1>2, <2>1 DEF CallerSound, WithFetch, AfterCommit
  <2> QED BY <1>1, <2>1, <2>2, PreparerKeeps
<1>5. CASE /\ ~Actions!Clashing(new, facts)
           /\ \A q \in Caller \ {p} : ~Actions!Clashing(new, Actions!Inserted(q))
           /\ Actions!Go(p, [pc |-> "inserted", fetch |-> c.fetch, locked |-> c.locked,
                             rows |-> new])
  <2>1. ASSUME NEW r \in new
        PROVE  /\ r \in Fact /\ r.by = c.fetch /\ c.fetch.ok
               /\ Tells(r, c.fetch, r.event) /\ Follows(r, facts)
               /\ r.event \in Actions!Told(c.fetch.said)
    <3>1. PICK e \in Actions!Told(c.fetch.said) :
            r = [event |-> e, revision |-> Actions!NextRevision(c.seen, e),
                 content |-> c.fetch.said[e], by |-> c.fetch]
      BY DEF Actions!Revisions
    <3>2. /\ e \in Event /\ c.fetch.said[e] \in Content /\ c.fetch \in Fetch /\ c.fetch.ok
      BY <1>2 DEF FetchSound, Fetch, Actions!Told
    <3> DEFINE k == Actions!NextRevision(c.seen, e)
    <3>3. /\ k \in Nat \ {0}
          /\ k = 1 \/ \E s \in facts : s.event = e /\ s.revision + 1 = k
      BY <1>2, <3>2, NextFollows
    <3> HIDE DEF k
    <3>4. r = [event |-> e, revision |-> k, content |-> c.fetch.said[e], by |-> c.fetch]
      BY <3>1 DEF k
    <3> QED BY <3>2, <3>3, <3>4 DEF Fact, Tells, Follows
  <2>2. ASSUME NEW r \in new, NEW s \in new, r.event = s.event PROVE r = s
    BY <2>2 DEF Actions!Revisions
  <2>3. ASSUME NEW e \in Actions!Told(c.fetch.said)
        PROVE  \E r \in facts \cup new : Tells(r, c.fetch, e)
    <3>1. CASE \E r \in c.seen : r.event = e /\ r.content = c.fetch.said[e]
      BY <1>2, <3>1 DEF Tells
    <3>2. CASE \A r \in c.seen : r.event = e => r.content # c.fetch.said[e]
      <4> DEFINE r == [event |-> e, revision |-> Actions!NextRevision(c.seen, e),
                       content |-> c.fetch.said[e], by |-> c.fetch]
      <4>1. r \in new
        BY <3>2, Zenon DEF Actions!Revisions
      <4>2. Tells(r, c.fetch, e)
        BY DEF Tells
      <4> HIDE DEF r, new
      <4> QED BY <4>1, <4>2
    <3> QED BY <3>1, <3>2
  <2> DEFINE step == [pc |-> "inserted", fetch |-> c.fetch, locked |-> c.locked, rows |-> new]
  <2>4. step.pc = "inserted" /\ step.fetch = c.fetch /\ step.rows = new /\ Actions!Go(p, step)
    BY <1>5
  <2> HIDE DEF step, new
  <2>5. Inserting(step, facts)
    BY <1>5, <2>1, <2>2, <2>3, <2>4 DEF Inserting
  <2>6. CallerSound(step, now, facts, fetched)
    BY <1>2, <2>4, <2>5 DEF CallerSound, WithFetch, AfterCommit
  <2> QED BY <1>1, <1>5, <2>4, <2>6, PreparerKeeps
<1> QED BY <1>3, <1>4, <1>5, Zenon DEF Actions!Insert


\* The facts with those that are committed.
LEMMA CommittedFacts ==
  ASSUME ActionsInv, NEW c, c.pc = "inserted", CallerSound(c, now, facts, fetched),
         fetched' = fetched \cup {c.fetch}, facts' = facts \cup c.rows
  PROVE  Actions!FactsSound'
<1>1. Inserting(c, facts) /\ Actions!FactsSound /\ FetchSound(c.fetch, now)
  BY DEF CallerSound, WithFetch, ActionsInv
<1>2. ASSUME NEW r \in facts' PROVE r.by \in fetched' /\ r.by.ok /\ r.by.said[r.event] = r.content
  BY <1>1, <1>2 DEF Inserting, Tells, Actions!FactsSound
<1>3. ASSUME NEW r \in facts', NEW s \in facts', r.event = s.event,
             r.revision = s.revision \/ r.content = s.content
      PROVE  r = s
  <2>1. CASE r \in facts /\ s \in facts
    BY <1>1, <1>3, <2>1 DEF Actions!FactsSound
  <2>2. CASE r \in c.rows /\ s \in c.rows
    BY <1>1, <1>3, <2>2 DEF Inserting
  <2>3. ~(r \in c.rows /\ s \in facts) /\ ~(r \in facts /\ s \in c.rows)
    BY <1>1, <1>3 DEF Inserting, Actions!Clashing
  <2> QED BY <1>3, <2>1, <2>2, <2>3
<1>4. ASSUME NEW r \in facts' PROVE Follows(r, facts')
  BY <1>1, <1>4 DEF Inserting, Follows, Actions!FactsSound
<1>5. ASSUME NEW b \in fetched', NEW e \in Event, b.said[e] # Nothing
      PROVE  \E r \in facts' : r.event = e /\ r.content = b.said[e]
  <2>1. CASE b \in fetched
    BY <1>1, <1>5, <2>1 DEF Actions!FactsSound
  <2>2. CASE b = c.fetch
    <3>1. e \in Actions!Told(c.fetch.said)
      BY <1>5, <2>2 DEF Actions!Told
    <3> QED BY <1>1, <2>2, <3>1 DEF Inserting, Tells
  <2> QED BY <1>5, <2>1, <2>2
<1> QED BY <1>2, <1>3, <1>4, <1>5 DEF Actions!FactsSound, Follows

LEMMA CommitKeeps ==
  ASSUME ActionsInv, NEW p \in Caller, Actions!Commit(p)
  PROVE  ActionsInv'
<1> DEFINE c == caller[p]
<1>1. /\ CallerSound(c, now, facts, fetched) /\ c.pc = "inserted"
      /\ fetched' = fetched \cup {c.fetch} /\ facts' = facts \cup c.rows
      /\ UNCHANGED <<now, fetches>> /\ now \in Nat /\ fetches \in Nat
  BY DEF ActionsInv, Actions!Commit, Actions!At
<1>2. FetchSound(c.fetch, now) /\ Inserting(c, facts)
  BY <1>1 DEF CallerSound, WithFetch
<1>3. \A b \in fetched' : FetchSound(b, now)
  BY <1>1, <1>2 DEF ActionsInv
<1>4. facts' \subseteq Fact
  BY <1>1, <1>2 DEF ActionsInv, Inserting
<1>5. Numbered(facts')
  <2>1. PICK n \in Nat : \A r \in facts : r.revision <= n
    BY DEF ActionsInv, Numbered
  <2>2. \A r \in facts' : r.revision \in Nat
    BY <1>4 DEF Fact
  <2>3. ASSUME NEW r \in c.rows PROVE r.revision <= n + 1
    <3>1. Follows(r, facts)
      BY <1>2 DEF Inserting
    <3>2. CASE r.revision = 1
      BY <2>1, <3>2
    <3>3. ASSUME NEW s \in facts, s.revision + 1 = r.revision PROVE r.revision <= n + 1
      <4>1. s.revision <= n /\ s.revision \in Nat
        BY <1>1, <2>1, <2>2
      <4> QED BY <2>1, <3>3, <4>1
    <3> QED BY <3>1, <3>2, <3>3 DEF Follows
  <2>4. \A r \in facts' : r.revision <= n + 1
    BY <1>1, <2>1, <2>2, <2>3
  <2>5. n + 1 \in Nat
    BY <2>1
  <2> QED BY <2>4, <2>5 DEF Numbered
<1>6. Actions!FactsSound'
  BY <1>1, CommittedFacts
<1>7. PICK step : /\ Actions!Go(p, step) /\ step.pc \in {"stored", "idle"}
                  /\ step.pc = "stored" => step.fetch = c.fetch /\ c.fetch.ok
  <2>1. Actions!Idle.pc = "idle"
    BY DEF Actions!Idle
  <2> DEFINE stored == [pc |-> "stored", fetch |-> c.fetch]
  <2>2. stored.pc = "stored" /\ stored.fetch = c.fetch
    OBVIOUS
  <2>3. Actions!Go(p, IF c.fetch.ok THEN stored ELSE Actions!Idle)
    BY Zenon DEF Actions!Commit
  <2> HIDE DEF stored
  <2>4. CASE c.fetch.ok
    BY <2>2, <2>3, <2>4
  <2>5. CASE ~c.fetch.ok
    BY <2>1, <2>3, <2>5
  <2> QED BY <2>4, <2>5
<1>8. CallerSound(step, now, facts', fetched')
  BY <1>1, <1>2, <1>7 DEF CallerSound, WithFetch, AfterCommit
<1>9. /\ caller' = [q \in Caller |-> caller'[q]]
      /\ caller'[p] = step /\ \A q \in Caller \ {p} : caller'[q] = caller[q]
  BY <1>7, PreparerGoes
<1>10. ASSUME NEW q \in Caller \ {p} PROVE CallerSound(caller[q], now, facts', fetched')
  <2>1. ~Actions!Clashing(Actions!Inserted(q), Actions!Inserted(p))
    BY DEF ActionsInv
  <2>2. caller[q].pc = "inserted" => ~Actions!Clashing(caller[q].rows, facts')
    <3>1. ASSUME caller[q].pc = "inserted" PROVE ~Actions!Clashing(caller[q].rows, facts')
      <4>1. CallerSound(caller[q], now, facts, fetched)
        BY DEF ActionsInv
      <4>2. ~Actions!Clashing(caller[q].rows, facts)
        BY <3>1, <4>1 DEF CallerSound, Inserting
      <4>3. ~Actions!Clashing(caller[q].rows, c.rows)
        BY <1>1, <2>1, <3>1 DEF Actions!Inserted, Actions!At
      <4> QED BY <1>1, <4>2, <4>3 DEF Actions!Clashing
    <3> QED BY <3>1
  <2>3. CallerSound(caller[q], now, facts, fetched)
    BY DEF ActionsInv
  <2>4. facts \subseteq facts' /\ fetched \subseteq fetched' /\ now <= now
    BY <1>1
  <2> QED BY <1>1, <2>2, <2>3, <2>4, SoundLater
<1>11. \A q \in Caller : CallerSound(caller'[q], now', facts', fetched')
  BY <1>1, <1>8, <1>9, <1>10
<1>12. \A q, r \in Caller : q # r =>
         ~Actions!Clashing(Actions!Inserted(q)', Actions!Inserted(r)')
  <2>1. /\ Actions!Inserted(p)' = {}
        /\ \A q \in Caller \ {p} : Actions!Inserted(q)' = Actions!Inserted(q)
    BY <1>7, <1>9 DEF Actions!Inserted, Actions!At
  <2>2. ASSUME NEW q \in Caller, NEW r \in Caller, q # r
        PROVE  ~Actions!Clashing(Actions!Inserted(q)', Actions!Inserted(r)')
    <3>1. CASE q # p /\ r # p
      BY <2>1, <2>2, <3>1 DEF ActionsInv
    <3>2. CASE q = p \/ r = p
      BY <2>1, <3>2 DEF Actions!Clashing
    <3> QED BY <3>1, <3>2
  <2> QED BY <2>2
<1> QED BY <1>1, <1>3, <1>4, <1>5, <1>6, <1>9, <1>11, <1>12, Zenon DEF ActionsInv

-----------------------------------------------------------------------------
(* A timeline.                                                              *)

LEMMA AsOfKeeps ==
  ASSUME ActionsInv, NEW p \in Caller, Actions!AsOf(p)
  PROVE  ActionsInv'
<1> DEFINE c == caller[p]
           step == [pc |-> "dated", fetch |-> c.fetch, asOf |-> now]
<1>1. /\ CallerSound(c, now, facts, fetched) /\ c.pc = "stored"
      /\ UNCHANGED <<now, fetches, fetched, facts>> /\ fetches' \in Nat /\ now \in Nat
      /\ Actions!FactsSound
  BY DEF ActionsInv, Actions!AsOf, Actions!At
<1>2. /\ step.pc = "dated" /\ step.fetch = c.fetch /\ step.asOf = now /\ Actions!Go(p, step)
  BY Zenon DEF Actions!AsOf
<1> HIDE DEF step
<1>3. FetchSound(c.fetch, now) /\ c.fetch \in fetched /\ c.fetch.ok
  BY <1>1 DEF CallerSound, WithFetch, AfterCommit
<1>4. Dated(step, now)
  BY <1>1, <1>2, <1>3 DEF Dated, FetchSound
<1>5. Known(step, facts)
  <2>1. ASSUME NEW e \in Actions!Told(c.fetch.said)
        PROVE  \E r \in facts : Tells(r, c.fetch, e) /\ r.by.fetched <= now
    <3>1. PICK r \in facts : r.event = e /\ r.content = c.fetch.said[e]
      BY <1>1, <1>3 DEF Actions!Told, Actions!FactsSound
    <3>2. FetchSound(r.by, now)
      BY <1>1, <3>1 DEF Actions!FactsSound, ActionsInv
    <3> QED BY <3>1, <3>2 DEF Tells, FetchSound
  <2> QED BY <1>2, <2>1 DEF Known
<1>6. CallerSound(step, now, facts, fetched) /\ step.pc # "inserted"
  BY <1>2, <1>3, <1>4, <1>5 DEF CallerSound, WithFetch, AfterCommit
<1> QED BY <1>1, <1>2, <1>6, PreparerKeeps

\* No stored batch that covers is observed later than the latest.
LEMMA LatestObserved ==
  ASSUME ActionsInv, NEW range, NEW asOf \in Nat,
         NEW b \in Actions!Covering(range, asOf),
         \A c \in Actions!Covering(range, asOf) : ~Actions!Later(c, b),
         NEW f \in fetched, f.ok, f.fetched <= asOf, range \subseteq f.range
  PROVE  f.observed <= b.observed
<1>1. FetchSound(f, now) /\ FetchSound(b, now)
  BY DEF ActionsInv, Actions!Covering
<1>2. f.observed \in Nat /\ f.fetched \in Nat /\ f.observed <= f.fetched /\ b.observed \in Nat
  BY <1>1 DEF FetchSound, Fetch
<1>3. f \in Actions!Covering(range, asOf)
  BY <1>2 DEF Actions!Covering
<1>4. ~(f.observed > b.observed)
  BY <1>3, Zenon DEF Actions!Later
<1> QED BY <1>2, <1>4

LEMMA CoverKeeps ==
  ASSUME ActionsInv, NEW p \in Caller, Actions!Cover(p)
  PROVE  ActionsInv'
<1> DEFINE c == caller[p]
           covering == Actions!Covering(c.fetch.range, c.asOf)
           Covered(b) == [pc |-> "covered", fetch |-> c.fetch, asOf |-> c.asOf, cover |-> b]
<1>1. /\ CallerSound(c, now, facts, fetched) /\ c.pc = "dated"
      /\ UNCHANGED <<now, fetches, fetched, facts>> /\ fetches' \in Nat
      /\ Actions!FactsSound
  BY DEF ActionsInv, Actions!Cover, Actions!At
<1>2. /\ FetchSound(c.fetch, now) /\ c.fetch \in fetched /\ c.fetch.ok
      /\ Dated(c, now) /\ Known(c, facts)
  BY <1>1 DEF CallerSound, WithFetch, AfterCommit
<1>3. CASE Actions!Go(p, Actions!Idle)
  BY <1>1, <1>3, LeavesKeepActions
<1>4. ASSUME NEW b \in covering, \A d \in covering : ~Actions!Later(d, b),
             Actions!Go(p, Covered(b))
      PROVE  ActionsInv'
  <2> DEFINE step == Covered(b)
  <2>1. /\ step.pc = "covered" /\ step.fetch = c.fetch /\ step.asOf = c.asOf /\ step.cover = b
        /\ Actions!Go(p, step)
    BY <1>4
  <2> HIDE DEF step
  <2>2. b \in fetched /\ b.ok /\ c.fetch.range \subseteq b.range
    BY <1>4 DEF Actions!Covering
  <2>3. c.asOf \in Nat /\ c.fetch.fetched <= c.asOf
    BY <1>2 DEF Dated
  <2>4. c.fetch.observed <= b.observed
    BY <1>2, <1>4, <2>3, LatestObserved
  <2>5. ASSUME NEW e \in Actions!Told(c.fetch.said)
        PROVE  \E r \in facts :
                 /\ Tells(r, c.fetch, e) /\ r.by.fetched <= c.asOf
                 /\ r.by.observed > b.observed => ~(c.fetch.range \subseteq r.by.range)
    <3>1. PICK r \in facts : Tells(r, c.fetch, e) /\ r.by.fetched <= c.asOf
      BY <1>2 DEF Known
    <3>2. r.by \in fetched /\ r.by.ok
      BY <1>1, <3>1 DEF Actions!FactsSound
    <3>3. c.fetch.range \subseteq r.by.range => r.by.observed <= b.observed
      BY <1>4, <2>3, <3>1, <3>2, LatestObserved
    <3>4. r.by.observed \in Nat /\ b.observed \in Nat
      BY <2>2, <3>2 DEF ActionsInv, FetchSound, Fetch
    <3>5. r.by.observed > b.observed => ~(c.fetch.range \subseteq r.by.range)
      BY <3>3, <3>4
    <3> QED BY <3>1, <3>5
  <2>6. CoverSound(step, facts, fetched)
    BY <2>1, <2>2, <2>4, <2>5 DEF CoverSound
  <2>7. CallerSound(step, now, facts, fetched) /\ step.pc # "inserted"
    BY <1>2, <2>1, <2>6 DEF CallerSound, WithFetch, AfterCommit, Dated
  <2> QED BY <1>1, <2>1, <2>7, PreparerKeeps
<1>5. ASSUME ~Actions!Go(p, Actions!Idle)
      PROVE  \E b \in {b \in covering : \A d \in covering : ~Actions!Later(d, b)} :
               Actions!Go(p, Covered(b))
  BY <1>5, Zenon DEF Actions!Cover
<1> QED BY <1>3, <1>4, <1>5

\* Of the revisions of an event one is the last.
LEMMA LastOfEvent ==
  ASSUME ActionsInv, NEW rows \in SUBSET facts, NEW r \in rows
  PROVE  \E s \in Actions!LastRevisions(rows) : s.event = r.event /\ r.revision <= s.revision
<1> DEFINE R == {s.revision : s \in {s \in rows : s.event = r.event}}
<1>1. PICK n \in Nat : \A s \in facts : s.revision <= n
  BY DEF ActionsInv, Numbered
<1>2. \A s \in facts : s.revision \in Nat
  BY DEF ActionsInv, Fact
<1>3. R \in SUBSET Nat /\ R # {} /\ \A m \in R : m <= n
  BY <1>1, <1>2
<1>4. PICK m \in R : \A k \in R : k <= m
  BY <1>1, <1>3, Greatest
<1>5. PICK s \in rows : s.event = r.event /\ s.revision = m
  BY <1>4
<1>6. ASSUME NEW u \in rows, u.event = s.event PROVE u.revision <= s.revision
  BY <1>4, <1>5, <1>6
<1>7. s \in Actions!LastRevisions(rows)
  BY <1>5, <1>6 DEF Actions!LastRevisions
<1> QED BY <1>5, <1>6, <1>7

LEMMA SelectKeeps ==
  ASSUME ActionsInv, NEW p \in Caller, Actions!Select(p)
  PROVE  ActionsInv'
<1> DEFINE c == caller[p]
           eligible == Actions!Eligible(c.fetch.range, c.asOf, c.cover)
           step == [pc |-> "answered", fetch |-> c.fetch, asOf |-> c.asOf, cover |-> c.cover,
                    timeline |-> Actions!LastRevisions(eligible)]
<1>1. /\ CallerSound(c, now, facts, fetched) /\ c.pc = "covered"
      /\ UNCHANGED <<now, fetches, fetched, facts>> /\ fetches' \in Nat
      /\ Actions!FactsSound
  BY DEF ActionsInv, Actions!Select, Actions!At
<1>2. /\ FetchSound(c.fetch, now) /\ c.fetch \in fetched /\ c.fetch.ok
      /\ CoverSound(c, facts, fetched)
  BY <1>1 DEF CallerSound, WithFetch, AfterCommit
<1>3. /\ step.pc = "answered" /\ step.fetch = c.fetch /\ step.cover = c.cover
      /\ step.timeline = Actions!LastRevisions(eligible) /\ Actions!Go(p, step)
  BY Zenon DEF Actions!Select
<1> HIDE DEF step
<1>4. eligible \in SUBSET facts
  BY DEF Actions!Eligible
<1>5. step.timeline \subseteq facts
  BY <1>3, <1>4 DEF Actions!LastRevisions
<1>6. ASSUME NEW r \in step.timeline, NEW s \in step.timeline, r.event = s.event
      PROVE  r = s
  <2>1. r.revision <= s.revision /\ s.revision <= r.revision
    BY <1>3, <1>6 DEF Actions!LastRevisions
  <2>2. r.revision \in Nat /\ s.revision \in Nat
    BY <1>5, <1>6 DEF ActionsInv, Fact
  <2>3. r.revision = s.revision
    BY <2>1, <2>2
  <2> QED BY <1>1, <1>5, <1>6, <2>3 DEF Actions!FactsSound
<1>7. ASSUME NEW e \in Actions!Told(c.fetch.said)
      PROVE  \E r \in facts :
               /\ Tells(r, c.fetch, e)
               /\ \/ \E s \in step.timeline : s.event = e /\ r.revision <= s.revision
                  \/ r.by.observed > c.cover.observed /\ ~(c.fetch.range \subseteq r.by.range)
  <2>1. PICK r \in facts :
          /\ Tells(r, c.fetch, e) /\ r.by.fetched <= c.asOf
          /\ r.by.observed > c.cover.observed => ~(c.fetch.range \subseteq r.by.range)
    BY <1>2 DEF CoverSound
  <2>2. CASE r.by.observed > c.cover.observed
    BY <2>1, <2>2
  <2>3. CASE ~(r.by.observed > c.cover.observed)
    <3>1. r.by.observed \in Nat /\ c.cover.observed \in Nat
      BY <1>1, <1>2, <2>1 DEF ActionsInv, Actions!FactsSound, CoverSound, FetchSound, Fetch
    <3>2. r.by.observed <= c.cover.observed
      BY <2>3, <3>1
    <3>3. EffectiveOn[r.content] \in c.fetch.range
      BY <1>2, <2>1 DEF Tells, FetchSound
    <3>4. r \in eligible
      BY <2>1, <3>2, <3>3 DEF Actions!Eligible
    <3> HIDE DEF eligible
    <3>5. \E s \in Actions!LastRevisions(eligible) :
            s.event = r.event /\ r.revision <= s.revision
      BY <1>4, <3>4, LastOfEvent
    <3> QED BY <1>3, <2>1, <3>5 DEF Tells
  <2> QED BY <2>2, <2>3
<1>8. AnswerSound(step, facts, fetched)
  BY <1>2, <1>3, <1>5, <1>6, <1>7 DEF AnswerSound, CoverSound
<1>9. CallerSound(step, now, facts, fetched) /\ step.pc # "inserted"
  BY <1>2, <1>3, <1>8 DEF CallerSound, WithFetch, AfterCommit
<1> QED BY <1>1, <1>3, <1>9, PreparerKeeps

LEMMA TickKeeps ==
  ASSUME ActionsInv, Actions!Tick
  PROVE  ActionsInv'
<1>1. /\ now' = now + 1 /\ now \in Nat /\ now' \in Nat /\ now <= now'
      /\ UNCHANGED <<fetches, fetched, facts, caller>>
  BY DEF ActionsInv, Actions!Tick
<1>2. ASSUME NEW p \in Caller PROVE CallerSound(caller[p], now', facts, fetched)
  <2>1. CallerSound(caller[p], now, facts, fetched)
    BY DEF ActionsInv
  <2>2. caller[p].pc = "inserted" => ~Actions!Clashing(caller[p].rows, facts)
    BY <2>1 DEF CallerSound, Inserting
  <2> QED BY <1>1, <2>1, <2>2, SoundLater
<1>3. ASSUME NEW b \in fetched PROVE FetchSound(b, now')
  <2>1. FetchSound(b, now) /\ b.fetched \in Nat
    BY DEF ActionsInv, FetchSound, Fetch
  <2>2. b.fetched <= now'
    BY <1>1, <2>1 DEF FetchSound
  <2> QED BY <2>1, <2>2, Zenon DEF FetchSound
<1>4. /\ \A p \in Caller : Actions!Inserted(p)' = Actions!Inserted(p)
      /\ Actions!FactsSound' = Actions!FactsSound
  BY <1>1 DEF Actions!Inserted, Actions!At, Actions!FactsSound
<1>5. \A p, q \in Caller : p # q =>
        ~Actions!Clashing(Actions!Inserted(p)', Actions!Inserted(q)')
  BY <1>4 DEF ActionsInv
<1> QED BY <1>1, <1>2, <1>3, <1>4, <1>5, Zenon DEF ActionsInv

LEMMA ActionsNext ==
  ASSUME ActionsInv, Actions!Next
  PROVE  ActionsInv'
<1>1. CASE Actions!Tick
  BY <1>1, TickKeeps
<1>2. ASSUME NEW p \in Caller,
             \/ Actions!Ask(p) \/ Actions!Answer(p) \/ Actions!Read(p) \/ Actions!Lock(p)
             \/ Actions!Insert(p) \/ Actions!Commit(p) \/ Actions!AsOf(p) \/ Actions!Cover(p)
             \/ Actions!Select(p) \/ Actions!Use(p) \/ Actions!Fail(p)
      PROVE  ActionsInv'
  <2>1. CASE Actions!Use(p) \/ Actions!Fail(p)
    <3>1. Actions!Go(p, Actions!Idle) /\ UNCHANGED <<now, fetches, fetched, facts>>
      BY <2>1 DEF Actions!Use, Actions!Fail
    <3> QED BY <3>1, LeavesKeepActions
  <2>2. CASE Actions!Ask(p) \/ Actions!Answer(p)
    BY <2>2, AskKeepsActions, AnswerKeeps
  <2>3. CASE Actions!Read(p) \/ Actions!Lock(p)
    BY <2>3, ReadKeeps
  <2>4. CASE Actions!Insert(p) \/ Actions!Commit(p)
    BY <2>4, InsertKeeps, CommitKeeps
  <2>5. CASE Actions!AsOf(p) \/ Actions!Cover(p) \/ Actions!Select(p)
    BY <2>5, AsOfKeeps, CoverKeeps, SelectKeeps
  <2> QED BY <1>2, <2>1, <2>2, <2>3, <2>4, <2>5
<1> QED BY <1>1, <1>2 DEF Actions!Next

\* What ActionsInv says of an answer is what is promised of it.
LEMMA AnswersAreSound == ActionsInv => Actions!ActionsSound
<1> SUFFICES ASSUME ActionsInv PROVE Actions!ActionsSound
  OBVIOUS
<1>1. ASSUME NEW p \in Caller, Actions!At(p, "answered")
      PROVE  Actions!TimelineSound(caller[p].fetch, caller[p])
  <2>1. AnswerSound(caller[p], facts, fetched)
    BY <1>1 DEF ActionsInv, CallerSound, Actions!At
  <2> QED BY <2>1 DEF AnswerSound, Tells, Actions!TimelineSound
<1> QED BY <1>1 DEF ActionsInv, Actions!ActionsSound

\* However many callers collect the corporate actions of a security at once, whatever
\* the source tells each of them and whoever fails, no event that was told is lost or
\* stored twice, its revisions are numbered without a gap, and a timeline stands on a
\* batch of the whole range no older than the caller's own and tells of an event what
\* he was told or a later revision, except for an event that a narrower fetch stored
\* later (CorporateActionService.record_fetch, get_adjustment_timeline).
THEOREM ActionFacts == Actions!Spec => []Actions!ActionsSound
<1>1. Actions!Init => ActionsInv
  BY ActionsInit
<1>2. ActionsInv /\ [Actions!Next]_(Actions!vars) => ActionsInv'
  <2> SUFFICES ASSUME ActionsInv, [Actions!Next]_(Actions!vars) PROVE ActionsInv'
    OBVIOUS
  <2>1. CASE Actions!Next
    BY <2>1, ActionsNext
  <2>2. CASE UNCHANGED Actions!vars
    <3>1. UNCHANGED <<now, fetches, fetched, facts, caller>>
      BY <2>2 DEF Actions!vars
    <3>2. /\ \A p \in Caller : Actions!Inserted(p)' = Actions!Inserted(p)
          /\ Actions!FactsSound' = Actions!FactsSound
      BY <3>1 DEF Actions!Inserted, Actions!At, Actions!FactsSound
    <3>3. \A p, q \in Caller : p # q =>
            ~Actions!Clashing(Actions!Inserted(p)', Actions!Inserted(q)')
      BY <3>2 DEF ActionsInv
    <3> QED BY <3>1, <3>2, <3>3, Zenon DEF ActionsInv
  <2> QED BY <2>1, <2>2
<1> QED BY <1>1, <1>2, AnswersAreSound, PTL DEF Actions!Spec

\* What the run of the three checks, for any instance: items end once and with what
\* their task froze, and the corporate actions are sound (BacktestService,
\* CorporateActionService).
THEOREM BacktestsKept == AllSpec => []BacktestsSound
<1>1. AllInit => Init /\ Actions!Init
  BY DEF AllInit
<1>2. [AllNext]_<<vars, cvars, avars, kind>> => [Next]_vars /\ [Actions!Next]_Actions!vars
  BY DEF AllNext, avars, Actions!vars
<1>3. AllSpec => Spec /\ Actions!Spec
  BY <1>1, <1>2, PTL DEF AllSpec, Spec, Actions!Spec
<1>4. ItemsSound /\ Actions!ActionsSound => BacktestsSound
  BY DEF BacktestsSound
<1> QED BY <1>3, <1>4, BacktestItems, ActionFacts, PTL
=============================================================================
