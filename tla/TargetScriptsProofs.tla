------------------------- MODULE TargetScriptsProofs -------------------------
(***************************************************************************)
(* Proofs about the targets and their scripts, for any runs, settings,     *)
(* iterations, losses and restarts.                                        *)
(*                                                                         *)
(* Every exchange of a script has a reason for what it adds to the         *)
(* measurements of its run (Reasoned), which follows from where the run    *)
(* stands and what it has been given (Placed).  What the measurements say  *)
(* (Good) is then kept by every exchange alike, and by the steps of others *)
(* since a run that is disturbed stays so.                                 *)
(***************************************************************************)
EXTENDS TargetScripts, TLAPS

Places ==
    {"idle", "create", "fetch", "fixture-pack", "archive", "read-many", "manifest",
     "download", "upload", "selective-fetch", "tar-package", "get", "connect", "echo",
     "welcome", "broadcast"}

Measures == {"iterations", "requests", "refused", "errors", "slow", "lost", "broken"}

RunTyped(r) ==
    /\ DOMAIN run[r] = Measures
    /\ run[r].iterations \in Nat /\ run[r].requests \in Nat /\ run[r].refused \in Nat
    /\ run[r].errors \in Nat /\ run[r].lost \in Nat /\ run[r].slow \in Nat

Typed ==
    /\ script \in Scripts
    /\ setting \in [Runs -> Settings(script)]
    /\ pc \in [Runs -> Places]
    /\ hand \in [Runs -> Nat]
    /\ DOMAIN run = Runs
    /\ \A r \in Runs : RunTyped(r)
    /\ items \in Nat /\ rows \in SEED_ROWS..MAX_TOTAL_ROWS
    /\ heard \in [Runs -> Messages \cup {Silence}]
    /\ restarts \in 0..MaxRestarts

(***************************************************************************)
(* The reasons for which a check fails and a request is refused although   *)
(* nothing has disturbed the run.                                          *)
(***************************************************************************)
GivenUp(r) == script \in Streams /\ Duration(r) >= 10000
Short(r) == script = "tar" /\ setting[r].picked > setting[r].count
Overheard(r) == \E q \in Runs \ {r} : setting[q].message # setting[r].message
Accompanied(r) == \E q \in Runs \ {r} : TRUE

Accepted(r) == Granted(r) /\ ~GivenUp(r)

(***************************************************************************)
(* What the measurements of a run say.                                     *)
(***************************************************************************)
Counted(r) ==
    /\ run[r].errors <= run[r].lost + run[r].slow
    /\ run[r].broken # {} => run[r].requests > 0
    /\ script = "smoke" => run[r].refused <= run[r].lost
    /\ script \in LegacyScripts \ {"smoke"} => run[r].refused <= run[r].errors
    /\ script \notin LegacyScripts => run[r].errors = 0

Explained(r) ==
    /\ Undisturbed(r) /\ Accepted(r) /\ run[r].broken # {} =>
         \/ Short(r)
         \/ script \in TimeChecked /\ run[r].slow > 0
         \/ /\ script = "ws-broadcast"
            /\ Overheard(r) \/ (run[r].broken = {"welcome"} /\ Accompanied(r))
    /\ Undisturbed(r) /\ Accepted(r) /\ run[r].refused > 0 => script = "flaky"

Noticed(r) ==
    /\ run[r].broken # {} =>
         run[r].refused > 0 \/ run[r].errors > 0 \/ script \in NoThreshold \/ Short(r)
    /\ run[r].requests > 0 /\ ~WithinLimits(r) =>
         \/ run[r].refused > 0 \/ run[r].slow = run[r].requests
         \/ script = "tar" /\ pc[r] = "selective-fetch"

Good(r) ==
    /\ run[r].refused <= run[r].requests /\ run[r].slow <= run[r].requests
    /\ Counted(r) /\ Explained(r) /\ Noticed(r)

(***************************************************************************)
(* What a run has been given, where it stands in its script.               *)
(***************************************************************************)
Placed(r) ==
    /\ script = "crud" /\ pc[r] = "fetch" /\ restarts = 0 => hand[r] \in 1..items
    /\ script = "db-crud" /\ pc[r] = "fetch" /\ restarts = 0 /\ rows < MAX_TOTAL_ROWS =>
         hand[r] \in 1..rows
    /\ script \in {"file", "roundtrip"} /\ pc[r] = "upload" =>
         /\ hand[r] = 0 => run[r].lost > 0
         /\ ~Granted(r) => run[r].refused > 0
    /\ script = "tar" /\ pc[r] = "selective-fetch" =>
         setting[r].count \in 1..20 /\ setting[r].kb \in 1..256
    /\ script = "tar" /\ pc[r] = "tar-package" /\ ~Granted(r) => run[r].refused > 0

Hears(r) ==
    heard[r] # Silence =>
        /\ pc[r] \in {"welcome", "broadcast"}
        /\ \E q \in Runs : /\ heard[r] = setting[q].message
                           /\ pc[r] = "welcome" => q # r

TargetInv == Typed /\ \A r \in Runs : Good(r) /\ Placed(r) /\ Hears(r)
-----------------------------------------------------------------------------
(***************************************************************************)
(* An exchange moves one run and adds to its measurements, by one or zero, *)
(* for the reasons that Good needs.                                        *)
(***************************************************************************)
Adds(k, r, from, refused, errors, lost, failed, late) ==
    /\ DOMAIN k = Measures
    /\ k.iterations = run[r].iterations
    /\ k.requests = run[r].requests + 1
    /\ k.refused = run[r].refused + refused
    /\ k.errors = run[r].errors + errors
    /\ k.lost = run[r].lost + lost
    /\ k.slow = run[r].slow + late
    /\ k.broken = IF failed = 0 THEN run[r].broken ELSE run[r].broken \cup {from}

Exchange(r, from, to, refused, errors, lost, failed, late) ==
    /\ pc[r] = from /\ pc' = [pc EXCEPT ![r] = to]
    /\ DOMAIN run' = Runs
    /\ \A q \in Runs \ {r} : run'[q] = run[q]
    /\ Adds(run'[r], r, from, refused, errors, lost, failed, late)

Reasoned(r, from, to, refused, errors, lost, failed, late) ==
    /\ failed = 1 /\ Undisturbed(r)' /\ Accepted(r) =>
         \/ Short(r)
         \/ script \in TimeChecked /\ late = 1
         \/ /\ script = "ws-broadcast"
            /\ Overheard(r) \/ (from = "welcome" /\ Accompanied(r))
    /\ refused = 1 /\ Undisturbed(r)' /\ Accepted(r) => script = "flaky"
    /\ failed = 1 => \/ refused = 1 \/ errors = 1 \/ run[r].refused > 0
                     \/ script \in NoThreshold \/ Short(r)
    /\ ~WithinLimits(r) => \/ refused = 1 \/ run[r].refused > 0
                           \/ late = 1 /\ script # "tar"
                           \/ script = "tar" /\ to = "selective-fetch"
    /\ errors <= lost + late
    /\ script = "smoke" => refused <= lost
    /\ script \in LegacyScripts \ {"smoke"} => refused <= errors
    /\ script \notin LegacyScripts => errors = 0

\* The settings stay, and the target takes nothing back.
Onward ==
    /\ UNCHANGED <<script, setting, restarts>>
    /\ items' \in Nat /\ items' >= items
    /\ rows' \in SEED_ROWS..MAX_TOTAL_ROWS /\ rows' >= rows

LEMMA SettingsAreNumbers ==
    ASSUME Typed, NEW r \in Runs
    PROVE  /\ setting[r].count \in Int /\ setting[r].picked \in Int
           /\ setting[r].kb \in Int /\ setting[r].ms \in Int
           /\ Selected(setting[r]) \in Int
<1>1. setting[r] \in Settings(script)
  BY DEF Typed
<1>2. /\ setting[r].count \in Int /\ setting[r].picked \in Int
      /\ setting[r].kb \in Int /\ setting[r].ms \in Int
  BY <1>1, TargetAssumption DEF Settings
<1> QED BY <1>2 DEF Selected

Refusal(status) == IF status >= 400 THEN 1 ELSE 0
Failure(ok) == IF ok THEN 0 ELSE 1

LEMMA SlownessIsSmall ==
    ASSUME NEW r, NEW status, NEW slow \in Slowness(r, status)
    PROVE  slow \in {0, 1} /\ (AsksForTime(r) /\ status # 422 => slow = 1)
BY DEF Slowness

LEMMA MeasuredFields ==
    ASSUME Typed, NEW r \in Runs, NEW from \in Places, NEW status \in Nat,
           NEW ok \in BOOLEAN, NEW slow \in {0, 1}
    PROVE  Adds(Measured(r, from, status, ok, slow), r, from,
                Refusal(status), 0, 0, Failure(ok), slow)
BY DEF Typed, RunTyped, Measures, Measured, Adds, Refusal, Failure

LEMMA AnswerIsExchange ==
    ASSUME Typed, NEW r \in Runs, NEW from \in Places, NEW to \in Places,
           NEW status \in Nat, NEW ok \in BOOLEAN, Answer(r, from, to, status, ok)
    PROVE  \E late \in {0, 1} :
             /\ Exchange(r, from, to, Refusal(status), 0, 0, Failure(ok), late)
             /\ AsksForTime(r) /\ Refusal(status) = 0 => late = 1
<1>1. PICK slow \in Slowness(r, status) :
        run' = [run EXCEPT ![r] = Measured(r, from, status, ok, slow)]
  BY DEF Answer
<1>2. slow \in {0, 1} /\ (AsksForTime(r) /\ status # 422 => slow = 1)
  BY SlownessIsSmall
<1>3. /\ DOMAIN run' = Runs /\ run'[r] = Measured(r, from, status, ok, slow)
      /\ \A q \in Runs \ {r} : run'[q] = run[q]
  BY <1>1 DEF Typed
<1>4. Refusal(status) = 0 => status # 422
  BY SMT DEF Refusal
<1>5. Exchange(r, from, to, Refusal(status), 0, 0, Failure(ok), slow)
  BY <1>2, <1>3, MeasuredFields DEF Exchange, Answer
<1> QED BY <1>2, <1>4, <1>5

LEMMA LossIsExchange ==
    ASSUME Typed, NEW r \in Runs, NEW from \in Places, NEW to \in Places, Lose(r, from, to)
    PROVE  \E late \in {0, 1} : Exchange(r, from, to, 1, 0, 1, 1, late)
<1>1. PICK slow \in {0, 1} :
        run' = [run EXCEPT ![r].requests = @ + 1, ![r].refused = @ + 1, ![r].slow = @ + slow,
                           ![r].lost = @ + 1, ![r].broken = @ \cup {from}]
  BY DEF Lose
<1> DEFINE k == [[[[[run[r] EXCEPT !.requests = @ + 1] EXCEPT !.refused = @ + 1]
                   EXCEPT !.slow = @ + slow] EXCEPT !.lost = @ + 1]
                   EXCEPT !.broken = @ \cup {from}]
<1>2. /\ DOMAIN run' = Runs /\ run'[r] = k
      /\ \A q \in Runs \ {r} : run'[q] = run[q]
  BY <1>1 DEF Typed, RunTyped, Measures
<1>3. Adds(k, r, from, 1, 0, 1, 1, slow)
  BY DEF Typed, RunTyped, Measures, Adds
<1> HIDE DEF k
<1>4. Exchange(r, from, to, 1, 0, 1, 1, slow)
  BY <1>2, <1>3 DEF Exchange, Lose
<1> QED BY <1>4

LEMMA ToldIsExchange ==
    ASSUME Typed, NEW r \in Runs, NEW status \in Nat, NEW ok \in BOOLEAN,
           NEW errors \in Nat, NEW slow \in {0, 1}, Told(r, status, ok, errors, slow)
    PROVE  Exchange(r, "get", "idle", Refusal(status), errors, Refusal(status),
                    Failure(ok), slow)
<1> DEFINE m == Measured(r, "get", status, ok, slow)
           k == [[m EXCEPT !.lost = IF status >= 400 THEN @ + 1 ELSE @]
                  EXCEPT !.errors = @ + errors]
<1>1. run' = [run EXCEPT ![r] = k]
  BY DEF Told, Measured
<1>2. "get" \in Places
  BY DEF Places
<1>3. Adds(m, r, "get", Refusal(status), 0, 0, Failure(ok), slow)
  BY <1>2, MeasuredFields
<1>4. run[r].errors \in Nat /\ run[r].lost \in Nat
  BY DEF Typed, RunTyped
<1> HIDE DEF m
<1>5. Adds(k, r, "get", Refusal(status), errors, Refusal(status), Failure(ok), slow)
  BY <1>3, <1>4 DEF Adds, Measures, Refusal
<1> HIDE DEF k
<1>6. /\ DOMAIN run' = Runs /\ run'[r] = k
      /\ \A q \in Runs \ {r} : run'[q] = run[q]
  BY <1>1 DEF Typed
<1>7. pc[r] = "get" /\ pc' = [pc EXCEPT ![r] = "idle"]
  BY DEF Told
<1>8. Adds(run'[r], r, "get", Refusal(status), errors, Refusal(status), Failure(ok), slow)
  BY <1>5, <1>6
<1> QED BY <1>6, <1>7, <1>8 DEF Exchange
-----------------------------------------------------------------------------
(***************************************************************************)
(* What a run says stays true.                                             *)
(***************************************************************************)
LEMMA SettingsStay ==
    ASSUME UNCHANGED <<script, setting>>, NEW r \in Runs
    PROVE  /\ Granted(r)' <=> Granted(r)
           /\ WithinLimits(r)' <=> WithinLimits(r)
           /\ Accepted(r)' <=> Accepted(r)
           /\ Short(r)' <=> Short(r)
           /\ Overheard(r)' <=> Overheard(r)
           /\ Accompanied(r)' <=> Accompanied(r)
<1>0. script' = script /\ setting' = setting
  OBVIOUS
<1>1. Granted(r)' <=> Granted(r)
  BY <1>0 DEF Granted
<1>2. Duration(r)' = Duration(r) /\ (AsksForTime(r)' <=> AsksForTime(r))
  BY <1>0 DEF Duration, AsksForTime
<1> QED BY <1>0, <1>1, <1>2 DEF WithinLimits, Accepted, GivenUp, Short, Overheard, Accompanied

LEMMA DisturbedStays ==
    ASSUME Typed, Onward, NEW r \in Runs, run'[r].lost \in Nat, run[r].lost <= run'[r].lost,
           Undisturbed(r)'
    PROVE  Undisturbed(r)
BY TargetAssumption DEF Typed, RunTyped, Onward, Undisturbed

LEMMA ExchangeKeeps ==
    ASSUME Typed, Onward, NEW r \in Runs, Good(r), NEW from \in Places, NEW to \in Places,
           NEW refused \in {0, 1}, NEW errors \in {0, 1}, NEW lost \in {0, 1},
           NEW failed \in {0, 1}, NEW late \in {0, 1},
           Exchange(r, from, to, refused, errors, lost, failed, late),
           Reasoned(r, from, to, refused, errors, lost, failed, late)
    PROVE  RunTyped(r)' /\ Good(r)'
<1> DEFINE k == run[r]
           l == run'[r]
<1>1. /\ k.iterations \in Nat /\ k.requests \in Nat /\ k.refused \in Nat
      /\ k.errors \in Nat /\ k.lost \in Nat /\ k.slow \in Nat
  BY DEF Typed, RunTyped
<1>2. /\ DOMAIN l = Measures /\ l.iterations = k.iterations
      /\ l.requests = k.requests + 1 /\ l.refused = k.refused + refused
      /\ l.errors = k.errors + errors /\ l.lost = k.lost + lost
      /\ l.slow = k.slow + late
      /\ l.broken = IF failed = 0 THEN k.broken ELSE k.broken \cup {from}
      /\ pc'[r] = to
  BY DEF Exchange, Adds, Typed
<1>3. RunTyped(r)'
  BY <1>1, <1>2 DEF RunTyped
<1>4. script' = script
  BY DEF Onward
<1> HIDE DEF k, l
<1>5. Undisturbed(r)' => Undisturbed(r)
  BY <1>1, <1>2, DisturbedStays DEF k, l
<1>6. /\ Granted(r)' <=> Granted(r)
      /\ WithinLimits(r)' <=> WithinLimits(r)
      /\ Accepted(r)' <=> Accepted(r)
      /\ Short(r)' <=> Short(r)
      /\ Overheard(r)' <=> Overheard(r)
      /\ Accompanied(r)' <=> Accompanied(r)
  BY SettingsStay DEF Onward
<1>7. /\ k.refused <= k.requests /\ k.slow <= k.requests
      /\ Counted(r) /\ Explained(r) /\ Noticed(r)
  BY DEF Good, k
<1>8. l.refused <= l.requests /\ l.slow <= l.requests /\ Counted(r)'
  <2>1. l.errors <= l.lost + l.slow
    BY <1>1, <1>2, <1>7 DEF Counted, Reasoned, k, l
  <2>2. script = "smoke" => l.refused <= l.lost
    BY <1>1, <1>2, <1>7 DEF Counted, Reasoned, k, l
  <2>3. script \in LegacyScripts \ {"smoke"} => l.refused <= l.errors
    BY <1>1, <1>2, <1>7 DEF Counted, Reasoned, k, l
  <2>4. script \notin LegacyScripts => l.errors = 0
    BY <1>1, <1>2, <1>7 DEF Counted, Reasoned, k, l
  <2> QED BY <1>1, <1>2, <1>4, <1>7, <2>1, <2>2, <2>3, <2>4 DEF Counted, k, l
<1>9. Explained(r)'
  <2>1. ASSUME Undisturbed(r)', Accepted(r), l.broken # {}
        PROVE  \/ Short(r)
               \/ script \in TimeChecked /\ l.slow > 0
               \/ /\ script = "ws-broadcast"
                  /\ Overheard(r) \/ (l.broken = {"welcome"} /\ Accompanied(r))
    <3>1. k.broken # {} => \/ Short(r)
                           \/ script \in TimeChecked /\ k.slow > 0
                           \/ /\ script = "ws-broadcast"
                              /\ Overheard(r) \/ (k.broken = {"welcome"} /\ Accompanied(r))
      BY <1>5, <1>7, <2>1 DEF Explained, k
    <3>2. failed = 1 => \/ Short(r)
                        \/ script \in TimeChecked /\ late = 1
                        \/ /\ script = "ws-broadcast"
                           /\ Overheard(r) \/ (from = "welcome" /\ Accompanied(r))
      BY <2>1 DEF Reasoned
    <3>3. (k.slow > 0 => l.slow > 0) /\ (late = 1 => l.slow > 0)
      BY <1>1, <1>2
    <3>4. CASE failed = 0
      BY <1>2, <2>1, <3>1, <3>3, <3>4
    <3>5. CASE failed = 1
      BY <1>2, <2>1, <3>1, <3>2, <3>3, <3>5
    <3> QED BY <3>4, <3>5
  <2>2. ASSUME Undisturbed(r)', Accepted(r), l.refused > 0 PROVE script = "flaky"
    BY <1>1, <1>2, <1>5, <1>7, <2>2 DEF Explained, Reasoned, k, l
  <2> QED BY <1>4, <1>6, <2>1, <2>2 DEF Explained, l, TimeChecked
<1>10. Noticed(r)'
  <2>1. ASSUME l.broken # {}
        PROVE  l.refused > 0 \/ l.errors > 0 \/ script \in NoThreshold \/ Short(r)
    <3>1. CASE failed = 0
      BY <1>1, <1>2, <1>7, <2>1, <3>1 DEF Noticed, k, l
    <3>2. CASE failed = 1
      BY <1>1, <1>2, <3>2 DEF Reasoned, k, l
    <3> QED BY <3>1, <3>2
  <2>2. ASSUME ~WithinLimits(r)
        PROVE  \/ l.refused > 0 \/ l.slow = l.requests
               \/ script = "tar" /\ to = "selective-fetch"
    <3>1. k.requests > 0 /\ script # "tar" => k.refused > 0 \/ k.slow = k.requests
      BY <1>7, <2>2 DEF Noticed, k
    <3>2. \/ refused = 1 \/ k.refused > 0 \/ (late = 1 /\ script # "tar")
          \/ script = "tar" /\ to = "selective-fetch"
      BY <2>2 DEF Reasoned, k
    <3> QED BY <1>1, <1>2, <1>7, <3>1, <3>2
  <2> QED BY <1>2, <1>4, <1>6, <2>1, <2>2 DEF Noticed, NoThreshold, l
<1> QED BY <1>3, <1>8, <1>9, <1>10 DEF Good, l

\* A run whose measurements stay, but for the number of its iterations.
LEMMA StaysGood ==
    ASSUME Typed, Onward, NEW q \in Runs, Good(q), RunTyped(q)',
           run'[q].requests = run[q].requests, run'[q].refused = run[q].refused,
           run'[q].errors = run[q].errors, run'[q].lost = run[q].lost,
           run'[q].slow = run[q].slow, run'[q].broken = run[q].broken,
           pc[q] = "selective-fetch" => pc'[q] = "selective-fetch"
    PROVE  Good(q)'
<1>1. RunTyped(q)
  BY DEF Typed
<1>2. Undisturbed(q)' => Undisturbed(q)
  BY <1>1, DisturbedStays DEF RunTyped
<1>3. script' = script
  BY DEF Onward
<1>4. /\ Granted(q)' <=> Granted(q)
      /\ WithinLimits(q)' <=> WithinLimits(q)
      /\ Accepted(q)' <=> Accepted(q)
      /\ Short(q)' <=> Short(q)
      /\ Overheard(q)' <=> Overheard(q)
      /\ Accompanied(q)' <=> Accompanied(q)
  BY SettingsStay DEF Onward
<1>5. Counted(q)'
  BY <1>3 DEF Good, Counted, LegacyScripts
<1>6. Explained(q)'
  BY <1>2, <1>3, <1>4 DEF Good, Explained, TimeChecked
<1>7. Noticed(q)'
  BY <1>3, <1>4 DEF Good, Noticed, NoThreshold
<1> QED BY <1>5, <1>6, <1>7 DEF Good

\* The run of another, while some run takes a step.
LEMMA OthersGood ==
    ASSUME Typed, Onward, NEW q \in Runs, Good(q), run'[q] = run[q], pc'[q] = pc[q]
    PROVE  RunTyped(q)' /\ Good(q)'
<1>1. RunTyped(q)
  BY DEF Typed
<1>2. RunTyped(q)'
  BY <1>1 DEF RunTyped
<1> QED BY <1>2, StaysGood

LEMMA OthersPlaced ==
    ASSUME Typed, Onward, NEW q \in Runs, Placed(q),
           run'[q] = run[q], pc'[q] = pc[q], hand'[q] = hand[q]
    PROVE  Placed(q)'
<1>1. /\ script' = script /\ setting' = setting /\ restarts' = restarts
      /\ items \in Nat /\ items' \in Nat /\ items' >= items
      /\ rows \in Nat /\ rows' \in Nat /\ rows' >= rows /\ MAX_TOTAL_ROWS \in Nat
      /\ hand[q] \in Nat
  BY TargetAssumption DEF Typed, Onward
<1>2. Granted(q)' <=> Granted(q)
  BY SettingsStay DEF Onward
<1> QED BY <1>1, <1>2 DEF Placed
-----------------------------------------------------------------------------
(***************************************************************************)
(* A step of one run, which leaves the others where they are.              *)
(***************************************************************************)
Stepped(r) ==
    /\ Onward
    /\ pc' \in [Runs -> Places] /\ hand' \in [Runs -> Nat]
    /\ heard' \in [Runs -> Messages \cup {Silence}]
    /\ DOMAIN run' = Runs
    /\ \A q \in Runs \ {r} : /\ pc'[q] = pc[q] /\ hand'[q] = hand[q]
                             /\ run'[q] = run[q] /\ heard'[q] = heard[q]
    /\ RunTyped(r)' /\ Good(r)' /\ Hears(r)'

\* The places at which a run needs what it has been given.
Given == {"fetch", "upload", "selective-fetch", "tar-package"}
Room == {"welcome", "broadcast"}

LEMMA StepKeeps ==
    ASSUME TargetInv, NEW r \in Runs, Stepped(r), Placed(r)'
    PROVE  TargetInv'
<1>1. script' = script /\ setting' = setting /\ restarts' = restarts
  BY DEF Stepped, Onward
<1>2. \A q \in Runs : RunTyped(q)' /\ Good(q)' /\ Placed(q)'
  <2> SUFFICES ASSUME NEW q \in Runs PROVE RunTyped(q)' /\ Good(q)' /\ Placed(q)'
    OBVIOUS
  <2>1. CASE q = r
    BY <2>1 DEF Stepped
  <2>2. CASE q # r
    <3>1. pc'[q] = pc[q] /\ hand'[q] = hand[q] /\ run'[q] = run[q]
      BY <2>2 DEF Stepped
    <3> QED BY <3>1, OthersGood, OthersPlaced DEF Stepped, TargetInv
  <2> QED BY <2>1, <2>2
<1>3. \A q \in Runs : Hears(q)'
  <2> SUFFICES ASSUME NEW q \in Runs PROVE Hears(q)'
    OBVIOUS
  <2>1. CASE q = r
    BY <2>1 DEF Stepped
  <2>2. CASE q # r
    <3>1. pc'[q] = pc[q] /\ heard'[q] = heard[q] /\ Hears(q)
      BY <2>2 DEF Stepped, TargetInv
    <3> QED BY <1>1, <3>1 DEF Hears, Silence
  <2> QED BY <2>1, <2>2
<1>4. Typed'
  BY <1>1, <1>2 DEF Typed, Stepped, Onward, TargetInv
<1> QED BY <1>2, <1>3, <1>4 DEF TargetInv

LEMMA PlacedElsewhere ==
    ASSUME NEW r \in Runs, pc'[r] \notin Given
    PROVE  Placed(r)'
BY DEF Placed, Given

\* Whoever is not in the room hears nothing when it comes.
LEMMA HearsNothing ==
    ASSUME NEW r \in Runs, Hears(r), pc[r] \notin Room, heard'[r] = heard[r]
    PROVE  Hears(r)'
BY DEF Hears, Room, Silence

LEMMA LossSteps ==
    ASSUME TargetInv, NEW r \in Runs, NEW from \in Places, NEW to \in Places,
           Lose(r, from, to), script \notin LegacyScripts, Onward,
           hand' \in [Runs -> Nat], heard' \in [Runs -> Messages \cup {Silence}],
           \A q \in Runs \ {r} : hand'[q] = hand[q] /\ heard'[q] = heard[q],
           Hears(r)'
    PROVE  Stepped(r) /\ pc'[r] = to /\ run'[r].lost > 0 /\ run'[r].refused > 0
<1>1. PICK late \in {0, 1} : Exchange(r, from, to, 1, 0, 1, 1, late)
  BY LossIsExchange DEF TargetInv
<1>2. run[r].refused \in Nat /\ run[r].lost \in Nat
  BY DEF TargetInv, Typed, RunTyped
<1>3. run'[r].refused = run[r].refused + 1 /\ run'[r].lost = run[r].lost + 1
  BY <1>1 DEF Exchange, Adds
<1>4. ~Undisturbed(r)'
  BY <1>2, <1>3 DEF Undisturbed
<1>5. Reasoned(r, from, to, 1, 0, 1, 1, late)
  BY <1>4 DEF Reasoned, LegacyScripts
<1>6. RunTyped(r)' /\ Good(r)'
  BY <1>1, <1>5, ExchangeKeeps DEF TargetInv
<1>7. /\ pc' \in [Runs -> Places] /\ pc'[r] = to /\ DOMAIN run' = Runs
      /\ \A q \in Runs \ {r} : pc'[q] = pc[q] /\ run'[q] = run[q]
  BY <1>1 DEF Exchange, TargetInv, Typed
<1> QED BY <1>2, <1>3, <1>6, <1>7 DEF Stepped

LEMMA ExchangeSteps ==
    ASSUME TargetInv, NEW r \in Runs, NEW from \in Places, NEW to \in Places,
           NEW refused \in {0, 1}, NEW errors \in {0, 1}, NEW lost \in {0, 1},
           NEW failed \in {0, 1}, NEW late \in {0, 1},
           Exchange(r, from, to, refused, errors, lost, failed, late),
           Reasoned(r, from, to, refused, errors, lost, failed, late), Onward,
           hand' \in [Runs -> Nat], heard' \in [Runs -> Messages \cup {Silence}],
           \A q \in Runs \ {r} : hand'[q] = hand[q] /\ heard'[q] = heard[q],
           Hears(r)'
    PROVE  Stepped(r) /\ pc'[r] = to
<1>1. RunTyped(r)' /\ Good(r)'
  BY ExchangeKeeps DEF TargetInv
<1>2. /\ pc' \in [Runs -> Places] /\ pc'[r] = to /\ DOMAIN run' = Runs
      /\ \A q \in Runs \ {r} : pc'[q] = pc[q] /\ run'[q] = run[q]
  BY DEF Exchange, TargetInv, Typed
<1> QED BY <1>1, <1>2 DEF Stepped

LEMMA UntouchedIsOnward ==
    ASSUME Typed, Untouched
    PROVE  /\ Onward /\ hand' \in [Runs -> Nat]
           /\ heard' \in [Runs -> Messages \cup {Silence}]
           /\ \A q \in Runs : hand'[q] = hand[q] /\ heard'[q] = heard[q]
           /\ rows' = rows /\ restarts' = restarts
BY TargetAssumption DEF Typed, Untouched, Onward

\* A request to a handler that keeps nothing, its check counted as a number.
\* The reasons speak of a run that nothing has disturbed yet.
Asks(r, from, to, afterLoss, refused, failed) ==
    /\ \/ \E late \in {0, 1} :
             /\ Exchange(r, from, to, refused, 0, 0, failed, late)
             /\ AsksForTime(r) /\ refused = 0 => late = 1
       \/ Lose(r, from, afterLoss)
    /\ Untouched

Answerable(r, to, refused, failed) ==
    /\ failed = 1 /\ Undisturbed(r) /\ Accepted(r) => Short(r)
    /\ refused = 1 /\ Undisturbed(r) /\ Accepted(r) => script = "flaky"
    /\ failed = 1 => \/ refused = 1 \/ run[r].refused > 0
                     \/ script \in NoThreshold \/ Short(r)
    /\ ~WithinLimits(r) => \/ refused = 1 \/ run[r].refused > 0
                           \/ AsksForTime(r) /\ script # "tar"
                           \/ script = "tar" /\ to = "selective-fetch"

LEMMA GetAsks ==
    ASSUME Typed, NEW r \in Runs, NEW from \in Places, NEW to \in Places, NEW afterLoss,
           NEW status \in Nat, NEW ok \in BOOLEAN, Get(r, from, to, afterLoss, status, ok)
    PROVE  Asks(r, from, to, afterLoss, Refusal(status), Failure(ok))
<1>1. CASE Answer(r, from, to, status, ok)
  BY <1>1, AnswerIsExchange DEF Get, Asks
<1>2. CASE Lose(r, from, afterLoss)
  BY <1>2 DEF Get, Asks
<1> QED BY <1>1, <1>2 DEF Get

LEMMA AsksSteps ==
    ASSUME TargetInv, NEW r \in Runs, NEW from \in Places \ Room, NEW to \in Places,
           NEW afterLoss \in Places, NEW refused \in {0, 1}, NEW failed \in {0, 1},
           Asks(r, from, to, afterLoss, refused, failed), script \notin LegacyScripts,
           Answerable(r, to, refused, failed)
    PROVE  /\ Stepped(r)
           /\ pc'[r] = to \/ pc'[r] = afterLoss
           /\ pc[r] = from /\ UNCHANGED <<script, setting, hand, items, rows, restarts>>
           /\ run[r].refused > 0 \/ refused = 1 => run'[r].refused > 0
<1>0. from \in Places
  OBVIOUS
<1>1. /\ Onward /\ hand' \in [Runs -> Nat] /\ heard' \in [Runs -> Messages \cup {Silence}]
      /\ \A q \in Runs : hand'[q] = hand[q] /\ heard'[q] = heard[q]
      /\ UNCHANGED <<script, setting, hand, items, rows, restarts>>
  BY UntouchedIsOnward DEF Asks, TargetInv, Untouched
<1>2. pc[r] = from
  BY DEF Asks, Exchange, Lose
<1>3. Hears(r)'
  BY <1>1, <1>2, HearsNothing DEF TargetInv
<1>4. run[r].refused \in Nat /\ run[r].lost \in Nat
  BY DEF TargetInv, Typed, RunTyped
<1>5. ASSUME NEW late \in {0, 1}, Exchange(r, from, to, refused, 0, 0, failed, late),
             AsksForTime(r) /\ refused = 0 => late = 1
      PROVE  /\ Stepped(r) /\ pc'[r] = to
             /\ run[r].refused > 0 \/ refused = 1 => run'[r].refused > 0
  <2>1. run'[r].refused = run[r].refused + refused /\ run'[r].lost = run[r].lost + 0
    BY <1>5 DEF Exchange, Adds
  <2>2. Undisturbed(r)' => Undisturbed(r)
    BY <1>1, <1>4, <2>1, DisturbedStays DEF TargetInv
  <2>3. Reasoned(r, from, to, refused, 0, 0, failed, late)
    BY <1>5, <2>2 DEF Reasoned, Answerable, LegacyScripts
  <2>4. Stepped(r) /\ pc'[r] = to
    BY <1>0, <1>1, <1>3, <1>5, <2>3, ExchangeSteps
  <2> QED BY <1>4, <2>1, <2>4
<1>6. CASE Lose(r, from, afterLoss)
  BY <1>1, <1>2, <1>3, <1>6, LossSteps
<1> QED BY <1>1, <1>2, <1>5, <1>6 DEF Asks

LEMMA AsksKeeps ==
    ASSUME TargetInv, NEW r \in Runs, NEW from \in Places \ Room,
           NEW to \in Places \ Given, NEW afterLoss \in Places \ Given,
           NEW refused \in {0, 1}, NEW failed \in {0, 1},
           Asks(r, from, to, afterLoss, refused, failed), script \notin LegacyScripts,
           Answerable(r, to, refused, failed)
    PROVE  TargetInv'
<1>1. Stepped(r) /\ (pc'[r] = to \/ pc'[r] = afterLoss)
  BY AsksSteps
<1>2. Placed(r)'
  BY <1>1, PlacedElsewhere
<1> QED BY <1>1, <1>2, StepKeeps
-----------------------------------------------------------------------------
(***************************************************************************)
(* The scripts, one by one.                                                *)
(***************************************************************************)
LEMMA Statuses ==
    /\ 200 \in Nat /\ 422 \in Nat /\ 200 # 422
    /\ Refusal(200) = 0 /\ Refusal(422) = 1
BY SMT DEF Refusal

\* A handler that grants what is within its limits and refuses the rest.
LEMMA LimitAsks ==
    ASSUME Typed, NEW r \in Runs, NEW from \in Places, NEW to \in Places, NEW afterLoss,
           NEW status \in {200, 422}, Get(r, from, to, afterLoss, status, status = 200)
    PROVE  /\ Asks(r, from, to, afterLoss, Refusal(status), Refusal(status))
           /\ Refusal(status) \in {0, 1}
<1>1. PICK ok \in BOOLEAN : (ok <=> status = 200) /\ Get(r, from, to, afterLoss, status, ok)
  OBVIOUS
<1>2. status \in Nat
  OBVIOUS
<1>3. Asks(r, from, to, afterLoss, Refusal(status), Failure(ok))
  BY <1>1, <1>2, GetAsks
<1>4. Failure(ok) = Refusal(status) /\ Refusal(status) \in {0, 1}
  BY <1>1, SMT DEF Refusal, Failure
<1> QED BY <1>3, <1>4

LEMMA LimitKeeps ==
    ASSUME TargetInv, NEW r \in Runs, NEW from \in Places \ Room,
           NEW to \in Places \ Given, NEW afterLoss \in Places \ Given,
           NEW status \in {200, 422}, Get(r, from, to, afterLoss, status, status = 200),
           script \notin LegacyScripts,
           Undisturbed(r) /\ Accepted(r) => status = 200,
           ~WithinLimits(r) => \/ status = 422 \/ run[r].refused > 0
                               \/ AsksForTime(r) /\ script # "tar"
    PROVE  TargetInv'
<1>1. Typed /\ from \in Places /\ to \in Places
  BY DEF TargetInv
<1>2. /\ Asks(r, from, to, afterLoss, Refusal(status), Refusal(status))
      /\ Refusal(status) \in {0, 1}
  BY <1>1, LimitAsks
<1>3. Answerable(r, to, Refusal(status), Refusal(status))
  BY Statuses DEF Answerable
<1> QED BY <1>2, <1>3, AsksKeeps

\* The settings of most scripts ask for no time.
LEMMA Unhurried ==
    ASSUME Typed, NEW r \in Runs, script \notin Streams, script # "latency"
    PROVE  ~AsksForTime(r) /\ ~GivenUp(r)
<1>1. script \in AllScripts
  BY TargetAssumption DEF Typed
<1>2. TimeThreshold[script] = IF script = "stress-io" THEN 3500 ELSE TimeThreshold[script]
  BY <1>1 DEF TimeThreshold, Streams
<1>3. TimeThreshold[script] \in Nat /\ TimeThreshold[script] > 0
  BY <1>1, SMT DEF TimeThreshold, Streams
<1>4. Duration(r) = IF script = "stress-io" THEN 1000 ELSE 0
  BY DEF Duration
<1> QED BY <1>2, <1>3, <1>4 DEF AsksForTime, GivenUp

LEMMA DbListFilterKeeps ==
    ASSUME TargetInv, NEW r \in Runs, DbListFilter(r)
    PROVE  TargetInv'
<1>1. script = "db-list" /\ setting[r].count \in Int
  BY SettingsAreNumbers DEF DbListFilter, TargetInv
<1>2. PICK status : /\ status = IF setting[r].count \in 1..MAX_PAGE_SIZE THEN 200 ELSE 422
                    /\ Get(r, "get", "idle", "idle", status, status = 200)
  BY DEF DbListFilter
<1>3. Granted(r) <=> setting[r].count \in 1..50
  BY <1>1, SMT DEF Granted, Documented, Streams
<1>4. (Accepted(r) <=> Granted(r)) /\ (WithinLimits(r) <=> Granted(r))
  BY <1>1, Unhurried DEF TargetInv, Accepted, WithinLimits, Streams
<1>5. script \notin LegacyScripts
  BY <1>1 DEF LegacyScripts
<1>6. status \in {200, 422} /\ (status = 200 <=> Granted(r))
  BY <1>2, <1>3, LimitsAssumption, SMT
<1> QED BY <1>2, <1>4, <1>5, <1>6, LimitKeeps DEF Places, Room, Given

LEMMA PayloadDownloadKeeps ==
    ASSUME TargetInv, NEW r \in Runs, PayloadDownload(r)
    PROVE  TargetInv'
<1>1. script = "download" /\ setting[r].kb \in Int
  BY SettingsAreNumbers DEF PayloadDownload, TargetInv
<1>2. PICK status : /\ status = IF setting[r].kb \in 1..MAX_DOWNLOAD_KB THEN 200 ELSE 422
                    /\ Get(r, "get", "idle", "idle", status, status = 200)
  BY DEF PayloadDownload
<1>3. Granted(r) <=> setting[r].kb \in 1..512
  BY <1>1, SMT DEF Granted, Documented, Streams
<1>4. (Accepted(r) <=> Granted(r)) /\ (WithinLimits(r) <=> Granted(r))
  BY <1>1, Unhurried DEF TargetInv, Accepted, WithinLimits, Streams
<1>5. script \notin LegacyScripts
  BY <1>1 DEF LegacyScripts
<1>6. status \in {200, 422} /\ (status = 200 <=> Granted(r))
  <2>1. MAX_DOWNLOAD_KB = 512
    BY LimitsAssumption, SMT
  <2>2. setting[r].kb \in 1..MAX_DOWNLOAD_KB <=> Granted(r)
    BY <1>1, <1>3, <2>1
  <2> QED BY <1>2, <2>2
<1> QED BY <1>2, <1>4, <1>5, <1>6, LimitKeeps DEF Places, Room, Given

LEMMA EchoSmokeKeeps ==
    ASSUME TargetInv, NEW r \in Runs, EchoSmoke(r)
    PROVE  TargetInv'
<1>1. script = "echo" /\ setting[r].count \in Int
  BY SettingsAreNumbers DEF EchoSmoke, TargetInv
<1>2. PICK status : /\ status = IF setting[r].count \in 1..MAX_REPEAT THEN 200 ELSE 422
                    /\ Get(r, "get", "idle", "idle", status, status = 200)
  BY DEF EchoSmoke
<1>3. Granted(r) <=> setting[r].count \in 1..8
  BY <1>1, SMT DEF Granted, Documented, Streams
<1>4. (Accepted(r) <=> Granted(r)) /\ (WithinLimits(r) <=> Granted(r))
  BY <1>1, Unhurried DEF TargetInv, Accepted, WithinLimits, Streams
<1>5. script \notin LegacyScripts
  BY <1>1 DEF LegacyScripts
<1>6. status \in {200, 422} /\ (status = 200 <=> Granted(r))
  BY <1>2, <1>3, LimitsAssumption, SMT
<1> QED BY <1>2, <1>4, <1>5, <1>6, LimitKeeps DEF Places, Room, Given

LEMMA ResourceCpuKeeps ==
    ASSUME TargetInv, NEW r \in Runs, ResourceCpu(r)
    PROVE  TargetInv'
<1>1. script = "cpu" /\ setting[r].count \in Int
  BY SettingsAreNumbers DEF ResourceCpu, TargetInv
<1>2. PICK status :
        /\ status = IF setting[r].count \in 1..MAX_CPU_ITERATIONS THEN 200 ELSE 422
        /\ Get(r, "get", "idle", "idle", status, status = 200)
  BY DEF ResourceCpu
<1>3. Granted(r) <=> setting[r].count \in 1..MAX_CPU_ITERATIONS
  <2>1. MAX_CPU_ITERATIONS \in Int
    BY LimitsAssumption, SMT
  <2>2. setting[r].count \in 1..MAX_CPU_ITERATIONS <=>
          1 <= setting[r].count /\ setting[r].count <= MAX_CPU_ITERATIONS
    BY <1>1, <2>1
  <2>3. setting[r].count <= MAX_CPU_ITERATIONS <=> setting[r].count <= 2000000
    BY LimitsAssumption, SMT
  <2>4. Granted(r) <=> 1 <= setting[r].count /\ setting[r].count <= 2000000
    BY <1>1, SMT DEF Granted, Documented, Streams
  <2> QED BY <2>2, <2>3, <2>4, SMT
<1>4. (Accepted(r) <=> Granted(r)) /\ (WithinLimits(r) <=> Granted(r))
  BY <1>1, Unhurried DEF TargetInv, Accepted, WithinLimits, Streams
<1>5. script \notin LegacyScripts
  BY <1>1 DEF LegacyScripts
<1>6. status \in {200, 422} /\ (status = 200 <=> Granted(r))
  BY <1>2, <1>3, SMT
<1> QED BY <1>2, <1>4, <1>5, <1>6, LimitKeeps DEF Places, Room, Given

LEMMA ArchiveFlowKeeps ==
    ASSUME TargetInv, NEW r \in Runs, ArchiveFlow(r)
    PROVE  TargetInv'
<1>1. script = "archive" /\ setting[r].count \in Int /\ setting[r].kb \in Int
  BY SettingsAreNumbers DEF ArchiveFlow, TargetInv
<1>2. PICK status :
        /\ status = PackStatus(setting[r].count, setting[r].kb)
        /\ \/ Get(r, "fixture-pack", "archive", "idle", status, status = 200)
           \/ Get(r, "archive", "read-many", "read-many", status, status = 200)
           \/ Get(r, "read-many", "idle", "idle", status, status = 200)
  BY DEF ArchiveFlow
<1>3. Granted(r) <=> setting[r].count \in 1..10 /\ setting[r].kb \in 1..64
  BY <1>1, SMT DEF Granted, Documented, Streams
<1>4. (Accepted(r) <=> Granted(r)) /\ (WithinLimits(r) <=> Granted(r))
  BY <1>1, Unhurried DEF TargetInv, Accepted, WithinLimits, Streams
<1>5. script \notin LegacyScripts
  BY <1>1 DEF LegacyScripts
<1>6. status \in {200, 422} /\ (status = 200 <=> Granted(r))
  BY <1>2, <1>3, LimitsAssumption, SMT DEF PackStatus
<1>7. CASE Get(r, "fixture-pack", "archive", "idle", status, status = 200)
  BY <1>4, <1>5, <1>6, <1>7, LimitKeeps DEF Places, Room, Given
<1>8. CASE Get(r, "archive", "read-many", "read-many", status, status = 200)
  BY <1>4, <1>5, <1>6, <1>8, LimitKeeps DEF Places, Room, Given
<1>9. CASE Get(r, "read-many", "idle", "idle", status, status = 200)
  BY <1>4, <1>5, <1>6, <1>9, LimitKeeps DEF Places, Room, Given
<1> QED BY <1>2, <1>7, <1>8, <1>9

LEMMA ErrorFlakyKeeps ==
    ASSUME TargetInv, NEW r \in Runs, ErrorFlaky(r)
    PROVE  TargetInv'
<1>1. script = "flaky" /\ setting[r].count \in Int
  BY SettingsAreNumbers DEF ErrorFlaky, TargetInv
<1>2. PICK fraction \in {0, 50, 99} :
        Get(r, "get", "idle", "idle", FlakyStatus(setting[r].count, fraction),
            FlakyStatus(setting[r].count, fraction) \in {200, 503})
  BY DEF ErrorFlaky
<1> DEFINE status == FlakyStatus(setting[r].count, fraction)
           ok == status \in {200, 503}
<1>3. Granted(r) <=> setting[r].count \in 0..100
  BY <1>1, SMT DEF Granted, Documented, Streams
<1>4. (Accepted(r) <=> Granted(r)) /\ (WithinLimits(r) <=> Granted(r))
  BY <1>1, Unhurried DEF TargetInv, Accepted, WithinLimits, Streams
<1>5. script \notin LegacyScripts /\ script \in NoThreshold
  BY <1>1 DEF LegacyScripts, NoThreshold, Sockets
<1>6. /\ status \in Nat /\ Refusal(status) \in {0, 1} /\ Failure(ok) \in {0, 1}
      /\ Failure(ok) = 1 <=> ~Granted(r)
      /\ ~Granted(r) => Refusal(status) = 1
  BY <1>1, <1>3, SMT DEF FlakyStatus, Refusal, Failure
<1>7. ok \in BOOLEAN /\ Get(r, "get", "idle", "idle", status, ok)
  BY <1>2
<1> HIDE DEF status, ok
<1>8. Asks(r, "get", "idle", "idle", Refusal(status), Failure(ok))
  BY <1>6, <1>7, GetAsks DEF TargetInv, Places
<1>9. Answerable(r, "idle", Refusal(status), Failure(ok))
  BY <1>1, <1>4, <1>5, <1>6 DEF Answerable
<1> QED BY <1>5, <1>6, <1>8, <1>9, AsksKeeps DEF Places, Room, Given

LEMMA TarSelectiveFlowKeeps ==
    ASSUME TargetInv, NEW r \in Runs, TarSelectiveFlow(r)
    PROVE  TargetInv'
<1> DEFINE s == setting[r]
           listed == ManifestStatus(s.count, s.kb)
           fetched == SelectedStatus(Selected(s), s.kb)
           packed == TarStatus(Selected(s), s.kb)
           listedOk == listed = 200 /\ s.count >= s.picked
           fetchedOk == fetched = 200 /\ Selected(s) = s.picked
           next == IF listed = 200 THEN "selective-fetch" ELSE "idle"
<1>1. /\ script = "tar" /\ s.count \in Int /\ s.picked \in Int /\ s.kb \in Int
      /\ Selected(s) \in Int
  BY SettingsAreNumbers DEF TarSelectiveFlow, TargetInv
<1>2. \/ Get(r, "manifest", next, "idle", listed, listedOk)
      \/ Get(r, "selective-fetch", "tar-package", "idle", fetched, fetchedOk)
      \/ Get(r, "tar-package", "idle", "idle", packed, packed = 200)
  BY DEF TarSelectiveFlow
<1>3. Granted(r) <=> s.count \in 1..20 /\ s.kb \in 1..64 /\ Selected(s) \in 1..8
  BY <1>1, SMT DEF Granted, Documented, Streams
<1>4. (Accepted(r) <=> Granted(r)) /\ (WithinLimits(r) <=> Granted(r))
  BY <1>1, Unhurried DEF TargetInv, Accepted, WithinLimits, Streams
<1>5. script \notin LegacyScripts
  BY <1>1 DEF LegacyScripts
<1>6. /\ MAX_FILE_MANIFEST_COUNT = 20 /\ MAX_FILE_KB = 256
      /\ MAX_SELECTIVE_FETCH_COUNT = 8 /\ MAX_ARCHIVE_KB_PER_FILE = 64
      /\ MAX_ARCHIVE_FILE_COUNT = 10
  BY LimitsAssumption, SMT
<1>7. /\ listed \in {200, 422} /\ (listed = 200 <=> s.count \in 1..20 /\ s.kb \in 1..256)
      /\ fetched \in {200, 422} /\ (fetched = 200 <=> Selected(s) \in 1..8 /\ s.kb \in 1..64)
      /\ packed \in {200, 422} /\ (Granted(r) => packed = 200)
  BY <1>1, <1>3, <1>6 DEF ManifestStatus, SelectedStatus, TarStatus, PackStatus
<1>8. /\ Short(r) <=> s.picked > s.count
      /\ Selected(s) = s.picked <=> ~Short(r)
      /\ s.count >= s.picked <=> ~Short(r)
  BY <1>1, SMT DEF Short, Selected
<1>9. /\ listedOk \in BOOLEAN /\ (listedOk <=> listed = 200 /\ ~Short(r))
      /\ fetchedOk \in BOOLEAN /\ (fetchedOk <=> fetched = 200 /\ ~Short(r))
  BY <1>8
<1>10. /\ Refusal(listed) = (IF listed = 200 THEN 0 ELSE 1)
       /\ Refusal(fetched) = (IF fetched = 200 THEN 0 ELSE 1)
  BY <1>7, Statuses
<1>11. Placed(r)
  BY DEF TargetInv
<1> HIDE DEF listed, fetched, packed, listedOk, fetchedOk
<1>12. /\ Failure(listedOk) = (IF listed = 200 /\ ~Short(r) THEN 0 ELSE 1)
       /\ Failure(fetchedOk) = (IF fetched = 200 /\ ~Short(r) THEN 0 ELSE 1)
  BY <1>9 DEF Failure
<1>13. /\ Refusal(listed) \in {0, 1} /\ Refusal(fetched) \in {0, 1}
       /\ Failure(listedOk) \in {0, 1} /\ Failure(fetchedOk) \in {0, 1}
  BY <1>10, <1>12
<1>14. /\ next \in Places /\ "idle" \in Places /\ "tar-package" \in Places
       /\ "manifest" \in Places \ Room /\ "selective-fetch" \in Places \ Room
       /\ next \in {"idle", "selective-fetch"} /\ (next = "selective-fetch" <=> listed = 200)
  BY DEF Places, Room
<1> HIDE DEF next
<1>15. CASE Get(r, "manifest", next, "idle", listed, listedOk)
  <2>1. Asks(r, "manifest", next, "idle", Refusal(listed), Failure(listedOk))
    BY <1>7, <1>9, <1>14, <1>15, GetAsks DEF TargetInv
  <2>2. Answerable(r, next, Refusal(listed), Failure(listedOk))
    BY <1>1, <1>3, <1>4, <1>7, <1>10, <1>12, <1>14 DEF Answerable
  <2>3. /\ Stepped(r) /\ pc'[r] \in {next, "idle"}
        /\ UNCHANGED <<script, setting>>
    BY <1>5, <1>13, <1>14, <2>1, <2>2, AsksSteps
  <2>4. Placed(r)'
    BY <1>7, <1>14, <2>3 DEF Placed
  <2> QED BY <2>3, <2>4, StepKeeps
<1>16. CASE Get(r, "selective-fetch", "tar-package", "idle", fetched, fetchedOk)
  <2>1. pc[r] = "selective-fetch"
    BY <1>16 DEF Get, Answer, Lose
  <2>2. s.count \in 1..20
    BY <1>1, <1>11, <2>1 DEF Placed
  <2>3. Asks(r, "selective-fetch", "tar-package", "idle", Refusal(fetched), Failure(fetchedOk))
    BY <1>7, <1>9, <1>14, <1>16, GetAsks DEF TargetInv
  <2>4. Answerable(r, "tar-package", Refusal(fetched), Failure(fetchedOk))
    BY <1>3, <1>4, <1>7, <1>10, <1>12, <2>2 DEF Answerable
  <2>5. /\ Stepped(r) /\ pc'[r] \in {"tar-package", "idle"}
        /\ UNCHANGED <<script, setting>>
        /\ Refusal(fetched) = 1 => run'[r].refused > 0
    BY <1>5, <1>13, <1>14, <2>3, <2>4, AsksSteps
  <2>6. (Granted(r)' <=> Granted(r)) /\ (~Granted(r) => Refusal(fetched) = 1)
    BY <1>3, <1>7, <1>10, <2>2, <2>5, SettingsStay
  <2>7. Placed(r)'
    BY <1>1, <2>5, <2>6 DEF Placed
  <2> QED BY <2>5, <2>7, StepKeeps
<1>17. CASE Get(r, "tar-package", "idle", "idle", packed, packed = 200)
  <2>1. pc[r] = "tar-package"
    BY <1>17 DEF Get, Answer, Lose
  <2>2. ~Granted(r) => run[r].refused > 0
    BY <1>1, <1>11, <2>1 DEF Placed
  <2> QED BY <1>4, <1>5, <1>7, <1>17, <2>2, LimitKeeps DEF Places, Room, Given
<1> QED BY <1>2, <1>15, <1>16, <1>17

LEMMA FileFlowKeeps ==
    ASSUME TargetInv, NEW r \in Runs, FileFlow(r)
    PROVE  TargetInv'
<1> DEFINE kb == setting[r].kb
           next == IF script = "roundtrip" THEN "upload" ELSE "idle"
           status == IF kb \in 1..MAX_FILE_KB THEN 200 ELSE 422
           listed == ManifestStatus(3, kb)
           body == IF hand[r] = 0 THEN 0 ELSE IF status = 200 THEN kb * 1024 ELSE 100
           uploaded == IF body = 0 \/ body > MAX_UPLOAD_BYTES THEN 422 ELSE 200
           ok == uploaded = 200 /\ body = kb * 1024
<1>1. script \in {"file", "roundtrip"} /\ kb \in Int /\ hand[r] \in Nat
  BY SettingsAreNumbers DEF FileFlow, TargetInv, Typed
<1>2. \/ Get(r, "manifest", "download", "idle", listed, listed = 200)
      \/ /\ \/ /\ Answer(r, "download", next, status, status = 200)
               /\ hand' = [hand EXCEPT ![r] = 1]
            \/ /\ Lose(r, "download", next)
               /\ hand' = [hand EXCEPT ![r] = 0]
         /\ UNCHANGED <<script, setting, items, rows, heard, restarts>>
      \/ Get(r, "upload", "idle", "idle", uploaded, ok)
  BY DEF FileFlow
<1>3. Granted(r) <=> kb \in 1..256
  <2>1. CASE script = "file"
    BY <2>1, SMT DEF Granted, Documented, Streams
  <2>2. CASE script = "roundtrip"
    BY <2>2, SMT DEF Granted, Documented, Streams
  <2> QED BY <1>1, <2>1, <2>2
<1>4. (Accepted(r) <=> Granted(r)) /\ (WithinLimits(r) <=> Granted(r))
  BY <1>1, Unhurried DEF TargetInv, Accepted, WithinLimits, Streams
<1>5. script \notin LegacyScripts
  BY <1>1 DEF LegacyScripts
<1>6. MAX_FILE_MANIFEST_COUNT = 20 /\ MAX_FILE_KB = 256 /\ MAX_UPLOAD_BYTES = 262144
  BY LimitsAssumption, SMT
<1>7. /\ listed \in {200, 422} /\ (listed = 200 <=> Granted(r))
      /\ status \in {200, 422} /\ (status = 200 <=> Granted(r))
  BY <1>1, <1>3, <1>6, SMT DEF ManifestStatus
<1>8. /\ uploaded \in {200, 422}
      /\ Granted(r) /\ hand[r] # 0 => uploaded = 200 /\ body = kb * 1024
      /\ Granted(r) /\ hand[r] = 0 => uploaded = 422
  <2>1. Granted(r) => /\ 1 <= kb /\ kb <= 256
                      /\ body = IF hand[r] = 0 THEN 0 ELSE kb * 1024
    BY <1>1, <1>3, <1>7
  <2> HIDE DEF status, listed
  <2>2. uploaded = IF body = 0 \/ body > 262144 THEN 422 ELSE 200
    BY <1>6, SMT
  <2> HIDE DEF body, uploaded
  <2>3. uploaded \in {200, 422}
    BY <2>2, SMT
  <2>4. ASSUME Granted(r), hand[r] # 0 PROVE uploaded = 200 /\ body = kb * 1024
    BY <1>1, <2>1, <2>2, <2>4, SMT
  <2>5. ASSUME Granted(r), hand[r] = 0 PROVE uploaded = 422
    BY <2>1, <2>2, <2>5, SMT
  <2> QED BY <2>3, <2>4, <2>5, SMT
<1>9. Placed(r)
  BY DEF TargetInv
<1>10. /\ next \in Places /\ next \in {"upload", "idle"} /\ "idle" \in Places
       /\ "download" \in Places \ Room /\ "upload" \in Places \ Room
  BY DEF Places, Room
<1>11. ok \in BOOLEAN
  OBVIOUS
<1>12. ok <=> uploaded = 200 /\ body = kb * 1024
  OBVIOUS
<1> HIDE DEF next, status, listed, body, uploaded, ok
<1>13. CASE Get(r, "manifest", "download", "idle", listed, listed = 200)
  BY <1>4, <1>5, <1>7, <1>13, LimitKeeps DEF Places, Room, Given
<1>14. ASSUME \/ /\ Answer(r, "download", next, status, status = 200)
                 /\ hand' = [hand EXCEPT ![r] = 1]
              \/ /\ Lose(r, "download", next)
                 /\ hand' = [hand EXCEPT ![r] = 0],
              UNCHANGED <<script, setting, items, rows, heard, restarts>>
       PROVE  TargetInv'
  <2>1. pc[r] = "download"
    BY <1>14 DEF Answer, Lose
  <2>2. /\ Onward /\ hand' \in [Runs -> Nat]
        /\ heard' \in [Runs -> Messages \cup {Silence}]
        /\ \A q \in Runs \ {r} : hand'[q] = hand[q] /\ heard'[q] = heard[q]
        /\ heard'[r] = heard[r]
    BY <1>14, TargetAssumption DEF TargetInv, Typed, Onward
  <2>3. Hears(r)'
    BY <2>1, <2>2, HearsNothing DEF TargetInv, Room
  <2>4. Granted(r)' <=> Granted(r)
    BY <1>14, SettingsStay
  <2>5. CASE Lose(r, "download", next) /\ hand' = [hand EXCEPT ![r] = 0]
    <3>1. Stepped(r) /\ pc'[r] = next /\ run'[r].lost > 0 /\ run'[r].refused > 0
      BY <1>5, <1>10, <2>2, <2>3, <2>5, LossSteps
    <3>2. Placed(r)'
      BY <1>1, <1>10, <1>14, <3>1 DEF Placed
    <3> QED BY <3>1, <3>2, StepKeeps
  <2>6. CASE /\ Answer(r, "download", next, status, status = 200)
             /\ hand' = [hand EXCEPT ![r] = 1]
    <3>1. PICK fine \in BOOLEAN : /\ fine <=> status = 200
                                  /\ Answer(r, "download", next, status, fine)
      BY <2>6
    <3>2. /\ Failure(fine) = Refusal(status) /\ Refusal(status) \in {0, 1}
          /\ (Refusal(status) = 1 <=> ~Granted(r)) /\ status \in Nat
      BY <1>7, <3>1, SMT DEF Refusal, Failure
    <3>3. PICK late \in {0, 1} :
            Exchange(r, "download", next, Refusal(status), 0, 0, Failure(fine), late)
      BY <1>10, <3>1, <3>2, AnswerIsExchange DEF TargetInv
    <3>4. Reasoned(r, "download", next, Refusal(status), 0, 0, Refusal(status), late)
      BY <1>1, <1>4, <1>5, <3>2 DEF Reasoned, LegacyScripts
    <3>5. Stepped(r) /\ pc'[r] = next
      BY <1>10, <2>2, <2>3, <3>2, <3>3, <3>4, ExchangeSteps
    <3>6. run'[r].refused = run[r].refused + Refusal(status) /\ run[r].refused \in Nat
      BY <3>3 DEF Exchange, Adds, TargetInv, Typed, RunTyped
    <3>7. hand'[r] = 1
      BY <2>6 DEF TargetInv, Typed
    <3>8. Placed(r)'
      BY <1>1, <1>10, <1>14, <2>4, <3>2, <3>5, <3>6, <3>7 DEF Placed
    <3> QED BY <3>5, <3>8, StepKeeps
  <2> QED BY <1>14, <2>5, <2>6
<1>15. CASE Get(r, "upload", "idle", "idle", uploaded, ok)
  <2>1. pc[r] = "upload"
    BY <1>15 DEF Get, Answer, Lose
  <2>2. /\ hand[r] = 0 => run[r].lost > 0
        /\ ~Granted(r) => run[r].refused > 0
    BY <1>1, <1>9, <2>1 DEF Placed
  <2>3. run[r].lost \in Nat /\ run[r].refused \in Nat
    BY DEF TargetInv, Typed, RunTyped
  <2>4. /\ Refusal(uploaded) = (IF uploaded = 200 THEN 0 ELSE 1)
        /\ Failure(ok) = (IF ok THEN 0 ELSE 1) /\ uploaded \in Nat
    BY <1>8, Statuses DEF Failure
  <2>5. Asks(r, "upload", "idle", "idle", Refusal(uploaded), Failure(ok))
    BY <1>10, <1>11, <1>15, <2>4, GetAsks DEF TargetInv
  <2>6. /\ Undisturbed(r) /\ Accepted(r) => uploaded = 200 /\ ok
        /\ ~ok => uploaded = 422 \/ run[r].refused > 0
    BY <1>4, <1>8, <1>12, <2>2, <2>3 DEF Undisturbed
  <2>7. Answerable(r, "idle", Refusal(uploaded), Failure(ok))
    BY <1>4, <2>2, <2>4, <2>6 DEF Answerable
  <2> QED BY <1>5, <2>4, <2>5, <2>7, AsksKeeps DEF Places, Room, Given
<1> QED BY <1>2, <1>13, <1>14, <1>15

LEMMA LatencyDelayKeeps ==
    ASSUME TargetInv, NEW r \in Runs, LatencyDelay(r)
    PROVE  TargetInv'
<1>1. script = "latency" /\ setting[r].ms \in Int
  BY SettingsAreNumbers DEF LatencyDelay, TargetInv
<1>2. PICK status : /\ status = IF setting[r].ms \in 0..MAX_DELAY_MS THEN 200 ELSE 422
                    /\ Get(r, "get", "idle", "idle", status, status = 200)
  BY DEF LatencyDelay
<1>3. Granted(r) <=> 0 <= setting[r].ms /\ setting[r].ms <= 5000
  BY <1>1, SMT DEF Granted, Documented, Streams
<1>4. /\ Accepted(r) <=> Granted(r)
      /\ WithinLimits(r) <=> Granted(r) /\ ~AsksForTime(r)
  BY <1>1 DEF Accepted, GivenUp, WithinLimits, Streams
<1>5. script \notin LegacyScripts /\ script # "tar"
  BY <1>1 DEF LegacyScripts
<1>6. setting[r].ms \in 0..MAX_DELAY_MS <=> Granted(r)
  <2>1. MAX_DELAY_MS \in Int /\ (setting[r].ms <= MAX_DELAY_MS <=> setting[r].ms <= 5000)
    BY LimitsAssumption, SMT
  <2> QED BY <1>1, <1>3, <2>1
<1>7. status \in {200, 422} /\ (status = 200 <=> Granted(r))
  BY <1>2, <1>6
<1> QED BY <1>2, <1>4, <1>5, <1>7, LimitKeeps DEF Places, Room, Given

LEMMA SseSmokeKeeps ==
    ASSUME TargetInv, NEW r \in Runs, SseSmoke(r)
    PROVE  TargetInv'
<1> DEFINE count == setting[r].count
           ms == setting[r].ms
           granted == StreamStatus(script, count, ms)
           inTime == granted = 422 \/ Duration(r) < 10000
           status == IF inTime THEN granted ELSE 500
           ok == granted = 200 /\ inTime
<1>1. script \in Streams /\ count \in Int /\ ms \in Int
  BY SettingsAreNumbers DEF SseSmoke, TargetInv
<1>2. Get(r, "get", "idle", "idle", status, ok)
  BY DEF SseSmoke
<1>3. script \notin LegacyScripts /\ script # "latency" /\ script # "tar"
  BY <1>1 DEF LegacyScripts, Streams
<1>4. Duration(r) \in Int
  <2>1. count * ms \in Int
    BY <1>1
  <2> QED BY <1>1, <1>3, <2>1 DEF Duration
<1>5. /\ count \in 1..MAX_EVENT_COUNT <=> 1 <= count /\ count <= 100
      /\ ms \in 0..MAX_INTERVAL_MS <=> 0 <= ms /\ ms <= 5000
      /\ count <= MAX_PROGRESS_HEAVY_STEPS <=> count <= 60
  <2>1. /\ MAX_EVENT_COUNT \in Int /\ (count <= MAX_EVENT_COUNT <=> count <= 100)
        /\ MAX_INTERVAL_MS \in Int /\ (ms <= MAX_INTERVAL_MS <=> ms <= 5000)
        /\ count <= MAX_PROGRESS_HEAVY_STEPS <=> count <= 60
    BY LimitsAssumption, SMT
  <2> QED BY <1>1, <2>1
<1>6. Granted(r) <=> /\ 1 <= count /\ count <= IF script = "progress-heavy" THEN 60 ELSE 100
                     /\ 0 <= ms /\ ms <= 5000
  <2>1. CASE script = "events"
    BY <1>1, <2>1, SMT DEF Granted, Documented, Streams
  <2>2. CASE script = "ticker"
    BY <1>1, <2>2, SMT DEF Granted, Documented, Streams
  <2>3. CASE script = "progress"
    BY <1>1, <2>3, SMT DEF Granted, Documented, Streams
  <2>4. CASE script = "progress-heavy"
    BY <1>1, <2>4, SMT DEF Granted, Documented, Streams
  <2> QED BY <1>1, <2>1, <2>2, <2>3, <2>4 DEF Streams
<1>7. granted \in {200, 422} /\ (granted = 200 <=> Granted(r))
  BY <1>1, <1>5, <1>6 DEF StreamStatus
<1>8. /\ Accepted(r) <=> Granted(r) /\ ~(Duration(r) >= 10000)
      /\ WithinLimits(r) <=> Granted(r) /\ ~AsksForTime(r)
  BY <1>1 DEF Accepted, GivenUp, WithinLimits
<1> HIDE DEF granted
<1>9. /\ status \in {200, 422, 500} /\ ok \in BOOLEAN
      /\ (status = 200 <=> ok) /\ (ok <=> Granted(r) /\ Duration(r) < 10000)
  BY <1>4, <1>7
<1> HIDE DEF inTime, status, ok
<1>10. /\ status \in Nat /\ Refusal(status) \in {0, 1} /\ Failure(ok) = Refusal(status)
       /\ Refusal(status) = 1 <=> ~ok
  BY <1>9, SMT DEF Refusal, Failure
<1>11. Asks(r, "get", "idle", "idle", Refusal(status), Failure(ok))
  BY <1>2, <1>9, <1>10, GetAsks DEF TargetInv, Places
<1>12. Duration(r) >= 10000 => AsksForTime(r)
  <2>1. TimeThreshold[script] = 5000
    BY <1>1 DEF TimeThreshold, Streams, AllScripts
  <2> QED BY <1>4, <2>1 DEF AsksForTime
<1>13. (Accepted(r) => ok) /\ (~WithinLimits(r) => ~ok \/ AsksForTime(r))
  BY <1>4, <1>8, <1>9
<1>14. Answerable(r, "idle", Refusal(status), Refusal(status))
  BY <1>3, <1>10, <1>13 DEF Answerable
<1> QED BY <1>3, <1>10, <1>11, <1>14, AsksKeeps DEF Places, Room, Given

LEMMA NothingAsked ==
    ASSUME Typed, NEW r \in Runs,
           script \in {"crud", "db-crud", "ws-echo", "ws-broadcast"} \cup LegacyScripts
    PROVE  Granted(r) /\ Accepted(r) /\ WithinLimits(r)
<1>1. /\ script \notin Streams /\ script # "latency" /\ script # "db-list"
      /\ script # "archive" /\ script # "download" /\ script # "file"
      /\ script # "roundtrip" /\ script # "tar" /\ script # "cpu"
      /\ script # "echo" /\ script # "flaky"
  BY DEF Streams, LegacyScripts
<1>2. Granted(r)
  BY <1>1, SMT DEF Granted, Documented, Streams
<1> QED BY <1>1, <1>2, Unhurried DEF Accepted, WithinLimits

LEMMA WsEchoSmokeKeeps ==
    ASSUME TargetInv, NEW r \in Runs, WsEchoSmoke(r)
    PROVE  TargetInv'
<1>1. script = "ws-echo" /\ script \notin LegacyScripts /\ WithinLimits(r)
  BY NothingAsked DEF TargetInv, WsEchoSmoke, LegacyScripts
<1>2. /\ Refusal(101) = 0 /\ Failure(TRUE) = 0 /\ 101 \in Nat /\ TRUE \in BOOLEAN
      /\ "connect" \in Places \ Room /\ "echo" \in Places \ Room
      /\ "echo" \in Places \ Given /\ "idle" \in Places \ Given
  BY SMT DEF Refusal, Failure, Places, Room, Given
<1>3. Typed
  BY DEF TargetInv
<1>4. CASE Get(r, "connect", "echo", "idle", 101, TRUE)
  <2>1. Asks(r, "connect", "echo", "idle", Refusal(101), Failure(TRUE))
    BY <1>2, <1>3, <1>4, GetAsks
  <2>2. Answerable(r, "echo", 0, 0)
    BY <1>1 DEF Answerable
  <2> QED BY <1>1, <1>2, <2>1, <2>2, AsksKeeps
<1>5. CASE Get(r, "echo", "idle", "idle", 101, TRUE)
  <2>1. Asks(r, "echo", "idle", "idle", Refusal(101), Failure(TRUE))
    BY <1>2, <1>3, <1>5, GetAsks
  <2>2. Answerable(r, "idle", 0, 0)
    BY <1>1 DEF Answerable
  <2> QED BY <1>1, <1>2, <2>1, <2>2, AsksKeeps
<1> QED BY <1>4, <1>5 DEF WsEchoSmoke

LEMMA CrudFlowKeeps ==
    ASSUME TargetInv, NEW r \in Runs, CrudFlow(r)
    PROVE  TargetInv'
<1>1. /\ script = "crud" /\ script \notin LegacyScripts
      /\ WithinLimits(r)
  BY NothingAsked DEF TargetInv, CrudFlow, LegacyScripts
<1>2. /\ "create" \in Places /\ "create" \notin Room /\ "fetch" \in Places \ Room
      /\ "fetch" \in Places /\ "idle" \in Places \ Given /\ "idle" \in Places
  BY DEF Places, Room, Given
<1>3. items \in Nat /\ Placed(r) /\ Hears(r) /\ Typed
  BY DEF TargetInv, Typed
<1>4. ASSUME \/ /\ Answer(r, "create", "fetch", 201, TRUE)
                /\ hand' = [hand EXCEPT ![r] = items + 1]
                /\ items' = items + 1
             \/ /\ Lose(r, "create", "idle")
                /\ items' \in {items, items + 1}
                /\ UNCHANGED hand,
             UNCHANGED <<script, setting, rows, heard, restarts>>
      PROVE  TargetInv'
  <2>1. pc[r] = "create"
    BY <1>4 DEF Answer, Lose
  <2>2. /\ Onward /\ hand' \in [Runs -> Nat]
        /\ heard' \in [Runs -> Messages \cup {Silence}]
        /\ \A q \in Runs \ {r} : hand'[q] = hand[q] /\ heard'[q] = heard[q]
        /\ heard'[r] = heard[r]
    <3>1. items + 1 \in Nat /\ items' \in Nat /\ items' >= items
      <4>1. items' = items \/ items' = items + 1
        BY <1>4
      <4> QED BY <1>3, <4>1
    <3>2. hand' \in [Runs -> Nat] /\ \A q \in Runs \ {r} : hand'[q] = hand[q]
      BY <1>3, <1>4, <3>1 DEF Typed
    <3>3. rows' \in SEED_ROWS..MAX_TOTAL_ROWS /\ rows' >= rows
      BY <1>3, <1>4, TargetAssumption DEF Typed
    <3> QED BY <1>3, <1>4, <3>1, <3>2, <3>3 DEF Typed, Onward
  <2>3. Hears(r)'
    BY <1>2, <1>3, <2>1, <2>2, HearsNothing
  <2>4. CASE Lose(r, "create", "idle")
    <3>1. Stepped(r) /\ pc'[r] = "idle"
      BY <1>1, <1>2, <2>2, <2>3, <2>4, LossSteps
    <3> QED BY <1>2, <3>1, PlacedElsewhere, StepKeeps
  <2>5. CASE /\ Answer(r, "create", "fetch", 201, TRUE)
             /\ hand' = [hand EXCEPT ![r] = items + 1]
             /\ items' = items + 1
    <3> DEFINE yes == TRUE
    <3>1. Answer(r, "create", "fetch", 201, yes)
      BY <2>5
    <3>2. Refusal(201) = 0 /\ Failure(yes) = 0 /\ 201 \in Nat /\ yes \in BOOLEAN
      BY SMT DEF Refusal, Failure
    <3> HIDE DEF yes
    <3>3. PICK late \in {0, 1} : Exchange(r, "create", "fetch", 0, 0, 0, 0, late)
      <4>1. PICK late \in {0, 1} :
              Exchange(r, "create", "fetch", Refusal(201), 0, 0, Failure(yes), late)
        BY <1>2, <1>3, <3>1, <3>2, AnswerIsExchange
      <4> QED BY <3>2, <4>1
    <3>4. Reasoned(r, "create", "fetch", 0, 0, 0, 0, late)
      BY <1>1 DEF Reasoned, LegacyScripts
    <3>5. Stepped(r) /\ pc'[r] = "fetch"
      BY <1>2, <2>2, <2>3, <3>2, <3>3, <3>4, ExchangeSteps
    <3>6. hand'[r] = items + 1 /\ items' = items + 1
      BY <1>3, <2>5 DEF Typed
    <3>7. hand'[r] \in 1..items'
      BY <1>3, <3>6
    <3>8. Placed(r)'
      BY <1>1, <1>4, <3>5, <3>7 DEF Placed
    <3> QED BY <3>5, <3>8, StepKeeps
  <2> QED BY <1>4, <2>4, <2>5
<1>5. ASSUME NEW status, status = IF hand[r] \in 1..items THEN 200 ELSE 404,
             Get(r, "fetch", "idle", "idle", status, hand[r] \in 1..items)
      PROVE  TargetInv'
  <2> DEFINE ok == hand[r] \in 1..items
  <2>1. /\ ok \in BOOLEAN /\ (ok <=> hand[r] \in 1..items)
        /\ Get(r, "fetch", "idle", "idle", status, ok)
    BY <1>5
  <2> HIDE DEF ok
  <2>2. pc[r] = "fetch"
    BY <2>1 DEF Get, Answer, Lose
  <2>3. Undisturbed(r) => ok
    BY <1>1, <1>3, <2>1, <2>2 DEF Placed, Undisturbed
  <2>4. /\ status \in Nat /\ Refusal(status) \in {0, 1}
        /\ Failure(ok) = Refusal(status) /\ (Refusal(status) = 1 <=> ~ok)
    BY <1>5, <2>1, SMT DEF Refusal, Failure
  <2>5. Asks(r, "fetch", "idle", "idle", Refusal(status), Failure(ok))
    BY <1>2, <1>3, <2>1, <2>4, GetAsks
  <2>6. Answerable(r, "idle", Refusal(status), Refusal(status))
    BY <1>1, <2>3, <2>4 DEF Answerable
  <2> QED BY <1>1, <1>2, <2>4, <2>5, <2>6, AsksKeeps
<1> QED BY <1>4, <1>5 DEF CrudFlow

LEMMA DbCrudFlowKeeps ==
    ASSUME TargetInv, NEW r \in Runs, DbCrudFlow(r)
    PROVE  TargetInv'
<1>1. /\ script = "db-crud" /\ script \notin LegacyScripts
      /\ WithinLimits(r)
  BY NothingAsked DEF TargetInv, DbCrudFlow, LegacyScripts
<1>2. /\ "create" \in Places /\ "create" \notin Room /\ "fetch" \in Places \ Room
      /\ "fetch" \in Places /\ "idle" \in Places \ Given /\ "idle" \in Places
  BY DEF Places, Room, Given
<1>3. /\ MAX_TOTAL_ROWS \in Nat /\ SEED_ROWS \in Nat \ {0} /\ rows \in Nat
      /\ SEED_ROWS <= rows /\ rows <= MAX_TOTAL_ROWS /\ items \in Nat
      /\ Placed(r) /\ Hears(r) /\ Typed
  BY TargetAssumption DEF TargetInv, Typed
<1> DEFINE created == CreateStatus
           ok == created = 201
<1>4. /\ created \in {201, 422} /\ (created = 201 <=> rows < MAX_TOTAL_ROWS)
      /\ ok \in BOOLEAN /\ (ok <=> rows < MAX_TOTAL_ROWS)
  BY <1>3, SMT DEF CreateStatus
<1>5. \/ /\ \/ /\ Answer(r, "create", "fetch", created, ok)
               /\ rows' = IF created = 201 THEN rows + 1 ELSE rows
               /\ hand' = [hand EXCEPT ![r] = IF created = 201 THEN rows + 1 ELSE 0]
            \/ /\ Lose(r, "create", "idle")
               /\ rows' \in {rows, IF created = 201 THEN rows + 1 ELSE rows}
               /\ UNCHANGED hand
         /\ UNCHANGED <<script, setting, items, heard, restarts>>
      \/ \E status : /\ status = IF hand[r] = 0 THEN 422
                                 ELSE IF hand[r] \in 1..rows THEN 200 ELSE 404
                     /\ Get(r, "fetch", "idle", "idle", status, status = 200)
  BY DEF DbCrudFlow
<1> HIDE DEF created, ok
<1>6. ASSUME \/ /\ Answer(r, "create", "fetch", created, ok)
                /\ rows' = IF created = 201 THEN rows + 1 ELSE rows
                /\ hand' = [hand EXCEPT ![r] = IF created = 201 THEN rows + 1 ELSE 0]
             \/ /\ Lose(r, "create", "idle")
                /\ rows' \in {rows, IF created = 201 THEN rows + 1 ELSE rows}
                /\ UNCHANGED hand,
             UNCHANGED <<script, setting, items, heard, restarts>>
      PROVE  TargetInv'
  <2>1. pc[r] = "create"
    BY <1>6 DEF Answer, Lose
  <2>2. rows' \in SEED_ROWS..MAX_TOTAL_ROWS /\ rows' >= rows
    BY <1>3, <1>4, <1>6
  <2>3. hand' \in [Runs -> Nat] /\ \A q \in Runs \ {r} : hand'[q] = hand[q]
    <3>1. (IF created = 201 THEN rows + 1 ELSE 0) \in Nat
      BY <1>3
    <3> QED BY <1>3, <1>6, <3>1 DEF Typed
  <2>4. /\ Onward /\ heard' \in [Runs -> Messages \cup {Silence}]
        /\ \A q \in Runs : heard'[q] = heard[q]
    BY <1>3, <1>6, <2>2 DEF Typed, Onward
  <2>5. Hears(r)'
    BY <1>2, <1>3, <2>1, <2>4, HearsNothing
  <2>6. CASE Lose(r, "create", "idle")
    <3>1. Stepped(r) /\ pc'[r] = "idle"
      BY <1>1, <1>2, <2>3, <2>4, <2>5, <2>6, LossSteps
    <3> QED BY <1>2, <3>1, PlacedElsewhere, StepKeeps
  <2>7. CASE /\ Answer(r, "create", "fetch", created, ok)
             /\ rows' = IF created = 201 THEN rows + 1 ELSE rows
             /\ hand' = [hand EXCEPT ![r] = IF created = 201 THEN rows + 1 ELSE 0]
    <3>1. /\ Refusal(created) \in {0, 1} /\ Failure(ok) = Refusal(created)
          /\ (Refusal(created) = 1 <=> ~ok) /\ created \in Nat
      BY <1>4, SMT DEF Refusal, Failure
    <3>2. PICK late \in {0, 1} :
            Exchange(r, "create", "fetch", Refusal(created), 0, 0, Failure(ok), late)
      BY <1>2, <1>3, <1>4, <2>7, <3>1, AnswerIsExchange
    <3>3. Undisturbed(r)' => ok
      BY <1>1, <1>3, <1>4, <1>6, <2>2 DEF Undisturbed
    <3>4. Reasoned(r, "create", "fetch", Refusal(created), 0, 0, Refusal(created), late)
      BY <1>1, <3>1, <3>3 DEF Reasoned, LegacyScripts
    <3>5. Stepped(r) /\ pc'[r] = "fetch"
      BY <1>2, <2>3, <2>4, <2>5, <3>1, <3>2, <3>4, ExchangeSteps
    <3>6. hand'[r] = IF created = 201 THEN rows + 1 ELSE 0
      BY <1>3, <2>7 DEF Typed
    <3>7. rows' < MAX_TOTAL_ROWS => hand'[r] \in 1..rows'
      BY <1>3, <1>4, <2>7, <3>6
    <3>8. Placed(r)'
      BY <1>1, <1>6, <3>5, <3>7 DEF Placed
    <3> QED BY <3>5, <3>8, StepKeeps
  <2> QED BY <1>6, <2>6, <2>7
<1>7. ASSUME NEW status,
             status = IF hand[r] = 0 THEN 422
                      ELSE IF hand[r] \in 1..rows THEN 200 ELSE 404,
             Get(r, "fetch", "idle", "idle", status, status = 200)
      PROVE  TargetInv'
  <2> DEFINE fine == status = 200
  <2>1. /\ fine \in BOOLEAN /\ (fine <=> status = 200)
        /\ Get(r, "fetch", "idle", "idle", status, fine)
    BY <1>7
  <2> HIDE DEF fine
  <2>2. pc[r] = "fetch"
    BY <2>1 DEF Get, Answer, Lose
  <2>3. Undisturbed(r) => fine
    BY <1>1, <1>3, <1>7, <2>1, <2>2 DEF Placed, Undisturbed
  <2>4. /\ status \in Nat /\ Refusal(status) \in {0, 1}
        /\ Failure(fine) = Refusal(status) /\ (Refusal(status) = 1 <=> ~fine)
    BY <1>7, <2>1, SMT DEF Refusal, Failure
  <2>5. Asks(r, "fetch", "idle", "idle", Refusal(status), Failure(fine))
    BY <1>2, <1>3, <2>1, <2>4, GetAsks
  <2>6. Answerable(r, "idle", Refusal(status), Refusal(status))
    BY <1>1, <2>3, <2>4 DEF Answerable
  <2> QED BY <1>1, <1>2, <2>4, <2>5, <2>6, AsksKeeps
<1> QED BY <1>5, <1>6, <1>7

LEMMA ToldKeeps ==
    ASSUME TargetInv, NEW r \in Runs, script \in LegacyScripts,
           NEW status \in {200, 500}, NEW ok \in BOOLEAN,
           NEW errors \in {0, 1}, NEW slow \in {0, 1}, Told(r, status, ok, errors, slow),
           ~ok => status = 500 \/ (errors = 1 /\ slow = 1 /\ script \in TimeChecked),
           status = 200 => errors <= slow,
           status = 500 => errors = 1 \/ script = "smoke"
    PROVE  TargetInv'
<1>1. /\ status \in Nat /\ errors \in Nat /\ Refusal(status) \in {0, 1}
      /\ Refusal(status) = 1 <=> status = 500
  BY SMT DEF Refusal
<1>2. Failure(ok) \in {0, 1} /\ (Failure(ok) = 1 <=> ~ok)
  BY DEF Failure
<1>3. /\ "get" \in Places /\ "get" \notin Room /\ "idle" \in Places /\ "idle" \notin Given
  BY DEF Places, Room, Given
<1>4. pc[r] = "get" /\ Untouched /\ WithinLimits(r) /\ Typed
  BY NothingAsked DEF Told, TargetInv
<1>5. /\ Onward /\ hand' \in [Runs -> Nat] /\ heard' \in [Runs -> Messages \cup {Silence}]
      /\ \A q \in Runs : hand'[q] = hand[q] /\ heard'[q] = heard[q]
  BY <1>4, UntouchedIsOnward
<1>6. Hears(r)'
  BY <1>3, <1>4, <1>5, HearsNothing DEF TargetInv
<1>7. Exchange(r, "get", "idle", Refusal(status), errors, Refusal(status), Failure(ok), slow)
  BY <1>1, <1>4, ToldIsExchange
<1>8. run'[r].lost = run[r].lost + Refusal(status) /\ run[r].lost \in Nat
  BY <1>7 DEF Exchange, Adds, TargetInv, Typed, RunTyped
<1>9. Undisturbed(r)' => status = 200
  BY <1>1, <1>8 DEF Undisturbed
<1>10. Reasoned(r, "get", "idle", Refusal(status), errors, Refusal(status), Failure(ok), slow)
  <2>1. errors <= Refusal(status) + slow
    BY <1>1
  <2>2. script = "smoke" => Refusal(status) <= Refusal(status)
    BY <1>1
  <2>3. script \in LegacyScripts \ {"smoke"} => Refusal(status) <= errors
    BY <1>1
  <2>4. Failure(ok) = 1 /\ Undisturbed(r)' => script \in TimeChecked /\ slow = 1
    BY <1>2, <1>9
  <2>5. Failure(ok) = 1 => Refusal(status) = 1 \/ errors = 1
    BY <1>1, <1>2
  <2>6. Undisturbed(r)' => Refusal(status) # 1
    BY <1>1, <1>9
  <2> QED BY <1>4, <2>1, <2>2, <2>3, <2>4, <2>5, <2>6 DEF Reasoned
<1>11. Stepped(r) /\ pc'[r] = "idle"
  BY <1>1, <1>2, <1>3, <1>5, <1>6, <1>7, <1>10, ExchangeSteps
<1> QED BY <1>3, <1>11, PlacedElsewhere, StepKeeps

LEMMA LegacyKeeps ==
    ASSUME TargetInv, NEW r \in Runs,
           Smoke(r) \/ StressCpu(r) \/ StressIo(r) \/ StressData(r)
    PROVE  TargetInv'
<1>1. /\ script \in LegacyScripts
      /\ Read(r) \/ Unread(r, 1) \/ (script = "smoke" /\ Unread(r, 0))
  BY Zenon DEF Smoke, StressCpu, StressIo, StressData, LegacyScripts
<1>2. CASE Read(r)
  <2>0. PICK slow \in Slowness(r, 200) :
          LET failed == IF script \in TimeChecked THEN slow ELSE 0
          IN  Told(r, 200, failed = 0, failed, slow)
    BY <1>2 DEF Read
  <2> DEFINE failed == IF script \in TimeChecked THEN slow ELSE 0
  <2>1. /\ failed = IF script \in TimeChecked THEN slow ELSE 0
        /\ Told(r, 200, failed = 0, failed, slow)
    BY <2>0
  <2> HIDE DEF failed
  <2>2. PICK ok \in BOOLEAN : (ok <=> failed = 0) /\ Told(r, 200, ok, failed, slow)
    BY <2>1
  <2>3. slow \in {0, 1}
    BY SlownessIsSmall
  <2>4. /\ failed \in {0, 1} /\ failed <= slow
        /\ ~ok => failed = 1 /\ slow = 1 /\ script \in TimeChecked
    BY <2>1, <2>2, <2>3
  <2> QED BY <1>1, <2>2, <2>3, <2>4, ToldKeeps
<1>3. ASSUME NEW errors \in {0, 1}, Unread(r, errors), errors = 1 \/ script = "smoke"
      PROVE  TargetInv'
  <2> DEFINE no == FALSE
  <2>1. no \in BOOLEAN
    OBVIOUS
  <2>2. PICK slow \in {0, 1} : Told(r, 500, no, errors, slow)
    BY <1>3 DEF Unread
  <2> HIDE DEF no
  <2> QED BY <1>1, <1>3, <2>1, <2>2, ToldKeeps
<1> QED BY <1>1, <1>2, <1>3

LEMMA StartIterationKeeps ==
    ASSUME TargetInv, NEW r \in Runs, StartIteration(r)
    PROVE  TargetInv'
<1>1. /\ UNCHANGED <<script, setting, items, rows, heard, restarts>>
      /\ pc[r] = "idle" /\ pc' = [pc EXCEPT ![r] = FirstRequest[script]]
      /\ hand' = [hand EXCEPT ![r] = 0]
      /\ run' = [run EXCEPT ![r].iterations = @ + 1]
  BY DEF StartIteration
<1>2. Typed /\ script \in AllScripts /\ Good(r) /\ Hears(r)
  BY TargetAssumption DEF TargetInv, Typed
<1>3. FirstRequest[script] \in Places \ Given
  BY <1>2, Zenon DEF FirstRequest, Places, Given
<1>4. /\ DOMAIN run' = Runs /\ \A q \in Runs \ {r} : run'[q] = run[q]
      /\ run'[r] = [run[r] EXCEPT !.iterations = @ + 1]
  BY <1>1, <1>2 DEF Typed
<1>5. RunTyped(r)
  BY <1>2 DEF Typed
<1>6. /\ RunTyped(r)'
      /\ run'[r].requests = run[r].requests /\ run'[r].refused = run[r].refused
      /\ run'[r].errors = run[r].errors /\ run'[r].lost = run[r].lost
      /\ run'[r].slow = run[r].slow /\ run'[r].broken = run[r].broken
  BY <1>4, <1>5 DEF RunTyped, Measures
<1>7. /\ Onward /\ hand' \in [Runs -> Nat] /\ heard' \in [Runs -> Messages \cup {Silence}]
      /\ pc' \in [Runs -> Places] /\ pc'[r] = FirstRequest[script]
      /\ \A q \in Runs \ {r} : pc'[q] = pc[q] /\ hand'[q] = hand[q] /\ heard'[q] = heard[q]
  BY <1>1, <1>2, <1>3, TargetAssumption DEF Typed, Onward
<1>8. Good(r)'
  BY <1>1, <1>2, <1>6, <1>7, StaysGood
<1>9. Hears(r)'
  BY <1>1, <1>2, HearsNothing DEF Room
<1>10. Stepped(r)
  BY <1>4, <1>6, <1>7, <1>8, <1>9 DEF Stepped
<1> QED BY <1>3, <1>7, <1>10, PlacedElsewhere, StepKeeps

\* A run sends its message, and everybody in the room hears it.
LEMMA PublishKeeps ==
    ASSUME TargetInv, NEW r \in Runs, script = "ws-broadcast", pc[r] = "welcome",
           pc' = [pc EXCEPT ![r] = "broadcast"],
           heard' = [q \in Runs |-> IF q \in InRoom /\ heard[q] = Silence
                                    THEN setting[r].message ELSE heard[q]],
           UNCHANGED <<script, setting, hand, run, items, rows, restarts>>
    PROVE  TargetInv'
<1>1. /\ script' = script /\ setting' = setting /\ hand' = hand /\ run' = run
      /\ items' = items /\ rows' = rows /\ restarts' = restarts
  OBVIOUS
<1>2. Typed
  BY DEF TargetInv
<1>3. /\ pc' \in [Runs -> Places] /\ pc'[r] = "broadcast"
      /\ \A q \in Runs \ {r} : pc'[q] = pc[q]
  BY <1>2 DEF Typed, Places
<1>4. Onward
  BY <1>1, <1>2, TargetAssumption DEF Typed, Onward
<1>5. ASSUME NEW q \in Runs PROVE RunTyped(q)' /\ Good(q)'
  <2>1. RunTyped(q) /\ Good(q)
    BY DEF TargetInv, Typed
  <2>2. RunTyped(q)'
    BY <1>1, <2>1 DEF RunTyped
  <2>3. pc[q] = "selective-fetch" => pc'[q] = "selective-fetch"
    BY <1>3
  <2> QED BY <1>1, <1>2, <1>4, <2>1, <2>2, <2>3, StaysGood
<1>6. ASSUME NEW q \in Runs PROVE Placed(q)'
  <2>1. CASE q = r
    BY <1>3, <2>1, PlacedElsewhere DEF Given
  <2>2. CASE q # r
    BY <1>1, <1>2, <1>3, <1>4, <2>2, OthersPlaced DEF TargetInv
  <2> QED BY <2>1, <2>2
<1>7. \A q \in Runs : heard'[q] = IF q \in InRoom /\ heard[q] = Silence
                                  THEN setting[r].message ELSE heard[q]
  OBVIOUS
<1>8. ASSUME NEW q \in Runs PROVE Hears(q)'
  <2>1. CASE q \in InRoom /\ heard[q] = Silence
    <3>1. heard'[q] = setting[r].message
      BY <1>7, <2>1
    <3>2. pc'[q] \in {"welcome", "broadcast"} /\ (pc'[q] = "welcome" => q # r)
      BY <1>3, <2>1 DEF InRoom
    <3> QED BY <1>1, <3>1, <3>2 DEF Hears
  <2>2. CASE ~(q \in InRoom /\ heard[q] = Silence)
    <3>1. heard'[q] = heard[q] /\ Hears(q)
      BY <1>7, <2>2 DEF TargetInv
    <3>2. pc'[q] = pc[q] \/ pc'[q] = "broadcast"
      BY <1>3
    <3> QED BY <1>1, <3>1, <3>2 DEF Hears, Silence
  <2> QED BY <2>1, <2>2
<1>9. heard' \in [Runs -> Messages \cup {Silence}]
  <2>1. setting[r].message \in Messages
    BY <1>2 DEF Typed, Settings
  <2> QED BY <1>2, <2>1 DEF Typed
<1>10. Typed'
  BY <1>1, <1>2, <1>3, <1>5, <1>9 DEF Typed
<1> QED BY <1>5, <1>6, <1>8, <1>10 DEF TargetInv

LEMMA WsBroadcastSmokeKeeps ==
    ASSUME TargetInv, NEW r \in Runs, WsBroadcastSmoke(r)
    PROVE  TargetInv'
<1> DEFINE same == heard[r] = setting[r].message
           no == FALSE
<1>1. /\ script = "ws-broadcast" /\ script \notin LegacyScripts /\ script \in NoThreshold
      /\ WithinLimits(r)
  BY NothingAsked DEF TargetInv, WsBroadcastSmoke, LegacyScripts, NoThreshold, Sockets
<1>2. /\ Refusal(101) = 0 /\ Failure(TRUE) = 0 /\ 101 \in Nat /\ TRUE \in BOOLEAN
      /\ same \in BOOLEAN /\ no \in BOOLEAN /\ Failure(no) = 1 /\ Failure(same) \in {0, 1}
      /\ Failure(same) = 1 => heard[r] # setting[r].message
  BY SMT DEF Refusal, Failure
<1>3. /\ "connect" \in Places \ Room /\ "welcome" \in Places \ Given /\ "idle" \in Places \ Given
      /\ "broadcast" \in Places /\ "welcome" \in Places /\ "idle" \in Places
  BY DEF Places, Room, Given
<1>4. Typed /\ Hears(r)
  BY DEF TargetInv
<1>5. \/ Get(r, "connect", "welcome", "idle", 101, TRUE)
      \/ /\ pc[r] = "welcome"
         /\ pc' = [pc EXCEPT ![r] = "broadcast"]
         /\ heard' = [q \in Runs |-> IF q \in InRoom /\ heard[q] = Silence
                                     THEN setting[r].message ELSE heard[q]]
         /\ UNCHANGED <<script, setting, hand, run, items, rows, restarts>>
      \/ /\ \/ heard[r] # Silence /\ Answer(r, "welcome", "idle", 101, no)
            \/ heard[r] # Silence /\ Answer(r, "broadcast", "idle", 101, same)
            \/ Lose(r, "broadcast", "idle")
         /\ heard' = [heard EXCEPT ![r] = Silence]
         /\ UNCHANGED <<script, setting, hand, items, rows, restarts>>
  BY DEF WsBroadcastSmoke
<1> HIDE DEF same, no
<1>6. CASE Get(r, "connect", "welcome", "idle", 101, TRUE)
  <2>1. Asks(r, "connect", "welcome", "idle", Refusal(101), Failure(TRUE))
    BY <1>2, <1>3, <1>4, <1>6, GetAsks
  <2>2. Answerable(r, "welcome", 0, 0)
    BY <1>1 DEF Answerable
  <2> QED BY <1>1, <1>2, <1>3, <2>1, <2>2, AsksKeeps
<1>7. ASSUME \/ heard[r] # Silence /\ Answer(r, "welcome", "idle", 101, no)
             \/ heard[r] # Silence /\ Answer(r, "broadcast", "idle", 101, same)
             \/ Lose(r, "broadcast", "idle"),
             heard' = [heard EXCEPT ![r] = Silence],
             UNCHANGED <<script, setting, hand, items, rows, restarts>>
      PROVE  TargetInv'
  <2>1. /\ Onward /\ hand' \in [Runs -> Nat] /\ \A q \in Runs \ {r} : hand'[q] = hand[q]
    BY <1>4, <1>7, TargetAssumption DEF Typed, Onward
  <2>2. /\ heard' \in [Runs -> Messages \cup {Silence}] /\ heard'[r] = Silence
        /\ \A q \in Runs \ {r} : heard'[q] = heard[q]
    BY <1>4, <1>7 DEF Typed
  <2>3. Hears(r)'
    BY <2>2 DEF Hears, Silence
  <2>4. Stepped(r) /\ pc'[r] = "idle"
    <3>1. CASE Lose(r, "broadcast", "idle")
      BY <1>1, <1>3, <2>1, <2>2, <2>3, <3>1, LossSteps
    <3>2. CASE heard[r] # Silence /\ Answer(r, "welcome", "idle", 101, no)
      <4>1. PICK late \in {0, 1} :
              Exchange(r, "welcome", "idle", Refusal(101), 0, 0, Failure(no), late)
        BY <1>2, <1>3, <1>4, <3>2, AnswerIsExchange
      <4>2. Exchange(r, "welcome", "idle", 0, 0, 0, 1, late)
        BY <1>2, <4>1
      <4>3. pc[r] = "welcome"
        BY <3>2 DEF Answer
      <4>4. Accompanied(r)
        BY <1>4, <3>2, <4>3 DEF Hears, Accompanied
      <4>5. Reasoned(r, "welcome", "idle", 0, 0, 0, 1, late)
        BY <1>1, <4>4 DEF Reasoned, LegacyScripts
      <4> QED BY <1>3, <2>1, <2>2, <2>3, <4>2, <4>5, ExchangeSteps
    <3>3. CASE heard[r] # Silence /\ Answer(r, "broadcast", "idle", 101, same)
      <4>1. PICK late \in {0, 1} :
              Exchange(r, "broadcast", "idle", Refusal(101), 0, 0, Failure(same), late)
        BY <1>2, <1>3, <1>4, <3>3, AnswerIsExchange
      <4>2. Exchange(r, "broadcast", "idle", 0, 0, 0, Failure(same), late)
        BY <1>2, <4>1
      <4>3. Failure(same) = 1 => Overheard(r)
        BY <1>2, <1>4, <3>3 DEF Hears, Overheard
      <4>4. Reasoned(r, "broadcast", "idle", 0, 0, 0, Failure(same), late)
        BY <1>1, <4>3 DEF Reasoned, LegacyScripts
      <4> QED BY <1>2, <1>3, <2>1, <2>2, <2>3, <4>2, <4>4, ExchangeSteps
    <3> QED BY <1>7, <3>1, <3>2, <3>3
  <2> QED BY <1>3, <2>4, PlacedElsewhere, StepKeeps
<1> QED BY <1>1, <1>5, <1>6, <1>7, PublishKeeps

LEMMA RestartTargetKeeps ==
    ASSUME TargetInv, RestartTarget
    PROVE  TargetInv'
<1>1. /\ script' = script /\ setting' = setting /\ pc' = pc /\ hand' = hand /\ run' = run
      /\ heard' = heard /\ items' = 0 /\ rows' = SEED_ROWS
      /\ restarts < MaxRestarts /\ restarts' = restarts + 1
  BY DEF RestartTarget
<1>2. Typed /\ restarts \in Nat
  BY TargetAssumption DEF TargetInv, Typed
<1>3. restarts' # 0 /\ restarts' \in 0..MaxRestarts /\ rows' \in SEED_ROWS..MAX_TOTAL_ROWS
  BY <1>1, <1>2, TargetAssumption
<1>4. ASSUME NEW q \in Runs PROVE RunTyped(q)' /\ Good(q)' /\ Placed(q)' /\ Hears(q)'
  <2>1. RunTyped(q) /\ Good(q) /\ Placed(q) /\ Hears(q)
    BY DEF TargetInv, Typed
  <2>2. /\ Granted(q)' <=> Granted(q)
        /\ WithinLimits(q)' <=> WithinLimits(q)
        /\ Accepted(q)' <=> Accepted(q)
        /\ Short(q)' <=> Short(q)
        /\ Overheard(q)' <=> Overheard(q)
        /\ Accompanied(q)' <=> Accompanied(q)
    BY <1>1, SettingsStay
  <2>3. ~Undisturbed(q)'
    BY <1>3 DEF Undisturbed
  <2>4. RunTyped(q)'
    BY <1>1, <2>1 DEF RunTyped
  <2>5. Good(q)'
    <3>1. Counted(q)'
      BY <1>1, <2>1 DEF Good, Counted, LegacyScripts
    <3>2. Explained(q)'
      BY <1>1, <2>1, <2>2, <2>3 DEF Good, Explained
    <3>3. Noticed(q)'
      BY <1>1, <2>1, <2>2 DEF Good, Noticed, NoThreshold
    <3> QED BY <1>1, <2>1, <3>1, <3>2, <3>3 DEF Good
  <2>6. Placed(q)'
    BY <1>1, <1>3, <2>1, <2>2 DEF Placed
  <2>7. Hears(q)'
    BY <1>1, <2>1 DEF Hears, Silence
  <2> QED BY <2>4, <2>5, <2>6, <2>7
<1>5. Typed'
  BY <1>1, <1>2, <1>3, <1>4 DEF Typed
<1> QED BY <1>4, <1>5 DEF TargetInv
-----------------------------------------------------------------------------
(***************************************************************************)
(* The invariant, and what it says of the properties.                      *)
(***************************************************************************)
LEMMA InitKeeps ==
    ASSUME Init
    PROVE  TargetInv
<1>1. /\ script \in Scripts /\ pc = [r \in Runs |-> "idle"] /\ hand = [r \in Runs |-> 0]
      /\ run = [r \in Runs |-> Unmeasured] /\ items = 0
      /\ heard = [r \in Runs |-> Silence] /\ restarts = 0
  BY DEF Init
<1>2. setting \in [Runs -> Settings(script)]
  BY DEF Init
<1>3. rows \in SEED_ROWS..MAX_TOTAL_ROWS
  BY TargetAssumption DEF Init
<1>4. ASSUME NEW r \in Runs PROVE RunTyped(r) /\ Good(r) /\ Placed(r) /\ Hears(r)
  <2>1. /\ run[r].iterations = 0 /\ run[r].requests = 0 /\ run[r].refused = 0
        /\ run[r].errors = 0 /\ run[r].lost = 0 /\ run[r].broken = {}
        /\ run[r].slow = 0 /\ DOMAIN run[r] = Measures
    BY <1>1 DEF Unmeasured, Measures
  <2>2. RunTyped(r)
    BY <2>1 DEF RunTyped
  <2>3. Good(r)
    BY <2>1 DEF Good, Counted, Explained, Noticed
  <2>4. Placed(r) /\ Hears(r)
    BY <1>1 DEF Placed, Hears, Silence
  <2> QED BY <2>2, <2>3, <2>4
<1>5. Typed
  BY <1>1, <1>2, <1>3, <1>4, TargetAssumption DEF Typed, Places
<1> QED BY <1>4, <1>5 DEF TargetInv

LEMMA StutterKeeps ==
    ASSUME TargetInv, UNCHANGED vars
    PROVE  TargetInv'
<1>1. /\ script' = script /\ setting' = setting /\ pc' = pc /\ hand' = hand /\ run' = run
      /\ items' = items /\ rows' = rows /\ heard' = heard /\ restarts' = restarts
  BY DEF vars
<1>2. Typed
  BY DEF TargetInv
<1>3. Onward
  BY <1>1, <1>2, TargetAssumption DEF Typed, Onward
<1>4. ASSUME NEW q \in Runs PROVE RunTyped(q)' /\ Good(q)' /\ Placed(q)' /\ Hears(q)'
  <2>1. RunTyped(q)' /\ Good(q)'
    BY <1>1, <1>2, <1>3, OthersGood DEF TargetInv
  <2>2. Placed(q)'
    BY <1>1, <1>2, <1>3, OthersPlaced DEF TargetInv
  <2>3. Hears(q)'
    BY <1>1 DEF TargetInv, Hears, Silence
  <2> QED BY <2>1, <2>2, <2>3
<1>5. Typed'
  BY <1>1, <1>2, <1>4 DEF Typed
<1> QED BY <1>4, <1>5 DEF TargetInv

LEMMA NextKeeps ==
    ASSUME TargetInv, [Next]_vars
    PROVE  TargetInv'
<1>1. CASE UNCHANGED vars
  BY <1>1, StutterKeeps
<1>2. CASE RestartTarget
  BY <1>2, RestartTargetKeeps
<1>3. ASSUME NEW r \in Runs,
             \/ StartIteration(r) \/ CrudFlow(r) \/ DbCrudFlow(r) \/ DbListFilter(r)
             \/ ArchiveFlow(r) \/ PayloadDownload(r) \/ FileFlow(r) \/ TarSelectiveFlow(r)
             \/ LatencyDelay(r) \/ ResourceCpu(r) \/ EchoSmoke(r) \/ ErrorFlaky(r) \/ SseSmoke(r)
             \/ WsEchoSmoke(r) \/ WsBroadcastSmoke(r)
             \/ Smoke(r) \/ StressCpu(r) \/ StressIo(r) \/ StressData(r)
      PROVE  TargetInv'
  BY <1>3, StartIterationKeeps, CrudFlowKeeps, DbCrudFlowKeeps, DbListFilterKeeps,
     ArchiveFlowKeeps, PayloadDownloadKeeps, FileFlowKeeps, TarSelectiveFlowKeeps,
     LatencyDelayKeeps, ResourceCpuKeeps, EchoSmokeKeeps, ErrorFlakyKeeps, SseSmokeKeeps,
     WsEchoSmokeKeeps, WsBroadcastSmokeKeeps, LegacyKeeps
<1> QED BY <1>1, <1>2, <1>3 DEF Next

LEMMA TargetInvariant == Spec => []TargetInv
<1>1. Init => TargetInv
  BY InitKeeps
<1>2. TargetInv /\ [Next]_vars => TargetInv'
  BY NextKeeps
<1> QED BY <1>1, <1>2, PTL DEF Spec

(***************************************************************************)
(* The state of the targets and of the runs is well formed: ids and rows   *)
(* are numbers, db_api.py never has more rows than its cap, a connection   *)
(* has been sent nothing but messages of runs, and a run has not been      *)
(* refused more often than it has asked.                                   *)
(***************************************************************************)
THEOREM TargetsTypeCorrect == Spec => []TypeOK
<1>1. TargetInv => TypeOK
  BY DEF TargetInv, Typed, Good, TypeOK
<1> QED BY <1>1, TargetInvariant, PTL

(***************************************************************************)
(* Whatever the other runs of a script do to its target, a check of a      *)
(* run fails only for one of the reasons of ChecksHold.                    *)
(***************************************************************************)
THEOREM ChecksFailForAReason == Spec => []ChecksHold
<1>1. ASSUME TargetInv PROVE ChecksHold
  <2> SUFFICES ASSUME NEW r \in Runs, run[r].broken # {}, Undisturbed(r), Granted(r),
                      ~(script \in Streams /\ Duration(r) >= 10000),
                      ~(script \in TimeChecked /\ run[r].slow > 0),
                      ~(script = "tar" /\ setting[r].picked > setting[r].count)
               PROVE  /\ script = "ws-broadcast"
                      /\ \E q \in Runs \ {r} : \/ run[r].broken = {"welcome"}
                                               \/ setting[q].message # setting[r].message
    BY DEF ChecksHold
  <2>1. Accepted(r) /\ ~Short(r)
    BY DEF Accepted, GivenUp, Short
  <2>2. Explained(r)
    BY <1>1 DEF TargetInv, Good
  <2>3. /\ script = "ws-broadcast"
        /\ Overheard(r) \/ (run[r].broken = {"welcome"} /\ Accompanied(r))
    BY <2>1, <2>2 DEF Explained
  <2> QED BY <2>3 DEF Overheard, Accompanied
<1> QED BY <1>1, TargetInvariant, PTL

\* When every answer was slow, so is the percentile.
LEMMA EverySlowIsLate ==
    ASSUME NEW r, run[r].requests \in Nat, run[r].requests > 0,
           run[r].slow = run[r].requests, NEW late \in Lateness(r)
    PROVE  late
<1> DEFINE n == run[r].requests
           p == IF script = "smoke" THEN 99 ELSE 95
<1>1. late \in BOOLEAN /\ (p * (n - 1) >= 100 * (n - run[r].slow) => late)
  BY DEF Lateness
<1>2. 100 * (n - run[r].slow) = 0 /\ p * (n - 1) >= 0
  <2>1. n - 1 \in Nat
    OBVIOUS
  <2> HIDE DEF n
  <2>2. p = 99 \/ p = 95
    OBVIOUS
  <2> HIDE DEF p
  <2>3. CASE p = 99
    BY <2>1, <2>3 DEF n
  <2>4. CASE p = 95
    BY <2>1, <2>4 DEF n
  <2> QED BY <2>2, <2>3, <2>4
<1> QED BY <1>1, <1>2

(***************************************************************************)
(* The verdict of k6 on an undisturbed run without an answer slower than   *)
(* its settings ask for says that these are within the documented limits   *)
(* and ask for less time than the threshold, and nothing else.             *)
(***************************************************************************)
THEOREM VerdictsAreSettings == Spec => []VerdictIsSettings
<1>1. ASSUME TargetInv PROVE VerdictIsSettings
  <2> SUFFICES ASSUME NEW r \in Runs, pc[r] = "idle", run[r].requests > 0,
                      script \notin NoThreshold, Undisturbed(r), Prompt(r),
                      NEW late \in Lateness(r)
               PROVE  Passes(r, late) <=> WithinLimits(r)
    BY DEF VerdictIsSettings
  <2>1. Good(r) /\ RunTyped(r) /\ Typed
    BY <1>1 DEF TargetInv, Typed
  <2>2. /\ run[r].requests \in Nat /\ run[r].refused \in Nat /\ run[r].errors \in Nat
        /\ run[r].lost = 0 /\ run[r].slow \in Nat
    BY <2>1 DEF RunTyped, Undisturbed
  <2>3. ASSUME WithinLimits(r) PROVE Passes(r, late)
    <3>1. Accepted(r)
      <4>1. CASE script \notin Streams
        BY <2>3, <4>1 DEF WithinLimits, Accepted, GivenUp
      <4>2. CASE script \in Streams
        <5>1. TimeThreshold[script] = 5000
          BY <4>2 DEF TimeThreshold, Streams, AllScripts
        <5>2. Duration(r) \in Int
          BY <2>1, <4>2, SettingsAreNumbers DEF Duration, Streams
        <5> QED BY <2>3, <5>1, <5>2 DEF WithinLimits, AsksForTime, Accepted, GivenUp
      <4> QED BY <4>1, <4>2
    <3>2. run[r].slow = 0
      BY <2>3 DEF WithinLimits, Prompt
    <3>3. ~late
      BY <3>2, SMT DEF Lateness
    <3>4. script # "flaky"
      BY DEF NoThreshold
    <3>5. ~(run[r].refused > 0)
      BY <2>1, <3>1, <3>4 DEF Good, Explained
    <3>6. run[r].refused = 0 /\ run[r].errors = 0
      BY <2>1, <2>2, <3>2, <3>5 DEF Good, Counted
    <3> QED BY <2>2, <3>3, <3>6 DEF Passes
  <2>4. ASSUME ~WithinLimits(r) PROVE ~Passes(r, late)
    <3>1. run[r].refused > 0 \/ run[r].slow = run[r].requests
      BY <2>1, <2>4 DEF Good, Noticed
    <3>2. script \notin LegacyScripts
      BY <2>1, <2>4, NothingAsked
    <3>3. CASE run[r].refused > 0
      BY <2>2, <3>2, <3>3 DEF Passes
    <3>4. CASE run[r].slow = run[r].requests
      <4>1. late
        BY <2>2, <3>4, EverySlowIsLate
      <4> QED BY <4>1 DEF Passes
    <3> QED BY <3>1, <3>3, <3>4
  <2> QED BY <2>3, <2>4
<1> QED BY <1>1, TargetInvariant, PTL

(***************************************************************************)
(* A run that k6 passes has had no failed check, but for the exceptions of *)
(* PassMeansChecked: scripts without a threshold on failures, a selection  *)
(* that is short, and so many requests that a rate is below its threshold. *)
(***************************************************************************)
THEOREM PassesAreChecked == Spec => []PassMeansChecked
<1>1. ASSUME TargetInv PROVE PassMeansChecked
  <2> SUFFICES ASSUME NEW r \in Runs, NEW late, Passes(r, late), run[r].broken # {},
                      script \notin NoThreshold, ~Short(r)
               PROVE  \/ script = "stress-cpu" /\ run[r].requests > 20
                      \/ script \in {"stress-io", "stress-data"} /\ run[r].requests > 100
    BY DEF PassMeansChecked, Short
  <2>1. Good(r) /\ RunTyped(r)
    BY <1>1 DEF TargetInv, Typed
  <2>2. run[r].requests \in Nat /\ run[r].refused \in Nat /\ run[r].errors \in Nat
    BY <2>1 DEF RunTyped
  <2>3. run[r].refused > 0 \/ run[r].errors > 0
    BY <2>1 DEF Good, Noticed
  <2>4. run[r].requests > 0
    BY <2>1 DEF Good, Counted
  <2>5. CASE script \notin LegacyScripts
    BY <2>1, <2>2, <2>3, <2>5 DEF Passes, Good, Counted
  <2>6. CASE script \in LegacyScripts
    BY <2>2, <2>3, <2>4, <2>6 DEF Passes, LegacyScripts
  <2> QED BY <2>5, <2>6
<1> QED BY <1>1, TargetInvariant, PTL

(***************************************************************************)
(* The error rate that a stress script of the legacy target tells counts   *)
(* every request that failed; the smoke script's leaves out no more than   *)
(* the answers that never came.                                            *)
(***************************************************************************)
THEOREM ErrorRatesCountFailures == Spec => []ErrorsCountFailures
<1>1. ASSUME TargetInv PROVE ErrorsCountFailures
  BY <1>1 DEF TargetInv, Good, Counted, ErrorsCountFailures
<1> QED BY <1>1, TargetInvariant, PTL

=============================================================================
