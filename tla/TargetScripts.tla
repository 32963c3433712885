---------------------------- MODULE TargetScripts ----------------------------
(***************************************************************************)
(* The k6 scripts of src/engines/k6 that load the other targets, and what  *)
(* these targets answer them (src/target-apps/apps/*_api.py and            *)
(* src/target-app/main.py).  Runs of one script, with settings of their    *)
(* own, load one target at the same time; a run has one virtual user here, *)
(* for what its virtual users share is the target, as it is for runs.      *)
(*                                                                         *)
(* A request is answered by a handler that runs to its end alone (the      *)
(* handlers await nothing but sleeps, after which they touch no state).    *)
(* It may also be lost: no answer arrives, and the handler may have run or *)
(* not.  The body of a lost answer is null; reading JSON from it throws,   *)
(* which ends the iteration unless the script catches it.                  *)
(*                                                                         *)
(* A time is compared with one threshold only, that of the script on       *)
(* http_req_duration.  An answer is slow when it takes as long or longer:  *)
(* because its settings ask for a delay or for a stream of events that are *)
(* some interval apart, or because the target happens to be slow.          *)
(***************************************************************************)
EXTENDS Integers, FiniteSets

CONSTANTS
    Runs,
    Scripts,            \* the scripts to be run, a subset of AllScripts
    Counts, Sizes, Delays, Messages,        \* values of settings
    MAX_TOTAL_ROWS, SEED_ROWS,              \* db_api.py
    MAX_PAGE_SIZE, MAX_DOWNLOAD_KB, MAX_UPLOAD_BYTES, MAX_FILE_KB,
    MAX_FILE_MANIFEST_COUNT, MAX_ARCHIVE_FILE_COUNT, MAX_ARCHIVE_KB_PER_FILE,
    MAX_SELECTIVE_FETCH_COUNT,              \* payload_api.py
    MAX_EVENT_COUNT, MAX_INTERVAL_MS, MAX_PROGRESS_HEAVY_STEPS, \* sse_api.py
    MAX_DELAY_MS, MAX_CPU_ITERATIONS, MAX_REPEAT,
    MaxIterations,      \* bound: iterations of a run
    MaxLost,            \* bound: lost requests and unasked for slow answers, of all runs
    MaxRestarts         \* bound: times the target is started again

AllScripts == {"crud", "db-crud", "db-list", "archive", "download", "file", "roundtrip",
               "tar", "latency", "cpu", "flaky", "echo", "events", "ticker", "progress",
               "progress-heavy", "ws-echo", "ws-broadcast", "smoke", "stress-cpu",
               "stress-io", "stress-data"}

ASSUME TargetAssumption ==
    /\ Scripts \subseteq AllScripts
    /\ MAX_TOTAL_ROWS \in Nat /\ SEED_ROWS \in 1..MAX_TOTAL_ROWS
    /\ Counts \cup Sizes \cup Delays \subseteq Int
    /\ MaxRestarts \in Nat

\* The limits in the code, which are those of the documentation (Granted).
ASSUME LimitsAssumption ==
    /\ MAX_PAGE_SIZE = 50
    /\ MAX_DOWNLOAD_KB = 512 /\ MAX_UPLOAD_BYTES = 262144
    /\ MAX_FILE_KB = 256 /\ MAX_FILE_MANIFEST_COUNT = 20
    /\ MAX_ARCHIVE_FILE_COUNT = 10 /\ MAX_ARCHIVE_KB_PER_FILE = 64
    /\ MAX_SELECTIVE_FETCH_COUNT = 8
    /\ MAX_EVENT_COUNT = 100 /\ MAX_INTERVAL_MS = 5000 /\ MAX_PROGRESS_HEAVY_STEPS = 60
    /\ MAX_DELAY_MS = 5000 /\ MAX_CPU_ITERATIONS = 2000000 /\ MAX_REPEAT = 8

VARIABLES
    script,     \* the script of all runs
    setting,    \* the settings of each run, from its template or request
    pc,         \* the request each run sends next
    hand,       \* the id each iteration has been given, 0 for undefined
    run,        \* what k6 has measured of each run
    items,      \* crud_api.py: ids 1..items exist
    rows,       \* db_api.py: ids 1..rows exist
    heard,      \* ws_api.py: the first broadcast each connected run was sent
    restarts

vars == <<script, setting, pc, hand, run, items, rows, heard, restarts>>

Silence == "no message"

(***************************************************************************)
(* The settings a script reads from its environment; the others have a     *)
(* value that nothing looks at.                                            *)
(***************************************************************************)
Settings(s) ==
    [count : IF s \in {"db-list", "archive", "tar", "cpu", "echo", "flaky", "events",
                       "ticker", "progress", "progress-heavy"} THEN Counts ELSE {1},
     picked : IF s = "tar" THEN Counts ELSE {1},
     kb : IF s \in {"archive", "download", "file", "roundtrip", "tar"} THEN Sizes ELSE {1},
     ms : IF s \in {"latency", "events", "ticker", "progress", "progress-heavy"}
          THEN Delays ELSE {0},
     message : IF s \in {"ws-echo", "ws-broadcast"} THEN Messages ELSE {"none"}]

\* The scripts whose runs meet in the target; runs of another one do not, and
\* have the same settings here.
Shared == {"crud", "db-crud", "ws-broadcast"}

FirstRequest ==
    [s \in AllScripts |->
        CASE s \in {"crud", "db-crud"} -> "create"
          [] s = "archive" -> "fixture-pack"
          [] s \in {"file", "roundtrip", "tar"} -> "manifest"
          [] s \in {"ws-echo", "ws-broadcast"} -> "connect"
          [] OTHER -> "get"]

Unmeasured == [iterations |-> 0, requests |-> 0, refused |-> 0, errors |-> 0,
               slow |-> 0, lost |-> 0, broken |-> {}]

Init ==
    /\ script \in Scripts
    /\ setting \in IF script \in Shared THEN [Runs -> Settings(script)]
                  ELSE {[r \in Runs |-> s] : s \in Settings(script)}
    /\ pc = [r \in Runs |-> "idle"]
    /\ hand = [r \in Runs |-> 0]
    /\ run = [r \in Runs |-> Unmeasured]
    /\ items = 0
    /\ rows \in IF script = "db-crud" THEN SEED_ROWS..MAX_TOTAL_ROWS  \* earlier runs leave rows
               ELSE {SEED_ROWS}
    /\ heard = [r \in Runs |-> Silence]
    /\ restarts = 0

StartIteration(r) ==
    /\ pc[r] = "idle" /\ run[r].iterations < MaxIterations
    /\ pc' = [pc EXCEPT ![r] = FirstRequest[script]]
    /\ hand' = [hand EXCEPT ![r] = 0]
    /\ run' = [run EXCEPT ![r].iterations = @ + 1]
    /\ UNCHANGED <<script, setting, items, rows, heard, restarts>>
-----------------------------------------------------------------------------
(***************************************************************************)
(* The thresholds on http_req_duration, in ms: on the 95th percentile, in  *)
(* smoke.js on the 99th.  The websocket scripts send no HTTP requests.     *)
(* Duration is what the settings ask for.                                  *)
(***************************************************************************)
Sockets == {"ws-echo", "ws-broadcast"}
Streams == {"events", "ticker", "progress", "progress-heavy"}

TimeThreshold ==
    [s \in AllScripts |->
        IF s \in {"smoke", "echo"} THEN 500
        ELSE IF s = "flaky" THEN 1000
        ELSE IF s \in {"crud", "latency", "stress-data"} THEN 1500
        ELSE IF s \in {"download", "stress-cpu"} THEN 2000
        ELSE IF s = "stress-io" THEN 3500
        ELSE IF s \in Streams THEN 5000 ELSE 3000]

Duration(r) ==
    IF script = "latency" THEN setting[r].ms
    ELSE IF script \in Streams THEN setting[r].count * setting[r].ms
    ELSE IF script = "stress-io" THEN 1000 ELSE 0

AsksForTime(r) == Duration(r) >= TimeThreshold[script]

Disturbances[R \in SUBSET Runs] ==
    IF R = {} THEN 0
    ELSE LET r == CHOOSE x \in R : TRUE
         IN run[r].lost + (IF AsksForTime(r) THEN 0 ELSE run[r].slow) + Disturbances[R \ {r}]

\* How many slow answers an answer is, zero or one.  A refusal delays nothing.
Slowness(r, status) ==
    IF AsksForTime(r) /\ status # 422 THEN {1}
    ELSE {0} \cup {n \in {1} : script \notin Sockets /\ Disturbances[Runs] < MaxLost}

(***************************************************************************)
(* One exchange of a run: http_req_failed counts an answer of 400 or more, *)
(* check records whether everything asked of the answer is so, and the     *)
(* next request is `to'.                                                   *)
(***************************************************************************)
\* Mutation: only the failures of the server are counted.
MeasuredServerErrors(r, from, status, ok, slow) ==
    [run[r] EXCEPT !.requests = @ + 1,
                   !.refused = IF status >= 500 THEN @ + 1 ELSE @,
                   !.slow = @ + slow,
                   !.broken = IF ok THEN @ ELSE @ \cup {from}]

Measured(r, from, status, ok, slow) ==
    [run[r] EXCEPT !.requests = @ + 1,
                   !.refused = IF status >= 400 THEN @ + 1 ELSE @,
                   !.slow = @ + slow,
                   !.broken = IF ok THEN @ ELSE @ \cup {from}]

Answer(r, from, to, status, ok) ==
    /\ pc[r] = from
    /\ pc' = [pc EXCEPT ![r] = to]
    /\ \E slow \in Slowness(r, status) :
          run' = [run EXCEPT ![r] = Measured(r, from, status, ok, slow)]

(***************************************************************************)
(* A lost request: its check fails, and afterwards the script sends `to',  *)
(* or has thrown and waits for its next iteration.  A request that has     *)
(* timed out was slow, a connection that was refused was not.              *)
(***************************************************************************)
Lose(r, from, to) ==
    /\ pc[r] = from
    /\ Disturbances[Runs] < MaxLost
    /\ pc' = [pc EXCEPT ![r] = to]
    /\ \E slow \in {0, 1} :
          run' = [run EXCEPT ![r].requests = @ + 1, ![r].refused = @ + 1, ![r].slow = @ + slow,
                             ![r].lost = @ + 1, ![r].broken = @ \cup {from}]

Untouched == UNCHANGED <<script, setting, hand, items, rows, heard, restarts>>

(***************************************************************************)
(* A request to a handler that keeps nothing.                              *)
(***************************************************************************)
Get(r, from, to, afterLoss, status, ok) ==
    /\ \/ Answer(r, from, to, status, ok)
       \/ Lose(r, from, afterLoss)
    /\ Untouched

(***************************************************************************)
(* target_apps_crud_flow.js against crud_api.py: post an item, get it.     *)
(***************************************************************************)
CrudFlow(r) ==
    /\ script = "crud"
    /\ \/ /\ \/ /\ Answer(r, "create", "fetch", 201, TRUE)
                /\ hand' = [hand EXCEPT ![r] = items + 1]
                /\ items' = items + 1
             \/ /\ Lose(r, "create", "idle")
                /\ items' \in {items, items + 1}
                /\ UNCHANGED hand
          /\ UNCHANGED <<script, setting, rows, heard, restarts>>
       \/ LET found == hand[r] \in 1..items
          IN Get(r, "fetch", "idle", "idle", IF found THEN 200 ELSE 404, found)

(***************************************************************************)
(* target_apps_db_crud_flow.js against db_api.py: the table has a cap, and *)
(* no request removes a row.  A refused creation has no id, and the fetch  *)
(* of `undefined' is refused as well.                                      *)
(***************************************************************************)
\* Mutation: the cap is compared too late.
CreateStatusLate == IF rows > MAX_TOTAL_ROWS THEN 422 ELSE 201

CreateStatus == IF rows >= MAX_TOTAL_ROWS THEN 422 ELSE 201

DbCrudFlow(r) ==
    /\ script = "db-crud"
    /\ \/ /\ \/ /\ Answer(r, "create", "fetch", CreateStatus, CreateStatus = 201)
                /\ rows' = IF CreateStatus = 201 THEN rows + 1 ELSE rows
                /\ hand' = [hand EXCEPT ![r] = IF CreateStatus = 201 THEN rows + 1 ELSE 0]
             \/ /\ Lose(r, "create", "idle")
                /\ rows' \in {rows, IF CreateStatus = 201 THEN rows + 1 ELSE rows}
                /\ UNCHANGED hand
          /\ UNCHANGED <<script, setting, items, heard, restarts>>
       \/ LET status == IF hand[r] = 0 THEN 422
                        ELSE IF hand[r] \in 1..rows THEN 200 ELSE 404
          IN Get(r, "fetch", "idle", "idle", status, status = 200)

(***************************************************************************)
(* target_apps_db_list_filter.js: a page is never longer than its limit.   *)
(***************************************************************************)
DbListFilter(r) ==
    /\ script = "db-list"
    /\ LET status == IF setting[r].count \in 1..MAX_PAGE_SIZE THEN 200 ELSE 422
       IN Get(r, "get", "idle", "idle", status, status = 200)

(***************************************************************************)
(* The payload target.  Its files are made for each request, of the size   *)
(* that was asked for.                                                     *)
(***************************************************************************)
PackStatus(count, kb) ==
    IF count \in 1..MAX_ARCHIVE_FILE_COUNT /\ kb \in 1..MAX_ARCHIVE_KB_PER_FILE
    THEN 200 ELSE 422

ManifestStatus(count, kb) ==
    IF count \in 1..MAX_FILE_MANIFEST_COUNT /\ kb \in 1..MAX_FILE_KB THEN 200 ELSE 422

\* Mutation: the longest selection is refused.
SelectedStatusShort(count, kb) ==
    IF count \in 1..(MAX_SELECTIVE_FETCH_COUNT - 1) /\ kb \in 1..MAX_ARCHIVE_KB_PER_FILE
    THEN 200 ELSE 422

SelectedStatus(count, kb) ==
    IF count \in 1..MAX_SELECTIVE_FETCH_COUNT /\ kb \in 1..MAX_ARCHIVE_KB_PER_FILE
    THEN 200 ELSE 422

\* A list of no file ids is no list: tar-package makes its default pack of 4.
TarStatus(count, kb) == IF count = 0 THEN PackStatus(4, kb) ELSE SelectedStatus(count, kb)

(***************************************************************************)
(* target_apps_payload_archive_flow.js.  The archive is binary, so that    *)
(* nothing throws when it is lost.                                         *)
(***************************************************************************)
ArchiveFlow(r) ==
    /\ script = "archive"
    /\ LET status == PackStatus(setting[r].count, setting[r].kb)
       IN \/ Get(r, "fixture-pack", "archive", "idle", status, status = 200)
          \/ Get(r, "archive", "read-many", "read-many", status, status = 200)
          \/ Get(r, "read-many", "idle", "idle", status, status = 200)

(***************************************************************************)
(* target_apps_payload_download.js.                                        *)
(***************************************************************************)
PayloadDownload(r) ==
    /\ script = "download"
    /\ LET status == IF setting[r].kb \in 1..MAX_DOWNLOAD_KB THEN 200 ELSE 422
       IN Get(r, "get", "idle", "idle", status, status = 200)

(***************************************************************************)
(* target_apps_payload_file_flow.js, with FILE_UPLOAD_MODE in "roundtrip": *)
(* the body of the download, whatever it is, is sent back.  A lost one is  *)
(* null, and an upload without a body is refused.                          *)
(***************************************************************************)
FileFlow(r) ==
    /\ script \in {"file", "roundtrip"}
    /\ LET kb == setting[r].kb
           next == IF script = "roundtrip" THEN "upload" ELSE "idle"
           status == IF kb \in 1..MAX_FILE_KB THEN 200 ELSE 422
           \* bytes of a file, 0 for a lost one; a refusal is a short text
           body == IF hand[r] = 0 THEN 0 ELSE IF status = 200 THEN kb * 1024 ELSE 100
           uploadStatus == IF body = 0 \/ body > MAX_UPLOAD_BYTES THEN 422 ELSE 200
       IN \/ Get(r, "manifest", "download", "idle",
                 ManifestStatus(3, kb), ManifestStatus(3, kb) = 200)
          \/ /\ \/ /\ Answer(r, "download", next, status, status = 200)
                   /\ hand' = [hand EXCEPT ![r] = 1]
                \/ /\ Lose(r, "download", next)
                   /\ hand' = [hand EXCEPT ![r] = 0]
             /\ UNCHANGED <<script, setting, items, rows, heard, restarts>>
          \/ Get(r, "upload", "idle", "idle", uploadStatus,
                 uploadStatus = 200 /\ body = kb * 1024)

(***************************************************************************)
(* target_apps_payload_tar_selective_flow.js: fetch, and then pack, the    *)
(* first SELECTIVE_COUNT files of a manifest of PACK_COUNT.  A manifest    *)
(* that was refused has no files to slice, and that throws.                *)
(***************************************************************************)
Selected(s) == IF s.picked <= s.count THEN s.picked ELSE s.count

TarSelectiveFlow(r) ==
    /\ script = "tar"
    /\ LET s == setting[r]
           listed == ManifestStatus(s.count, s.kb)
           fetched == SelectedStatus(Selected(s), s.kb)
           packed == TarStatus(Selected(s), s.kb)
       IN \/ Get(r, "manifest", IF listed = 200 THEN "selective-fetch" ELSE "idle", "idle",
                 listed, listed = 200 /\ s.count >= s.picked)
          \/ Get(r, "selective-fetch", "tar-package", "idle",
                 fetched, fetched = 200 /\ Selected(s) = s.picked)
          \/ Get(r, "tar-package", "idle", "idle", packed, packed = 200)

(***************************************************************************)
(* target_apps_latency_delay.js: its threshold, of 1500 ms, is below the   *)
(* longest delay the target grants.                                        *)
(***************************************************************************)
LatencyDelay(r) ==
    /\ script = "latency"
    /\ LET status == IF setting[r].ms \in 0..MAX_DELAY_MS THEN 200 ELSE 422
       IN Get(r, "get", "idle", "idle", status, status = 200)

(***************************************************************************)
(* target_apps_resource_cpu.js; target_apps_echo_smoke.js, with count for  *)
(* ECHO_REPEAT; target_apps_error_flaky.js, with count for FLAKY_RATE in   *)
(* percent: a request key has a fraction, and that decides its answer.     *)
(***************************************************************************)
ResourceCpu(r) ==
    /\ script = "cpu"
    /\ LET status == IF setting[r].count \in 1..MAX_CPU_ITERATIONS THEN 200 ELSE 422
       IN Get(r, "get", "idle", "idle", status, status = 200)

EchoSmoke(r) ==
    /\ script = "echo"
    /\ LET status == IF setting[r].count \in 1..MAX_REPEAT THEN 200 ELSE 422
       IN Get(r, "get", "idle", "idle", status, status = 200)

FlakyStatus(percent, fraction) ==
    IF percent \notin 0..100 THEN 422 ELSE IF fraction < percent THEN 503 ELSE 200

ErrorFlaky(r) ==
    /\ script = "flaky"
    /\ \E fraction \in {0, 50, 99} :
          LET status == FlakyStatus(setting[r].count, fraction)
          IN Get(r, "get", "idle", "idle", status, status \in {200, 503})

(***************************************************************************)
(* target_apps_sse_smoke.js: the whole stream is one answer, which takes   *)
(* as long as its events.  k6 gives up after 10 s; the threshold is 5 s.   *)
(***************************************************************************)
\* Mutation: the heavy stream has no limit of its own.
StreamStatusAlike(endpoint, count, ms) ==
    IF count \in 1..MAX_EVENT_COUNT /\ ms \in 0..MAX_INTERVAL_MS THEN 200 ELSE 422

StreamStatus(endpoint, count, ms) ==
    IF /\ count \in 1..MAX_EVENT_COUNT /\ ms \in 0..MAX_INTERVAL_MS
       /\ endpoint = "progress-heavy" => count <= MAX_PROGRESS_HEAVY_STEPS
    THEN 200 ELSE 422

SseSmoke(r) ==
    /\ script \in Streams
    /\ LET status == StreamStatus(script, setting[r].count, setting[r].ms)
           inTime == status = 422 \/ Duration(r) < 10000
       IN Get(r, "get", "idle", "idle", IF inTime THEN status ELSE 500, status = 200 /\ inTime)

(***************************************************************************)
(* target_apps_ws_echo_smoke.js and target_apps_ws_broadcast_smoke.js.  A  *)
(* connection that the target refuses, or that the timer of 3 s closes, is *)
(* a lost one.  The broadcast script publishes once it is welcome, and the *)
(* first broadcast it is sent, its own or another run's, ends it.          *)
(***************************************************************************)
WsEchoSmoke(r) ==
    /\ script = "ws-echo"
    /\ \/ Get(r, "connect", "echo", "idle", 101, TRUE)
       \/ Get(r, "echo", "idle", "idle", 101, TRUE)

InRoom == {r \in Runs : pc[r] \in {"welcome", "broadcast"}}

WsBroadcastSmoke(r) ==
    /\ script = "ws-broadcast"
    /\ \/ Get(r, "connect", "welcome", "idle", 101, TRUE)
       \/ \* welcome: the run sends its message, and the room hears it
          /\ pc[r] = "welcome"
          /\ pc' = [pc EXCEPT ![r] = "broadcast"]
          /\ heard' = [q \in Runs |-> IF q \in InRoom /\ heard[q] = Silence
                                      THEN setting[r].message ELSE heard[q]]
          /\ UNCHANGED <<script, setting, hand, run, items, rows, restarts>>
       \/ \* a broadcast, which may overtake the welcome
          /\ heard[r] # Silence
          /\ \/ Answer(r, "welcome", "idle", 101, FALSE)
             \/ Answer(r, "broadcast", "idle", 101, heard[r] = setting[r].message)
          /\ heard' = [heard EXCEPT ![r] = Silence]
          /\ UNCHANGED <<script, setting, hand, items, rows, restarts>>
       \/ /\ Lose(r, "broadcast", "idle")
          /\ heard' = [heard EXCEPT ![r] = Silence]
          /\ UNCHANGED <<script, setting, hand, items, rows, restarts>>

(***************************************************************************)
(* The scripts of the legacy target keep an error rate of their own, which *)
(* is told whether their checks hold.  A slow answer fails a check of      *)
(* smoke.js and stress_io.js; a lost one has no JSON, which the stress     *)
(* scripts catch and smoke.js does not: it throws before it has told its   *)
(* error rate.                                                             *)
(***************************************************************************)
LegacyScripts == {"smoke", "stress-cpu", "stress-io", "stress-data"}
TimeChecked == {"smoke", "stress-io"}

Told(r, status, ok, errors, slow) ==
    /\ pc[r] = "get" /\ pc' = [pc EXCEPT ![r] = "idle"]
    /\ run' = [run EXCEPT ![r] = [Measured(r, "get", status, ok, slow) EXCEPT
                  !.lost = IF status >= 400 THEN @ + 1 ELSE @,
                  !.errors = @ + errors]]
    /\ Untouched

Read(r) ==
    \E slow \in Slowness(r, 200) :
        LET failed == IF script \in TimeChecked THEN slow ELSE 0
        IN Told(r, 200, failed = 0, failed, slow)

\* Mutation: an exception leaves the error rate of a script untold.
UnreadUntold(r, errors) ==
    Disturbances[Runs] < MaxLost /\ \E slow \in {0, 1} : Told(r, 500, FALSE, 0, slow)

Unread(r, errors) ==
    Disturbances[Runs] < MaxLost /\ \E slow \in {0, 1} : Told(r, 500, FALSE, errors, slow)

Smoke(r) ==
    /\ script = "smoke"
    /\ Read(r) \/ Unread(r, 0)

StressCpu(r) ==
    /\ script = "stress-cpu"
    /\ Read(r) \/ Unread(r, 1)

StressIo(r) ==
    /\ script = "stress-io"
    /\ Read(r) \/ Unread(r, 1)

StressData(r) ==
    /\ script = "stress-data"
    /\ Read(r) \/ Unread(r, 1)

(***************************************************************************)
(* The target is started again: items and rows are gone, and their ids are *)
(* given out once more.                                                    *)
(***************************************************************************)
RestartTarget ==
    /\ restarts < MaxRestarts
    /\ restarts' = restarts + 1
    /\ items' = 0 /\ rows' = SEED_ROWS
    /\ UNCHANGED <<script, setting, pc, hand, run, heard>>

Next ==
    \/ \E r \in Runs :
          \/ StartIteration(r) \/ CrudFlow(r) \/ DbCrudFlow(r) \/ DbListFilter(r)
          \/ ArchiveFlow(r) \/ PayloadDownload(r) \/ FileFlow(r) \/ TarSelectiveFlow(r)
          \/ LatencyDelay(r) \/ ResourceCpu(r) \/ EchoSmoke(r) \/ ErrorFlaky(r) \/ SseSmoke(r)
          \/ WsEchoSmoke(r) \/ WsBroadcastSmoke(r)
          \/ Smoke(r) \/ StressCpu(r) \/ StressIo(r) \/ StressData(r)
    \/ RestartTarget

Spec == Init /\ [][Next]_vars
-----------------------------------------------------------------------------
(***************************************************************************)
(* The percentile that k6 compares with the threshold on time lies between *)
(* two of the sorted times, those before and after the place p * (n - 1);  *)
(* the slow ones are the last.  Late says that it is not below: that may   *)
(* be when the time after that place is slow, and it must be when both are.*)
(***************************************************************************)
Lateness(r) ==
    LET k == run[r]
        n == k.requests
        place == (IF script = "smoke" THEN 99 ELSE 95) * (n - 1)    \* in percent
    IN {late \in BOOLEAN : /\ late => k.slow > 0 /\ place > 100 * (n - k.slow - 1)
                           /\ k.slow > 0 /\ place >= 100 * (n - k.slow) => late}

(***************************************************************************)
(* The exit status of k6: it is 0 when every threshold of the script       *)
(* holds, and a threshold without a sample does.                           *)
(***************************************************************************)
NoThreshold == {"flaky"} \cup Sockets      \* none but on times

Passes(r, late) ==
    LET k == run[r]
    IN /\ ~late
       /\ script = "smoke" => k.refused = 0 /\ k.errors = 0
       /\ script = "stress-cpu" =>
             k.requests = 0 \/ (20 * k.refused < k.requests /\ 20 * k.errors < k.requests)
       /\ script \in {"stress-io", "stress-data"} =>
             k.requests = 0 \/ (100 * k.refused < k.requests /\ 100 * k.errors < k.requests)
       /\ script \notin LegacyScripts \cup NoThreshold => k.refused = 0
-----------------------------------------------------------------------------
TypeOK ==
    /\ script \in Scripts
    /\ setting \in [Runs -> Settings(script)]
    /\ hand \in [Runs -> Nat]
    /\ \A r \in Runs : run[r].refused <= run[r].requests
    /\ items \in Nat /\ rows \in SEED_ROWS..MAX_TOTAL_ROWS
    /\ heard \in [Runs -> Messages \cup {Silence}]
    /\ restarts \in 0..MaxRestarts

(***************************************************************************)
(* The limits that src/docs/v3/domains/p-loadtesting-target-apps.md gives  *)
(* for each target (lines 250-288).                                        *)
(***************************************************************************)
Documented(name, s) ==
    /\ name = "db-list" => s.count \in 1..50
    /\ name = "archive" => s.count \in 1..10 /\ s.kb \in 1..64
    /\ name = "download" => s.kb \in 1..512
    /\ name \in {"file", "roundtrip"} => s.kb \in 1..256
    /\ name = "tar" => s.count \in 1..20 /\ s.kb \in 1..64 /\ Selected(s) \in 1..8
    /\ name = "latency" => 0 <= s.ms /\ s.ms <= 5000
    /\ name = "cpu" => 1 <= s.count /\ s.count <= 2000000
    /\ name = "echo" => s.count \in 1..8
    /\ name = "flaky" => s.count \in 0..100
    /\ name \in Streams =>
          /\ 1 <= s.count /\ s.count <= IF name = "progress-heavy" THEN 60 ELSE 100
          /\ 0 <= s.ms /\ s.ms <= 5000

Granted(r) == Documented(script, setting[r])

\* ... and the threshold on time can be met as well.
WithinLimits(r) == Granted(r) /\ ~AsksForTime(r)

Undisturbed(r) ==
    run[r].lost = 0 /\ restarts = 0 /\ (script = "db-crud" => rows < MAX_TOTAL_ROWS)

(***************************************************************************)
(* Whatever other runs do to the same target, a check fails only for a     *)
(* reason: a lost request, a target that was started again, a full table,  *)
(* settings outside of the documented limits, a stream that k6 does not    *)
(* wait for, a slow answer where a check asks for its time, more files     *)
(* selected than listed, or another run's broadcast in the same room.      *)
(***************************************************************************)
ChecksHold ==
    \A r \in Runs : run[r].broken # {} =>
        \/ ~Undisturbed(r) \/ ~Granted(r)
        \/ script \in Streams /\ Duration(r) >= 10000
        \/ script \in TimeChecked /\ run[r].slow > 0
        \/ script = "tar" /\ setting[r].picked > setting[r].count
        \/ script = "ws-broadcast" /\ \E q \in Runs \ {r} :
              run[r].broken = {"welcome"} \/ setting[q].message # setting[r].message

(***************************************************************************)
(* The verdict on an undisturbed run, no answer of which was slow without  *)
(* its settings asking for that, is what its settings decide: it passes    *)
(* exactly when they are within the documented limits and ask for less     *)
(* time than the threshold.                                                *)
(***************************************************************************)
Prompt(r) == AsksForTime(r) \/ run[r].slow = 0

VerdictIsSettings ==
    \A r \in Runs :
        /\ pc[r] = "idle" /\ run[r].requests > 0 /\ script \notin NoThreshold
        /\ Undisturbed(r) /\ Prompt(r)
        => \A late \in Lateness(r) : Passes(r, late) <=> WithinLimits(r)

(***************************************************************************)
(* A run that passes has had no failed check, with these exceptions: the   *)
(* scripts whose only threshold is on times, and a tar selection from too  *)
(* short a manifest, which every request of is accepted.                   *)
(***************************************************************************)
PassMeansChecked ==
    \A r \in Runs : \A late \in Lateness(r) : Passes(r, late) /\ run[r].broken # {} =>
        \/ script \in NoThreshold
        \/ script = "tar" /\ setting[r].picked > setting[r].count
        \/ script = "stress-cpu" /\ run[r].requests > 20
        \/ script \in {"stress-io", "stress-data"} /\ run[r].requests > 100

(***************************************************************************)
(* The error rate of a legacy script counts every failed request, but for  *)
(* the smoke script's: its check throws on an answer that never came, and  *)
(* the rate is not told.  http_req_failed is.                              *)
(***************************************************************************)
ErrorsCountFailures ==
    script \in LegacyScripts =>
        \A r \in Runs : IF script = "smoke" THEN run[r].refused <= run[r].lost
                                             ELSE run[r].refused <= run[r].errors
=============================================================================
