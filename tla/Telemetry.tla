------------------------------ MODULE Telemetry ------------------------------
(***************************************************************************)
(* The radar telemetry client (src/klib/radar.c).                          *)
(*                                                                         *)
(* At init a crash log dump is loaded; a crash report is sent if the last  *)
(* boot crashed, then a boot event; once the server returns a boot id,     *)
(* memory statistics are sampled on a timer and sent in batches.  Every    *)
(* step is a callback: the klog load completion, the DNS callback, the     *)
(* connection handler telemetry_ch, the receive handler telemetry_recv and *)
(* the retry and stats timers.  Failures re-arm the retry timer with a     *)
(* doubling backoff.  The network's answers are nondeterministic choices.  *)
(***************************************************************************)
EXTENDS Integers, Sequences, SequencesExt

CONSTANTS
    MaxRetries,    \* bound on telemetry_retry calls
    MaxStats,      \* bound on statistics batches sent
    KlogLoadFails  \* whether klog_load may complete with an error status

RADAR_STATS_BATCH_SIZE == 5

\* seconds(600) in telemetry_retry
BackoffCap == 600

Kinds == {"crash", "boot"}
Stages == {"dns", "connect", "open", "closing"}

VARIABLES
    klog,        \* "loading" until klog_dump_loaded runs, then "done"
    dump,        \* telemetry.dump # 0
    dumpDone,    \* telemetry.dump_done
    bootId,      \* telemetry.boot_id: 0 or an id from the server (1)
    running,     \* telemetry.running
    backoff,     \* telemetry.retry_backoff, in seconds
    retries,     \* telemetry_retry calls so far
    retryTimers, \* registrations of retry_timer not yet fired
    reqs,        \* crash report and boot requests in flight
    statsArmed,  \* stats_timer registered
    statsCount,  \* telemetry.stats_count
    statsSent,   \* statistics batches handed to telemetry_send
    statsReqs    \* statistics requests whose connection is pending

vars == <<klog, dump, dumpDone, bootId, running, backoff, retries,
          retryTimers, reqs, statsArmed, statsCount, statsSent, statsReqs>>

attemptVars == <<reqs, retryTimers, backoff, retries>>
statsVars == <<statsArmed, statsCount, statsSent, statsReqs>>

\* crash report and boot attempts pending: the klog load, a request in
\* flight or an armed retry timer
Pending == (IF klog = "loading" THEN 1 ELSE 0) + Len(reqs) + retryTimers

-----------------------------------------------------------------------------

\* telemetry_retry, with rt the retry timers otherwise armed: register the
\* retry timer, then double the backoff while
\* it is below 600 s
Retry(rt) ==
    /\ retries < MaxRetries
    /\ retryTimers' = rt + 1
    /\ backoff' = IF backoff < BackoffCap THEN 2 * backoff ELSE backoff
    /\ retries' = retries + 1

\* telemetry_crash_report / telemetry_boot, with rs the requests otherwise
\* in flight: build the body and call telemetry_send.  DNS answers later
\* (ERR_INPROGRESS), or at once and the TLS connect starts; any failure
\* (netif, buffer, closure, DNS, connect) goes to telemetry_retry.
StartRequest(kind, rs, rt) ==
    \/ /\ \E st \in {"dns", "connect"} : reqs' = Append(rs, [kind |-> kind, st |-> st])
       /\ retryTimers' = rt /\ UNCHANGED <<backoff, retries>>
    \/ /\ Retry(rt)
       /\ reqs' = rs

CrashReport(rs, rt) == StartRequest("crash", rs, rt)
Boot(rs, rt) == StartRequest("boot", rs, rt)

\* mutant: the connection failure retries even when running
ConnFailedAlwaysRetry == Retry(retryTimers)

\* telemetry_ch(out = 0): the connection failed; the data is freed and the
\* retry timer armed unless the statistics phase is running
ConnFailed ==
    IF ~running THEN Retry(retryTimers) ELSE UNCHANGED <<retryTimers, backoff, retries>>

-----------------------------------------------------------------------------
(* Handlers *)

\* klog_dump_loaded(s): on success report the crash or free the dump and
\* send the boot event; on failure only the status is freed
KlogDumpLoaded ==
    /\ klog = "loading"
    /\ klog' = "done"
    /\ \/ CrashReport(reqs, retryTimers) /\ UNCHANGED dump    \* exit_code != 0
       \/ dump' = FALSE /\ Boot(reqs, retryTimers)           \* clean exit
       \/ KlogLoadFails /\ UNCHANGED <<dump, attemptVars>>   \* !is_ok(s)
    /\ UNCHANGED <<dumpDone, bootId, running, statsVars>>

\* telemetry_dns_cb: the address is found and the connect thunk is queued,
\* or the lookup (or the thunk allocation) fails and telemetry_ch(0) runs
DnsCb(i) ==
    /\ reqs[i].st = "dns"
    /\ \/ /\ reqs' = [reqs EXCEPT ![i].st = "connect"]
          /\ UNCHANGED <<retryTimers, backoff, retries>>
       \/ reqs' = RemoveAt(reqs, i) /\ ConnFailed
    /\ UNCHANGED <<klog, dump, dumpDone, bootId, running, statsVars>>

\* telemetry_ch: tls_connect reports the connection.  With a connection,
\* telemetry_req posts the request; if that fails the data is freed and
\* nothing else happens.
TelemetryCh(i) ==
    /\ reqs[i].st = "connect"
    /\ \/ reqs' = RemoveAt(reqs, i) /\ ConnFailed          \* out == 0
       \/ /\ reqs' = [reqs EXCEPT ![i].st = "open"]        \* request posted
          /\ UNCHANGED <<retryTimers, backoff, retries>>
       \/ /\ reqs' = RemoveAt(reqs, i)                     \* telemetry_req fails
          /\ UNCHANGED <<retryTimers, backoff, retries>>
    /\ UNCHANGED <<klog, dump, dumpDone, bootId, running, statsVars>>

\* telemetry_crash_recv: an "OK" word in the response's start line marks the
\* crash report delivered
CrashRecv == \E ok \in BOOLEAN : dumpDone' = (dumpDone \/ ok)

\* telemetry_boot_recv: boot_id is zeroed, then parsed from the "id" field;
\* with no value (parser allocation failed) or no id it stays 0
BootRecv == bootId' \in {0, 1}

\* telemetry_recv(data): the HTTP parser hands the response to the value
\* handler, then the connection is closed.  A parse error does not call the
\* handler.
RecvData(i) ==
    /\ reqs[i].st = "open"
    /\ reqs' = [reqs EXCEPT ![i].st = "closing"]
    /\ \/ IF reqs[i].kind = "crash" THEN CrashRecv /\ UNCHANGED bootId
                                   ELSE BootRecv /\ UNCHANGED dumpDone
       \/ UNCHANGED <<dumpDone, bootId>>
    /\ UNCHANGED <<klog, dump, running, retryTimers, backoff, retries, statsVars>>

\* telemetry_stats_send: the batch goes to telemetry_send; if the buffer
\* cannot be allocated or the send fails at once, no request remains
StatsSend ==
    /\ statsSent' = statsSent + 1
    /\ statsReqs' \in {statsReqs, statsReqs + 1}

\* mutant: the crash report completes without clearing telemetry.dump
CrashDoneKeepDump(rs) == Boot(rs, retryTimers) /\ UNCHANGED dump

\* the crash report was accepted: klog_dump_clear, free the dump, send boot
CrashDone(rs) == dump' = FALSE /\ Boot(rs, retryTimers)

\* mutant: statistics start without checking that a boot id was received
BootDoneNoIdCheck(rs) ==
    /\ statsCount' = 0 /\ statsArmed' = TRUE
    /\ StatsSend
    /\ running' = TRUE
    /\ reqs' = rs /\ UNCHANGED <<retryTimers, backoff, retries>>

\* the boot request closed: with a boot id, sample memory into the whole
\* batch, send it (telemetry_stats_send), reset stats_count, register the
\* periodic stats timer and set running; otherwise retry
BootDone(rs) ==
    IF bootId # 0
    THEN /\ statsCount' = 0 /\ statsArmed' = TRUE
         /\ StatsSend
         /\ running' = TRUE
         /\ reqs' = rs /\ UNCHANGED <<retryTimers, backoff, retries>>
    ELSE /\ Retry(retryTimers) /\ reqs' = rs
         /\ UNCHANGED <<running, statsVars>>

\* telemetry_recv(0): the connection closed
RecvClose(i) ==
    /\ reqs[i].st \in {"open", "closing"}
    /\ LET rs == RemoveAt(reqs, i) IN
         IF dump
         THEN IF dumpDone
              THEN CrashDone(rs) /\ UNCHANGED <<running, statsVars>>
              ELSE /\ Retry(retryTimers) /\ reqs' = rs
                   /\ UNCHANGED <<dump, running, statsVars>>
         ELSE IF ~running
              THEN BootDone(rs) /\ UNCHANGED dump
              ELSE reqs' = rs /\ UNCHANGED <<dump, running, statsVars, retryTimers, backoff, retries>>
    /\ UNCHANGED <<klog, dumpDone, bootId>>

\* retry_timer_func: the one-shot retry timer fires; resend the crash report
\* while a dump is held, else the boot event
RetryTimerFunc ==
    /\ retryTimers > 0
    /\ IF dump THEN CrashReport(reqs, retryTimers - 1)
               ELSE Boot(reqs, retryTimers - 1)
    /\ UNCHANGED <<klog, dump, dumpDone, bootId, running, statsVars>>

\* mutant: the batch is sent only once stats_count passes the batch size
TelemetryStatsLate ==
    /\ statsArmed /\ statsSent < MaxStats
    /\ IF statsCount + 1 > RADAR_STATS_BATCH_SIZE
       THEN /\ statsCount' = 0
            /\ StatsSend
       ELSE /\ statsCount' = statsCount + 1
            /\ UNCHANGED <<statsSent, statsReqs>>
    /\ UNCHANGED <<klog, dump, dumpDone, bootId, running, attemptVars, statsArmed>>

\* telemetry_stats: the periodic stats timer stores a sample at
\* stats_mem_used[stats_count++] and sends the batch when it is full
TelemetryStats ==
    /\ statsArmed /\ statsSent < MaxStats
    /\ IF statsCount + 1 = RADAR_STATS_BATCH_SIZE
       THEN /\ statsCount' = 0
            /\ StatsSend
       ELSE /\ statsCount' = statsCount + 1
            /\ UNCHANGED <<statsSent, statsReqs>>
    /\ UNCHANGED <<klog, dump, dumpDone, bootId, running, attemptVars, statsArmed>>

\* a statistics request ends: its connection fails (telemetry_ch(0)) or it
\* is answered and closed (telemetry_recv with no value handler)
StatsReqEnd ==
    /\ statsReqs > 0
    /\ statsReqs' = statsReqs - 1
    /\ \/ ConnFailed /\ UNCHANGED reqs
       \/ UNCHANGED attemptVars
    /\ UNCHANGED <<klog, dump, dumpDone, bootId, running, statsArmed, statsCount, statsSent>>

-----------------------------------------------------------------------------

\* init: backoff 1 s, not running, the dump allocated and klog_load started
Init ==
    /\ klog = "loading" /\ dump = TRUE /\ dumpDone = FALSE
    /\ bootId = 0 /\ running = FALSE
    /\ backoff = 1 /\ retries = 0 /\ retryTimers = 0 /\ reqs = <<>>
    /\ statsArmed = FALSE /\ statsCount = 0 /\ statsSent = 0 /\ statsReqs = 0

\* nothing is left to happen: no callback or timer can run
Quiescent ==
    /\ klog = "done" /\ reqs = <<>> /\ retryTimers = 0 /\ statsReqs = 0
    /\ (~statsArmed \/ statsSent = MaxStats)

\* the exploration stops when nothing is left, or at the retry bound
Terminated == (Quiescent \/ retries = MaxRetries) /\ UNCHANGED vars

Next ==
    \/ KlogDumpLoaded
    \/ \E i \in DOMAIN reqs : DnsCb(i) \/ TelemetryCh(i) \/ RecvData(i) \/ RecvClose(i)
    \/ RetryTimerFunc
    \/ TelemetryStats
    \/ StatsReqEnd
    \/ Terminated

Spec == Init /\ [][Next]_vars

-----------------------------------------------------------------------------
(* Properties *)

TypeOK ==
    /\ klog \in {"loading", "done"}
    /\ dump \in BOOLEAN /\ dumpDone \in BOOLEAN /\ running \in BOOLEAN
    /\ bootId \in {0, 1}
    /\ backoff \in {2^k : k \in 0..10}
    /\ retries \in 0..MaxRetries /\ retryTimers \in Nat
    /\ reqs \in Seq([kind : Kinds, st : Stages])
    /\ statsArmed \in BOOLEAN
    /\ statsCount \in 0..(RADAR_STATS_BATCH_SIZE - 1)   \* stats_mem_used index
    /\ statsSent \in 0..MaxStats /\ statsReqs \in Nat

\* At most one crash report or boot attempt is alive at a time, and none once
\* the statistics phase runs: retry_timer is never registered while armed,
\* and no second boot can overwrite boot_id.
AttemptsSerialised == Pending <= 1 /\ (running => Pending = 0)

\* A boot event is sent only after the dump has been released, and a crash
\* report only while it is held, so telemetry.dump is freed exactly once.
DumpReleasedBeforeBoot ==
    \A i \in DOMAIN reqs : (reqs[i].kind = "boot") = ~dump

\* Statistics are sent only in the running phase, after the server returned
\* a boot id.
StatsCarryBootId ==
    [][statsSent' # statsSent => running' /\ bootId # 0]_vars

\* Until the statistics phase runs, some attempt is always pending: every
\* failure leads to telemetry_retry.
AttemptAlwaysPending == ~running => Pending >= 1 \/ retries = MaxRetries

=============================================================================
