-------------------------- MODULE MetricsHistory --------------------------
(***************************************************************************)
(* The history of a server's load (rsci/core/metricsstore.py and           *)
(* remotemon.py, and the requests of rsci/ui/server.py that use them).     *)
(* While a page shows the server the console polls it, which touches a     *)
(* heartbeat there and adds the sample to a local file of one-minute       *)
(* buckets; while nobody does, a daemon on the server appends samples to a *)
(* file of its own, whose end a page fetches and merges into the local     *)
(* one.  Every request has its own thread, and nothing is locked.          *)
(*                                                                         *)
(* A unit of time is half a minute, a sample is one number.  The rows of   *)
(* users' GPU memory are merged as the buckets are and are not modelled as *)
(* state; what is computed from them is (Occupied).                        *)
(***************************************************************************)
EXTENDS Naturals, Sequences, FiniteSetsExt

CONSTANTS
    Threads,    \* requests that use the store
    Values,     \* what a sample may measure
    MaxTime,    \* bound: the end of time
    Keep,       \* minutes a bucket is kept (KEEP_DAYS)
    TailRows,       \* rows the end of the daemon's file holds (_TAIL_HIST_BYTES)
    MaxUses,    \* bound: requests that use the store
    MaxEvents,  \* bound: what else happens to the daemon and its heartbeat
    Grace       \* how long the heartbeat must have been silent (90 seconds)

\* What the constants are, assumed by the module that gives them values.
HistoryAssumption == Values \subseteq Nat /\ {MaxTime, Keep, TailRows, MaxUses, MaxEvents, Grace} \subseteq Nat

VARIABLES
    now,       \* the time
    dir,       \* its directory there: "absent", "whole", or "bare" (without collector)
    checks,    \* when the loops of the daemon that run look at the heartbeat next
    beat,      \* when the heartbeat was last touched
    remote,    \* hist.tsv: what the daemon has sampled, <<minute, value>>
    hist,      \* <server>.hist.jsonl: the buckets
    th,        \* th[t]: what thread t does
    sampled,   \* history: when the load was last measured
    seeded,    \* history: when an installation last touched the heartbeat
    polled,    \* history: the samples of polls that have been added
    merged,    \* history: the samples of the daemon that have been merged
    uses,      \* requests so far
    events,    \* other events so far
    raced      \* history: whether two uses of the store have overlapped

ghosts == <<sampled, seeded, polled, merged, raced>>
counts == <<uses, events>>
vars == <<now, dir, checks, beat, remote, hist, th, ghosts, counts>>
-----------------------------------------------------------------------------
(* Types *)

Minute(time) == time \div 2
Minutes == 0 .. Minute(MaxTime)
Samples == Minutes \X Values
Buckets == [t : Minutes, lo : Values, hi : Values]

NoUse == [at |-> "idle", value |-> 0, text |-> <<>>, known |-> {}, rows |-> {}]

TypeOK == /\ now \in 0 .. MaxTime /\ checks \subseteq 0 .. MaxTime + 2 /\ beat \in 0 .. MaxTime
          /\ dir \in {"absent", "whole", "bare"}
          /\ remote \in Seq(Samples)
          /\ hist \subseteq Buckets
          /\ \A t \in Threads :
                 /\ th[t].at \in {"idle", "add", "merge", "read", "write"}
                 /\ th[t].text \in Seq(Samples)
                 /\ th[t].known \subseteq Minutes /\ th[t].rows \subseteq Buckets
          /\ uses \in 0 .. MaxUses /\ events \in 0 .. MaxEvents
          /\ {sampled, seeded} \subseteq 0 .. MaxTime /\ raced \in BOOLEAN
          /\ polled \subseteq Samples /\ merged \subseteq Samples

Init == /\ now = 0 /\ checks = {} /\ beat = 0
        /\ dir = "absent" /\ remote = <<>> /\ hist = {}
        /\ th = [t \in Threads |-> NoUse]
        /\ uses = 0 /\ events = 0
        /\ sampled = 0 /\ seeded = 0 /\ polled = {} /\ merged = {} /\ raced = FALSE
-----------------------------------------------------------------------------
(* Buckets *)

Lower(a, b) == IF a < b THEN a ELSE b
Higher(a, b) == IF a < b THEN b ELSE a
Of(m) == {b \in hist : b.t = m}
NewBucket(m, v) == [t |-> m, lo |-> v, hi |-> v]

\* _widen
Widened(b, v) == [b EXCEPT !.lo = Lower(@, v), !.hi = Higher(@, v)]

\* _prune: to the second, not to the minute.
Pruned(rows) == {b \in rows : 2 * (b.t + Keep) >= now}

\* merge_hist_tsv: of the rows for a minute that is not known the last counts.
\* Mutant: what is known already is merged again.
Everything(text, known) == {text[i][1] : i \in DOMAIN text}
NewMinutes(text, known) == {text[i][1] : i \in DOMAIN text} \ known

LastOf(text, m) == LET rows == {i \in DOMAIN text : text[i][1] = m}
                   IN  text[CHOOSE i \in rows : \A j \in rows : j <= i][2]
Fresh(text, known) == {NewBucket(m, LastOf(text, m)) : m \in NewMinutes(text, known)}

\* fetch: the end of the daemon's file.
TailOf(rows) == SubSeq(rows, IF Len(rows) > TailRows THEN Len(rows) - TailRows + 1 ELSE 1, Len(rows))
-----------------------------------------------------------------------------
(* The store.  A file that two threads write at once, under one temporary
   name, may be read half. *)

Uses == {t \in Threads : th[t].at # "idle"}
Readable == IF Cardinality({t \in Threads : th[t].at = "write"}) > 1 THEN SUBSET hist ELSE {hist}

Start(t, use) == /\ th[t].at = "idle"
                 /\ uses < MaxUses /\ uses' = uses + 1
                 /\ th' = [th EXCEPT ![t] = use]
                 /\ raced' = (raced \/ Uses # {})

\* append_sample, up to the writing
AddSample(t) == /\ th[t].at = "add"
                /\ \E rows \in Readable :
                       LET m == Minute(now)
                           v == th[t].value
                           same == {b \in rows : b.t = m}
                       IN  \/ /\ same = {}
                              /\ th' = [th EXCEPT ![t].at = "write",
                                            ![t].rows = Pruned(rows \cup {NewBucket(m, v)})]
                           \/ \E b \in same :
                                  th' = [th EXCEPT ![t].at = "write",
                                             ![t].rows = Pruned((rows \ {b}) \cup {Widened(b, v)})]
                /\ polled' = polled \cup {<<Minute(now), th[t].value>>}
                /\ UNCHANGED <<now, dir, checks, beat, remote, hist, sampled, seeded, merged, raced, counts>>

\* merge_hist_tsv: what is known is read first ...
Known(t) == /\ th[t].at = "merge"
            /\ \E rows \in Readable :
                   th' = [th EXCEPT ![t].at = "read", ![t].known = {b.t : b \in rows}]
            /\ UNCHANGED <<now, dir, checks, beat, remote, hist, ghosts, counts>>

\* ... and read again to add what is new.
Extend(t) == /\ th[t].at = "read"
             /\ IF NewMinutes(th[t].text, th[t].known) = {}
                THEN th' = [th EXCEPT ![t] = NoUse]
                ELSE \E rows \in Readable :
                         th' = [th EXCEPT ![t].at = "write",
                                    ![t].rows = Pruned(rows \cup Fresh(th[t].text, th[t].known))]
             /\ merged' = merged \cup {th[t].text[i] : i \in DOMAIN th[t].text}
             /\ UNCHANGED <<now, dir, checks, beat, remote, hist, sampled, seeded, polled, raced, counts>>

\* _write_rows
Write(t) == /\ th[t].at = "write"
            /\ hist' = th[t].rows
            /\ th' = [th EXCEPT ![t] = NoUse]
            /\ UNCHANGED <<now, dir, checks, beat, remote, ghosts, counts>>
-----------------------------------------------------------------------------
(* The requests *)

\* op_metrics touches the heartbeat if the daemon's directory is there.
Installed == dir # "absent"
Touched == IF Installed THEN now ELSE beat

\* _server_metrics
Poll(t) == /\ \E v \in Values : Start(t, [NoUse EXCEPT !.at = "add", !.value = v])
           /\ beat' = Touched /\ sampled' = now
           /\ UNCHANGED <<now, dir, checks, remote, hist, seeded, polled, merged, events>>

\* An agent's tool, or another computer, polls as well, and adds nothing here.
PollElsewhere == /\ Installed /\ beat # now
                 /\ events < MaxEvents /\ events' = events + 1
                 /\ beat' = now /\ sampled' = now
                 /\ UNCHANGED <<now, dir, checks, remote, hist, th, seeded, polled, merged, raced, uses>>

\* _monitor_history: status and fetch
Fetch(t) == /\ dir = "whole" /\ remote # <<>>
            /\ Start(t, [NoUse EXCEPT !.at = "merge", !.text = TailOf(remote)])
            /\ UNCHANGED <<now, dir, checks, beat, remote, hist, sampled, seeded, polled, merged, events>>

\* _monitor_daemon: install replaces the scripts, seeds the heartbeat and starts
\* the loop; a second loop ends at the lock, where there is flock.  Nothing is
\* measured.  One that fails may have removed the collector.
Install == /\ events < MaxEvents /\ events' = events + 1
           /\ \/ /\ dir' = "whole" /\ beat' = now /\ seeded' = now
                 /\ checks' \in {checks, checks \cup {now}} \ {{}}
              \/ Installed /\ dir' = "bare" /\ UNCHANGED <<beat, seeded, checks>>
           /\ UNCHANGED <<now, remote, hist, th, sampled, polled, merged, raced, uses>>

Uninstall == /\ Installed
             /\ events < MaxEvents /\ events' = events + 1
             /\ dir' = "absent" /\ checks' = {} /\ remote' = <<>>
             /\ UNCHANGED <<now, beat, hist, th, ghosts, uses>>
-----------------------------------------------------------------------------
(* The server *)

\* sample_if_stale, once a minute
\* Mutant: it waits for longer.
LongSilent == now - beat > Grace + 1
Silent == now - beat > Grace

\* collector_script: one pass.
Row(v) == <<Minute(now), v>>

Check == /\ now \in checks
         /\ checks' = (checks \ {now}) \cup {now + 2}
         /\ IF Silent /\ dir = "whole"
            THEN /\ \E v \in Values : remote' = Append(remote, Row(v))
                 /\ sampled' = now
            ELSE UNCHANGED <<remote, sampled>>
         /\ UNCHANGED <<now, dir, beat, hist, th, seeded, polled, merged, raced, counts>>

\* A reboot ends the loop, and nothing starts it again.
Reboot == /\ checks # {} /\ checks' = {}
          /\ events < MaxEvents /\ events' = events + 1
          /\ UNCHANGED <<now, dir, beat, remote, hist, th, ghosts, uses>>

Tick == /\ now < MaxTime
        /\ now \notin checks
        /\ now' = now + 1
        /\ UNCHANGED <<dir, checks, beat, remote, hist, th, ghosts, counts>>

Use(t) == AddSample(t) \/ Known(t) \/ Extend(t) \/ Write(t) \/ Poll(t) \/ Fetch(t)

Next == \/ \E t \in Threads : Use(t)
        \/ PollElsewhere \/ Install \/ Uninstall \/ Check \/ Reboot \/ Tick

Spec == Init /\ [][Next]_vars
-----------------------------------------------------------------------------
(* What is computed from the rows *)

\* usage_summary: the minutes a user has occupied a GPU, from the minutes in
\* which that was seen; two that are no further apart than UsageGap are one
\* occupation (USAGE_GAP_SECONDS).
UsageGap == 2
Adjacent(seen, m, n) == m < n /\ \A k \in seen : k <= m \/ n <= k
Occupied(seen) == UNION {p[1] .. (p[2] - 1) : p \in {q \in seen \X seen :
                             Adjacent(seen, q[1], q[2]) /\ q[2] - q[1] <= UsageGap}}

\* heatmap: the mean of what the buckets of a slot of a day say, in a day of Day
\* minutes; both ends of a bucket count.
Slots == 8
SlotOf(m, day) == (m % day) \div (day \div Slots)
Cell(rows, day, d, slot) == {b \in rows : b.t \div day = d /\ SlotOf(b.t, day) = slot}
Mean(cell) == MapThenSumSet(LAMBDA b : b.lo + b.hi, cell) \div (2 * Cardinality(cell))
-----------------------------------------------------------------------------
(* Properties *)

Given == polled \cup merged
Expired(m) == 2 * (m + Keep) < now

\* Whatever overlaps, a bucket holds what was measured in its minute.  As long as
\* no two uses of the store overlap, a minute has one bucket however often and in
\* whatever order polls and merges bring it, the bucket covers every poll of its
\* minute, and what was merged is there until it expires.
Timeline == /\ \A b \in hist : {<<b.t, b.lo>>, <<b.t, b.hi>>} \subseteq Given /\ b.lo <= b.hi
            /\ (~raced /\ Uses = {}) =>
                   /\ \A m \in Minutes : Cardinality(Of(m)) <= 1
                   /\ \A s \in polled : ~Expired(s[1]) =>
                          \E b \in Of(s[1]) : b.lo <= s[2] /\ s[2] <= b.hi
                   /\ \A s \in merged : ~Expired(s[1]) => Of(s[1]) # {}

\* While the daemon runs, whenever pages are opened and closed, the load is
\* measured at least every two minutes and a half, counted from the last
\* measurement or installation: an installation over a daemon that runs has it
\* wait again, and measures nothing.
Up == dir = "whole" /\ checks # {}
NoLongGap == Up => now - Higher(sampled, seeded) <= Grace + 2
=============================================================================
