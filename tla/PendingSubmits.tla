---------------------------- MODULE PendingSubmits ----------------------------
(***************************************************************************)
(* Submissions a person confirms: the card store rsci/workflow/pending.py, *)
(* the handlers _confirm_submit and _regenerate_submit of rsci/ui/server.py *)
(* and the submission record of rsci/hpc/center.py they leave behind.      *)
(*                                                                         *)
(* Each operation of the store reads, changes and replaces one JSON file   *)
(* under a lock, so it is one step; a handler is a thread of the UI, whose  *)
(* steps interleave with those of other threads and processes, and which   *)
(* may die between any two.  Card ids are random and never drawn twice:    *)
(* here they are numbered in the order of their creation.                  *)
(***************************************************************************)
EXTENDS Naturals, FiniteSets

CONSTANTS
    MaxCards,    \* bound: cards ever created
    MaxEntries,  \* the store drops finalised cards beyond this (50 in the code)
    Handlers,    \* threads that serve a confirm or regenerate request
    Versions,    \* contents of the remote job script
    NoSha        \* a card whose script could not be read

ASSUME CardAssumption == MaxCards \in Nat /\ MaxEntries \in Nat
ASSUME ShaAssumption == NoSha \notin Versions

Cards == 1 .. MaxCards
NoCard == 0

VARIABLES
    faults,    \* what may go wrong: a tolerant read of the store ("read"), the
               \* recording of a submission in the center ("record")
    cards,     \* cards[c]: the entry of card c in pending_submits.json
    made,      \* cards created so far
    due,       \* cards whose expires_at has passed
    at,        \* at[h]: where handler h is
    held,      \* held[h]: the card handler h works on
    read,      \* read[h]: the digest in its copy of the card
    script,    \* the remote job script
    inflight,  \* submissions the scheduler has not answered
    accepted,  \* submissions that became jobs
    center,    \* accepted submissions recorded in the remote center
    claimed,   \* history: cards that were ever claimed
    calls,     \* history: calls[c]: submissions asked of the client for card c
    ran        \* history: ran[c]: the script the scheduler took for card c

store == <<cards, made>>
local == <<at, held, read>>
remote == <<script, inflight, accepted, ran, faults>>
vars == <<store, due, local, remote, center, claimed, calls>>
-----------------------------------------------------------------------------
(* Types *)

Final == {"approved", "rejected", "expired"}
Statuses == Final \cup {"pending", "submitting", "uncertain"}
Attempted == {"submitting", "uncertain", "approved"}
Entries == [status : Statuses \cup {"absent"}, sha : Versions \cup {NoSha},
            from : Cards \cup {NoCard}]
Points == {"idle", "reject", "check", "claim", "submit", "await", "failed", "finish",
           "recheck", "reissue"}

TypeOK == /\ faults \in SUBSET {"read", "record"}
          /\ cards \in [Cards -> Entries]
          /\ made \in 0 .. MaxCards
          /\ due \in SUBSET Cards
          /\ at \in [Handlers -> Points]
          /\ held \in [Handlers -> Cards \cup {NoCard}]
          /\ read \in [Handlers -> Versions \cup {NoSha}]
          /\ script \in Versions
          /\ inflight \in SUBSET Cards
          /\ accepted \in SUBSET Cards
          /\ center \in SUBSET Cards
          /\ claimed \in SUBSET Cards
          /\ calls \in [Cards -> Nat]
          /\ ran \in [Cards -> Versions \cup {NoSha}]
-----------------------------------------------------------------------------
(* The store *)

NoEntry == [status |-> "absent", sha |-> NoSha, from |-> NoCard]
Entry(sha, from) == [status |-> "pending", sha |-> sha, from |-> from]
Stored(s) == {c \in Cards : s[c].status # "absent"}

\* _save: beyond MaxEntries the oldest finalised cards are dropped.
Dropped(s) ==
    LET done == {c \in Stored(s) : s[c].status \in Final} IN
    {c \in done : Cardinality({d \in done : d <= c}) + MaxEntries <= Cardinality(Stored(s))}
Saved(s) == [c \in Cards |-> IF c \in Dropped(s) THEN NoEntry ELSE s[c]]

\* _expire, which saves only what it changed.
\* Mutant: a card being submitted expires as well.
OpenLapsed(s) == {c \in Cards : s[c].status \in {"pending", "submitting"} /\ c \in due}
Lapsed(s) == {c \in Cards : s[c].status = "pending" /\ c \in due}
Swept(s) == IF Lapsed(s) = {} THEN s
            ELSE Saved([c \in Cards |-> IF c \in Lapsed(s)
                                        THEN [s[c] EXCEPT !.status = "expired"] ELSE s[c]])

\* A tolerant _load takes a file it cannot read for an empty one.
Unread == [c \in Cards |-> NoEntry]
Loads == {cards} \cup IF "read" \in faults THEN {Unread} ELSE {}

\* An operation that ends in an error, or only reads, has still expired
\* the lapsed cards, if it could read any.
Sweeping(s) == cards' = IF s = cards THEN Swept(cards) ELSE cards
-----------------------------------------------------------------------------
(* Where a handler goes next *)

Goto(h, point) == /\ at' = [at EXCEPT ![h] = point]
                  /\ UNCHANGED <<held, read>>
\* It answers its request.
Leave(h) == /\ at' = [at EXCEPT ![h] = "idle"]
            /\ held' = [held EXCEPT ![h] = NoCard]
            /\ read' = [read EXCEPT ![h] = NoSha]
\* It has loaded card c.
Holds(h, c, point) == /\ at' = [at EXCEPT ![h] = point]
                      /\ held' = [held EXCEPT ![h] = c]
                      /\ read' = [read EXCEPT ![h] = cards[c].sha]

Init == /\ faults \in SUBSET {"read", "record"}
        /\ cards = [c \in Cards |-> NoEntry]
        /\ made = 0
        /\ due = {}
        /\ at = [h \in Handlers |-> "idle"]
        /\ held = [h \in Handlers |-> NoCard]
        /\ read = [h \in Handlers |-> NoSha]
        /\ script \in Versions
        /\ inflight = {}
        /\ accepted = {}
        /\ center = {}
        /\ claimed = {}
        /\ calls = [c \in Cards |-> 0]
        /\ ran = [c \in Cards |-> NoSha]
-----------------------------------------------------------------------------
(* Cards are made by the agent's job_submit tool, and are listed *)

\* A new card, kept with what the operation loaded.
Add(s, entry) == /\ made < MaxCards
                 /\ made' = made + 1
                 /\ cards' = Saved([Swept(s) EXCEPT ![made + 1] = entry])

\* The tool freezes the digest of the script it could read.
Create == /\ \E s \in Loads, sha \in {script, NoSha} : Add(s, Entry(sha, NoCard))
          /\ UNCHANGED <<due, local, remote, center, claimed, calls>>

\* pending, history, get: a listing expires cards too.
List == /\ cards' = Swept(cards)
        /\ UNCHANGED <<made, due, local, remote, center, claimed, calls>>
-----------------------------------------------------------------------------
(* _confirm_submit: get, and either settle or compare the script, claim,    *)
(* submit and finish                                                       *)

\* The request carries the person's answer.
Confirm(h, c) ==
    /\ at[h] = "idle"
    /\ cards' = Swept(cards) /\ cards'[c].status = "pending"
    /\ \/ Holds(h, c, "reject")
       \/ Holds(h, c, IF cards[c].sha = NoSha THEN "claim" ELSE "check")
    /\ UNCHANGED <<made, due, remote, center, claimed, calls>>

\* settle(..., "rejected")
Reject(h) ==
    /\ at[h] = "reject"
    /\ LET c == held[h] IN
       \E s \in Loads :
          IF Swept(s)[c].status = "pending"
          THEN cards' = Saved([Swept(s) EXCEPT ![c].status = "rejected"])
          ELSE Sweeping(s)
    /\ Leave(h)
    /\ UNCHANGED <<made, due, remote, center, claimed, calls>>

\* The remote script still has the digest on the card, or the handler gives up.
Check(h) ==
    /\ at[h] = "check"
    /\ (script = read[h] /\ Goto(h, "claim")) \/ Leave(h)
    /\ UNCHANGED <<store, due, remote, center, claimed, calls>>

\* claim: the one permitted submission is persisted before the call.
\* Mutant: what _confirm_submit saw in get is not looked at again.
StillStored(s, c) == s[c].status # "absent"
Claimable(s, c) == s[c].status = "pending"
Claim(h) ==
    /\ at[h] = "claim"
    /\ LET c == held[h] IN
       \E s \in Loads :
          IF Claimable(Swept(s), c)
          THEN /\ cards' = Saved([Swept(s) EXCEPT ![c].status = "submitting"])
               /\ claimed' = claimed \cup {c}
               /\ Goto(h, "submit")
          ELSE Sweeping(s) /\ Leave(h) /\ UNCHANGED claimed
    /\ UNCHANGED <<made, due, remote, center, calls>>

\* client.submit: it may fail before the scheduler hears of it.
Submit(h) ==
    /\ at[h] = "submit"
    /\ \/ /\ calls' = [calls EXCEPT ![held[h]] = @ + 1]
          /\ inflight' = inflight \cup {held[h]}
          /\ Goto(h, "await")
       \/ Goto(h, "failed") /\ UNCHANGED <<calls, inflight>>
    /\ UNCHANGED <<store, due, script, accepted, ran, faults, center, claimed>>

\* record_submission: the center takes the submission and, with it, every
\* receipt of the store it lacks.
\* Mutant: the receipts alone.
ReceiptsOnly(s, c) == {d \in Cards : s[d].status = "approved"}
Recorded(s, c) == {c} \cup {d \in Cards : s[d].status = "approved"}
Answer(h) ==
    /\ at[h] = "await"
    /\ \/ /\ held[h] \in accepted
          /\ \/ \E s \in Loads : center' = center \cup Recorded(s, held[h])
             \/ "record" \in faults /\ UNCHANGED center
          /\ Goto(h, "finish")
       \/ Goto(h, "failed") /\ UNCHANGED center
    /\ UNCHANGED <<store, due, remote, claimed, calls>>

\* finish_submission: uncertain after any error, approved with the job's id.
Finish(h, point, status) ==
    /\ at[h] = point
    /\ \E s \in Loads :
          IF s[held[h]].status = "submitting"
          THEN cards' = Saved([s EXCEPT ![held[h]].status = status])
          ELSE UNCHANGED cards
    /\ Leave(h)
    /\ UNCHANGED <<made, due, remote, center, claimed, calls>>
FinishAccepted(h) == Finish(h, "finish", "approved")
FinishUncertain(h) == Finish(h, "failed", "uncertain")
-----------------------------------------------------------------------------
(* _regenerate_submit: get, compare the script, regenerate *)

AskReissue(h, c) ==
    /\ at[h] = "idle"
    /\ cards' = Swept(cards) /\ cards'[c].status = "expired"
    /\ Holds(h, c, IF cards[c].sha = NoSha THEN "reissue" ELSE "recheck")
    /\ UNCHANGED <<made, due, remote, center, claimed, calls>>

Recheck(h) ==
    /\ at[h] = "recheck"
    /\ (script = read[h] /\ Goto(h, "reissue")) \/ Leave(h)
    /\ UNCHANGED <<store, due, remote, center, claimed, calls>>

Reissue(h) ==
    /\ at[h] = "reissue"
    /\ LET c == held[h] IN
       \E s \in Loads :
          IF Swept(s)[c].status = "expired"
          THEN Add(s, Entry(Swept(s)[c].sha, c))
          ELSE Sweeping(s) /\ UNCHANGED made
    /\ Leave(h)
    /\ UNCHANGED <<due, remote, center, claimed, calls>>
-----------------------------------------------------------------------------
(* The scheduler, the cluster's users, the clock and the UI process *)

Accept(c) == /\ c \in inflight
             /\ inflight' = inflight \ {c}
             /\ accepted' = accepted \cup {c}
             /\ ran' = [ran EXCEPT ![c] = script]
             /\ UNCHANGED <<store, due, local, script, faults, center, claimed, calls>>
Refuse(c) == /\ c \in inflight
             /\ inflight' = inflight \ {c}
             /\ UNCHANGED <<store, due, local, script, accepted, ran, faults, center, claimed,
                            calls>>
Edit == /\ script' \in Versions \ {script}
        /\ UNCHANGED <<store, due, local, inflight, accepted, ran, faults, center, claimed,
                        calls>>
Lapse(c) == /\ c <= made /\ c \notin due
            /\ due' = due \cup {c}
            /\ UNCHANGED <<store, local, remote, center, claimed, calls>>
Crash(h) == /\ at[h] # "idle"
            /\ Leave(h)
            /\ UNCHANGED <<store, due, remote, center, claimed, calls>>

\* A refresh of the center takes over the receipts it lacks.
Refresh == /\ center' = center \cup {c \in Cards : cards[c].status = "approved"}
           /\ UNCHANGED <<store, due, local, remote, claimed, calls>>
-----------------------------------------------------------------------------
Handler(h) == \/ \E c \in Cards : Confirm(h, c) \/ AskReissue(h, c)
              \/ Reject(h) \/ Check(h) \/ Claim(h) \/ Submit(h) \/ Answer(h)
              \/ FinishAccepted(h) \/ FinishUncertain(h)
              \/ Recheck(h) \/ Reissue(h) \/ Crash(h)
Next == \/ Create \/ List \/ Refresh \/ Edit
        \/ \E h \in Handlers : Handler(h)
        \/ \E c \in Cards : Accept(c) \/ Refuse(c) \/ Lapse(c)
Spec == Init /\ [][Next]_vars
-----------------------------------------------------------------------------
(* Safety *)

\* A card pays for one call of client.submit, however often, and by however many
\* threads, it is confirmed, and whatever crashes or cannot be read.
OneCallPerCard == \A c \in Cards : calls[c] <= 1

\* The card store is a one-shot effect gated by claims: see OneShot.
Gate == INSTANCE OneShot WITH Grants <- Cards, Actors <- Cards, NoActor <- NoCard,
                              fired <- calls,
                              owner <- [c \in Cards |-> IF c \in claimed THEN c ELSE NoCard]
ClaimedOnce == Gate!Spec

\* A card that shows no attempt had none: what was rejected or has expired
\* never went to the scheduler, and never will.
NoHiddenAttempt ==
    \A c \in Cards : cards[c].status \in {"pending", "rejected", "expired"} => calls[c] = 0

\* While the store can be read, an attempt that is not known to have ended
\* stays in it: nothing drops, expires, rejects or reopens it.
AttemptKept(c) ==
    /\ cards[c].status = "submitting" =>
          \/ cards'[c].status \in {"submitting", "uncertain"}
          \/ \E h \in Handlers : held[h] = c /\ FinishAccepted(h)
    /\ cards[c].status = "uncertain" => cards'[c].status = "uncertain"
OpenAttemptsKept == [][\A c \in Cards : "read" \notin faults => AttemptKept(c)]_vars

\* Without faults, whatever was sent to the scheduler can be found: as an
\* attempt or receipt in the store, or in the center.
SubmissionTraceable ==
    faults = {} =>
        \A c \in Cards : calls[c] > 0 => c \in center \/ cards[c].status \in Attempted
=============================================================================
