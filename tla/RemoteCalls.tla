----------------------------- MODULE RemoteCalls -----------------------------
(***************************************************************************)
(* A call of the gateway client (rsci/gateway/client.py, transport.py),    *)
(* the operation of the gateway that carries it out (rsci_gateway.py) and  *)
(* the session it needs.  An operation is a sequence of remote commands;   *)
(* each asks first for the multiplexed session to the server, which a key  *)
(* may rebuild, and without it the operation ends as "disconnected".  The  *)
(* client then restores the session with the saved credentials and sends   *)
(* the whole operation once more.  It does the same when its own           *)
(* connection to the gateway's host has broken with one of the messages it *)
(* takes for a missing session; the gateway, if it lives, goes on.         *)
(*                                                                         *)
(* One server with one file, its trash and its scheduler.  A remote        *)
(* command is one step, except where it is shown to stop half way.         *)
(***************************************************************************)
EXTENDS Naturals

CONSTANTS
    Calls,      \* calls under way at the same time
    Ops(_),     \* Ops(k): the operations call k may ask for
    Contents,   \* what a file may contain
    Absent,     \* there is no file
    Part,       \* a file that is half written
    TrashIds,   \* bound: entries of the trash
    Saved       \* whether a password is saved on the workstation

ASSUME ContentAssumption == Absent \notin Contents \cup {Part} /\ Part \notin Contents
ASSUME SavedAssumption == Saved \in BOOLEAN

AllOps == {"submit", "remove", "restore", "purge", "upload", "write"}
ASSUME OpsAssumption == \A k \in Calls : Ops(k) \subseteq AllOps

VARIABLES
    call,     \* call[k]: a call, its operation and what it has found so far
    session,  \* whether the session to the server is up
    mode,     \* auth_mode of the server: "interactive" or "key"
    recon,    \* reconnect-state.json: "ready", "wait" or "host_key"
    path,     \* what is at the path the calls are about
    trash     \* trash[i]: an entry of the trash

conn == <<session, mode, recon>>
disk == <<path, trash>>
vars == <<call, conn, disk>>
-----------------------------------------------------------------------------
(* Types *)

Whatever == Contents \cup {Absent, Part}
Remote == {"resolve", "run", "look", "hash", "same", "push", "check", "mode", "move", "rm", "stat"}
Codes == {"none", "ok", "disconnected", "broken", "unknown", "failed", "refused"}
CallTypes == [op : AllOps \cup {"none"}, at : {"idle", "pushing", "answer"} \cup Remote,
              code : Codes, try : 1 .. 2, new : Whatever, expected : Whatever,
              seen : BOOLEAN, cur : Whatever, id : TrashIds \cup {Absent}, stage : BOOLEAN,
              lost : BOOLEAN, broke : BOOLEAN, did : 0 .. 2]

TypeOK == /\ call \in [Calls -> CallTypes]
          /\ session \in BOOLEAN
          /\ mode \in {"interactive", "key"}
          /\ recon \in {"ready", "wait", "host_key"}
          /\ path \in Whatever
          /\ trash \in [TrashIds -> [payload : Whatever, used : BOOLEAN,
                                     meta : {"none", "active", "restored"}]]
-----------------------------------------------------------------------------
(* Helpers *)

NoCall == [op |-> "none", at |-> "idle", code |-> "none", try |-> 1, new |-> Absent,
           expected |-> Absent, seen |-> FALSE, cur |-> Absent, id |-> Absent, stage |-> FALSE,
           lost |-> FALSE, broke |-> FALSE, did |-> 0]

Init == /\ call = [k \in Calls |-> NoCall]
        /\ session = TRUE /\ mode \in {"interactive", "key"} /\ recon = "ready"
        /\ path \in Contents \cup {Absent}
        /\ trash = [i \in TrashIds |-> [payload |-> Absent, used |-> FALSE, meta |-> "none"]]

\* The gateway answers; nothing of what it has found is used again.
Answered(k, code) == [call[k] EXCEPT !.at = "answer", !.seen = FALSE, !.cur = Absent,
                                     !.code = IF call[k].lost THEN "unknown" ELSE code]
Answer(k, code) == call' = [call EXCEPT ![k] = Answered(k, code)]
Goto(k, point) == call' = [call EXCEPT ![k].at = point]

\* Answer with the effect done, which is counted, for history, of the operations whose
\* last command is the one with the effect.
Counted == {"submit", "remove", "restore", "purge"}
Done(k, code) == call' = [call EXCEPT ![k] = [Answered(k, code) EXCEPT !.did = IF @ < 2 THEN @ + 1 ELSE @]]

\* The next remote command of call k is the one at this point.
At(k, op, point) == call[k].op = op /\ call[k].at = point /\ session
-----------------------------------------------------------------------------
(* The client *)

\* upload and write_file bring the content to a stage on the gateway's host.
Start(k) ==
    /\ call[k].at = "idle"
    /\ \E op \in Ops(k), new \in Contents \cup {Absent}, expected \in Contents \cup {Absent},
          id \in TrashIds \cup {Absent} :
          /\ op \in {"upload", "write"} <=> new # Absent
          /\ expected # Absent => op = "write"
          /\ op \in {"restore", "purge"} <=> id # Absent
          /\ call' = [call EXCEPT ![k] =
                [NoCall EXCEPT !.op = op, !.new = new, !.expected = expected, !.id = id,
                               !.stage = (new # Absent),
                               !.at = "resolve"]]
    /\ UNCHANGED <<conn, disk>>

\* Mutant: a command that timed out counts as well.
AnyLoss(k) == call[k].code \in {"disconnected", "broken", "unknown"}
AuthRequired(k) == call[k].code \in {"disconnected", "broken"}

FirstTry(k) == call[k].try = 1

\* The session is there again, by credential-connect unless somebody else was
\* faster, and the same arguments are sent again.
Retry(k) == /\ call[k].at = "answer"
            /\ AuthRequired(k) /\ FirstTry(k) /\ Saved
            /\ session' = TRUE
            /\ recon' = "ready"
            /\ call' = [call EXCEPT ![k].at = "resolve", ![k].code = "none", ![k].try = @ + 1,
                                    ![k].lost = FALSE]
            /\ UNCHANGED <<mode, disk>>

\* The caller is told, at once or when restoring the session fails.  Credentials that
\* fail are noted for the next attempt.
Tell(k) == /\ call[k].at = "answer"
           /\ \/ /\ AuthRequired(k) /\ FirstTry(k) /\ Saved => call[k].code = "broken"
                 /\ UNCHANGED recon
              \/ /\ AuthRequired(k) /\ FirstTry(k) /\ Saved /\ ~session
                 /\ recon' \in {"wait", "host_key"}
           /\ call' = [call EXCEPT ![k] = NoCall]
           /\ UNCHANGED <<session, mode, disk>>

\* The client gives up, or its connection breaks with a message of no other meaning: it
\* removes its stage, and the gateway, if it lives, goes on for nobody.
Abandon(k) == /\ call[k].at \in Remote \cup {"pushing"}
              /\ \/ call' = [call EXCEPT ![k].lost = TRUE, ![k].stage = FALSE]
                 \/ Answer(k, "unknown")
              /\ UNCHANGED <<conn, disk>>

\* The connection breaks with a message that _classify takes for a missing session.
\* The gateway has answered, dies with it, or goes on for nobody (bounds: where another
\* call of its kind could be made, and one such break at a time).
Broken(k) == [call[k] EXCEPT !.at = "answer", !.code = "broken", !.broke = TRUE,
                             !.seen = FALSE, !.cur = Absent]
Break(k) == /\ ~call[k].lost /\ \A j \in Calls : ~call[j].broke
            /\ \/ call[k].at = "answer" /\ call[k].code # "unknown"
                  /\ call' = [call EXCEPT ![k] = Broken(k)]
               \/ /\ call[k].at \in Remote \cup {"pushing"}
                  /\ \/ call' = [call EXCEPT ![k] = Broken(k)]
                     \/ \E j \in Calls : /\ call[j].at = "idle" /\ call[k].op \in Ops(j)
                                         /\ call' = [call EXCEPT ![k] = Broken(k),
                                                         ![j] = [call[k] EXCEPT !.lost = TRUE]]
            /\ UNCHANGED <<conn, disk>>
-----------------------------------------------------------------------------
(* The session *)

\* require_connection without a session: a key may rebuild it, but not while
\* the last failure is recent or was one of the host key.
KeyConnects == mode = "key" /\ recon = "ready"

EnsureSession(k) ==
    /\ call[k].at \in Remote /\ ~session
    /\ \/ KeyConnects /\ session' = TRUE /\ UNCHANGED <<call, recon>>
       \/ KeyConnects /\ recon' \in {"wait", "host_key"} /\ Answer(k, "disconnected") /\ UNCHANGED session
       \/ ~KeyConnects /\ Answer(k, "disconnected") /\ UNCHANGED <<session, recon>>
    /\ UNCHANGED <<mode, disk>>

\* The network, ControlPersist, or a disconnect of a person.
Drop == /\ session
        /\ session' = FALSE
        /\ UNCHANGED <<call, mode, recon, disk>>

\* A person connects; with a key, --manual asks neither clock nor host key.
Connect == /\ ~session
           /\ \/ session' = TRUE /\ recon' = "ready"
              \/ mode = "key" /\ recon' \in {"wait", "host_key"} /\ UNCHANGED session
           /\ UNCHANGED <<call, mode, disk>>

BackoffEnds == /\ recon = "wait"
               /\ recon' = "ready"
               /\ UNCHANGED <<call, session, mode, disk>>

\* key-install proves the key over the live session.
KeyInstall == /\ session /\ mode = "interactive"
              /\ mode' = "key" /\ recon' = "ready"
              /\ UNCHANGED <<call, session, disk>>

\* key-disable and key-revoke.
KeyDisable == /\ mode = "key"
              /\ mode' = "interactive"
              /\ UNCHANGED <<call, session, recon, disk>>
-----------------------------------------------------------------------------
(* The gateway: paths, scripts and metadata are resolved first *)

Resolve(k) ==
    /\ call[k].at = "resolve" /\ session
    /\ \/ Answer(k, "failed")
       \/ CASE call[k].op \in {"upload", "write"} ->
                  IF call[k].stage THEN Goto(k, IF call[k].op = "write" THEN "look" ELSE "hash")
                                   ELSE Answer(k, "failed")
            [] call[k].op = "restore" ->
                  IF trash[call[k].id].meta = "active" THEN Goto(k, "run") ELSE Answer(k, "refused")
            [] call[k].op = "purge" ->
                  IF trash[call[k].id].used THEN Goto(k, "run") ELSE Answer(k, "refused")
            [] OTHER -> Goto(k, "run")
    /\ UNCHANGED <<conn, disk>>

\* sbatch or qsub: without an answer nobody knows.
Submit(k) == /\ At(k, "submit", "run")
             /\ \/ Done(k, "ok") \/ Done(k, "failed") \/ Answer(k, "failed")
             /\ UNCHANGED <<conn, disk>>

\* mkdir && mv && printf: what is moved and not described is not listed.
Remove(k) ==
    /\ At(k, "remove", "run")
    /\ \/ Answer(k, "failed") /\ UNCHANGED disk
       \/ /\ path # Absent
          /\ \E i \in TrashIds, meta \in {"none", "active"} :
                /\ ~trash[i].used
                /\ trash' = [trash EXCEPT ![i] = [payload |-> path, used |-> TRUE, meta |-> meta]]
                /\ Done(k, IF meta = "active" THEN "ok" ELSE "failed")
          /\ path' = Absent
    /\ UNCHANGED conn

\* Mutant: a file that is there again is not noticed.
NeverThere == FALSE
Occupied == path # Absent

Restore(k) ==
    LET i == call[k].id
    IN /\ At(k, "restore", "run")
       /\ CASE Occupied -> Answer(k, "refused") /\ UNCHANGED disk
            [] ~Occupied /\ trash[i].payload = Absent -> Answer(k, "refused") /\ UNCHANGED disk
            [] OTHER -> \/ Answer(k, "failed") /\ UNCHANGED disk
                        \/ /\ path' = trash[i].payload
                           /\ \E meta \in {"active", "restored"} :
                                 /\ trash' = [trash EXCEPT ![i].payload = Absent, ![i].meta = meta]
                                 /\ Done(k, IF meta = "restored" THEN "ok" ELSE "failed")
       /\ UNCHANGED conn

Purge(k) == /\ At(k, "purge", "run")
            /\ \/ Answer(k, "failed") /\ UNCHANGED trash
               \/ /\ trash' = [trash EXCEPT ![call[k].id] = [@ EXCEPT !.payload = Absent, !.meta = "none"]]
                  /\ Done(k, "ok") \/ Done(k, "failed")
            /\ UNCHANGED <<conn, path>>
-----------------------------------------------------------------------------
(* upload: nothing that is there is replaced, and cat > is not atomic *)

UploadCheck(k) ==
    /\ At(k, "upload", "hash")
    /\ \/ Answer(k, "failed")
       \/ CASE path = call[k].new ->
                  call' = [call EXCEPT ![k] = [Answered(k, "ok") EXCEPT !.stage = FALSE]]
            [] path \notin {call[k].new, Absent} -> Answer(k, "refused")
            [] OTHER -> Goto(k, "pushing")
    /\ UNCHANGED <<conn, disk>>

\* stage_push asks for no session of its own.
UploadBegin(k) ==
    /\ call[k].op = "upload" /\ call[k].at = "pushing"
    /\ IF session /\ call[k].stage
       THEN /\ call' = [call EXCEPT ![k].at = "push"]
            /\ path' = Part
       ELSE Answer(k, "failed") /\ UNCHANGED path
    /\ UNCHANGED <<conn, trash>>

UploadEnd(k) ==
    /\ call[k].op = "upload" /\ call[k].at = "push"
    /\ \/ session /\ path' = call[k].new /\ Answer(k, "ok")
       \/ Answer(k, "failed") /\ UNCHANGED path
    /\ UNCHANGED <<conn, trash>>
-----------------------------------------------------------------------------
(* write: look, compare, push to a temporary file, verify, move *)

WriteLook(k) == /\ At(k, "write", "look")
                /\ \/ Answer(k, "failed")
                   \/ call' = [call EXCEPT ![k].seen = (path # Absent),
                                           ![k].at = IF path # Absent THEN "hash" ELSE "check"]
                /\ UNCHANGED <<conn, disk>>

WriteHash(k) == /\ At(k, "write", "hash")
                /\ \/ Answer(k, "failed")
                   \/ call' = [call EXCEPT ![k].cur = path, ![k].at = "check"]
                /\ UNCHANGED <<conn, disk>>

\* Unchanged content is left as it is; anything but what was expected is
\* refused.  The comparison needs no session.
WriteCompare(k) ==
    /\ call[k].op = "write" /\ call[k].at = "check"
    /\ CASE call[k].seen /\ call[k].cur = call[k].new /\ call[k].cur = call[k].expected ->
               call' = [call EXCEPT ![k].at = "same", ![k].stage = FALSE]
         [] call[k].cur # call[k].expected ->
               call' = [call EXCEPT ![k] = [Answered(k, "refused") EXCEPT !.stage = FALSE]]
         [] OTHER -> Goto(k, "pushing")
    /\ UNCHANGED <<conn, disk>>

\* The content goes to a temporary file of its own and is verified there;
\* whatever goes wrong, the temporary file is removed before the answer.
WritePush(k) == /\ call[k].op = "write" /\ call[k].at = "pushing"
                /\ \/ call[k].stage /\ session /\ Goto(k, IF call[k].seen THEN "mode" ELSE "move")
                   \/ call' = [call EXCEPT ![k].at = "rm", ![k].code = "failed"]
                /\ UNCHANGED <<conn, disk>>

\* chmod --reference needs the file it saw.
WriteMode(k) == /\ At(k, "write", "mode")
                /\ \/ path # Absent /\ Goto(k, "move")
                   \/ call' = [call EXCEPT ![k].at = "rm", ![k].code = "failed"]
                /\ UNCHANGED <<conn, disk>>

WriteMove(k) ==
    /\ At(k, "write", "move")
    /\ \/ /\ path' = call[k].new
          /\ \E code \in {"ok", "failed"} :
                call' = [call EXCEPT ![k].at = "rm", ![k].code = code]
       \/ /\ call' = [call EXCEPT ![k].at = "rm", ![k].code = "failed"]
          /\ UNCHANGED path
    /\ UNCHANGED <<conn, trash>>

WriteClean(k) == /\ At(k, "write", "rm")
                 /\ \/ Answer(k, "failed")
                    \/ call[k].code = "failed" /\ Answer(k, "failed")
                    \/ call[k].code = "ok" /\ call' = [call EXCEPT ![k].at = "stat", ![k].stage = FALSE]
                 /\ UNCHANGED <<conn, disk>>

WriteStat(k) == /\ At(k, "write", "stat") \/ At(k, "write", "same")
                /\ Answer(k, "ok") \/ Answer(k, "failed")
                /\ UNCHANGED <<conn, disk>>
-----------------------------------------------------------------------------
Write(k) == \/ WriteLook(k) \/ WriteHash(k) \/ WriteCompare(k) \/ WritePush(k)
            \/ WriteMode(k) \/ WriteMove(k) \/ WriteClean(k) \/ WriteStat(k)
Upload(k) == UploadCheck(k) \/ UploadBegin(k) \/ UploadEnd(k)
Gateway(k) == \/ EnsureSession(k) \/ Resolve(k) \/ Submit(k) \/ Remove(k) \/ Restore(k) \/ Purge(k)
              \/ Upload(k) \/ Write(k)

Next == \/ \E k \in Calls : Start(k) \/ Gateway(k) \/ Retry(k) \/ Tell(k) \/ Abandon(k) \/ Break(k)
        \/ Drop \/ Connect \/ BackoffEnds \/ KeyInstall \/ KeyDisable

Spec == Init /\ [][Next]_vars
-----------------------------------------------------------------------------
(* Properties *)

\* One call of submit, remove, restore or purge has taken effect when the answer says so.
\* Unless the connection broke with a message that is taken for a missing session, it
\* takes effect at most once, although the client may send it twice, and it has not
\* when the answer is to log in first or that it was refused: then it is safe to ask
\* again.
ExactlyOnce ==
    \A k \in Calls : call[k].op \in Counted =>
        /\ call[k].at = "answer" /\ call[k].code = "ok" => call[k].did >= 1
        /\ ~call[k].broke =>
              /\ call[k].did <= 1
              /\ call[k].at = "answer" /\ call[k].code \in {"disconnected", "refused"} =>
                     call[k].did = 0

\* A submission runs sbatch or qsub once at most, whatever breaks: what breaks is not
\* "outer Vlab auth expired" (transport.py), nor is a session lost "while the outer Vlab
\* connection remains healthy" (_call).  Not so.
SubmitsOnce == \A k \in Calls : call[k].op = "submit" => call[k].did <= 1

\* What is at the path disappears from the server only under an upload or a
\* write: remove keeps it in the trash and restore replaces nothing.
NothingDestroyed ==
    [][path # path' /\ path # Absent =>
          \/ \E k \in Calls : call[k].op \in {"upload", "write"} /\ call[k] # call'[k]
          \/ \E i \in TrashIds : trash'[i].payload = path /\ ~trash[i].used]_vars
=============================================================================
