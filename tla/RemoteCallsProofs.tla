-------------------------- MODULE RemoteCallsProofs --------------------------
(***************************************************************************)
(* For any calls, contents and trash, and whatever happens to the session: *)
(* a call takes effect once although it may be sent twice, and the answer  *)
(* is the truth about it, unless its connection broke with a message that  *)
(* is taken for a missing session; and no file is destroyed but by an      *)
(* upload or a write.                                                      *)
(*                                                                         *)
(* The argument: a call that is on its way has had no effect yet, and an   *)
(* answer that says that the session is missing comes before any effect,   *)
(* so that of the answers that are sent again only those of a connection   *)
(* that broke may hide one (CallFits).                                     *)
(*                                                                         *)
(* And for any threads, processes and versions of the helper: a call that  *)
(* made sure of its helper finds one that will do.  What a process knows   *)
(* to be ready stays so while only whole helpers are moved over each other *)
(* (HelperReady).                                                          *)
(***************************************************************************)
EXTENDS MCRemoteCalls, TLAPS

Underway == Remote \cup {"pushing"}

\* What holds of a call that is as c says.
CallFits(c) ==
    /\ c.at # "idle" /\ c.op \in {"restore", "purge"} => c.id \in TrashIds
    /\ c.op \in Counted =>
         /\ c.at = "answer" /\ c.code = "broken" => c.broke
         /\ c.at = "answer" /\ c.code = "ok" => c.did >= 1
         /\ ~c.broke => /\ c.did <= 1
                        /\ c.at \in Underway => c.did = 0
                        /\ c.at = "answer" /\ c.code \in {"disconnected", "refused"} => c.did = 0

CallsFit == \A k \in Calls : CallFits(call[k])
Server == <<session, mode, recon, path, trash>>
ServerTypes == /\ session \in BOOLEAN
               /\ mode \in {"interactive", "key"}
               /\ recon \in {"ready", "wait", "host_key"}
               /\ path \in Whatever
               /\ trash \in [TrashIds -> [payload : Whatever, used : BOOLEAN,
                                          meta : {"none", "active", "restored"}]]
IInv == TypeOK /\ CallsFit
-----------------------------------------------------------------------------
(* The parts of a step *)

LEMMA TypeParts == TypeOK <=> call \in [Calls -> CallTypes] /\ ServerTypes
BY DEF TypeOK, ServerTypes

\* A step of one call.
LEMMA CallStep ==
    ASSUME IInv, NEW k \in Calls, NEW new \in CallTypes, CallFits(new),
           call' = [call EXCEPT ![k] = new], ServerTypes'
    PROVE  IInv'
<1>1. TypeOK'
  BY DEF IInv, TypeOK, ServerTypes
<1>2. CallsFit'
  BY DEF IInv, TypeOK, CallsFit
<1> QED BY <1>1, <1>2 DEF IInv

\* A step that no call takes.
LEMMA ServerStep ==
    ASSUME IInv, UNCHANGED call, ServerTypes'
    PROVE  IInv'
BY DEF IInv, TypeOK, CallsFit, ServerTypes

LEMMA CallKnown ==
    ASSUME IInv, NEW k \in Calls
    PROVE  call[k] \in CallTypes /\ CallFits(call[k]) /\ ServerTypes
BY DEF IInv, TypeOK, ServerTypes, CallsFit

LEMMA StillServer == ServerTypes /\ UNCHANGED Server => ServerTypes'
BY DEF ServerTypes, Server

LEMMA NoCallFits == NoCall \in CallTypes /\ CallFits(NoCall)
<1>1. 1 \in 1 .. 2 /\ 0 \in 0 .. 2 /\ 0 <= 1
  OBVIOUS
<1> QED BY <1>1 DEF NoCall, CallTypes, CallFits, Codes, Whatever, Underway, Remote, Counted, AllOps

\* An answer without an effect.
LEMMA Answers ==
    ASSUME IInv, NEW k \in Calls, call[k].at \in Underway, NEW code \in Codes \ {"broken"},
           call[k].op \in Counted => code # "ok", Answer(k, code), ServerTypes'
    PROVE  IInv'
<1>1. call[k] \in CallTypes /\ CallFits(call[k])
  BY CallKnown
<1> DEFINE given == IF call[k].lost THEN "unknown" ELSE code
<1>2. given \in Codes \ {"broken"} /\ (call[k].op \in Counted => given # "ok")
  BY DEF Codes
<1> HIDE DEF given
<1>3. Answered(k, code) = [call[k] EXCEPT !.at = "answer", !.seen = FALSE, !.cur = Absent, !.code = given]
  BY DEF Answered, given
<1>4. Answered(k, code) \in CallTypes
  BY <1>1, <1>2, <1>3 DEF CallTypes, Whatever
<1>5. CallFits(Answered(k, code))
  BY <1>1, <1>2, <1>3 DEF CallTypes, CallFits, Underway, Remote
<1> QED BY <1>4, <1>5, CallStep DEF Answer

\* An answer with the effect.
LEMMA Dones ==
    ASSUME IInv, NEW k \in Calls, call[k].at \in Underway, call[k].op \in Counted,
           NEW code \in {"ok", "failed"}, Done(k, code), ServerTypes'
    PROVE  IInv'
<1>1. call[k] \in CallTypes /\ CallFits(call[k]) /\ (~call[k].broke => call[k].did = 0)
  BY CallKnown DEF CallFits
<1> DEFINE given == IF call[k].lost THEN "unknown" ELSE code
           base == [call[k] EXCEPT !.at = "answer", !.seen = FALSE, !.cur = Absent, !.code = given]
           count == IF base.did < 2 THEN base.did + 1 ELSE base.did
           new == [base EXCEPT !.did = count]
<1>2. given \in {"ok", "failed", "unknown"} /\ given \in Codes
  BY DEF Codes
<1> HIDE DEF given
<1>3. /\ base \in CallTypes /\ base.did = call[k].did /\ base.at = "answer" /\ base.code = given
      /\ base.op = call[k].op /\ base.id = call[k].id /\ base.broke = call[k].broke
  BY <1>1, <1>2 DEF CallTypes, Whatever
<1>4. Answered(k, code) = base
  BY DEF Answered, given
<1> HIDE DEF base
<1>5. count \in 0 .. 2 /\ count >= 1 /\ (~base.broke => count = 1)
  BY <1>1, <1>3 DEF CallTypes
<1>6. new = [Answered(k, code) EXCEPT !.did = IF @ < 2 THEN @ + 1 ELSE @]
  BY <1>3, <1>4 DEF CallTypes
<1> HIDE DEF count
<1>7. new \in CallTypes
  BY <1>3, <1>5 DEF CallTypes
<1>8. CallFits(new)
  BY <1>1, <1>2, <1>3, <1>5 DEF CallTypes, CallFits, Underway, Remote
<1> QED BY <1>6, <1>7, <1>8, CallStep DEF Done

\* The next command.
LEMMA Goes ==
    ASSUME IInv, NEW k \in Calls, call[k].at \in Underway, NEW point \in Underway, Goto(k, point),
           ServerTypes'
    PROVE  IInv'
<1>1. call[k] \in CallTypes /\ CallFits(call[k])
  BY CallKnown
<1> DEFINE new == [call[k] EXCEPT !.at = point]
<1>2. new \in CallTypes
  BY <1>1 DEF CallTypes, Underway
<1>3. CallFits(new)
  BY <1>1 DEF CallTypes, CallFits, Underway, Remote
<1> QED BY <1>2, <1>3, CallStep DEF Goto
-----------------------------------------------------------------------------
(* The client *)

LEMMA StartStep == \A k \in Calls : IInv /\ Start(k) => IInv'
<1> SUFFICES ASSUME NEW k \in Calls, IInv, Start(k) PROVE IInv'
  OBVIOUS
<1>1. PICK op \in Ops(k), new \in Contents \cup {Absent}, expected \in Contents \cup {Absent},
           id \in TrashIds \cup {Absent} :
        /\ op \in {"upload", "write"} <=> new # Absent
        /\ expected # Absent => op = "write"
        /\ op \in {"restore", "purge"} <=> id # Absent
        /\ call' = [call EXCEPT ![k] =
              [NoCall EXCEPT !.op = op, !.new = new, !.expected = expected, !.id = id,
                             !.stage = (new # Absent),
                             !.at = "resolve"]]
  BY Zenon DEF Start
<1> DEFINE c == [NoCall EXCEPT !.op = op, !.new = new, !.expected = expected, !.id = id,
                               !.stage = (new # Absent), !.at = "resolve"]
<1>2. op \in AllOps /\ new \in Whatever /\ expected \in Whatever /\ (new # Absent) \in BOOLEAN
  BY OpsAssumption DEF Whatever
<1>3. c \in CallTypes
  BY <1>2, NoCallFits DEF CallTypes, Remote
<1>4. CallFits(c)
  BY <1>1 DEF NoCall, CallFits
<1>5. ServerTypes'
  BY StillServer, CallKnown DEF Start, Server, conn, disk
<1> QED BY <1>1, <1>3, <1>4, <1>5, CallStep

LEMMA RetryStep == \A k \in Calls : IInv /\ Retry(k) => IInv'
<1> SUFFICES ASSUME NEW k \in Calls, IInv, Retry(k) PROVE IInv'
  OBVIOUS
<1>1. /\ call[k].at = "answer" /\ call[k].code \in {"disconnected", "broken"} /\ call[k].try = 1
      /\ call' = [call EXCEPT ![k].at = "resolve", ![k].code = "none", ![k].try = @ + 1, ![k].lost = FALSE]
  BY DEF Retry, AuthRequired, FirstTry
<1>2. call[k] \in CallTypes /\ CallFits(call[k]) /\ ServerTypes
  BY CallKnown
<1> DEFINE new == [call[k] EXCEPT !.at = "resolve", !.code = "none", !.try = call[k].try + 1,
                                  !.lost = FALSE]
<1>3. call' = [call EXCEPT ![k] = new]
  BY <1>1, <1>2 DEF IInv, TypeOK
<1>4. new \in CallTypes
  <2>1. call[k].try + 1 \in 1 .. 2
    BY <1>1
  <2> QED BY <1>2, <2>1 DEF CallTypes, Codes, Remote
<1>5. CallFits(new)
  <2>1. /\ new.at = "resolve" /\ new.did = call[k].did /\ new.op = call[k].op /\ new.id = call[k].id
        /\ new.broke = call[k].broke
    BY <1>2 DEF CallTypes
  <2>2. call[k].op \in Counted /\ ~call[k].broke => call[k].did = 0
    BY <1>1, <1>2 DEF CallFits
  <2>3. 0 <= 1
    OBVIOUS
  <2> QED BY <1>1, <1>2, <2>1, <2>2, <2>3 DEF CallFits
<1>6. ServerTypes'
  BY <1>2 DEF Retry, ServerTypes, disk
<1> QED BY <1>3, <1>4, <1>5, <1>6, CallStep

LEMMA TellStep == \A k \in Calls : IInv /\ Tell(k) => IInv'
<1> SUFFICES ASSUME NEW k \in Calls, IInv, Tell(k) PROVE IInv'
  OBVIOUS
<1>1. ServerTypes'
  BY CallKnown DEF Tell, ServerTypes, disk
<1> QED BY <1>1, NoCallFits, CallStep DEF Tell

LEMMA BreakStep == \A k \in Calls : IInv /\ Break(k) => IInv'
<1> SUFFICES ASSUME NEW k \in Calls, IInv, Break(k) PROVE IInv'
  OBVIOUS
<1>1. call[k] \in CallTypes /\ CallFits(call[k]) /\ call \in [Calls -> CallTypes]
  BY CallKnown DEF IInv, TypeOK
<1>2. ServerTypes'
  BY StillServer, CallKnown DEF Break, Server, conn, disk
<1>3. Broken(k) \in CallTypes /\ CallFits(Broken(k))
  <2>1. /\ Broken(k) \in CallTypes /\ Broken(k).at = "answer" /\ Broken(k).code = "broken"
        /\ Broken(k).broke /\ Broken(k).op = call[k].op /\ Broken(k).id = call[k].id
    BY <1>1 DEF Broken, CallTypes, Codes, Whatever
  <2>2. call[k].at # "idle"
    BY DEF Break, Remote
  <2> QED BY <1>1, <2>1, <2>2 DEF CallFits
<1>4. CASE call' = [call EXCEPT ![k] = Broken(k)]
  BY <1>2, <1>3, <1>4, CallStep
<1>5. ASSUME NEW j \in Calls, call[j].at = "idle", call[k].at \in Underway,
             call' = [call EXCEPT ![k] = Broken(k), ![j] = [call[k] EXCEPT !.lost = TRUE]]
      PROVE  IInv'
  <2> DEFINE new == [call[k] EXCEPT !.lost = TRUE]
  <2>1. new \in CallTypes
    BY <1>1 DEF CallTypes
  <2>2. CallFits(new)
    BY <1>1 DEF CallTypes, CallFits
  <2> HIDE DEF new
  <2>3. call' \in [Calls -> CallTypes] /\ \A i \in Calls : call'[i] \in {Broken(k), new, call[i]}
    BY <1>1, <1>3, <1>5, <2>1 DEF new
  <2>4. \A i \in Calls : CallFits(call'[i])
    BY <1>3, <2>2, <2>3, CallKnown
  <2>5. CallsFit'
    BY <2>4 DEF CallsFit
  <2> QED BY <1>2, <2>3, <2>5, TypeParts DEF IInv, TypeOK, ServerTypes
<1>6. \/ call' = [call EXCEPT ![k] = Broken(k)]
      \/ \E j \in Calls : /\ call[j].at = "idle" /\ call[k].at \in Underway
                         /\ call' = [call EXCEPT ![k] = Broken(k), ![j] = [call[k] EXCEPT !.lost = TRUE]]
  BY DEF Break, Underway
<1> QED BY <1>4, <1>5, <1>6

LEMMA AbandonStep == \A k \in Calls : IInv /\ Abandon(k) => IInv'
<1> SUFFICES ASSUME NEW k \in Calls, IInv, Abandon(k) PROVE IInv'
  OBVIOUS
<1>1. call[k] \in CallTypes /\ CallFits(call[k]) /\ call[k].at \in Underway
  BY CallKnown DEF Abandon, Underway
<1>2. ServerTypes'
  BY StillServer, CallKnown DEF Abandon, Server, conn, disk
<1>3. CASE Answer(k, "unknown")
  BY <1>1, <1>2, <1>3, Answers DEF Codes
<1>4. CASE call' = [call EXCEPT ![k].lost = TRUE, ![k].stage = FALSE]
  <2> DEFINE new == [call[k] EXCEPT !.lost = TRUE, !.stage = FALSE]
  <2>1. new \in CallTypes
    BY <1>1 DEF CallTypes
  <2>2. CallFits(new)
    BY <1>1 DEF CallTypes, CallFits
  <2> QED BY <1>2, <1>4, <2>1, <2>2, CallStep
<1> QED BY <1>3, <1>4 DEF Abandon
-----------------------------------------------------------------------------
(* The session and the gateway *)

LEMMA EnsureSessionStep == \A k \in Calls : IInv /\ EnsureSession(k) => IInv'
<1> SUFFICES ASSUME NEW k \in Calls, IInv, EnsureSession(k) PROVE IInv'
  OBVIOUS
<1>1. call[k].at \in Underway
  BY DEF EnsureSession, Underway
<1>2. ServerTypes'
  BY CallKnown DEF EnsureSession, ServerTypes, disk
<1>3. CASE UNCHANGED call
  BY <1>2, <1>3, ServerStep
<1>4. CASE Answer(k, "disconnected")
  BY <1>1, <1>2, <1>4, Answers DEF Codes
<1> QED BY <1>3, <1>4 DEF EnsureSession

LEMMA OutsideStep == IInv /\ (Drop \/ Connect \/ BackoffEnds \/ KeyInstall \/ KeyDisable) => IInv'
<1> SUFFICES ASSUME IInv, Drop \/ Connect \/ BackoffEnds \/ KeyInstall \/ KeyDisable PROVE IInv'
  OBVIOUS
<1>1. UNCHANGED call
  BY DEF Drop, Connect, BackoffEnds, KeyInstall, KeyDisable
<1>2. ServerTypes
  BY TypeParts DEF IInv
<1>3. ServerTypes'
  BY <1>2 DEF ServerTypes, Drop, Connect, BackoffEnds, KeyInstall, KeyDisable, disk
<1> QED BY <1>1, <1>3, ServerStep

LEMMA ResolveStep == \A k \in Calls : IInv /\ Resolve(k) => IInv'
<1> SUFFICES ASSUME NEW k \in Calls, IInv, Resolve(k) PROVE IInv'
  OBVIOUS
<1>1. call[k].at \in Underway
  BY DEF Resolve, Underway, Remote
<1>2. ServerTypes'
  BY StillServer, CallKnown DEF Resolve, Server, conn, disk
<1>3. ASSUME NEW code \in {"failed", "refused"}, Answer(k, code) PROVE IInv'
  BY <1>1, <1>2, <1>3, Answers DEF Codes
<1>4. ASSUME NEW point \in {"look", "hash", "run"}, Goto(k, point) PROVE IInv'
  BY <1>1, <1>2, <1>4, Goes DEF Underway, Remote
<1>5. /\ "write" # "restore" /\ "write" # "purge" /\ "upload" # "restore" /\ "upload" # "purge"
      /\ "restore" # "purge"
  OBVIOUS
<1>6. \/ \E code \in {"failed", "refused"} : Answer(k, code)
      \/ \E point \in {"look", "hash", "run"} : Goto(k, point)
  BY DEF Resolve
<1> QED BY <1>3, <1>4, <1>6

LEMMA SubmitStep == \A k \in Calls : IInv /\ Submit(k) => IInv'
<1> SUFFICES ASSUME NEW k \in Calls, IInv, Submit(k) PROVE IInv'
  OBVIOUS
<1>1. call[k].at \in Underway /\ call[k].op \in Counted
  BY DEF Submit, At, Underway, Remote, Counted
<1>2. ServerTypes'
  BY StillServer, CallKnown DEF Submit, Server, conn, disk
<1> QED BY <1>1, <1>2, Answers, Dones DEF Submit, Codes

LEMMA RemoveStep == \A k \in Calls : IInv /\ Remove(k) => IInv'
<1> SUFFICES ASSUME NEW k \in Calls, IInv, Remove(k) PROVE IInv'
  OBVIOUS
<1>1. call[k].at \in Underway /\ call[k].op \in Counted
  BY DEF Remove, At, Underway, Remote, Counted
<1>2. CASE Answer(k, "failed") /\ UNCHANGED disk
  <2>1. ServerTypes'
    BY <1>2, StillServer, CallKnown DEF Remove, Server, conn, disk
  <2> QED BY <1>1, <1>2, <2>1, Answers DEF Codes
<1>3. CASE /\ \E i \in TrashIds, meta \in {"none", "active"} :
                 /\ trash' = [trash EXCEPT ![i] = [payload |-> path, used |-> TRUE, meta |-> meta]]
                 /\ Done(k, IF meta = "active" THEN "ok" ELSE "failed")
           /\ path' = Absent
  <2>1. PICK i \in TrashIds, meta \in {"none", "active"} :
          /\ trash' = [trash EXCEPT ![i] = [payload |-> path, used |-> TRUE, meta |-> meta]]
          /\ Done(k, IF meta = "active" THEN "ok" ELSE "failed")
    BY <1>3
  <2>2. ServerTypes'
    BY <1>3, <2>1, CallKnown DEF Remove, ServerTypes, conn, Whatever
  <2> QED BY <1>1, <2>1, <2>2, Dones
<1> QED BY <1>2, <1>3 DEF Remove

LEMMA RestoreStep == \A k \in Calls : IInv /\ Restore(k) => IInv'
<1> SUFFICES ASSUME NEW k \in Calls, IInv, Restore(k) PROVE IInv'
  OBVIOUS
<1>0. PICK i : i = call[k].id
  OBVIOUS
<1>1. call[k].at \in Underway /\ call[k].at # "idle" /\ call[k].op = "restore" /\ UNCHANGED conn
      /\ call[k].op \in Counted
  BY DEF Restore, At, Underway, Remote, Counted
<1>2. i \in TrashIds
  BY <1>0, <1>1, CallKnown DEF CallFits
<1>3. \/ (\E code \in {"refused", "failed"} : Answer(k, code)) /\ UNCHANGED disk
      \/ /\ path' = trash[i].payload
         /\ \E meta \in {"active", "restored"} :
              /\ trash' = [trash EXCEPT ![i].payload = Absent, ![i].meta = meta]
              /\ Done(k, IF meta = "restored" THEN "ok" ELSE "failed")
  BY <1>0 DEF Restore
<1>4. CASE (\E code \in {"refused", "failed"} : Answer(k, code)) /\ UNCHANGED disk
  <2>1. ServerTypes'
    BY <1>1, <1>4, StillServer, CallKnown DEF Server, conn, disk
  <2> QED BY <1>1, <1>4, <2>1, Answers DEF Codes
<1>5. CASE /\ path' = trash[i].payload
           /\ \E meta \in {"active", "restored"} :
                /\ trash' = [trash EXCEPT ![i].payload = Absent, ![i].meta = meta]
                /\ Done(k, IF meta = "restored" THEN "ok" ELSE "failed")
  <2>1. PICK meta \in {"active", "restored"} :
          /\ trash' = [trash EXCEPT ![i].payload = Absent, ![i].meta = meta]
          /\ Done(k, IF meta = "restored" THEN "ok" ELSE "failed")
    BY <1>5
  <2>2. ServerTypes'
    BY <1>1, <1>2, <1>5, <2>1, CallKnown DEF ServerTypes, conn, Whatever
  <2> QED BY <1>1, <2>1, <2>2, Dones
<1> QED BY <1>3, <1>4, <1>5

LEMMA PurgeStep == \A k \in Calls : IInv /\ Purge(k) => IInv'
<1> SUFFICES ASSUME NEW k \in Calls, IInv, Purge(k) PROVE IInv'
  OBVIOUS
<1>1. call[k].at \in Underway /\ call[k].op \in Counted /\ UNCHANGED <<conn, path>>
  BY DEF Purge, At, Underway, Remote, Counted
<1>2. CASE Answer(k, "failed") /\ UNCHANGED trash
  <2>1. ServerTypes'
    BY <1>1, <1>2, StillServer, CallKnown DEF Server, conn
  <2> QED BY <1>1, <1>2, <2>1, Answers DEF Codes
<1>3. CASE /\ trash' = [trash EXCEPT ![call[k].id] = [@ EXCEPT !.payload = Absent, !.meta = "none"]]
           /\ Done(k, "ok") \/ Done(k, "failed")
  <2>1. ServerTypes'
    BY <1>1, <1>3, CallKnown DEF ServerTypes, conn, Whatever
  <2> QED BY <1>1, <1>3, <2>1, Dones
<1> QED BY <1>2, <1>3 DEF Purge
-----------------------------------------------------------------------------
(* upload and write, which are not counted *)

LEMMA AnsweredKnown ==
    ASSUME NEW k \in Calls, call[k] \in CallTypes, NEW code \in Codes
    PROVE  /\ Answered(k, code) \in CallTypes /\ Answered(k, code).at = "answer"
           /\ Answered(k, code).op = call[k].op
<1> DEFINE given == IF call[k].lost THEN "unknown" ELSE code
<1>1. given \in Codes
  BY DEF Codes
<1> HIDE DEF given
<1>2. Answered(k, code) = [call[k] EXCEPT !.at = "answer", !.seen = FALSE, !.cur = Absent, !.code = given]
  BY DEF Answered, given
<1> QED BY <1>1, <1>2 DEF CallTypes, Whatever

\* A step of an upload or a write that changes other fields of its call.
LEMMA Others ==
    ASSUME IInv, NEW k \in Calls, call[k].at \in Underway, call[k].op \notin Counted,
           NEW new \in CallTypes, new.op = call[k].op,
           call' = [call EXCEPT ![k] = new], ServerTypes'
    PROVE  IInv'
<1>1. CallFits(new)
  BY DEF CallFits, Counted
<1> QED BY <1>1, CallStep

LEMMA UploadStep == \A k \in Calls : IInv /\ Upload(k) => IInv'
<1> SUFFICES ASSUME NEW k \in Calls, IInv, Upload(k) PROVE IInv'
  OBVIOUS
<1>1. /\ call[k].op = "upload" /\ call[k].op \notin Counted /\ call[k].at \in Underway
      /\ call[k] \in CallTypes /\ ServerTypes
  BY CallKnown DEF Upload, UploadCheck, UploadBegin, UploadEnd, At, Counted, Underway, Remote
<1>2. ServerTypes'
  BY <1>1 DEF Upload, UploadCheck, UploadBegin, UploadEnd, ServerTypes, conn, disk, CallTypes, Whatever
<1>3. ASSUME NEW code \in {"ok", "failed", "refused"}, Answer(k, code) PROVE IInv'
  BY <1>1, <1>2, <1>3, Answers DEF Codes
<1>4. ASSUME Goto(k, "pushing") PROVE IInv'
  BY <1>1, <1>2, <1>4, Goes DEF Underway
<1>5. ASSUME call' = [call EXCEPT ![k].at = "push"] PROVE IInv'
  BY <1>1, <1>2, <1>5, Goes DEF Goto, Underway, Remote
<1>6. ASSUME call' = [call EXCEPT ![k] = [Answered(k, "ok") EXCEPT !.stage = FALSE]] PROVE IInv'
  <2> DEFINE new == [Answered(k, "ok") EXCEPT !.stage = FALSE]
  <2>1. new \in CallTypes /\ new.op = call[k].op
    <3>1. "ok" \in Codes
      BY DEF Codes
    <3> QED BY <1>1, <3>1, AnsweredKnown DEF CallTypes
  <2> HIDE DEF new
  <2> QED BY <1>1, <1>2, <1>6, <2>1, Others DEF new
<1> QED BY <1>3, <1>4, <1>5, <1>6 DEF Upload, UploadCheck, UploadBegin, UploadEnd

LEMMA WriteStep == \A k \in Calls : IInv /\ Write(k) => IInv'
<1> SUFFICES ASSUME NEW k \in Calls, IInv, Write(k) PROVE IInv'
  OBVIOUS
<1>1. /\ call[k].op = "write" /\ call[k].op \notin Counted /\ call[k].at \in Underway
      /\ call[k] \in CallTypes /\ ServerTypes
  BY CallKnown DEF Write, WriteLook, WriteHash, WriteCompare, WritePush, WriteMode, WriteMove,
     WriteClean, WriteStat, At, Counted, Underway, Remote
<1>2. ServerTypes'
  BY <1>1 DEF Write, WriteLook, WriteHash, WriteCompare, WritePush, WriteMode, WriteMove,
     WriteClean, WriteStat, ServerTypes, conn, disk, CallTypes
<1>3. ASSUME NEW code \in {"ok", "failed"}, Answer(k, code) PROVE IInv'
  BY <1>1, <1>2, <1>3, Answers DEF Codes
<1>4. ASSUME NEW point \in {"pushing", "mode", "move"}, Goto(k, point) PROVE IInv'
  BY <1>1, <1>2, <1>4, Goes DEF Underway, Remote
<1>5. ASSUME NEW point \in {"hash", "check"}, NEW seen \in BOOLEAN,
             call' = [call EXCEPT ![k].seen = seen, ![k].at = point] PROVE IInv'
  <2> DEFINE new == [call[k] EXCEPT !.seen = seen, !.at = point]
  <2>1. new \in CallTypes /\ new.op = call[k].op
    BY <1>1 DEF CallTypes, Remote
  <2> QED BY <1>1, <1>2, <1>5, <2>1, Others
<1>6. ASSUME call' = [call EXCEPT ![k].cur = path, ![k].at = "check"] PROVE IInv'
  <2> DEFINE new == [call[k] EXCEPT !.cur = path, !.at = "check"]
  <2>1. new \in CallTypes /\ new.op = call[k].op
    BY <1>1 DEF ServerTypes, CallTypes, Remote
  <2> QED BY <1>1, <1>2, <1>6, <2>1, Others
<1>7. ASSUME NEW point \in {"same", "stat"}, call' = [call EXCEPT ![k].at = point, ![k].stage = FALSE] PROVE IInv'
  <2> DEFINE new == [call[k] EXCEPT !.at = point, !.stage = FALSE]
  <2>1. new \in CallTypes /\ new.op = call[k].op
    BY <1>1 DEF CallTypes, Remote
  <2> QED BY <1>1, <1>2, <1>7, <2>1, Others
<1>8. ASSUME call' = [call EXCEPT ![k] = [Answered(k, "refused") EXCEPT !.stage = FALSE]] PROVE IInv'
  <2> DEFINE new == [Answered(k, "refused") EXCEPT !.stage = FALSE]
  <2>1. new \in CallTypes /\ new.op = call[k].op
    <3>1. "refused" \in Codes
      BY DEF Codes
    <3> QED BY <1>1, <3>1, AnsweredKnown DEF CallTypes
  <2> HIDE DEF new
  <2> QED BY <1>1, <1>2, <1>8, <2>1, Others DEF new
<1>9. ASSUME NEW code \in {"ok", "failed"}, call' = [call EXCEPT ![k].at = "rm", ![k].code = code] PROVE IInv'
  <2> DEFINE new == [call[k] EXCEPT !.at = "rm", !.code = code]
  <2>1. new \in CallTypes /\ new.op = call[k].op
    BY <1>1 DEF CallTypes, Remote, Codes
  <2> QED BY <1>1, <1>2, <1>9, <2>1, Others
<1>10. CASE WriteLook(k) \/ WriteHash(k)
  BY <1>3, <1>5, <1>6, <1>10 DEF WriteLook, WriteHash
<1>11. CASE WriteCompare(k)
  BY <1>4, <1>7, <1>8, <1>11 DEF WriteCompare
<1>12. CASE WritePush(k) \/ WriteMode(k) \/ WriteMove(k)
  BY <1>4, <1>9, <1>12 DEF WritePush, WriteMode, WriteMove
<1>13. CASE WriteClean(k) \/ WriteStat(k)
  BY <1>3, <1>7, <1>13 DEF WriteClean, WriteStat
<1> QED BY <1>10, <1>11, <1>12, <1>13 DEF Write
-----------------------------------------------------------------------------
(* The theorems *)

LEMMA InitIInv == Init => IInv
<1> SUFFICES ASSUME Init PROVE IInv
  OBVIOUS
<1>1. TypeOK
  BY NoCallFits DEF Init, TypeOK, Whatever
<1>2. CallsFit
  BY NoCallFits DEF Init, CallsFit
<1> QED BY <1>1, <1>2 DEF IInv

LEMMA NextKeeps == IInv /\ [Next]_vars => IInv'
<1> SUFFICES ASSUME IInv, [Next]_vars PROVE IInv'
  OBVIOUS
<1>1. CASE UNCHANGED vars
  <2>1. ServerTypes'
    BY <1>1, StillServer, TypeParts DEF IInv, vars, conn, disk, Server
  <2> QED BY <1>1, <2>1, ServerStep DEF vars
<1>2. CASE \E k \in Calls : Start(k) \/ Retry(k) \/ Tell(k) \/ Abandon(k) \/ Break(k)
  BY <1>2, StartStep, RetryStep, TellStep, AbandonStep, BreakStep
<1>3. CASE \E k \in Calls : Gateway(k)
  BY <1>3, EnsureSessionStep, ResolveStep, SubmitStep, RemoveStep, RestoreStep, PurgeStep,
     UploadStep, WriteStep DEF Gateway
<1>4. CASE Drop \/ Connect \/ BackoffEnds \/ KeyInstall \/ KeyDisable
  BY <1>4, OutsideStep
<1> QED BY <1>1, <1>2, <1>3, <1>4 DEF Next

\* The invariant of the calls (client.py, rsci_gateway.py).
THEOREM Invariant == Spec => []IInv
BY InitIInv, NextKeeps, PTL DEF Spec

\* Every variable keeps its type.
THEOREM TypeCorrect == Spec => []TypeOK
<1>1. IInv => TypeOK
  BY DEF IInv
<1> QED BY <1>1, Invariant, PTL

\* A call that is sent a second time has taken effect once, and the answer is the truth
\* about it, unless the connection broke under it with a message that _classify takes
\* for a missing session (client.py, _call; transport.py, _classify).
THEOREM TakesEffectOnce == Spec => []ExactlyOnce
<1>1. IInv => ExactlyOnce
  BY DEF IInv, CallsFit, CallFits, ExactlyOnce
<1> QED BY <1>1, Invariant, PTL

\* The steps that change what is at the path.
LEMMA PathChanges ==
    ASSUME IInv, [Next]_vars, path # path', path # Absent
    PROVE  \E k \in Calls : Remove(k) \/ UploadBegin(k) \/ UploadEnd(k) \/ WriteMove(k)
<1>1. PICK k \in Calls : Start(k) \/ Retry(k) \/ Tell(k) \/ Abandon(k) \/ Break(k) \/ Gateway(k)
  BY DEF Next, vars, disk, Drop, Connect, BackoffEnds, KeyInstall, KeyDisable
<1>2. Gateway(k)
  BY <1>1 DEF Start, Retry, Tell, Abandon, Break, disk
<1>3. ~Restore(k)
  BY DEF Restore, Occupied, disk
<1>4. ~Write(k) \/ WriteMove(k)
  BY DEF Write, WriteLook, WriteHash, WriteCompare, WritePush, WriteMode, WriteClean, WriteStat, disk
<1> QED BY <1>2, <1>3, <1>4 DEF Gateway, EnsureSession, Resolve, Submit, Purge, Upload, UploadCheck, disk

\* What is at the path goes only under an upload or a write, or to the trash
\* (remove and restore of rsci_gateway.py).
THEOREM DestroysNothing == Spec => NothingDestroyed
<1>1. IInv /\ [Next]_vars =>
        [path # path' /\ path # Absent =>
          \/ \E k \in Calls : call[k].op \in {"upload", "write"} /\ call[k] # call'[k]
          \/ \E i \in TrashIds : trash'[i].payload = path /\ ~trash[i].used]_vars
  <2> SUFFICES ASSUME IInv, [Next]_vars, path # path', path # Absent
               PROVE  \/ \E k \in Calls : call[k].op \in {"upload", "write"} /\ call[k] # call'[k]
                      \/ \E i \in TrashIds : trash'[i].payload = path /\ ~trash[i].used
    OBVIOUS
  <2>1. PICK k \in Calls : Remove(k) \/ UploadBegin(k) \/ UploadEnd(k) \/ WriteMove(k)
    BY PathChanges
  <2>2. call[k] \in CallTypes /\ call \in [Calls -> CallTypes] /\ ServerTypes
    BY CallKnown DEF IInv, TypeOK
  <2>3. CASE Remove(k)
    BY <2>2, <2>3 DEF Remove, disk, ServerTypes
  <2>4. CASE UploadBegin(k) \/ UploadEnd(k)
    <3>1. call[k].op = "upload" /\ call'[k].at # call[k].at
      BY <2>2, <2>4, AnsweredKnown DEF UploadBegin, UploadEnd, Answer, CallTypes, Codes
    <3> QED BY <3>1
  <2>5. CASE WriteMove(k)
    <3>1. call[k].op = "write" /\ call'[k].at # call[k].at
      BY <2>2, <2>5 DEF WriteMove, At, CallTypes
    <3> QED BY <3>1
  <2> QED BY <2>1, <2>3, <2>4, <2>5
<1> QED BY <1>1, Invariant, PTL DEF Spec, NothingDestroyed
-----------------------------------------------------------------------------
(* The helper that runs the calls.  Once a process knows the helper to be  *)
(* ready there is one that will do, and whatever is moved into its place   *)
(* will do as well, unless somebody removes it.                            *)

Versions == {0, Old} \cup {Bundled(p) : p \in Helper!Processes}
Points == {"idle", "wait", "test", "version", "copy", "install", "half", "clean", "run"}
Endings == {"none", "ok", "old", "part", "missing", "error"}
HelperTypes == /\ helper \in Versions \cup {Part}
               /\ ready \in [Helper!Processes -> BOOLEAN]
               /\ at \in [Threads -> Points]
               /\ told \in [Threads -> Endings]
HelperReady == /\ \A p \in Helper!Processes : ready[p] => Helper!WillDo(helper)
               /\ \A t \in Threads : /\ at[t] = "run" => Helper!WillDo(helper)
                                     /\ told[t] \in {"none", "ok", "error"}
HelperInv == HelperTypes /\ (route # "direct" /\ ~gone => HelperReady)

\* The constants of the helper, for the provers.
LEMMA HelperNumbers ==
    /\ Minimum \in Nat /\ Minimum >= 2 /\ Old \in Nat /\ Old < Minimum /\ Part \notin Nat
    /\ \A p \in Helper!Processes : Bundled(p) \in Nat /\ Bundled(p) >= Minimum
    /\ \A t \in Threads : Process(t) \in Helper!Processes
<1>1. Helper!HelperAssumption
  BY HelperConstants
<1>2. /\ Minimum \in Nat /\ Old \in 1 .. (Minimum - 1) /\ Part \notin Nat
      /\ \A p \in Helper!Processes : Bundled(p) \in Nat /\ Bundled(p) >= Minimum
  BY <1>1 DEF Helper!HelperAssumption
<1> QED BY <1>2 DEF Helper!Processes

\* Every helper that a process brings will do.
LEMMA BundledWillDo ==
    \A t \in Threads : Bundled(Process(t)) \in Versions /\ Helper!WillDo(Bundled(Process(t)))
BY HelperNumbers DEF Versions, Helper!WillDo, Helper!Whole

\* A helper that will do lets the call succeed.
LEMMA WillDoFound ==
    \A h \in Versions \cup {Part} : Helper!WillDo(h) => Helper!Found(h) = "ok"
<1> SUFFICES ASSUME NEW h \in Versions \cup {Part}, Helper!WillDo(h) PROVE Helper!Found(h) = "ok"
  OBVIOUS
<1>1. h \in Nat /\ h # 0 /\ h # Part /\ ~(h < Minimum)
  BY HelperNumbers DEF Versions, Helper!WillDo, Helper!Whole
<1> QED BY <1>1 DEF Helper!Found

\* A step of one thread, which may put another helper into the place.
LEMMA HelperTurn ==
    ASSUME HelperInv, NEW t \in Threads, NEW point \in Points, NEW ending \in Endings,
           UNCHANGED <<route, gone>>, helper' \in Versions \cup {Part},
           at' = [at EXCEPT ![t] = point], told' = [told EXCEPT ![t] = ending],
           ready' = ready \/ ready' = [ready EXCEPT ![Process(t)] = TRUE],
           route # "direct" /\ ~gone =>
               /\ (helper' = helper) \/ Helper!WillDo(helper')
               /\ (ready' = ready) \/ Helper!WillDo(helper')
               /\ (point = "run") => Helper!WillDo(helper')
               /\ ending \in {"none", "ok", "error"}
    PROVE  HelperInv'
<1>1. HelperTypes'
  <2>1. Process(t) \in Helper!Processes
    BY HelperNumbers
  <2>2. Helper!Processes' = Helper!Processes /\ Versions' = Versions
    BY DEF Helper!Processes, Versions
  <2> QED BY <2>1, <2>2 DEF HelperInv, HelperTypes
<1>2. SUFFICES ASSUME route # "direct", ~gone PROVE HelperReady'
  BY <1>1 DEF HelperInv
<1>3. HelperReady /\ HelperTypes
  BY <1>2 DEF HelperInv
<1>4. Helper!WillDo(helper) => Helper!WillDo(helper')
  BY <1>2
<1>5. ASSUME NEW p \in Helper!Processes, ready'[p] PROVE Helper!WillDo(helper')
  <2>1. CASE ready' = ready
    BY <1>3, <1>4, <1>5, <2>1 DEF HelperReady
  <2>2. CASE ready' # ready
    BY <1>2, <2>2
  <2> QED BY <2>1, <2>2
<1>6. ASSUME NEW u \in Threads, at'[u] = "run" PROVE Helper!WillDo(helper')
  <2>1. CASE u = t
    BY <1>2, <1>3, <1>6, <2>1 DEF HelperTypes
  <2>2. CASE u # t
    <3>1. at[u] = "run"
      BY <1>3, <1>6, <2>2 DEF HelperTypes
    <3> QED BY <1>3, <1>4, <3>1 DEF HelperReady
  <2> QED BY <2>1, <2>2
<1>7. ASSUME NEW u \in Threads PROVE told'[u] \in {"none", "ok", "error"}
  BY <1>2, <1>3 DEF HelperTypes, HelperReady
<1>8. Helper!Processes' = Helper!Processes
  BY DEF Helper!Processes
<1> QED BY <1>5, <1>6, <1>7, <1>8 DEF HelperReady, Helper!WillDo, Helper!Whole

\* What a thread knows of the helper before its step.
LEMMA HelperKnown ==
    ASSUME HelperInv, NEW t \in Threads
    PROVE  /\ at[t] \in Points /\ told[t] \in Endings /\ helper \in Versions \cup {Part}
           /\ told = [told EXCEPT ![t] = told[t]]
           /\ at = [at EXCEPT ![t] = at[t]]
           /\ route # "direct" /\ ~gone =>
                 /\ ready[Process(t)] => Helper!WillDo(helper)
                 /\ (at[t] = "run") => Helper!WillDo(helper)
                 /\ told[t] \in {"none", "ok", "error"}
BY HelperNumbers DEF HelperInv, HelperTypes, HelperReady

LEMMA HelperInitial == ASSUME Helper!Init PROVE HelperInv
<1>1. HelperTypes
  BY DEF Helper!Init, HelperTypes, Points, Endings, Versions
<1>2. HelperReady
  BY DEF Helper!Init, HelperReady
<1> QED BY <1>1, <1>2 DEF HelperInv

\* A step that leaves the helper, and what is known of it, alone.
LEMMA HelperStays ==
    ASSUME HelperInv, UNCHANGED <<route, helper, ready, at, told, gone>>
    PROVE  HelperInv'
BY DEF HelperInv, HelperTypes, HelperReady, Versions, Helper!Processes, Helper!WillDo, Helper!Whole

\* A thread goes on.
LEMMA HelperSteps ==
    ASSUME HelperInv, NEW t \in Threads, Helper!Step(t)
    PROVE  HelperInv'
<1> USE DEF Points, Endings, Helper!Goto
<1>k. /\ told[t] \in Endings /\ helper \in Versions \cup {Part}
      /\ told = [told EXCEPT ![t] = told[t]]
      /\ route # "direct" /\ ~gone =>
            /\ ready[Process(t)] => Helper!WillDo(helper)
            /\ (at[t] = "run") => Helper!WillDo(helper)
            /\ told[t] \in {"none", "ok", "error"}
  BY HelperKnown
<1>b. Bundled(Process(t)) \in Versions /\ Helper!WillDo(Bundled(Process(t)))
  BY BundledWillDo
<1>1. CASE Helper!Begin(t)
  BY <1>1, <1>k, HelperTurn DEF Helper!Begin
<1>2. CASE Helper!Enter(t)
  <2>1. /\ UNCHANGED <<route, gone, helper, ready, told>>
        /\ \/ ready[Process(t)] /\ at' = [at EXCEPT ![t] = "run"]
           \/ at' = [at EXCEPT ![t] = "copy"]
           \/ at' = [at EXCEPT ![t] = "test"]
    BY <1>2 DEF Helper!Enter
  <2> QED BY <2>1, <1>k, HelperTurn
<1>3. CASE Helper!Test(t)
  <2>1. /\ UNCHANGED <<route, gone, helper, ready, told>>
        /\ at' = [at EXCEPT ![t] = "copy"] \/ at' = [at EXCEPT ![t] = "version"]
    BY <1>3 DEF Helper!Test
  <2> QED BY <2>1, <1>k, HelperTurn
<1>4. CASE Helper!Version(t)
  <2>1. UNCHANGED <<route, gone, helper>>
    BY <1>4 DEF Helper!Version
  <2>2. CASE Helper!WillDo(helper) /\ Helper!Ready(t) /\ UNCHANGED told
    BY <2>1, <2>2, <1>k, HelperTurn DEF Helper!Ready
  <2>3. CASE at' = [at EXCEPT ![t] = "copy"] /\ UNCHANGED <<ready, told>>
    BY <2>1, <2>3, <1>k, HelperTurn
  <2>4. CASE Helper!Raise(t) /\ UNCHANGED ready
    BY <2>1, <2>4, <1>k, HelperTurn DEF Helper!Raise
  <2> QED BY <1>4, <2>2, <2>3, <2>4 DEF Helper!Version
<1>5. CASE Helper!Copy(t)
  BY <1>5, <1>k, HelperTurn DEF Helper!Copy
<1>6. CASE Helper!Install(t)
  BY <1>6, <1>k, <1>b, HelperTurn DEF Helper!Install, Helper!Moved, Helper!Ready
<1>7. CASE Helper!Overwrite(t)
  BY <1>7, <1>k, HelperTurn DEF Helper!Overwrite
<1>8. CASE Helper!Overwritten(t)
  BY <1>8, <1>k, <1>b, HelperTurn DEF Helper!Overwritten, Helper!Ready
<1>9. CASE Helper!Clean(t)
  BY <1>9, <1>k, HelperTurn DEF Helper!Clean, Helper!Raise
<1>10. CASE Helper!Run(t)
  <2>1. /\ UNCHANGED <<route, gone, helper, ready>>
        /\ at[t] = "run" /\ told' = [told EXCEPT ![t] = Helper!Found(helper)]
        /\ at' = [at EXCEPT ![t] = "idle"]
    BY <1>10 DEF Helper!Run
  <2>2. Helper!Found(helper) \in Endings
    BY DEF Helper!Found
  <2>3. route # "direct" /\ ~gone => Helper!Found(helper) = "ok"
    BY <2>1, <1>k, WillDoFound
  <2> QED BY <2>1, <2>2, <2>3, <1>k, HelperTurn
<1> QED BY <1>1, <1>2, <1>3, <1>4, <1>5, <1>6, <1>7, <1>8, <1>9, <1>10 DEF Helper!Step

\* A command fails, or what nobody waits for comes to its end.
LEMMA HelperBreaks ==
    ASSUME HelperInv, NEW t \in Threads, Helper!Break(t) \/ Helper!Late(t)
    PROVE  HelperInv'
<1> USE DEF Points, Endings, Helper!Goto
<1>k. /\ at[t] \in Points /\ told[t] \in Endings /\ helper \in Versions \cup {Part}
      /\ told = [told EXCEPT ![t] = told[t]]
      /\ at = [at EXCEPT ![t] = at[t]]
      /\ route # "direct" /\ ~gone =>
            /\ (at[t] = "run") => Helper!WillDo(helper)
            /\ told[t] \in {"none", "ok", "error"}
  BY HelperKnown
<1>b. Bundled(Process(t)) \in Versions /\ Helper!WillDo(Bundled(Process(t)))
  BY BundledWillDo
<1>1. CASE Helper!GiveUp(t)
  BY <1>1, <1>k, HelperTurn DEF Helper!GiveUp, Helper!Raise
<1>2. CASE Helper!FailBefore(t)
  BY <1>2, <1>k, HelperTurn DEF Helper!FailBefore, Helper!Raise
<1>3. CASE Helper!FailCopy(t)
  BY <1>3, <1>k, HelperTurn DEF Helper!FailCopy, Helper!Raise
<1>4. CASE Helper!FailInstall(t)
  <2>1. /\ UNCHANGED <<route, gone, ready, told>>
        /\ at' = [at EXCEPT ![t] = "clean"]
        /\ (helper' = helper) \/ (helper' = Bundled(Process(t)))
    BY <1>4 DEF Helper!FailInstall, Helper!Moved
  <2> QED BY <2>1, <1>k, <1>b, HelperTurn
<1>5. CASE Helper!FailOverwrite(t)
  BY <1>5, <1>k, HelperTurn DEF Helper!FailOverwrite, Helper!Raise
<1>6. CASE Helper!Late(t)
  <2>1. /\ UNCHANGED <<route, gone, ready, told, at>>
        /\ (helper' = helper) \/ (helper' = Bundled(Process(t)))
    BY <1>6 DEF Helper!Late, Helper!Moved
  <2> QED BY <2>1, <1>k, <1>b, HelperTurn
<1> QED BY <1>1, <1>2, <1>3, <1>4, <1>5, <1>6 DEF Helper!Break

\* Somebody removes the helper: nothing more is promised.
LEMMA HelperRemoved == ASSUME HelperInv, Helper!Remove PROVE HelperInv'
<1>1. helper' = 0 /\ gone' = TRUE /\ UNCHANGED <<ready, at, told>>
  BY DEF Helper!Remove
<1>2. 0 \in Versions' \cup {Part}
  BY DEF Versions
<1> QED BY <1>1, <1>2 DEF HelperInv, HelperTypes, Helper!Processes

LEMMA HelperInductive == ASSUME HelperInv, [MCNext]_<<part, vars, helperVars>> PROVE HelperInv'
<1>1. CASE UNCHANGED helperVars
  BY <1>1, HelperStays DEF helperVars
<1>2. CASE Helper!Next
  BY <1>2, HelperSteps, HelperBreaks, HelperRemoved DEF Helper!Next
<1> QED BY <1>1, <1>2 DEF MCNext

\* For any threads, processes and helpers: a call that made sure of a helper
\* finds one that will do (transport._ensure_gateway, _ensure_workspace_gateway),
\* whatever is installed, given up or late meanwhile.
THEOREM RunsPrepared == MCSpec => []PreparedRuns
<1>1. MCInit => HelperInv
  BY HelperInitial DEF MCInit
<1>2. HelperInv /\ [MCNext]_<<part, vars, helperVars>> => HelperInv'
  BY HelperInductive
<1>3. HelperInv => PreparedRuns
  BY DEF HelperInv, HelperReady, PreparedRuns, Helper!PreparedRuns
<1> QED BY <1>1, <1>2, <1>3, PTL DEF MCSpec
=============================================================================
