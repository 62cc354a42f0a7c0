--------------------------- MODULE ServerCatalog ---------------------------
(***************************************************************************)
(* The servers a user has registered.  Those reached through Vlab are kept *)
(* by the gateway there; servers.json on this computer mirrors them, and   *)
(* is the only record of servers that are reached directly.  Their logins  *)
(* are in settings.json under the server's name.  An edit in the console   *)
(* is a sequence of calls and of file writes, any of which can be the last *)
(* one: a call fails, its answer is lost, the program ends.  Meanwhile     *)
(* another thread pulls the catalog of the gateway into the mirror.        *)
(* Edits come one at a time, each file write is atomic, and a name is      *)
(* never used for two hosts, so that an entry is what can be edited of it. *)
(***************************************************************************)
EXTENDS Naturals, Sequences

CONSTANTS Names, Hosts, Roots,
          Host,         \* the host a name is used for
          VlabHosts,    \* the hosts this computer cannot reach directly
          MaxRequests   \* bound: edits, additions and removals asked for

CatalogAssumption ==
    /\ Host \in [Names -> Hosts]
    /\ VlabHosts \subseteq Hosts
    /\ MaxRequests \in Nat

VARIABLES catalog,   \* the gateway's servers
          mirror,    \* servers.json
          logins,    \* the saved logins in settings.json
          edit,      \* the edit that is going on: its steps still to do
          pull,      \* the refresh of the mirror that is going on
          kept,      \* history: hosts behind Vlab whose login was saved
          requests
vars == <<catalog, mirror, logins, edit, pull, kept, requests>>

None == [none |-> TRUE]
Entries == [root : Roots, route : {"vlab", "direct"}]
Registered == [root : Roots]
Logins == [due : BOOLEAN]
Steps == {"register", "amend", "unregister", "upsert", "login", "drop", "forget"} \X Names
NoJob == [todo |-> <<>>, entry |-> None, login |-> None]
NoPull == [at |-> "idle"]

Init ==
    /\ catalog = [n \in Names |-> None]
    /\ mirror = [n \in Names |-> None]
    /\ logins = [n \in Names |-> None]
    /\ edit = NoJob
    /\ pull = NoPull
    /\ kept = {}
    /\ requests = 0

Known(n) == mirror[n] # None
OnVlab(e) == e # None /\ e.route = "vlab"

Routes(n) == IF Host[n] \in VlabHosts THEN {"vlab"} ELSE {"vlab", "direct"}

(* The host can be logged in to under this name on Vlab. *)
LoginUnder(n) == catalog[n] # None /\ logins[n] # None
(* What is still kept when the user gives the name up. *)
KeptWithout(n) ==
    {h \in kept : \E m \in Names \ {n} : Host[m] = h /\ LoginUnder(m)}

---------------------------------------------------------------------------
(* What an edit consists of: the order of the calls and writes *)

(* A login is left alone, cleared, or saved. *)
Clear == [clear |-> TRUE]
LoginStep(n, login) ==
    IF login = None THEN <<>> ELSE <<<<IF login = Clear THEN "forget" ELSE "login", n>>>>

(* server_add: a direct server is local, its login is saved before it; one *)
(* on Vlab is registered there first.                                      *)
AddSteps(n, route, login) ==
    IF route = "direct"
    THEN LoginStep(n, login) \o <<<<"upsert", n>>>>
    ELSE <<<<"register", n>>, <<"upsert", n>>>> \o LoginStep(n, login)

(* server_edit: nothing remote for a direct server, a registration when a *)
(* direct server is to be reached through Vlab.                           *)
EditSteps(n, old, route) ==
    IF route = "direct" THEN <<<<"upsert", n>>>>
    ELSE IF old = "direct" THEN <<<<"register", n>>, <<"upsert", n>>>>
    ELSE <<<<"amend", n>>, <<"upsert", n>>>>

RemoveSteps(n, route) ==
    (IF route = "direct" THEN <<>> ELSE <<<<"unregister", n>>>>)
        \o <<<<"drop", n>>, <<"forget", n>>>>

\* Mutant: the old name is removed before the login is saved under the new one.
MoveFirst(old, new, route, login) ==
    AddSteps(new, route, None) \o RemoveSteps(old, route) \o LoginStep(new, login)

(* A rename registers the new name, saves the login under it and removes *)
(* the old name.                                                         *)
RenameSteps(old, new, route, login) ==
    AddSteps(new, route, None) \o LoginStep(new, login) \o RemoveSteps(old, route)

---------------------------------------------------------------------------
(* The requests *)

Begin(steps, entry, login) ==
    /\ edit = NoJob
    /\ requests < MaxRequests
    /\ requests' = requests + 1
    /\ edit' = [todo |-> steps, entry |-> entry, login |-> login]
    /\ UNCHANGED <<catalog, mirror, logins, pull>>

Typed == [due |-> FALSE]

Add(n, entry) ==
    \E login \in {None, Typed} :
        /\ kept' = kept
        /\ Begin(AddSteps(n, entry.route, login), entry, login)

(* Metadata, address or route, with a login typed or cleared or neither. *)
Edit(n, root, route) ==
    /\ Known(n)
    /\ \E login \in {None, Typed, Clear} :
        /\ kept' = IF login = Clear THEN KeptWithout(n) ELSE kept
        /\ Begin(EditSteps(n, mirror[n].route, route) \o LoginStep(n, login),
                 [mirror[n] EXCEPT !.root = root, !.route = route], login)

(* Only the login: nothing leaves this computer. *)
ChangeLogin(n) ==
    /\ Known(n)
    /\ \E login \in {Typed, Clear} :
        /\ kept' = IF login = Clear THEN KeptWithout(n) ELSE kept
        /\ Begin(LoginStep(n, login), mirror[n], login)

(* The login saved under the old name is read although it may be due for a *)
(* confirmation, unless another one is typed or the user clears it.        *)
Rename(old, new) ==
    /\ Known(old) /\ old # new /\ Host[old] = Host[new]
    /\ \/ /\ kept' = kept
          /\ \E login \in {logins[old], Typed} :
                Begin(RenameSteps(old, new, mirror[old].route, login),
                      mirror[old], login)
       \/ /\ kept' = KeptWithout(old)
          /\ Begin(RenameSteps(old, new, mirror[old].route, None), mirror[old], None)

Remove(n) ==
    /\ Known(n)
    /\ kept' = KeptWithout(n)
    /\ Begin(RemoveSteps(n, mirror[n].route), None, None)

(* The user confirms that a login is still to be kept. *)
Confirm(n) ==
    /\ edit = NoJob
    /\ logins[n] # None
    /\ logins' = [logins EXCEPT ![n].due = FALSE]
    /\ UNCHANGED <<catalog, mirror, edit, pull, kept, requests>>

---------------------------------------------------------------------------
(* The steps *)

Doing(step, n) == edit.todo # <<>> /\ Head(edit.todo) = <<step, n>>
Stepped(left) == IF left = <<>> THEN NoJob ELSE [edit EXCEPT !.todo = left]
Proceed == edit' = Stepped(Tail(edit.todo))
(* The step is done; then comes the next one, or its answer is lost. *)
ProceedOrEnd == Proceed \/ edit' = NoJob

(* server-add of the gateway replaces a server of that name. *)
Register(n) ==
    /\ Doing("register", n)
    /\ catalog' = [catalog EXCEPT ![n] = [root |-> edit.entry.root]]
    /\ ProceedOrEnd
    /\ UNCHANGED <<mirror, logins, pull, kept, requests>>

(* server-edit refuses a name the gateway does not have. *)
Amend(n) ==
    /\ Doing("amend", n) /\ catalog[n] # None
    /\ catalog' = [catalog EXCEPT ![n].root = edit.entry.root]
    /\ ProceedOrEnd
    /\ UNCHANGED <<mirror, logins, pull, kept, requests>>

Unregister(n) ==
    /\ Doing("unregister", n) /\ catalog[n] # None
    /\ catalog' = [catalog EXCEPT ![n] = None]
    /\ ProceedOrEnd
    /\ UNCHANGED <<mirror, logins, pull, kept, requests>>

Upsert(n) ==
    /\ Doing("upsert", n)
    /\ mirror' = [mirror EXCEPT ![n] = edit.entry]
    /\ Proceed
    /\ UNCHANGED <<catalog, logins, pull, kept, requests>>

(* An added direct server gets its login first; else the mirror must know  *)
(* the server.  Saving a login counts as a confirmation.                   *)
StoreLogin(n) ==
    /\ Doing("login", n)
    /\ Known(n) \/ (Len(edit.todo) = 2 /\ edit.todo[2] = <<"upsert", n>>)
    /\ logins' = [logins EXCEPT ![n] = [edit.login EXCEPT !.due = FALSE]]
    /\ kept' = IF catalog[n] # None THEN kept \cup ({Host[n]} \cap VlabHosts) ELSE kept
    /\ Proceed
    /\ UNCHANGED <<catalog, mirror, pull, requests>>

(* remove_server: the mirror first, then the login of that name. *)
Drop(n) ==
    /\ Doing("drop", n)
    /\ mirror' = [mirror EXCEPT ![n] = None]
    /\ Proceed
    /\ UNCHANGED <<catalog, logins, pull, kept, requests>>

Forget(n) ==
    /\ Doing("forget", n)
    /\ logins' = [logins EXCEPT ![n] = None]
    /\ Proceed
    /\ UNCHANGED <<catalog, mirror, pull, kept, requests>>

(* The call fails, the step is refused, or the program ends. *)
GiveUp ==
    /\ edit # NoJob
    /\ edit' = NoJob
    /\ UNCHANGED <<catalog, mirror, logins, pull, kept, requests>>

(* A login is due for a confirmation some days after the last one. *)
Expire(n) ==
    /\ logins[n] # None
    /\ logins' = [logins EXCEPT ![n].due = TRUE]
    /\ UNCHANGED <<catalog, mirror, edit, pull, kept, requests>>

---------------------------------------------------------------------------
(* refresh_server_mirror *)

(* A mirror that holds direct servers only is left alone. *)
HasVlab(local) == (\A n \in Names : local[n] = None) \/ (\E n \in Names : OnVlab(local[n]))

\* Mutant: the servers the mirror knew are kept.
Added(local, remote) ==
    [n \in Names |->
        IF local[n] # None THEN local[n]
        ELSE IF remote[n] = None THEN None
        ELSE [root |-> remote[n].root, route |-> "vlab"]]

(* The catalog's servers with the route the mirror knew for them, and the *)
(* direct servers the mirror had when the refresh began.                  *)
Merged(local, remote) ==
    [n \in Names |->
        IF remote[n] # None
        THEN [root |-> remote[n].root,
              route |-> IF local[n] = None THEN "vlab" ELSE local[n].route]
        ELSE IF OnVlab(local[n]) THEN None ELSE local[n]]

Ask ==
    /\ pull = NoPull
    /\ HasVlab(mirror)
    /\ pull' = [at |-> "asked", local |-> mirror]
    /\ UNCHANGED <<catalog, mirror, logins, edit, kept, requests>>

Answer ==
    /\ pull.at = "asked"
    /\ pull' = [at |-> "answered", local |-> pull.local, remote |-> catalog]
    /\ UNCHANGED <<catalog, mirror, logins, edit, kept, requests>>

NoAnswer ==
    /\ pull.at = "asked"
    /\ pull' = NoPull
    /\ UNCHANGED <<catalog, mirror, logins, edit, kept, requests>>

SavePull ==
    /\ pull.at = "answered"
    /\ mirror' = Merged(pull.local, pull.remote)
    /\ pull' = NoPull
    /\ UNCHANGED <<catalog, logins, edit, kept, requests>>

Step(n) ==
    \/ Register(n) \/ Amend(n) \/ Unregister(n) \/ Upsert(n)
    \/ StoreLogin(n) \/ Drop(n) \/ Forget(n)

Next ==
    \/ \E n \in Names :
        \/ \E e \in {e \in Entries : e.route \in Routes(n)} : Add(n, e)
        \/ \E root \in Roots, route \in Routes(n) : Edit(n, root, route)
        \/ \E m \in Names : Rename(n, m)
        \/ ChangeLogin(n) \/ Remove(n) \/ Confirm(n) \/ Expire(n) \/ Step(n)
    \/ GiveUp \/ Ask \/ Answer \/ NoAnswer \/ SavePull

(* A request ends; a refresh precedes every use of a session and, now and *)
(* then, the gateway answers.                                             *)
Fairness ==
    /\ WF_vars(GiveUp \/ \E n \in Names : Step(n))
    /\ WF_vars(Ask) /\ SF_vars(Answer) /\ WF_vars(SavePull)
Spec == Init /\ [][Next]_vars
FairSpec == Spec /\ Fairness

---------------------------------------------------------------------------
(* Properties *)

(* Every variable keeps its shape, and no step is left behind. *)
TypeOK ==
    /\ catalog \in [Names -> Registered \cup {None}]
    /\ mirror \in [Names -> Entries \cup {None}]
    /\ logins \in [Names -> Logins \cup {None}]
    /\ \A i \in 1..Len(edit.todo) : edit.todo[i] \in Steps
    /\ edit = NoJob \/ edit.todo # <<>>
    /\ pull.at \in {"idle", "asked", "answered"}
    /\ kept \subseteq VlabHosts
    /\ requests \in 0..MaxRequests

(* A host behind Vlab whose login was saved can be logged in to under one of *)
(* its names until the user removes it or clears the login: no rename, edit  *)
(* or refresh that stops halfway loses the server or its login.              *)
LoginKept == \A h \in kept : \E n \in Names : Host[n] = h /\ LoginUnder(n)

(* When the edits end, the mirror comes to hold exactly what the gateway  *)
(* has, and the direct servers.                                           *)
Agrees(n) ==
    /\ catalog[n] # None =>
        mirror[n] # None /\ mirror[n].root = catalog[n].root
    /\ catalog[n] = None => ~OnVlab(mirror[n])
Converges == <>[](HasVlab(mirror) => \A n \in Names : Agrees(n))
===========================================================================
